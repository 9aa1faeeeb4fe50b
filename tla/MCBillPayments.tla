----------------------------- MODULE MCBillPayments -----------------------------
(* Instances of BillPayments for TLC. *)
EXTENDS BillPayments, TLC

Ids == Permutations(Payments) \cup Permutations(Slots)
=============================================================================
