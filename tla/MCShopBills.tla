------------------------------- MODULE MCShopBills -------------------------------
(* Instances of ShopBills for TLC. *)
EXTENDS ShopBillsInv, TLC

Ids == Permutations(Bills) \cup Permutations(Slots)

OneItemOf3 == {OneItem(3)}

SomeEntered == {-2, 2}

(* A fee, and a discount below nothing. *)
SomeCharges == {-5, 0, 5}

(* Items alone; a discount; what would settle the bill by hand; a lock. *)
SomePatches ==
  {[items |-> OneItem(4)], [discounts |-> 5],
   [payment_status |-> "PENDING", noted |-> TRUE], [locked |-> TRUE, taxes |-> 5]}

SomePapers == {[grand_total |-> 2, discount |-> 0], [grand_total |-> 2, discount |-> 2]}
=============================================================================
