--------------------------- MODULE MCDeliveryLedger ---------------------------
(* Instances of DeliveryLedger for TLC. *)
EXTENDS DeliveryLedgerInv, TLC

CONSTANT Quantity

(* Every pass received the same number of pieces. *)
SameReceived == [p \in Passes |-> Quantity]

Ids == Permutations(Deliveries) \cup Permutations(Returns) \cup Permutations(Slots)
================================================================================
