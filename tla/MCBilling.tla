-------------------------------- MODULE MCBilling --------------------------------
(* Instances of Billing for TLC. *)
EXTENDS BillingInv, TLC

CONSTANTS king, queen,  \* two specifications of the item
          r1, r2        \* two rows of a bill

Line(n, rewashed) == [qty |-> n, rewashed |-> rewashed]

Two(k, q) == [l \in Lines |-> IF l = king THEN k ELSE q]

(* Two pieces to be charged for, and a free re-wash. *)
TwoAndRewash == Two(Line(2, FALSE), Line(1, TRUE))

SomePapers == {Two(Line(1, FALSE), Line(1, FALSE))}

SomeLoads == {Two(2, 1), Two(1, 1)}

SomeCorrections == {[line |-> king, qty |-> 1], [line |-> queen, qty |-> 0]}

Rowed(n, more) == [r \in Rows |-> IF r = r1 THEN n ELSE more]

(* One line, or the item named on two. *)
SomeEntries == {Rowed(1, 0), Rowed(2, 2)}

Ids == Permutations(Slots) \cup Permutations(Cashiers) \cup Permutations(Bills)
         \cup Permutations(Deliveries) \cup Permutations(Adjustments)
=============================================================================
