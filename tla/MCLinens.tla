-------------------------------- MODULE MCLinens --------------------------------
(* Instances of Linens for TLC. *)
EXTENDS LinensInv, TLC

(* Two different codes, washed. *)
Pairs == {[codes |-> p, action |-> "complete_wash"] :
            p \in {q \in Linens \X Linens : q[1] # q[2]}}

Ids == Permutations(Linens) \cup Permutations(Slots) \cup Permutations(Screens)
=============================================================================
