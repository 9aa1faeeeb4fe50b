----------------------------- MODULE MCReplication -----------------------------
(* Instances of Replication for TLC. *)
EXTENDS ReplicationInv, TLC

CONSTANTS h1, h2, h3, w1, w2

(* Request slots and workers are interchangeable: sound for invariants. *)
Slots == Permutations(Handlers) \cup Permutations(Workers)
================================================================================
