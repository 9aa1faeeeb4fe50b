------------------------------ MODULE ReplicaFeed ------------------------------
(***************************************************************************)
(* What the SECONDARY database promises about the MAIN one, with no queue, *)
(* no worker and no lease in sight: a replica holds some state its record  *)
(* really had, only moves forward along the record's history, and once it  *)
(* has dropped a deleted record never brings it back.                      *)
(*                                                                         *)
(* `data` numbers the contents a record has had, oldest first; the content *)
(* of an absent document is the last one it had (0: it never existed).     *)
(***************************************************************************)
EXTENDS Naturals

CONSTANT Records

VARIABLES source,    \* record -> the document in MAIN
          replica    \* record -> the document in SECONDARY

Doc == [present: BOOLEAN, data: Nat]

Absent == [present |-> FALSE, data |-> 0]

Init == source = [r \in Records |-> Absent] /\ replica = [r \in Records |-> Absent]

Forgotten(doc) == ~doc.present /\ doc.data > 0

(* A record is created, edited (again and again), and deleted once. *)
Edit(r) ==
  /\ ~Forgotten(source[r])
  /\ source' = [source EXCEPT ![r] = [present |-> TRUE, data |-> @.data + 1]]
  /\ UNCHANGED replica

Delete(r) ==
  /\ source[r].present
  /\ source' = [source EXCEPT ![r] = [@ EXCEPT !.present = FALSE]]
  /\ UNCHANGED replica

(* The replica takes over any content between its own and the source's: a  *)
(* copy may be late, and may skip contents, but is never a step back.      *)
Follow(r) ==
  /\ ~Forgotten(replica[r])
  /\ \E d \in 1 .. source[r].data :
       /\ replica[r].data <= d
       /\ replica' = [replica EXCEPT ![r] = [present |-> TRUE, data |-> d]]
  /\ UNCHANGED source

(* Replica deletions follow MAIN deletions. *)
Drop(r) ==
  /\ Forgotten(source[r])
  /\ replica' = [replica EXCEPT ![r] = [@ EXCEPT !.present = FALSE]]
  /\ UNCHANGED source

Next == \E r \in Records : Edit(r) \/ Delete(r) \/ Follow(r) \/ Drop(r)

Spec == Init /\ [][Next]_<<source, replica>>
================================================================================
