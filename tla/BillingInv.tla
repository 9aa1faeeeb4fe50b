------------------------------- MODULE BillingInv -------------------------------
(***************************************************************************)
(* The inductive invariant behind the ceiling of the bills and the         *)
(* propagation of corrections: what the users with a bill in hand have     *)
(* read, as long as nothing has overtaken it, and who is about to tell the *)
(* bills of a correction.                                                  *)
(***************************************************************************)
EXTENDS Billing

Users == Slots \cup Cashiers

(* Deliveries that have been made never start again, and a bill names no      *)
(* other: one that begins is on no bill.                                     *)
Made == {d \in Deliveries : deliveries[d].status # "NONE"}

(* Cashiers have a bill in hand, correctors the bills they still have to tell. *)
JobShape(w, job) ==
  /\ w \in Slots => /\ job.pc \in {"idle", "write"}
                    /\ job.pc = "write" => request[w].pc = "sync" /\ job.todo # {}
  /\ w \in Cashiers => /\ job.pc # "write"
                       /\ job.pc # "idle" => job.id \in Bills
  /\ job.bill.deliveries \subseteq Made
  /\ \A b \in Bills : job.found[b].deliveries \subseteq Made

(* What is in hand fits what there is now.                                   *)
JobFits(w, job) ==
  /\ job.pc = "billed" => job.received = Received(pass.items)
  /\ job.pc = "insert" =>
       Within(job.bill, AtLeastZero(Received(pass.items) - Pieces(OnPass)))
  /\ job.pc = "replace" /\ job.bill.pass => Within(job.bill, EditCeiling(job.id))
  /\ job.pc = "write" => \A b \in job.todo :
       job.found[b] = Propagated(bills[b], Received(request[w].pass.items))

(* It does unless it has been overtaken.                                     *)
JobSound(w, job) == JobShape(w, job) /\ (job.fresh => JobFits(w, job))

HandsSound == \A w \in Users : JobSound(w, work[w])

BillsNameMade == \A b \in Bills : bills[b].deliveries \subseteq Made

(* A bill that a correction has reached.                                     *)
Follows(doc) ==
  Within(doc, Received(pass.items)) \/ (doc.status = "PAID" /\ doc.noted)

(* Somebody will tell the bills of the receipt as it is, or has been          *)
(* overtaken before all were told.                                           *)
Pursues(s) ==
  /\ request[s].pc = "sync"
  /\ \/ work[s].pc = "idle" /\ request[s].pass.items = pass.items
     \/ work[s].pc = "write" /\ ~work[s].fresh
     \/ /\ work[s].pc = "write" /\ request[s].pass.items = pass.items
        /\ \A b \in Linked \ work[s].todo : Follows(bills[b])

Unreached == {"raced", "reopened", "unfinished", "delivered", "reverted"}

CorrectionsPursued ==
  \/ \A b \in Linked : Follows(bills[b])
  \/ \E s \in Slots : Pursues(s)
  \/ excuses \cap Unreached # {}

BillingInv == /\ TypeOK
              /\ HandsSound
              /\ BillsNameMade
              /\ PassCoversBills
              /\ CorrectionsPursued
=============================================================================
