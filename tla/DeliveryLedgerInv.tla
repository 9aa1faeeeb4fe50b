-------------------------- MODULE DeliveryLedgerInv --------------------------
(***************************************************************************)
(* The inductive invariants behind the theorems about DeliveryLedger.      *)
(*                                                                         *)
(* Why racing creations cannot oversell a pass: a creation inserts its     *)
(* delivery, reads all deliveries, and then the returns.  Of two creations *)
(* whose check is under way, the one that read last has seen the other.    *)
(* What is accepted therefore stays within what was received, together     *)
(* with the deliveries whose check, still under way, has been overtaken:   *)
(* it read before something else was accepted.                             *)
(***************************************************************************)
EXTENDS DeliveryLedger

Inserting(s) == request[s].pc # "idle" /\ request[s].op \in {"create", "draft", "catchUp"}

Planning == {"passes", "movements", "returns", "write"}
Checking == {"checkMovements", "checkReturns", "undo"}

(* A request under way is of a kind that this deployment sends. *)
OpsSent == \A s \in Slots : request[s].pc # "idle" => request[s].op \in Ops

(* The delivery that a creation is about is its own: nobody else inserts it, *)
(* and nobody changes its lines.                                             *)
OwnDelivery ==
  \A s \in Slots :
    /\ request[s].pc \in Checking => request[s].op \in {"create", "catchUp"}
    /\ Inserting(s) =>
         LET d == request[s].delivery IN
         /\ d \in Deliveries
         /\ \A t \in Slots \ {s} : Inserting(t) => request[t].delivery # d
         /\ request[s].pc \in Planning => deliveries[d].status = "NONE"
         /\ request[s].op = "draft" => ~Counts(request[s].new)
         /\ request[s].pc \in Checking /\ Counts(deliveries[d])
              => deliveries[d].lines = request[s].new.lines

(* A line is only ever planned on a pass that was in use when it was read.   *)
PassesInUse ==
  \A s \in Slots : Inserting(s) /\ request[s].pc \in {"write"} \cup Checking =>
    \A p \in Passes : request[s].new.lines[p] > 0
                        => request[s].passes[p] \notin {"DRAFT", "CANCELLED"}

(* What a check has read: its own delivery, and of the others nothing that   *)
(* has been changed rather than withdrawn.                                   *)
CheckReads ==
  \A s \in Slots : request[s].pc = "checkReturns" =>
    \A d \in Deliveries :
      /\ deliveries[d].status = "NONE" => ~Counts(request[s].docs[d])
      /\ Counts(deliveries[d]) /\ Counts(request[s].docs[d])
           => request[s].docs[d].lines = deliveries[d].lines
      /\ d = request[s].delivery /\ Counts(deliveries[d]) => Counts(request[s].docs[d])

(* Of two checks, the one that saw a delivery the other did not has read     *)
(* later, and so saw the delivery of the other.                              *)
CheckOrder ==
  \A s, t \in Slots : request[s].pc = "checkReturns" /\ request[t].pc = "checkReturns" =>
    \A d \in Deliveries :
      /\ Counts(deliveries[d])
      /\ Counts(request[s].docs[d]) /\ ~Counts(request[t].docs[d])
      /\ Counts(deliveries[request[t].delivery])
      => Counts(request[s].docs[request[t].delivery])

(* Accepted pieces that a check has not seen. *)
Overtaken(s, p) == \E x \in AcceptedPieces(p) : x \notin Pieces(request[s].docs, p)

OvertakenPieces(p) ==
  {x \in Pieces(deliveries, p) :
     \E s \in Slots : /\ request[s].pc = "checkReturns" /\ request[s].delivery = x[1]
                      /\ Overtaken(s, p)}

Held(p) == AcceptedPieces(p) \cup OvertakenPieces(p)

(* What is accepted or overtaken stays within what was received. *)
WithinReceived ==
  \A p \in Passes : Cardinality(Held(p)) <= Received[p] + PendingBack(returns, p)

LedgerInv == OpsSent /\ OwnDelivery /\ PassesInUse /\ CheckReads /\ CheckOrder /\ WithinReceived

-----------------------------------------------------------------------------
(* Why a correction lands on the document it was made from.  A timestamp is  *)
(* given to one document only: whatever is stored under a delivery, or kept  *)
(* to be put back by a correction, is the same document if its timestamp is. *)
Correcting(s) == request[s].pc # "idle" /\ request[s].op = "correct"

StampInv ==
  /\ \A d \in Deliveries : deliveries[d].stamp <= clock
  /\ \A s \in Slots : Correcting(s) =>
       LET d == request[s].delivery
           old == request[s].old IN
       /\ d \in Deliveries /\ old.stamp <= clock
       /\ old.stamp # 0 /\ deliveries[d].stamp = old.stamp => deliveries[d] = old
       /\ \A t \in Slots : /\ Correcting(t) /\ request[t].delivery = d
                           /\ old.stamp # 0 /\ request[t].old.stamp = old.stamp
                           => request[t].old = old

-----------------------------------------------------------------------------
(* One request at a time: what it has read is still so, and the books are in *)
(* order but for what it has yet to do.                                      *)
Active(s) == request[s].pc # "idle"

OneAtATime == \A s, t \in Slots : Active(s) /\ Active(t) => s = t

Closed(p) == passes[p] \in {"DRAFT", "CANCELLED"}

(* Nothing draws on a pass that is not in use. *)
ClosedUnused(docs) == \A p \in Passes : Closed(p) => Unused(docs, p)

(* The delivery a request is about, and what it makes of it. *)
PlanShape(rq) ==
  /\ rq.op \in Ops
  /\ rq.op \notin {"return", "resend", "status"} => rq.delivery \in Deliveries
  /\ rq.op \in {"create", "draft", "catchUp"} =>
       /\ rq.new.status \in {"DRAFT", "DELIVERED"} /\ Requested(rq.new.primary, rq.new.lines)
  /\ rq.op = "draft" => rq.new.status = "DRAFT"
  /\ rq.op \in {"activate", "correct", "cancel"} =>
       /\ rq.old.status \in {"DRAFT", "DELIVERED"}
       /\ rq.new.primary = rq.old.primary
       /\ \A p \in Passes : rq.new.lines[p] > 0 => rq.old.lines[p] > 0
  /\ rq.op = "activate" => /\ rq.pc # "returns" /\ (rq.pc \in Planning => rq.old.status = "DRAFT")
                           /\ rq.new = [rq.old EXCEPT !.status = "DELIVERED"]
  /\ rq.op \in {"correct", "cancel"} => rq.new.status = rq.old.status
  /\ rq.op \in {"return", "resend"} => rq.ret \in Returns
  /\ rq.op = "resend" => returns[rq.ret].pass = rq.pass
  /\ rq.op = "status" =>
       /\ rq.pc \in {"movements", "write"} /\ passes[rq.pass] \in {"DRAFT", "RECEIVED"}
       /\ \/ rq.status = "CANCELLED" /\ (rq.pc = "write" => Unused(deliveries, rq.pass))
          \/ rq.status = "RECEIVED" /\ Closed(rq.pass)
  /\ rq.pc \in Checking => rq.op \in {"create", "catchUp", "correct"}
  /\ rq.pc \in {"activated", "activatedStatus"} => rq.op = "activate"

(* Statuses as they were read. *)
PassesKnown(rq) ==
  /\ \/ rq.pc \in {"movements", "returns", "write"} /\ rq.op \notin {"status", "cancel"}
     \/ rq.pc \in Checking \cup {"activated", "activatedStatus", "refreshMovements",
                                 "refreshReturns"}
     => rq.passes = passes
  /\ rq.pc = "persist" => \A p \in rq.todo : rq.passes[p] = passes[p]
  /\ rq.pc = "putBack" => rq.status = passes[rq.pass]

(* The pieces a document stands for. *)
SameLinen(doc, new) ==
  doc.status = new.status /\ doc.primary = new.primary /\ doc.lines = new.lines

(* Documents as they were read, or as the request has written them. *)
DocsKnown(rq) ==
  /\ rq.pc \in Planning /\ rq.op \in {"activate", "correct", "cancel"} =>
       deliveries[rq.delivery] = rq.old
  /\ rq.pc \in {"returns", "checkReturns", "refreshReturns", "persist"} => rq.docs = deliveries
  /\ rq.pc = "write" /\ rq.op = "activate" => rq.docs = deliveries
  /\ rq.pc \in Checking \cup {"activated", "activatedStatus"} =>
       SameLinen(deliveries[rq.delivery], rq.new)
  /\ rq.pc \in {"activated", "activatedStatus"} =>
       \A d \in Deliveries \ {rq.delivery} : deliveries[d] = rq.docs[d]
  /\ rq.pc \in {"persist", "activatedStatus"} => rq.rets = returns

(* What may still be taken back, as if it had been. *)
Restored(rq) ==
  IF rq.pc \notin Checking THEN deliveries
  ELSE [deliveries EXCEPT ![rq.delivery] =
          IF rq.op = "correct" THEN rq.old ELSE [NoDelivery EXCEPT !.status = "GONE"]]

(* A plan is made of what there is. *)
Justified(rq) ==
  rq.pc = "write" =>
    CASE rq.op \in {"create", "draft", "catchUp"} ->
           Plannable(rq.new.lines, passes, deliveries, returns)
      [] rq.op = "correct" ->
           Plannable(rq.new.lines, passes, Without(deliveries, rq.delivery), returns)
      [] rq.op = "activate" -> Activatable(rq.old, deliveries)
      [] OTHER -> TRUE

Consistent(rq) ==
  /\ PlanShape(rq) /\ PassesKnown(rq) /\ DocsKnown(rq) /\ Justified(rq)
  /\ ClosedUnused(Restored(rq))

SequentialInv ==
  ~disturbed =>
    /\ OneAtATime /\ ClosedUnused(deliveries)
    /\ \A s \in Slots : Active(s) => Consistent(request[s])

Balanced(docs, p) ==
  (\A r \in Returns : returns[r] # [state |-> "SENT", pass |-> p]) => ~Oversold(docs, returns, p)

ShowsEmpty(docs, p) ==
  ~Closed(p) /\ Received[p] > 0 /\ Available(docs, returns, p) = 0 => passes[p] = "DELIVERED"

(* Passes whose status a request has yet to refresh. *)
Pending(rq) ==
  CASE rq.pc \in {"refreshPasses", "refreshMovements", "refreshReturns", "activated",
                  "activatedStatus"} -> Affected(rq)
    [] rq.pc = "persist" -> rq.todo
    [] OTHER -> {}

(* An activation looks at the primary pass of its delivery only: no other    *)
(* pass of the same delivery is checked, or refreshed.                       *)
PrimaryPassOnly == Passes = {AnyPass} \/ "activate" \notin Ops

AllBalanced == \A p \in Passes : Balanced(deliveries, p)

Settled == \A p \in Passes : ShowsEmpty(deliveries, p)

InBalance(rq) ==
  \A p \in Passes : /\ Balanced(Restored(rq), p)
                    /\ p \notin Pending(rq) => ShowsEmpty(Restored(rq), p)

BalanceInv ==
  ~disturbed =>
    /\ AllBalanced
    /\ (\A s \in Slots : ~Active(s)) => Settled
    /\ \A s \in Slots : Active(s) => InBalance(request[s])
==============================================================================
