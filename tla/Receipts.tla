--------------------------------- MODULE Receipts ---------------------------------
(***************************************************************************)
(* One gate pass and those who write the whole of it back: the edit of a   *)
(* pass, the approval of an adjustment, the catch-up delivery and the      *)
(* reopening of a pass that a note had closed.  Each reads the document,   *)
(* decides, awaits other collections, and replaces the document by the     *)
(* changed copy.  Only the approval makes sure that the document has not   *)
(* changed meanwhile (by updated_at).                                      *)
(*                                                                         *)
(* Deliveries and their cancellation are one step each: DeliveryLedger     *)
(* has their interleavings.  A line is an item and a specification; all    *)
(* lines are of one item, which is what bills count.  RECEIVED stands for  *)
(* the open workflow states.  Numbers, versions and returns are elsewhere. *)
(* The module says what the bills are told (pc "sync"); Billing does it.   *)
(***************************************************************************)
EXTENDS Integers, FiniteSets, Functions

CONSTANTS Lines,        \* lines of the gate pass
          Deliveries,   \* delivery records that may come to exist
          Adjustments,  \* adjustment requests that may come to exist
          Slots,        \* users with a request in flight
          None,         \* not an adjustment, delivery or line
          MaxQty,       \* bound: pieces received on one line
          FirstItems,   \* the items of the pass when it is received
          Papers,       \* items users enter when they edit the pass
          Loads,        \* what deliveries take: line -> pieces
          Corrections,  \* [line, qty] adjustments ask for
          MaxRequests   \* bound: operations users begin in a behaviour

Items == [Lines -> [qty: 0..MaxQty, rewashed: BOOLEAN]]

ASSUME IdsAssumption == /\ IsFiniteSet(Lines) /\ IsFiniteSet(Deliveries)
                        /\ IsFiniteSet(Adjustments) /\ IsFiniteSet(Slots)
                        /\ None \notin Deliveries \cup Adjustments \cup Slots
ASSUME QuantitiesAssumption == /\ MaxQty \in Nat /\ MaxRequests \in Nat
                               /\ FirstItems \in Items
                               /\ Papers \subseteq Items
                               /\ Loads \subseteq [Lines -> 0..MaxQty]
                               /\ Corrections \subseteq [line: Lines, qty: 0..MaxQty]
                               /\ Corrections # {}

VARIABLES pass,         \* the gate pass: items, status, and the note that closed it
          deliveries,   \* delivery -> status and load
          adjustments,  \* adjustment -> status, line, quantity, requester
          request,      \* user -> what the request in flight has read and will write
          started,      \* operations begun so far, for the bound
          latest,       \* history: the items the accepted operations amount to
          applied       \* history: how often an adjustment changed the pass

receiptVars == <<pass, deliveries, adjustments, request, started, latest, applied>>

-----------------------------------------------------------------------------
(* The documents. *)

PassStatuses == {"RECEIVED", "PARTIALLY_DELIVERED", "DELIVERED", "CANCELLED"}

(* `marked` is marked_delivered, the closing by a note of earlier versions. *)
Pass == [items: Items, status: PassStatuses, marked: BOOLEAN]

NoLoad == [l \in Lines |-> 0]

Delivery == [status: {"NONE", "DELIVERED", "CANCELLED"}, load: [Lines -> 0..MaxQty]]

NoDelivery == [status |-> "NONE", load |-> NoLoad]

AnyCorrection == CHOOSE c \in Corrections : TRUE

Adjustment == [status: {"NONE", "REQUESTED", "APPROVING", "APPROVED", "REJECTED"},
               change: Corrections, by: Slots \cup {None}]

NoAdjustment == [status |-> "NONE", change |-> AnyCorrection, by |-> None]

FirstPass == [items |-> FirstItems, status |-> "RECEIVED", marked |-> FALSE]

(* `pass` is the document about to be written.  For an approval, `current`:  *)
(* updated_at in the database is still the one it read; for the others,      *)
(* `unchanged`: the items are still those they read (only `latest` asks).    *)
Request == [pc: {"idle", "movements", "reopenMovements", "claim", "replace", "reopen",
                 "plan", "refresh", "putBack", "release", "sync", "approved"},
            adjustment: Adjustments \cup {None}, delivery: Deliveries \cup {None},
            load: [Lines -> 0..MaxQty], pass: Pass, edits: BOOLEAN,
            current: BOOLEAN, unchanged: BOOLEAN]

IdleRequest == [pc |-> "idle", adjustment |-> None, delivery |-> None, load |-> NoLoad,
                pass |-> FirstPass, edits |-> FALSE, current |-> FALSE,
                unchanged |-> FALSE]

ReceiptTypes == /\ pass \in Pass
                /\ deliveries \in [Deliveries -> Delivery]
                /\ adjustments \in [Adjustments -> Adjustment]
                /\ request \in [Slots -> Request]
                /\ started \in 0..MaxRequests
                /\ latest \in Items
                /\ applied \in [Adjustments -> Nat]

-----------------------------------------------------------------------------
(* The balance engine, for one pass. *)

AtLeastZero(n) == IF n < 0 THEN 0 ELSE n

Moving(docs) == {d \in Deliveries : docs[d].status = "DELIVERED"}

Delivered(docs, l) ==
  SumFunctionOnSet([d \in Deliveries |-> docs[d].load[l]], Moving(docs))

DeliveredInAll(docs) == SumFunctionOnSet([l \in Lines |-> Delivered(docs, l)], Lines)

Outstanding(items, docs, l) == AtLeastZero(items[l].qty - Delivered(docs, l))

(* A pass that a note has closed counts as delivered. *)
DerivedStatus(items, docs, marked, st) ==
  IF st = "CANCELLED"                                               THEN st
  ELSE IF marked \/ \A l \in Lines : Outstanding(items, docs, l) = 0 THEN "DELIVERED"
  ELSE IF DeliveredInAll(docs) > 0                                  THEN "PARTIALLY_DELIVERED"
  ELSE st

Refreshed(p, docs) ==
  [p EXCEPT !.status = DerivedStatus(p.items, docs, p.marked, p.status)]

-----------------------------------------------------------------------------
(* Requests. *)

ReceiptInit ==
  /\ \E legacy \in BOOLEAN :
       pass = [FirstPass EXCEPT !.marked = legacy,
                                !.status = IF legacy THEN "DELIVERED" ELSE "RECEIVED"]
  /\ deliveries = [d \in Deliveries |-> NoDelivery]
  /\ adjustments = [a \in Adjustments |-> NoAdjustment]
  /\ request = [s \in Slots |-> IdleRequest]
  /\ started = 0
  /\ latest = FirstItems
  /\ applied = [a \in Adjustments |-> 0]

(* Every operation a user begins counts towards the bound. *)
Count == started < MaxRequests /\ started' = started + 1

Begin(s, req) ==
  /\ request[s].pc = "idle" /\ Count
  /\ request' = [request EXCEPT ![s] =
       [req EXCEPT !.current = (req.adjustment # None), !.unchanged = (req.adjustment = None)]]
  /\ UNCHANGED <<pass, deliveries, adjustments, latest, applied>>

Goto(s, pc) == request' = [request EXCEPT ![s].pc = pc]

Finish(s) == request' = [request EXCEPT ![s] = IdleRequest]

(* What a write of the pass means to those who have read it before. *)
Outdated(reqs, new) ==
  [s \in Slots |->
     [reqs[s] EXCEPT !.current = @ /\ new = pass,
                     !.unchanged = @ /\ new.items = pass.items]]

(* A write by the request of `s`, which goes on as `req`; `new.updated_at`    *)
(* is always fresh, so the others' copies are no longer current.             *)
WritePass(s, new, req) ==
  /\ pass' = new
  /\ request' = [t \in Slots |->
       IF t = s THEN req
       ELSE [request[t] EXCEPT !.current = FALSE,
                               !.unchanged = @ /\ new.items = pass.items]]

(* What is next once the bills have been told. *)
Synced(s) ==
  IF request[s].adjustment = None THEN IdleRequest
  ELSE [request[s] EXCEPT !.pc = "approved", !.pass = FirstPass]

-----------------------------------------------------------------------------
(* update_gate_pass. *)

(* Without items (paper = None) only names and notes change. *)
StartEdit(s, paper) ==
  /\ pass.status \notin {"DELIVERED", "PARTIALLY_DELIVERED", "CANCELLED"}
  /\ Begin(s, IF paper = None
              THEN [IdleRequest EXCEPT !.pc = "replace", !.pass = pass]
              ELSE [IdleRequest EXCEPT !.pc = "movements", !.edits = TRUE,
                                       !.pass = [pass EXCEPT !.items = paper]])

(* Quantities of a pass with movements are for the adjustments to change. *)
CountMovements(s) ==
  /\ request[s].pc = "movements" /\ request[s].edits
  /\ IF Moving(deliveries) = {} THEN Goto(s, "replace") ELSE Finish(s)
  /\ UNCHANGED <<pass, deliveries, adjustments, started, latest, applied>>

(* replace_one, whatever the document has become since. *)
ReplaceEdited(s) ==
  LET req == request[s] IN
  /\ req.pc = "replace" /\ req.adjustment = None
  /\ WritePass(s, req.pass,
       IF req.edits THEN [req EXCEPT !.pc = "sync", !.current = FALSE, !.unchanged = FALSE]
                    ELSE IdleRequest)
  /\ latest' = IF req.edits \/ ~req.unchanged THEN req.pass.items ELSE latest
  /\ UNCHANGED <<deliveries, adjustments, started, applied>>

-----------------------------------------------------------------------------
(* catch_up_delivery and _reopen_legacy_doc. *)

StartCatchUp(s, d, load) ==
  /\ pass.status \notin {"DELIVERED", "CANCELLED"}
  /\ Begin(s, [IdleRequest EXCEPT !.pc = "plan", !.delivery = d, !.load = load,
                                  !.pass = pass])

(* plan_delivery_lines: the lines are on an open pass that still has them. *)
Plannable(load) ==
  /\ pass.status # "CANCELLED"
  /\ \E l \in Lines : load[l] > 0
  /\ \A l \in Lines : load[l] <= Outstanding(pass.items, deliveries, l)

RecordCatchUp(s) ==
  LET req == request[s] IN
  /\ req.pc = "plan"
  /\ IF deliveries[req.delivery].status = "NONE" /\ Plannable(req.load)
     THEN /\ deliveries' = [deliveries EXCEPT ![req.delivery] =
               [status |-> "DELIVERED", load |-> req.load]]
          /\ Goto(s, "refresh")
     ELSE Finish(s) /\ UNCHANGED deliveries
  /\ UNCHANGED <<pass, adjustments, started, latest, applied>>

(* refresh_gate_pass_statuses, and the status is read again. *)
RefreshAndReread(s) ==
  LET new == Refreshed(pass, deliveries) IN
  /\ request[s].pc = "refresh"
  /\ pass' = new
  /\ request' = [Outdated(request, new) EXCEPT
       ![s] = [request[s] EXCEPT !.pc = "putBack", !.pass.status = new.status]]
  /\ UNCHANGED <<deliveries, adjustments, started, latest, applied>>

(* The copy read at the very beginning, with the status of now. *)
PutPassBack(s) ==
  LET req == request[s] IN
  /\ req.pc = "putBack"
  /\ WritePass(s, req.pass, IdleRequest)
  /\ latest' = IF req.unchanged THEN latest ELSE req.pass.items
  /\ UNCHANGED <<deliveries, adjustments, started, applied>>

StartReopen(s) ==
  /\ pass.marked
  /\ Begin(s, [IdleRequest EXCEPT !.pc = "reopenMovements",
       !.pass = [pass EXCEPT !.marked = FALSE, !.status = "RECEIVED"]])

CountBeforeReopening(s) ==
  /\ request[s].pc = "reopenMovements"
  /\ IF Moving(deliveries) = {} THEN Goto(s, "reopen") ELSE Finish(s)
  /\ UNCHANGED <<pass, deliveries, adjustments, started, latest, applied>>

Reopen(s) ==
  LET req == request[s] IN
  /\ req.pc = "reopen"
  /\ WritePass(s, req.pass, IdleRequest)
  /\ latest' = IF req.unchanged THEN latest ELSE req.pass.items
  /\ UNCHANGED <<deliveries, adjustments, started, applied>>

-----------------------------------------------------------------------------
(* Adjustments. *)

(* create_adjustment_request, also behind POST /gatepasses/{id}/adjust, by   *)
(* one of the users here or (None) by somebody else.                         *)
RequestAdjustment(s, a, change) ==
  /\ Count
  /\ pass.status # "CANCELLED"
  /\ adjustments[a].status = "NONE"
  /\ adjustments' = [adjustments EXCEPT ![a] =
       [status |-> "REQUESTED", change |-> change, by |-> s]]
  /\ UNCHANGED <<pass, deliveries, request, latest, applied>>

(* apply_received_correction *)
Corrected(items, change) == [items EXCEPT ![change.line].qty = change.qty]

(* The requester does not approve; the adjustment, then the pass is read. *)
StartApproval(s, a) ==
  /\ adjustments[a].status = "REQUESTED" /\ adjustments[a].by # s
  /\ pass.status # "CANCELLED"
  /\ Begin(s, [IdleRequest EXCEPT !.pc = "movements", !.adjustment = a,
       !.pass = [pass EXCEPT !.items = Corrected(@, adjustments[a].change)]])

(* The status follows from the movements; here the note does not count. *)
LoadMovements(s) ==
  LET new == request[s].pass IN
  /\ request[s].pc = "movements" /\ ~request[s].edits
  /\ request' = [request EXCEPT ![s] = [@ EXCEPT !.pc = "claim",
       !.pass.status = DerivedStatus(new.items, deliveries, FALSE, new.status)]]
  /\ UNCHANGED <<pass, deliveries, adjustments, started, latest, applied>>

(* Mutant: the status is looked at, but the claim is not written. *)
ClaimAdjustment_LooksOnly(s) ==
  /\ request[s].pc = "claim"
  /\ IF adjustments[request[s].adjustment].status = "REQUESTED" THEN Goto(s, "replace")
                                                               ELSE Finish(s)
  /\ UNCHANGED <<pass, deliveries, adjustments, started, latest, applied>>

(* update_one on the status that was read: of two approvals one goes on. *)
ClaimAdjustment(s) ==
  LET a == request[s].adjustment IN
  /\ request[s].pc = "claim"
  /\ IF adjustments[a].status = "REQUESTED"
     THEN /\ adjustments' = [adjustments EXCEPT ![a].status = "APPROVING"]
          /\ Goto(s, "replace")
     ELSE Finish(s) /\ UNCHANGED adjustments
  /\ UNCHANGED <<pass, deliveries, started, latest, applied>>

(* Mutant: the filter has the id of the pass only. *)
Unmodified_AnyVersion(req) == TRUE

(* The filter of the replacement: updated_at as it was read. *)
Unmodified(req) == req.current

ReplaceCorrected(s) ==
  LET req == request[s]
      a   == req.adjustment IN
  /\ req.pc = "replace" /\ a # None
  /\ IF Unmodified(req)
     THEN /\ WritePass(s, req.pass,
               [req EXCEPT !.pc = "sync", !.current = FALSE, !.unchanged = FALSE])
          /\ latest' = Corrected(latest, adjustments[a].change)
          /\ applied' = [applied EXCEPT ![a] = @ + 1]
     ELSE Goto(s, "release") /\ UNCHANGED <<pass, latest, applied>>
  /\ UNCHANGED <<deliveries, adjustments, started>>

(* Only what is still APPROVING moves on, back or forth. *)
Settle(s, st) ==
  LET a == request[s].adjustment IN
  /\ adjustments' = IF adjustments[a].status = "APPROVING"
                    THEN [adjustments EXCEPT ![a].status = st] ELSE adjustments
  /\ Finish(s)
  /\ UNCHANGED <<pass, deliveries, started, latest, applied>>

ReleaseAdjustment(s) == request[s].pc = "release" /\ Settle(s, "REQUESTED")

MarkApproved(s) == request[s].pc = "approved" /\ Settle(s, "APPROVED")

RejectAdjustment(a) ==
  /\ Count
  /\ adjustments[a].status = "REQUESTED"
  /\ adjustments' = [adjustments EXCEPT ![a].status = "REJECTED"]
  /\ UNCHANGED <<pass, deliveries, request, latest, applied>>

-----------------------------------------------------------------------------
(* What others do to the pass, in one step each. *)

(* create_delivery, then cancel_delivery: write and refresh the status. *)
MoveLinen(docs) ==
  LET new == Refreshed(pass, docs) IN
  /\ Count
  /\ deliveries' = docs
  /\ pass' = new
  /\ request' = Outdated(request, new)
  /\ UNCHANGED <<adjustments, latest, applied>>

Deliver(d, load) ==
  /\ deliveries[d].status = "NONE" /\ Plannable(load)
  /\ MoveLinen([deliveries EXCEPT ![d] = [status |-> "DELIVERED", load |-> load]])

CancelDelivery(d) ==
  /\ deliveries[d].status = "DELIVERED"
  /\ MoveLinen([deliveries EXCEPT ![d].status = "CANCELLED"])

(* update_gate_pass_status to CANCELLED: an open pass nothing was taken from. *)
CancelPass ==
  /\ Count
  /\ pass.status = "RECEIVED" /\ Moving(deliveries) = {}
  /\ pass' = [pass EXCEPT !.status = "CANCELLED"]
  /\ request' = Outdated(request, pass')
  /\ UNCHANGED <<deliveries, adjustments, latest, applied>>

(* The process dies between two steps of a request. *)
Crash(s) ==
  /\ request[s].pc # "idle"
  /\ Finish(s)
  /\ UNCHANGED <<pass, deliveries, adjustments, started, latest, applied>>

ReceiptStep ==
  \/ \E s \in Slots :
       \/ \E paper \in Papers \cup {None} : StartEdit(s, paper)
       \/ \E d \in Deliveries, load \in Loads : StartCatchUp(s, d, load)
       \/ \E a \in Adjustments : StartApproval(s, a)
       \/ StartReopen(s)
       \/ CountMovements(s) \/ ReplaceEdited(s)
       \/ RecordCatchUp(s) \/ RefreshAndReread(s) \/ PutPassBack(s)
       \/ CountBeforeReopening(s) \/ Reopen(s)
       \/ LoadMovements(s) \/ ClaimAdjustment(s) \/ ReplaceCorrected(s)
       \/ ReleaseAdjustment(s) \/ MarkApproved(s) \/ Crash(s)
  \/ \E s \in Slots \cup {None}, a \in Adjustments, c \in Corrections :
       RequestAdjustment(s, a, c)
  \/ \E a \in Adjustments : RejectAdjustment(a)
  \/ \E d \in Deliveries, load \in Loads : Deliver(d, load)
  \/ \E d \in Deliveries : CancelDelivery(d)
  \/ CancelPass

-----------------------------------------------------------------------------
(* Properties. *)

(* The received quantities are those of the operations that were accepted,   *)
(* one after the other: an approved correction, in particular, is undone by  *)
(* nothing but a later edit or correction, or a writer (edit, catch-up,      *)
(* reopening) that had read the items before it, which `latest` excuses.     *)
(* Two approvals at once, and approvals beside deliveries, never lose one    *)
(* another (approve_adjustment's filter on updated_at).                      *)
CorrectionsStand == pass.items = latest

(* An adjustment changes the pass once when it is approved, never when it is *)
(* open or rejected, and never twice, whatever approvals, rejections and     *)
(* crashes meet (the claim as APPROVING, and the conditional updates).       *)
AppliedOnce ==
  \A a \in Adjustments :
    /\ applied[a] <= 1
    /\ adjustments[a].status = "APPROVED" => applied[a] = 1
    /\ adjustments[a].status \in {"NONE", "REQUESTED", "REJECTED"} => applied[a] = 0

=============================================================================
