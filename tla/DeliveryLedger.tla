---------------------------- MODULE DeliveryLedger ----------------------------
(***************************************************************************)
(* The linen ledger: what a hotel handed over on a gate pass, what was     *)
(* delivered back, and what came back again.                               *)
(*                                                                         *)
(* Nothing is transactional.  A request reads passes, deliveries and       *)
(* returns one await after the other, plans against what it read, writes,  *)
(* and (a creation or a correction) reads again to find out whether the    *)
(* ledger is still sound, or else takes its write back.  The steps of all  *)
(* requests interleave.                                                    *)
(*                                                                         *)
(* One kind of item, counted in pieces, on every pass.  RECEIVED stands    *)
(* for the three open workflow states (RECEIVED, PROCESSING,               *)
(* READY_FOR_DELIVERY), which nothing here tells apart.                    *)
(***************************************************************************)
EXTENDS Integers, FiniteSets

CONSTANTS Passes,      \* gate passes
          Received,    \* pass -> pieces received
          Deliveries,  \* delivery documents that may come to exist
          Returns,     \* return documents that may come to exist, one piece each
          Slots,       \* requests in flight at the same time
          None,        \* no document
          Ops,         \* the operations users of this deployment send
          MaxQty,      \* bound: pieces on a delivery line
          MaxRequests  \* bound: requests of a behaviour

AllOps == {"create", "draft", "catchUp", "activate", "correct", "cancel",
           "return", "resend", "status", "crash"}

ASSUME PassesAssumption   == Passes # {}
ASSUME ReceivedAssumption == Received \in [Passes -> Nat]
ASSUME NoneAssumption     == None \notin Deliveries \cup Returns
ASSUME FiniteAssumption   == IsFiniteSet(Deliveries) /\ IsFiniteSet(Returns)
ASSUME OpsAssumption      == Ops \subseteq AllOps
ASSUME BoundsAssumption   == MaxQty \in Nat /\ MaxRequests \in Nat

VARIABLES passes,     \* pass -> stored status
          deliveries, \* delivery -> document
          returns,    \* return -> document
          request,    \* slot -> where its request stands, and what it has read
          clock,      \* stamps given out
          started,    \* requests so far, for the bound
          disturbed   \* history: two requests have overlapped, or one has died

vars == <<passes, deliveries, returns, request, clock, started, disturbed>>

-----------------------------------------------------------------------------
(* Documents. *)

PassStatuses == {"DRAFT", "RECEIVED", "PARTIALLY_DELIVERED", "DELIVERED", "CANCELLED"}

Lines == [Passes -> 0..MaxQty]

(* `stamp` is updated_at (0: the field is missing), `seal` tells apart the   *)
(* ciphertexts of the items.  "NONE": no such id yet, "GONE": deleted.       *)
Delivery == [status: {"NONE", "DRAFT", "DELIVERED", "CANCELLED", "GONE"},
             primary: Passes, lines: Lines, stamp: Nat, seal: Nat]

Return == [state: {"NONE", "PENDING", "SENT"}, pass: Passes]

AnyPass == CHOOSE p \in Passes : TRUE

NoDelivery == [status |-> "NONE", primary |-> AnyPass, lines |-> [p \in Passes |-> 0],
               stamp |-> 0, seal |-> 0]

NoReturn == [state |-> "NONE", pass |-> AnyPass]

Exists(doc) == doc.status \notin {"NONE", "GONE"}

(* source_gate_pass_ids: the passes of the lines, and the primary one. *)
Sources(doc) == {p \in Passes : doc.lines[p] > 0} \cup {doc.primary}

-----------------------------------------------------------------------------
(* The balance engine: pure functions of the documents that were read. *)

(* Quantities are counted as sets of pieces: a line of n pieces adds n.      *)
Counts(doc) == doc.status = "DELIVERED"

Pieces(docs, p) ==
  {x \in Deliveries \X (1..MaxQty) : Counts(docs[x[1]]) /\ x[2] <= docs[x[1]].lines[p]}

Delivered(docs, p) == Cardinality(Pieces(docs, p))

PendingBack(rets, p) == Cardinality({r \in Returns : rets[r] = [state |-> "PENDING", pass |-> p]})

ReturnedBesides(rets, p, self) ==
  Cardinality({r \in Returns \ {self} : rets[r].state # "NONE" /\ rets[r].pass = p})

AtLeastZero(n) == IF n < 0 THEN 0 ELSE n

(* compute_available, and the outstanding quantity: clamped both ways. *)
Available(docs, rets, p) ==
  LET open == AtLeastZero(Received[p] - Delivered(docs, p) + PendingBack(rets, p)) IN
  IF open > Received[p] THEN Received[p] ELSE open

Oversold(docs, rets, p) == Delivered(docs, p) - PendingBack(rets, p) > Received[p]

(* Mutant: an emptied pass is closed, the label of the legacy workflow. *)
DerivedStatus_Closed(docs, rets, p, st) ==
  IF st \in {"CANCELLED", "DRAFT"} THEN st
  ELSE IF Available(docs, rets, p) = 0 THEN "CLOSED" ELSE st

DerivedStatus(docs, rets, p, st) ==
  IF st \in {"CANCELLED", "DRAFT"}       THEN st
  ELSE IF Available(docs, rets, p) = 0   THEN "DELIVERED"
  ELSE IF Delivered(docs, p) > 0         THEN "PARTIALLY_DELIVERED"
  ELSE st

Without(docs, d) == [docs EXCEPT ![d] = NoDelivery]

(* plan_delivery_lines: every line names an open pass that still has it. *)
Plannable(lines, statuses, docs, rets) ==
  \A p \in Passes : lines[p] > 0 =>
    /\ statuses[p] \notin {"DRAFT", "CANCELLED"}
    /\ lines[p] <= Available(docs, rets, p)

(* Mutant: an activation only asks whether the pass ever had that much. *)
Activatable_IgnoresDelivered(doc, docs) ==
  \A p \in Passes : doc.lines[p] <= Received[doc.primary]

(* activate_delivery's own check: every line against the primary pass, minus *)
(* what the deliveries whose primary pass it is took from it; no returns.    *)
Activatable(doc, docs) ==
  LET counted == [d \in Deliveries |->
                    IF docs[d].primary = doc.primary THEN docs[d] ELSE NoDelivery]
      left == AtLeastZero(Received[doc.primary] - Delivered(counted, doc.primary)) IN
  \A p \in Passes : doc.lines[p] > 0 => Received[doc.primary] > 0 /\ doc.lines[p] <= left

-----------------------------------------------------------------------------
(* Requests. *)

PCs == {"idle", "passes", "movements", "returns", "write", "checkMovements",
        "checkReturns", "undo", "refreshPasses", "refreshMovements",
        "refreshReturns", "persist", "activated", "activatedStatus", "reread",
        "putBack"}

(* What a request holds: the delivery, return or pass it is about, the       *)
(* document it read and the one it will write, and its latest snapshots.     *)
Request == [pc: PCs, op: AllOps, delivery: Deliveries \cup {None},
            ret: Returns \cup {None}, pass: Passes, old: Delivery, new: Delivery,
            status: PassStatuses, passes: [Passes -> PassStatuses], docs: [Deliveries -> Delivery],
            rets: [Returns -> Return], todo: SUBSET Passes]

IdleRequest ==
  [pc |-> "idle", op |-> "create", delivery |-> None, ret |-> None, pass |-> AnyPass,
   old |-> NoDelivery, new |-> NoDelivery, status |-> "RECEIVED",
   passes |-> [p \in Passes |-> "RECEIVED"], docs |-> [d \in Deliveries |-> NoDelivery],
   rets |-> [r \in Returns |-> NoReturn], todo |-> {}]

TypeOK ==
  /\ passes \in [Passes -> PassStatuses]
  /\ deliveries \in [Deliveries -> Delivery]
  /\ returns \in [Returns -> Return]
  /\ request \in [Slots -> Request]
  /\ clock \in Nat
  /\ started \in 0..MaxRequests
  /\ disturbed \in BOOLEAN

(* A monthly grid starts its passes as DRAFT, a receiving as RECEIVED. *)
Init ==
  /\ passes \in [Passes -> {"DRAFT", "RECEIVED"}]
  /\ deliveries = [d \in Deliveries |-> NoDelivery]
  /\ returns = [r \in Returns |-> NoReturn]
  /\ request = [s \in Slots |-> IdleRequest]
  /\ clock = 0 /\ started = 0 /\ disturbed = FALSE

DataFrame == UNCHANGED <<passes, deliveries, returns, clock>>

BoundFrame == UNCHANGED <<started, disturbed>>

Goto(s, pc) == request' = [request EXCEPT ![s].pc = pc]

Finish(s) == request' = [request EXCEPT ![s] = IdleRequest]

(* The snapshots have served their purpose and are forgotten. *)
GotoAfresh(s, pc) ==
  request' = [request EXCEPT ![s] = [request[s] EXCEPT
                !.pc = pc, !.docs = IdleRequest.docs, !.rets = IdleRequest.rets]]

(* A new request: `req` is what its first read found. *)
Begin(s, req) ==
  /\ req.op \in Ops
  /\ request[s].pc = "idle" /\ started < MaxRequests
  /\ request' = [request EXCEPT ![s] = req]
  /\ started' = started + 1
  /\ disturbed' = (disturbed \/ \E t \in Slots : request[t].pc # "idle")
  /\ DataFrame

NewDelivery(st, primary, lines) ==
  [status |-> st, primary |-> primary, lines |-> lines, stamp |-> 0, seal |-> 0]

Requested(primary, lines) == lines[primary] > 0

StartCreate(s, d, p, lines, op) ==
  /\ op \in {"create", "draft"} /\ Requested(p, lines)
  /\ Begin(s, [IdleRequest EXCEPT !.pc = "passes", !.op = op, !.delivery = d,
       !.new = NewDelivery(IF op = "draft" THEN "DRAFT" ELSE "DELIVERED", p, lines)])

(* catch_up_delivery: a delivery from one pass that is not closed. *)
StartCatchUp(s, d, p, lines) ==
  /\ passes[p] \notin {"DELIVERED", "CANCELLED"}
  /\ Sources(NewDelivery("DELIVERED", p, lines)) = {p} /\ Requested(p, lines)
  /\ Begin(s, [IdleRequest EXCEPT !.pc = "passes", !.op = "catchUp", !.delivery = d,
       !.pass = p, !.new = NewDelivery("DELIVERED", p, lines)])

StartActivate(s, d) ==
  /\ deliveries[d].status = "DRAFT"
  /\ Begin(s, [IdleRequest EXCEPT !.pc = "passes", !.op = "activate", !.delivery = d,
       !.old = deliveries[d], !.new = [deliveries[d] EXCEPT !.status = "DELIVERED"]])

(* A corrected-to-zero line is dropped, no line can be added. *)
StartCorrect(s, d, lines) ==
  /\ Exists(deliveries[d]) /\ deliveries[d].status # "CANCELLED"
  /\ lines # deliveries[d].lines
  /\ \A p \in Passes : lines[p] > 0 => deliveries[d].lines[p] > 0
  /\ \E p \in Passes : lines[p] > 0
  /\ Begin(s, [IdleRequest EXCEPT !.pc = "passes", !.op = "correct", !.delivery = d,
       !.old = deliveries[d], !.new = [deliveries[d] EXCEPT !.lines = lines]])

StartCancel(s, d) ==
  /\ Exists(deliveries[d]) /\ deliveries[d].status # "CANCELLED"
  /\ Begin(s, [IdleRequest EXCEPT !.pc = "write", !.op = "cancel", !.delivery = d,
       !.old = deliveries[d], !.new = deliveries[d]])

StartReturn(s, r, p) ==
  Begin(s, [IdleRequest EXCEPT !.pc = "passes", !.op = "return", !.ret = r, !.pass = p])

StartResend(s, r) ==
  /\ returns[r].state # "NONE"
  /\ Begin(s, [IdleRequest EXCEPT !.pc = "passes", !.op = "resend", !.ret = r,
       !.pass = returns[r].pass])

(* Manual transitions: DRAFT -> RECEIVED, and DRAFT or an open state -> CANCELLED. *)
StartStatus(s, p, to) ==
  /\ \/ passes[p] = "DRAFT" /\ to \in {"RECEIVED", "CANCELLED"}
     \/ passes[p] = "RECEIVED" /\ to = "CANCELLED"
  /\ Begin(s, [IdleRequest EXCEPT !.op = "status", !.pass = p, !.status = to,
       !.pc = IF to = "CANCELLED" THEN "movements" ELSE "write"])

-----------------------------------------------------------------------------
(* Reading and planning. *)

LoadPasses(s) ==
  /\ request[s].pc = "passes"
  /\ request' = [request EXCEPT ![s].passes = passes, ![s].pc = "movements"]
  /\ DataFrame /\ BoundFrame

(* Mutant: drafts are not looked at when a pass is cancelled. *)
Unused_IgnoresDrafts(docs, p) ==
  \A d \in Deliveries : Counts(docs[d]) => p \notin Sources(docs[d])

(* No delivery of any kind but cancelled ones draws from the pass. *)
Unused(docs, p) ==
  \A d \in Deliveries :
    Exists(docs[d]) /\ docs[d].status # "CANCELLED" => p \notin Sources(docs[d])

(* load_movements reads the deliveries first.  An activation decides here,   *)
(* it plans without the returns; so does the cancellation of a pass.         *)
LoadMovements(s) ==
  LET req == request[s]
      found == [request EXCEPT ![s].docs = deliveries] IN
  /\ req.pc = "movements"
  /\ \/ /\ req.op \notin {"activate", "status"}
        /\ request' = [found EXCEPT ![s].pc = "returns"]
     \/ /\ req.op = "activate" /\ Activatable(req.old, deliveries)
        /\ request' = [found EXCEPT ![s].pc = "write"]
     \/ req.op = "status" /\ Unused(deliveries, req.pass) /\ Goto(s, "write")
     \/ req.op = "activate" /\ ~Activatable(req.old, deliveries) /\ Finish(s)
     \/ req.op = "status" /\ ~Unused(deliveries, req.pass) /\ Finish(s)
  /\ DataFrame /\ BoundFrame

(* What the operation requires of its snapshots.  A return (and a resend,    *)
(* which leaves itself out) must stay within what was delivered.             *)
Accepted(req, rets) ==
  CASE req.op \in {"create", "draft", "catchUp"} ->
         Plannable(req.new.lines, req.passes, req.docs, rets)
    [] req.op = "correct" ->
         Plannable(req.new.lines, req.passes, Without(req.docs, req.delivery), rets)
    [] OTHER ->
         /\ req.passes[req.pass] \notin {"DRAFT", "CANCELLED"}
         /\ ReturnedBesides(rets, req.pass, req.ret) + 1 <= Delivered(req.docs, req.pass)

LoadReturns(s) ==
  /\ request[s].pc = "returns"
  /\ IF Accepted(request[s], returns) THEN GotoAfresh(s, "write") ELSE Finish(s)
  /\ DataFrame /\ BoundFrame

-----------------------------------------------------------------------------
(* Writing. *)

WriteFrame == UNCHANGED <<passes, returns>> /\ BoundFrame

Tick == clock' = clock + 1

(* insert_one; a catch-up delivery carries no updated_at, a draft is not     *)
(* checked again.                                                            *)
Insert(s) ==
  LET req == request[s] IN
  /\ req.pc = "write" /\ req.op \in {"create", "draft", "catchUp"}
  /\ deliveries[req.delivery].status = "NONE"
  /\ Tick
  /\ deliveries' = [deliveries EXCEPT ![req.delivery] =
       [req.new EXCEPT !.seal = clock + 1,
                       !.stamp = IF req.op = "catchUp" THEN 0 ELSE clock + 1]]
  /\ IF req.op = "draft" THEN Finish(s) ELSE Goto(s, "checkMovements")
  /\ WriteFrame

Resealed(doc) == [doc EXCEPT !.stamp = clock + 1, !.seal = clock + 1]

(* activate_delivery replaces whatever is stored by the document it read. *)
Activate(s) ==
  LET req == request[s] IN
  /\ req.pc = "write" /\ req.op = "activate"
  /\ Tick
  /\ deliveries' = [deliveries EXCEPT ![req.delivery] =
       IF Exists(deliveries[req.delivery]) THEN Resealed(req.new)
                                           ELSE deliveries[req.delivery]]
  /\ Goto(s, "activated")
  /\ WriteFrame

(* The filter of the replacement: updated_at as it was read, or the items    *)
(* as they were read when there is no updated_at.                            *)
Unmodified(old, doc) ==
  /\ Exists(doc)
  /\ IF old.stamp # 0 THEN doc.stamp = old.stamp ELSE doc.seal = old.seal

Correct(s) ==
  LET req == request[s] IN
  /\ req.pc = "write" /\ req.op = "correct"
  /\ IF Unmodified(req.old, deliveries[req.delivery])
     THEN /\ Tick
          /\ deliveries' = [deliveries EXCEPT ![req.delivery] = Resealed(req.new)]
          /\ Goto(s, "checkMovements")
     ELSE UNCHANGED <<deliveries, clock>> /\ Finish(s)
  /\ WriteFrame

(* Mutant: a cancellation leaves updated_at alone. *)
Cancel_Unstamped(s) ==
  LET req == request[s]
      doc == deliveries[req.delivery] IN
  /\ req.pc = "write" /\ req.op = "cancel"
  /\ Tick
  /\ deliveries' = [deliveries EXCEPT ![req.delivery] =
       IF Exists(doc) THEN [doc EXCEPT !.status = "CANCELLED"] ELSE doc]
  /\ Goto(s, "refreshPasses")
  /\ WriteFrame

(* update_one of the status, unconditionally. *)
Cancel(s) ==
  LET req == request[s]
      doc == deliveries[req.delivery] IN
  /\ req.pc = "write" /\ req.op = "cancel"
  /\ Tick
  /\ deliveries' = [deliveries EXCEPT ![req.delivery] =
       IF Exists(doc) THEN [doc EXCEPT !.status = "CANCELLED", !.stamp = clock + 1] ELSE doc]
  /\ Goto(s, "refreshPasses")
  /\ WriteFrame

RegisterReturn(s) ==
  LET req == request[s] IN
  /\ req.pc = "write" /\ req.op = "return"
  /\ returns[req.ret].state = "NONE"
  /\ returns' = [returns EXCEPT ![req.ret] = [state |-> "PENDING", pass |-> req.pass]]
  /\ Goto(s, "refreshPasses")
  /\ UNCHANGED <<passes, deliveries, clock>> /\ BoundFrame

MarkResent(s) ==
  LET req == request[s] IN
  /\ req.pc = "write" /\ req.op = "resend"
  /\ returns' = [returns EXCEPT ![req.ret].state = "SENT"]
  /\ Goto(s, "refreshPasses")
  /\ UNCHANGED <<passes, deliveries, clock>> /\ BoundFrame

SetStatus(s) ==
  LET req == request[s] IN
  /\ req.pc = "write" /\ req.op = "status"
  /\ passes' = [passes EXCEPT ![req.pass] = req.status]
  /\ Finish(s)
  /\ UNCHANGED <<deliveries, returns, clock>> /\ BoundFrame

-----------------------------------------------------------------------------
(* Checking again after the write, and taking it back. *)

CheckMovements(s) ==
  /\ request[s].pc = "checkMovements"
  /\ request' = [request EXCEPT ![s].docs = deliveries, ![s].pc = "checkReturns"]
  /\ DataFrame /\ BoundFrame

(* Mutant: what was planned is trusted, the second look finds nothing. *)
Sound_Trusting(req, rets) == TRUE

(* find_oversell_violations, on the passes as they were read at first. *)
Sound(req, rets) ==
  \A p \in Sources(req.new) \cup Sources(req.old) :
    req.passes[p] \in {"DRAFT", "CANCELLED"} \/ ~Oversold(req.docs, rets, p)

CheckReturns(s) ==
  /\ request[s].pc = "checkReturns"
  /\ GotoAfresh(s, IF Sound(request[s], returns) THEN "refreshPasses" ELSE "undo")
  /\ DataFrame /\ BoundFrame

(* A creation is deleted, a correction puts the document back it had read,   *)
(* whatever has become of it meanwhile.                                      *)
Undo(s) ==
  LET req == request[s]
      doc == deliveries[req.delivery] IN
  /\ req.pc = "undo"
  /\ deliveries' = [deliveries EXCEPT ![req.delivery] =
       IF req.op = "correct"
       THEN IF Exists(doc) THEN req.old ELSE doc
       ELSE [NoDelivery EXCEPT !.status = "GONE"]]
  /\ Finish(s)
  /\ UNCHANGED clock /\ WriteFrame

-----------------------------------------------------------------------------
(* refresh_gate_pass_statuses: three reads, then one write per pass whose    *)
(* status, derived from them, differs.                                       *)

Affected(req) ==
  IF req.op \in {"return", "resend"} THEN {req.pass} ELSE Sources(req.new) \cup Sources(req.old)

RefreshPasses(s) ==
  /\ request[s].pc = "refreshPasses"
  /\ request' = [request EXCEPT ![s].passes = passes, ![s].pc = "refreshMovements"]
  /\ DataFrame /\ BoundFrame

RefreshMovements(s) ==
  /\ request[s].pc = "refreshMovements"
  /\ request' = [request EXCEPT ![s].docs = deliveries, ![s].pc = "refreshReturns"]
  /\ DataFrame /\ BoundFrame

RefreshReturns(s) ==
  LET req == request[s]
      stale == {p \in Affected(req) :
                  DerivedStatus(req.docs, returns, p, req.passes[p]) # req.passes[p]} IN
  /\ req.pc = "refreshReturns"
  /\ request' = [request EXCEPT ![s].rets = returns, ![s].todo = stale, ![s].pc = "persist"]
  /\ DataFrame /\ BoundFrame

Persist(s, p) ==
  LET req == request[s] IN
  /\ req.pc = "persist" /\ p \in req.todo
  /\ passes' = [passes EXCEPT ![p] = DerivedStatus(req.docs, req.rets, p, req.passes[p])]
  /\ request' = [request EXCEPT ![s].todo = req.todo \ {p}]
  /\ UNCHANGED <<deliveries, returns, clock>> /\ BoundFrame

Refreshed(s) ==
  /\ request[s].pc = "persist" /\ request[s].todo = {}
  /\ IF request[s].op = "catchUp" THEN GotoAfresh(s, "reread") ELSE Finish(s)
  /\ DataFrame /\ BoundFrame

(* Mutant: the activated delivery itself is left out of the balance. *)
ActivationStatus_WithoutItself(s) ==
  LET req == request[s]
      p == req.new.primary IN
  /\ req.pc = "activatedStatus"
  /\ passes' = [passes EXCEPT ![p] = DerivedStatus(req.docs, req.rets, p, req.passes[p])]
  /\ Finish(s)
  /\ UNCHANGED <<deliveries, returns, clock>> /\ BoundFrame

(* activate_delivery derives the status itself, from the deliveries it saw   *)
(* before its write and its own, and writes it whatever it is.               *)
ActivationReturns(s) ==
  /\ request[s].pc = "activated"
  /\ request' = [request EXCEPT ![s].rets = returns, ![s].pc = "activatedStatus"]
  /\ DataFrame /\ BoundFrame

ActivationStatus(s) ==
  LET req == request[s]
      p == req.new.primary
      counted == [d \in Deliveries |->
                    CASE d = req.delivery -> req.new
                      [] d # req.delivery /\ req.docs[d].primary = p -> req.docs[d]
                      [] OTHER -> NoDelivery] IN
  /\ req.pc = "activatedStatus"
  /\ passes' = [passes EXCEPT ![p] = DerivedStatus(counted, req.rets, p, req.passes[p])]
  /\ Finish(s)
  /\ UNCHANGED <<deliveries, returns, clock>> /\ BoundFrame

(* catch_up_delivery reads the refreshed status and puts the whole pass back. *)
RereadPass(s) ==
  /\ request[s].pc = "reread"
  /\ request' = [request EXCEPT ![s].status = passes[request[s].pass], ![s].pc = "putBack"]
  /\ DataFrame /\ BoundFrame

PutPassBack(s) ==
  /\ request[s].pc = "putBack"
  /\ passes' = [passes EXCEPT ![request[s].pass] = request[s].status]
  /\ Finish(s)
  /\ UNCHANGED <<deliveries, returns, clock>> /\ BoundFrame

(* The process dies, or the database fails, between two awaits of a request. *)
Crash(s) ==
  /\ "crash" \in Ops
  /\ request[s].pc # "idle"
  /\ disturbed' = TRUE
  /\ Finish(s)
  /\ DataFrame /\ UNCHANGED started

-----------------------------------------------------------------------------
(* Document ids are fresh: no document has it, no request is to insert it. *)
Fresh(d) == deliveries[d].status = "NONE" /\ \A s \in Slots : request[s].delivery # d

FreshReturn(r) == returns[r].state = "NONE" /\ \A s \in Slots : request[s].ret # r

NewRequest(s) ==
  \/ \E d \in Deliveries : Fresh(d) /\ \E p \in Passes, lines \in Lines :
       \/ \E op \in {"create", "draft"} : StartCreate(s, d, p, lines, op)
       \/ StartCatchUp(s, d, p, lines)
  \/ \E d \in Deliveries : \/ StartActivate(s, d)
                           \/ \E lines \in Lines : StartCorrect(s, d, lines)
                           \/ StartCancel(s, d)
  \/ \E r \in Returns : \/ FreshReturn(r) /\ \E p \in Passes : StartReturn(s, r, p)
                        \/ StartResend(s, r)
  \/ \E p \in Passes, to \in PassStatuses : StartStatus(s, p, to)

Step(s) == \/ LoadPasses(s)       \/ LoadMovements(s)     \/ LoadReturns(s)
           \/ Insert(s)           \/ Activate(s)          \/ Correct(s)
           \/ Cancel(s)           \/ RegisterReturn(s)    \/ MarkResent(s)
           \/ SetStatus(s)        \/ CheckMovements(s)    \/ CheckReturns(s)
           \/ Undo(s)             \/ RefreshPasses(s)     \/ RefreshMovements(s)
           \/ RefreshReturns(s)   \/ Refreshed(s)         \/ ActivationReturns(s)
           \/ ActivationStatus(s) \/ RereadPass(s)        \/ PutPassBack(s)
           \/ \E p \in Passes : Persist(s, p)

Next == \E s \in Slots : NewRequest(s) \/ Step(s) \/ Crash(s)

Spec == Init /\ [][Next]_vars

-----------------------------------------------------------------------------
(* Properties. *)

(* Written, but not yet checked again. *)
UnderCheck(d) ==
  \E s \in Slots : /\ request[s].pc \in {"checkMovements", "checkReturns", "undo"}
                   /\ request[s].delivery = d

AcceptedPieces(p) == {x \in Pieces(deliveries, p) : ~UnderCheck(x[1])}

(* "A hotel can never hand back more linen than it handed over": what the    *)
(* deliveries that stand took from a pass, less what came back and was not   *)
(* sent again, never exceeds what was received on it, whichever requests     *)
(* race (create_delivery's second check, find_oversell_violations).          *)
NeverOversold ==
  \A p \in Passes : Cardinality(AcceptedPieces(p)) <= Received[p] + PendingBack(returns, p)

(* One request after the other, none of them cut short. *)
Undisturbed == ~disturbed /\ \A s \in Slots : request[s].pc = "idle"

(* No sequence of requests, of whatever kinds, oversells a pass (until a     *)
(* return that was already delivered again is marked as sent, too).          *)
SequentiallySound ==
  Undisturbed =>
    \A p \in Passes : (\A r \in Returns : returns[r] # [state |-> "SENT", pass |-> p])
                        => ~Oversold(deliveries, returns, p)

(* Every operation that changes a quantity leaves the stored status of the   *)
(* pass up to date: a pass in use on which linen was received, with nothing  *)
(* outstanding, shows DELIVERED (refresh_gate_pass_statuses and              *)
(* activate_delivery's own derivation).                                      *)
StatusKeepsUp ==
  Undisturbed =>
    \A p \in Passes : /\ passes[p] \notin {"DRAFT", "CANCELLED"} /\ Received[p] > 0
                       /\ Available(deliveries, returns, p) = 0
                       => passes[p] = "DELIVERED"

(* A pass is cancelled "only if no deliveries were recorded", drafts that    *)
(* may yet be activated included: none of its linen is ever delivered.       *)
CancelledPassUnused ==
  Undisturbed => \A p \in Passes : passes[p] = "CANCELLED" => Pieces(deliveries, p) = {}

(* A correction replaces exactly the document it was made from, never one    *)
(* that an activation, a cancellation or another correction has written      *)
(* meanwhile (correct_delivery_items' conditional write; the deliveries of   *)
(* catch_up_delivery, which carry no timestamp, are left out).               *)
CorrectionLands(s) ==
  /\ request[s].pc = "write" /\ request[s].op = "correct"
  /\ request'[s].pc = "checkMovements"

CorrectionIsFresh ==
  [][\A s \in Slots : CorrectionLands(s) /\ request[s].old.stamp # 0
       => deliveries[request[s].delivery] = request[s].old]_vars
=============================================================================
