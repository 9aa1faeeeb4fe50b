--------------------------- MODULE DeliveryLedger_proofs ---------------------------
(* Theorems about DeliveryLedger, for every value of its constants. *)
EXTENDS DeliveryLedgerInv, FiniteSetTheorems, TLAPS

-----------------------------------------------------------------------------
(* Types. *)

LEMMA LinesType == 0 \in 0..MaxQty /\ [p \in Passes |-> 0] \in Lines
  BY BoundsAssumption DEF Lines

LEMMA IdleTypes ==
  /\ AnyPass \in Passes /\ NoDelivery \in Delivery /\ NoReturn \in Return
  /\ IdleRequest \in Request
<1>1. AnyPass \in Passes
  BY PassesAssumption DEF AnyPass
<1>2. NoDelivery \in Delivery /\ NoReturn \in Return
  BY <1>1, LinesType DEF NoDelivery, Delivery, NoReturn, Return
<1>3. /\ [p \in Passes |-> "RECEIVED"] \in [Passes -> PassStatuses]
      /\ [d \in Deliveries |-> NoDelivery] \in [Deliveries -> Delivery]
      /\ [r \in Returns |-> NoReturn] \in [Returns -> Return]
  BY <1>2 DEF PassStatuses
<1>4. IdleRequest \in Request
  BY <1>1, <1>2, <1>3 DEF IdleRequest, Request, PCs, AllOps, PassStatuses
<1> QED BY <1>1, <1>2, <1>4

LEMMA NewDeliveryType ==
  ASSUME NEW st \in {"DRAFT", "DELIVERED"}, NEW p \in Passes, NEW lines \in Lines
  PROVE  NewDelivery(st, p, lines) \in Delivery
  BY DEF NewDelivery, Delivery

LEMMA DerivedType ==
  ASSUME NEW docs, NEW rets, NEW p, NEW st \in PassStatuses
  PROVE  DerivedStatus(docs, rets, p, st) \in PassStatuses
  BY DEF DerivedStatus, PassStatuses

(* A new request is well-typed, and starts like this. *)
LEMMA NewRequestType ==
  ASSUME TypeOK, NEW s \in Slots, NewRequest(s)
  PROVE  \E req \in Request : Begin(s, req) /\ req.pc # "idle"
<1> USE IdleTypes DEF TypeOK
<1>0. \A d \in Deliveries : deliveries[d] \in Delivery
  OBVIOUS
<1>1. ASSUME NEW d \in Deliveries, NEW p \in Passes, NEW lines \in Lines, NEW op,
             StartCreate(s, d, p, lines, op)
      PROVE  \E req \in Request : Begin(s, req) /\ req.pc # "idle"
  <2> DEFINE new == NewDelivery(IF op = "draft" THEN "DRAFT" ELSE "DELIVERED", p, lines)
             req == [IdleRequest EXCEPT !.pc = "passes", !.op = op, !.delivery = d, !.new = new]
  <2>1. new \in Delivery
    BY NewDeliveryType
  <2>2. op \in AllOps
    BY <1>1 DEF StartCreate, AllOps
  <2> HIDE DEF new
  <2>3. req \in Request /\ req.pc # "idle"
    BY <2>1, <2>2 DEF Request, PCs
  <2>4. Begin(s, req)
    BY <1>1 DEF StartCreate, new
  <2> QED BY <2>3, <2>4
<1>2. ASSUME NEW d \in Deliveries, NEW p \in Passes, NEW lines \in Lines,
             StartCatchUp(s, d, p, lines)
      PROVE  \E req \in Request : Begin(s, req) /\ req.pc # "idle"
  <2> DEFINE new == NewDelivery("DELIVERED", p, lines)
             req == [IdleRequest EXCEPT !.pc = "passes", !.op = "catchUp", !.delivery = d,
                                        !.pass = p, !.new = new]
  <2>1. new \in Delivery
    BY NewDeliveryType
  <2> HIDE DEF new
  <2>3. req \in Request /\ req.pc # "idle"
    BY <2>1 DEF Request, PCs, AllOps
  <2>4. Begin(s, req)
    BY <1>2 DEF StartCatchUp, new
  <2> QED BY <2>3, <2>4
<1>3. ASSUME NEW d \in Deliveries, NEW new \in Delivery, NEW op \in AllOps,
             NEW pc \in PCs \ {"idle"},
             Begin(s, [IdleRequest EXCEPT !.pc = pc, !.op = op, !.delivery = d,
                                          !.old = deliveries[d], !.new = new])
      PROVE  \E req \in Request : Begin(s, req) /\ req.pc # "idle"
  <2> DEFINE req == [IdleRequest EXCEPT !.pc = pc, !.op = op, !.delivery = d,
                                        !.old = deliveries[d], !.new = new]
  <2>1. req \in Request /\ req.pc # "idle"
    <3>1. deliveries[d] \in Delivery /\ pc \in PCs /\ pc # "idle" /\ d \in Deliveries \cup {None}
      BY <1>0
    <3> QED BY <3>1 DEF Request
  <2> QED BY <1>3, <2>1
<1>4. ASSUME NEW d \in Deliveries, StartActivate(s, d)
      PROVE  \E req \in Request : Begin(s, req) /\ req.pc # "idle"
  <2>1. [deliveries[d] EXCEPT !.status = "DELIVERED"] \in Delivery
    BY <1>0 DEF Delivery
  <2> QED BY <1>3, <1>4, <2>1 DEF StartActivate, PCs, AllOps
<1>5. ASSUME NEW d \in Deliveries, NEW lines \in Lines, StartCorrect(s, d, lines)
      PROVE  \E req \in Request : Begin(s, req) /\ req.pc # "idle"
  <2>1. [deliveries[d] EXCEPT !.lines = lines] \in Delivery
    BY <1>0 DEF Delivery
  <2> QED BY <1>3, <1>5, <2>1 DEF StartCorrect, PCs, AllOps
<1>6. ASSUME NEW d \in Deliveries, StartCancel(s, d)
      PROVE  \E req \in Request : Begin(s, req) /\ req.pc # "idle"
  BY <1>0, <1>3, <1>6 DEF StartCancel, PCs, AllOps
<1>7. ASSUME NEW r \in Returns, NEW p \in Passes, StartReturn(s, r, p)
      PROVE  \E req \in Request : Begin(s, req) /\ req.pc # "idle"
  <2> DEFINE req == [IdleRequest EXCEPT !.pc = "passes", !.op = "return", !.ret = r, !.pass = p]
  <2>1. req \in Request /\ req.pc # "idle"
    BY DEF Request, PCs, AllOps
  <2> QED BY <1>7, <2>1 DEF StartReturn
<1>8. ASSUME NEW r \in Returns, StartResend(s, r)
      PROVE  \E req \in Request : Begin(s, req) /\ req.pc # "idle"
  <2> DEFINE req == [IdleRequest EXCEPT !.pc = "passes", !.op = "resend", !.ret = r,
                                        !.pass = returns[r].pass]
  <2>1. returns[r].pass \in Passes
    BY DEF Return
  <2>2. req \in Request /\ req.pc # "idle"
    BY <2>1 DEF Request, PCs, AllOps
  <2> QED BY <1>8, <2>2 DEF StartResend
<1>9. ASSUME NEW p \in Passes, NEW to \in PassStatuses, StartStatus(s, p, to)
      PROVE  \E req \in Request : Begin(s, req) /\ req.pc # "idle"
  <2> DEFINE pc == IF to = "CANCELLED" THEN "movements" ELSE "write"
             req == [IdleRequest EXCEPT !.op = "status", !.pass = p, !.status = to, !.pc = pc]
  <2>1. pc \in PCs \ {"idle"}
    BY DEF PCs
  <2> HIDE DEF pc
  <2>2. req \in Request /\ req.pc # "idle"
    BY <2>1 DEF Request, AllOps
  <2> QED BY <1>9, <2>2 DEF StartStatus, pc
<1> QED BY <1>1, <1>2, <1>4, <1>5, <1>6, <1>7, <1>8, <1>9 DEF NewRequest

(* A request on its way changes its own record only. *)
LEMMA StepRequest ==
  ASSUME TypeOK, NEW s \in Slots, Step(s)
  PROVE  /\ request' \in [Slots -> Request]
         /\ \A t \in Slots \ {s} : request'[t] = request[t]
<1>0. /\ request \in [Slots -> Request] /\ request[s] \in Request /\ passes \in [Passes -> PassStatuses]
      /\ deliveries \in [Deliveries -> Delivery] /\ returns \in [Returns -> Return]
      /\ IdleRequest \in Request
  BY IdleTypes DEF TypeOK
<1> USE <1>0
<1>p. /\ {"movements", "returns", "write", "checkMovements", "checkReturns", "undo", "activated"} \subseteq PCs
      /\ {"refreshPasses", "refreshMovements", "refreshReturns", "persist", "activatedStatus"} \subseteq PCs
      /\ {"reread", "putBack"} \subseteq PCs
  BY DEF PCs
<1>1. ASSUME NEW pc \in PCs, Goto(s, pc) PROVE request' \in [Slots -> Request]
  BY <1>1 DEF Goto, Request
<1>2. ASSUME Finish(s) PROVE request' \in [Slots -> Request]
  BY <1>2 DEF Finish
<1>3. ASSUME NEW pc \in PCs, GotoAfresh(s, pc) PROVE request' \in [Slots -> Request]
  <2> DEFINE req == [request[s] EXCEPT !.pc = pc, !.docs = IdleRequest.docs,
                                       !.rets = IdleRequest.rets]
  <2>1. IdleRequest.docs \in [Deliveries -> Delivery] /\ IdleRequest.rets \in [Returns -> Return]
    BY DEF Request
  <2>2. req \in Request
    BY <2>1 DEF Request
  <2> HIDE DEF req
  <2>3. request' = [request EXCEPT ![s] = req]
    BY <1>3 DEF GotoAfresh, req
  <2> QED BY <2>2, <2>3
<1>r. ASSUME NEW req \in Request, request' = [request EXCEPT ![s] = req]
      PROVE  request' \in [Slots -> Request]
  BY <1>r
<1>4. ASSUME NEW pc \in PCs, request' = [request EXCEPT ![s].passes = passes, ![s].pc = pc]
      PROVE  request' \in [Slots -> Request]
  <2> DEFINE req == [request[s] EXCEPT !.passes = passes, !.pc = pc]
  <2>1. req \in Request
    BY DEF Request
  <2>2. request' = [request EXCEPT ![s] = req]
    BY <1>4
  <2> QED BY <1>r, <2>1, <2>2
<1>5. ASSUME NEW pc \in PCs, request' = [request EXCEPT ![s].docs = deliveries, ![s].pc = pc]
      PROVE  request' \in [Slots -> Request]
  <2> DEFINE req == [request[s] EXCEPT !.docs = deliveries, !.pc = pc]
  <2>1. req \in Request
    BY DEF Request
  <2>2. request' = [request EXCEPT ![s] = req]
    BY <1>5
  <2> QED BY <1>r, <2>1, <2>2
<1>5a. ASSUME LoadPasses(s) \/ RefreshPasses(s) PROVE request' \in [Slots -> Request]
  BY <1>4, <1>p, <1>5a DEF LoadPasses, RefreshPasses
<1>5b. ASSUME LoadMovements(s) PROVE request' \in [Slots -> Request]
  <2>1. CASE Goto(s, "write") \/ Finish(s)
    BY <1>1, <1>2, <1>p, <2>1
  <2>2. CASE \E pc \in {"returns", "write"} :
               request' = [[request EXCEPT ![s].docs = deliveries] EXCEPT ![s].pc = pc]
    <3>1. PICK pc \in {"returns", "write"} :
               request' = [[request EXCEPT ![s].docs = deliveries] EXCEPT ![s].pc = pc]
      BY <2>2
    <3>2. request' = [request EXCEPT ![s].docs = deliveries, ![s].pc = pc]
      BY <3>1
    <3> QED BY <1>5, <1>p, <3>2
  <2> QED BY <1>5b, <2>1, <2>2 DEF LoadMovements
<1>6. ASSUME CheckMovements(s) \/ RefreshMovements(s) PROVE request' \in [Slots -> Request]
  BY <1>5, <1>p, <1>6 DEF CheckMovements, RefreshMovements
<1>7. ASSUME LoadReturns(s) \/ CheckReturns(s) \/ Refreshed(s) PROVE request' \in [Slots -> Request]
  <2>1. \/ Finish(s) \/ GotoAfresh(s, "write") \/ GotoAfresh(s, "refreshPasses")
        \/ GotoAfresh(s, "undo") \/ GotoAfresh(s, "reread")
    BY <1>7 DEF LoadReturns, CheckReturns, Refreshed
  <2> QED BY <1>2, <1>3, <1>p, <2>1
<1>8. ASSUME \/ Insert(s) \/ Activate(s) \/ Correct(s) \/ Cancel(s) \/ RegisterReturn(s)
             \/ MarkResent(s) \/ SetStatus(s) \/ Undo(s) \/ ActivationStatus(s) \/ PutPassBack(s)
      PROVE  request' \in [Slots -> Request]
  <2>1. \/ Goto(s, "checkMovements") \/ Goto(s, "activated") \/ Goto(s, "refreshPasses")
        \/ Finish(s)
    BY <1>8 DEF Insert, Activate, Correct, Cancel, RegisterReturn, MarkResent, SetStatus,
       Undo, ActivationStatus, PutPassBack
  <2> QED BY <1>1, <1>2, <1>p, <2>1
<1>9. ASSUME RefreshReturns(s) PROVE request' \in [Slots -> Request]
  <2> DEFINE stale == {p \in Affected(request[s]) :
                         DerivedStatus(request[s].docs, returns, p, request[s].passes[p])
                           # request[s].passes[p]}
  <2>1. stale \in SUBSET Passes
    BY DEF Affected, Sources, Request, Delivery
  <2> HIDE DEF stale
  <2>2. request' = [request EXCEPT ![s].rets = returns, ![s].todo = stale, ![s].pc = "persist"]
    BY <1>9 DEF RefreshReturns, stale
  <2> DEFINE req == [request[s] EXCEPT !.rets = returns, !.todo = stale, !.pc = "persist"]
  <2>3. req \in Request
    BY <1>p, <2>1 DEF Request
  <2>4. request' = [request EXCEPT ![s] = req]
    BY <2>2
  <2> QED BY <1>r, <2>3, <2>4
<1>10. ASSUME ActivationReturns(s) PROVE request' \in [Slots -> Request]
  <2> DEFINE req == [request[s] EXCEPT !.rets = returns, !.pc = "activatedStatus"]
  <2>1. req \in Request
    BY <1>p DEF Request
  <2>2. request' = [request EXCEPT ![s] = req]
    BY <1>10 DEF ActivationReturns
  <2> QED BY <1>r, <2>1, <2>2
<1>11. ASSUME RereadPass(s) PROVE request' \in [Slots -> Request]
  <2> DEFINE req == [request[s] EXCEPT !.status = passes[request[s].pass], !.pc = "putBack"]
  <2>0. passes[request[s].pass] \in PassStatuses
    BY DEF Request
  <2>1. req \in Request
    BY <1>p, <2>0 DEF Request
  <2>2. request' = [request EXCEPT ![s] = req]
    BY <1>11 DEF RereadPass
  <2> QED BY <1>r, <2>1, <2>2
<1>12. ASSUME \E p \in Passes : Persist(s, p) PROVE request' \in [Slots -> Request]
  <2>1. PICK p \in Passes : Persist(s, p)
    BY <1>12
  <2> DEFINE req == [request[s] EXCEPT !.todo = request[s].todo \ {p}]
  <2>2. request[s].todo \ {p} \in SUBSET Passes
    BY DEF Request
  <2>3. req \in Request
    BY <2>2 DEF Request
  <2>4. request' = [request EXCEPT ![s] = req]
    BY <2>1 DEF Persist
  <2> QED BY <1>r, <2>3, <2>4
<1>13. request' \in [Slots -> Request]
  BY <1>5a, <1>5b, <1>6, <1>7, <1>8, <1>9, <1>10, <1>11, <1>12 DEF Step
<1>14. \E req : request' = [request EXCEPT ![s] = req]
  BY DEF Step, Goto, Finish, GotoAfresh, LoadPasses, RefreshPasses, LoadMovements, CheckMovements,
         RefreshMovements, LoadReturns, CheckReturns, Refreshed, Insert, Activate, Correct, Cancel,
         RegisterReturn, MarkResent, SetStatus, Undo, ActivationStatus, PutPassBack, RefreshReturns,
         ActivationReturns, RereadPass, Persist
<1> QED BY <1>13, <1>14

LEMMA StepData ==
  ASSUME TypeOK, NEW s \in Slots, Step(s)
  PROVE  /\ passes' \in [Passes -> PassStatuses] /\ deliveries' \in [Deliveries -> Delivery]
         /\ returns' \in [Returns -> Return] /\ clock' \in Nat
         /\ started' = started /\ disturbed' = disturbed
<1>0. /\ request[s] \in Request /\ passes \in [Passes -> PassStatuses] /\ clock \in Nat
      /\ deliveries \in [Deliveries -> Delivery] /\ returns \in [Returns -> Return]
      /\ request[s].old \in Delivery /\ request[s].new \in Delivery /\ NoDelivery \in Delivery
      /\ request[s].pass \in Passes /\ request[s].status \in PassStatuses
      /\ request[s].passes \in [Passes -> PassStatuses]
  BY IdleTypes DEF TypeOK, Request
<1> USE <1>0
<1>f. started' = started /\ disturbed' = disturbed
  BY DEF Step, BoundFrame, WriteFrame, LoadPasses, RefreshPasses, LoadMovements, CheckMovements,
         RefreshMovements, LoadReturns, CheckReturns, Refreshed, Insert, Activate, Correct, Cancel,
         RegisterReturn, MarkResent, SetStatus, Undo, ActivationStatus, PutPassBack, RefreshReturns,
         ActivationReturns, RereadPass, Persist
<1>1. CASE Insert(s)
  <2> DEFINE doc == [request[s].new EXCEPT !.seal = clock + 1,
                       !.stamp = IF request[s].op = "catchUp" THEN 0 ELSE clock + 1]
  <2>0. clock + 1 \in Nat /\ 0 \in Nat
    OBVIOUS
  <2>1. doc \in Delivery
    BY <2>0 DEF Delivery
  <2> HIDE DEF doc
  <2>2. deliveries' = [deliveries EXCEPT ![request[s].delivery] = doc]
    BY <1>1 DEF Insert, doc
  <2>3. deliveries' \in [Deliveries -> Delivery]
    BY <2>1, <2>2
  <2>4. UNCHANGED <<passes, returns>> /\ clock' = clock + 1
    BY <1>1 DEF Insert, WriteFrame, Tick
  <2> QED BY <1>f, <2>0, <2>3, <2>4
<1>2. CASE Activate(s) \/ Correct(s)
  <2>0. clock + 1 \in Nat
    OBVIOUS
  <2>1. Resealed(request[s].new) \in Delivery
    BY <2>0 DEF Resealed, Delivery
  <2>2. request[s].pc = "write"
    BY <1>2 DEF Activate, Correct
  <2>3. \E doc \in Delivery : \/ deliveries' = [deliveries EXCEPT ![request[s].delivery] = doc]
                              \/ deliveries' = deliveries
    BY <1>2, <2>1 DEF Activate, Correct
  <2> QED BY <1>2, <1>f, <2>3 DEF Activate, Correct, WriteFrame, Tick
<1>3. CASE Cancel(s)
  <2>0. clock + 1 \in Nat
    OBVIOUS
  <2>1. \A doc \in Delivery : [doc EXCEPT !.status = "CANCELLED", !.stamp = clock + 1] \in Delivery
    BY <2>0 DEF Delivery
  <2>2. deliveries' \in [Deliveries -> Delivery]
    BY <1>3, <2>1 DEF Cancel
  <2> QED BY <1>3, <1>f, <2>2 DEF Cancel, WriteFrame, Tick
<1>4. CASE RegisterReturn(s)
  <2>1. [state |-> "PENDING", pass |-> request[s].pass] \in Return
    BY DEF Return
  <2> QED BY <1>4, <1>f, <2>1 DEF RegisterReturn
<1>5. CASE MarkResent(s)
  BY <1>5, <1>f DEF MarkResent, Return
<1>6. CASE SetStatus(s)
  BY <1>6, <1>f DEF SetStatus
<1>7. CASE Undo(s)
  <2>1. [NoDelivery EXCEPT !.status = "GONE"] \in Delivery
    BY DEF Delivery
  <2>2. deliveries' \in [Deliveries -> Delivery]
    BY <1>7, <2>1 DEF Undo
  <2> QED BY <1>7, <1>f, <2>2 DEF Undo, WriteFrame
<1>8. CASE \E p \in Passes : Persist(s, p)
  <2>1. PICK p \in Passes : Persist(s, p)
    BY <1>8
  <2>2. DerivedStatus(request[s].docs, request[s].rets, p, request[s].passes[p]) \in PassStatuses
    BY DerivedType
  <2> QED BY <1>f, <2>1, <2>2 DEF Persist
<1>9. CASE ActivationStatus(s)
  <2>1. request[s].new.primary \in Passes
    BY DEF Delivery
  <2>2. \E docs : passes' = [passes EXCEPT ![request[s].new.primary] =
          DerivedStatus(docs, request[s].rets, request[s].new.primary,
                        request[s].passes[request[s].new.primary])]
    BY <1>9 DEF ActivationStatus
  <2>3. passes' \in [Passes -> PassStatuses]
    BY <2>1, <2>2, DerivedType
  <2> QED BY <1>9, <1>f, <2>3 DEF ActivationStatus
<1>10. CASE PutPassBack(s)
  BY <1>10, <1>f DEF PutPassBack
<1>11. CASE DataFrame
  BY <1>11, <1>f DEF DataFrame
<1> QED BY <1>1, <1>2, <1>3, <1>4, <1>5, <1>6, <1>7, <1>8, <1>9, <1>10, <1>11
        DEF Step, LoadPasses, RefreshPasses, LoadMovements, CheckMovements,
         RefreshMovements, LoadReturns, CheckReturns, Refreshed, RefreshReturns,
         ActivationReturns, RereadPass

LEMMA TypeInit == Init => TypeOK
<1>1. 0 \in 0..MaxRequests /\ 0 \in Nat
  BY BoundsAssumption
<1>2. {"DRAFT", "RECEIVED"} \subseteq PassStatuses
  BY DEF PassStatuses
<1> SUFFICES ASSUME Init PROVE TypeOK
  OBVIOUS
<1>3. passes \in [Passes -> PassStatuses]
  BY <1>2 DEF Init
<1> QED BY <1>1, <1>3, IdleTypes DEF Init, TypeOK

LEMMA TypeInvariant == TypeOK /\ [Next]_vars => TypeOK'
<1> SUFFICES ASSUME TypeOK, [Next]_vars PROVE TypeOK'
  OBVIOUS
<1>1. ASSUME NEW s \in Slots, Step(s) PROVE TypeOK'
  BY <1>1, StepRequest, StepData DEF TypeOK
<1>2. ASSUME NEW s \in Slots, NewRequest(s) PROVE TypeOK'
  <2>1. PICK req \in Request : Begin(s, req)
    BY <1>2, NewRequestType
  <2> QED BY <2>1, BoundsAssumption DEF Begin, DataFrame, TypeOK
<1>3. ASSUME NEW s \in Slots, Crash(s) PROVE TypeOK'
  BY <1>3, IdleTypes DEF Crash, Finish, DataFrame, TypeOK
<1>4. CASE UNCHANGED vars
  BY <1>4 DEF vars, TypeOK
<1> QED BY <1>1, <1>2, <1>3, <1>4 DEF Next

(* Type correctness: every variable of the ledger keeps its type. *)
THEOREM TypeCorrect == Spec => []TypeOK
<1> QED BY TypeInit, TypeInvariant, PTL DEF Spec

-----------------------------------------------------------------------------
(* Racing creations: what each step does to the request that takes it. *)

(* What the second look is not meant for. *)
UncheckedOps == {"activate", "correct", "resend", "crash"}

Others(s) == \A t \in Slots \ {s} : request'[t] = request[t]

Kept(s) == /\ request'[s].op = request[s].op /\ request'[s].delivery = request[s].delivery
           /\ request'[s].new = request[s].new

StillData == deliveries' = deliveries /\ returns' = returns

(* A new request, one that ends, and one that only reads or writes a status. *)
Starts(s) ==
  LET req == request'[s] IN
  /\ request[s].pc = "idle" /\ req.pc \notin Checking /\ req.op \in Ops /\ StillData
  /\ clock' = clock
  /\ req.op = "correct" => /\ req.delivery \in Deliveries
                           /\ req.old = deliveries[req.delivery]
  /\ req.op \in {"create", "draft", "catchUp"} =>
       /\ req.pc = "passes" /\ req.delivery \in Deliveries /\ Fresh(req.delivery)
       /\ req.op = "draft" => ~Counts(req.new)

Stops(s) == request[s].pc \notin Checking /\ request'[s].pc = "idle" /\ StillData

Proceeds(s) ==
  /\ request[s].pc \notin Checking \cup {"idle"} /\ request'[s].pc \notin Checking \cup {"idle"}
  /\ Kept(s) /\ StillData
  /\ request'[s].pc \in Planning => request[s].pc \in Planning
  /\ request'[s].pc = "write" /\ Inserting(s) =>
       \A p \in Passes : request'[s].new.lines[p] > 0
                           => request'[s].passes[p] \notin {"DRAFT", "CANCELLED"}

Inserts(s) ==
  LET d == request[s].delivery IN
  /\ request[s].pc = "write" /\ Inserting(s)
  /\ deliveries[d].status = "NONE" /\ returns' = returns
  /\ \A e \in Deliveries \ {d} : deliveries'[e] = deliveries[e]
  /\ deliveries'[d].status = request[s].new.status
  /\ deliveries'[d].lines = request[s].new.lines
  /\ \/ request[s].op = "draft" /\ request'[s].pc = "idle"
     \/ /\ request[s].op # "draft" /\ request'[s].pc = "checkMovements" /\ Kept(s)
        /\ request'[s].passes = request[s].passes

Withdraws(s) ==
  LET d == request[s].delivery IN
  /\ request[s].pc = "write" /\ request[s].op = "cancel" /\ returns' = returns
  /\ request'[s].pc = "refreshPasses" /\ request'[s].op = "cancel"
  /\ \A e \in Deliveries :
       \/ deliveries'[e] = deliveries[e]
       \/ deliveries[e].status # "NONE" /\ deliveries'[e].status = "CANCELLED"

Returned(s) ==
  /\ request[s].pc = "write" /\ request[s].op = "return" /\ deliveries' = deliveries
  /\ request'[s].pc = "refreshPasses" /\ request'[s].op = "return"
  /\ \A r \in Returns : returns'[r] = returns[r] \/ returns[r].state = "NONE"

Reads(s) ==
  /\ request[s].pc = "checkMovements" /\ request'[s].pc = "checkReturns"
  /\ Kept(s) /\ StillData /\ request'[s].docs = deliveries
  /\ request'[s].passes = request[s].passes

Passed(s) ==
  /\ request[s].pc = "checkReturns" /\ request'[s].pc = "refreshPasses"
  /\ Kept(s) /\ StillData /\ Sound(request[s], returns)

Failed(s) ==
  /\ request[s].pc = "checkReturns" /\ request'[s].pc = "undo"
  /\ Kept(s) /\ StillData /\ request'[s].passes = request[s].passes

TakesBack(s) ==
  LET d == request[s].delivery IN
  /\ request[s].pc = "undo" /\ request'[s].pc = "idle" /\ returns' = returns
  /\ \A e \in Deliveries \ {d} : deliveries'[e] = deliveries[e]
  /\ deliveries'[d].status = "GONE"

Moves(s) == \/ Starts(s) \/ Stops(s) \/ Proceeds(s) \/ Inserts(s) \/ Withdraws(s) \/ Returned(s)
            \/ Reads(s) \/ Passed(s) \/ Failed(s) \/ TakesBack(s)

LEMMA GotoFacts ==
  ASSUME TypeOK, NEW s \in Slots, NEW pc, Goto(s, pc)
  PROVE  /\ request'[s].pc = pc /\ Kept(s)
         /\ request'[s].passes = request[s].passes /\ request'[s].docs = request[s].docs
<1>1. request[s] \in Request /\ request'[s] = [request[s] EXCEPT !.pc = pc]
  BY DEF TypeOK, Goto
<1> QED BY <1>1 DEF Kept, Request

LEMMA AfreshFacts ==
  ASSUME TypeOK, NEW s \in Slots, NEW pc, GotoAfresh(s, pc)
  PROVE  /\ request'[s].pc = pc /\ Kept(s) /\ request'[s].passes = request[s].passes
<1>1. /\ request[s] \in Request
      /\ request'[s] = [request[s] EXCEPT !.pc = pc, !.docs = IdleRequest.docs,
                                          !.rets = IdleRequest.rets]
  BY DEF TypeOK, GotoAfresh
<1> QED BY <1>1 DEF Kept, Request

LEMMA FinishFacts ==
  ASSUME TypeOK, NEW s \in Slots, Finish(s) PROVE request'[s].pc = "idle"
  BY DEF TypeOK, Finish, IdleRequest

(* Every step is one of these moves. *)
LEMMA NewMoves ==
  ASSUME TypeOK, NEW s \in Slots, NewRequest(s) PROVE Starts(s) /\ Others(s)
<1> USE DEF TypeOK
<1>0. ASSUME NEW req, Begin(s, req)
      PROVE  /\ request'[s] = req /\ Others(s) /\ request[s].pc = "idle" /\ StillData
             /\ req.op \in Ops /\ clock' = clock
  BY <1>0 DEF Begin, Others, StillData, DataFrame
<1>1. ASSUME NEW d \in Deliveries, NEW p \in Passes, NEW lines \in Lines, Fresh(d),
             NEW op \in {"create", "draft"}, StartCreate(s, d, p, lines, op)
      PROVE  Starts(s) /\ Others(s)
  <2> DEFINE new == NewDelivery(IF op = "draft" THEN "DRAFT" ELSE "DELIVERED", p, lines)
             req == [IdleRequest EXCEPT !.pc = "passes", !.op = op, !.delivery = d, !.new = new]
  <2>1. Begin(s, req)
    BY <1>1 DEF StartCreate
  <2>2. op = "draft" => ~Counts(new)
    BY DEF NewDelivery, Counts
  <2> HIDE DEF new
  <2>3. req.pc = "passes" /\ req.op = op /\ req.delivery = d /\ req.new = new
    BY DEF IdleRequest
  <2> HIDE DEF req
  <2>4. /\ request'[s] = req /\ Others(s) /\ request[s].pc = "idle" /\ StillData
        /\ req.op \in Ops /\ clock' = clock
    BY <1>0, <2>1
  <2> QED BY <1>1, <2>2, <2>3, <2>4 DEF Starts, Checking
<1>2. ASSUME NEW d \in Deliveries, NEW p \in Passes, NEW lines \in Lines, Fresh(d),
             StartCatchUp(s, d, p, lines)
      PROVE  Starts(s) /\ Others(s)
  <2> DEFINE new == NewDelivery("DELIVERED", p, lines)
             req == [IdleRequest EXCEPT !.pc = "passes", !.op = "catchUp", !.delivery = d,
                                        !.pass = p, !.new = new]
  <2>1. Begin(s, req)
    BY <1>2 DEF StartCatchUp
  <2> HIDE DEF new
  <2>3. req.pc = "passes" /\ req.op = "catchUp" /\ req.delivery = d
    BY DEF IdleRequest
  <2> HIDE DEF req
  <2>4. /\ request'[s] = req /\ Others(s) /\ request[s].pc = "idle" /\ StillData
        /\ req.op \in Ops /\ clock' = clock
    BY <1>0, <2>1
  <2> QED BY <1>2, <2>3, <2>4 DEF Starts, Checking
<1>3. ASSUME NEW req, Begin(s, req), req.pc \notin Checking,
             req.op \notin {"create", "draft", "catchUp"},
             req.op = "correct" => req.delivery \in Deliveries /\ req.old = deliveries[req.delivery]
      PROVE  Starts(s) /\ Others(s)
  <2>1. /\ request'[s] = req /\ Others(s) /\ request[s].pc = "idle" /\ StillData
        /\ req.op \in Ops /\ clock' = clock
    BY <1>0, <1>3
  <2> QED BY <1>3, <2>1 DEF Starts
<1>4. ASSUME NEW d \in Deliveries, StartActivate(s, d) PROVE Starts(s) /\ Others(s)
  <2> DEFINE req == [IdleRequest EXCEPT !.pc = "passes", !.op = "activate", !.delivery = d,
              !.old = deliveries[d], !.new = [deliveries[d] EXCEPT !.status = "DELIVERED"]]
  <2>1. req.pc = "passes" /\ req.op = "activate"
    BY DEF IdleRequest
  <2>2. Begin(s, req)
    BY <1>4 DEF StartActivate
  <2> HIDE DEF req
  <2> QED BY <1>3, <2>1, <2>2 DEF Checking
<1>5. ASSUME NEW d \in Deliveries, NEW lines \in Lines, StartCorrect(s, d, lines)
      PROVE Starts(s) /\ Others(s)
  <2> DEFINE req == [IdleRequest EXCEPT !.pc = "passes", !.op = "correct", !.delivery = d,
              !.old = deliveries[d], !.new = [deliveries[d] EXCEPT !.lines = lines]]
  <2>1. /\ req.pc = "passes" /\ req.op = "correct" /\ req.delivery = d
        /\ req.old = deliveries[d]
    BY DEF IdleRequest
  <2>2. Begin(s, req)
    BY <1>5 DEF StartCorrect
  <2> HIDE DEF req
  <2> QED BY <1>3, <2>1, <2>2 DEF Checking
<1>6. ASSUME NEW d \in Deliveries, StartCancel(s, d) PROVE Starts(s) /\ Others(s)
  <2> DEFINE req == [IdleRequest EXCEPT !.pc = "write", !.op = "cancel", !.delivery = d,
              !.old = deliveries[d], !.new = deliveries[d]]
  <2>1. req.pc = "write" /\ req.op = "cancel"
    BY DEF IdleRequest
  <2>2. Begin(s, req)
    BY <1>6 DEF StartCancel
  <2> HIDE DEF req
  <2> QED BY <1>3, <2>1, <2>2 DEF Checking
<1>7. ASSUME NEW r \in Returns, NEW p \in Passes, StartReturn(s, r, p) PROVE Starts(s) /\ Others(s)
  <2> DEFINE req == [IdleRequest EXCEPT !.pc = "passes", !.op = "return", !.ret = r, !.pass = p]
  <2>1. req.pc = "passes" /\ req.op = "return"
    BY DEF IdleRequest
  <2>2. Begin(s, req)
    BY <1>7 DEF StartReturn
  <2> HIDE DEF req
  <2> QED BY <1>3, <2>1, <2>2 DEF Checking
<1>8. ASSUME NEW r \in Returns, StartResend(s, r) PROVE Starts(s) /\ Others(s)
  <2> DEFINE req == [IdleRequest EXCEPT !.pc = "passes", !.op = "resend", !.ret = r,
                                        !.pass = returns[r].pass]
  <2>1. req.pc = "passes" /\ req.op = "resend"
    BY DEF IdleRequest
  <2>2. Begin(s, req)
    BY <1>8 DEF StartResend
  <2> HIDE DEF req
  <2> QED BY <1>3, <2>1, <2>2 DEF Checking
<1>9. ASSUME NEW p \in Passes, NEW to \in PassStatuses, StartStatus(s, p, to)
      PROVE  Starts(s) /\ Others(s)
  <2> DEFINE req == [IdleRequest EXCEPT !.op = "status", !.pass = p, !.status = to,
                       !.pc = IF to = "CANCELLED" THEN "movements" ELSE "write"]
  <2>1. req.pc \in {"movements", "write"} /\ req.op = "status"
    BY DEF IdleRequest
  <2>2. Begin(s, req)
    BY <1>9 DEF StartStatus
  <2> HIDE DEF req
  <2> QED BY <1>3, <2>1, <2>2 DEF Checking
<1> QED BY <1>1, <1>2, <1>4, <1>5, <1>6, <1>7, <1>8, <1>9 DEF NewRequest

LEMMA StepMoves ==
  ASSUME TypeOK, OpsSent, OwnDelivery, Ops \cap UncheckedOps = {}, NEW s \in Slots, Step(s)
  PROVE  Moves(s) /\ Others(s)
<1>o. Others(s)
  BY StepRequest DEF Others
<1>0. /\ request \in [Slots -> Request] /\ request[s] \in Request
      /\ deliveries \in [Deliveries -> Delivery] /\ returns \in [Returns -> Return]
      /\ clock \in Nat /\ clock + 1 \in Nat
  BY DEF TypeOK
<1>op. request[s].pc # "idle" => request[s].op \notin UncheckedOps
  BY DEF OpsSent
<1>1. ASSUME LoadPasses(s) \/ RefreshPasses(s) \/ RefreshMovements(s) \/ ActivationReturns(s)
             \/ RefreshReturns(s) \/ RereadPass(s)
      PROVE  Proceeds(s)
  <2>1. StillData
    BY <1>1 DEF LoadPasses, RefreshPasses, RefreshMovements, ActivationReturns, RefreshReturns,
       RereadPass, DataFrame, StillData
  <2>2. /\ request[s].pc \in {"passes", "refreshPasses", "refreshMovements", "activated",
                             "refreshReturns", "reread"}
        /\ request'[s].pc \in {"movements", "refreshMovements", "refreshReturns",
                              "activatedStatus", "persist", "putBack"}
        /\ request'[s].pc = "movements" => request[s].pc = "passes"
    <3>1. CASE LoadPasses(s)
      BY <3>1, <1>0 DEF LoadPasses, Request
    <3>2. CASE RefreshPasses(s)
      BY <3>2, <1>0 DEF RefreshPasses, Request
    <3>3. CASE RefreshMovements(s)
      BY <3>3, <1>0 DEF RefreshMovements, Request
    <3>4. CASE ActivationReturns(s)
      BY <3>4, <1>0 DEF ActivationReturns, Request
    <3>5. CASE RefreshReturns(s)
      BY <3>5, <1>0 DEF RefreshReturns, Request
    <3>6. CASE RereadPass(s)
      BY <3>6, <1>0 DEF RereadPass, Request
    <3> QED BY <1>1, <3>1, <3>2, <3>3, <3>4, <3>5, <3>6
  <2>3. Kept(s)
    <3>1. CASE LoadPasses(s) \/ RefreshPasses(s)
      BY <3>1, <1>0 DEF LoadPasses, RefreshPasses, Request, Kept
    <3>2. CASE RefreshMovements(s) \/ ActivationReturns(s)
      BY <3>2, <1>0 DEF RefreshMovements, ActivationReturns, Request, Kept
    <3>3. CASE RefreshReturns(s)
      <4>1. PICK todo : request' = [request EXCEPT ![s].rets = returns, ![s].todo = todo,
                                                   ![s].pc = "persist"]
        BY <3>3 DEF RefreshReturns
      <4> QED BY <4>1, <1>0 DEF Request, Kept
    <3>4. CASE RereadPass(s)
      BY <3>4, <1>0 DEF RereadPass, Request, Kept
    <3> QED BY <1>1, <3>1, <3>2, <3>3, <3>4
  <2> QED BY <2>1, <2>2, <2>3 DEF Proceeds, Checking, Planning
<1>2. ASSUME NEW p \in Passes, Persist(s, p) PROVE Proceeds(s)
  <2>1. /\ request[s].pc \notin Checking \cup {"idle"} /\ request'[s].pc \notin Checking \cup {"idle"}
        /\ Kept(s) /\ StillData /\ request'[s].pc \notin Planning
    BY <1>2, <1>0 DEF Persist, StillData, Kept, Request, Checking, Planning
  <2> QED BY <2>1 DEF Proceeds, Planning
<1>3. ASSUME LoadMovements(s) PROVE Moves(s)
  <2>1. request[s].pc = "movements" /\ StillData /\ request[s].op # "activate"
    BY <1>3, <1>op DEF LoadMovements, DataFrame, StillData, UncheckedOps
  <2>2. CASE Finish(s)
    BY <2>1, <2>2, FinishFacts DEF Moves, Stops, Checking
  <2>3. CASE request[s].op = "status" /\ Goto(s, "write")
    BY <2>1, <2>3, GotoFacts DEF Moves, Proceeds, Inserting, Checking, Planning
  <2>4. CASE request' = [[request EXCEPT ![s].docs = deliveries] EXCEPT ![s].pc = "returns"]
    <3>1. request'[s].pc = "returns" /\ Kept(s)
      BY <2>4, <1>0 DEF Kept, Request
    <3> QED BY <2>1, <3>1 DEF Moves, Proceeds, Checking, Planning
  <2> QED BY <1>3, <2>1, <2>2, <2>3, <2>4 DEF LoadMovements
<1>4. ASSUME LoadReturns(s) PROVE Moves(s)
  <2>1. request[s].pc = "returns" /\ StillData
    BY <1>4 DEF LoadReturns, DataFrame, StillData
  <2>2. CASE Finish(s)
    BY <2>1, <2>2, FinishFacts DEF Moves, Stops, Checking
  <2>3. CASE GotoAfresh(s, "write") /\ Accepted(request[s], returns)
    <3>1. /\ request'[s].pc = "write" /\ Kept(s) /\ request'[s].passes = request[s].passes
      BY <2>3, AfreshFacts
    <3>2. Inserting(s) => \A p \in Passes : request[s].new.lines[p] > 0
                           => request[s].passes[p] \notin {"DRAFT", "CANCELLED"}
      BY <2>3 DEF Inserting, Accepted, Plannable
    <3> QED BY <2>1, <3>1, <3>2 DEF Moves, Proceeds, Checking, Planning, Kept
  <2> QED BY <1>4, <2>2, <2>3 DEF LoadReturns
<1>5. ASSUME Insert(s) PROVE Inserts(s)
  <2> DEFINE doc == [request[s].new EXCEPT !.seal = clock + 1,
                       !.stamp = IF request[s].op = "catchUp" THEN 0 ELSE clock + 1]
  <2>0. request[s].pc = "write" /\ request[s].op \in {"create", "draft", "catchUp"}
        /\ deliveries[request[s].delivery].status = "NONE" /\ returns' = returns
    BY <1>5 DEF Insert, WriteFrame
  <2>1. request[s].delivery \in Deliveries
    BY <2>0 DEF OwnDelivery, Inserting
  <2>2. doc.status = request[s].new.status /\ doc.lines = request[s].new.lines
    BY <1>0 DEF Request, Delivery
  <2>3. deliveries' = [deliveries EXCEPT ![request[s].delivery] = doc]
    BY <1>5 DEF Insert
  <2> HIDE DEF doc
  <2>5. CASE request[s].op = "draft"
    BY <1>0, <1>5, <2>0, <2>1, <2>2, <2>3, <2>5, FinishFacts DEF Insert, Inserts, Inserting
  <2>6. CASE request[s].op # "draft"
    <3>1. Goto(s, "checkMovements")
      BY <1>5, <2>6 DEF Insert
    <3> QED BY <1>0, <2>0, <2>1, <2>2, <2>3, <2>6, <3>1, GotoFacts DEF Inserts, Inserting
  <2> QED BY <2>5, <2>6
<1>6. ASSUME Activate(s) \/ Correct(s) \/ MarkResent(s) PROVE FALSE
  BY <1>6, <1>op DEF Activate, Correct, MarkResent, UncheckedOps
<1>7. ASSUME Cancel(s) PROVE Withdraws(s)
  <2>1. request[s].pc = "write" /\ request[s].op = "cancel" /\ returns' = returns
        /\ Goto(s, "refreshPasses")
    BY <1>7 DEF Cancel, WriteFrame
  <2>2. \A doc \in Delivery : /\ [doc EXCEPT !.status = "CANCELLED", !.stamp = clock + 1].status
                                   = "CANCELLED"
    BY DEF Delivery
  <2>3. \A e \in Deliveries :
          \/ deliveries'[e] = deliveries[e]
          \/ deliveries[e].status # "NONE" /\ deliveries'[e].status = "CANCELLED"
    BY <1>0, <1>7, <2>2 DEF Cancel, Exists
  <2> QED BY <2>1, <2>3, GotoFacts DEF Withdraws, Kept
<1>8. ASSUME RegisterReturn(s) PROVE Returned(s)
  <2>1. /\ request[s].pc = "write" /\ request[s].op = "return" /\ deliveries' = deliveries
        /\ Goto(s, "refreshPasses") /\ returns[request[s].ret].state = "NONE"
        /\ returns' = [returns EXCEPT ![request[s].ret] = [state |-> "PENDING", pass |-> request[s].pass]]
    BY <1>8 DEF RegisterReturn
  <2> QED BY <1>0, <2>1, GotoFacts DEF Returned, Kept
<1>9. ASSUME SetStatus(s) \/ ActivationStatus(s) \/ PutPassBack(s) PROVE Stops(s)
  <2>1. request[s].pc \notin Checking /\ Finish(s) /\ StillData
    BY <1>9 DEF SetStatus, ActivationStatus, PutPassBack, StillData, Checking
  <2> QED BY <2>1, FinishFacts DEF Stops
<1>10. ASSUME CheckMovements(s) PROVE Reads(s)
  BY <1>0, <1>10 DEF CheckMovements, Reads, DataFrame, StillData, Kept, Request
<1>11. ASSUME CheckReturns(s) PROVE Passed(s) \/ Failed(s)
  <2>1. CASE Sound(request[s], returns)
    <3>1. GotoAfresh(s, "refreshPasses") /\ request[s].pc = "checkReturns" /\ StillData
      BY <1>11, <2>1 DEF CheckReturns, DataFrame, StillData
    <3> QED BY <2>1, <3>1, AfreshFacts DEF Passed
  <2>2. CASE ~Sound(request[s], returns)
    <3>1. GotoAfresh(s, "undo") /\ request[s].pc = "checkReturns" /\ StillData
      BY <1>11, <2>2 DEF CheckReturns, DataFrame, StillData
    <3> QED BY <3>1, AfreshFacts DEF Failed
  <2> QED BY <2>1, <2>2
<1>12. ASSUME Undo(s) PROVE TakesBack(s)
  <2>1. request[s].pc = "undo" /\ returns' = returns /\ Finish(s)
    BY <1>12 DEF Undo, WriteFrame
  <2>2. request[s].op \in {"create", "catchUp"}
    BY <2>1 DEF OwnDelivery, Checking
  <2>3. request[s].delivery \in Deliveries
    BY <2>1, <2>2 DEF OwnDelivery, Inserting
  <2>4. [NoDelivery EXCEPT !.status = "GONE"].status = "GONE"
    BY DEF NoDelivery
  <2>5. deliveries' = [deliveries EXCEPT ![request[s].delivery] = [NoDelivery EXCEPT !.status = "GONE"]]
    BY <1>12, <2>2 DEF Undo
  <2> QED BY <1>0, <2>1, <2>3, <2>4, <2>5, FinishFacts DEF TakesBack
<1>13. ASSUME Refreshed(s) PROVE Moves(s)
  <2>1. request[s].pc = "persist" /\ StillData
    BY <1>13 DEF Refreshed, DataFrame, StillData
  <2>2. CASE Finish(s)
    BY <2>1, <2>2, FinishFacts DEF Moves, Stops, Checking
  <2>3. CASE GotoAfresh(s, "reread")
    BY <2>1, <2>3, AfreshFacts DEF Moves, Proceeds, Checking, Planning
  <2> QED BY <1>13, <2>2, <2>3 DEF Refreshed
<1> QED BY <1>o, <1>1, <1>2, <1>3, <1>4, <1>5, <1>6, <1>7, <1>8, <1>9, <1>10, <1>11, <1>12, <1>13
        DEF Step, Moves

(* Pieces are counted in finite sets. *)
LEMMA PiecesFinite ==
  ASSUME NEW docs, NEW p
  PROVE  /\ IsFiniteSet(Pieces(docs, p))
         /\ Cardinality(Pieces(docs, p)) \in Nat
<1>1. IsFiniteSet(Deliveries \X (1..MaxQty))
  <2>1. IsFiniteSet(1..MaxQty)
    BY FS_Interval, BoundsAssumption
  <2>2. IsFiniteSet(Deliveries)
    BY FiniteAssumption
  <2> HIDE FiniteAssumption
  <2> QED BY <2>1, <2>2, FS_Product
<1>2. Pieces(docs, p) \in SUBSET (Deliveries \X (1..MaxQty))
  BY DEF Pieces
<1> QED BY <1>1, <1>2, FS_Subset, FS_CardinalityType

LEMMA HeldSubset == \A p : Held(p) \subseteq Pieces(deliveries, p)
  BY DEF Held, AcceptedPieces, OvertakenPieces

LEMMA PendingFinite ==
  ASSUME NEW rets, NEW p
  PROVE  /\ IsFiniteSet({r \in Returns : rets[r] = [state |-> "PENDING", pass |-> p]})
         /\ PendingBack(rets, p) \in Nat
  BY FS_Subset, FS_CardinalityType, FiniteAssumption DEF PendingBack

LEMMA PendingGrows ==
  ASSUME NEW s \in Slots, NEW p, Moves(s)
  PROVE  PendingBack(returns, p) <= PendingBack(returns', p)
<1> DEFINE Back(rets) == {r \in Returns : rets[r] = [state |-> "PENDING", pass |-> p]}
<1>1. Back(returns) \subseteq Back(returns')
  <2>1. \A r \in Returns : returns'[r] = returns[r] \/ returns[r].state = "NONE"
    BY DEF Moves, Starts, Stops, Proceeds, Inserts, Withdraws, Returned, Reads, Passed, Failed,
           TakesBack, StillData
  <2> QED BY <2>1
<1>2. IsFiniteSet(Back(returns'))
  BY PendingFinite
<1>3. Cardinality(Back(returns)) <= Cardinality(Back(returns'))
  <2> HIDE DEF Back
  <2> QED BY <1>1, <1>2, FS_Subset
<1> QED BY <1>3 DEF PendingBack

(* What the pass holds shrinks, unless a check is passed.                    *)
LEMMA HeldShrinks ==
  ASSUME NEW p \in Passes,
         \A d \in Deliveries : Counts(deliveries'[d]) =>
           \/ Counts(deliveries[d]) /\ deliveries'[d].lines = deliveries[d].lines
           \/ /\ UnderCheck(d)'
              /\ \A t \in Slots : request'[t].pc = "checkReturns" => request'[t].delivery # d,
         \A d \in Deliveries : Counts(deliveries'[d]) /\ UnderCheck(d) => UnderCheck(d)',
         \A t \in Slots : request'[t].pc = "checkReturns" =>
           \/ /\ request[t].pc = "checkReturns" /\ request'[t].delivery = request[t].delivery
              /\ request'[t].docs = request[t].docs
           \/ request'[t].docs = deliveries'
  PROVE  Held(p)' \subseteq Held(p)
<1>1. ASSUME NEW x \in AcceptedPieces(p)' PROVE x \in AcceptedPieces(p)
  <2>1. /\ x \in Deliveries \X (1..MaxQty) /\ x[1] \in Deliveries
        /\ Counts(deliveries'[x[1]]) /\ x[2] <= deliveries'[x[1]].lines[p] /\ ~UnderCheck(x[1])'
    BY <1>1 DEF AcceptedPieces, Pieces
  <2> QED BY <2>1 DEF AcceptedPieces, Pieces
<1>2. ASSUME NEW x \in OvertakenPieces(p)' PROVE x \in OvertakenPieces(p)
  <2>1. /\ x \in Deliveries \X (1..MaxQty) /\ x[1] \in Deliveries
        /\ Counts(deliveries'[x[1]]) /\ x[2] <= deliveries'[x[1]].lines[p]
    BY <1>2 DEF OvertakenPieces, Pieces
  <2>2. PICK t \in Slots : /\ request'[t].pc = "checkReturns" /\ request'[t].delivery = x[1]
                           /\ Overtaken(t, p)'
    BY <1>2 DEF OvertakenPieces
  <2>3. PICK y \in AcceptedPieces(p)' : y \notin Pieces(request'[t].docs, p)
    BY <2>2 DEF Overtaken
  <2>4. y \in Pieces(deliveries', p)
    BY DEF AcceptedPieces
  <2>5. request'[t].docs # deliveries'
    BY <2>3, <2>4
  <2>6. /\ request[t].pc = "checkReturns" /\ request'[t].delivery = request[t].delivery
        /\ request'[t].docs = request[t].docs
    BY <2>2, <2>5
  <2>7. Overtaken(t, p)
    BY <1>1, <2>3, <2>6 DEF Overtaken
  <2>8. x \in Pieces(deliveries, p)
    BY <2>1, <2>2 DEF Pieces
  <2> QED BY <2>2, <2>6, <2>7, <2>8 DEF OvertakenPieces
<1> QED BY <1>1, <1>2 DEF Held

(* A check that is passed bounds what the pass holds from then on.           *)
LEMMA PassedHolds ==
  ASSUME TypeOK, OwnDelivery, PassesInUse, CheckReads, CheckOrder, WithinReceived,
         NEW s \in Slots, Passed(s), Others(s), NEW p \in Passes
  PROVE  Cardinality(Held(p)') <= Received[p] + PendingBack(returns, p)
<1> DEFINE d == request[s].delivery
           docs == request[s].docs
<1>0. /\ request[s].pc = "checkReturns" /\ request'[s].pc = "refreshPasses"
      /\ deliveries' = deliveries /\ returns' = returns /\ Sound(request[s], returns)
  BY DEF Passed, StillData
<1>1. /\ Inserting(s) /\ d \in Deliveries
      /\ Counts(deliveries[d]) => deliveries[d].lines = request[s].new.lines
      /\ request[s].new \in Delivery /\ deliveries \in [Deliveries -> Delivery]
  BY <1>0 DEF OwnDelivery, Inserting, Checking, TypeOK, Request
<1>2. \A t \in Slots \ {s} : request'[t] = request[t]
  BY DEF Others
<1>3. Received[p] \in Nat /\ PendingBack(returns, p) \in Nat
  BY ReceivedAssumption, PendingFinite
<1>4. \A x \in Deliveries \X (1..MaxQty) : x[1] \in Deliveries /\ x[2] \in 1..MaxQty
  OBVIOUS
(* Newly accepted is only the delivery itself. *)
<1>5. \A x \in AcceptedPieces(p)' :
        x \in AcceptedPieces(p) \/ (x \in Pieces(deliveries, p) /\ x[1] = d)
  <2> TAKE x \in AcceptedPieces(p)'
  <2>0. x \in Pieces(deliveries, p) /\ ~UnderCheck(x[1])'
    BY <1>0 DEF AcceptedPieces
  <2>1. CASE UnderCheck(x[1])
    <3>2. PICK t \in Slots : request[t].pc \in Checking /\ request[t].delivery = x[1]
      BY <2>1 DEF UnderCheck, Checking
    <3>3. t = s
      BY <1>2, <2>0, <3>2 DEF UnderCheck, Checking
    <3> QED BY <2>0, <3>2, <3>3
  <2>2. CASE ~UnderCheck(x[1])
    BY <2>0, <2>2 DEF AcceptedPieces
  <2> QED BY <2>1, <2>2
(* A check overtaken by this delivery had read before it was inserted. *)
<1>6. ASSUME NEW t \in Slots, request[t].pc = "checkReturns", t # s,
             NEW x \in Pieces(deliveries, p), x \in Pieces(docs, p), x \notin Pieces(request[t].docs, p),
             Counts(deliveries[request[t].delivery])
      PROVE  Counts(docs[request[t].delivery])
  <2>1. x[1] \in Deliveries /\ Counts(deliveries[x[1]]) /\ Counts(docs[x[1]])
        /\ x \in Deliveries \X (1..MaxQty) /\ x[2] <= deliveries[x[1]].lines[p]
    BY <1>6 DEF Pieces
  <2>2. Counts(request[t].docs[x[1]]) => request[t].docs[x[1]].lines = deliveries[x[1]].lines
    BY <1>6, <2>1 DEF CheckReads
  <2>3. ~Counts(request[t].docs[x[1]])
    BY <1>6, <2>1, <2>2 DEF Pieces
  <2> QED BY <1>0, <1>6, <2>1, <2>3 DEF CheckOrder
<1>7. ASSUME NEW t \in Slots, request[t].pc = "checkReturns", t # s,
             NEW x \in Pieces(deliveries, p), x \in Pieces(request[t].docs, p), x \notin Pieces(docs, p),
             Counts(deliveries[d])
      PROVE  Counts(request[t].docs[d])
  <2>1. x[1] \in Deliveries /\ Counts(deliveries[x[1]]) /\ Counts(request[t].docs[x[1]])
        /\ x \in Deliveries \X (1..MaxQty) /\ x[2] <= deliveries[x[1]].lines[p]
    BY <1>7 DEF Pieces
  <2>2. Counts(docs[x[1]]) => docs[x[1]].lines = deliveries[x[1]].lines
    BY <1>0, <2>1 DEF CheckReads
  <2>3. ~Counts(docs[x[1]])
    BY <1>7, <2>1, <2>2 DEF Pieces
  <2> QED BY <1>0, <1>7, <2>1, <2>3 DEF CheckOrder
(* What this check has read, as far as it stands, is as it was read. *)
<1>8. ASSUME NEW x \in Pieces(deliveries, p), Counts(docs[x[1]]) PROVE x \in Pieces(docs, p)
  <2>1. x \in Deliveries \X (1..MaxQty) /\ x[1] \in Deliveries /\ Counts(deliveries[x[1]])
        /\ x[2] <= deliveries[x[1]].lines[p]
    BY DEF Pieces
  <2>2. docs[x[1]].lines = deliveries[x[1]].lines
    BY <1>0, <1>8, <2>1 DEF CheckReads
  <2> QED BY <1>8, <2>1, <2>2 DEF Pieces
<1>9. ASSUME NEW t \in Slots, request[t].pc = "checkReturns", t # s,
             NEW x \in Pieces(deliveries, p), x \notin Pieces(request[t].docs, p), x[1] = d,
             Counts(request[t].docs[d])
      PROVE  FALSE
  <2>1. x \in Deliveries \X (1..MaxQty) /\ Counts(deliveries[d]) /\ x[2] <= deliveries[d].lines[p]
    BY <1>9 DEF Pieces
  <2>2. request[t].docs[d].lines = deliveries[d].lines
    BY <1>1, <1>9, <2>1 DEF CheckReads
  <2> QED BY <1>9, <2>1, <2>2 DEF Pieces
<1>10. ASSUME NEW x \in OvertakenPieces(p)'
       PROVE  /\ x \in Pieces(deliveries, p)
              /\ \E t \in Slots \ {s} : /\ request[t].pc = "checkReturns" /\ request[t].delivery = x[1]
                                        /\ \E y \in AcceptedPieces(p)' : y \notin Pieces(request[t].docs, p)
  <2>1. PICK t \in Slots : /\ request'[t].pc = "checkReturns" /\ request'[t].delivery = x[1]
                           /\ Overtaken(t, p)'
    BY DEF OvertakenPieces
  <2>2. t # s /\ request'[t] = request[t]
    BY <1>0, <1>2, <2>1
  <2>3. \E y \in AcceptedPieces(p)' : y \notin Pieces(request'[t].docs, p)
    BY <2>1 DEF Overtaken
  <2> QED BY <1>0, <2>1, <2>2, <2>3 DEF OvertakenPieces
<1>11. CASE Overtaken(s, p) \/ ~\E x \in Pieces(deliveries, p) : x[1] = d
  <2>1. ASSUME NEW x \in AcceptedPieces(p)' PROVE x \in Held(p)
    <3>1. CASE x \in AcceptedPieces(p)
      BY <3>1 DEF Held
    <3>2. CASE x \in Pieces(deliveries, p) /\ x[1] = d
      BY <1>0, <1>11, <3>2 DEF Held, OvertakenPieces
    <3> QED BY <1>5, <3>1, <3>2
  <2>2. ASSUME NEW x \in OvertakenPieces(p)' PROVE x \in Held(p)
    <3>1. PICK t \in Slots \ {s} :
            /\ request[t].pc = "checkReturns" /\ request[t].delivery = x[1]
            /\ \E y \in AcceptedPieces(p)' : y \notin Pieces(request[t].docs, p)
      BY <1>10
    <3>2. PICK y \in AcceptedPieces(p)' : y \notin Pieces(request[t].docs, p)
      BY <3>1
    <3>3. Overtaken(t, p)
      <4>1. CASE y \in AcceptedPieces(p)
        BY <3>2, <4>1 DEF Overtaken
      <4>2. CASE y \in Pieces(deliveries, p) /\ y[1] = d
        <5>1. PICK z \in AcceptedPieces(p) : z \notin Pieces(docs, p)
          BY <1>11, <4>2 DEF Overtaken
        <5>2. z \in Pieces(deliveries, p) /\ Counts(deliveries[d])
          BY <4>2 DEF AcceptedPieces, Pieces
        <5>3. ~Counts(request[t].docs[d])
          BY <1>9, <3>1, <3>2, <4>2
        <5>4. z \notin Pieces(request[t].docs, p)
          BY <1>7, <3>1, <5>1, <5>2, <5>3
        <5> QED BY <5>4 DEF Overtaken
      <4> QED BY <1>5, <4>1, <4>2
    <3> QED BY <1>10, <3>1, <3>3 DEF Held, OvertakenPieces
  <2>3. Held(p)' \subseteq Held(p)
    BY <2>1, <2>2 DEF Held
  <2>4. IsFiniteSet(Held(p))
    BY HeldSubset, PiecesFinite, FS_Subset
  <2>5. Cardinality(Held(p)') <= Cardinality(Held(p)) /\ Cardinality(Held(p)) <= Received[p] + PendingBack(returns, p)
    BY <2>3, <2>4, FS_Subset DEF WithinReceived
  <2>6. Cardinality(Held(p)) \in Nat /\ Cardinality(Held(p)') \in Nat
    BY <2>3, <2>4, FS_Subset, FS_CardinalityType
  <2> QED BY <1>3, <2>5, <2>6
<1>12. CASE ~Overtaken(s, p) /\ \E x \in Pieces(deliveries, p) : x[1] = d
  <2>1. PICK x0 \in Pieces(deliveries, p) : x0[1] = d
    BY <1>12
  <2>2. Counts(deliveries[d]) /\ x0[2] \in 1..MaxQty /\ x0[2] <= request[s].new.lines[p]
    BY <1>1, <1>4, <2>1 DEF Pieces
  <2>3. request[s].new.lines[p] > 0
    BY <1>1, <2>2, BoundsAssumption DEF Delivery, Lines
  <2>4. ~Oversold(docs, returns, p)
    BY <1>0, <1>1, <2>3 DEF Sound, Sources, PassesInUse, Checking
  <2>5. Cardinality(Pieces(docs, p)) <= Received[p] + PendingBack(returns, p)
    BY <1>3, <2>4, PiecesFinite DEF Oversold, Delivered
  <2>6. Counts(docs[d])
    BY <1>0, <1>1, <2>2 DEF CheckReads
  <2>7. ASSUME NEW x \in AcceptedPieces(p)' PROVE x \in Pieces(docs, p)
    <3>1. CASE x \in AcceptedPieces(p)
      BY <1>12, <3>1 DEF Overtaken
    <3>2. CASE x \in Pieces(deliveries, p) /\ x[1] = d
      BY <1>8, <2>6, <3>2
    <3> QED BY <1>5, <3>1, <3>2
  <2>8. ASSUME NEW x \in OvertakenPieces(p)' PROVE x \in Pieces(docs, p)
    <3>1. PICK t \in Slots \ {s} :
            /\ request[t].pc = "checkReturns" /\ request[t].delivery = x[1]
            /\ \E y \in AcceptedPieces(p)' : y \notin Pieces(request[t].docs, p)
      BY <1>10
    <3>2. PICK y \in AcceptedPieces(p)' : y \notin Pieces(request[t].docs, p)
      BY <3>1
    <3>3. y \in Pieces(deliveries, p) /\ y \in Pieces(docs, p)
      BY <1>0, <2>7 DEF AcceptedPieces
    <3>4. x \in Pieces(deliveries, p) /\ Counts(deliveries[x[1]])
      BY <1>10 DEF Pieces
    <3>5. Counts(docs[x[1]])
      BY <1>6, <3>1, <3>2, <3>3, <3>4
    <3> QED BY <1>8, <3>4, <3>5
  <2>9. Held(p)' \subseteq Pieces(docs, p)
    BY <2>7, <2>8 DEF Held
  <2>10. Cardinality(Held(p)') <= Cardinality(Pieces(docs, p)) /\ Cardinality(Held(p)') \in Nat
         /\ Cardinality(Pieces(docs, p)) \in Nat
    BY <2>9, PiecesFinite, FS_Subset, FS_CardinalityType
  <2> QED BY <1>3, <2>5, <2>10
<1> QED BY <1>11, <1>12

LEMMA OpsSentKept ==
  ASSUME OpsSent, NEW s \in Slots, Moves(s), Others(s) PROVE OpsSent'
<1>1. request'[s].pc # "idle" => request'[s].op \in Ops
  <2>1. CASE Inserts(s) \/ Passed(s) \/ Failed(s) \/ Reads(s) \/ Proceeds(s)
    BY <2>1 DEF OpsSent, Inserts, Passed, Failed, Reads, Proceeds, Kept, Inserting
  <2>2. CASE Starts(s) \/ Stops(s) \/ Withdraws(s) \/ Returned(s) \/ TakesBack(s)
    BY <2>2 DEF OpsSent, Starts, Stops, Withdraws, Returned, TakesBack
  <2> QED BY <2>1, <2>2 DEF Moves
<1> QED BY <1>1 DEF OpsSent, Others

LEMMA OwnDeliveryKept ==
  ASSUME TypeOK, OwnDelivery, NEW s \in Slots, Moves(s), Others(s) PROVE OwnDelivery'
<1>0. /\ \A t \in Slots \ {s} : request'[t] = request[t]
      /\ request[s] \in Request
  BY DEF Others, TypeOK
(* A request that is still creating its delivery was so before, or is new. *)
<1>1a. Inserting(s)' => (Inserting(s) /\ Kept(s)) \/ (Starts(s) /\ request'[s].pc = "passes")
  <2> SUFFICES ASSUME request'[s].pc # "idle", request'[s].op \in {"create", "draft", "catchUp"}
               PROVE  (Inserting(s) /\ Kept(s)) \/ (Starts(s) /\ request'[s].pc = "passes")
    BY DEF Inserting
  <2>1. CASE Starts(s)
    BY <2>1 DEF Starts
  <2>2. CASE Stops(s) \/ TakesBack(s) \/ Withdraws(s) \/ Returned(s)
    BY <2>2 DEF Stops, TakesBack, Withdraws, Returned
  <2>3. CASE Proceeds(s) \/ Inserts(s) \/ Reads(s) \/ Failed(s) \/ Passed(s)
    <3>1. Kept(s) /\ request[s].pc # "idle"
      BY <2>3 DEF Proceeds, Inserts, Reads, Failed, Passed
    <3> QED BY <3>1 DEF Kept, Inserting
  <2> QED BY <2>1, <2>2, <2>3 DEF Moves
<1>1b. request'[s].pc \in Checking =>
           /\ request'[s].op \in {"create", "catchUp"} /\ Inserting(s) /\ Kept(s)
           /\ Inserts(s) \/ (request[s].pc \in Checking /\ deliveries' = deliveries)
  <2> SUFFICES ASSUME request'[s].pc \in Checking
               PROVE  /\ request'[s].op \in {"create", "catchUp"} /\ Inserting(s) /\ Kept(s)
                      /\ Inserts(s) \/ (request[s].pc \in Checking /\ deliveries' = deliveries)
    OBVIOUS
  <2>1. Inserts(s) \/ Reads(s) \/ Failed(s)
    BY DEF Moves, Starts, Stops, Proceeds, Withdraws, Returned, Passed, TakesBack, Checking
  <2>2. CASE Inserts(s)
    <3>1. Inserting(s) /\ Kept(s) /\ request[s].op # "draft"
      BY <2>2 DEF Inserts, Checking
    <3> QED BY <2>2, <3>1 DEF Inserting, Kept
  <2>3. CASE Reads(s) \/ Failed(s)
    <3>1. Kept(s) /\ request[s].pc \in Checking /\ deliveries' = deliveries
      BY <2>3 DEF Reads, Failed, Checking, StillData
    <3>2. request[s].op \in {"create", "catchUp"} /\ request[s].pc # "idle"
      BY <3>1 DEF OwnDelivery, Checking
    <3> QED BY <3>1, <3>2 DEF Kept, Inserting
  <2> QED BY <2>1, <2>2, <2>3
(* Only an insertion changes a delivery that nobody has inserted. *)
<1>2. \A d \in Deliveries :
        \/ deliveries'[d] = deliveries[d]
        \/ Inserts(s) /\ request[s].delivery = d
        \/ deliveries[d].status # "NONE" /\ ~Counts(deliveries'[d])
        \/ TakesBack(s) /\ request[s].delivery = d /\ ~Counts(deliveries'[d])
        \/ Withdraws(s) /\ ~Counts(deliveries'[d])
  BY DEF Moves, Starts, Stops, Proceeds, Inserts, Withdraws, Returned, Reads, Passed, Failed,
         TakesBack, StillData, Counts
<1>3. ASSUME NEW t \in Slots, t # s
      PROVE  /\ request'[t].pc \in Checking => request'[t].op \in {"create", "catchUp"}
             /\ Inserting(t)' =>
                  /\ request'[t].delivery \in Deliveries
                  /\ request'[t].pc \in Planning => deliveries'[request'[t].delivery].status = "NONE"
                  /\ request'[t].op = "draft" => ~Counts(request'[t].new)
                  /\ request'[t].pc \in Checking /\ Counts(deliveries'[request'[t].delivery])
                       => deliveries'[request'[t].delivery].lines = request'[t].new.lines
  <2>1. request'[t] = request[t]
    BY <1>0, <1>3
  <2> DEFINE d == request[t].delivery
  <2>2. ASSUME Inserting(t)
        PROVE  /\ d \in Deliveries
               /\ request[t].pc \in Planning => deliveries[d].status = "NONE"
               /\ request[t].op = "draft" => ~Counts(request[t].new)
               /\ request[t].pc \in Checking /\ Counts(deliveries[d])
                       => deliveries[d].lines = request[t].new.lines
               /\ Inserting(s) => request[s].delivery # d
    BY <1>3, <2>2 DEF OwnDelivery
  <2>3. ASSUME Inserting(t), request[t].pc \in Planning PROVE deliveries'[d].status = "NONE"
    <3>2. ~(Inserts(s) /\ request[s].delivery = d)
      BY <2>2, <2>3 DEF Inserts
    <3>3. ~(TakesBack(s) /\ request[s].delivery = d)
      <4>1. TakesBack(s) => Inserting(s)
        BY DEF TakesBack, OwnDelivery, Inserting, Checking
      <4> QED BY <2>2, <2>3, <4>1
    <3>4. CASE Withdraws(s)
      BY <2>2, <2>3, <3>4 DEF Withdraws
    <3>5. CASE ~Withdraws(s)
      BY <1>2, <2>2, <2>3, <3>2, <3>3, <3>5
    <3> QED BY <3>4, <3>5
  <2>4. ASSUME Inserting(t), request[t].pc \in Checking, Counts(deliveries'[d])
        PROVE  deliveries'[d].lines = request[t].new.lines
    <3>1. ~(Inserts(s) /\ request[s].delivery = d)
      BY <2>2, <2>4 DEF Inserts
    <3>2. deliveries'[d] = deliveries[d]
      BY <1>2, <2>2, <2>4, <3>1
    <3> QED BY <2>2, <2>4, <3>2
  <2>5. request[t].pc \in Checking => request[t].op \in {"create", "catchUp"}
    BY DEF OwnDelivery
  <2>6. Inserting(t)' <=> Inserting(t)
    BY <2>1 DEF Inserting
  <2> QED BY <2>1, <2>2, <2>3, <2>4, <2>5, <2>6
<1>4. ASSUME Inserting(s)'
      PROVE  /\ request'[s].delivery \in Deliveries
             /\ request'[s].op = "draft" => ~Counts(request'[s].new)
             /\ request'[s].pc \in Planning => deliveries'[request'[s].delivery].status = "NONE"
             /\ request'[s].pc \in Checking /\ Counts(deliveries'[request'[s].delivery])
                  => deliveries'[request'[s].delivery].lines = request'[s].new.lines
             /\ \A t \in Slots \ {s} : Inserting(t) => request[t].delivery # request'[s].delivery
  <2>1. CASE Starts(s) /\ request'[s].pc = "passes"
    <3>1. /\ request'[s].op \in {"create", "draft", "catchUp"} /\ deliveries' = deliveries
          /\ request'[s].delivery \in Deliveries /\ Fresh(request'[s].delivery)
          /\ request'[s].op = "draft" => ~Counts(request'[s].new)
      BY <1>4, <2>1 DEF Starts, StillData, Inserting
    <3> QED BY <2>1, <3>1 DEF Fresh, Checking
  <2>2. CASE Inserting(s) /\ Kept(s)
    <3> DEFINE d == request[s].delivery
    <3>1. /\ request'[s].delivery = d /\ request'[s].op = request[s].op /\ request'[s].new = request[s].new
      BY <2>2 DEF Kept
    <3>2. /\ d \in Deliveries
          /\ \A t \in Slots \ {s} : Inserting(t) => request[t].delivery # d
          /\ request[s].op = "draft" => ~Counts(request[s].new)
      BY <2>2 DEF OwnDelivery
    <3>3. request'[s].pc \in Planning => deliveries'[d].status = "NONE"
      <4>1. CASE request'[s].pc \in Planning
        <5>1. request[s].pc \in Planning /\ deliveries' = deliveries
          BY <2>2, <4>1 DEF Inserting, Moves, Starts, Stops, Proceeds, Inserts, Withdraws, Returned, Reads,
             Passed, Failed, TakesBack, StillData, Planning, Kept
        <5> QED BY <2>2, <5>1 DEF OwnDelivery
      <4> QED BY <4>1
    <3>4. request'[s].pc \in Checking /\ Counts(deliveries'[d]) => deliveries'[d].lines = request[s].new.lines
      BY <1>1b, <2>2 DEF Inserts, OwnDelivery
    <3> QED BY <3>1, <3>2, <3>3, <3>4
  <2> QED BY <1>1a, <1>4, <2>1, <2>2
<1>5. ASSUME NEW t \in Slots, NEW u \in Slots \ {t}, Inserting(t)', Inserting(u)'
      PROVE  request'[u].delivery # request'[t].delivery
  <2>1. CASE t = s
    <3>1. u # s /\ request'[u] = request[u] /\ Inserting(u)
      BY <1>0, <1>5, <2>1 DEF Inserting
    <3> QED BY <1>4, <1>5, <2>1, <3>1
  <2>2. CASE u = s
    <3>1. t # s /\ request'[t] = request[t] /\ Inserting(t)
      BY <1>0, <1>5, <2>2 DEF Inserting
    <3> QED BY <1>4, <1>5, <2>2, <3>1
  <2>3. CASE t # s /\ u # s
    <3>1. request'[t] = request[t] /\ Inserting(t) /\ request'[u] = request[u] /\ Inserting(u)
      BY <1>0, <1>5, <2>3 DEF Inserting
    <3> QED BY <3>1, <1>5 DEF OwnDelivery
  <2> QED BY <2>1, <2>2, <2>3
<1> QED BY <1>1b, <1>3, <1>4, <1>5 DEF OwnDelivery

LEMMA PassesInUseKept ==
  ASSUME TypeOK, OwnDelivery, PassesInUse, NEW s \in Slots, Moves(s), Others(s) PROVE PassesInUse'
<1>1. ASSUME Inserting(s)', request'[s].pc \in {"write"} \cup Checking
      PROVE  \A p \in Passes : request'[s].new.lines[p] > 0
                                 => request'[s].passes[p] \notin {"DRAFT", "CANCELLED"}
  <2>1. CASE Proceeds(s)
    BY <1>1, <2>1 DEF Proceeds, Inserting, Kept
  <2>2. CASE Inserts(s) \/ Reads(s) \/ Failed(s)
    <3>1. /\ request[s].pc \in {"write"} \cup Checking /\ Inserting(s) /\ Kept(s)
          /\ request'[s].passes = request[s].passes
      BY <1>1, <2>2 DEF Inserts, Reads, Failed, Inserting, Kept, Checking
    <3> QED BY <3>1 DEF PassesInUse, Kept
  <2>3. CASE \/ Starts(s) \/ Stops(s) \/ Withdraws(s) \/ Returned(s) \/ Passed(s) \/ TakesBack(s)
    BY <1>1, <2>3 DEF Starts, Stops, Withdraws, Returned, Passed, TakesBack, Inserting, Checking
  <2> QED BY <2>1, <2>2, <2>3 DEF Moves
<1>2. ASSUME NEW t \in Slots, t # s, Inserting(t)', request'[t].pc \in {"write"} \cup Checking
      PROVE  \A p \in Passes : request'[t].new.lines[p] > 0
                                 => request'[t].passes[p] \notin {"DRAFT", "CANCELLED"}
  <2>1. request'[t] = request[t] /\ Inserting(t)
    BY <1>2 DEF Others, Inserting
  <2> QED BY <1>2, <2>1 DEF PassesInUse
<1> QED BY <1>1, <1>2 DEF PassesInUse

(* A delivery changes by its own insertion, and by being withdrawn.          *)
LEMMA DeliveriesChange ==
  ASSUME NEW s \in Slots, Moves(s), NEW d \in Deliveries
  PROVE  \/ deliveries'[d] = deliveries[d]
         \/ Inserts(s) /\ request[s].delivery = d /\ deliveries[d].status = "NONE"
         \/ deliveries'[d].status \in {"CANCELLED", "GONE"}
<1>1. CASE Inserts(s)
  BY <1>1 DEF Inserts
<1>2. CASE Withdraws(s)
  BY <1>2 DEF Withdraws
<1>3. CASE TakesBack(s)
  BY <1>3 DEF TakesBack
<1>4. CASE Starts(s) \/ Stops(s) \/ Proceeds(s) \/ Returned(s) \/ Reads(s) \/ Passed(s) \/ Failed(s)
  BY <1>4 DEF Starts, Stops, Proceeds, Returned, Reads, Passed, Failed, StillData
<1> QED BY <1>1, <1>2, <1>3, <1>4 DEF Moves

LEMMA InsertsOwn ==
  ASSUME OwnDelivery, NEW s \in Slots, Inserts(s), NEW t \in Slots, t # s,
         request[t].pc \in Checking
  PROVE  request[t].delivery # request[s].delivery
<1>1. Inserting(t)
  BY DEF OwnDelivery, Inserting, Checking
<1>2. Inserting(s)
  BY DEF Inserts
<1> QED BY <1>1, <1>2 DEF OwnDelivery

LEMMA OnlyReads ==
  ASSUME NEW s \in Slots, Moves(s), request'[s].pc = "checkReturns"
  PROVE  Reads(s)
  BY DEF Moves, Starts, Stops, Proceeds, Inserts, Withdraws, Returned, Passed, Failed, TakesBack,
         Checking

LEMMA CheckReadsKept ==
  ASSUME TypeOK, OwnDelivery, CheckReads, NEW s \in Slots, Moves(s), Others(s) PROVE CheckReads'
<1> SUFFICES ASSUME NEW t \in Slots, request'[t].pc = "checkReturns", NEW d \in Deliveries
             PROVE  /\ deliveries'[d].status = "NONE" => ~Counts(request'[t].docs[d])
                    /\ Counts(deliveries'[d]) /\ Counts(request'[t].docs[d])
                         => request'[t].docs[d].lines = deliveries'[d].lines
                    /\ d = request'[t].delivery /\ Counts(deliveries'[d])
                         => Counts(request'[t].docs[d])
  BY DEF CheckReads
<1>1. CASE t = s
  BY <1>1, OnlyReads DEF Reads, StillData, Counts
<1>2. CASE t # s
  <2>1. request'[t] = request[t]
    BY <1>2 DEF Others
  <2>2. CASE deliveries'[d] = deliveries[d]
    BY <2>1, <2>2 DEF CheckReads
  <2>3. CASE Inserts(s) /\ request[s].delivery = d /\ deliveries[d].status = "NONE"
    <3>1. request[t].delivery # d
      BY <1>2, <2>1, <2>3, InsertsOwn DEF Checking
    <3>2. ~Counts(request[t].docs[d])
      BY <2>1, <2>3 DEF CheckReads
    <3> QED BY <2>1, <3>1, <3>2
  <2>4. CASE deliveries'[d].status \in {"CANCELLED", "GONE"}
    BY <2>4 DEF Counts
  <2> QED BY <2>2, <2>3, <2>4, DeliveriesChange
<1> QED BY <1>1, <1>2

LEMMA CheckOrderKept ==
  ASSUME TypeOK, OwnDelivery, CheckReads, CheckOrder, NEW s \in Slots, Moves(s), Others(s)
  PROVE  CheckOrder'
<1> SUFFICES ASSUME NEW t \in Slots, NEW u \in Slots,
                    request'[t].pc = "checkReturns", request'[u].pc = "checkReturns",
                    NEW d \in Deliveries, Counts(deliveries'[d]),
                    Counts(request'[t].docs[d]), ~Counts(request'[u].docs[d]),
                    Counts(deliveries'[request'[u].delivery])
             PROVE  Counts(request'[t].docs[request'[u].delivery])
  BY DEF CheckOrder
<1>1. CASE t = s
  BY <1>1, OnlyReads DEF Reads, StillData
<1>2. CASE u = s
  BY <1>2, OnlyReads DEF Reads, StillData
<1>3. CASE t # s /\ u # s
  <2>1. request'[t] = request[t] /\ request'[u] = request[u]
    BY <1>3 DEF Others
  <2>2. ASSUME NEW e \in Deliveries, Counts(deliveries'[e]), ~Counts(deliveries[e])
        PROVE  Inserts(s) /\ request[s].delivery = e /\ deliveries[e].status = "NONE"
    <3>1. deliveries'[e] # deliveries[e] /\ deliveries'[e].status \notin {"CANCELLED", "GONE"}
      BY <2>2 DEF Counts
    <3> QED BY <3>1, DeliveriesChange
  <2>3. Counts(deliveries[d])
    <3>1. deliveries[d].status # "NONE"
      BY <2>1 DEF CheckReads
    <3> QED BY <2>2, <3>1
  <2>4. Counts(deliveries[request[u].delivery])
    <3>1. request[u].delivery \in Deliveries
      BY <2>1 DEF OwnDelivery, Inserting, Checking
    <3>2. Inserts(s) => request[s].delivery # request[u].delivery
      BY <1>3, <2>1, InsertsOwn DEF Checking
    <3> QED BY <2>1, <2>2, <3>1, <3>2
  <2> QED BY <2>1, <2>3, <2>4 DEF CheckOrder
<1> QED BY <1>1, <1>2, <1>3

LEMMA WithinReceivedKept ==
  ASSUME TypeOK, OwnDelivery, PassesInUse, CheckReads, CheckOrder, WithinReceived,
         NEW s \in Slots, Moves(s), Others(s)
  PROVE  WithinReceived'
<1> SUFFICES ASSUME NEW p \in Passes
             PROVE  Cardinality(Held(p)') <= Received[p] + PendingBack(returns', p)
  BY DEF WithinReceived
<1>0. /\ Received[p] \in Nat /\ PendingBack(returns, p) \in Nat /\ PendingBack(returns', p) \in Nat
      /\ PendingBack(returns, p) <= PendingBack(returns', p)
  BY ReceivedAssumption, PendingFinite, PendingGrows
<1>f. IsFiniteSet(Held(p)) /\ Cardinality(Held(p)) \in Nat
  BY HeldSubset, PiecesFinite, FS_Subset, FS_CardinalityType
<1>1. CASE Passed(s)
  <2>1. returns' = returns
    BY <1>1 DEF Passed, StillData
  <2> QED BY <1>1, <2>1, PassedHolds
<1>2. CASE ~Passed(s)
  <2>1. ASSUME NEW d \in Deliveries, Counts(deliveries'[d])
        PROVE  \/ Counts(deliveries[d]) /\ deliveries'[d].lines = deliveries[d].lines
               \/ /\ UnderCheck(d)'
                  /\ \A t \in Slots : request'[t].pc = "checkReturns" => request'[t].delivery # d
    <3>1. CASE deliveries'[d] = deliveries[d]
      BY <2>1, <3>1
    <3>2. CASE Inserts(s) /\ request[s].delivery = d /\ deliveries[d].status = "NONE"
      <4>1. request[s].op # "draft"
        BY <2>1, <3>2 DEF Inserts, Counts, OwnDelivery
      <4>2. request'[s].pc = "checkMovements" /\ request'[s].delivery = d
        BY <3>2, <4>1 DEF Inserts, Kept
      <4>3. UnderCheck(d)'
        BY <4>2 DEF UnderCheck
      <4>4. ASSUME NEW t \in Slots, request'[t].pc = "checkReturns" PROVE request'[t].delivery # d
        <5>1. t # s /\ request'[t] = request[t]
          BY <4>2, <4>4 DEF Others
        <5> QED BY <3>2, <4>4, <5>1, InsertsOwn DEF Checking
      <4> QED BY <4>3, <4>4
    <3>3. deliveries'[d].status \notin {"CANCELLED", "GONE"}
      BY <2>1 DEF Counts
    <3> QED BY <3>1, <3>2, <3>3, DeliveriesChange
  <2>2. ASSUME NEW d \in Deliveries, Counts(deliveries'[d]), UnderCheck(d) PROVE UnderCheck(d)'
    <3>1. PICK t \in Slots : request[t].pc \in Checking /\ request[t].delivery = d
      BY <2>2 DEF UnderCheck, Checking
    <3>2. CASE t # s
      BY <3>1, <3>2 DEF UnderCheck, Checking, Others
    <3>3. CASE t = s
      <4>1. Reads(s) \/ Failed(s) \/ TakesBack(s)
        BY <1>2, <3>1, <3>3 DEF Moves, Starts, Stops, Proceeds, Inserts, Withdraws, Returned, Checking
      <4>2. ~TakesBack(s)
        BY <2>2, <3>1, <3>3 DEF TakesBack, Counts
      <4>3. request'[s].pc \in Checking /\ request'[s].delivery = d
        BY <3>1, <3>3, <4>1, <4>2 DEF Reads, Failed, Kept, Checking
      <4> QED BY <4>3 DEF UnderCheck, Checking
    <3> QED BY <3>2, <3>3
  <2>3. ASSUME NEW t \in Slots, request'[t].pc = "checkReturns"
        PROVE  \/ /\ request[t].pc = "checkReturns" /\ request'[t].delivery = request[t].delivery
                  /\ request'[t].docs = request[t].docs
               \/ request'[t].docs = deliveries'
    <3>1. CASE t = s
      BY <2>3, <3>1, OnlyReads DEF Reads, StillData
    <3>2. CASE t # s
      BY <2>3, <3>2 DEF Others
    <3> QED BY <3>1, <3>2
  <2>4. Held(p)' \subseteq Held(p)
    BY <2>1, <2>2, <2>3, HeldShrinks
  <2>5. Cardinality(Held(p)') <= Cardinality(Held(p)) /\ Cardinality(Held(p)') \in Nat
    BY <1>f, <2>4, FS_Subset, FS_CardinalityType
  <2>6. Cardinality(Held(p)) <= Received[p] + PendingBack(returns, p)
    BY DEF WithinReceived
  <2> QED BY <1>0, <1>f, <2>5, <2>6
<1> QED BY <1>1, <1>2

LEMMA LedgerInit == Init => LedgerInv
<1> SUFFICES ASSUME Init PROVE LedgerInv
  OBVIOUS
<1>1. \A s \in Slots : request[s].pc = "idle"
  BY DEF Init, IdleRequest
<1>2. \A d \in Deliveries : ~Counts(deliveries[d])
  BY DEF Init, NoDelivery, Counts
<1>3. \A p \in Passes : Held(p) = {}
  BY <1>2 DEF Held, AcceptedPieces, OvertakenPieces, Pieces
<1>4. ASSUME NEW p \in Passes PROVE Cardinality(Held(p)) <= Received[p] + PendingBack(returns, p)
  <2>1. Received[p] \in Nat /\ PendingBack(returns, p) \in Nat
    BY ReceivedAssumption, PendingFinite
  <2>2. Cardinality(Held(p)) = 0
    BY <1>3, FS_EmptySet
  <2> QED BY <2>1, <2>2
<1> QED BY <1>1, <1>4 DEF LedgerInv, OpsSent, OwnDelivery, PassesInUse, CheckReads, CheckOrder,
        WithinReceived, Inserting, Checking

LEMMA LedgerStep ==
  ASSUME Ops \cap UncheckedOps = {}
  PROVE  TypeOK /\ LedgerInv /\ [Next]_vars => LedgerInv'
<1> SUFFICES ASSUME TypeOK, LedgerInv, [Next]_vars PROVE LedgerInv'
  OBVIOUS
<1>1. ASSUME NEW s \in Slots, Moves(s), Others(s) PROVE LedgerInv'
  BY <1>1, OpsSentKept, OwnDeliveryKept, PassesInUseKept, CheckReadsKept, CheckOrderKept,
     WithinReceivedKept DEF LedgerInv
<1>2. ASSUME NEW s \in Slots, NewRequest(s) PROVE LedgerInv'
  BY <1>1, <1>2, NewMoves DEF Moves
<1>3. ASSUME NEW s \in Slots, Step(s) PROVE LedgerInv'
  BY <1>1, <1>3, StepMoves DEF LedgerInv
<1>4. ASSUME NEW s \in Slots, Crash(s) PROVE FALSE
  BY <1>4 DEF Crash, UncheckedOps
<1>5. CASE UNCHANGED vars
  <2>1. deliveries' = deliveries /\ returns' = returns /\ request' = request
    BY <1>5 DEF vars
  <2>2. OpsSent' /\ OwnDelivery' /\ PassesInUse' /\ CheckReads' /\ CheckOrder'
    BY <2>1 DEF LedgerInv, OpsSent, OwnDelivery, Inserting, PassesInUse, CheckReads, CheckOrder
  <2>3. \A p \in Passes : Held(p)' = Held(p)
    BY <2>1 DEF Held, AcceptedPieces, OvertakenPieces, Overtaken, UnderCheck
  <2>4. WithinReceived'
    BY <2>1, <2>3 DEF LedgerInv, WithinReceived
  <2> QED BY <2>2, <2>4 DEF LedgerInv
<1> QED BY <1>2, <1>3, <1>4, <1>5 DEF Next

LEMMA LedgerSafe == LedgerInv => NeverOversold
<1> SUFFICES ASSUME LedgerInv, NEW p \in Passes
             PROVE  Cardinality(AcceptedPieces(p)) <= Received[p] + PendingBack(returns, p)
  BY DEF NeverOversold
<1>1. AcceptedPieces(p) \subseteq Held(p) /\ IsFiniteSet(Held(p))
  BY HeldSubset, PiecesFinite, FS_Subset DEF Held
<1>2. Cardinality(AcceptedPieces(p)) <= Cardinality(Held(p))
      /\ Cardinality(AcceptedPieces(p)) \in Nat /\ Cardinality(Held(p)) \in Nat
  BY <1>1, FS_Subset, FS_CardinalityType
<1>3. Cardinality(Held(p)) <= Received[p] + PendingBack(returns, p)
  BY DEF LedgerInv, WithinReceived
<1>4. Received[p] \in Nat /\ PendingBack(returns, p) \in Nat
  BY ReceivedAssumption, PendingFinite
<1> QED BY <1>2, <1>3, <1>4

(* However creations, catch-ups, drafts, cancellations, returns and status   *)
(* changes race, what stands on a pass never exceeds what was received on    *)
(* it: the second look of create_delivery is enough.  It is not there for    *)
(* activations, and a correction or a resend may undo what it saw.           *)
THEOREM RacesNeverOversell ==
  ASSUME Ops \cap UncheckedOps = {}
  PROVE  Spec => []NeverOversold
<1>1. TypeOK /\ LedgerInv /\ [Next]_vars => (TypeOK /\ LedgerInv)'
  BY LedgerStep, TypeInvariant
<1> QED BY <1>1, TypeInit, LedgerInit, LedgerSafe, PTL DEF Spec

-----------------------------------------------------------------------------
(* Corrections: what each step does to the document it keeps, and to the     *)
(* stored ones.                                                              *)

KeptOld(s) == /\ request'[s].op = request[s].op /\ request'[s].delivery = request[s].delivery
              /\ request'[s].old = request[s].old

LEMMA StepKeepsOld ==
  ASSUME TypeOK, NEW s \in Slots, Step(s)
  PROVE  request[s].pc # "idle" /\ (request'[s].pc = "idle" \/ KeptOld(s))
<1>0. request \in [Slots -> Request] /\ request[s] \in Request
  BY DEF TypeOK
<1>1. ASSUME NEW pc, Goto(s, pc) PROVE KeptOld(s)
  <2>1. request'[s] = [request[s] EXCEPT !.pc = pc]
    BY <1>0, <1>1 DEF Goto
  <2> QED BY <1>0, <2>1 DEF KeptOld, Request
<1>2. ASSUME NEW pc, GotoAfresh(s, pc) PROVE KeptOld(s)
  <2>1. request'[s] = [request[s] EXCEPT !.pc = pc, !.docs = IdleRequest.docs,
                                         !.rets = IdleRequest.rets]
    BY <1>0, <1>2 DEF GotoAfresh
  <2> QED BY <1>0, <2>1 DEF KeptOld, Request
<1>3. ASSUME Finish(s) PROVE request'[s].pc = "idle"
  BY <1>3, FinishFacts
<1>4. CASE LoadPasses(s) \/ RefreshPasses(s)
  BY <1>0, <1>4 DEF LoadPasses, RefreshPasses, Request, KeptOld
<1>5. CASE CheckMovements(s) \/ RefreshMovements(s) \/ ActivationReturns(s)
  BY <1>0, <1>5 DEF CheckMovements, RefreshMovements, ActivationReturns, Request, KeptOld
<1>6. CASE RefreshReturns(s)
  <2>1. PICK todo : request' = [request EXCEPT ![s].rets = returns, ![s].todo = todo,
                                               ![s].pc = "persist"]
    BY <1>6 DEF RefreshReturns
  <2>2. request[s].pc # "idle"
    BY <1>6 DEF RefreshReturns
  <2> QED BY <2>1, <2>2, <1>0 DEF Request, KeptOld
<1>7. CASE RereadPass(s)
  BY <1>0, <1>7 DEF RereadPass, Request, KeptOld
<1>8. CASE \E p \in Passes : Persist(s, p)
  BY <1>0, <1>8 DEF Persist, Request, KeptOld
<1>9. CASE LoadMovements(s)
  <2>1. request[s].pc # "idle"
    BY <1>9 DEF LoadMovements
  <2>2. CASE Finish(s) \/ Goto(s, "write")
    BY <1>1, <1>3, <2>1, <2>2
  <2>3. CASE \E pc : request' = [[request EXCEPT ![s].docs = deliveries] EXCEPT ![s].pc = pc]
    BY <1>0, <2>1, <2>3 DEF Request, KeptOld
  <2> QED BY <1>9, <2>2, <2>3 DEF LoadMovements
<1>10. CASE LoadReturns(s) \/ CheckReturns(s) \/ Refreshed(s)
  <2>1. /\ request[s].pc # "idle"
        /\ Finish(s) \/ \E pc : GotoAfresh(s, pc)
    BY <1>10 DEF LoadReturns, CheckReturns, Refreshed
  <2> QED BY <1>2, <1>3, <2>1
<1>11. CASE \/ Insert(s) \/ Activate(s) \/ Correct(s) \/ Cancel(s) \/ RegisterReturn(s)
            \/ MarkResent(s) \/ SetStatus(s) \/ Undo(s) \/ ActivationStatus(s) \/ PutPassBack(s)
  <2>1. /\ request[s].pc # "idle"
        /\ Finish(s) \/ \E pc : Goto(s, pc)
    BY <1>11 DEF Insert, Activate, Correct, Cancel, RegisterReturn, MarkResent, SetStatus,
       Undo, ActivationStatus, PutPassBack
  <2> QED BY <1>1, <1>3, <2>1
<1> QED BY <1>4, <1>5, <1>6, <1>7, <1>8, <1>9, <1>10, <1>11 DEF Step

(* A written document has a new timestamp, or none, or is one put back.      *)
LEMMA StampedWrites ==
  ASSUME TypeOK, NEW s \in Slots, Step(s)
  PROVE  /\ clock' >= clock
         /\ \A d \in Deliveries :
              \/ deliveries'[d] = deliveries[d]
              \/ deliveries'[d].stamp = 0
              \/ deliveries'[d].stamp = clock + 1 /\ clock' = clock + 1
              \/ Correcting(s) /\ request[s].delivery = d /\ deliveries'[d] = request[s].old
<1>0. /\ request[s] \in Request /\ deliveries \in [Deliveries -> Delivery] /\ clock \in Nat
      /\ request[s].new \in Delivery
  BY DEF TypeOK, Request
<1>1. CASE Insert(s)
  <2> DEFINE doc == [request[s].new EXCEPT !.seal = clock + 1,
                       !.stamp = IF request[s].op = "catchUp" THEN 0 ELSE clock + 1]
  <2>1. doc.stamp = 0 \/ doc.stamp = clock + 1
    BY <1>0 DEF Delivery
  <2>2. deliveries' = [deliveries EXCEPT ![request[s].delivery] = doc] /\ clock' = clock + 1
    BY <1>1 DEF Insert, Tick
  <2> HIDE DEF doc
  <2> QED BY <1>0, <2>1, <2>2
<1>2. CASE Activate(s) \/ Correct(s)
  <2>1. Resealed(request[s].new).stamp = clock + 1
    BY <1>0 DEF Resealed, Delivery
  <2>2. \/ clock' = clock + 1
        \/ clock' = clock /\ deliveries' = deliveries
    BY <1>2 DEF Activate, Correct, Tick
  <2>3. \A d \in Deliveries : \/ deliveries'[d] = deliveries[d]
                              \/ deliveries'[d] = Resealed(request[s].new) /\ clock' = clock + 1
    BY <1>0, <1>2 DEF Activate, Correct, Tick
  <2> QED BY <1>0, <2>1, <2>2, <2>3
<1>3. CASE Cancel(s)
  <2>1. \A doc \in Delivery :
          [doc EXCEPT !.status = "CANCELLED", !.stamp = clock + 1].stamp = clock + 1
    BY DEF Delivery
  <2>2. clock' = clock + 1
    BY <1>3 DEF Cancel, Tick
  <2>3. \A d \in Deliveries : deliveries'[d] = deliveries[d] \/ deliveries'[d].stamp = clock + 1
    BY <1>0, <1>3, <2>1 DEF Cancel
  <2> QED BY <1>0, <2>2, <2>3
<1>4. CASE Undo(s)
  <2>1. [NoDelivery EXCEPT !.status = "GONE"].stamp = 0
    BY DEF NoDelivery
  <2>2. clock' = clock /\ request[s].pc # "idle"
    BY <1>4 DEF Undo
  <2>3. CASE request[s].op = "correct"
    <3>1. Correcting(s)
      BY <2>2, <2>3 DEF Correcting
    <3>2. \A d \in Deliveries : \/ deliveries'[d] = deliveries[d]
                                \/ request[s].delivery = d /\ deliveries'[d] = request[s].old
      BY <1>0, <1>4, <2>3 DEF Undo
    <3> QED BY <1>0, <2>2, <3>1, <3>2
  <2>4. CASE request[s].op # "correct"
    <3>1. \A d \in Deliveries : deliveries'[d] = deliveries[d] \/ deliveries'[d].stamp = 0
      BY <1>0, <1>4, <2>1, <2>4 DEF Undo
    <3> QED BY <1>0, <2>2, <3>1
  <2> QED BY <2>3, <2>4
<1>5. CASE deliveries' = deliveries /\ clock' = clock
  BY <1>0, <1>5
<1> QED BY <1>1, <1>2, <1>3, <1>4, <1>5
        DEF Step, DataFrame, LoadPasses, RefreshPasses, LoadMovements, CheckMovements,
         RefreshMovements, LoadReturns, CheckReturns, Refreshed, RefreshReturns,
         ActivationReturns, RereadPass, RegisterReturn, MarkResent, SetStatus, ActivationStatus,
         PutPassBack, Persist

LEMMA StampInit == Init => StampInv
<1> SUFFICES ASSUME Init PROVE StampInv
  OBVIOUS
<1>1. \A s \in Slots : request[s].pc = "idle"
  BY DEF Init, IdleRequest
<1>2. clock = 0 /\ \A d \in Deliveries : deliveries[d].stamp = 0
  BY DEF Init, NoDelivery
<1> QED BY <1>1, <1>2 DEF StampInv, Correcting

LEMMA StampStep == TypeOK /\ StampInv /\ [Next]_vars => StampInv'
<1> SUFFICES ASSUME TypeOK, StampInv, [Next]_vars PROVE StampInv'
  OBVIOUS
<1>0. /\ clock \in Nat /\ deliveries \in [Deliveries -> Delivery]
      /\ \A d \in Deliveries : deliveries[d].stamp \in Nat /\ deliveries[d].stamp <= clock
      /\ \A s \in Slots : request[s].old.stamp \in Nat
  BY DEF TypeOK, Request, Delivery, StampInv
<1>t. request' \in [Slots -> Request] /\ clock' \in Nat /\ deliveries' \in [Deliveries -> Delivery]
      /\ \A s \in Slots : request'[s].old.stamp \in Nat
  <2>1. TypeOK'
    BY TypeInvariant
  <2> QED BY <2>1 DEF TypeOK, Request, Delivery
(* The corrections under way, and a new one, keep a document that is known. *)
<1>1. ASSUME NEW s \in Slots, Step(s) PROVE StampInv'
  <2>1. \A t \in Slots : Correcting(t)' =>
          Correcting(t) /\ request'[t].delivery = request[t].delivery
          /\ request'[t].old = request[t].old
    BY <1>1, StepKeepsOld, StepRequest DEF Correcting, KeptOld
  <2>2. clock' >= clock /\ \A d \in Deliveries :
              \/ deliveries'[d] = deliveries[d]
              \/ deliveries'[d].stamp = 0
              \/ deliveries'[d].stamp = clock + 1 /\ clock' = clock + 1
              \/ Correcting(s) /\ request[s].delivery = d /\ deliveries'[d] = request[s].old
    BY <1>1, StampedWrites
  <2>3. Correcting(s) => request[s].old.stamp <= clock
    BY DEF StampInv
  <2>4. ASSUME NEW d \in Deliveries PROVE deliveries'[d].stamp <= clock'
    BY <1>0, <1>t, <2>2, <2>3
  <2>5. ASSUME NEW t \in Slots, Correcting(t)'
        PROVE  /\ request'[t].delivery \in Deliveries /\ request'[t].old.stamp <= clock'
               /\ /\ request'[t].old.stamp # 0
                  /\ deliveries'[request'[t].delivery].stamp = request'[t].old.stamp
                  => deliveries'[request'[t].delivery] = request'[t].old
    <3>1. /\ Correcting(t) /\ request'[t].delivery = request[t].delivery
          /\ request'[t].old = request[t].old
      BY <2>1, <2>5
    <3>2. /\ request[t].delivery \in Deliveries /\ request[t].old.stamp <= clock
          /\ /\ request[t].old.stamp # 0
             /\ deliveries[request[t].delivery].stamp = request[t].old.stamp
             => deliveries[request[t].delivery] = request[t].old
      BY <3>1 DEF StampInv
    <3>3. ASSUME Correcting(s), request[s].delivery = request[t].delivery,
                 request[t].old.stamp # 0, request[s].old.stamp = request[t].old.stamp
          PROVE  request[s].old = request[t].old
      BY <3>1, <3>3 DEF StampInv
    <3>4. request[t].old.stamp <= clock'
      BY <1>0, <1>t, <2>2, <3>2
    <3>5. ASSUME request[t].old.stamp # 0,
                 deliveries'[request[t].delivery].stamp = request[t].old.stamp
          PROVE  deliveries'[request[t].delivery] = request[t].old
      BY <1>0, <2>2, <3>2, <3>3, <3>5
    <3> QED BY <3>1, <3>2, <3>4, <3>5
  <2>6. ASSUME NEW t \in Slots, NEW u \in Slots, Correcting(t)', Correcting(u)',
               request'[u].delivery = request'[t].delivery, request'[t].old.stamp # 0,
               request'[u].old.stamp = request'[t].old.stamp
        PROVE  request'[u].old = request'[t].old
    <3>1. /\ Correcting(t) /\ request'[t].delivery = request[t].delivery
          /\ request'[t].old = request[t].old
          /\ Correcting(u) /\ request'[u].delivery = request[u].delivery
          /\ request'[u].old = request[u].old
      BY <2>1, <2>6
    <3> QED BY <2>6, <3>1 DEF StampInv
  <2> QED BY <2>4, <2>5, <2>6 DEF StampInv
<1>2. ASSUME NEW s \in Slots, NewRequest(s) PROVE StampInv'
  <2>1. deliveries' = deliveries /\ clock' = clock
    BY <1>2, NewMoves DEF Starts, StillData
  <2>2. \A t \in Slots : Correcting(t)' =>
          /\ request'[t].delivery \in Deliveries
          /\ \/ Correcting(t) /\ request'[t].delivery = request[t].delivery
                /\ request'[t].old = request[t].old
             \/ request'[t].old = deliveries[request'[t].delivery]
    BY <1>2, NewMoves DEF Starts, Correcting, Others, StampInv
  <2>3. ASSUME NEW t \in Slots, Correcting(t)'
        PROVE  /\ request'[t].old.stamp <= clock
               /\ /\ request'[t].old.stamp # 0
                  /\ deliveries[request'[t].delivery].stamp = request'[t].old.stamp
                  => deliveries[request'[t].delivery] = request'[t].old
    BY <1>0, <2>2, <2>3 DEF StampInv
  <2>4. ASSUME NEW t \in Slots, NEW u \in Slots, Correcting(t)', Correcting(u)',
               request'[u].delivery = request'[t].delivery, request'[t].old.stamp # 0,
               request'[u].old.stamp = request'[t].old.stamp
        PROVE  request'[u].old = request'[t].old
    <3>1. CASE request'[t].old = deliveries[request'[t].delivery]
      BY <2>3, <2>4, <3>1
    <3>2. CASE request'[u].old = deliveries[request'[u].delivery]
      BY <2>3, <2>4, <3>2
    <3>3. CASE /\ Correcting(t) /\ request'[t].delivery = request[t].delivery
               /\ request'[t].old = request[t].old
               /\ Correcting(u) /\ request'[u].delivery = request[u].delivery
               /\ request'[u].old = request[u].old
      BY <2>4, <3>3 DEF StampInv
    <3> QED BY <2>2, <2>4, <3>1, <3>2, <3>3
  <2> QED BY <1>0, <2>1, <2>2, <2>3, <2>4 DEF StampInv
<1>3. ASSUME NEW s \in Slots, Crash(s) PROVE StampInv'
  <2>1. deliveries' = deliveries /\ clock' = clock
        /\ \A t \in Slots : Correcting(t)' => request'[t] = request[t] /\ Correcting(t)
    BY <1>3, FinishFacts DEF Crash, DataFrame, Finish, Correcting, TypeOK
  <2> QED BY <2>1 DEF StampInv
<1>4. CASE UNCHANGED vars
  BY <1>4 DEF vars, StampInv, Correcting
<1> QED BY <1>1, <1>2, <1>3, <1>4 DEF Next

(* A correction whose document has a timestamp replaces exactly the document *)
(* it was made from, whatever else is under way or has died: the conditional *)
(* write of correct_delivery_items.                                          *)
THEOREM CorrectionsAreFresh == Spec => CorrectionIsFresh
<1>1. TypeOK /\ StampInv /\ [Next]_vars =>
        [\A s \in Slots : CorrectionLands(s) /\ request[s].old.stamp # 0
           => deliveries[request[s].delivery] = request[s].old]_vars
  <2> SUFFICES ASSUME TypeOK, StampInv, Next, NEW s \in Slots, CorrectionLands(s),
                      request[s].old.stamp # 0
               PROVE  deliveries[request[s].delivery] = request[s].old
    OBVIOUS
  <2>1. request[s].pc = "write" /\ request[s].op = "correct" /\ request'[s].pc = "checkMovements"
    BY DEF CorrectionLands
  <2>2. PICK t \in Slots : NewRequest(t) \/ Step(t) \/ Crash(t)
    BY DEF Next
  <2>3. ~NewRequest(t)
    BY <2>1, NewMoves DEF Others, Starts
  <2>4. ~Crash(t)
    BY <2>1, FinishFacts DEF Crash, Finish, TypeOK
  <2>5. Step(t) /\ t = s
    BY <2>1, <2>2, <2>3, <2>4, StepRequest
  <2>6. Correct(s)
    BY <2>1, <2>5, FinishFacts
       DEF Step, LoadPasses, RefreshPasses, LoadMovements, CheckMovements,
         RefreshMovements, LoadReturns, CheckReturns, Refreshed, RefreshReturns,
         ActivationReturns, RereadPass, RegisterReturn, MarkResent, SetStatus, ActivationStatus,
         PutPassBack, Persist, Insert, Activate, Cancel, Undo
  <2>7. Unmodified(request[s].old, deliveries[request[s].delivery])
    BY <2>1, <2>6, FinishFacts DEF Correct
  <2>8. deliveries[request[s].delivery].stamp = request[s].old.stamp
    BY <2>7 DEF Unmodified
  <2> QED BY <2>1, <2>8 DEF StampInv, Correcting
<1>2. TypeOK /\ StampInv /\ [Next]_vars => (TypeOK /\ StampInv)'
  BY StampStep, TypeInvariant
<1> QED BY <1>1, <1>2, TypeInit, StampInit, PTL DEF Spec, CorrectionIsFresh

-----------------------------------------------------------------------------
(* One request at a time.  What each step does to the request that takes it. *)

SameAim(s) ==
  /\ request'[s].op = request[s].op /\ request'[s].delivery = request[s].delivery
  /\ request'[s].ret = request[s].ret /\ request'[s].pass = request[s].pass
  /\ request'[s].old = request[s].old /\ request'[s].new = request[s].new

SameReads(s) == request'[s].passes = request[s].passes /\ request'[s].status = request[s].status

SameBalance(s) == request'[s].docs = request[s].docs /\ request'[s].rets = request[s].rets

LEMMA GotoTable ==
  ASSUME TypeOK, NEW s \in Slots, NEW pc, Goto(s, pc)
  PROVE  /\ request'[s].pc = pc /\ SameAim(s) /\ SameReads(s) /\ SameBalance(s)
         /\ request'[s].todo = request[s].todo
<1>1. request[s] \in Request /\ request'[s] = [request[s] EXCEPT !.pc = pc]
  BY DEF TypeOK, Goto
<1> QED BY <1>1 DEF Request, SameAim, SameReads, SameBalance

LEMMA AfreshTable ==
  ASSUME TypeOK, NEW s \in Slots, NEW pc, GotoAfresh(s, pc)
  PROVE  request'[s].pc = pc /\ SameAim(s) /\ SameReads(s) /\ request'[s].todo = request[s].todo
<1>1. /\ request[s] \in Request
      /\ request'[s] = [request[s] EXCEPT !.pc = pc, !.docs = IdleRequest.docs,
                                          !.rets = IdleRequest.rets]
  BY DEF TypeOK, GotoAfresh
<1> QED BY <1>1 DEF Request, SameAim, SameReads

LEMMA PassesTable ==
  ASSUME TypeOK, NEW s \in Slots, LoadPasses(s) \/ RefreshPasses(s)
  PROVE  /\ \/ request[s].pc = "passes" /\ request'[s].pc = "movements"
            \/ request[s].pc = "refreshPasses" /\ request'[s].pc = "refreshMovements"
         /\ SameAim(s) /\ request'[s].passes = passes /\ DataFrame
<1>1. request \in [Slots -> Request] /\ request[s] \in Request
  BY DEF TypeOK
<1> QED BY <1>1 DEF LoadPasses, RefreshPasses, Request, SameAim

LEMMA DocsTable ==
  ASSUME TypeOK, NEW s \in Slots, CheckMovements(s) \/ RefreshMovements(s)
  PROVE  /\ \/ request[s].pc = "checkMovements" /\ request'[s].pc = "checkReturns"
            \/ request[s].pc = "refreshMovements" /\ request'[s].pc = "refreshReturns"
         /\ SameAim(s) /\ SameReads(s) /\ request'[s].docs = deliveries /\ DataFrame
<1>1. request \in [Slots -> Request] /\ request[s] \in Request
  BY DEF TypeOK
<1> QED BY <1>1 DEF CheckMovements, RefreshMovements, Request, SameAim, SameReads

LEMMA MovementsTable ==
  ASSUME TypeOK, NEW s \in Slots, LoadMovements(s)
  PROVE  /\ request[s].pc = "movements" /\ DataFrame
         /\ \/ request'[s].pc = "idle"
            \/ /\ SameAim(s) /\ SameReads(s)
               /\ \/ /\ request[s].op \notin {"activate", "status"}
                     /\ request'[s].pc = "returns" /\ request'[s].docs = deliveries
                  \/ /\ request[s].op = "activate" /\ Activatable(request[s].old, deliveries)
                     /\ request'[s].pc = "write" /\ request'[s].docs = deliveries
                  \/ /\ request[s].op = "status" /\ Unused(deliveries, request[s].pass)
                     /\ request'[s].pc = "write"
<1>1. request \in [Slots -> Request] /\ request[s] \in Request
  BY DEF TypeOK
<1>2. request[s].pc = "movements" /\ DataFrame
  BY DEF LoadMovements
<1>3. CASE Finish(s)
  BY <1>2, <1>3, FinishFacts
<1>4. CASE request[s].op = "status" /\ Unused(deliveries, request[s].pass) /\ Goto(s, "write")
  BY <1>2, <1>4, GotoTable
<1>5. ASSUME NEW pc, request' = [[request EXCEPT ![s].docs = deliveries] EXCEPT ![s].pc = pc]
      PROVE  /\ request'[s].pc = pc /\ request'[s].docs = deliveries
             /\ SameAim(s) /\ SameReads(s)
  BY <1>1, <1>5 DEF Request, SameAim, SameReads
<1> QED BY <1>2, <1>3, <1>4, <1>5 DEF LoadMovements

LEMMA ReturnsTable ==
  ASSUME TypeOK, NEW s \in Slots, LoadReturns(s)
  PROVE  /\ request[s].pc = "returns" /\ DataFrame
         /\ \/ request'[s].pc = "idle"
            \/ /\ SameAim(s) /\ SameReads(s) /\ request'[s].pc = "write"
               /\ Accepted(request[s], returns)
  BY AfreshTable, FinishFacts DEF LoadReturns

LEMMA CheckTable ==
  ASSUME TypeOK, NEW s \in Slots, CheckReturns(s)
  PROVE  /\ request[s].pc = "checkReturns" /\ DataFrame
         /\ request'[s].pc \in {"refreshPasses", "undo"} /\ SameAim(s) /\ SameReads(s)
  BY AfreshTable DEF CheckReturns

LEMMA RefreshReturnsTable ==
  ASSUME TypeOK, NEW s \in Slots, RefreshReturns(s)
  PROVE  /\ request[s].pc = "refreshReturns" /\ request'[s].pc = "persist" /\ DataFrame
         /\ SameAim(s) /\ SameReads(s) /\ request'[s].docs = request[s].docs
         /\ request'[s].rets = returns
         /\ request'[s].todo =
              {p \in Affected(request[s]) :
                 DerivedStatus(request[s].docs, returns, p, request[s].passes[p])
                   # request[s].passes[p]}
<1>1. request \in [Slots -> Request] /\ request[s] \in Request
  BY DEF TypeOK
<1>2. PICK stale : stale = {p \in Affected(request[s]) :
                     DerivedStatus(request[s].docs, returns, p, request[s].passes[p])
                       # request[s].passes[p]}
  OBVIOUS
<1>3. /\ request' = [request EXCEPT ![s].rets = returns, ![s].todo = stale, ![s].pc = "persist"]
      /\ request[s].pc = "refreshReturns" /\ DataFrame
  BY <1>2 DEF RefreshReturns
<1>4. /\ request'[s].pc = "persist" /\ SameAim(s) /\ SameReads(s)
      /\ request'[s].docs = request[s].docs /\ request'[s].rets = returns
      /\ request'[s].todo = stale
  BY <1>1, <1>3 DEF Request, SameAim, SameReads
<1> QED BY <1>2, <1>3, <1>4

LEMMA PersistTable ==
  ASSUME TypeOK, NEW s \in Slots, NEW p \in Passes, Persist(s, p)
  PROVE  /\ request[s].pc = "persist" /\ request'[s].pc = "persist" /\ p \in request[s].todo
         /\ SameAim(s) /\ SameReads(s) /\ SameBalance(s)
         /\ request'[s].todo = request[s].todo \ {p}
         /\ passes' = [passes EXCEPT ![p] =
              DerivedStatus(request[s].docs, request[s].rets, p, request[s].passes[p])]
         /\ UNCHANGED <<deliveries, returns, clock>>
<1>1. request \in [Slots -> Request] /\ request[s] \in Request
  BY DEF TypeOK
<1> QED BY <1>1 DEF Persist, Request, SameAim, SameReads, SameBalance

LEMMA RefreshedTable ==
  ASSUME TypeOK, NEW s \in Slots, Refreshed(s)
  PROVE  /\ request[s].pc = "persist" /\ request[s].todo = {} /\ DataFrame
         /\ \/ request'[s].pc = "idle"
            \/ /\ request[s].op = "catchUp" /\ request'[s].pc = "reread"
               /\ SameAim(s) /\ SameReads(s)
  BY AfreshTable, FinishFacts DEF Refreshed

LEMMA ActivationTable ==
  ASSUME TypeOK, NEW s \in Slots, ActivationReturns(s)
  PROVE  /\ request[s].pc = "activated" /\ request'[s].pc = "activatedStatus" /\ DataFrame
         /\ SameAim(s) /\ SameReads(s) /\ request'[s].docs = request[s].docs
         /\ request'[s].rets = returns
<1>1. request \in [Slots -> Request] /\ request[s] \in Request
  BY DEF TypeOK
<1> QED BY <1>1 DEF ActivationReturns, Request, SameAim, SameReads

LEMMA RereadTable ==
  ASSUME TypeOK, NEW s \in Slots, RereadPass(s)
  PROVE  /\ request[s].pc = "reread" /\ request'[s].pc = "putBack" /\ DataFrame
         /\ SameAim(s) /\ request'[s].status = passes[request[s].pass]
<1>1. request \in [Slots -> Request] /\ request[s] \in Request
  BY DEF TypeOK
<1> QED BY <1>1 DEF RereadPass, Request, SameAim

(* What the steps that write do. *)
LEMMA InsertTable ==
  ASSUME TypeOK, NEW s \in Slots, Insert(s)
  PROVE  LET req == request[s] IN
         /\ req.pc = "write" /\ req.op \in {"create", "draft", "catchUp"}
         /\ deliveries[req.delivery].status = "NONE"
         /\ \E doc \in Delivery :
              /\ deliveries' = [deliveries EXCEPT ![req.delivery] = doc]
              /\ SameLinen(doc, req.new)
         /\ UNCHANGED <<passes, returns>>
         /\ \/ req.op = "draft" /\ request'[s].pc = "idle"
            \/ /\ req.op # "draft" /\ request'[s].pc = "checkMovements"
               /\ SameAim(s) /\ SameReads(s)
<1>1. request[s] \in Request /\ request[s].new \in Delivery /\ clock + 1 \in Nat
  BY DEF TypeOK, Request
<1>2. PICK doc : doc = [request[s].new EXCEPT !.seal = clock + 1,
                          !.stamp = IF request[s].op = "catchUp" THEN 0 ELSE clock + 1]
  OBVIOUS
<1>3. doc \in Delivery /\ SameLinen(doc, request[s].new)
  BY <1>1, <1>2 DEF Delivery, SameLinen
<1>4. deliveries' = [deliveries EXCEPT ![request[s].delivery] = doc]
  BY <1>2 DEF Insert
<1>5. \/ request[s].op = "draft" /\ request'[s].pc = "idle"
      \/ /\ request[s].op # "draft" /\ request'[s].pc = "checkMovements"
         /\ SameAim(s) /\ SameReads(s)
  BY GotoTable, FinishFacts DEF Insert
<1> QED BY <1>3, <1>4, <1>5 DEF Insert, WriteFrame

LEMMA ActivateTable ==
  ASSUME TypeOK, NEW s \in Slots, Activate(s), Exists(deliveries[request[s].delivery])
  PROVE  LET req == request[s] IN
         /\ req.pc = "write" /\ req.op = "activate" /\ request'[s].pc = "activated"
         /\ \E doc \in Delivery :
              /\ deliveries' = [deliveries EXCEPT ![req.delivery] = doc]
              /\ SameLinen(doc, req.new)
         /\ UNCHANGED <<passes, returns>>
         /\ SameAim(s) /\ SameReads(s) /\ SameBalance(s)
<1>1. request[s] \in Request /\ request[s].new \in Delivery /\ clock + 1 \in Nat
  BY DEF TypeOK, Request
<1>2. PICK doc : doc = Resealed(request[s].new)
  OBVIOUS
<1>3. doc \in Delivery /\ SameLinen(doc, request[s].new)
  BY <1>1, <1>2 DEF Delivery, SameLinen, Resealed
<1>4. deliveries' = [deliveries EXCEPT ![request[s].delivery] = doc]
  BY <1>2 DEF Activate
<1>5. request'[s].pc = "activated" /\ SameAim(s) /\ SameReads(s) /\ SameBalance(s)
  BY GotoTable DEF Activate
<1> QED BY <1>3, <1>4, <1>5 DEF Activate, WriteFrame

LEMMA CorrectTable ==
  ASSUME TypeOK, NEW s \in Slots, Correct(s)
  PROVE  LET req == request[s] IN
         /\ req.pc = "write" /\ req.op = "correct" /\ UNCHANGED <<passes, returns>>
         /\ \/ request'[s].pc = "idle" /\ deliveries' = deliveries
            \/ /\ request'[s].pc = "checkMovements" /\ SameAim(s) /\ SameReads(s)
               /\ \E doc \in Delivery :
                    /\ deliveries' = [deliveries EXCEPT ![req.delivery] = doc]
                    /\ SameLinen(doc, req.new)
<1>1. request[s] \in Request /\ request[s].new \in Delivery /\ clock + 1 \in Nat
  BY DEF TypeOK, Request
<1>2. PICK doc : doc = Resealed(request[s].new)
  OBVIOUS
<1>3. doc \in Delivery /\ SameLinen(doc, request[s].new)
  BY <1>1, <1>2 DEF Delivery, SameLinen, Resealed
<1>4. CASE Unmodified(request[s].old, deliveries[request[s].delivery])
  <2>1. deliveries' = [deliveries EXCEPT ![request[s].delivery] = doc]
    BY <1>2, <1>4 DEF Correct
  <2>2. request'[s].pc = "checkMovements" /\ SameAim(s) /\ SameReads(s)
    BY <1>4, GotoTable DEF Correct
  <2> QED BY <1>3, <2>1, <2>2 DEF Correct, WriteFrame
<1>5. CASE ~Unmodified(request[s].old, deliveries[request[s].delivery])
  BY <1>5, FinishFacts DEF Correct, WriteFrame
<1> QED BY <1>4, <1>5

LEMMA CancelTable ==
  ASSUME TypeOK, NEW s \in Slots, Cancel(s), Exists(deliveries[request[s].delivery]),
         request[s].delivery \in Deliveries
  PROVE  LET req == request[s] IN
         /\ req.pc = "write" /\ req.op = "cancel" /\ request'[s].pc = "refreshPasses"
         /\ \E doc \in Delivery :
              /\ deliveries' = [deliveries EXCEPT ![req.delivery] = doc]
              /\ doc.status = "CANCELLED"
         /\ UNCHANGED <<passes, returns>> /\ SameAim(s) /\ SameReads(s)
<1>1. deliveries[request[s].delivery] \in Delivery /\ clock + 1 \in Nat
  BY DEF TypeOK
<1>2. PICK doc : doc = [deliveries[request[s].delivery] EXCEPT !.status = "CANCELLED",
                                                               !.stamp = clock + 1]
  OBVIOUS
<1>3. doc \in Delivery /\ doc.status = "CANCELLED"
  BY <1>1, <1>2 DEF Delivery
<1>4. deliveries' = [deliveries EXCEPT ![request[s].delivery] = doc]
  BY <1>2 DEF Cancel
<1>5. request'[s].pc = "refreshPasses" /\ SameAim(s) /\ SameReads(s)
  BY GotoTable DEF Cancel
<1> QED BY <1>3, <1>4, <1>5 DEF Cancel, WriteFrame

LEMMA ReturnWritesTable ==
  ASSUME TypeOK, NEW s \in Slots, RegisterReturn(s) \/ MarkResent(s)
  PROVE  LET req == request[s] IN
         /\ req.pc = "write" /\ request'[s].pc = "refreshPasses"
         /\ \/ /\ req.op = "return" /\ returns[req.ret].state = "NONE"
               /\ returns' = [returns EXCEPT ![req.ret] = [state |-> "PENDING", pass |-> req.pass]]
            \/ req.op = "resend" /\ returns' = [returns EXCEPT ![req.ret].state = "SENT"]
         /\ UNCHANGED <<passes, deliveries>> /\ SameAim(s) /\ SameReads(s)
  BY GotoTable DEF RegisterReturn, MarkResent

LEMMA StatusTable ==
  ASSUME TypeOK, NEW s \in Slots, SetStatus(s)
  PROVE  /\ request[s].pc = "write" /\ request[s].op = "status" /\ request'[s].pc = "idle"
         /\ passes' = [passes EXCEPT ![request[s].pass] = request[s].status]
         /\ UNCHANGED <<deliveries, returns>>
  BY FinishFacts DEF SetStatus

LEMMA UndoTable ==
  ASSUME TypeOK, NEW s \in Slots, Undo(s), Exists(deliveries[request[s].delivery]),
         request[s].op \in {"create", "catchUp", "correct"}
  PROVE  /\ request[s].pc = "undo" /\ request'[s].pc = "idle"
         /\ deliveries' = Restored(request[s]) /\ UNCHANGED <<passes, returns>>
<1>1. deliveries' = Restored(request[s])
  BY DEF Undo, Restored, Checking
<1> QED BY <1>1, FinishFacts DEF Undo, WriteFrame

LEMMA ActivationStatusTable ==
  ASSUME TypeOK, NEW s \in Slots, ActivationStatus(s)
  PROVE  LET req == request[s]
             p == req.new.primary
             counted == [d \in Deliveries |->
                    CASE d = req.delivery -> req.new
                      [] d # req.delivery /\ req.docs[d].primary = p -> req.docs[d]
                      [] OTHER -> NoDelivery] IN
         /\ req.pc = "activatedStatus" /\ request'[s].pc = "idle"
         /\ passes' = [passes EXCEPT ![p] = DerivedStatus(counted, req.rets, p, req.passes[p])]
         /\ UNCHANGED <<deliveries, returns>>
  BY FinishFacts DEF ActivationStatus

LEMMA PutBackTable ==
  ASSUME TypeOK, NEW s \in Slots, PutPassBack(s)
  PROVE  /\ request[s].pc = "putBack" /\ request'[s].pc = "idle"
         /\ passes' = [passes EXCEPT ![request[s].pass] = request[s].status]
         /\ UNCHANGED <<deliveries, returns>>
  BY FinishFacts DEF PutPassBack

(* A new request starts consistent with what there is. *)
LEMMA StartConsistent ==
  ASSUME TypeOK, NEW s \in Slots, NewRequest(s), ClosedUnused(deliveries)
  PROVE  \E req \in Request : /\ Begin(s, req) /\ Consistent(req)
                              /\ req.pc \in {"passes", "movements", "write"}
<1> USE IdleTypes DEF TypeOK
<1>0. \A d \in Deliveries : deliveries[d] \in Delivery
  OBVIOUS
<1>p. ASSUME NEW req, req.pc \in {"passes", "movements", "write"}
      PROVE  ClosedUnused(Restored(req))
  BY <1>p DEF Restored, Checking
<1>1. ASSUME NEW d \in Deliveries, NEW new \in Delivery, NEW op \in {"create", "draft", "catchUp"},
             NEW p \in Passes, Requested(new.primary, new.lines), new.status \in {"DRAFT", "DELIVERED"},
             op = "draft" => new.status = "DRAFT",
             \/ Begin(s, [IdleRequest EXCEPT !.pc = "passes", !.op = op, !.delivery = d, !.new = new])
             \/ Begin(s, [IdleRequest EXCEPT !.pc = "passes", !.op = op, !.delivery = d,
                                             !.pass = p, !.new = new])
      PROVE  \E req \in Request : /\ Begin(s, req) /\ Consistent(req)
                                  /\ req.pc \in {"passes", "movements", "write"}
  <2>1. PICK req : /\ \/ req = [IdleRequest EXCEPT !.pc = "passes", !.op = op, !.delivery = d,
                                                   !.new = new]
                      \/ req = [IdleRequest EXCEPT !.pc = "passes", !.op = op, !.delivery = d,
                                                   !.pass = p, !.new = new]
                   /\ Begin(s, req)
    BY <1>1
  <2>2. /\ req \in Request /\ req.pc = "passes" /\ req.op = op /\ req.delivery = d
        /\ req.new = new
    <3>1. CASE req = [IdleRequest EXCEPT !.pc = "passes", !.op = op, !.delivery = d, !.new = new]
      BY <3>1 DEF Request, PCs, AllOps
    <3>2. CASE req = [IdleRequest EXCEPT !.pc = "passes", !.op = op, !.delivery = d,
                                         !.pass = p, !.new = new]
      BY <3>2 DEF Request, PCs, AllOps
    <3> QED BY <2>1, <3>1, <3>2
  <2>0. req.op \in Ops
    BY <2>1 DEF Begin
  <2>3. PlanShape(req) /\ PassesKnown(req) /\ DocsKnown(req) /\ Justified(req)
    BY <1>1, <2>2, <2>0 DEF PlanShape, Planning, PassesKnown, DocsKnown, Justified, Checking
  <2>8. Consistent(req)
    BY <1>p, <2>2, <2>3 DEF Consistent
  <2> QED BY <2>1, <2>2, <2>8
<1>2. ASSUME NEW d \in Deliveries, NEW p \in Passes, NEW lines \in Lines, NEW op,
             StartCreate(s, d, p, lines, op)
      PROVE  \E req \in Request : /\ Begin(s, req) /\ Consistent(req)
                                  /\ req.pc \in {"passes", "movements", "write"}
  <2>1. PICK new : new = NewDelivery(IF op = "draft" THEN "DRAFT" ELSE "DELIVERED", p, lines)
    OBVIOUS
  <2>2. /\ new \in Delivery /\ new.primary = p /\ new.lines = lines
        /\ new.status \in {"DRAFT", "DELIVERED"} /\ (op = "draft" => new.status = "DRAFT")
    BY <2>1, NewDeliveryType DEF NewDelivery
  <2>3. /\ op \in {"create", "draft", "catchUp"} /\ Requested(new.primary, new.lines)
        /\ Begin(s, [IdleRequest EXCEPT !.pc = "passes", !.op = op, !.delivery = d, !.new = new])
    BY <1>2, <2>1, <2>2 DEF StartCreate
  <2> QED BY <1>1, <2>2, <2>3
<1>3. ASSUME NEW d \in Deliveries, NEW p \in Passes, NEW lines \in Lines,
             StartCatchUp(s, d, p, lines)
      PROVE  \E req \in Request : /\ Begin(s, req) /\ Consistent(req)
                                  /\ req.pc \in {"passes", "movements", "write"}
  <2>1. PICK new : new = NewDelivery("DELIVERED", p, lines)
    OBVIOUS
  <2>2. new \in Delivery /\ new.primary = p /\ new.lines = lines
        /\ new.status \in {"DRAFT", "DELIVERED"}
    BY <2>1, NewDeliveryType DEF NewDelivery
  <2>3. /\ Requested(new.primary, new.lines)
        /\ Begin(s, [IdleRequest EXCEPT !.pc = "passes", !.op = "catchUp", !.delivery = d,
                                        !.pass = p, !.new = new])
    BY <1>3, <2>1, <2>2 DEF StartCatchUp
  <2> QED BY <1>1, <2>2, <2>3
<1>4. ASSUME NEW d \in Deliveries, NEW new \in Delivery,
             NEW op \in {"activate", "correct", "cancel"}, NEW pc \in {"passes", "write"},
             deliveries[d].status \in {"DRAFT", "DELIVERED"},
             new.primary = deliveries[d].primary,
             \A p \in Passes : new.lines[p] > 0 => deliveries[d].lines[p] > 0,
             op = "activate" => /\ deliveries[d].status = "DRAFT"
                                /\ new = [deliveries[d] EXCEPT !.status = "DELIVERED"],
             op # "activate" => new.status = deliveries[d].status,
             pc = "write" => op = "cancel",
             Begin(s, [IdleRequest EXCEPT !.pc = pc, !.op = op, !.delivery = d,
                                          !.old = deliveries[d], !.new = new])
      PROVE  \E req \in Request : /\ Begin(s, req) /\ Consistent(req)
                                  /\ req.pc \in {"passes", "movements", "write"}
  <2>1. PICK req : /\ req = [IdleRequest EXCEPT !.pc = pc, !.op = op, !.delivery = d,
                                                !.old = deliveries[d], !.new = new]
                   /\ Begin(s, req)
    BY <1>4
  <2>2. /\ req \in Request /\ req.pc = pc /\ req.op = op /\ req.delivery = d
        /\ req.old = deliveries[d] /\ req.new = new
    <3>1. deliveries[d] \in Delivery /\ d \in Deliveries \cup {None}
      BY <1>0
    <3> QED BY <2>1, <3>1 DEF Request, PCs, AllOps
  <2>0. req.op \in Ops
    BY <2>1 DEF Begin
  <2>3. PlanShape(req)
    BY <1>4, <2>2, <2>0 DEF PlanShape, Checking, Planning
  <2>4. PassesKnown(req) /\ DocsKnown(req)
    BY <1>4, <2>2 DEF PassesKnown, DocsKnown, Checking
  <2>5. Justified(req)
    <3>1. pc = "write" => op = "cancel"
      BY <1>4
    <3> QED BY <2>2, <3>1 DEF Justified
  <2>8. req.pc \in {"passes", "movements", "write"}
    BY <2>2
  <2>9. Consistent(req)
    BY <1>p, <2>3, <2>4, <2>5, <2>8 DEF Consistent
  <2> QED BY <2>1, <2>2, <2>8, <2>9
<1>5. ASSUME NEW d \in Deliveries, StartActivate(s, d)
      PROVE  \E req \in Request : /\ Begin(s, req) /\ Consistent(req)
                                  /\ req.pc \in {"passes", "movements", "write"}
  <2>1. PICK new : new = [deliveries[d] EXCEPT !.status = "DELIVERED"]
    OBVIOUS
  <2>2. /\ new \in Delivery /\ new.primary = deliveries[d].primary
        /\ \A p \in Passes : new.lines[p] > 0 => deliveries[d].lines[p] > 0
    BY <1>0, <2>1 DEF Delivery
  <2>3. /\ deliveries[d].status = "DRAFT"
        /\ Begin(s, [IdleRequest EXCEPT !.pc = "passes", !.op = "activate", !.delivery = d,
                                        !.old = deliveries[d], !.new = new])
    BY <1>5, <2>1 DEF StartActivate
  <2> QED BY <1>4, <2>1, <2>2, <2>3
<1>6. ASSUME NEW d \in Deliveries, NEW lines \in Lines, StartCorrect(s, d, lines)
      PROVE  \E req \in Request : /\ Begin(s, req) /\ Consistent(req)
                                  /\ req.pc \in {"passes", "movements", "write"}
  <2>1. PICK new : new = [deliveries[d] EXCEPT !.lines = lines]
    OBVIOUS
  <2>2. /\ new \in Delivery /\ new.primary = deliveries[d].primary
        /\ new.status = deliveries[d].status /\ new.lines = lines
    BY <1>0, <2>1 DEF Delivery
  <2>3. /\ deliveries[d].status \in {"DRAFT", "DELIVERED"}
        /\ \A p \in Passes : lines[p] > 0 => deliveries[d].lines[p] > 0
        /\ Begin(s, [IdleRequest EXCEPT !.pc = "passes", !.op = "correct", !.delivery = d,
                                        !.old = deliveries[d], !.new = new])
    BY <1>0, <1>6, <2>1 DEF StartCorrect, Exists, Delivery
  <2> QED BY <1>4, <2>2, <2>3
<1>7. ASSUME NEW d \in Deliveries, StartCancel(s, d)
      PROVE  \E req \in Request : /\ Begin(s, req) /\ Consistent(req)
                                  /\ req.pc \in {"passes", "movements", "write"}
  <2>1. /\ deliveries[d].status \in {"DRAFT", "DELIVERED"} /\ deliveries[d] \in Delivery
        /\ Begin(s, [IdleRequest EXCEPT !.pc = "write", !.op = "cancel", !.delivery = d,
                                        !.old = deliveries[d], !.new = deliveries[d]])
    BY <1>0, <1>7 DEF StartCancel, Exists, Delivery
  <2> QED BY <1>4, <2>1
<1>8. ASSUME NEW r \in Returns, NEW p \in Passes, NEW op \in {"return", "resend"},
             op = "resend" => returns[r].pass = p,
             Begin(s, [IdleRequest EXCEPT !.pc = "passes", !.op = op, !.ret = r, !.pass = p])
      PROVE  \E req \in Request : /\ Begin(s, req) /\ Consistent(req)
                                  /\ req.pc \in {"passes", "movements", "write"}
  <2>1. PICK req : /\ req = [IdleRequest EXCEPT !.pc = "passes", !.op = op, !.ret = r, !.pass = p]
                   /\ Begin(s, req)
    BY <1>8
  <2>2. req \in Request /\ req.pc = "passes" /\ req.op = op /\ req.ret = r /\ req.pass = p
    BY <2>1 DEF Request, PCs, AllOps
  <2>0. req.op \in Ops
    BY <2>1 DEF Begin
  <2>3. PlanShape(req) /\ PassesKnown(req) /\ DocsKnown(req) /\ Justified(req)
    BY <1>8, <2>2, <2>0 DEF PlanShape, Planning, PassesKnown, DocsKnown, Justified, Checking
  <2>8. Consistent(req)
    BY <1>p, <2>2, <2>3 DEF Consistent
  <2> QED BY <2>1, <2>2, <2>8
<1>9. ASSUME NEW r \in Returns, StartResend(s, r)
      PROVE  \E req \in Request : /\ Begin(s, req) /\ Consistent(req)
                                  /\ req.pc \in {"passes", "movements", "write"}
  <2>1. returns[r].pass \in Passes
    BY DEF Return
  <2> QED BY <1>8, <1>9, <2>1 DEF StartResend
<1>10. ASSUME NEW p \in Passes, NEW to \in PassStatuses, StartStatus(s, p, to)
       PROVE  \E req \in Request : /\ Begin(s, req) /\ Consistent(req)
                                   /\ req.pc \in {"passes", "movements", "write"}
  <2>1. PICK pc : pc = IF to = "CANCELLED" THEN "movements" ELSE "write"
    OBVIOUS
  <2>2. PICK req : /\ req = [IdleRequest EXCEPT !.op = "status", !.pass = p, !.status = to, !.pc = pc]
                   /\ Begin(s, req)
    BY <1>10, <2>1 DEF StartStatus
  <2>3. /\ req \in Request /\ req.pc = pc /\ req.op = "status" /\ req.pass = p /\ req.status = to
    BY <2>1, <2>2 DEF Request, PCs, AllOps
  <2>0. req.op \in Ops
    BY <2>2 DEF Begin
  <2>4. PlanShape(req)
    BY <1>10, <2>0, <2>1, <2>3 DEF StartStatus, PlanShape, Closed, Checking, Planning
  <2>5. PassesKnown(req) /\ DocsKnown(req)
    BY <2>1, <2>3 DEF PassesKnown, DocsKnown, Checking
  <2>6. Justified(req)
    BY <2>3 DEF Justified
  <2>7. req.pc \in {"passes", "movements", "write"}
    BY <2>1, <2>3
  <2>8. Consistent(req)
    BY <1>p, <2>4, <2>5, <2>6, <2>7 DEF Consistent
  <2> QED BY <2>2, <2>3, <2>7, <2>8
<1>11. ASSUME NEW r \in Returns, NEW p \in Passes, StartReturn(s, r, p)
       PROVE  \E req \in Request : /\ Begin(s, req) /\ Consistent(req)
                                   /\ req.pc \in {"passes", "movements", "write"}
  BY <1>8, <1>11 DEF StartReturn
<1> QED BY <1>2, <1>3, <1>5, <1>6, <1>7, <1>9, <1>10, <1>11 DEF NewRequest

(* A request alone in the house keeps the books consistent: the reads. *)
LEMMA ReadsConsistent ==
  ASSUME TypeOK, TypeOK', NEW s \in Slots, Consistent(request[s]), ClosedUnused(deliveries),
         \/ LoadPasses(s) \/ RefreshPasses(s) \/ CheckMovements(s) \/ RefreshMovements(s)
         \/ CheckReturns(s) \/ ActivationReturns(s) \/ RereadPass(s)
  PROVE  request'[s].pc # "idle" /\ Consistent(request[s])'
<1> USE DEF SameAim, SameReads, DataFrame
<1>1. PICK rq : rq = request[s]
  OBVIOUS
<1>2. PICK r2 : r2 = request'[s]
  OBVIOUS
<1>3. /\ passes' = passes /\ deliveries' = deliveries /\ returns' = returns
      /\ PlanShape(rq) /\ PassesKnown(rq) /\ DocsKnown(rq)
      /\ r2.op = rq.op /\ r2.delivery = rq.delivery /\ r2.old = rq.old /\ r2.new = rq.new
      /\ r2.pass = rq.pass /\ r2.ret = rq.ret
      /\ \/ rq.pc = "passes" /\ r2.pc = "movements" /\ r2.passes = passes
         \/ rq.pc = "refreshPasses" /\ r2.pc = "refreshMovements" /\ r2.passes = passes
         \/ /\ rq.pc = "checkMovements" /\ r2.pc = "checkReturns" /\ r2.docs = deliveries
            /\ r2.passes = rq.passes
         \/ /\ rq.pc = "refreshMovements" /\ r2.pc = "refreshReturns" /\ r2.docs = deliveries
            /\ r2.passes = rq.passes
         \/ /\ rq.pc = "checkReturns" /\ r2.pc \in {"refreshPasses", "undo"}
            /\ r2.passes = rq.passes
         \/ /\ rq.pc = "activated" /\ r2.pc = "activatedStatus" /\ r2.docs = rq.docs
            /\ r2.passes = rq.passes /\ r2.rets = returns
         \/ rq.pc = "reread" /\ r2.pc = "putBack" /\ r2.status = passes[rq.pass]
  BY <1>1, <1>2, PassesTable, DocsTable, CheckTable, ActivationTable, RereadTable DEF Consistent
<1>4. PlanShape(r2) /\ Justified(r2)
  BY <1>3 DEF PlanShape, Checking, Planning, Justified
<1>5. PassesKnown(r2)
  BY <1>3 DEF PassesKnown, Checking
<1>6. DocsKnown(r2)
  BY <1>3 DEF DocsKnown, Planning, Checking
<1>7. ClosedUnused(Restored(r2))
  <2>1. CASE r2.pc \in Checking
    <3>1. Restored(r2) = Restored(rq)
      BY <1>3, <2>1 DEF Restored, Checking
    <3> QED BY <1>1, <3>1 DEF Consistent
  <2>2. CASE r2.pc \notin Checking
    BY <2>2 DEF Restored
  <2> QED BY <2>1, <2>2
<1>8. /\ PlanShape(r2)' /\ PassesKnown(r2)' /\ DocsKnown(r2)' /\ Justified(r2)'
  <2>1. PlanShape(r2)'
    BY <1>3, <1>4 DEF PlanShape, Planning, Closed
  <2>2. PassesKnown(r2)'
    BY <1>3, <1>5 DEF PassesKnown
  <2>3. DocsKnown(r2)'
    BY <1>3, <1>6 DEF DocsKnown
  <2>4. Justified(r2)'
    BY <1>3, <1>4 DEF Justified
  <2> QED BY <2>1, <2>2, <2>3, <2>4
<1>9. ClosedUnused(Restored(r2))'
  BY <1>3, <1>7 DEF ClosedUnused, Closed, Restored
<1>10. Consistent(r2)'
  BY <1>8, <1>9 DEF Consistent
<1>11. r2.pc # "idle"
  BY <1>3
<1> QED BY <1>2, <1>10, <1>11

(* The decisions that a plan rests on. *)
LEMMA PlansConsistent ==
  ASSUME TypeOK, TypeOK', NEW s \in Slots, Consistent(request[s]), ClosedUnused(deliveries),
         LoadMovements(s) \/ LoadReturns(s), request'[s].pc # "idle"
  PROVE  Consistent(request[s])'
<1> USE DEF SameAim, SameReads, DataFrame
<1>1. PICK rq : rq = request[s]
  OBVIOUS
<1>2. PICK r2 : r2 = request'[s]
  OBVIOUS
<1>3. /\ passes' = passes /\ deliveries' = deliveries /\ returns' = returns
      /\ PlanShape(rq) /\ PassesKnown(rq) /\ DocsKnown(rq)
      /\ r2.op = rq.op /\ r2.delivery = rq.delivery /\ r2.old = rq.old /\ r2.new = rq.new
      /\ r2.pass = rq.pass /\ r2.ret = rq.ret /\ r2.passes = rq.passes /\ r2.status = rq.status
      /\ \/ /\ rq.pc = "movements" /\ rq.op \notin {"activate", "status"}
            /\ r2.pc = "returns" /\ r2.docs = deliveries
         \/ /\ rq.pc = "movements" /\ rq.op = "activate" /\ Activatable(rq.old, deliveries)
            /\ r2.pc = "write" /\ r2.docs = deliveries
         \/ /\ rq.pc = "movements" /\ rq.op = "status" /\ Unused(deliveries, rq.pass)
            /\ r2.pc = "write"
         \/ rq.pc = "returns" /\ r2.pc = "write" /\ Accepted(rq, returns)
  BY <1>1, <1>2, MovementsTable, ReturnsTable DEF Consistent
<1>4. PlanShape(r2)
  BY <1>3 DEF PlanShape, Checking, Planning
<1>5. PassesKnown(r2)
  BY <1>3 DEF PassesKnown, Checking
<1>6. DocsKnown(r2)
  <2>0. rq.pc = "returns" => rq.op \notin {"activate", "status"}
    BY <1>3 DEF PlanShape
  <2> QED BY <1>3, <2>0 DEF DocsKnown, Planning, Checking
<1>7. ClosedUnused(Restored(r2))
  BY <1>3 DEF Restored, Checking
<1>j. Justified(r2)
  <2>0. rq.pc = "returns" => rq.op \notin {"activate", "status"}
    BY <1>3 DEF PlanShape
  <2>1. CASE rq.pc = "returns"
    <3>1. rq.docs = deliveries
      BY <1>3, <2>1 DEF DocsKnown
    <3>2. CASE rq.op \in {"create", "draft", "catchUp", "correct"}
      <4>1. rq.passes = passes
        BY <1>3, <2>1, <3>2 DEF PassesKnown
      <4> QED BY <1>3, <2>1, <3>1, <3>2, <4>1 DEF Justified, Accepted
    <3>3. CASE rq.op \notin {"create", "draft", "catchUp", "correct"}
      BY <1>3, <2>0, <2>1, <3>3 DEF Justified
    <3> QED BY <3>2, <3>3
  <2>2. CASE rq.pc = "movements"
    BY <1>3, <2>2 DEF Justified
  <2> QED BY <1>3, <2>1, <2>2
<1>8. /\ PlanShape(r2)' /\ PassesKnown(r2)' /\ DocsKnown(r2)' /\ Justified(r2)'
  <2>1. PlanShape(r2)'
    BY <1>3, <1>4 DEF PlanShape, Planning, Closed, Unused
  <2>2. PassesKnown(r2)' /\ DocsKnown(r2)'
    BY <1>3, <1>5, <1>6 DEF PassesKnown, DocsKnown
  <2>3. Justified(r2)'
    BY <1>3, <1>j DEF Justified
  <2> QED BY <2>1, <2>2, <2>3
<1>9. ClosedUnused(Restored(r2))'
  BY <1>3, <1>7 DEF ClosedUnused, Closed, Restored
<1>10. Consistent(r2)'
  BY <1>8, <1>9 DEF Consistent
<1> QED BY <1>2, <1>10

(* A refresh, and its writes. *)
LEMMA DerivedKeepsClosed ==
  ASSUME NEW docs, NEW rets, NEW p, NEW st
  PROVE  DerivedStatus(docs, rets, p, st) \in {"DRAFT", "CANCELLED"} <=> st \in {"DRAFT", "CANCELLED"}
  BY DEF DerivedStatus

LEMMA RefreshConsistent ==
  ASSUME TypeOK, TypeOK', NEW s \in Slots, Consistent(request[s]), ClosedUnused(deliveries),
         RefreshReturns(s) \/ Refreshed(s) \/ \E p \in Passes : Persist(s, p),
         request'[s].pc # "idle"
  PROVE  Consistent(request[s])'
<1> USE DEF SameAim, SameReads, SameBalance, DataFrame
<1>1. PICK rq : rq = request[s]
  OBVIOUS
<1>2. PICK r2 : r2 = request'[s]
  OBVIOUS
<1>3. /\ deliveries' = deliveries /\ returns' = returns
      /\ PlanShape(rq) /\ PassesKnown(rq) /\ DocsKnown(rq)
      /\ r2.op = rq.op /\ r2.delivery = rq.delivery /\ r2.old = rq.old /\ r2.new = rq.new
      /\ r2.pass = rq.pass /\ r2.ret = rq.ret /\ r2.passes = rq.passes
      /\ \/ /\ rq.pc = "refreshReturns" /\ r2.pc = "persist" /\ r2.docs = rq.docs
            /\ r2.rets = returns /\ r2.todo \subseteq Affected(rq) /\ passes' = passes
         \/ /\ rq.pc = "persist" /\ r2.pc = "persist" /\ r2.docs = rq.docs /\ r2.rets = rq.rets
            /\ \E p \in Passes : /\ p \in rq.todo /\ r2.todo = rq.todo \ {p}
                                 /\ passes' = [passes EXCEPT ![p] =
                                      DerivedStatus(rq.docs, rq.rets, p, rq.passes[p])]
         \/ rq.pc = "persist" /\ rq.op = "catchUp" /\ r2.pc = "reread" /\ passes' = passes
  <2>1. CASE RefreshReturns(s)
    BY <1>1, <1>2, <2>1, RefreshReturnsTable DEF Consistent
  <2>2. CASE Refreshed(s)
    BY <1>1, <1>2, <2>2, RefreshedTable DEF Consistent
  <2>3. ASSUME NEW p \in Passes, Persist(s, p)
        PROVE  /\ deliveries' = deliveries /\ returns' = returns
               /\ PlanShape(rq) /\ PassesKnown(rq) /\ DocsKnown(rq)
               /\ r2.op = rq.op /\ r2.delivery = rq.delivery /\ r2.old = rq.old
               /\ r2.new = rq.new /\ r2.pass = rq.pass /\ r2.ret = rq.ret /\ r2.passes = rq.passes
               /\ rq.pc = "persist" /\ r2.pc = "persist" /\ r2.docs = rq.docs
               /\ r2.rets = rq.rets /\ p \in rq.todo /\ r2.todo = rq.todo \ {p}
               /\ passes' = [passes EXCEPT ![p] =
                               DerivedStatus(rq.docs, rq.rets, p, rq.passes[p])]
    BY <1>1, <1>2, <2>3, PersistTable DEF Consistent
  <2> QED BY <2>1, <2>2, <2>3
<1>4. /\ passes \in [Passes -> PassStatuses]
      /\ r2.pc = "persist" => \A p \in r2.todo : r2.passes[p] = passes'[p]
      /\ \A p \in Passes : Closed(p)' <=> Closed(p)
  <2>0. passes \in [Passes -> PassStatuses] /\ rq.todo \subseteq Passes
    BY <1>1 DEF TypeOK, Request
  <2>1. CASE rq.pc = "refreshReturns"
    BY <1>3, <2>0, <2>1 DEF PassesKnown, Closed
  <2>2. ASSUME NEW p \in Passes, p \in rq.todo, r2.todo = rq.todo \ {p}, rq.pc = "persist",
               passes' = [passes EXCEPT ![p] = DerivedStatus(rq.docs, rq.rets, p, rq.passes[p])]
        PROVE  /\ \A e \in r2.todo : r2.passes[e] = passes'[e]
               /\ \A e \in Passes : Closed(e)' <=> Closed(e)
    <3>1. PICK st : st = DerivedStatus(rq.docs, rq.rets, p, rq.passes[p])
      OBVIOUS
    <3>2. rq.passes[p] = passes[p] /\ \A e \in r2.todo : e # p /\ e \in Passes /\ rq.passes[e] = passes[e]
      BY <1>3, <2>0, <2>2 DEF PassesKnown
    <3>3. st \in {"DRAFT", "CANCELLED"} <=> passes[p] \in {"DRAFT", "CANCELLED"}
      BY <3>1, <3>2, DerivedKeepsClosed
    <3>4. passes' = [passes EXCEPT ![p] = st]
      BY <2>2, <3>1
    <3> QED BY <1>3, <2>0, <3>2, <3>3, <3>4 DEF Closed
  <2>3. CASE r2.pc = "reread"
    BY <1>3, <2>0, <2>3 DEF Closed
  <2> QED BY <1>3, <2>0, <2>1, <2>2, <2>3
<1>5. PlanShape(r2)'
  <2>1. rq.op # "status"
    BY <1>3 DEF PlanShape
  <2> QED BY <1>3, <2>1 DEF PlanShape, Checking, Planning
<1>6. PassesKnown(r2)'
  BY <1>3, <1>4 DEF PassesKnown, Checking
<1>7. DocsKnown(r2)' /\ Justified(r2)'
  BY <1>3 DEF DocsKnown, Planning, Checking, Justified
<1>8. ClosedUnused(Restored(r2))'
  <2>1. Restored(r2)' = deliveries
    BY <1>3 DEF Restored, Checking
  <2> QED BY <1>3, <1>4, <2>1 DEF ClosedUnused, Unused
<1>9. Consistent(r2)'
  BY <1>5, <1>6, <1>7, <1>8 DEF Consistent
<1> QED BY <1>2, <1>9

(* The writes of a request alone in the house.  A document that draws on no  *)
(* more passes than the one it replaces, or on passes in use, closes no gap. *)
LEMMA SourcesOf ==
  ASSUME NEW doc, NEW new, SameLinen(doc, new)
  PROVE  Sources(doc) = Sources(new) /\ doc.status = new.status
  BY DEF SameLinen, Sources

LEMMA ReplacedUnused ==
  ASSUME NEW docs \in [Deliveries -> Delivery], NEW d \in Deliveries, NEW doc \in Delivery,
         NEW p \in Passes, Unused(docs, p),
         Exists(doc) /\ doc.status # "CANCELLED" => p \notin Sources(doc)
  PROVE  Unused([docs EXCEPT ![d] = doc], p)
  BY DEF Unused

LEMMA InsertConsistent ==
  ASSUME TypeOK, TypeOK', NEW s \in Slots, Consistent(request[s]), ClosedUnused(deliveries),
         Insert(s)
  PROVE  ClosedUnused(deliveries)' /\ (request'[s].pc # "idle" => Consistent(request[s])')
<1> USE DEF SameAim, SameReads
<1>1. PICK rq \in Request : rq = request[s]
  BY DEF TypeOK
<1>2. PICK r2 : r2 = request'[s]
  OBVIOUS
<1>3. PICK doc \in Delivery : /\ deliveries' = [deliveries EXCEPT ![rq.delivery] = doc]
                              /\ SameLinen(doc, rq.new)
  BY <1>1, InsertTable
<1>4. /\ passes' = passes /\ returns' = returns
      /\ PlanShape(rq) /\ PassesKnown(rq) /\ Justified(rq)
      /\ rq.pc = "write" /\ rq.op \in {"create", "draft", "catchUp"}
      /\ r2.pc # "idle" =>
           /\ rq.op # "draft" /\ r2.pc = "checkMovements"
           /\ r2.op = rq.op /\ r2.delivery = rq.delivery /\ r2.old = rq.old /\ r2.new = rq.new
           /\ r2.pass = rq.pass /\ r2.ret = rq.ret /\ r2.passes = rq.passes
  BY <1>1, <1>2, InsertTable DEF Consistent
<1>5. rq.delivery \in Deliveries /\ deliveries \in [Deliveries -> Delivery]
  BY <1>4 DEF PlanShape, TypeOK
<1>6. \A p \in Passes : Closed(p) => p \notin Sources(rq.new)
  <2>1. Plannable(rq.new.lines, passes, deliveries, returns)
    BY <1>4 DEF Justified
  <2>2. Requested(rq.new.primary, rq.new.lines) /\ rq.new.primary \in Passes
    BY <1>1, <1>4 DEF PlanShape, Request, Delivery
  <2> QED BY <2>1, <2>2 DEF Plannable, Closed, Sources, Requested
<1>7. ClosedUnused(deliveries)'
  <2>1. ASSUME NEW p \in Passes, Closed(p) PROVE Unused(deliveries', p)
    BY <1>3, <1>5, <1>6, <2>1, SourcesOf, ReplacedUnused DEF ClosedUnused
  <2> QED BY <1>4, <2>1 DEF ClosedUnused, Closed
<1>8. ASSUME r2.pc # "idle" PROVE Consistent(r2)'
  <2>1. PlanShape(r2)'
    BY <1>4, <1>8 DEF PlanShape, Checking
  <2>2. PassesKnown(r2)' /\ DocsKnown(r2)' /\ Justified(r2)'
    BY <1>3, <1>4, <1>5, <1>8 DEF PassesKnown, DocsKnown, Justified, Planning, Checking
  <2>3. PICK gone \in Delivery : gone = [NoDelivery EXCEPT !.status = "GONE"]
    BY IdleTypes DEF Delivery
  <2>4. Restored(r2)' = [deliveries' EXCEPT ![rq.delivery] = gone]
    BY <1>4, <1>8, <2>3 DEF Restored, Checking
  <2>5. gone.status = "GONE"
    BY <2>3, IdleTypes DEF Delivery
  <2>6. ASSUME NEW p \in Passes, Closed(p)' PROVE Unused(Restored(r2)', p)
    <3>1. Unused(deliveries', p)
      BY <1>7, <2>6 DEF ClosedUnused
    <3>2. ~Exists(gone) /\ deliveries' \in [Deliveries -> Delivery]
      BY <2>5 DEF Exists, TypeOK
    <3>3. Unused([deliveries' EXCEPT ![rq.delivery] = gone], p)
      BY <1>5, <3>1, <3>2, ReplacedUnused
    <3> QED BY <2>4, <3>3
  <2>7. ClosedUnused(Restored(r2))'
    BY <2>6 DEF ClosedUnused
  <2> QED BY <2>1, <2>2, <2>7 DEF Consistent
<1> QED BY <1>2, <1>7, <1>8

(* An activation and a cancellation, on the document as it was read. *)
LEMMA ActivateConsistent ==
  ASSUME TypeOK, TypeOK', NEW s \in Slots, Consistent(request[s]), ClosedUnused(deliveries),
         Activate(s)
  PROVE  ClosedUnused(deliveries)' /\ request'[s].pc # "idle" /\ Consistent(request[s])'
<1> USE DEF SameAim, SameReads, SameBalance
<1>1. PICK rq \in Request : rq = request[s]
  BY DEF TypeOK
<1>2. PICK r2 : r2 = request'[s]
  OBVIOUS
<1>0. /\ PlanShape(rq) /\ PassesKnown(rq) /\ DocsKnown(rq)
      /\ rq.pc = "write" /\ rq.op = "activate"
  BY <1>1 DEF Consistent, Activate
<1>5. /\ rq.delivery \in Deliveries /\ deliveries \in [Deliveries -> Delivery]
      /\ deliveries[rq.delivery] = rq.old /\ rq.old.status = "DRAFT" /\ rq.docs = deliveries
  BY <1>0 DEF PlanShape, DocsKnown, Planning, TypeOK
<1>3. PICK doc \in Delivery : /\ deliveries' = [deliveries EXCEPT ![rq.delivery] = doc]
                              /\ SameLinen(doc, rq.new)
  BY <1>1, <1>5, ActivateTable DEF Exists
<1>4. /\ passes' = passes /\ returns' = returns /\ r2.pc = "activated"
      /\ r2.op = rq.op /\ r2.delivery = rq.delivery /\ r2.old = rq.old /\ r2.new = rq.new
      /\ r2.pass = rq.pass /\ r2.ret = rq.ret /\ r2.passes = rq.passes /\ r2.docs = rq.docs
  BY <1>1, <1>2, <1>5, ActivateTable DEF Exists
<1>6. Sources(rq.new) = Sources(rq.old)
  <2>1. rq.new = [rq.old EXCEPT !.status = "DELIVERED"] /\ rq.old \in Delivery
    BY <1>0, <1>1 DEF PlanShape, Request
  <2>2. rq.new.lines = rq.old.lines /\ rq.new.primary = rq.old.primary
    BY <2>1 DEF Delivery
  <2> QED BY <2>2 DEF Sources
<1>7. ClosedUnused(deliveries)'
  <2>1. ASSUME NEW p \in Passes, Closed(p) PROVE Unused(deliveries', p)
    <3>1. Unused(deliveries, p)
      BY <2>1 DEF ClosedUnused
    <3>2. p \notin Sources(doc)
      BY <1>3, <1>5, <1>6, <3>1, SourcesOf DEF Unused, Exists
    <3> QED BY <1>3, <1>5, <3>1, <3>2, ReplacedUnused
  <2> QED BY <1>4, <2>1 DEF ClosedUnused, Closed
<1>8. PlanShape(r2)'
  BY <1>0, <1>4 DEF PlanShape, Checking, Planning
<1>9. PassesKnown(r2)' /\ Justified(r2)'
  BY <1>0, <1>4 DEF PassesKnown, Justified
<1>10. DocsKnown(r2)'
  <2>1. deliveries'[rq.delivery] = doc
        /\ \A d \in Deliveries \ {rq.delivery} : deliveries'[d] = deliveries[d]
    BY <1>3, <1>5
  <2> QED BY <1>3, <1>4, <1>5, <2>1 DEF DocsKnown, Planning
<1>11. ClosedUnused(Restored(r2))'
  BY <1>4, <1>7 DEF Restored, Checking, ClosedUnused, Closed
<1>12. Consistent(r2)'
  BY <1>8, <1>9, <1>10, <1>11 DEF Consistent
<1> QED BY <1>2, <1>4, <1>7, <1>12

LEMMA CancelConsistent ==
  ASSUME TypeOK, TypeOK', NEW s \in Slots, Consistent(request[s]), ClosedUnused(deliveries),
         Cancel(s)
  PROVE  ClosedUnused(deliveries)' /\ request'[s].pc # "idle" /\ Consistent(request[s])'
<1> USE DEF SameAim, SameReads
<1>1. PICK rq \in Request : rq = request[s]
  BY DEF TypeOK
<1>2. PICK r2 : r2 = request'[s]
  OBVIOUS
<1>0. /\ PlanShape(rq) /\ DocsKnown(rq) /\ rq.pc = "write" /\ rq.op = "cancel"
  BY <1>1 DEF Consistent, Cancel
<1>5. /\ rq.delivery \in Deliveries /\ deliveries \in [Deliveries -> Delivery]
      /\ Exists(deliveries[rq.delivery])
  BY <1>0 DEF PlanShape, DocsKnown, Planning, TypeOK, Exists
<1>3. PICK doc \in Delivery : /\ deliveries' = [deliveries EXCEPT ![rq.delivery] = doc]
                              /\ doc.status = "CANCELLED"
  BY <1>1, <1>5, CancelTable
<1>4. /\ passes' = passes /\ returns' = returns /\ r2.pc = "refreshPasses"
      /\ r2.op = rq.op /\ r2.delivery = rq.delivery /\ r2.old = rq.old /\ r2.new = rq.new
      /\ r2.pass = rq.pass /\ r2.ret = rq.ret
  BY <1>1, <1>2, <1>5, CancelTable
<1>7. ClosedUnused(deliveries)'
  BY <1>3, <1>4, <1>5, ReplacedUnused DEF ClosedUnused, Closed
<1>8. PlanShape(r2)'
  BY <1>0, <1>4 DEF PlanShape, Checking, Planning
<1>9. PassesKnown(r2)' /\ Justified(r2)' /\ DocsKnown(r2)'
  BY <1>0, <1>4 DEF PassesKnown, Justified, DocsKnown, Planning, Checking
<1>11. ClosedUnused(Restored(r2))'
  BY <1>4, <1>7 DEF Restored, Checking, ClosedUnused, Closed
<1>12. Consistent(r2)'
  BY <1>8, <1>9, <1>11 DEF Consistent
<1> QED BY <1>2, <1>4, <1>7, <1>12

(* A correction only narrows what its document draws on, and what it may put *)
(* back is what was there.                                                   *)
LEMMA CorrectConsistent ==
  ASSUME TypeOK, TypeOK', NEW s \in Slots, Consistent(request[s]), ClosedUnused(deliveries),
         Correct(s)
  PROVE  ClosedUnused(deliveries)' /\ (request'[s].pc # "idle" => Consistent(request[s])')
<1> USE DEF SameAim, SameReads
<1>1. PICK rq \in Request : rq = request[s]
  BY DEF TypeOK
<1>2. PICK r2 : r2 = request'[s]
  OBVIOUS
<1>0. /\ PlanShape(rq) /\ DocsKnown(rq) /\ PassesKnown(rq)
      /\ rq.pc = "write" /\ rq.op = "correct" /\ passes' = passes /\ returns' = returns
  BY <1>1, CorrectTable DEF Consistent
<1>5. /\ rq.delivery \in Deliveries /\ deliveries \in [Deliveries -> Delivery]
      /\ deliveries[rq.delivery] = rq.old /\ rq.old.status \in {"DRAFT", "DELIVERED"}
      /\ rq.new.status = rq.old.status /\ rq.old \in Delivery /\ rq.new \in Delivery
  BY <1>0, <1>1 DEF PlanShape, DocsKnown, Planning, TypeOK, Request
<1>6. Sources(rq.new) \subseteq Sources(rq.old)
  BY <1>0 DEF PlanShape, Sources
<1>3. CASE deliveries' = deliveries /\ r2.pc = "idle"
  BY <1>0, <1>2, <1>3 DEF ClosedUnused, Closed
<1>4. ASSUME NEW doc \in Delivery, deliveries' = [deliveries EXCEPT ![rq.delivery] = doc],
             SameLinen(doc, rq.new), r2.pc = "checkMovements", SameAim(s), SameReads(s)
      PROVE  ClosedUnused(deliveries)' /\ Consistent(r2)'
  <2>1. /\ r2.op = rq.op /\ r2.delivery = rq.delivery /\ r2.old = rq.old /\ r2.new = rq.new
        /\ r2.pass = rq.pass /\ r2.ret = rq.ret /\ r2.passes = rq.passes
    BY <1>1, <1>2, <1>4
  <2>2. ASSUME NEW p \in Passes, Closed(p) PROVE Unused(deliveries', p)
    <3>1. Unused(deliveries, p)
      BY <2>2 DEF ClosedUnused
    <3>2. p \notin Sources(doc)
      BY <1>4, <1>5, <1>6, <3>1, SourcesOf DEF Unused, Exists
    <3> QED BY <1>4, <1>5, <3>1, <3>2, ReplacedUnused
  <2>3. ClosedUnused(deliveries)'
    BY <1>0, <2>2 DEF ClosedUnused, Closed
  <2>4. PlanShape(r2)'
    BY <1>0, <1>4, <2>1 DEF PlanShape, Checking, Planning
  <2>5. PassesKnown(r2)' /\ Justified(r2)' /\ DocsKnown(r2)'
    BY <1>0, <1>4, <1>5, <2>1 DEF PassesKnown, Justified, DocsKnown, Planning, Checking
  <2>6. Restored(r2)' = deliveries
    <3>1. Restored(r2)' = [deliveries' EXCEPT ![rq.delivery] = rq.old]
      BY <1>0, <1>4, <2>1 DEF Restored, Checking
    <3> QED BY <1>4, <1>5, <3>1
  <2>7. ClosedUnused(Restored(r2))'
    BY <1>0, <2>6 DEF ClosedUnused, Closed
  <2> QED BY <2>3, <2>4, <2>5, <2>7 DEF Consistent
<1> QED BY <1>1, <1>2, <1>3, <1>4, CorrectTable

(* What is taken back, and what a request leaves behind at its end. *)
LEMMA EndsConsistent ==
  ASSUME TypeOK, TypeOK', NEW s \in Slots, Consistent(request[s]), ClosedUnused(deliveries),
         SetStatus(s) \/ Undo(s) \/ ActivationStatus(s) \/ PutPassBack(s)
  PROVE  ClosedUnused(deliveries)' /\ request'[s].pc = "idle"
<1>1. PICK rq \in Request : rq = request[s]
  BY DEF TypeOK
<1>0. PlanShape(rq) /\ DocsKnown(rq) /\ PassesKnown(rq)
  BY <1>1 DEF Consistent
<1>t. passes \in [Passes -> PassStatuses] /\ rq.pass \in Passes /\ rq.new.primary \in Passes
  BY <1>1 DEF TypeOK, Request, Delivery
<1>2. CASE SetStatus(s)
  <2>1. /\ rq.pc = "write" /\ rq.op = "status" /\ request'[s].pc = "idle"
        /\ passes' = [passes EXCEPT ![rq.pass] = rq.status] /\ deliveries' = deliveries
    BY <1>1, <1>2, StatusTable
  <2>2. \/ rq.status = "CANCELLED" /\ Unused(deliveries, rq.pass)
        \/ rq.status = "RECEIVED"
    BY <1>0, <2>1 DEF PlanShape
  <2> QED BY <1>t, <2>1, <2>2 DEF ClosedUnused, Closed
<1>3. CASE Undo(s)
  <2>1. request[s].pc = "undo" /\ passes' = passes /\ request'[s].pc = "idle"
    BY <1>3, FinishFacts DEF Undo, WriteFrame
  <2>2. rq.op \in {"create", "catchUp", "correct"} /\ rq.delivery \in Deliveries
    BY <1>0, <1>1, <2>1 DEF PlanShape, Checking
  <2>3. CASE Exists(deliveries[rq.delivery])
    <3>1. deliveries' = Restored(rq)
      BY <1>1, <1>3, <2>2, <2>3, UndoTable
    <3> QED BY <1>1, <2>1, <3>1 DEF Consistent, ClosedUnused, Closed
  <2>4. CASE ~Exists(deliveries[rq.delivery])
    <3>1. PICK doc : /\ deliveries' = [deliveries EXCEPT ![rq.delivery] = doc]
                     /\ doc = deliveries[rq.delivery] \/ doc = [NoDelivery EXCEPT !.status = "GONE"]
      BY <1>1, <1>3, <2>4 DEF Undo
    <3>2. ~Exists(doc) /\ doc \in Delivery /\ deliveries \in [Deliveries -> Delivery]
      BY <2>2, <2>4, <3>1, IdleTypes DEF Exists, TypeOK, Delivery
    <3>3. \A p \in Passes : Closed(p) => Unused(deliveries', p)
      BY <2>2, <3>1, <3>2, ReplacedUnused DEF ClosedUnused
    <3> QED BY <2>1, <3>3 DEF ClosedUnused, Closed
  <2> QED BY <2>3, <2>4
<1>4. CASE ActivationStatus(s)
  <2>1. PICK st : /\ st \in {"DRAFT", "CANCELLED"} <=> rq.passes[rq.new.primary] \in {"DRAFT", "CANCELLED"}
                  /\ passes' = [passes EXCEPT ![rq.new.primary] = st]
    BY <1>1, <1>4, ActivationStatusTable, DerivedKeepsClosed
  <2>2. rq.pc = "activatedStatus" /\ deliveries' = deliveries /\ request'[s].pc = "idle"
    BY <1>1, <1>4, ActivationStatusTable
  <2>3. rq.passes = passes
    BY <1>0, <2>2 DEF PassesKnown
  <2> QED BY <1>t, <2>1, <2>2, <2>3 DEF ClosedUnused, Closed
<1>5. CASE PutPassBack(s)
  <2>1. /\ rq.pc = "putBack" /\ request'[s].pc = "idle" /\ deliveries' = deliveries
        /\ passes' = [passes EXCEPT ![rq.pass] = rq.status]
    BY <1>1, <1>5, PutBackTable
  <2>2. rq.status = passes[rq.pass]
    BY <1>0, <2>1 DEF PassesKnown
  <2> QED BY <1>t, <2>1, <2>2 DEF ClosedUnused, Closed
<1> QED BY <1>2, <1>3, <1>4, <1>5

LEMMA ReturnConsistent ==
  ASSUME TypeOK, TypeOK', NEW s \in Slots, Consistent(request[s]), ClosedUnused(deliveries),
         RegisterReturn(s) \/ MarkResent(s)
  PROVE  ClosedUnused(deliveries)' /\ request'[s].pc # "idle" /\ Consistent(request[s])'
<1> USE DEF SameAim, SameReads
<1>1. PICK rq : rq = request[s]
  OBVIOUS
<1>2. PICK r2 : r2 = request'[s]
  OBVIOUS
<1>3. /\ passes' = passes /\ deliveries' = deliveries /\ PlanShape(rq)
      /\ rq.op \in {"return", "resend"} /\ r2.pc = "refreshPasses"
      /\ r2.op = rq.op /\ r2.delivery = rq.delivery /\ r2.old = rq.old /\ r2.new = rq.new
      /\ r2.pass = rq.pass /\ r2.ret = rq.ret
  BY <1>1, <1>2, ReturnWritesTable DEF Consistent
<1>4. PlanShape(r2)'
  <2>1. rq \in Request /\ returns \in [Returns -> Return]
    BY <1>1 DEF TypeOK
  <2>2. rq.op = "resend" => returns' = [returns EXCEPT ![rq.ret].state = "SENT"]
    BY <1>1, ReturnWritesTable
  <2>3. rq.ret \in Returns /\ (rq.op = "resend" => returns[rq.ret].pass = rq.pass)
    BY <1>3 DEF PlanShape
  <2>4. rq.op = "resend" => returns'[rq.ret].pass = rq.pass
    BY <2>1, <2>2, <2>3 DEF Return
  <2> QED BY <1>3, <2>3, <2>4 DEF PlanShape, Checking, Planning
<1>5. PassesKnown(r2)' /\ Justified(r2)' /\ DocsKnown(r2)'
  BY <1>3 DEF PassesKnown, Justified, DocsKnown, Planning, Checking
<1>6. ClosedUnused(deliveries)' /\ ClosedUnused(Restored(r2))'
  BY <1>3 DEF ClosedUnused, Closed, Restored, Checking
<1>7. Consistent(r2)'
  BY <1>4, <1>5, <1>6 DEF Consistent
<1> QED BY <1>2, <1>3, <1>6, <1>7

LEMMA StepActive == ASSUME NEW s \in Slots, Step(s) PROVE Active(s)
  BY DEF Active, Step, LoadPasses, RefreshPasses, LoadMovements, CheckMovements,
         RefreshMovements, LoadReturns, CheckReturns, Refreshed, Insert, Activate, Correct, Cancel,
         RegisterReturn, MarkResent, SetStatus, Undo, ActivationStatus, PutPassBack, RefreshReturns,
         ActivationReturns, RereadPass, Persist

LEMMA StepConsistent ==
  ASSUME TypeOK, TypeOK', NEW s \in Slots, Consistent(request[s]), ClosedUnused(deliveries),
         Step(s)
  PROVE  ClosedUnused(deliveries)' /\ (request'[s].pc # "idle" => Consistent(request[s])')
<1>1. CASE \/ LoadPasses(s) \/ RefreshPasses(s) \/ CheckMovements(s) \/ RefreshMovements(s)
           \/ CheckReturns(s) \/ ActivationReturns(s) \/ RereadPass(s)
  <2>1. passes' = passes /\ deliveries' = deliveries
    BY <1>1 DEF LoadPasses, RefreshPasses, CheckMovements, RefreshMovements, CheckReturns,
       ActivationReturns, RereadPass, DataFrame
  <2> QED BY <1>1, <2>1, ReadsConsistent DEF ClosedUnused, Closed
<1>2. CASE LoadMovements(s) \/ LoadReturns(s)
  <2>1. passes' = passes /\ deliveries' = deliveries
    BY <1>2 DEF LoadMovements, LoadReturns, DataFrame
  <2> QED BY <1>2, <2>1, PlansConsistent DEF ClosedUnused, Closed
<1>3. CASE RefreshReturns(s) \/ Refreshed(s) \/ \E p \in Passes : Persist(s, p)
  <2>1. request'[s].pc # "idle" => Consistent(request[s])'
    BY <1>3, RefreshConsistent
  <2>2. deliveries' = deliveries /\ \A p \in Passes : Closed(p)' <=> Closed(p)
    <3>1. CASE RefreshReturns(s) \/ Refreshed(s)
      BY <3>1 DEF RefreshReturns, Refreshed, DataFrame, Closed
    <3>2. ASSUME NEW p \in Passes, Persist(s, p)
          PROVE  deliveries' = deliveries /\ \A e \in Passes : Closed(e)' <=> Closed(e)
      <4>1. /\ p \in request[s].todo /\ request[s].pc = "persist" /\ deliveries' = deliveries
            /\ passes' = [passes EXCEPT ![p] =
                 DerivedStatus(request[s].docs, request[s].rets, p, request[s].passes[p])]
        BY <3>2, PersistTable
      <4>2. PICK st : st = DerivedStatus(request[s].docs, request[s].rets, p, request[s].passes[p])
        OBVIOUS
      <4>3. request[s].passes[p] = passes[p]
        BY <4>1 DEF Consistent, PassesKnown
      <4>4. st \in {"DRAFT", "CANCELLED"} <=> passes[p] \in {"DRAFT", "CANCELLED"}
        BY <4>2, <4>3, DerivedKeepsClosed
      <4>5. passes' = [passes EXCEPT ![p] = st] /\ passes \in [Passes -> PassStatuses]
        BY <4>1, <4>2 DEF TypeOK
      <4> QED BY <4>1, <4>4, <4>5 DEF Closed
    <3> QED BY <1>3, <3>1, <3>2
  <2> QED BY <2>1, <2>2 DEF ClosedUnused
<1>4. CASE \/ Insert(s) \/ Activate(s) \/ Correct(s) \/ Cancel(s) \/ RegisterReturn(s)
           \/ MarkResent(s)
  BY <1>4, InsertConsistent, ActivateConsistent, CorrectConsistent, CancelConsistent,
     ReturnConsistent
<1>5. CASE SetStatus(s) \/ Undo(s) \/ ActivationStatus(s) \/ PutPassBack(s)
  BY <1>5, EndsConsistent
<1> QED BY <1>1, <1>2, <1>3, <1>4, <1>5 DEF Step

(* A request that starts alone finds the books in order. *)
LEMMA StartAlone ==
  ASSUME TypeOK, NEW s \in Slots, NewRequest(s), SequentialInv, ~disturbed'
  PROVE  /\ ~disturbed /\ (\A t \in Slots : ~Active(t)) /\ ClosedUnused(deliveries)
         /\ \A t \in Slots \ {s} : ~Active(t)'
         /\ UNCHANGED <<passes, deliveries, returns>>
         /\ request'[s].pc \in {"passes", "movements", "write"}
         /\ Consistent(request[s])'
<1>1. PICK req \in Request : Begin(s, req) /\ req.pc \in {"passes", "movements", "write"}
  <2>1. CASE ~disturbed
    BY <2>1, StartConsistent DEF SequentialInv
  <2>2. CASE disturbed
    BY <2>2, NewRequestType DEF Begin
  <2> QED BY <2>1, <2>2
<1>2. ~disturbed /\ \A t \in Slots : ~Active(t)
  BY <1>1 DEF Begin, Active
<1>3. ClosedUnused(deliveries)
  BY <1>2 DEF SequentialInv
<1>4. PICK rq \in Request : /\ Begin(s, rq) /\ Consistent(rq)
                            /\ rq.pc \in {"passes", "movements", "write"}
  BY <1>3, StartConsistent
<1>5. /\ request' = [request EXCEPT ![s] = rq] /\ request'[s] = rq
      /\ passes' = passes /\ deliveries' = deliveries /\ returns' = returns
  BY <1>4 DEF Begin, DataFrame, TypeOK
<1>6. \A t \in Slots \ {s} : ~Active(t)'
  BY <1>2, <1>5 DEF Active, TypeOK
<1>7. Consistent(rq)'
  <2>1. PlanShape(rq)' /\ PassesKnown(rq)' /\ DocsKnown(rq)' /\ Justified(rq)'
    BY <1>4, <1>5 DEF Consistent, PlanShape, PassesKnown, DocsKnown, Justified, Closed
  <2>2. ClosedUnused(Restored(rq))'
    BY <1>4, <1>5 DEF Consistent, ClosedUnused, Closed, Restored
  <2> QED BY <2>1, <2>2 DEF Consistent
<1> QED BY <1>2, <1>3, <1>4, <1>5, <1>6, <1>7

(* A step of the one request under way leaves the others idle. *)
LEMMA StepAlone ==
  ASSUME TypeOK, NEW s \in Slots, Step(s), SequentialInv, ~disturbed'
  PROVE  /\ ~disturbed /\ Active(s) /\ Consistent(request[s]) /\ ClosedUnused(deliveries)
         /\ \A t \in Slots \ {s} : ~Active(t) /\ ~Active(t)'
<1>1. ~disturbed /\ Active(s)
  BY StepActive, StepData
<1>2. \A t \in Slots \ {s} : ~Active(t) /\ request'[t] = request[t]
  BY <1>1, StepRequest DEF SequentialInv, OneAtATime
<1> QED BY <1>1, <1>2 DEF SequentialInv, Active

LEMMA SequentialInit == Init => SequentialInv
  BY DEF Init, SequentialInv, OneAtATime, Active, IdleRequest, ClosedUnused, Unused, Exists,
         NoDelivery

LEMMA SequentialStep == TypeOK /\ SequentialInv /\ [Next]_vars => SequentialInv'
<1> SUFFICES ASSUME TypeOK, SequentialInv, [Next]_vars, ~disturbed'
             PROVE  /\ OneAtATime' /\ ClosedUnused(deliveries)'
                    /\ \A s \in Slots : Active(s)' => Consistent(request[s])'
  BY DEF SequentialInv
<1>t. TypeOK'
  BY TypeInvariant
<1>1. CASE UNCHANGED vars
  <2>1. /\ passes' = passes /\ deliveries' = deliveries /\ returns' = returns
        /\ request' = request /\ ~disturbed
    BY <1>1 DEF vars
  <2>2. OneAtATime' /\ ClosedUnused(deliveries)'
    BY <2>1 DEF SequentialInv, OneAtATime, Active, ClosedUnused, Closed
  <2>3. ASSUME NEW s \in Slots, Active(s)' PROVE Consistent(request[s])'
    <3>1. PICK rq : rq = request[s]
      OBVIOUS
    <3>2. Consistent(rq)
      BY <2>1, <2>3, <3>1 DEF SequentialInv, Active
    <3>3. PlanShape(rq)' /\ PassesKnown(rq)' /\ DocsKnown(rq)' /\ Justified(rq)'
      BY <2>1, <3>2 DEF Consistent, PlanShape, PassesKnown, DocsKnown, Justified, Closed
    <3>4. ClosedUnused(Restored(rq))'
      BY <2>1, <3>2 DEF Consistent, ClosedUnused, Closed, Restored
    <3>5. Consistent(rq)'
      BY <3>3, <3>4 DEF Consistent
    <3> QED BY <2>1, <3>1, <3>5
  <2> QED BY <2>2, <2>3
<1>2. ASSUME NEW s \in Slots, NewRequest(s)
      PROVE  /\ OneAtATime' /\ ClosedUnused(deliveries)'
             /\ \A t \in Slots : Active(t)' => Consistent(request[t])'
  <2>1. /\ ClosedUnused(deliveries) /\ Consistent(request[s])'
        /\ \A t \in Slots \ {s} : ~Active(t)'
        /\ UNCHANGED <<passes, deliveries, returns>>
    BY <1>2, StartAlone
  <2>2. ClosedUnused(deliveries)'
    BY <2>1 DEF ClosedUnused, Closed
  <2>3. OneAtATime'
    BY <2>1 DEF OneAtATime
  <2> QED BY <2>1, <2>2, <2>3
<1>3. ASSUME NEW s \in Slots, Step(s)
      PROVE  /\ OneAtATime' /\ ClosedUnused(deliveries)'
             /\ \A t \in Slots : Active(t)' => Consistent(request[t])'
  <2>1. /\ Consistent(request[s]) /\ ClosedUnused(deliveries)
        /\ \A t \in Slots \ {s} : ~Active(t)'
    BY <1>3, StepAlone
  <2>2. ClosedUnused(deliveries)' /\ (request'[s].pc # "idle" => Consistent(request[s])')
    BY <1>3, <1>t, <2>1, StepConsistent
  <2>3. OneAtATime'
    BY <2>1 DEF OneAtATime
  <2> QED BY <2>1, <2>2, <2>3 DEF Active
<1>4. ASSUME NEW s \in Slots, Crash(s) PROVE FALSE
  BY <1>4 DEF Crash
<1> QED BY <1>1, <1>2, <1>3, <1>4 DEF Next

(* A pass is cancelled "only if no deliveries were recorded", drafts that    *)
(* may yet be activated included (gate_pass.py's status transition).  So     *)
(* long as the requests do not overlap, and none of them is cut short,       *)
(* nothing is ever delivered from it.                                        *)
THEOREM CancelledPassesStayUnused == Spec => []CancelledPassUnused
<1>1. Spec => []SequentialInv
  BY TypeCorrect, SequentialInit, SequentialStep, PTL DEF Spec
<1>2. TypeOK /\ SequentialInv => CancelledPassUnused
  <2> SUFFICES ASSUME TypeOK, SequentialInv, Undisturbed, NEW p \in Passes, passes[p] = "CANCELLED"
               PROVE  Pieces(deliveries, p) = {}
    BY DEF CancelledPassUnused
  <2>1. Unused(deliveries, p)
    BY DEF SequentialInv, Undisturbed, ClosedUnused, Closed
  <2>2. ASSUME NEW x \in Pieces(deliveries, p) PROVE FALSE
    <3>1. /\ x[1] \in Deliveries /\ x[2] \in 1..MaxQty /\ deliveries[x[1]].status = "DELIVERED"
          /\ x[2] <= deliveries[x[1]].lines[p]
      BY <2>2 DEF Pieces, Counts
    <3>2. p \notin Sources(deliveries[x[1]])
      BY <2>1, <3>1 DEF Unused, Exists
    <3>3. deliveries[x[1]].lines[p] \in Nat
      BY <3>1, BoundsAssumption DEF TypeOK, Delivery, Lines
    <3> QED BY <3>1, <3>2, <3>3 DEF Sources
  <2> QED BY <2>2
<1> QED BY <1>1, <1>2, TypeCorrect, PTL

-----------------------------------------------------------------------------
(* Counting.  A document adds its line, when it counts, to what the others   *)
(* took.                                                                     *)
Take(doc, p) == IF Counts(doc) THEN doc.lines[p] ELSE 0

Besides(docs, d, p) == {x \in Pieces(docs, p) : x[1] # d}

LEMMA DeliveredSplit ==
  ASSUME NEW docs \in [Deliveries -> Delivery], NEW d \in Deliveries, NEW p \in Passes
  PROVE  /\ Take(docs[d], p) \in Nat /\ Cardinality(Besides(docs, d, p)) \in Nat
         /\ Delivered(docs, p) = Cardinality(Besides(docs, d, p)) + Take(docs[d], p)
<1>1. PICK n : n = Take(docs[d], p)
  OBVIOUS
<1>2. docs[d].lines[p] \in 0..MaxQty
  BY DEF Delivery, Lines
<1>3. n \in 0..MaxQty
  BY <1>1, <1>2, BoundsAssumption DEF Take
<1>4. /\ IsFiniteSet({d} \X (1..n)) /\ Cardinality({d} \X (1..n)) = n
  <2>1. IsFiniteSet(1..n) /\ Cardinality(1..n) = n
    BY <1>3, BoundsAssumption, FS_Interval
  <2>2. IsFiniteSet({d}) /\ Cardinality({d}) = 1
    BY FS_Singleton
  <2>3. \A S, T : IsFiniteSet(S) /\ IsFiniteSet(T) =>
          IsFiniteSet(S \X T) /\ Cardinality(S \X T) = Cardinality(S) * Cardinality(T)
    BY FS_Product
  <2>4. IsFiniteSet({d} \X (1..n)) /\ Cardinality({d} \X (1..n)) = Cardinality({d}) * Cardinality(1..n)
    BY <2>1, <2>2, <2>3, Zenon
  <2> QED BY <1>3, <2>1, <2>2, <2>4, BoundsAssumption
<1>5. Pieces(docs, p) = Besides(docs, d, p) \cup ({d} \X (1..n))
  <2>1. ASSUME NEW x \in Pieces(docs, p), x[1] = d PROVE x \in {d} \X (1..n)
    <3>1. /\ x \in Deliveries \X (1..MaxQty) /\ Counts(docs[d]) /\ x[2] <= docs[d].lines[p]
      BY <2>1 DEF Pieces
    <3>2. x = <<x[1], x[2]>> /\ x[2] \in 1..MaxQty
      BY <3>1
    <3>3. x[2] \in 1..n
      BY <1>1, <1>2, <3>1, <3>2, BoundsAssumption DEF Take
    <3> QED BY <2>1, <3>2, <3>3
  <2>2. ASSUME NEW x \in {d} \X (1..n) PROVE x \in Pieces(docs, p)
    <3>1. x = <<x[1], x[2]>> /\ x[1] = d /\ x[2] \in 1..n
      OBVIOUS
    <3>2. Counts(docs[d]) /\ n = docs[d].lines[p]
      BY <1>1, <3>1 DEF Take
    <3>3. x \in Deliveries \X (1..MaxQty)
      BY <1>3, <3>1, BoundsAssumption
    <3> QED BY <1>3, <3>1, <3>2, <3>3 DEF Pieces
  <2>3. Besides(docs, d, p) \subseteq Pieces(docs, p)
    BY DEF Besides
  <2>4. ASSUME NEW x \in Pieces(docs, p) PROVE x \in Besides(docs, d, p) \cup ({d} \X (1..n))
    BY <2>1 DEF Besides
  <2> QED BY <2>2, <2>3, <2>4
<1>6. Besides(docs, d, p) \cap ({d} \X (1..n)) = {}
  BY DEF Besides
<1>7. IsFiniteSet(Besides(docs, d, p))
  BY PiecesFinite, FS_Subset DEF Besides
<1>8. Cardinality(Pieces(docs, p)) = Cardinality(Besides(docs, d, p)) + Cardinality({d} \X (1..n))
  <2>1. Cardinality(Besides(docs, d, p) \cup ({d} \X (1..n)))
          = Cardinality(Besides(docs, d, p)) + Cardinality({d} \X (1..n)) - Cardinality({})
    BY <1>4, <1>6, <1>7, FS_Union
  <2>2. Cardinality(Besides(docs, d, p)) \in Nat
    BY <1>7, FS_CardinalityType
  <2> QED BY <1>3, <1>4, <1>5, <2>1, <2>2, FS_EmptySet
<1> QED BY <1>1, <1>3, <1>4, <1>7, <1>8, FS_CardinalityType DEF Delivered

LEMMA DeliveredReplaced ==
  ASSUME NEW docs \in [Deliveries -> Delivery], NEW d \in Deliveries, NEW p \in Passes,
         NEW doc \in Delivery
  PROVE  /\ Delivered(docs, p) \in Nat /\ Delivered([docs EXCEPT ![d] = doc], p) \in Nat
         /\ Take(docs[d], p) \in Nat /\ Take(doc, p) \in Nat
         /\ Take(docs[d], p) <= Delivered(docs, p)
         /\ Delivered([docs EXCEPT ![d] = doc], p) =
              Delivered(docs, p) - Take(docs[d], p) + Take(doc, p)
<1>1. PICK d2 \in [Deliveries -> Delivery] : d2 = [docs EXCEPT ![d] = doc]
  OBVIOUS
<1>2. Besides(d2, d, p) = Besides(docs, d, p)
  BY <1>1 DEF Besides, Pieces
<1>3. /\ Take(docs[d], p) \in Nat /\ Cardinality(Besides(docs, d, p)) \in Nat
      /\ Delivered(docs, p) = Cardinality(Besides(docs, d, p)) + Take(docs[d], p)
  BY DeliveredSplit
<1>4. /\ Take(d2[d], p) \in Nat
      /\ Delivered(d2, p) = Cardinality(Besides(d2, d, p)) + Take(d2[d], p)
  BY DeliveredSplit
<1>5. d2[d] = doc
  BY <1>1
<1> QED BY <1>1, <1>2, <1>3, <1>4, <1>5

(* The clamped balance. *)
LEMMA AvailableFacts ==
  ASSUME NEW docs, NEW rets, NEW p \in Passes
  PROVE  /\ Delivered(docs, p) \in Nat /\ PendingBack(rets, p) \in Nat /\ Received[p] \in Nat
         /\ Available(docs, rets, p) \in Nat
         /\ Available(docs, rets, p) > 0 =>
              Available(docs, rets, p) <= Received[p] - Delivered(docs, p) + PendingBack(rets, p)
         /\ Received[p] > 0 => (Available(docs, rets, p) = 0 <=>
              Received[p] - Delivered(docs, p) + PendingBack(rets, p) <= 0)
<1>1. /\ Delivered(docs, p) \in Nat /\ PendingBack(rets, p) \in Nat /\ Received[p] \in Nat
  BY PiecesFinite, PendingFinite, ReceivedAssumption DEF Delivered
<1> QED BY <1>1 DEF Available, AtLeastZero

-----------------------------------------------------------------------------
(* The balance of a ledger that one request at a time works on. *)
Outcome(s) ==
  AllBalanced' /\ IF request'[s].pc = "idle" THEN Settled' ELSE InBalance(request[s])'

LEMMA QuietBalance ==
  ASSUME NEW s \in Slots, UNCHANGED <<passes, deliveries, returns>>, AllBalanced,
         NEW r2, r2 = request'[s], r2.pc \notin Checking,
         \A p \in Passes : p \notin Pending(r2) => ShowsEmpty(deliveries, p)
  PROVE  Outcome(s)
<1>1. AllBalanced'
  BY DEF AllBalanced, Balanced
<1>2. CASE r2.pc = "idle"
  <2>1. Pending(r2) = {}
    BY <1>2 DEF Pending
  <2>2. Settled'
    BY <2>1 DEF Settled, ShowsEmpty, Closed
  <2> QED BY <1>1, <1>2, <2>2 DEF Outcome
<1>3. CASE r2.pc # "idle"
  <2>1. Restored(r2)' = deliveries
    BY DEF Restored
  <2>2. InBalance(r2)'
    BY <2>1 DEF InBalance, AllBalanced, Balanced, ShowsEmpty, Closed, Pending, Affected
  <2> QED BY <1>1, <1>3, <2>2 DEF Outcome
<1> QED BY <1>2, <1>3

LEMMA ReadsBalance ==
  ASSUME TypeOK, NEW s \in Slots, AllBalanced, InBalance(request[s]),
         \/ LoadPasses(s) \/ LoadMovements(s) \/ LoadReturns(s) \/ RefreshPasses(s)
         \/ RefreshMovements(s) \/ ActivationReturns(s) \/ RereadPass(s) \/ Refreshed(s)
  PROVE  Outcome(s)
<1> USE DEF SameAim
<1>1. PICK rq : rq = request[s]
  OBVIOUS
<1>2. PICK r2 : r2 = request'[s]
  OBVIOUS
<1>3. /\ UNCHANGED <<passes, deliveries, returns>>
      /\ rq.pc \notin Checking /\ r2.pc \notin Checking
      /\ \/ rq.pc \in {"passes", "movements", "returns", "reread"}
         \/ rq.pc = "persist" /\ rq.todo = {}
         \/ /\ rq.pc \in {"refreshPasses", "refreshMovements", "activated"}
            /\ r2.pc \in {"refreshMovements", "refreshReturns", "activatedStatus"}
            /\ r2.op = rq.op /\ r2.pass = rq.pass /\ r2.old = rq.old /\ r2.new = rq.new
  <2>1. CASE LoadPasses(s) \/ RefreshPasses(s)
    BY <1>1, <1>2, <2>1, PassesTable DEF DataFrame, Checking
  <2>2. CASE LoadMovements(s) \/ LoadReturns(s)
    BY <1>1, <1>2, <2>2, MovementsTable, ReturnsTable DEF DataFrame, Checking
  <2>3. CASE RefreshMovements(s)
    <3>1. rq.pc = "refreshMovements"
      BY <1>1, <2>3 DEF RefreshMovements
    <3>2. /\ r2.pc = "refreshReturns" /\ SameAim(s) /\ DataFrame
      BY <1>1, <1>2, <2>3, <3>1, DocsTable
    <3> QED BY <1>1, <1>2, <3>1, <3>2 DEF DataFrame, Checking
  <2>4. CASE ActivationReturns(s) \/ RereadPass(s)
    BY <1>1, <1>2, <2>4, ActivationTable, RereadTable DEF DataFrame, Checking
  <2>5. CASE Refreshed(s)
    BY <1>1, <1>2, <2>5, RefreshedTable DEF DataFrame, Checking
  <2> QED BY <2>1, <2>2, <2>3, <2>4, <2>5
<1>4. Pending(rq) \subseteq Pending(r2)
  BY <1>3 DEF Pending, Affected
<1>5. Restored(rq) = deliveries
  BY <1>3 DEF Restored
<1>6. \A p \in Passes : p \notin Pending(r2) => ShowsEmpty(deliveries, p)
  BY <1>1, <1>4, <1>5 DEF InBalance
<1> QED BY <1>2, <1>3, <1>6, QuietBalance

(* Documents that took as much. *)
LEMMA SameTaken ==
  ASSUME NEW docs, NEW docs2, NEW p \in Passes, Delivered(docs2, p) = Delivered(docs, p)
  PROVE  /\ Balanced(docs2, p) <=> Balanced(docs, p)
         /\ ShowsEmpty(docs2, p) <=> ShowsEmpty(docs, p)
  BY DEF Balanced, Oversold, ShowsEmpty, Available

(* What a pass that the request does not draw on is owed does not depend on  *)
(* whether the document stands or is taken back.                             *)
LEMMA OutsideRestored ==
  ASSUME TypeOK, NEW rq \in Request, PlanShape(rq), DocsKnown(rq), rq.pc \in Checking,
         NEW p \in Passes, p \notin Affected(rq)
  PROVE  Delivered(Restored(rq), p) = Delivered(deliveries, p)
<1>1. /\ rq.op \in {"create", "catchUp", "correct"} /\ rq.delivery \in Deliveries
      /\ deliveries \in [Deliveries -> Delivery] /\ rq.old \in Delivery /\ rq.new \in Delivery
      /\ SameLinen(deliveries[rq.delivery], rq.new)
  BY DEF PlanShape, DocsKnown, TypeOK, Request
<1>2. rq.new.lines[p] = 0 /\ rq.old.lines[p] = 0
  <2>1. p \notin Sources(rq.new) /\ p \notin Sources(rq.old)
    BY <1>1 DEF Affected
  <2>2. rq.new.lines[p] \in Nat /\ rq.old.lines[p] \in Nat
    BY <1>1, BoundsAssumption DEF Delivery, Lines
  <2> QED BY <2>1, <2>2 DEF Sources
<1>3. PICK doc \in Delivery : /\ doc = IF rq.op = "correct" THEN rq.old
                                       ELSE [NoDelivery EXCEPT !.status = "GONE"]
                              /\ Take(doc, p) = 0
  <2>1. [NoDelivery EXCEPT !.status = "GONE"] \in Delivery
    BY IdleTypes DEF Delivery
  <2>2. [NoDelivery EXCEPT !.status = "GONE"].status = "GONE"
    BY IdleTypes DEF Delivery
  <2> QED BY <1>1, <1>2, <2>1, <2>2 DEF Take, Counts
<1>4. Restored(rq) = [deliveries EXCEPT ![rq.delivery] = doc]
  BY <1>3 DEF Restored
<1>5. Take(deliveries[rq.delivery], p) = 0
  BY <1>1, <1>2 DEF Take, SameLinen
<1>6. /\ Delivered(deliveries, p) \in Nat
      /\ Delivered([deliveries EXCEPT ![rq.delivery] = doc], p) =
           Delivered(deliveries, p) - Take(deliveries[rq.delivery], p) + Take(doc, p)
  BY <1>1, <1>3, DeliveredReplaced
<1> QED BY <1>3, <1>4, <1>5, <1>6

LEMMA ChecksBalance ==
  ASSUME TypeOK, NEW s \in Slots, AllBalanced, InBalance(request[s]), Consistent(request[s]),
         CheckMovements(s) \/ CheckReturns(s)
  PROVE  Outcome(s)
<1> USE DEF SameAim
<1>1. PICK rq \in Request : rq = request[s]
  BY DEF TypeOK
<1>2. PICK r2 : r2 = request'[s]
  OBVIOUS
<1>3. /\ passes' = passes /\ deliveries' = deliveries /\ returns' = returns /\ rq.pc \in Checking
      /\ PlanShape(rq) /\ DocsKnown(rq) /\ rq.pc \in {"checkMovements", "checkReturns"}
      /\ r2.op = rq.op /\ r2.delivery = rq.delivery /\ r2.old = rq.old /\ r2.new = rq.new
      /\ r2.pass = rq.pass
      /\ r2.pc \in {"checkReturns", "refreshPasses", "undo"}
  BY <1>1, <1>2, DocsTable, CheckTable DEF Consistent, Checking, DataFrame, CheckMovements
<1>4. Pending(rq) = {}
  BY <1>3 DEF Pending
<1>5. CASE r2.pc \in {"checkReturns", "undo"}
  <2>1. Restored(r2)' = Restored(rq)
    BY <1>3, <1>5 DEF Restored, Checking
  <2>2. InBalance(r2)'
    BY <1>1, <1>3, <1>4, <2>1 DEF InBalance, Balanced, ShowsEmpty, Closed
  <2>3. AllBalanced'
    BY <1>3 DEF AllBalanced, Balanced
  <2> QED BY <1>2, <1>5, <2>2, <2>3 DEF Outcome
<1>6. CASE r2.pc = "refreshPasses"
  <2>1. Pending(r2) = Affected(rq)
    BY <1>3, <1>6 DEF Pending, Affected
  <2>2. \A p \in Passes : p \notin Pending(r2) => ShowsEmpty(deliveries, p)
    BY <1>1, <1>3, <1>4, <2>1, OutsideRestored, SameTaken DEF InBalance
  <2>3. r2.pc \notin Checking
    BY <1>6 DEF Checking
  <2> QED BY <1>2, <1>3, <2>2, <2>3, QuietBalance
<1> QED BY <1>3, <1>5, <1>6

(* A refresh finds every pass that needs it, and mends it. *)
LEMMA DerivedShows ==
  ASSUME NEW docs, NEW rets, NEW p, NEW st, st \notin {"DRAFT", "CANCELLED"},
         Available(docs, rets, p) = 0
  PROVE  DerivedStatus(docs, rets, p, st) = "DELIVERED"
  BY DEF DerivedStatus

LEMMA RefreshBalance ==
  ASSUME TypeOK, NEW s \in Slots, AllBalanced, InBalance(request[s]), Consistent(request[s]),
         RefreshReturns(s) \/ \E p \in Passes : Persist(s, p)
  PROVE  Outcome(s)
<1> USE DEF SameAim, SameReads, SameBalance
<1>1. PICK rq \in Request : rq = request[s]
  BY DEF TypeOK
<1>2. PICK r2 : r2 = request'[s]
  OBVIOUS
<1>3. PassesKnown(rq) /\ DocsKnown(rq)
  BY <1>1 DEF Consistent
<1>4. CASE RefreshReturns(s)
  <2>1. /\ rq.pc = "refreshReturns" /\ r2.pc = "persist"
        /\ UNCHANGED <<passes, deliveries, returns>>
        /\ r2.todo = {p \in Affected(rq) :
                        DerivedStatus(rq.docs, returns, p, rq.passes[p]) # rq.passes[p]}
    BY <1>1, <1>2, <1>4, RefreshReturnsTable DEF DataFrame
  <2>2. rq.docs = deliveries /\ rq.passes = passes /\ Restored(rq) = deliveries
    BY <1>3, <2>1 DEF PassesKnown, DocsKnown, Restored, Checking
  <2>3. Pending(rq) = Affected(rq) /\ Pending(r2) = r2.todo /\ r2.pc \notin Checking
    BY <2>1 DEF Pending, Checking
  <2>4. ASSUME NEW p \in Passes, p \notin r2.todo PROVE ShowsEmpty(deliveries, p)
    <3>1. CASE p \notin Affected(rq)
      BY <1>1, <2>2, <2>3, <3>1 DEF InBalance
    <3>2. CASE p \in Affected(rq)
      <4>1. DerivedStatus(deliveries, returns, p, passes[p]) = passes[p]
        BY <2>1, <2>2, <2>4, <3>2
      <4> QED BY <4>1, DerivedShows DEF ShowsEmpty, Closed
    <3> QED BY <3>1, <3>2
  <2> QED BY <1>2, <2>1, <2>3, <2>4, QuietBalance
<1>5. ASSUME NEW p \in Passes, Persist(s, p) PROVE Outcome(s)
  <2>1. PICK st : st = DerivedStatus(rq.docs, rq.rets, p, rq.passes[p])
    OBVIOUS
  <2>2. /\ rq.pc = "persist" /\ r2.pc = "persist" /\ p \in rq.todo /\ r2.todo = rq.todo \ {p}
        /\ deliveries' = deliveries /\ returns' = returns
        /\ passes' = [passes EXCEPT ![p] = st] /\ passes \in [Passes -> PassStatuses]
    BY <1>1, <1>2, <1>5, <2>1, PersistTable DEF TypeOK
  <2>3. /\ rq.docs = deliveries /\ rq.rets = returns /\ rq.passes[p] = passes[p]
        /\ Restored(rq) = deliveries /\ Restored(r2)' = deliveries
    BY <1>3, <2>2 DEF PassesKnown, DocsKnown, Restored, Checking
  <2>4. Pending(rq) = rq.todo /\ Pending(r2) = r2.todo
    BY <2>2 DEF Pending
  <2>5. ASSUME NEW e \in Passes, e \notin r2.todo PROVE ShowsEmpty(deliveries, e)'
    <3>1. CASE e = p
      <4>1. st \in {"DRAFT", "CANCELLED"} <=> passes[p] \in {"DRAFT", "CANCELLED"}
        BY <2>1, <2>3, DerivedKeepsClosed
      <4>2. passes[p] \notin {"DRAFT", "CANCELLED"} /\ Available(deliveries, returns, p) = 0
              => st = "DELIVERED"
        BY <2>1, <2>3, DerivedShows
      <4>3. passes'[e] = st
        BY <2>2, <3>1
      <4> QED BY <2>2, <3>1, <4>1, <4>2, <4>3 DEF ShowsEmpty, Closed
    <3>2. CASE e # p
      <4>1. ShowsEmpty(deliveries, e)
        BY <1>1, <2>2, <2>3, <2>4, <2>5, <3>2 DEF InBalance
      <4> QED BY <2>2, <3>2, <4>1 DEF ShowsEmpty, Closed
    <3> QED BY <3>1, <3>2
  <2>6. AllBalanced'
    BY <2>2 DEF AllBalanced, Balanced
  <2>7. Pending(r2)' = r2.todo
    BY <2>2 DEF Pending
  <2>8. InBalance(r2)'
    BY <2>3, <2>5, <2>6, <2>2, <2>7 DEF InBalance, AllBalanced
  <2> QED BY <1>2, <2>2, <2>6, <2>8 DEF Outcome
<1> QED BY <1>4, <1>5

(* A plan leaves room for what it takes. *)
LEMMA RoomLeft ==
  ASSUME NEW docs \in [Deliveries -> Delivery], NEW d \in Deliveries, NEW doc \in Delivery,
         NEW p \in Passes, Balanced(docs, p), Take(docs[d], p) = 0,
         Take(doc, p) > 0 => Take(doc, p) <= Available(docs, returns, p)
  PROVE  Balanced([docs EXCEPT ![d] = doc], p)
<1>1. PICK d2 : d2 = [docs EXCEPT ![d] = doc]
  OBVIOUS
<1>2. /\ Delivered(docs, p) \in Nat /\ Delivered(d2, p) \in Nat /\ Take(doc, p) \in Nat
      /\ Delivered(d2, p) = Delivered(docs, p) + Take(doc, p)
  <2>1. /\ Delivered(docs, p) \in Nat /\ Take(doc, p) \in Nat
        /\ Delivered(d2, p) = Delivered(docs, p) - Take(docs[d], p) + Take(doc, p)
    BY <1>1, DeliveredReplaced
  <2> QED BY <2>1
<1>3. /\ PendingBack(returns, p) \in Nat /\ Received[p] \in Nat
      /\ Available(docs, returns, p) \in Nat
      /\ Available(docs, returns, p) > 0 =>
           Available(docs, returns, p) <= Received[p] - Delivered(docs, p) + PendingBack(returns, p)
  BY AvailableFacts
<1>4. CASE Take(doc, p) = 0
  BY <1>1, <1>2, <1>4, SameTaken
<1>5. CASE Take(doc, p) > 0
  <2>1. Delivered(d2, p) - PendingBack(returns, p) <= Received[p]
    BY <1>2, <1>3, <1>5
  <2> QED BY <1>1, <1>2, <1>3, <2>1 DEF Balanced, Oversold
<1> QED BY <1>2, <1>4, <1>5

LEMMA LessBalanced ==
  ASSUME NEW docs, NEW docs2, NEW p \in Passes, Balanced(docs, p),
         Delivered(docs2, p) <= Delivered(docs, p)
  PROVE  Balanced(docs2, p)
<1>1. /\ Delivered(docs, p) \in Nat /\ PendingBack(returns, p) \in Nat /\ Received[p] \in Nat
      /\ Delivered(docs2, p) \in Nat
  BY AvailableFacts
<1> QED BY <1>1 DEF Balanced, Oversold

LEMMA SameTake ==
  ASSUME NEW doc, NEW new, SameLinen(doc, new), NEW p
  PROVE  Take(doc, p) = Take(new, p)
  BY DEF SameLinen, Take, Counts

LEMMA InsertBalance ==
  ASSUME TypeOK, NEW s \in Slots, AllBalanced, InBalance(request[s]), Consistent(request[s]),
         Insert(s)
  PROVE  Outcome(s)
<1> USE DEF SameAim
<1>1. PICK rq \in Request : rq = request[s]
  BY DEF TypeOK
<1>2. PICK r2 : r2 = request'[s]
  OBVIOUS
<1>3. PICK doc \in Delivery : /\ deliveries' = [deliveries EXCEPT ![rq.delivery] = doc]
                              /\ SameLinen(doc, rq.new)
  BY <1>1, InsertTable
<1>4. /\ passes' = passes /\ returns' = returns /\ PlanShape(rq) /\ Justified(rq)
      /\ rq.pc = "write" /\ rq.op \in {"create", "draft", "catchUp"}
      /\ deliveries[rq.delivery].status = "NONE"
      /\ \/ rq.op = "draft" /\ r2.pc = "idle"
         \/ rq.op # "draft" /\ r2.pc = "checkMovements" /\ r2.op = rq.op /\ r2.delivery = rq.delivery
  BY <1>1, <1>2, InsertTable DEF Consistent
<1>5. rq.delivery \in Deliveries /\ deliveries \in [Deliveries -> Delivery]
  BY <1>4 DEF PlanShape, TypeOK
<1>6. \A p \in Passes : /\ Take(deliveries[rq.delivery], p) = 0 /\ Take(doc, p) \in Nat
                        /\ Take(doc, p) > 0 => Take(doc, p) <= Available(deliveries, returns, p)
  <2>1. Plannable(rq.new.lines, passes, deliveries, returns)
    BY <1>4 DEF Justified
  <2>2. ASSUME NEW p \in Passes
        PROVE  Take(doc, p) \in {0, rq.new.lines[p]} /\ rq.new.lines[p] \in Nat
    <3>1. rq.new.lines[p] \in Nat
      BY <1>1, BoundsAssumption DEF Request, Delivery, Lines
    <3> QED BY <1>3, <3>1 DEF SameLinen, Take
  <2> QED BY <1>4, <2>1, <2>2 DEF Plannable, Take, Counts
<1>7. ASSUME NEW p \in Passes PROVE Balanced(deliveries', p)
  BY <1>3, <1>5, <1>6, RoomLeft DEF AllBalanced
<1>8. AllBalanced'
  BY <1>4, <1>7 DEF AllBalanced, Balanced
<1>9. \A p \in Passes : Balanced(deliveries, p) /\ ShowsEmpty(deliveries, p)
  BY <1>1, <1>4 DEF InBalance, Pending, Restored, Checking
<1>10. CASE rq.op = "draft"
  <2>1. ASSUME NEW p \in Passes PROVE ShowsEmpty(deliveries', p)
    <3>1. Take(doc, p) = 0
      <4>1. ~Counts(rq.new)
        BY <1>4, <1>10 DEF PlanShape, Counts
      <4> QED BY <1>3, <4>1 DEF SameLinen, Take, Counts
    <3>2. Delivered(deliveries', p) = Delivered(deliveries, p)
      <4>1. /\ Delivered(deliveries, p) \in Nat
            /\ Delivered(deliveries', p) = Delivered(deliveries, p) - Take(deliveries[rq.delivery], p) + Take(doc, p)
        BY <1>3, <1>5, DeliveredReplaced
      <4> QED BY <1>6, <3>1, <4>1
    <3> QED BY <1>9, <3>2, SameTaken
  <2>2. Settled'
    BY <1>4, <2>1 DEF Settled, ShowsEmpty, Closed
  <2> QED BY <1>2, <1>4, <1>8, <1>10, <2>2 DEF Outcome
<1>11. CASE rq.op # "draft"
  <2>1. PICK gone \in Delivery : gone = [NoDelivery EXCEPT !.status = "GONE"]
    BY IdleTypes DEF Delivery
  <2>2. gone.status = "GONE"
    BY <2>1, IdleTypes DEF Delivery
  <2>3. PICK d2 : d2 = [deliveries EXCEPT ![rq.delivery] = gone]
    OBVIOUS
  <2>4. Restored(r2)' = d2
    BY <1>3, <1>4, <1>11, <2>1, <2>3 DEF Restored, Checking
  <2>5. ASSUME NEW p \in Passes PROVE Balanced(d2, p) /\ ShowsEmpty(d2, p)
    <3>1. Take(gone, p) = 0
      BY <2>2 DEF Take, Counts
    <3>2. Delivered(d2, p) = Delivered(deliveries, p)
      <4>1. /\ Delivered(deliveries, p) \in Nat
            /\ Delivered(d2, p) = Delivered(deliveries, p) - Take(deliveries[rq.delivery], p) + Take(gone, p)
        BY <1>5, <2>3, DeliveredReplaced
      <4> QED BY <1>6, <3>1, <4>1
    <3> QED BY <1>9, <3>2, SameTaken
  <2>6. InBalance(r2)'
    BY <1>4, <2>4, <2>5 DEF InBalance, Balanced, ShowsEmpty, Closed
  <2>7. r2.pc # "idle"
    BY <1>4, <1>11
  <2> QED BY <1>2, <1>8, <2>6, <2>7 DEF Outcome
<1> QED BY <1>10, <1>11

LEMMA WriteBalance ==
  ASSUME NEW s \in Slots, passes' = passes, returns' = returns,
         NEW r2, r2 = request'[s], r2.pc \notin Checking,
         \A p \in Passes : Balanced(deliveries', p),
         \A p \in Passes : p \notin Pending(r2) => ShowsEmpty(deliveries', p)
  PROVE  Outcome(s)
<1>1. AllBalanced'
  BY DEF AllBalanced, Balanced
<1>2. CASE r2.pc = "idle"
  <2>1. Pending(r2) = {}
    BY <1>2 DEF Pending
  <2>2. Settled'
    BY <2>1 DEF Settled, ShowsEmpty, Closed
  <2> QED BY <1>1, <1>2, <2>2 DEF Outcome
<1>3. CASE r2.pc # "idle"
  <2>1. Restored(r2)' = deliveries'
    BY DEF Restored
  <2>2. InBalance(r2)'
    BY <2>1 DEF InBalance, Balanced, ShowsEmpty, Closed, Pending, Affected
  <2> QED BY <1>1, <1>3, <2>2 DEF Outcome
<1> QED BY <1>2, <1>3

LEMMA CorrectBalance ==
  ASSUME TypeOK, NEW s \in Slots, AllBalanced, InBalance(request[s]), Consistent(request[s]),
         Correct(s)
  PROVE  Outcome(s)
<1> USE DEF SameAim, SameReads
<1>1. PICK rq \in Request : rq = request[s]
  BY DEF TypeOK
<1>2. PICK r2 : r2 = request'[s]
  OBVIOUS
<1>3. /\ PlanShape(rq) /\ DocsKnown(rq) /\ Justified(rq)
      /\ rq.pc = "write" /\ rq.op = "correct" /\ passes' = passes /\ returns' = returns
  BY <1>1, CorrectTable DEF Consistent
<1>4. /\ rq.delivery \in Deliveries /\ deliveries \in [Deliveries -> Delivery]
      /\ deliveries[rq.delivery] = rq.old /\ rq.new \in Delivery
  BY <1>1, <1>3 DEF PlanShape, DocsKnown, Planning, TypeOK, Request
<1>5. Restored(rq) = deliveries /\ Pending(rq) = {}
  BY <1>3 DEF Restored, Checking, Pending
<1>6. \A p \in Passes : Balanced(deliveries, p) /\ ShowsEmpty(deliveries, p)
  BY <1>1, <1>5 DEF InBalance
<1>7. CASE deliveries' = deliveries /\ r2.pc = "idle"
  <2>1. r2.pc \notin Checking
    BY <1>7 DEF Checking
  <2> QED BY <1>2, <1>3, <1>6, <1>7, <2>1, WriteBalance
<1>8. ASSUME NEW doc \in Delivery, deliveries' = [deliveries EXCEPT ![rq.delivery] = doc],
             SameLinen(doc, rq.new), r2.pc = "checkMovements", SameAim(s)
      PROVE  Outcome(s)
  <2>1. PICK w : w = Without(deliveries, rq.delivery)
    OBVIOUS
  <2>2. /\ w \in [Deliveries -> Delivery] /\ w = [deliveries EXCEPT ![rq.delivery] = NoDelivery]
        /\ deliveries' = [w EXCEPT ![rq.delivery] = doc]
        /\ w[rq.delivery] = NoDelivery
    BY <1>4, <1>8, <2>1, IdleTypes DEF Without
  <2>3. ASSUME NEW p \in Passes PROVE Balanced(deliveries', p)
    <3>1. Take(NoDelivery, p) = 0
      BY DEF Take, NoDelivery, Counts
    <3>0. /\ Delivered(deliveries, p) \in Nat /\ Take(deliveries[rq.delivery], p) \in Nat
          /\ Delivered([deliveries EXCEPT ![rq.delivery] = NoDelivery], p) =
               Delivered(deliveries, p) - Take(deliveries[rq.delivery], p) + Take(NoDelivery, p)
      BY <1>4, IdleTypes, DeliveredReplaced
    <3>2. /\ Delivered(deliveries, p) \in Nat /\ Take(deliveries[rq.delivery], p) \in Nat
          /\ Delivered(w, p) = Delivered(deliveries, p) - Take(deliveries[rq.delivery], p)
                                 + Take(NoDelivery, p)
      BY <2>2, <3>0
    <3>3. Delivered(w, p) <= Delivered(deliveries, p)
      BY <3>1, <3>2
    <3>4. Balanced(w, p)
      BY <1>6, <3>3, LessBalanced
    <3>5. Take(doc, p) > 0 => Take(doc, p) <= Available(w, returns, p)
      <4>1. Plannable(rq.new.lines, passes, w, returns)
        BY <1>3, <2>1 DEF Justified
      <4>2. Take(doc, p) = 0 \/ Take(doc, p) = rq.new.lines[p]
        BY <1>8 DEF SameLinen, Take
      <4> QED BY <4>1, <4>2 DEF Plannable
    <3>6. Take(w[rq.delivery], p) = 0
      BY <2>2, <3>1
    <3>7. Balanced([w EXCEPT ![rq.delivery] = doc], p)
      BY <1>4, <2>2, <3>4, <3>5, <3>6, RoomLeft
    <3> QED BY <2>2, <3>7
  <2>4. AllBalanced'
    BY <1>3, <2>3 DEF AllBalanced, Balanced
  <2>5. Restored(r2)' = deliveries
    <3>1. Restored(r2)' = [deliveries' EXCEPT ![rq.delivery] = rq.old]
      BY <1>1, <1>2, <1>3, <1>8 DEF Restored, Checking
    <3> QED BY <1>4, <1>8, <3>1
  <2>6. InBalance(r2)'
    BY <1>3, <1>6, <2>5 DEF InBalance, Balanced, ShowsEmpty, Closed
  <2> QED BY <1>2, <1>8, <2>4, <2>6 DEF Outcome
<1> QED BY <1>1, <1>2, <1>7, <1>8, CorrectTable

LEMMA CancelBalance ==
  ASSUME TypeOK, NEW s \in Slots, AllBalanced, InBalance(request[s]), Consistent(request[s]),
         Cancel(s)
  PROVE  Outcome(s)
<1> USE DEF SameAim, SameReads
<1>1. PICK rq \in Request : rq = request[s]
  BY DEF TypeOK
<1>2. PICK r2 : r2 = request'[s]
  OBVIOUS
<1>0. /\ PlanShape(rq) /\ DocsKnown(rq) /\ rq.pc = "write" /\ rq.op = "cancel"
  BY <1>1 DEF Consistent, Cancel
<1>5. /\ rq.delivery \in Deliveries /\ deliveries \in [Deliveries -> Delivery]
      /\ Exists(deliveries[rq.delivery]) /\ deliveries[rq.delivery] = rq.old /\ rq.old \in Delivery
  BY <1>0, <1>1 DEF PlanShape, DocsKnown, Planning, TypeOK, Exists, Request
<1>3. PICK doc \in Delivery : /\ deliveries' = [deliveries EXCEPT ![rq.delivery] = doc]
                              /\ doc.status = "CANCELLED"
  BY <1>1, <1>5, CancelTable
<1>4. /\ passes' = passes /\ returns' = returns /\ r2.pc = "refreshPasses"
      /\ r2.op = rq.op /\ r2.old = rq.old /\ r2.new = rq.new
  BY <1>1, <1>2, <1>5, CancelTable
<1>6. Restored(rq) = deliveries /\ Pending(rq) = {}
  BY <1>0 DEF Restored, Checking, Pending
<1>7. \A p \in Passes : Balanced(deliveries, p) /\ ShowsEmpty(deliveries, p)
  BY <1>1, <1>6 DEF InBalance
<1>8. \A p \in Passes : /\ Delivered(deliveries, p) \in Nat /\ Take(rq.old, p) \in Nat
                        /\ Delivered(deliveries', p) = Delivered(deliveries, p) - Take(rq.old, p)
  <2> SUFFICES ASSUME NEW p \in Passes
               PROVE  /\ Delivered(deliveries, p) \in Nat /\ Take(rq.old, p) \in Nat
                      /\ Delivered(deliveries', p) = Delivered(deliveries, p) - Take(rq.old, p)
    OBVIOUS
  <2>1. Take(doc, p) = 0
    BY <1>3 DEF Take, Counts
  <2>2. /\ Delivered(deliveries, p) \in Nat /\ Take(deliveries[rq.delivery], p) \in Nat
        /\ Delivered([deliveries EXCEPT ![rq.delivery] = doc], p) =
             Delivered(deliveries, p) - Take(deliveries[rq.delivery], p) + Take(doc, p)
    BY <1>5, DeliveredReplaced
  <2>3. /\ Delivered(deliveries, p) \in Nat /\ Take(rq.old, p) \in Nat
        /\ Delivered(deliveries', p) = Delivered(deliveries, p) - Take(rq.old, p) + Take(doc, p)
    BY <1>3, <1>5, <2>2
  <2> QED BY <2>1, <2>3
<1>9. \A p \in Passes : Balanced(deliveries', p)
  <2> TAKE p \in Passes
  <2>1. Delivered(deliveries', p) <= Delivered(deliveries, p)
    BY <1>8
  <2> QED BY <1>7, <2>1, LessBalanced
<1>10. \A p \in Passes : p \notin Pending(r2) => ShowsEmpty(deliveries', p)
  <2> SUFFICES ASSUME NEW p \in Passes, p \notin Pending(r2) PROVE ShowsEmpty(deliveries', p)
    OBVIOUS
  <2>1. p \notin Sources(rq.old)
    BY <1>0, <1>4 DEF Pending, Affected
  <2>2. rq.old.lines[p] \in Nat
    BY <1>5, BoundsAssumption DEF Delivery, Lines
  <2>3. Take(rq.old, p) = 0
    BY <2>1, <2>2 DEF Sources, Take
  <2>4. Delivered(deliveries', p) = Delivered(deliveries, p)
    BY <1>8, <2>3
  <2> QED BY <1>7, <2>4, SameTaken
<1>11. r2.pc \notin Checking
  BY <1>4 DEF Checking
<1> QED BY <1>2, <1>4, <1>9, <1>10, <1>11, WriteBalance

LEMMA UndoBalance ==
  ASSUME TypeOK, NEW s \in Slots, AllBalanced, InBalance(request[s]), Consistent(request[s]),
         Undo(s)
  PROVE  Outcome(s)
<1>1. PICK rq \in Request : rq = request[s]
  BY DEF TypeOK
<1>2. PICK r2 : r2 = request'[s]
  OBVIOUS
<1>3. PlanShape(rq) /\ DocsKnown(rq) /\ rq.pc = "undo"
  BY <1>1 DEF Consistent, Undo
<1>4. rq.op \in {"create", "catchUp", "correct"} /\ Exists(deliveries[rq.delivery])
  BY <1>3 DEF PlanShape, DocsKnown, Checking, SameLinen, Exists
<1>5. /\ r2.pc = "idle" /\ deliveries' = Restored(rq) /\ passes' = passes /\ returns' = returns
  BY <1>1, <1>2, <1>4, UndoTable
<1>6. Pending(rq) = {}
  BY <1>3 DEF Pending
<1>7. \A p \in Passes : Balanced(deliveries', p) /\ ShowsEmpty(deliveries', p)
  BY <1>1, <1>5, <1>6 DEF InBalance
<1>8. r2.pc \notin Checking
  BY <1>5 DEF Checking
<1> QED BY <1>2, <1>5, <1>7, <1>8, WriteBalance

(* What came back leaves more room; what is sent again ends the count. *)
LEMMA ReturnBalance ==
  ASSUME TypeOK, NEW s \in Slots, AllBalanced, InBalance(request[s]), Consistent(request[s]),
         RegisterReturn(s) \/ MarkResent(s)
  PROVE  Outcome(s)
<1> USE DEF SameAim, SameReads
<1>1. PICK rq \in Request : rq = request[s]
  BY DEF TypeOK
<1>2. PICK r2 : r2 = request'[s]
  OBVIOUS
<1>3. /\ passes' = passes /\ deliveries' = deliveries /\ PlanShape(rq)
      /\ rq.pc = "write" /\ rq.op \in {"return", "resend"} /\ r2.pc = "refreshPasses"
      /\ r2.op = rq.op /\ r2.pass = rq.pass
      /\ \/ /\ rq.op = "return" /\ returns[rq.ret].state = "NONE"
            /\ returns' = [returns EXCEPT ![rq.ret] = [state |-> "PENDING", pass |-> rq.pass]]
         \/ rq.op = "resend" /\ returns' = [returns EXCEPT ![rq.ret].state = "SENT"]
  BY <1>1, <1>2, ReturnWritesTable DEF Consistent
<1>4. /\ returns \in [Returns -> Return] /\ rq.ret \in Returns /\ rq.pass \in Passes
      /\ rq.op = "resend" => returns[rq.ret].pass = rq.pass
  BY <1>1, <1>3 DEF PlanShape, TypeOK, Request
<1>5. Restored(rq) = deliveries /\ Pending(rq) = {} /\ Pending(r2) = {rq.pass}
  BY <1>3 DEF Restored, Checking, Pending, Affected
<1>6. \A p \in Passes : Balanced(deliveries, p) /\ ShowsEmpty(deliveries, p)
  BY <1>1, <1>5 DEF InBalance
<1>7. PICK back : back = returns'[rq.ret] /\ returns' = [returns EXCEPT ![rq.ret] = back]
  BY <1>3, <1>4
<1>8. /\ back.pass = rq.pass /\ back \in Return
      /\ \/ back = [state |-> "PENDING", pass |-> rq.pass] /\ returns[rq.ret].state = "NONE"
         \/ back = [state |-> "SENT", pass |-> rq.pass] /\ returns[rq.ret].pass = rq.pass
  <2>1. CASE rq.op = "return"
    BY <1>3, <1>4, <1>7, <2>1 DEF Return
  <2>2. CASE rq.op = "resend"
    BY <1>3, <1>4, <1>7, <2>2 DEF Return
  <2> QED BY <1>3, <2>1, <2>2
<1>9. ASSUME NEW p \in Passes, p # rq.pass
      PROVE  /\ Balanced(deliveries, p)' /\ ShowsEmpty(deliveries, p)'
  <2>1. {r \in Returns : returns'[r] = [state |-> "PENDING", pass |-> p]}
          = {r \in Returns : returns[r] = [state |-> "PENDING", pass |-> p]}
    <3>1. back # [state |-> "PENDING", pass |-> p] /\ returns[rq.ret] # [state |-> "PENDING", pass |-> p]
      BY <1>8, <1>9
    <3> QED BY <1>4, <1>7, <3>1
  <2>2. PendingBack(returns', p) = PendingBack(returns, p)
    BY <2>1 DEF PendingBack
  <2>3. Balanced(deliveries, p)'
    <3>1. ASSUME \A r \in Returns : returns'[r] # [state |-> "SENT", pass |-> p]
          PROVE  \A r \in Returns : returns[r] # [state |-> "SENT", pass |-> p]
      <4>1. returns[rq.ret] # [state |-> "SENT", pass |-> p]
        BY <1>8, <1>9
      <4> QED BY <1>4, <1>7, <3>1, <4>1
    <3> QED BY <1>3, <1>6, <2>2, <3>1 DEF Balanced, Oversold
  <2>4. ShowsEmpty(deliveries, p)'
    BY <1>3, <1>6, <2>2 DEF ShowsEmpty, Closed, Available
  <2> QED BY <2>3, <2>4
<1>10. Balanced(deliveries, rq.pass)'
  <2> DEFINE p == rq.pass
  <2>1. CASE back = [state |-> "SENT", pass |-> rq.pass]
    BY <1>4, <1>7, <2>1 DEF Balanced
  <2>2. CASE back = [state |-> "PENDING", pass |-> rq.pass] /\ returns[rq.ret].state = "NONE"
    <3>1. \A r \in Returns : returns[r] = [state |-> "PENDING", pass |-> rq.pass]
            => returns'[r] = [state |-> "PENDING", pass |-> rq.pass]
      BY <1>4, <1>7, <2>2
    <3>2. \A r \in Returns : returns[r] = [state |-> "SENT", pass |-> rq.pass]
            => returns'[r] = [state |-> "SENT", pass |-> rq.pass]
      BY <1>4, <1>7, <2>2
    <3>3. PendingBack(returns, rq.pass) <= PendingBack(returns', rq.pass)
      <4>1. IsFiniteSet({r \in Returns : returns'[r] = [state |-> "PENDING", pass |-> rq.pass]})
        BY PendingFinite
      <4>2. {r \in Returns : returns[r] = [state |-> "PENDING", pass |-> rq.pass]}
              \subseteq {r \in Returns : returns'[r] = [state |-> "PENDING", pass |-> rq.pass]}
        BY <3>1
      <4> QED BY <4>1, <4>2, FS_Subset DEF PendingBack
    <3>4. /\ Delivered(deliveries, rq.pass) \in Nat /\ PendingBack(returns, rq.pass) \in Nat
          /\ Received[rq.pass] \in Nat /\ PendingBack(returns', rq.pass) \in Nat
      BY <1>4, AvailableFacts
    <3>5. ~Oversold(deliveries, returns, rq.pass) => ~Oversold(deliveries, returns', rq.pass)
      BY <3>3, <3>4 DEF Oversold
    <3> QED BY <1>3, <1>4, <1>6, <3>2, <3>5 DEF Balanced
  <2> QED BY <1>8, <2>1, <2>2
<1>11. AllBalanced'
  BY <1>9, <1>10 DEF AllBalanced
<1>12. InBalance(r2)'
  <2>1. Restored(r2)' = deliveries'
    BY <1>3 DEF Restored, Checking
  <2>2. Pending(r2)' = {rq.pass}
    BY <1>3 DEF Pending, Affected
  <2> QED BY <1>3, <1>9, <1>10, <2>1, <2>2 DEF InBalance, Balanced, ShowsEmpty, Closed
<1> QED BY <1>2, <1>3, <1>11, <1>12 DEF Outcome

(* A pass that is opened has all its linen; a cancelled one shows nothing. *)
LEMMA StatusBalance ==
  ASSUME TypeOK, NEW s \in Slots, AllBalanced, InBalance(request[s]), Consistent(request[s]),
         ClosedUnused(deliveries), SetStatus(s) \/ PutPassBack(s)
  PROVE  Outcome(s)
<1>1. PICK rq \in Request : rq = request[s]
  BY DEF TypeOK
<1>2. PICK r2 : r2 = request'[s]
  OBVIOUS
<1>3. /\ r2.pc = "idle" /\ deliveries' = deliveries /\ returns' = returns
      /\ PlanShape(rq) /\ PassesKnown(rq)
      /\ passes' = [passes EXCEPT ![rq.pass] = rq.status]
      /\ \/ rq.pc = "write" /\ rq.op = "status"
         \/ rq.pc = "putBack"
  BY <1>1, <1>2, StatusTable, PutBackTable DEF Consistent
<1>4. Restored(rq) = deliveries /\ Pending(rq) = {}
  BY <1>3 DEF Restored, Checking, Pending
<1>5. \A p \in Passes : Balanced(deliveries, p) /\ ShowsEmpty(deliveries, p)
  BY <1>1, <1>4 DEF InBalance
<1>6. AllBalanced'
  BY <1>3, <1>5 DEF AllBalanced, Balanced
<1>7. passes \in [Passes -> PassStatuses] /\ deliveries \in [Deliveries -> Delivery]
  BY DEF TypeOK
<1>8. ASSUME NEW p \in Passes PROVE ShowsEmpty(deliveries, p)'
  <2>1. CASE p # rq.pass \/ rq.status = passes[p]
    BY <1>3, <1>5, <1>7, <2>1 DEF ShowsEmpty, Closed
  <2>2. CASE p = rq.pass /\ rq.status = "CANCELLED"
    BY <1>3, <1>7, <2>2 DEF ShowsEmpty, Closed
  <2>3. CASE p = rq.pass /\ rq.pc = "write" /\ rq.status = "RECEIVED" /\ Closed(p)
    <3>1. Unused(deliveries, p)
      BY <2>3 DEF ClosedUnused
    <3>2. ASSUME NEW x \in Pieces(deliveries, p) PROVE FALSE
      <4>1. /\ x[1] \in Deliveries /\ x[2] \in 1..MaxQty /\ deliveries[x[1]].status = "DELIVERED"
            /\ x[2] <= deliveries[x[1]].lines[p]
        BY <3>2 DEF Pieces, Counts
      <4>2. p \notin Sources(deliveries[x[1]])
        BY <3>1, <4>1 DEF Unused, Exists
      <4>3. deliveries[x[1]].lines[p] \in Nat
        BY <1>7, <4>1, BoundsAssumption DEF Delivery, Lines
      <4> QED BY <4>1, <4>2, <4>3 DEF Sources
    <3>3. Delivered(deliveries, p) = 0
      BY <3>2, FS_EmptySet DEF Delivered
    <3>4. Received[p] > 0 => Available(deliveries, returns, p) # 0
      <4>1. /\ PendingBack(returns, p) \in Nat /\ Received[p] \in Nat
            /\ Received[p] > 0 => (Available(deliveries, returns, p) = 0 <=>
                 Received[p] - Delivered(deliveries, p) + PendingBack(returns, p) <= 0)
        BY AvailableFacts
      <4> QED BY <3>3, <4>1
    <3> QED BY <1>3, <3>4 DEF ShowsEmpty
  <2>4. \/ rq.pc = "putBack" /\ rq.status = passes[rq.pass]
        \/ rq.pc = "write" /\ rq.status = "CANCELLED"
        \/ rq.pc = "write" /\ rq.status = "RECEIVED" /\ Closed(rq.pass)
    BY <1>3 DEF PlanShape, PassesKnown
  <2> QED BY <2>1, <2>2, <2>3, <2>4
<1>9. Settled'
  BY <1>8 DEF Settled
<1> QED BY <1>2, <1>3, <1>6, <1>9 DEF Outcome

(* An activation, when the primary pass is the only one. *)
LEMMA OnePass ==
  ASSUME PrimaryPassOnly, NEW rq, PlanShape(rq), rq.op = "activate"
  PROVE  Passes = {AnyPass}
  BY DEF PlanShape, PrimaryPassOnly

LEMMA ActivateBalance ==
  ASSUME TypeOK, NEW s \in Slots, AllBalanced, InBalance(request[s]), Consistent(request[s]),
         Passes = {AnyPass}, Activate(s)
  PROVE  Outcome(s)
<1> USE DEF SameAim, SameReads
<1>1. PICK rq \in Request : rq = request[s]
  BY DEF TypeOK
<1>2. PICK r2 : r2 = request'[s]
  OBVIOUS
<1>0. /\ PlanShape(rq) /\ DocsKnown(rq) /\ Justified(rq)
      /\ rq.pc = "write" /\ rq.op = "activate"
  BY <1>1 DEF Consistent, Activate
<1>5. /\ rq.delivery \in Deliveries /\ deliveries \in [Deliveries -> Delivery]
      /\ deliveries[rq.delivery] = rq.old /\ rq.old.status = "DRAFT"
      /\ rq.old \in Delivery /\ rq.new \in Delivery
      /\ rq.new.lines = rq.old.lines
  <2>1. rq.new = [rq.old EXCEPT !.status = "DELIVERED"] /\ rq.old \in Delivery
    BY <1>0, <1>1 DEF PlanShape, Request
  <2>2. rq.new.lines = rq.old.lines
    BY <2>1 DEF Delivery
  <2> QED BY <1>0, <1>1, <2>2 DEF PlanShape, DocsKnown, Planning, TypeOK, Request
<1>3. PICK doc \in Delivery : /\ deliveries' = [deliveries EXCEPT ![rq.delivery] = doc]
                              /\ SameLinen(doc, rq.new)
  BY <1>1, <1>5, ActivateTable DEF Exists
<1>4. /\ passes' = passes /\ returns' = returns /\ r2.pc = "activated"
      /\ r2.op = rq.op /\ r2.old = rq.old /\ r2.new = rq.new
  BY <1>1, <1>2, <1>5, ActivateTable DEF Exists
<1>6. ASSUME NEW p \in Passes PROVE Balanced(deliveries', p)
  <2>1. rq.old.primary = p /\ \A d \in Deliveries : deliveries[d].primary = p
    <3>1. rq.old.primary \in Passes /\ \A d \in Deliveries : deliveries[d].primary \in Passes
      BY <1>5 DEF Delivery
    <3> QED BY <3>1
  <2>2. [d \in Deliveries |-> IF deliveries[d].primary = rq.old.primary
                              THEN deliveries[d] ELSE NoDelivery] = deliveries
    BY <1>5, <2>1
  <2>3. rq.old.lines[p] > 0 =>
          /\ Received[p] > 0
          /\ rq.old.lines[p] <= AtLeastZero(Received[p] - Delivered(deliveries, p))
    BY <1>0, <2>1, <2>2 DEF Justified, Activatable
  <2>4. /\ Delivered(deliveries, p) \in Nat /\ PendingBack(returns, p) \in Nat
        /\ Received[p] \in Nat
    BY AvailableFacts
  <2>5. rq.old.lines[p] \in Nat
    BY <1>5, BoundsAssumption DEF Delivery, Lines
  <2>6. rq.old.lines[p] > 0 => rq.old.lines[p] <= Available(deliveries, returns, p)
    BY <2>3, <2>4, <2>5 DEF AtLeastZero, Available
  <2>7. Take(doc, p) > 0 => Take(doc, p) <= Available(deliveries, returns, p)
    BY <1>3, <1>5, <2>6 DEF SameLinen, Take
  <2>8. Take(deliveries[rq.delivery], p) = 0
    BY <1>5 DEF Take, Counts
  <2>9. Balanced([deliveries EXCEPT ![rq.delivery] = doc], p)
    BY <1>5, <2>7, <2>8, RoomLeft DEF AllBalanced
  <2> QED BY <1>3, <2>9
<1>7. \A p \in Passes : p \in Pending(r2)
  <2>1. rq.new.primary \in Passes
    BY <1>5 DEF Delivery
  <2> QED BY <1>0, <1>4, <2>1 DEF Pending, Affected, Sources
<1>8. r2.pc \notin Checking
  BY <1>4 DEF Checking
<1> QED BY <1>2, <1>4, <1>6, <1>7, <1>8, WriteBalance

LEMMA ActivationStatusBalance ==
  ASSUME TypeOK, NEW s \in Slots, AllBalanced, InBalance(request[s]), Consistent(request[s]),
         Passes = {AnyPass}, ActivationStatus(s)
  PROVE  Outcome(s)
<1>1. PICK rq \in Request : rq = request[s]
  BY DEF TypeOK
<1>2. PICK counted : counted = [d \in Deliveries |->
        CASE d = rq.delivery -> rq.new
          [] d # rq.delivery /\ rq.docs[d].primary = rq.new.primary -> rq.docs[d]
          [] OTHER -> NoDelivery]
  OBVIOUS
<1>3. /\ rq.pc = "activatedStatus" /\ request'[s].pc = "idle"
      /\ passes' = [passes EXCEPT ![rq.new.primary] =
           DerivedStatus(counted, rq.rets, rq.new.primary, rq.passes[rq.new.primary])]
      /\ deliveries' = deliveries /\ returns' = returns
  BY <1>1, <1>2, ActivationStatusTable
<1>4. PassesKnown(rq) /\ DocsKnown(rq)
  BY <1>1 DEF Consistent
<1>5. /\ rq.passes = passes /\ rq.rets = returns /\ SameLinen(deliveries[rq.delivery], rq.new)
      /\ \A d \in Deliveries \ {rq.delivery} : deliveries[d] = rq.docs[d]
  BY <1>3, <1>4 DEF PassesKnown, DocsKnown
<1>6. rq.new.primary = AnyPass /\ \A d \in Deliveries : rq.docs[d].primary = AnyPass
  <2>1. rq.new.primary \in Passes /\ \A d \in Deliveries : rq.docs[d].primary \in Passes
    BY <1>1 DEF Request, Delivery
  <2> QED BY <2>1
<1>7. \A d \in Deliveries : /\ Counts(counted[d]) <=> Counts(deliveries[d])
                            /\ counted[d].lines = deliveries[d].lines
  <2> TAKE d \in Deliveries
  <2>1. CASE d = rq.delivery
    BY <1>2, <1>5, <2>1 DEF SameLinen, Counts
  <2>2. CASE d # rq.delivery
    <3>1. counted[d] = rq.docs[d]
      BY <1>2, <1>6, <2>2
    <3> QED BY <1>5, <2>2, <3>1
  <2> QED BY <2>1, <2>2
<1>8. Delivered(counted, AnyPass) = Delivered(deliveries, AnyPass)
  <2>1. Pieces(counted, AnyPass) = Pieces(deliveries, AnyPass)
    BY <1>7 DEF Pieces
  <2> QED BY <2>1 DEF Delivered
<1>9. PICK st : st = DerivedStatus(counted, rq.rets, rq.new.primary, rq.passes[rq.new.primary])
  OBVIOUS
<1>10. passes' = [passes EXCEPT ![AnyPass] = st] /\ passes \in [Passes -> PassStatuses]
  BY <1>3, <1>6, <1>9 DEF TypeOK
<1>11. /\ st \in {"DRAFT", "CANCELLED"} <=> passes[AnyPass] \in {"DRAFT", "CANCELLED"}
       /\ passes[AnyPass] \notin {"DRAFT", "CANCELLED"} /\ Available(counted, returns, AnyPass) = 0
            => st = "DELIVERED"
  BY <1>5, <1>6, <1>9, DerivedKeepsClosed, DerivedShows
<1>12. Available(counted, returns, AnyPass) = Available(deliveries, returns, AnyPass)
  BY <1>8 DEF Available
<1>13. passes'[AnyPass] = st
  BY <1>10
<1>14. Settled'
  BY <1>3, <1>11, <1>12, <1>13 DEF Settled, ShowsEmpty, Closed
<1>15. AllBalanced'
  BY <1>3 DEF AllBalanced, Balanced
<1> QED BY <1>3, <1>14, <1>15 DEF Outcome

LEMMA StepBalance ==
  ASSUME TypeOK, NEW s \in Slots, AllBalanced, InBalance(request[s]), Consistent(request[s]),
         ClosedUnused(deliveries), PrimaryPassOnly, Step(s)
  PROVE  Outcome(s)
<1>1. CASE \/ LoadPasses(s) \/ LoadMovements(s) \/ LoadReturns(s) \/ RefreshPasses(s)
           \/ RefreshMovements(s) \/ ActivationReturns(s) \/ RereadPass(s) \/ Refreshed(s)
  BY <1>1, ReadsBalance
<1>2. CASE CheckMovements(s) \/ CheckReturns(s)
  BY <1>2, ChecksBalance
<1>3. CASE RefreshReturns(s) \/ \E p \in Passes : Persist(s, p)
  BY <1>3, RefreshBalance
<1>4. CASE \/ Insert(s) \/ Correct(s) \/ Cancel(s) \/ RegisterReturn(s) \/ MarkResent(s)
           \/ SetStatus(s) \/ PutPassBack(s) \/ Undo(s)
  BY <1>4, InsertBalance, CorrectBalance, CancelBalance, ReturnBalance, StatusBalance,
     UndoBalance
<1>5. CASE Activate(s) \/ ActivationStatus(s)
  <2>1. request[s].op = "activate"
    <3>1. CASE Activate(s)
      BY <3>1 DEF Activate
    <3>2. CASE ActivationStatus(s)
      BY <3>2 DEF ActivationStatus, Consistent, PlanShape
    <3> QED BY <1>5, <3>1, <3>2
  <2>2. Passes = {AnyPass}
    BY <2>1, OnePass DEF Consistent
  <2> QED BY <1>5, <2>2, ActivateBalance, ActivationStatusBalance
<1> QED BY <1>1, <1>2, <1>3, <1>4, <1>5 DEF Step

LEMMA BalanceInit == Init => BalanceInv
<1> SUFFICES ASSUME Init PROVE AllBalanced /\ Settled /\ \A s \in Slots : ~Active(s)
  BY DEF BalanceInv
<1>1. \A s \in Slots : ~Active(s)
  BY DEF Init, Active, IdleRequest
<1>2. ASSUME NEW p \in Passes PROVE Delivered(deliveries, p) = 0
  <2>1. Pieces(deliveries, p) = {}
    BY DEF Init, Pieces, NoDelivery, Counts
  <2> QED BY <2>1, FS_EmptySet DEF Delivered
<1>3. ASSUME NEW p \in Passes PROVE Balanced(deliveries, p) /\ ShowsEmpty(deliveries, p)
  <2>1. /\ PendingBack(returns, p) \in Nat /\ Received[p] \in Nat
        /\ Received[p] > 0 => (Available(deliveries, returns, p) = 0 <=>
             Received[p] - Delivered(deliveries, p) + PendingBack(returns, p) <= 0)
    BY AvailableFacts
  <2> QED BY <1>2, <2>1 DEF Balanced, Oversold, ShowsEmpty
<1> QED BY <1>1, <1>3 DEF AllBalanced, Settled

LEMMA BalanceStep ==
  ASSUME PrimaryPassOnly
  PROVE  TypeOK /\ SequentialInv /\ BalanceInv /\ [Next]_vars => BalanceInv'
<1> SUFFICES ASSUME TypeOK, SequentialInv, BalanceInv, [Next]_vars, ~disturbed'
             PROVE  /\ AllBalanced' /\ ((\A s \in Slots : ~Active(s)') => Settled')
                    /\ \A s \in Slots : Active(s)' => InBalance(request[s])'
  BY DEF BalanceInv
<1>1. CASE UNCHANGED vars
  <2>1. /\ passes' = passes /\ deliveries' = deliveries /\ returns' = returns
        /\ request' = request /\ ~disturbed
    BY <1>1 DEF vars
  <2>2. AllBalanced' /\ ((\A s \in Slots : ~Active(s)') => Settled')
    BY <2>1 DEF BalanceInv, AllBalanced, Balanced, Settled, ShowsEmpty, Closed, Active
  <2>3. ASSUME NEW s \in Slots, Active(s)' PROVE InBalance(request[s])'
    <3>1. PICK rq : rq = request[s]
      OBVIOUS
    <3>2. InBalance(rq)
      BY <2>1, <2>3, <3>1 DEF BalanceInv, Active
    <3>3. InBalance(rq)'
      BY <2>1, <3>2 DEF InBalance, Balanced, ShowsEmpty, Closed, Pending, Affected, Restored
    <3> QED BY <2>1, <3>1, <3>3
  <2> QED BY <2>2, <2>3
<1>2. ASSUME NEW s \in Slots, NewRequest(s)
      PROVE  /\ AllBalanced' /\ ((\A t \in Slots : ~Active(t)') => Settled')
             /\ \A t \in Slots : Active(t)' => InBalance(request[t])'
  <2>1. /\ ~disturbed /\ (\A t \in Slots : ~Active(t))
        /\ \A t \in Slots \ {s} : ~Active(t)'
        /\ UNCHANGED <<passes, deliveries, returns>>
        /\ request'[s].pc \in {"passes", "movements", "write"}
    BY <1>2, StartAlone
  <2>2. AllBalanced /\ Settled
    BY <2>1 DEF BalanceInv
  <2>3. request'[s].pc \notin Checking
    BY <2>1 DEF Checking
  <2>4. Outcome(s)
    BY <2>1, <2>2, <2>3, QuietBalance DEF Settled
  <2> QED BY <2>1, <2>4 DEF Outcome, Active
<1>3. ASSUME NEW s \in Slots, Step(s)
      PROVE  /\ AllBalanced' /\ ((\A t \in Slots : ~Active(t)') => Settled')
             /\ \A t \in Slots : Active(t)' => InBalance(request[t])'
  <2>1. /\ ~disturbed /\ Active(s) /\ Consistent(request[s]) /\ ClosedUnused(deliveries)
        /\ \A t \in Slots \ {s} : ~Active(t)'
    BY <1>3, StepAlone
  <2>2. AllBalanced /\ InBalance(request[s])
    BY <2>1 DEF BalanceInv
  <2>3. Outcome(s)
    BY <1>3, <2>1, <2>2, StepBalance
  <2> QED BY <2>1, <2>3 DEF Outcome, Active
<1>4. ASSUME NEW s \in Slots, Crash(s) PROVE FALSE
  BY <1>4 DEF Crash
<1> QED BY <1>1, <1>2, <1>3, <1>4 DEF Next

(* The three facts together, from the start and at every step. *)
LEMMA BalanceKept ==
  ASSUME PrimaryPassOnly
  PROVE  Spec => [](TypeOK /\ SequentialInv /\ BalanceInv)
<1>1. TypeOK /\ SequentialInv /\ BalanceInv /\ [Next]_vars => BalanceInv'
  BY BalanceStep
<1> QED BY <1>1, TypeCorrect, SequentialInit, SequentialStep,
           BalanceInit, PTL DEF Spec

(* No sequence of requests, of whatever kinds, oversells a pass.  Where one  *)
(* delivery draws on several passes, nobody may activate drafts: an          *)
(* activation holds every line against the primary pass.                     *)
THEOREM SequencesNeverOversell ==
  ASSUME PrimaryPassOnly
  PROVE  Spec => []SequentiallySound
<1>1. TypeOK /\ SequentialInv /\ BalanceInv => SequentiallySound
  BY DEF BalanceInv, AllBalanced, Balanced, SequentiallySound, Undisturbed
<1> QED BY <1>1, BalanceKept, PTL

(* An empty pass that is in use, and on which linen was received, shows      *)
(* DELIVERED once the request that emptied it is through.                    *)
THEOREM StatusesKeepUp ==
  ASSUME PrimaryPassOnly
  PROVE  Spec => []StatusKeepsUp
<1>1. TypeOK /\ SequentialInv /\ BalanceInv => StatusKeepsUp
  BY DEF BalanceInv, Settled, ShowsEmpty, Closed, StatusKeepsUp, Undisturbed, Active
<1> QED BY <1>1, BalanceKept, PTL
================================================================================
