----------------------------- MODULE Billing_proofs -----------------------------
(***************************************************************************)
(* Theorems about Billing, for every value of its constants: first about   *)
(* the writers of a gate pass (ReceiptTypes, AppliedOnce,                  *)
(* CorrectionsStand), then about the bills (BillingInv, and from it        *)
(* TypeOK, PassCoversBills and CorrectionsReachBills).                      *)
(***************************************************************************)
EXTENDS BillingInv, SumTheorems, TLAPS

-----------------------------------------------------------------------------
(* Types. *)

PCs == {"idle", "movements", "reopenMovements", "claim", "replace", "reopen",
        "plan", "refresh", "putBack", "release", "sync", "approved"}

LEMMA RequestFields ==
  ASSUME NEW r \in Request
  PROVE  /\ r.pc \in PCs /\ r.pass \in Pass /\ r.pass.items \in Items
         /\ r.adjustment \in Adjustments \cup {None}
         /\ r.delivery \in Deliveries \cup {None}
         /\ r.load \in [Lines -> 0..MaxQty]
         /\ r.edits \in BOOLEAN /\ r.current \in BOOLEAN /\ r.unchanged \in BOOLEAN
  BY DEF Request, Pass, PCs

LEMMA IdleTyped == IdleRequest \in Request /\ FirstPass \in Pass /\ NoLoad \in [Lines -> 0..MaxQty]
<1>1. FirstPass \in Pass
  BY QuantitiesAssumption DEF FirstPass, Pass, PassStatuses
<1>2. NoLoad \in [Lines -> 0..MaxQty]
  BY QuantitiesAssumption DEF NoLoad
<1> QED BY <1>1, <1>2 DEF IdleRequest, Request

LEMMA NoAdjustmentTyped == NoAdjustment \in Adjustment
<1>1. AnyCorrection \in Corrections
  BY QuantitiesAssumption DEF AnyCorrection
<1> QED BY <1>1 DEF NoAdjustment, Adjustment

LEMMA StatusTyped ==
  ASSUME NEW items, NEW docs, NEW marked \in BOOLEAN, NEW st \in PassStatuses
  PROVE  DerivedStatus(items, docs, marked, st) \in PassStatuses
  BY DEF DerivedStatus, PassStatuses

LEMMA RefreshedTyped ==
  ASSUME NEW p \in Pass, NEW docs
  PROVE  Refreshed(p, docs) \in Pass /\ Refreshed(p, docs).items = p.items
<1>1. p.status \in PassStatuses /\ p.marked \in BOOLEAN /\ p.items \in Items
  BY DEF Pass
<1>2. DerivedStatus(p.items, docs, p.marked, p.status) \in PassStatuses
  BY <1>1, StatusTyped
<1> QED BY <1>1, <1>2 DEF Refreshed, Pass

LEMMA CorrectedTyped ==
  ASSUME NEW items \in Items, NEW c \in Corrections
  PROVE  Corrected(items, c) \in Items
<1>1. c.line \in Lines /\ c.qty \in 0..MaxQty
  BY QuantitiesAssumption
<1>2. [items[c.line] EXCEPT !.qty = c.qty] \in [qty: 0..MaxQty, rewashed: BOOLEAN]
  BY <1>1 DEF Items
<1> QED BY <1>1, <1>2 DEF Corrected, Items

(* The ways in which requests move keep them well-typed. *)
LEMMA MoveTyped ==
  ASSUME ReceiptTypes, NEW s \in Slots
  PROVE  /\ request[s] \in Request
         /\ \A pc \in PCs : [request EXCEPT ![s].pc = pc] \in [Slots -> Request]
         /\ [request EXCEPT ![s] = IdleRequest] \in [Slots -> Request]
         /\ \A new \in Pass : Outdated(request, new) \in [Slots -> Request]
         /\ \A new \in Pass, req \in Request :
              WritePass(s, new, req) => pass' \in Pass /\ request' \in [Slots -> Request]
         /\ \A req \in Request : Begin(s, req) => request' \in [Slots -> Request]
         /\ Synced(s) \in Request
<1>1. request \in [Slots -> Request] /\ request[s] \in Request
  BY DEF ReceiptTypes
<1>2. \A r \in Request : \A pc \in PCs : [r EXCEPT !.pc = pc] \in Request
  BY DEF Request, PCs
<1>3. \A r \in Request : \A x, y \in BOOLEAN :
        [r EXCEPT !.current = x, !.unchanged = y] \in Request
  BY DEF Request
<1>4. \A r \in Request : r.current \in BOOLEAN /\ r.unchanged \in BOOLEAN
  BY DEF Request
<1>5. \A pc \in PCs : [request EXCEPT ![s].pc = pc] \in [Slots -> Request]
  BY <1>1, <1>2
<1>6. [request EXCEPT ![s] = IdleRequest] \in [Slots -> Request]
  BY <1>1, IdleTyped
<1>7. \A new \in Pass : Outdated(request, new) \in [Slots -> Request]
  <2> SUFFICES ASSUME NEW new \in Pass, NEW t \in Slots
               PROVE  [request[t] EXCEPT !.current = @ /\ new = pass,
                                         !.unchanged = @ /\ new.items = pass.items] \in Request
    BY DEF Outdated
  <2> DEFINE x == request[t].current /\ new = pass
             y == request[t].unchanged /\ new.items = pass.items
  <2>1. request[t] \in Request /\ x \in BOOLEAN /\ y \in BOOLEAN
    BY <1>1, <1>4
  <2>2. [request[t] EXCEPT !.current = x, !.unchanged = y] \in Request
    BY <2>1, <1>3
  <2> QED BY <2>2
<1>8. \A new \in Pass, req \in Request :
        WritePass(s, new, req) => pass' \in Pass /\ request' \in [Slots -> Request]
  <2> SUFFICES ASSUME NEW new \in Pass, NEW req \in Request, WritePass(s, new, req)
               PROVE  pass' \in Pass /\ request' \in [Slots -> Request]
    OBVIOUS
  <2> DEFINE copy(t) == [request[t] EXCEPT !.current = FALSE,
                                           !.unchanged = @ /\ new.items = pass.items]
  <2>1. ASSUME NEW t \in Slots PROVE copy(t) \in Request
    <3> DEFINE y == request[t].unchanged /\ new.items = pass.items
    <3>1. request[t] \in Request /\ FALSE \in BOOLEAN /\ y \in BOOLEAN
      BY <1>1, <1>4
    <3>2. [request[t] EXCEPT !.current = FALSE, !.unchanged = y] \in Request
      BY <3>1, <1>3
    <3> QED BY <3>2
  <2>2. pass' = new /\ request' = [t \in Slots |-> IF t = s THEN req ELSE copy(t)]
    BY DEF WritePass
  <2> HIDE DEF copy
  <2> QED BY <2>1, <2>2
<1>9. \A req \in Request : Begin(s, req) => request' \in [Slots -> Request]
  <2> SUFFICES ASSUME NEW req \in Request, Begin(s, req)
               PROVE  request' \in [Slots -> Request]
    OBVIOUS
  <2> DEFINE x == req.adjustment # None
             y == req.adjustment = None
  <2>1. x \in BOOLEAN /\ y \in BOOLEAN
    OBVIOUS
  <2>2. [req EXCEPT !.current = x, !.unchanged = y] \in Request
    BY <2>1, <1>3
  <2> QED BY <2>2, <1>1 DEF Begin
<1>10. Synced(s) \in Request
  <2>1. [request[s] EXCEPT !.pc = "approved", !.pass = FirstPass] \in Request
    BY <1>1, IdleTyped DEF Request
  <2> QED BY <2>1, IdleTyped DEF Synced
<1> QED BY <1>1, <1>5, <1>6, <1>7, <1>8, <1>9, <1>10

LEMMA CountTyped ==
  ASSUME started \in 0..MaxRequests, Count
  PROVE  started' \in 0..MaxRequests
  BY QuantitiesAssumption DEF Count

(* What the bills do of the state of the receipts. *)
LEMMA BillSteps ==
  ASSUME BillSide
  PROVE  /\ UNCHANGED <<pass, deliveries, adjustments, latest, applied>>
         /\ started' = started \/ Count
         /\ \/ request' = request
            \/ \E s \in Slots : /\ request[s].pc = "sync"
                                /\ request' = [request EXCEPT ![s] = Synced(s)]
<1> USE DEF Take, Look, WriteBill, SetBill, receiptVars
<1>1. ASSUME NEW c \in Cashiers, NEW b \in Bills, NEW charges \in Entries,
             NEW by \in BOOLEAN, NEW ds \in SUBSET Deliveries, NEW instant \in BOOLEAN,
             StartBill(c, b, by, ds, charges, instant)
      PROVE  /\ UNCHANGED <<pass, deliveries, adjustments, latest, applied>>
             /\ Count /\ request' = request
  BY <1>1 DEF StartBill
<1>2. ASSUME NEW c \in Cashiers, NEW b \in Bills, NEW charges \in Entries,
             NEW covered \in BOOLEAN, StartBillEdit(c, b, charges, covered)
      PROVE  /\ UNCHANGED <<pass, deliveries, adjustments, latest, applied>>
             /\ Count /\ request' = request
  BY <1>2 DEF StartBillEdit
<1>3. ASSUME NEW c \in Cashiers,
             ReadBilled(c) \/ InsertBill(c) \/ CheckCeiling(c) \/ ReplaceBill(c) \/ CashierCrash(c)
      PROVE  /\ UNCHANGED <<pass, deliveries, adjustments, latest, applied>>
             /\ started' = started /\ request' = request
  BY <1>3 DEF ReadBilled, InsertBill, CheckCeiling, ReplaceBill, CashierCrash
<1>4. ASSUME NEW b \in Bills,
             \/ PayBill(b) \/ CancelBill(b) \/ ReversePayment(b)
             \/ \E st \in {"DRAFT", "PAID"} : SetBillStatus(b, st)
      PROVE  /\ UNCHANGED <<pass, deliveries, adjustments, latest, applied>>
             /\ Count /\ request' = request
  BY <1>4 DEF PayBill, CancelBill, ReversePayment, SetBillStatus
<1>5. ASSUME NEW s \in Slots,
             ReadLinked(s) \/ PropagationFails(s) \/ \E b \in Bills : WriteLinked(s, b)
      PROVE  /\ UNCHANGED <<pass, deliveries, adjustments, latest, applied>>
             /\ started' = started
             /\ \/ request' = request
                \/ /\ request[s].pc = "sync"
                   /\ request' = [request EXCEPT ![s] = Synced(s)]
  <2>1. CASE ReadLinked(s)
    BY <2>1 DEF ReadLinked
  <2>2. CASE PropagationFails(s)
    BY <2>2 DEF PropagationFails
  <2>3. ASSUME NEW b \in Bills, WriteLinked(s, b)
        PROVE  /\ UNCHANGED <<pass, deliveries, adjustments, latest, applied>>
               /\ started' = started
               /\ \/ request' = request
                  \/ /\ request[s].pc = "sync"
                     /\ request' = [request EXCEPT ![s] = Synced(s)]
    BY <2>3 DEF WriteLinked
  <2> QED BY <1>5, <2>1, <2>2, <2>3
<1> QED BY <1>1, <1>2, <1>3, <1>4, <1>5 DEF BillSide

LEMMA BeginTyped ==
  ASSUME ReceiptTypes, NEW s \in Slots, NEW req \in Request, Begin(s, req)
  PROVE  ReceiptTypes'
<1>1. request' \in [Slots -> Request] /\ started' \in 0..MaxRequests
  BY MoveTyped, CountTyped DEF Begin, ReceiptTypes
<1> QED BY <1>1 DEF Begin, ReceiptTypes

LEMMA GoesTyped ==
  ASSUME ReceiptTypes, NEW s \in Slots, NEW pc \in PCs, Goto(s, pc) \/ Finish(s)
  PROVE  request' \in [Slots -> Request]
  BY MoveTyped DEF Goto, Finish

LEMMA TypedEdits ==
  ASSUME ReceiptTypes, NEW s \in Slots
  PROVE  /\ \A paper \in Papers \cup {None} : StartEdit(s, paper) => ReceiptTypes'
         /\ CountMovements(s) => ReceiptTypes'
         /\ ReplaceEdited(s) => ReceiptTypes'
<1> USE MoveTyped, IdleTyped DEF PCs
<1>1. ASSUME NEW paper \in Papers \cup {None}, StartEdit(s, paper) PROVE ReceiptTypes'
  <2>1. pass \in Pass /\ (paper # None => [pass EXCEPT !.items = paper] \in Pass)
    BY QuantitiesAssumption DEF ReceiptTypes, Pass
  <2>2. [IdleRequest EXCEPT !.pc = "replace", !.pass = pass] \in Request
    BY <2>1 DEF Request
  <2>3. paper # None => [IdleRequest EXCEPT !.pc = "movements", !.edits = TRUE,
                              !.pass = [pass EXCEPT !.items = paper]] \in Request
    BY <2>1 DEF Request
  <2> QED BY <1>1, <2>2, <2>3, BeginTyped DEF StartEdit
<1>2. ASSUME CountMovements(s) PROVE ReceiptTypes'
  <2>1. request' \in [Slots -> Request]
    BY <1>2, GoesTyped DEF CountMovements
  <2> QED BY <1>2, <2>1 DEF CountMovements, ReceiptTypes
<1>3. ASSUME ReplaceEdited(s) PROVE ReceiptTypes'
  <2> DEFINE req == request[s]
             next == IF req.edits
                     THEN [req EXCEPT !.pc = "sync", !.current = FALSE, !.unchanged = FALSE]
                     ELSE IdleRequest
  <2>1. req \in Request /\ req.pass \in Pass /\ req.pass.items \in Items
    BY RequestFields
  <2>2. [req EXCEPT !.pc = "sync", !.current = FALSE, !.unchanged = FALSE] \in Request
    BY <2>1 DEF Request
  <2>3. next \in Request /\ WritePass(s, req.pass, next)
    BY <1>3, <2>2 DEF ReplaceEdited
  <2> HIDE DEF next
  <2>4. pass' \in Pass /\ request' \in [Slots -> Request]
    BY <2>1, <2>3
  <2>5. latest' \in Items
    BY <1>3, <2>1 DEF ReplaceEdited, ReceiptTypes
  <2> QED BY <1>3, <2>4, <2>5 DEF ReplaceEdited, ReceiptTypes
<1> QED BY <1>1, <1>2, <1>3

LEMMA TypedCatchUps ==
  ASSUME ReceiptTypes, NEW s \in Slots
  PROVE  /\ \A d \in Deliveries, load \in Loads : StartCatchUp(s, d, load) => ReceiptTypes'
         /\ RecordCatchUp(s) => ReceiptTypes'
         /\ RefreshAndReread(s) => ReceiptTypes'
         /\ PutPassBack(s) => ReceiptTypes'
<1> USE MoveTyped, IdleTyped DEF PCs
<1>1. ASSUME NEW d \in Deliveries, NEW load \in Loads, StartCatchUp(s, d, load) PROVE ReceiptTypes'
  <2>1. load \in [Lines -> 0..MaxQty] /\ pass \in Pass
    BY QuantitiesAssumption DEF ReceiptTypes
  <2>2. [IdleRequest EXCEPT !.pc = "plan", !.delivery = d, !.load = load,
                            !.pass = pass] \in Request
    BY <2>1 DEF Request
  <2> QED BY <1>1, <2>2, BeginTyped DEF StartCatchUp
<1>2. ASSUME RecordCatchUp(s) PROVE ReceiptTypes'
  <2> DEFINE req == request[s]
             new == [status |-> "DELIVERED", load |-> req.load]
  <2>1. new \in Delivery
    BY RequestFields DEF Delivery
  <2>2. [deliveries EXCEPT ![req.delivery] = new] \in [Deliveries -> Delivery]
    BY <2>1 DEF ReceiptTypes
  <2>3. deliveries' \in [Deliveries -> Delivery]
    BY <1>2, <2>2 DEF RecordCatchUp, ReceiptTypes
  <2>4. request' \in [Slots -> Request]
    BY <1>2, GoesTyped DEF RecordCatchUp
  <2> QED BY <1>2, <2>3, <2>4 DEF RecordCatchUp, ReceiptTypes
<1>3. ASSUME RefreshAndReread(s) PROVE ReceiptTypes'
  <2> DEFINE new == Refreshed(pass, deliveries)
             req == request[s]
  <2>1. new \in Pass
    BY RefreshedTyped DEF ReceiptTypes
  <2>2. Outdated(request, new) \in [Slots -> Request]
    BY <2>1
  <2>3. req \in Request /\ req.pass \in Pass /\ new.status \in PassStatuses
    BY <2>1, RequestFields DEF Pass
  <2>4. [req.pass EXCEPT !.status = new.status] \in Pass
    BY <2>3 DEF Pass
  <2>5. [req EXCEPT !.pc = "putBack", !.pass = [req.pass EXCEPT !.status = new.status]] \in Request
    BY <2>3, <2>4 DEF Request
  <2>6. request' = [Outdated(request, new) EXCEPT
             ![s] = [req EXCEPT !.pc = "putBack",
                                !.pass = [req.pass EXCEPT !.status = new.status]]]
    BY <1>3, <2>3 DEF RefreshAndReread, Request
  <2>7. request' \in [Slots -> Request]
    BY <2>2, <2>5, <2>6
  <2> QED BY <1>3, <2>1, <2>7 DEF RefreshAndReread, ReceiptTypes
<1>4. ASSUME PutPassBack(s) PROVE ReceiptTypes'
  <2>1. request[s].pass \in Pass /\ request[s].pass.items \in Items
    BY RequestFields
  <2>2. pass' \in Pass /\ request' \in [Slots -> Request]
    BY <1>4, <2>1 DEF PutPassBack
  <2>3. latest' \in Items
    BY <1>4, <2>1 DEF PutPassBack, ReceiptTypes
  <2> QED BY <1>4, <2>2, <2>3 DEF PutPassBack, ReceiptTypes
<1> QED BY <1>1, <1>2, <1>3, <1>4

LEMMA TypedReopenings ==
  ASSUME ReceiptTypes, NEW s \in Slots
  PROVE  /\ StartReopen(s) => ReceiptTypes'
         /\ CountBeforeReopening(s) => ReceiptTypes'
         /\ Reopen(s) => ReceiptTypes'
<1> USE MoveTyped, IdleTyped DEF PCs
<1>1. ASSUME StartReopen(s) PROVE ReceiptTypes'
  <2>1. [pass EXCEPT !.marked = FALSE, !.status = "RECEIVED"] \in Pass
    BY DEF ReceiptTypes, Pass, PassStatuses
  <2>2. [IdleRequest EXCEPT !.pc = "reopenMovements",
           !.pass = [pass EXCEPT !.marked = FALSE, !.status = "RECEIVED"]] \in Request
    BY <2>1 DEF Request
  <2> QED BY <1>1, <2>2, BeginTyped DEF StartReopen
<1>2. ASSUME CountBeforeReopening(s) PROVE ReceiptTypes'
  <2>1. request' \in [Slots -> Request]
    BY <1>2, GoesTyped DEF CountBeforeReopening
  <2> QED BY <1>2, <2>1 DEF CountBeforeReopening, ReceiptTypes
<1>3. ASSUME Reopen(s) PROVE ReceiptTypes'
  <2>1. request[s].pass \in Pass /\ request[s].pass.items \in Items
    BY RequestFields
  <2>2. pass' \in Pass /\ request' \in [Slots -> Request]
    BY <1>3, <2>1 DEF Reopen
  <2>3. latest' \in Items
    BY <1>3, <2>1 DEF Reopen, ReceiptTypes
  <2> QED BY <1>3, <2>2, <2>3 DEF Reopen, ReceiptTypes
<1> QED BY <1>1, <1>2, <1>3

LEMMA StatusSetTyped ==
  ASSUME adjustments \in [Adjustments -> Adjustment], NEW a,
         NEW st \in {"NONE", "REQUESTED", "APPROVING", "APPROVED", "REJECTED"}
  PROVE  [adjustments EXCEPT ![a].status = st] \in [Adjustments -> Adjustment]
<1>1. a \in Adjustments => [adjustments[a] EXCEPT !.status = st] \in Adjustment
  BY DEF Adjustment
<1> QED BY <1>1

LEMMA TypedApprovals ==
  ASSUME ReceiptTypes, NEW s \in Slots
  PROVE  /\ \A a \in Adjustments : StartApproval(s, a) => ReceiptTypes'
         /\ LoadMovements(s) => ReceiptTypes'
         /\ ClaimAdjustment(s) => ReceiptTypes'
         /\ ReplaceCorrected(s) => ReceiptTypes'
         /\ ReleaseAdjustment(s) => ReceiptTypes'
         /\ MarkApproved(s) => ReceiptTypes'
         /\ Crash(s) => ReceiptTypes'
<1> USE IdleTyped DEF PCs
<1>1. ASSUME NEW a \in Adjustments, StartApproval(s, a) PROVE ReceiptTypes'
  <2>1. adjustments[a].change \in Corrections /\ pass.items \in Items
    BY DEF ReceiptTypes, Adjustment, Pass
  <2>2. Corrected(pass.items, adjustments[a].change) \in Items
    BY <2>1, CorrectedTyped
  <2>3. [pass EXCEPT !.items = Corrected(@, adjustments[a].change)] \in Pass
    BY <2>2 DEF ReceiptTypes, Pass
  <2>4. [IdleRequest EXCEPT !.pc = "movements", !.adjustment = a,
           !.pass = [pass EXCEPT !.items = Corrected(@, adjustments[a].change)]] \in Request
    BY <2>3 DEF Request
  <2> QED BY <1>1, <2>4, BeginTyped DEF StartApproval
<1>2. ASSUME LoadMovements(s) PROVE ReceiptTypes'
  <2> DEFINE req == request[s]
             st  == DerivedStatus(req.pass.items, deliveries, FALSE, req.pass.status)
  <2>1. req \in Request /\ req.pass \in Pass /\ req.pass.status \in PassStatuses
    BY RequestFields, MoveTyped DEF Pass
  <2>2. st \in PassStatuses
    BY <2>1, StatusTyped
  <2>3. [req.pass EXCEPT !.status = st] \in Pass
    BY <2>1, <2>2 DEF Pass
  <2>4. [req EXCEPT !.pc = "claim", !.pass = [req.pass EXCEPT !.status = st]] \in Request
    BY <2>1, <2>3 DEF Request
  <2>5. request' = [request EXCEPT
             ![s] = [req EXCEPT !.pc = "claim", !.pass = [req.pass EXCEPT !.status = st]]]
    BY <1>2, <2>1 DEF LoadMovements, Request
  <2>6. request' \in [Slots -> Request]
    BY <2>4, <2>5 DEF ReceiptTypes
  <2> QED BY <1>2, <2>6 DEF LoadMovements, ReceiptTypes
<1>3. ASSUME ClaimAdjustment(s) PROVE ReceiptTypes'
  <2>1. request' \in [Slots -> Request]
    BY <1>3, GoesTyped DEF ClaimAdjustment
  <2>2. adjustments' \in [Adjustments -> Adjustment]
    <3> DEFINE new == [adjustments EXCEPT ![request[s].adjustment].status = "APPROVING"]
    <3>1. new \in [Adjustments -> Adjustment]
      BY StatusSetTyped DEF ReceiptTypes
    <3>2. adjustments' = adjustments \/ adjustments' = new
      BY <1>3 DEF ClaimAdjustment
    <3> QED BY <3>1, <3>2 DEF ReceiptTypes
  <2> QED BY <1>3, <2>1, <2>2 DEF ClaimAdjustment, ReceiptTypes
<1>4. ASSUME ReplaceCorrected(s) PROVE ReceiptTypes'
  <2> DEFINE req  == request[s]
             a    == req.adjustment
             next == [req EXCEPT !.pc = "sync", !.current = FALSE, !.unchanged = FALSE]
  <2>1. req \in Request /\ req.pass \in Pass /\ a \in Adjustments
    BY <1>4, RequestFields, MoveTyped DEF ReplaceCorrected
  <2>2. next \in Request
    BY <2>1 DEF Request
  <2> HIDE DEF next
  <2>3. pass' \in Pass /\ request' \in [Slots -> Request]
    <3>1. CASE Unmodified(req)
      <4>1. WritePass(s, req.pass, next)
        BY <1>4, <3>1 DEF ReplaceCorrected, next
      <4> QED BY <2>1, <2>2, <4>1, MoveTyped
    <3>2. CASE ~Unmodified(req)
      BY <1>4, <3>2, GoesTyped DEF ReplaceCorrected, ReceiptTypes
    <3> QED BY <3>1, <3>2
  <2>4. Corrected(latest, adjustments[a].change) \in Items
    BY <2>1, CorrectedTyped DEF ReceiptTypes, Adjustment
  <2>5. latest' \in Items /\ applied' \in [Adjustments -> Nat]
    BY <1>4, <2>1, <2>4 DEF ReplaceCorrected, ReceiptTypes
  <2> QED BY <1>4, <2>3, <2>5 DEF ReplaceCorrected, ReceiptTypes
<1>5. ASSUME ReleaseAdjustment(s) \/ MarkApproved(s) PROVE ReceiptTypes'
  <2>1. request' \in [Slots -> Request]
    BY <1>5, GoesTyped DEF ReleaseAdjustment, MarkApproved, Settle
  <2>2. adjustments' \in [Adjustments -> Adjustment]
    <3> DEFINE new(st) == [adjustments EXCEPT ![request[s].adjustment].status = st]
    <3>1. new("REQUESTED") \in [Adjustments -> Adjustment]
          /\ new("APPROVED") \in [Adjustments -> Adjustment]
      BY StatusSetTyped DEF ReceiptTypes
    <3>2. adjustments' = adjustments \/ adjustments' = new("REQUESTED")
          \/ adjustments' = new("APPROVED")
      BY <1>5 DEF ReleaseAdjustment, MarkApproved, Settle
    <3> QED BY <3>1, <3>2 DEF ReceiptTypes
  <2> QED BY <1>5, <2>1, <2>2 DEF ReleaseAdjustment, MarkApproved, Settle, ReceiptTypes
<1>6. ASSUME Crash(s) PROVE ReceiptTypes'
  <2>1. request' \in [Slots -> Request]
    BY <1>6, GoesTyped DEF Crash
  <2> QED BY <1>6, <2>1 DEF Crash, ReceiptTypes
<1> QED BY <1>1, <1>2, <1>3, <1>4, <1>5, <1>6

LEMMA TypedOthers ==
  ASSUME ReceiptTypes
  PROVE  /\ \A s \in Slots \cup {None}, a \in Adjustments, c \in Corrections :
              RequestAdjustment(s, a, c) => ReceiptTypes'
         /\ \A a \in Adjustments : RejectAdjustment(a) => ReceiptTypes'
         /\ \A d \in Deliveries, load \in Loads : Deliver(d, load) => ReceiptTypes'
         /\ \A d \in Deliveries : CancelDelivery(d) => ReceiptTypes'
         /\ CancelPass => ReceiptTypes'
<1>b. \A new \in Pass : Outdated(request, new) \in [Slots -> Request]
  <2>1. CASE Slots = {}
    BY <2>1 DEF Outdated
  <2>2. CASE Slots # {}
    BY <2>2, MoveTyped
  <2> QED BY <2>1, <2>2
<1>1. ASSUME NEW s \in Slots \cup {None}, NEW a \in Adjustments, NEW c \in Corrections,
             RequestAdjustment(s, a, c)
      PROVE  ReceiptTypes'
  <2>1. [status |-> "REQUESTED", change |-> c, by |-> s] \in Adjustment
    BY DEF Adjustment
  <2>2. started' \in 0..MaxRequests /\ adjustments' \in [Adjustments -> Adjustment]
    BY <1>1, <2>1, CountTyped DEF RequestAdjustment, ReceiptTypes
  <2> QED BY <1>1, <2>2 DEF RequestAdjustment, ReceiptTypes
<1>2. ASSUME NEW a \in Adjustments, RejectAdjustment(a) PROVE ReceiptTypes'
  <2>1. started' \in 0..MaxRequests /\ adjustments' \in [Adjustments -> Adjustment]
    BY <1>2, CountTyped DEF RejectAdjustment, ReceiptTypes, Adjustment
  <2> QED BY <1>2, <2>1 DEF RejectAdjustment, ReceiptTypes
<1>3. ASSUME NEW docs \in [Deliveries -> Delivery], MoveLinen(docs) PROVE ReceiptTypes'
  <2>1. Refreshed(pass, docs) \in Pass
    BY RefreshedTyped DEF ReceiptTypes
  <2>2. started' \in 0..MaxRequests /\ request' \in [Slots -> Request]
    BY <1>b, <1>3, <2>1, CountTyped DEF MoveLinen, ReceiptTypes
  <2> QED BY <1>3, <2>1, <2>2 DEF MoveLinen, ReceiptTypes
<1>4. ASSUME NEW d \in Deliveries, NEW load \in Loads, Deliver(d, load) PROVE ReceiptTypes'
  <2>1. load \in [Lines -> 0..MaxQty]
    BY QuantitiesAssumption
  <2>2. [deliveries EXCEPT ![d] = [status |-> "DELIVERED", load |-> load]]
          \in [Deliveries -> Delivery]
    BY <2>1 DEF ReceiptTypes, Delivery
  <2> QED BY <1>3, <1>4, <2>2 DEF Deliver
<1>5. ASSUME NEW d \in Deliveries, CancelDelivery(d) PROVE ReceiptTypes'
  <2>1. [deliveries EXCEPT ![d].status = "CANCELLED"] \in [Deliveries -> Delivery]
    BY DEF ReceiptTypes, Delivery
  <2> QED BY <1>3, <1>5, <2>1 DEF CancelDelivery
<1>6. ASSUME CancelPass PROVE ReceiptTypes'
  <2>1. [pass EXCEPT !.status = "CANCELLED"] \in Pass
    BY DEF ReceiptTypes, Pass, PassStatuses
  <2>2. started' \in 0..MaxRequests /\ request' \in [Slots -> Request]
    BY <1>b, <1>6, <2>1, CountTyped DEF CancelPass, ReceiptTypes
  <2> QED BY <1>6, <2>1, <2>2 DEF CancelPass, ReceiptTypes
<1> QED BY <1>1, <1>2, <1>4, <1>5, <1>6

LEMMA TypedInit ==
  ASSUME Init
  PROVE  ReceiptTypes
<1>1. pass \in Pass
  BY IdleTyped DEF Init, ReceiptInit, Pass, PassStatuses
<1>2. NoDelivery \in Delivery
  BY IdleTyped DEF NoDelivery, Delivery
<1> QED BY <1>1, <1>2, IdleTyped, NoAdjustmentTyped, QuantitiesAssumption
        DEF Init, ReceiptInit, ReceiptTypes

LEMMA TypedStep ==
  ASSUME ReceiptTypes, [Next]_vars
  PROVE  ReceiptTypes'
<1>1. ASSUME ReceiptStep PROVE ReceiptTypes'
  BY <1>1, TypedEdits, TypedCatchUps, TypedReopenings, TypedApprovals, TypedOthers
     DEF ReceiptStep
<1>2. ASSUME BillSide PROVE ReceiptTypes'
  <2>1. started' \in 0..MaxRequests
    BY <1>2, BillSteps, CountTyped DEF ReceiptTypes
  <2>2. request' \in [Slots -> Request]
    BY <1>2, BillSteps, MoveTyped DEF ReceiptTypes
  <2> QED BY <1>2, <2>1, <2>2, BillSteps DEF ReceiptTypes
<1>3. ASSUME UNCHANGED vars PROVE ReceiptTypes'
  BY <1>3 DEF vars, receiptVars, ReceiptTypes
<1> QED BY <1>1, <1>2, <1>3 DEF Next, ReceiptSide
-----------------------------------------------------------------------------
(* The inductive invariant. *)

(* A request of an approval, and only it, has an adjustment; the adjustment  *)
(* was asked for.                                                            *)
ShapeOf(r) ==
  /\ r.pc \in {"claim", "release", "approved"} => r.adjustment # None
  /\ r.pc = "movements" => (r.edits <=> r.adjustment = None)
  /\ r.pc = "sync" => ~r.current
  /\ r.pc \in {"reopenMovements", "plan", "refresh", "putBack", "reopen"} => ~r.edits
  /\ r.adjustment # None =>
       /\ ~r.edits
       /\ r.pc \in {"movements", "claim", "replace", "release", "sync", "approved"}
       /\ adjustments[r.adjustment].status # "NONE"

(* What is known of the items a request has read, while it is up to date. *)
ItemsOf(r) ==
  /\ r.current => /\ r.adjustment # None
                  /\ r.pass.items = Corrected(pass.items, adjustments[r.adjustment].change)
  /\ r.unchanged /\ r.adjustment = None /\ ~r.edits => r.pass.items = pass.items

(* A request between its claim and its end, that has or has not replaced the *)
(* gate pass.                                                                *)
Before(r) == r.adjustment # None /\ r.pc \in {"replace", "release"}
After(r)  == r.adjustment # None /\ r.pc \in {"sync", "approved"}

ClaimOf(r) ==
  /\ Before(r) => /\ adjustments[r.adjustment].status = "APPROVING"
                  /\ applied[r.adjustment] = 0
  /\ After(r)  => /\ adjustments[r.adjustment].status = "APPROVING"
                  /\ applied[r.adjustment] = 1

Shapes == \A s \in Slots : ShapeOf(request[s])

ItemsRead == \A s \in Slots : ItemsOf(request[s])

(* Who has claimed an adjustment is alone with it. *)
Claims ==
  /\ \A s \in Slots : ClaimOf(request[s])
  /\ \A s, t \in Slots :
       /\ Before(request[s]) \/ After(request[s])
       /\ Before(request[t]) \/ After(request[t])
       /\ request[s].adjustment = request[t].adjustment
       => s = t

ApprovalInv == Shapes /\ ItemsRead /\ Claims /\ AppliedOnce /\ CorrectionsStand

(* What a step of somebody else leaves of a request. *)
Same(t) ==
  /\ request'[t].pc = request[t].pc
  /\ request'[t].adjustment = request[t].adjustment
  /\ request'[t].edits = request[t].edits
  /\ request'[t].pass = request[t].pass
  /\ request'[t].current => request[t].current /\ pass'.items = pass.items
  /\ request'[t].unchanged => request[t].unchanged /\ pass'.items = pass.items

(* An adjustment once asked for keeps what it asks. *)
Lasting ==
  \A a \in Adjustments :
    adjustments[a].status # "NONE" => /\ adjustments'[a].status # "NONE"
                                      /\ adjustments'[a].change = adjustments[a].change

LEMMA SameKeeps ==
  ASSUME ReceiptTypes, NEW t \in Slots, Same(t), Lasting,
         ShapeOf(request[t]), ItemsOf(request[t])
  PROVE  ShapeOf(request[t])' /\ ItemsOf(request[t])'
<1>1. request[t].adjustment \in Adjustments \cup {None}
  BY MoveTyped, RequestFields
<1>2. ShapeOf(request[t])'
  BY <1>1 DEF ShapeOf, Same, Lasting
<1>3. ASSUME request'[t].current
      PROVE  /\ request'[t].adjustment # None
             /\ request'[t].pass.items
                  = Corrected(pass'.items, adjustments'[request'[t].adjustment].change)
  <2> DEFINE a == request[t].adjustment
  <2>1. a # None /\ request[t].pass.items = Corrected(pass.items, adjustments[a].change)
        /\ pass'.items = pass.items
    BY <1>3 DEF ItemsOf, Same
  <2>2. adjustments'[a].change = adjustments[a].change
    BY <1>1, <2>1 DEF ShapeOf, Lasting
  <2> QED BY <2>1, <2>2 DEF Same
<1>4. ItemsOf(request[t])'
  BY <1>3 DEF ItemsOf, Same
<1> QED BY <1>2, <1>4

(* A request that moves on while all else stays. *)
LEMMA QuietStep ==
  ASSUME ReceiptTypes, ApprovalInv, NEW s \in Slots, NEW r,
         UNCHANGED <<pass, adjustments, latest, applied>>,
         request' = [request EXCEPT ![s] = r],
         ShapeOf(r), ItemsOf(r),
         \/ ~Before(r) /\ ~After(r)
         \/ /\ r.adjustment = request[s].adjustment
            /\ Before(r) => Before(request[s])
            /\ After(r) => After(request[s])
  PROVE  ApprovalInv'
<1>1. request'[s] = r /\ \A t \in Slots \ {s} : request'[t] = request[t]
  BY DEF ReceiptTypes
<1>2. Shapes'
  BY <1>1 DEF ApprovalInv, Shapes, ShapeOf
<1>3. ItemsRead'
  BY <1>1 DEF ApprovalInv, ItemsRead, ItemsOf
<1>4. Claims'
  BY <1>1 DEF ApprovalInv, Claims, ClaimOf, Before, After
<1>5. AppliedOnce' /\ CorrectionsStand'
  BY DEF ApprovalInv, AppliedOnce, CorrectionsStand
<1> QED BY <1>2, <1>3, <1>4, <1>5 DEF ApprovalInv

(* A step that writes the gate pass and leaves the adjustments alone. *)
LEMMA PassStep ==
  ASSUME ReceiptTypes, ApprovalInv, NEW R \in SUBSET Slots,
         UNCHANGED <<adjustments, applied>>,
         \A t \in Slots \ R : Same(t),
         \A s \in R : /\ ShapeOf(request[s])' /\ ItemsOf(request[s])'
                      /\ ~Before(request'[s]) /\ ~After(request'[s]),
         pass'.items = latest'
  PROVE  ApprovalInv'
<1>1. \A t \in Slots \ R : ShapeOf(request[t])' /\ ItemsOf(request[t])'
  BY SameKeeps DEF Lasting, ApprovalInv, Shapes, ItemsRead
<1>2. Shapes' /\ ItemsRead'
  BY <1>1 DEF Shapes, ItemsRead
<1>3. Claims'
  BY DEF ApprovalInv, Claims, ClaimOf, Before, After, Same
<1>4. AppliedOnce' /\ CorrectionsStand'
  BY DEF ApprovalInv, AppliedOnce, CorrectionsStand
<1> QED BY <1>2, <1>3, <1>4 DEF ApprovalInv

(* The gate pass is written by the request of `s`, or by nobody's.            *)
LEMMA WriterStep ==
  ASSUME ReceiptTypes, ApprovalInv, NEW s \in Slots,
         UNCHANGED <<adjustments, applied>>,
         \A t \in Slots \ {s} : Same(t),
         ShapeOf(request[s])', ItemsOf(request[s])',
         ~Before(request'[s]), ~After(request'[s]),
         pass'.items = latest'
  PROVE  ApprovalInv'
<1>1. \A r \in {s} : /\ ShapeOf(request[r])' /\ ItemsOf(request[r])'
                     /\ ~Before(request'[r]) /\ ~After(request'[r])
  OBVIOUS
<1>2. {s} \in SUBSET Slots
  OBVIOUS
<1> QED BY <1>1, <1>2, PassStep

LEMMA OthersStep ==
  ASSUME ReceiptTypes, ApprovalInv,
         UNCHANGED <<adjustments, applied>>,
         \A t \in Slots : Same(t),
         pass'.items = latest'
  PROVE  ApprovalInv'
<1>1. \A r \in {} : /\ ShapeOf(request[r])' /\ ItemsOf(request[r])'
                    /\ ~Before(request'[r]) /\ ~After(request'[r])
  OBVIOUS
<1>2. {} \in SUBSET Slots /\ \A t \in Slots \ {} : Same(t)
  OBVIOUS
<1> QED BY <1>1, <1>2, PassStep

LEMMA IdleFacts == /\ ShapeOf(IdleRequest) /\ ItemsOf(IdleRequest)
                   /\ ~Before(IdleRequest) /\ ~After(IdleRequest)
  BY DEF IdleRequest, ShapeOf, ItemsOf, Before, After

LEMMA WritePassFacts ==
  ASSUME ReceiptTypes, NEW s \in Slots, NEW new \in Pass, NEW req \in Request, WritePass(s, new, req)
  PROVE  request'[s] = req /\ pass' = new /\ \A t \in Slots \ {s} : Same(t)
<1>1. request'[s] = req /\ pass' = new
  BY DEF WritePass
<1>2. ASSUME NEW t \in Slots \ {s} PROVE Same(t)
  <2>1. request'[t] = [request[t] EXCEPT !.current = FALSE,
                                         !.unchanged = @ /\ new.items = pass.items]
    BY <1>2 DEF WritePass
  <2>2. request[t] \in Request
    BY DEF ReceiptTypes
  <2> QED BY <1>1, <2>1, <2>2 DEF Same, Request
<1> QED BY <1>1, <1>2

LEMMA OutdatedFacts ==
  ASSUME ReceiptTypes, NEW new \in Pass, pass' = new, NEW t \in Slots,
         request'[t] = Outdated(request, new)[t]
  PROVE  Same(t)
<1>1. request'[t] = [request[t] EXCEPT !.current = @ /\ new = pass,
                                       !.unchanged = @ /\ new.items = pass.items]
  BY DEF Outdated
<1>2. request[t] \in Request
  BY DEF ReceiptTypes
<1> QED BY <1>1, <1>2 DEF Same, Request
-----------------------------------------------------------------------------
(* The steps. *)

LEMMA BeginStep ==
  ASSUME ReceiptTypes, ApprovalInv, NEW s \in Slots, NEW req \in Request, Begin(s, req),
         ShapeOf(req), ~Before(req), ~After(req),
         req.adjustment = None => req.edits \/ req.pass.items = pass.items,
         req.adjustment # None =>
           req.pass.items = Corrected(pass.items, adjustments[req.adjustment].change)
  PROVE  ApprovalInv'
<1> DEFINE r == [req EXCEPT !.current = (req.adjustment # None),
                            !.unchanged = (req.adjustment = None)]
<1>1. /\ r.pc = req.pc /\ r.adjustment = req.adjustment /\ r.edits = req.edits
      /\ r.pass = req.pass
      /\ r.current = (req.adjustment # None) /\ r.unchanged = (req.adjustment = None)
  BY DEF Request
<1>2. /\ request' = [request EXCEPT ![s] = r]
      /\ UNCHANGED <<pass, adjustments, latest, applied>>
  BY DEF Begin
<1> HIDE DEF r
<1>3. ShapeOf(r) /\ ~Before(r) /\ ~After(r)
  BY <1>1 DEF ShapeOf, Before, After
<1>4. ItemsOf(r)
  BY <1>1 DEF ItemsOf
<1> QED BY <1>2, <1>3, <1>4, QuietStep

(* A request that goes on with another pc, or ends. *)
LEMMA GotoStep ==
  ASSUME ReceiptTypes, ApprovalInv, NEW s \in Slots, NEW pc \in PCs, Goto(s, pc),
         UNCHANGED <<pass, adjustments, latest, applied>>,
         \/ request[s].adjustment = None /\ pc = "replace"
         \/ /\ request[s].adjustment = None /\ ~request[s].edits
            /\ pc \in {"refresh", "reopen"}
         \/ Before(request[s]) /\ pc = "release"
  PROVE  ApprovalInv'
<1> DEFINE r == [request[s] EXCEPT !.pc = pc]
<1>1. /\ r.pc = pc /\ r.adjustment = request[s].adjustment /\ r.edits = request[s].edits
      /\ r.pass = request[s].pass /\ r.current = request[s].current
      /\ r.unchanged = request[s].unchanged
  BY MoveTyped DEF Request
<1>2. request' = [request EXCEPT ![s] = r]
  BY DEF Goto, ReceiptTypes
<1> HIDE DEF r
<1>3. ItemsOf(request[s]) /\ ShapeOf(request[s])
  BY DEF ApprovalInv, ItemsRead, Shapes
<1>4. ItemsOf(r) /\ ShapeOf(r)
  BY <1>1, <1>3 DEF ItemsOf, ShapeOf, Before
<1>5. \/ ~Before(r) /\ ~After(r)
      \/ Before(request[s]) /\ ~After(r)
  BY <1>1 DEF Before, After
<1> QED BY <1>1, <1>2, <1>4, <1>5, QuietStep

LEMMA FinishStep ==
  ASSUME ReceiptTypes, ApprovalInv, NEW s \in Slots, Finish(s),
         UNCHANGED <<pass, adjustments, latest, applied>>
  PROVE  ApprovalInv'
  BY IdleFacts, QuietStep DEF Finish

(* The catch-up and the reopening end by putting back what they had read.    *)
LEMMA PutBackStep ==
  ASSUME ReceiptTypes, ApprovalInv, NEW s \in Slots,
         request[s].adjustment = None, ~request[s].edits,
         WritePass(s, request[s].pass, IdleRequest),
         latest' = IF request[s].unchanged THEN latest ELSE request[s].pass.items,
         UNCHANGED <<adjustments, applied>>
  PROVE  ApprovalInv'
<1> DEFINE req == request[s]
<1>1. req \in Request /\ req.pass \in Pass /\ ItemsOf(req)
  BY MoveTyped, RequestFields DEF ApprovalInv, ItemsRead
<1>2. request'[s] = IdleRequest /\ pass' = req.pass /\ \A t \in Slots \ {s} : Same(t)
  BY <1>1, IdleTyped, WritePassFacts
<1>3. /\ ShapeOf(request[s])' /\ ItemsOf(request[s])'
      /\ ~Before(request'[s]) /\ ~After(request'[s])
  BY <1>2 DEF IdleRequest, ShapeOf, ItemsOf, Before, After
<1>4. pass'.items = latest'
  BY <1>1, <1>2 DEF ItemsOf, ApprovalInv, CorrectionsStand
<1> QED BY <1>2, <1>3, <1>4, WriterStep

LEMMA EditSteps ==
  ASSUME ReceiptTypes, ApprovalInv, NEW s \in Slots
  PROVE  /\ \A paper \in Papers \cup {None} : StartEdit(s, paper) => ApprovalInv'
         /\ CountMovements(s) => ApprovalInv'
         /\ ReplaceEdited(s) => ApprovalInv'
<1>1. ASSUME NEW paper \in Papers \cup {None}, StartEdit(s, paper) PROVE ApprovalInv'
  <2> DEFINE noted == [IdleRequest EXCEPT !.pc = "replace", !.pass = pass]
             edit  == [IdleRequest EXCEPT !.pc = "movements", !.edits = TRUE,
                                          !.pass = [pass EXCEPT !.items = paper]]
  <2>1. pass \in Pass /\ (paper # None => [pass EXCEPT !.items = paper] \in Pass)
    BY QuantitiesAssumption DEF ReceiptTypes, Pass
  <2>2. noted \in Request /\ (paper # None => edit \in Request)
    BY <2>1, IdleTyped DEF Request
  <2>3. /\ ShapeOf(noted) /\ ~Before(noted) /\ ~After(noted)
        /\ noted.adjustment = None /\ noted.pass.items = pass.items
    BY DEF IdleRequest, ShapeOf, Before, After
  <2>4. /\ ShapeOf(edit) /\ ~Before(edit) /\ ~After(edit)
        /\ edit.adjustment = None /\ edit.edits
    BY DEF IdleRequest, ShapeOf, Before, After
  <2>5. \/ Begin(s, noted)
        \/ paper # None /\ Begin(s, edit)
    BY <1>1 DEF StartEdit
  <2> HIDE DEF noted, edit
  <2> QED BY <2>2, <2>3, <2>4, <2>5, BeginStep
<1>2. ASSUME CountMovements(s) PROVE ApprovalInv'
  <2>1. request[s].pc = "movements" /\ request[s].edits /\ request[s].adjustment = None
    BY <1>2 DEF CountMovements, ApprovalInv, Shapes, ShapeOf
  <2>2. "replace" \in PCs
    BY DEF PCs
  <2>3. /\ Goto(s, "replace") \/ Finish(s)
        /\ UNCHANGED <<pass, adjustments, latest, applied>>
    BY <1>2 DEF CountMovements
  <2>4. CASE Finish(s)
    BY <2>3, <2>4, FinishStep
  <2>5. CASE Goto(s, "replace")
    BY <2>1, <2>2, <2>3, <2>5, GotoStep
  <2> QED BY <2>3, <2>4, <2>5
<1>3. ASSUME ReplaceEdited(s) PROVE ApprovalInv'
  <2> DEFINE req  == request[s]
             done == [req EXCEPT !.pc = "sync", !.current = FALSE, !.unchanged = FALSE]
             next == IF req.edits THEN done ELSE IdleRequest
  <2>1. /\ req \in Request /\ req.pass \in Pass /\ req.adjustment = None
        /\ ItemsOf(req)
    BY <1>3, MoveTyped, RequestFields DEF ReplaceEdited, ApprovalInv, ItemsRead
  <2>2. done \in Request /\ ShapeOf(done) /\ ItemsOf(done) /\ ~Before(done) /\ ~After(done)
        /\ done.adjustment = None /\ ~done.current /\ ~done.unchanged /\ done.pc = "sync"
    BY <2>1 DEF Request, ShapeOf, ItemsOf, Before, After
  <2>3. next \in Request /\ next.adjustment = None /\ ~next.current /\ ~next.unchanged
        /\ next.pc \in {"sync", "idle"}
    BY <2>2, IdleTyped DEF IdleRequest
  <2>4. WritePass(s, req.pass, next)
    BY <1>3 DEF ReplaceEdited
  <2> HIDE DEF next
  <2>5. request'[s] = next /\ pass' = req.pass /\ \A t \in Slots \ {s} : Same(t)
    BY <2>1, <2>3, <2>4, WritePassFacts
  <2>6. ShapeOf(request[s])' /\ ItemsOf(request[s])'
        /\ ~Before(request'[s]) /\ ~After(request'[s])
    BY <2>3, <2>5 DEF ShapeOf, ItemsOf, Before, After
  <2>7. pass'.items = latest'
    BY <1>3, <2>1, <2>5 DEF ReplaceEdited, ItemsOf, ApprovalInv, CorrectionsStand
  <2>8. UNCHANGED <<adjustments, applied>>
    BY <1>3 DEF ReplaceEdited
  <2> QED BY <2>5, <2>6, <2>7, <2>8, WriterStep
<1> QED BY <1>1, <1>2, <1>3

LEMMA CatchUpSteps ==
  ASSUME ReceiptTypes, ApprovalInv, NEW s \in Slots
  PROVE  /\ \A d \in Deliveries, load \in Loads : StartCatchUp(s, d, load) => ApprovalInv'
         /\ RecordCatchUp(s) => ApprovalInv'
         /\ RefreshAndReread(s) => ApprovalInv'
         /\ PutPassBack(s) => ApprovalInv'
<1> DEFINE req == request[s]
<1>a. req \in Request /\ req.pass \in Pass /\ ShapeOf(req) /\ ItemsOf(req)
  BY MoveTyped, RequestFields DEF ApprovalInv, Shapes, ItemsRead
<1>1. ASSUME NEW d \in Deliveries, NEW load \in Loads, StartCatchUp(s, d, load)
      PROVE  ApprovalInv'
  <2> DEFINE r == [IdleRequest EXCEPT !.pc = "plan", !.delivery = d, !.load = load,
                                      !.pass = pass]
  <2>1. load \in [Lines -> 0..MaxQty] /\ pass \in Pass
    BY QuantitiesAssumption DEF ReceiptTypes
  <2>2. r \in Request
    BY <2>1, IdleTyped DEF Request
  <2>3. /\ ShapeOf(r) /\ ~Before(r) /\ ~After(r)
        /\ r.adjustment = None /\ r.pass.items = pass.items
    BY DEF IdleRequest, ShapeOf, Before, After
  <2>4. Begin(s, r)
    BY <1>1 DEF StartCatchUp
  <2> HIDE DEF r
  <2> QED BY <2>2, <2>3, <2>4, BeginStep
<1>2. ASSUME RecordCatchUp(s) PROVE ApprovalInv'
  <2>1. req.adjustment = None /\ ~req.edits
    BY <1>2, <1>a DEF RecordCatchUp, ShapeOf
  <2>2. "refresh" \in PCs
    BY DEF PCs
  <2>3. /\ Goto(s, "refresh") \/ Finish(s)
        /\ UNCHANGED <<pass, adjustments, latest, applied>>
    BY <1>2 DEF RecordCatchUp
  <2>4. CASE Finish(s)
    BY <2>3, <2>4, FinishStep
  <2>5. CASE Goto(s, "refresh")
    BY <2>1, <2>2, <2>3, <2>5, GotoStep
  <2> QED BY <2>3, <2>4, <2>5
<1>3. ASSUME RefreshAndReread(s) PROVE ApprovalInv'
  <2> DEFINE new  == Refreshed(pass, deliveries)
             next == [req EXCEPT !.pc = "putBack", !.pass.status = new.status]
  <2>1. new \in Pass /\ new.items = pass.items /\ pass' = new
    BY <1>3, RefreshedTyped DEF RefreshAndReread, ReceiptTypes
  <2>2. req.adjustment = None /\ ~req.edits
    BY <1>3, <1>a DEF RefreshAndReread, ShapeOf
  <2>3. /\ next.pc = "putBack" /\ next.adjustment = None /\ next.edits = req.edits
        /\ next.pass.items = req.pass.items /\ next.current = req.current
        /\ next.unchanged = req.unchanged
    BY <1>a, <2>2 DEF Request, Pass
  <2>4. request' = [Outdated(request, new) EXCEPT ![s] = next]
    BY <1>3 DEF RefreshAndReread
  <2> HIDE DEF next, new
  <2>5. request'[s] = next /\ \A t \in Slots \ {s} : Same(t)
    <3>1. request'[s] = next
      BY <2>4 DEF Outdated
    <3>2. ASSUME NEW t \in Slots \ {s} PROVE request'[t] = Outdated(request, new)[t]
      BY <2>4 DEF Outdated
    <3> QED BY <2>1, <3>1, <3>2, OutdatedFacts
  <2>6. ShapeOf(request[s])' /\ ItemsOf(request[s])'
        /\ ~Before(request'[s]) /\ ~After(request'[s])
    BY <1>a, <2>1, <2>2, <2>3, <2>5 DEF ShapeOf, ItemsOf, Before, After
  <2>7. pass'.items = latest' /\ UNCHANGED <<adjustments, applied>>
    BY <1>3, <2>1 DEF RefreshAndReread, ApprovalInv, CorrectionsStand
  <2> QED BY <2>5, <2>6, <2>7, WriterStep
<1>4. ASSUME PutPassBack(s) PROVE ApprovalInv'
  <2>1. req.adjustment = None /\ ~req.edits
    BY <1>4, <1>a DEF PutPassBack, ShapeOf
  <2>2. /\ WritePass(s, req.pass, IdleRequest)
        /\ latest' = IF req.unchanged THEN latest ELSE req.pass.items
        /\ UNCHANGED <<adjustments, applied>>
    BY <1>4 DEF PutPassBack
  <2> QED BY <2>1, <2>2, PutBackStep
<1> QED BY <1>1, <1>2, <1>3, <1>4

LEMMA ReopenSteps ==
  ASSUME ReceiptTypes, ApprovalInv, NEW s \in Slots
  PROVE  /\ StartReopen(s) => ApprovalInv'
         /\ CountBeforeReopening(s) => ApprovalInv'
         /\ Reopen(s) => ApprovalInv'
<1> DEFINE req == request[s]
<1>a. req \in Request /\ req.pass \in Pass /\ ShapeOf(req) /\ ItemsOf(req)
  BY MoveTyped, RequestFields DEF ApprovalInv, Shapes, ItemsRead
<1>1. ASSUME StartReopen(s) PROVE ApprovalInv'
  <2> DEFINE doc == [pass EXCEPT !.marked = FALSE, !.status = "RECEIVED"]
             r   == [IdleRequest EXCEPT !.pc = "reopenMovements", !.pass = doc]
  <2>1. doc \in Pass /\ doc.items = pass.items
    BY DEF ReceiptTypes, Pass, PassStatuses
  <2> HIDE DEF doc
  <2>2. r \in Request
    BY <2>1, IdleTyped DEF Request
  <2>3. /\ ShapeOf(r) /\ ~Before(r) /\ ~After(r)
        /\ r.adjustment = None /\ r.pass.items = pass.items
    BY <2>1 DEF IdleRequest, ShapeOf, Before, After
  <2>4. Begin(s, r)
    BY <1>1 DEF StartReopen, doc
  <2> HIDE DEF r
  <2> QED BY <2>2, <2>3, <2>4, BeginStep
<1>2. ASSUME CountBeforeReopening(s) PROVE ApprovalInv'
  <2>1. req.adjustment = None /\ ~req.edits
    BY <1>2, <1>a DEF CountBeforeReopening, ShapeOf
  <2>2. "reopen" \in PCs
    BY DEF PCs
  <2>3. /\ Goto(s, "reopen") \/ Finish(s)
        /\ UNCHANGED <<pass, adjustments, latest, applied>>
    BY <1>2 DEF CountBeforeReopening
  <2>4. CASE Finish(s)
    BY <2>3, <2>4, FinishStep
  <2>5. CASE Goto(s, "reopen")
    BY <2>1, <2>2, <2>3, <2>5, GotoStep
  <2> QED BY <2>3, <2>4, <2>5
<1>3. ASSUME Reopen(s) PROVE ApprovalInv'
  <2>1. req.adjustment = None /\ ~req.edits
    BY <1>3, <1>a DEF Reopen, ShapeOf
  <2>2. /\ WritePass(s, req.pass, IdleRequest)
        /\ latest' = IF req.unchanged THEN latest ELSE req.pass.items
        /\ UNCHANGED <<adjustments, applied>>
    BY <1>3 DEF Reopen
  <2> QED BY <2>1, <2>2, PutBackStep
<1> QED BY <1>1, <1>2, <1>3

(* A step of an approval that settles its adjustment `a`; the gate pass may   *)
(* be written by it.                                                         *)
LEMMA SettlingStep ==
  ASSUME ReceiptTypes, ApprovalInv, NEW s \in Slots, NEW a \in Adjustments,
         request[s].adjustment = a,
         \A t \in Slots \ {s} : Same(t),
         \A t \in Slots \ {s} : request[t].adjustment = a =>
                                  ~Before(request[t]) /\ ~After(request[t]),
         \A b \in Adjustments \ {a} : /\ adjustments'[b] = adjustments[b]
                                       /\ applied'[b] = applied[b],
         adjustments[a].status # "NONE" /\ adjustments'[a].status # "NONE",
         adjustments'[a].change = adjustments[a].change,
         ShapeOf(request[s])', ItemsOf(request[s])', ClaimOf(request[s])',
         request'[s].adjustment # a => ~Before(request'[s]) /\ ~After(request'[s]),
         applied'[a] <= 1,
         adjustments'[a].status = "APPROVED" => applied'[a] = 1,
         adjustments'[a].status \in {"NONE", "REQUESTED", "REJECTED"} => applied'[a] = 0,
         pass'.items = latest'
  PROVE  ApprovalInv'
<1>1. Lasting
  BY DEF Lasting
<1>2. \A t \in Slots \ {s} : ShapeOf(request[t])' /\ ItemsOf(request[t])'
  BY <1>1, SameKeeps DEF ApprovalInv, Shapes, ItemsRead
<1>3. Shapes' /\ ItemsRead'
  BY <1>2 DEF Shapes, ItemsRead
<1>4. ASSUME NEW t \in Slots \ {s} PROVE ClaimOf(request[t])'
  <2>1. request[t].adjustment \in Adjustments \cup {None} /\ ClaimOf(request[t])
    BY RequestFields, MoveTyped DEF ApprovalInv, Claims
  <2> QED BY <2>1 DEF ClaimOf, Before, After, Same
<1>5. Claims'
  BY <1>4 DEF ApprovalInv, Claims, Before, After, Same
<1>6. AppliedOnce' /\ CorrectionsStand'
  BY DEF ApprovalInv, AppliedOnce, CorrectionsStand
<1> QED BY <1>3, <1>5, <1>6 DEF ApprovalInv

(* Nobody else is at work on an adjustment that is claimed by `s`.            *)
LEMMA Alone ==
  ASSUME ReceiptTypes, ApprovalInv, NEW s \in Slots,
         Before(request[s]) \/ After(request[s])
  PROVE  \A t \in Slots \ {s} : request[t].adjustment = request[s].adjustment =>
                                  ~Before(request[t]) /\ ~After(request[t])
  BY DEF ApprovalInv, Claims

LEMMA StartApprovalStep ==
  ASSUME ReceiptTypes, ApprovalInv, NEW s \in Slots, NEW a \in Adjustments,
         StartApproval(s, a)
  PROVE  ApprovalInv'
<1> DEFINE doc == [pass EXCEPT !.items = Corrected(@, adjustments[a].change)]
           r   == [IdleRequest EXCEPT !.pc = "movements", !.adjustment = a, !.pass = doc]
<1>1. adjustments[a].change \in Corrections /\ pass.items \in Items /\ pass \in Pass
  BY DEF ReceiptTypes, Adjustment, Pass
<1>2. doc \in Pass /\ doc.items = Corrected(pass.items, adjustments[a].change)
  BY <1>1, CorrectedTyped DEF Pass
<1> HIDE DEF doc
<1>3. r \in Request
  BY <1>2, IdleTyped DEF Request
<1>4. /\ r.pc = "movements" /\ r.adjustment = a /\ r.pass = doc /\ ~r.edits
      /\ a # None /\ adjustments[a].status # "NONE"
  BY IdsAssumption DEF IdleRequest, StartApproval
<1>5. Begin(s, r)
  BY DEF StartApproval, doc
<1> HIDE DEF r
<1>6. ShapeOf(r) /\ ~Before(r) /\ ~After(r)
  BY <1>4 DEF ShapeOf, Before, After
<1> QED BY <1>2, <1>3, <1>4, <1>5, <1>6, BeginStep

LEMMA LoadMovementsStep ==
  ASSUME ReceiptTypes, ApprovalInv, NEW s \in Slots, LoadMovements(s)
  PROVE  ApprovalInv'
<1> DEFINE req == request[s]
           st  == DerivedStatus(req.pass.items, deliveries, FALSE, req.pass.status)
           r   == [req EXCEPT !.pc = "claim", !.pass.status = st]
<1>1. req \in Request /\ req.pass \in Pass /\ ShapeOf(req) /\ ItemsOf(req)
  BY MoveTyped, RequestFields DEF ApprovalInv, Shapes, ItemsRead
<1>2. /\ r.pc = "claim" /\ r.adjustment = req.adjustment /\ r.edits = req.edits
      /\ r.pass.items = req.pass.items /\ r.current = req.current
      /\ r.unchanged = req.unchanged
  BY <1>1 DEF Request, Pass
<1>3. /\ request' = [request EXCEPT ![s] = r] /\ req.pc = "movements" /\ ~req.edits
      /\ UNCHANGED <<pass, adjustments, latest, applied>>
  BY DEF LoadMovements, ReceiptTypes
<1> HIDE DEF r, st
<1>4. ShapeOf(r) /\ ItemsOf(r) /\ ~Before(r) /\ ~After(r)
  BY <1>1, <1>2, <1>3 DEF ShapeOf, ItemsOf, Before, After
<1> QED BY <1>3, <1>4, QuietStep

LEMMA ClaimStep ==
  ASSUME ReceiptTypes, ApprovalInv, NEW s \in Slots, ClaimAdjustment(s)
  PROVE  ApprovalInv'
<1> DEFINE req == request[s]
           a   == req.adjustment
           r   == [req EXCEPT !.pc = "replace"]
<1>1. req \in Request /\ ShapeOf(req) /\ ItemsOf(req) /\ req.pc = "claim"
  BY MoveTyped DEF ApprovalInv, Shapes, ItemsRead, ClaimAdjustment
<1>2. a # None /\ a \in Adjustments /\ ~req.edits
  BY <1>1, RequestFields DEF ShapeOf
<1>3. UNCHANGED <<pass, latest, applied>>
  BY DEF ClaimAdjustment
<1>4. CASE adjustments[a].status = "REQUESTED"
  <2>1. /\ adjustments' = [adjustments EXCEPT ![a].status = "APPROVING"]
        /\ request' = [request EXCEPT ![s] = r]
    BY <1>4 DEF ClaimAdjustment, Goto, ReceiptTypes
  <2>2. /\ r.pc = "replace" /\ r.adjustment = a /\ ~r.edits
        /\ r.pass = req.pass /\ r.current = req.current
    BY <1>1, <1>2 DEF Request
  <2>3. /\ adjustments'[a].status = "APPROVING"
        /\ adjustments'[a].change = adjustments[a].change
        /\ \A b \in Adjustments \ {a} : adjustments'[b] = adjustments[b]
    BY <1>2, <2>1 DEF ReceiptTypes, Adjustment
  <2> HIDE DEF r
  <2>4. request'[s] = r /\ \A t \in Slots \ {s} : request'[t] = request[t]
    BY <2>1 DEF ReceiptTypes
  <2>5. \A t \in Slots \ {s} : Same(t)
    BY <1>3, <2>4 DEF Same
  <2>6. \A t \in Slots \ {s} : request[t].adjustment = a =>
                                  ~Before(request[t]) /\ ~After(request[t])
    BY <1>4 DEF ApprovalInv, Claims, ClaimOf
  <2>7. applied[a] = 0 /\ pass.items = latest
    BY <1>2, <1>4 DEF ApprovalInv, AppliedOnce, CorrectionsStand
  <2>8. ShapeOf(request[s])' /\ ClaimOf(request[s])'
    BY <1>2, <1>3, <2>2, <2>3, <2>4, <2>7 DEF ShapeOf, ClaimOf, Before, After
  <2>9. ItemsOf(request[s])'
    BY <1>1, <1>2, <1>3, <2>2, <2>3, <2>4 DEF ItemsOf
  <2>10. \A b \in Adjustments \ {a} : /\ adjustments'[b] = adjustments[b]
                                      /\ applied'[b] = applied[b]
    BY <1>3, <2>3
  <2>11. /\ adjustments[a].status # "NONE" /\ adjustments'[a].status # "NONE"
         /\ applied'[a] <= 1
         /\ adjustments'[a].status = "APPROVED" => applied'[a] = 1
         /\ adjustments'[a].status \in {"NONE", "REQUESTED", "REJECTED"} => applied'[a] = 0
         /\ pass'.items = latest'
    BY <1>3, <1>4, <2>3, <2>7
  <2>13. request'[s].adjustment = a
    BY <2>2, <2>4
  <2>12. req.adjustment = a
    OBVIOUS
  <2> HIDE DEF a, req
  <2> QED BY <1>2, <2>3, <2>5, <2>6, <2>8, <2>9, <2>10, <2>11, <2>12,
             <2>13, SettlingStep DEF req
<1>5. CASE adjustments[a].status # "REQUESTED"
  BY <1>3, <1>5, FinishStep DEF ClaimAdjustment
<1> QED BY <1>4, <1>5

LEMMA ReplaceCorrectedStep ==
  ASSUME ReceiptTypes, ApprovalInv, NEW s \in Slots, ReplaceCorrected(s)
  PROVE  ApprovalInv'
<1> DEFINE req == request[s]
           a   == req.adjustment
           r   == [req EXCEPT !.pc = "sync", !.current = FALSE, !.unchanged = FALSE]
<1>1. /\ req \in Request /\ req.pass \in Pass /\ ShapeOf(req) /\ ItemsOf(req)
      /\ ClaimOf(req) /\ Before(req) /\ a # None /\ a \in Adjustments /\ ~req.edits
  BY MoveTyped, RequestFields
     DEF ApprovalInv, Shapes, ItemsRead, Claims, ReplaceCorrected, Before, ShapeOf
<1>2. CASE Unmodified(req)
  <2>1. /\ WritePass(s, req.pass, r)
        /\ latest' = Corrected(latest, adjustments[a].change)
        /\ applied' = [applied EXCEPT ![a] = @ + 1]
        /\ adjustments' = adjustments
    BY <1>2 DEF ReplaceCorrected
  <2>2. /\ r \in Request /\ r.pc = "sync" /\ r.adjustment = a /\ ~r.edits
        /\ ~r.current /\ ~r.unchanged
    BY <1>1 DEF Request
  <2> HIDE DEF r
  <2>3. request'[s] = r /\ pass' = req.pass /\ \A t \in Slots \ {s} : Same(t)
    BY <1>1, <2>1, <2>2, WritePassFacts
  <2>4. adjustments[a].status = "APPROVING" /\ applied[a] = 0
    BY <1>1 DEF ClaimOf
  <2>5. applied'[a] = 1 /\ \A b \in Adjustments \ {a} : applied'[b] = applied[b]
    BY <1>1, <2>1, <2>4 DEF ReceiptTypes
  <2>6. pass'.items = latest'
    BY <1>2, <1>1, <2>1, <2>3 DEF Unmodified, ItemsOf, ApprovalInv, CorrectionsStand
  <2>7. /\ ShapeOf(request[s])' /\ ItemsOf(request[s])' /\ ClaimOf(request[s])'
    BY <1>1, <2>1, <2>2, <2>3, <2>4, <2>5 DEF ShapeOf, ItemsOf, ClaimOf, Before, After
  <2>8. \A t \in Slots \ {s} : request[t].adjustment = a =>
                                  ~Before(request[t]) /\ ~After(request[t])
    BY <1>1, Alone
  <2>9. \A b \in Adjustments \ {a} : /\ adjustments'[b] = adjustments[b]
                                     /\ applied'[b] = applied[b]
    BY <2>1, <2>5
  <2>10. /\ adjustments[a].status # "NONE" /\ adjustments'[a].status # "NONE"
         /\ adjustments'[a].change = adjustments[a].change
         /\ applied'[a] <= 1
         /\ adjustments'[a].status = "APPROVED" => applied'[a] = 1
         /\ adjustments'[a].status \in {"NONE", "REQUESTED", "REJECTED"} => applied'[a] = 0
    BY <2>1, <2>4, <2>5
  <2>12. request'[s].adjustment = a
    BY <2>2, <2>3
  <2>11. req.adjustment = a
    OBVIOUS
  <2> HIDE DEF a, req
  <2> QED BY <1>1, <2>3, <2>6, <2>7, <2>8, <2>9, <2>10, <2>11,
             <2>12, SettlingStep DEF req
<1>3. CASE ~Unmodified(req)
  <2>1. /\ Goto(s, "release")
        /\ UNCHANGED <<pass, adjustments, latest, applied>>
    BY <1>3 DEF ReplaceCorrected
  <2>2. "release" \in PCs
    BY DEF PCs
  <2> QED BY <1>1, <2>1, <2>2, GotoStep
<1> QED BY <1>2, <1>3

(* The release after a failed replacement, and the end of a successful one.  *)
LEMMA SettleStep ==
  ASSUME ReceiptTypes, ApprovalInv, NEW s \in Slots,
         ReleaseAdjustment(s) \/ MarkApproved(s)
  PROVE  ApprovalInv'
<1> DEFINE req == request[s]
           a   == req.adjustment
<1>1. PICK st \in {"REQUESTED", "APPROVED"} :
        /\ Settle(s, st)
        /\ st = "REQUESTED" => req.pc = "release"
        /\ st = "APPROVED" => req.pc = "approved"
  BY DEF ReleaseAdjustment, MarkApproved
<1>2. req \in Request /\ ShapeOf(req) /\ ClaimOf(req)
  BY MoveTyped DEF ApprovalInv, Shapes, Claims
<1>3. a # None /\ a \in Adjustments
  BY <1>1, <1>2, RequestFields DEF ShapeOf
<1>4. /\ st = "REQUESTED" => Before(req)
      /\ st = "APPROVED" => After(req)
  BY <1>1, <1>3 DEF Before, After
<1>5. /\ adjustments[a].status = "APPROVING"
      /\ st = "REQUESTED" => applied[a] = 0
      /\ st = "APPROVED" => applied[a] = 1
  BY <1>2, <1>4 DEF ClaimOf
<1>6. /\ adjustments' = [adjustments EXCEPT ![a].status = st]
      /\ Finish(s) /\ UNCHANGED <<pass, latest, applied>>
  BY <1>1, <1>5 DEF Settle
<1>7. /\ adjustments'[a].status = st
      /\ adjustments'[a].change = adjustments[a].change
      /\ \A b \in Adjustments \ {a} : adjustments'[b] = adjustments[b]
  BY <1>3, <1>6 DEF ReceiptTypes, Adjustment
<1>8. request'[s] = IdleRequest /\ \A t \in Slots \ {s} : request'[t] = request[t]
  BY <1>6 DEF Finish, ReceiptTypes
<1>9. \A t \in Slots \ {s} : Same(t)
  BY <1>6, <1>8 DEF Same
<1>10. /\ ShapeOf(request[s])' /\ ItemsOf(request[s])' /\ ClaimOf(request[s])'
       /\ ~Before(request'[s]) /\ ~After(request'[s])
  BY <1>8 DEF IdleRequest, ShapeOf, ItemsOf, ClaimOf, Before, After
<1>11. \A t \in Slots \ {s} : request[t].adjustment = a =>
                                ~Before(request[t]) /\ ~After(request[t])
  BY <1>1, <1>4, Alone
<1>12. pass'.items = latest'
  BY <1>6 DEF ApprovalInv, CorrectionsStand
<1> QED BY <1>1, <1>3, <1>5, <1>6, <1>7, <1>9, <1>10, <1>11, <1>12, SettlingStep

(* What is asked for or rejected is in nobody's claim.                       *)
LEMMA AskingStep ==
  ASSUME ReceiptTypes, ApprovalInv, NEW a \in Adjustments, NEW doc \in Adjustment,
         UNCHANGED <<pass, request, latest, applied>>,
         adjustments' = [adjustments EXCEPT ![a] = doc],
         adjustments[a].status \in {"NONE", "REQUESTED"},
         adjustments[a].status = "REQUESTED" => doc.change = adjustments[a].change,
         doc.status \in {"REQUESTED", "REJECTED"}
  PROVE  ApprovalInv'
<1>1. /\ adjustments'[a] = doc
      /\ \A b \in Adjustments \ {a} : adjustments'[b] = adjustments[b]
  BY DEF ReceiptTypes
<1>2. Lasting
  BY <1>1 DEF Lasting
<1>3. \A t \in Slots : Same(t)
  BY DEF Same
<1>4. Shapes' /\ ItemsRead'
  BY <1>2, <1>3, SameKeeps DEF ApprovalInv, Shapes, ItemsRead
<1>5. ASSUME NEW t \in Slots PROVE ClaimOf(request[t])'
  <2>1. request[t].adjustment \in Adjustments \cup {None} /\ ClaimOf(request[t])
    BY RequestFields, MoveTyped DEF ApprovalInv, Claims
  <2> QED BY <1>1, <2>1 DEF ClaimOf, Before, After
<1>6. Claims'
  BY <1>5 DEF ApprovalInv, Claims, Before, After
<1>7. AppliedOnce'
  BY <1>1 DEF ApprovalInv, AppliedOnce
<1>8. CorrectionsStand'
  BY DEF ApprovalInv, CorrectionsStand
<1> QED BY <1>4, <1>6, <1>7, <1>8 DEF ApprovalInv

LEMMA OtherSteps ==
  ASSUME ReceiptTypes, ApprovalInv
  PROVE  /\ \A s \in Slots \cup {None}, a \in Adjustments, c \in Corrections :
              RequestAdjustment(s, a, c) => ApprovalInv'
         /\ \A a \in Adjustments : RejectAdjustment(a) => ApprovalInv'
         /\ \A d \in Deliveries, load \in Loads : Deliver(d, load) => ApprovalInv'
         /\ \A d \in Deliveries : CancelDelivery(d) => ApprovalInv'
         /\ CancelPass => ApprovalInv'
<1>1. ASSUME NEW s \in Slots \cup {None}, NEW a \in Adjustments, NEW c \in Corrections,
             RequestAdjustment(s, a, c)
      PROVE  ApprovalInv'
  <2> DEFINE doc == [status |-> "REQUESTED", change |-> c, by |-> s]
  <2>1. doc \in Adjustment /\ doc.status = "REQUESTED"
    BY DEF Adjustment
  <2>2. /\ adjustments' = [adjustments EXCEPT ![a] = doc]
        /\ adjustments[a].status = "NONE"
        /\ UNCHANGED <<pass, request, latest, applied>>
    BY <1>1 DEF RequestAdjustment
  <2> HIDE DEF doc
  <2> QED BY <2>1, <2>2, AskingStep
<1>2. ASSUME NEW a \in Adjustments, RejectAdjustment(a) PROVE ApprovalInv'
  <2> DEFINE doc == [adjustments[a] EXCEPT !.status = "REJECTED"]
  <2>1. doc \in Adjustment /\ doc.status = "REJECTED" /\ doc.change = adjustments[a].change
    BY DEF ReceiptTypes, Adjustment
  <2>2. /\ adjustments' = [adjustments EXCEPT ![a] = doc]
        /\ adjustments[a].status = "REQUESTED"
        /\ UNCHANGED <<pass, request, latest, applied>>
    BY <1>2 DEF RejectAdjustment, ReceiptTypes
  <2> HIDE DEF doc
  <2> QED BY <2>1, <2>2, AskingStep
<1>3. ASSUME NEW new \in Pass, new.items = pass.items, pass' = new,
             request' = Outdated(request, new),
             UNCHANGED <<adjustments, latest, applied>>
      PROVE  ApprovalInv'
  <2>1. \A t \in Slots : Same(t)
    BY <1>3, OutdatedFacts
  <2>2. pass'.items = latest'
    BY <1>3 DEF ApprovalInv, CorrectionsStand
  <2> QED BY <1>3, <2>1, <2>2, OthersStep
<1>4. ASSUME NEW docs, MoveLinen(docs) PROVE ApprovalInv'
  <2>1. Refreshed(pass, docs) \in Pass /\ Refreshed(pass, docs).items = pass.items
    BY RefreshedTyped DEF ReceiptTypes
  <2> QED BY <1>3, <1>4, <2>1 DEF MoveLinen
<1>5. ASSUME CancelPass PROVE ApprovalInv'
  <2> DEFINE new == [pass EXCEPT !.status = "CANCELLED"]
  <2>1. new \in Pass /\ new.items = pass.items
    BY DEF ReceiptTypes, Pass, PassStatuses
  <2>2. pass' = new /\ request' = Outdated(request, new)
        /\ UNCHANGED <<adjustments, latest, applied>>
    BY <1>5 DEF CancelPass
  <2> HIDE DEF new
  <2> QED BY <1>3, <2>1, <2>2
<1> QED BY <1>1, <1>2, <1>4, <1>5 DEF Deliver, CancelDelivery

(* Bills end the propagation of a correction, and nothing else.              *)
LEMMA BillSideStep ==
  ASSUME ReceiptTypes, ApprovalInv, BillSide
  PROVE  ApprovalInv'
<1>1. UNCHANGED <<pass, adjustments, latest, applied>>
  BY BillSteps
<1>2. CASE request' = request
  BY <1>1, <1>2 DEF ApprovalInv, Shapes, ShapeOf, ItemsRead, ItemsOf, Claims, ClaimOf,
                    Before, After, AppliedOnce, CorrectionsStand
<1>3. ASSUME NEW s \in Slots, request[s].pc = "sync",
             request' = [request EXCEPT ![s] = Synced(s)]
      PROVE  ApprovalInv'
  <2> DEFINE req == request[s]
             r   == [req EXCEPT !.pc = "approved", !.pass = FirstPass]
  <2>1. req \in Request /\ ShapeOf(req) /\ ItemsOf(req)
    BY MoveTyped DEF ApprovalInv, Shapes, ItemsRead
  <2>2. CASE req.adjustment = None
    <3>1. Finish(s)
      BY <1>3, <2>2 DEF Finish, Synced
    <3> QED BY <1>1, <3>1, FinishStep
  <2>3. CASE req.adjustment # None
    <3>1. request' = [request EXCEPT ![s] = r]
      BY <1>3, <2>3 DEF Synced
    <3>2. /\ r.pc = "approved" /\ r.adjustment = req.adjustment /\ r.edits = req.edits
          /\ r.current = req.current
      BY <2>1 DEF Request
    <3> HIDE DEF r
    <3>3. ShapeOf(r) /\ ItemsOf(r) /\ ~Before(r) /\ After(req)
      BY <1>3, <2>1, <2>3, <3>2 DEF ShapeOf, ItemsOf, Before, After
    <3> QED BY <1>1, <3>1, <3>2, <3>3, QuietStep
  <2> QED BY <2>2, <2>3
<1> QED BY <1>2, <1>3, BillSteps

LEMMA ApprovalInit ==
  ASSUME Init
  PROVE  ApprovalInv
<1>1. \A s \in Slots : request[s] = IdleRequest
  BY DEF Init, ReceiptInit
<1>2. Shapes /\ ItemsRead
  BY <1>1, IdleFacts DEF Shapes, ItemsRead
<1>3. Claims
  BY <1>1, IdleFacts DEF Claims, ClaimOf
<1>4. AppliedOnce
  BY DEF Init, ReceiptInit, NoAdjustment, AppliedOnce
<1>5. CorrectionsStand
  BY DEF Init, ReceiptInit, FirstPass, CorrectionsStand
<1> QED BY <1>2, <1>3, <1>4, <1>5 DEF ApprovalInv

LEMMA ApprovalStep ==
  ASSUME ReceiptTypes, ApprovalInv, [Next]_vars
  PROVE  ApprovalInv'
<1>1. ASSUME NEW s \in Slots, Crash(s) PROVE ApprovalInv'
  BY <1>1, FinishStep DEF Crash
<1>2. ASSUME ReceiptStep PROVE ApprovalInv'
  BY <1>1, <1>2, EditSteps, CatchUpSteps, ReopenSteps, StartApprovalStep, LoadMovementsStep,
     ClaimStep, ReplaceCorrectedStep, SettleStep, OtherSteps
     DEF ReceiptStep
<1>3. ASSUME UNCHANGED vars PROVE ApprovalInv'
  BY <1>3 DEF vars, receiptVars, ApprovalInv, Shapes, ShapeOf, ItemsRead, ItemsOf, Claims,
              ClaimOf, Before, After, AppliedOnce, CorrectionsStand
<1> QED BY <1>2, <1>3, BillSideStep DEF Next, ReceiptSide

-----------------------------------------------------------------------------
(* Theorems about the writers of the pass. *)

(* The documents of the gate pass, its movements and adjustments, and what   *)
(* its writers have in hand, keep their types.                               *)
THEOREM ReceiptsTyped == Spec => []ReceiptTypes
<1>1. Init => ReceiptTypes
  BY TypedInit
<1>2. ReceiptTypes /\ [Next]_vars => ReceiptTypes'
  BY TypedStep
<1> QED BY <1>1, <1>2, PTL DEF Spec

(* The inductive invariant holds for any number of adjustments and of users  *)
(* who edit, approve, reject, deliver, reopen, bill and crash side by side:  *)
(* what a writer of the pass has in hand, and what is known of it.           *)
THEOREM ApprovalsHold == Spec => []ApprovalInv
<1>1. Init => ApprovalInv
  BY ApprovalInit
<1>2. ReceiptTypes /\ ApprovalInv /\ [Next]_vars => ApprovalInv'
  BY ApprovalStep
<1> QED BY <1>1, <1>2, ReceiptsTyped, PTL DEF Spec

(* approve_adjustment changes the pass once for an approved adjustment, and  *)
(* never for one that is open or rejected: the conditional claim is          *)
(* exclusive, and only who holds it settles it.                              *)
THEOREM AdjustmentsApplyOnce == Spec => []AppliedOnce
<1>1. ApprovalInv => AppliedOnce
  BY DEF ApprovalInv
<1> QED BY <1>1, ApprovalsHold, PTL

(* The items of the pass are those of the accepted operations in a row: an   *)
(* approval whose updated_at is current has corrected the items of now.      *)
THEOREM CorrectionsAreKept == Spec => []CorrectionsStand
<1>1. ApprovalInv => CorrectionsStand
  BY DEF ApprovalInv
<1> QED BY <1>1, ApprovalsHold, PTL

-----------------------------------------------------------------------------
(* Types of the bills and of what is in hand. *)

WorkPCs == {"idle", "billed", "insert", "ceiling", "replace", "bills", "write"}

LEMMA ReceivedType ==
  ASSUME NEW items \in Items
  PROVE  Received(items) \in Nat
<1> DEFINE F == [l \in Lines |-> items[l].qty]
           S == {l \in Lines : ~items[l].rewashed}
<1>1. \A l \in S : F[l] \in Nat
  BY QuantitiesAssumption DEF Items
<1>2. IsFiniteSet(S)
  BY IdsAssumption, FS_Subset
<1> HIDE DEF F, S
<1>3. SumFunctionOnSet(F, S) \in Nat
  BY <1>1, <1>2, SumNat
<1> QED BY <1>3 DEF Received, F, S

LEMMA DeliveredType ==
  ASSUME NEW docs \in [Deliveries -> Delivery]
  PROVE  DeliveredInAll(docs) \in Nat
<1>1. ASSUME NEW l \in Lines PROVE Delivered(docs, l) \in Nat
  <2> DEFINE F == [d \in Deliveries |-> docs[d].load[l]]
  <2>1. \A d \in Moving(docs) : F[d] \in Nat
    BY QuantitiesAssumption DEF Delivery, Moving
  <2>2. IsFiniteSet(Moving(docs))
    BY IdsAssumption, FS_Subset DEF Moving
  <2> HIDE DEF F
  <2>3. SumFunctionOnSet(F, Moving(docs)) \in Nat
    BY <2>1, <2>2, SumNat
  <2> QED BY <2>3 DEF Delivered, F
<1> DEFINE G == [l \in Lines |-> Delivered(docs, l)]
<1>2. \A l \in Lines : G[l] \in Nat
  BY <1>1
<1> HIDE DEF G
<1>3. SumFunctionOnSet(G, Lines) \in Nat
  BY <1>2, IdsAssumption, SumNat
<1> QED BY <1>3 DEF DeliveredInAll, G

(* What a bill charges in all, and on one line. *)
LEMMA TotalType ==
  ASSUME NEW doc \in Bill
  PROVE  /\ Total(doc) \in Nat
         /\ \A r \in Rows : doc.charges[r] \in Nat /\ doc.charges[r] <= Total(doc)
<1>1. PICK f \in [Rows -> Nat] : f = doc.charges
  BY DEF Bill
<1>2. IsFiniteSet(Rows) /\ \A r \in Rows : f[r] \in Nat
  BY <1>1, BillsAssumption
<1>3. SumFunctionOnSet(f, Rows) \in Nat
  BY <1>2, SumNat
<1>4. ASSUME NEW r \in Rows PROVE f[r] <= SumFunctionOnSet(f, Rows)
  <2>1. SumFunctionOnSet(f, Rows) = f[r] + SumFunctionOnSet(f, Rows \ {r})
    BY <1>2, SumRemove
  <2>2. IsFiniteSet(Rows \ {r})
    BY <1>2, FS_Subset
  <2>3. SumFunctionOnSet(f, Rows \ {r}) \in Nat
    BY <1>2, <2>2, SumNat
  <2> QED BY <1>2, <2>1, <2>3
<1> QED BY <1>1, <1>2, <1>3, <1>4 DEF Total

LEMMA PiecesType ==
  ASSUME bills \in [Bills -> Bill], NEW S \in SUBSET Bills
  PROVE  Pieces(S) \in Nat
<1> DEFINE F == [b \in Bills |-> Total(bills[b])]
<1>1. \A b \in S : F[b] \in Nat
  BY TotalType
<1>2. IsFiniteSet(S)
  BY BillsAssumption, FS_Subset
<1> HIDE DEF F
<1>3. SumFunctionOnSet(F, S) \in Nat
  BY <1>1, <1>2, SumNat
<1> QED BY <1>3 DEF Pieces, F

LEMMA WorkFields ==
  ASSUME NEW job \in Work
  PROVE  /\ job.pc \in WorkPCs /\ job.id \in Bills \cup {None} /\ job.bill \in Bill
         /\ job.received \in Nat /\ job.found \in [Bills -> Bill] /\ job.todo \subseteq Bills
         /\ job.fresh \in BOOLEAN
  BY DEF Work, WorkPCs

LEMMA NothingTyped == NoBill \in Bill /\ NoFindings \in [Bills -> Bill] /\ NoWork \in Work
<1>1. NoBill \in Bill
  BY DEF NoBill, NoCharges, Bill
<1>2. NoFindings \in [Bills -> Bill]
  BY <1>1 DEF NoFindings
<1> QED BY <1>1, <1>2 DEF NoWork, Work

LEMMA OvertakenTyped ==
  ASSUME work \in [Users -> Work], NEW w, NEW next \in Work
  PROVE  Overtaken(w, next) \in [Users -> Work]
<1>1. \A v \in Users : [work[v] EXCEPT !.fresh = FALSE] \in Work
  BY DEF Work
<1> QED BY <1>1 DEF Overtaken, Users

LEMMA PropagatedType ==
  ASSUME NEW doc \in Bill, NEW n \in Nat
  PROVE  /\ Propagated(doc, n) \in Bill
         /\ Propagated(doc, n).status = doc.status
         /\ Propagated(doc, n).pass = doc.pass
         /\ Propagated(doc, n).deliveries = doc.deliveries
         /\ \A r \in Rows : Propagated(doc, n).charges[r] <= doc.charges[r]
         /\ Editable(doc) => Within(Propagated(doc, n), n)
         /\ ~Editable(doc) => Propagated(doc, n).noted
<1>1. PICK f \in [Rows -> Nat] : f = doc.charges
  BY DEF Bill
<1>2. CASE Editable(doc)
  <2> DEFINE g == [r \in Rows |-> IF f[r] <= n THEN f[r] ELSE n]
  <2>1. /\ g \in [Rows -> Nat]
        /\ \A r \in Rows : g[r] <= f[r] /\ g[r] <= n
    BY <1>1
  <2>2. Propagated(doc, n) = [doc EXCEPT !.charges = g]
    BY <1>1, <1>2 DEF Propagated, Clamped
  <2> HIDE DEF g
  <2>3. /\ [doc EXCEPT !.charges = g] \in Bill
        /\ [doc EXCEPT !.charges = g].charges = g
    BY <2>1 DEF Bill
  <2>4. /\ [doc EXCEPT !.charges = g].status = doc.status
        /\ [doc EXCEPT !.charges = g].pass = doc.pass
        /\ [doc EXCEPT !.charges = g].deliveries = doc.deliveries
    BY DEF Bill
  <2>5. Within(Propagated(doc, n), n) /\ \A r \in Rows : Propagated(doc, n).charges[r] <= doc.charges[r]
    BY <1>1, <2>1, <2>2, <2>3 DEF Within
  <2> QED BY <1>2, <2>2, <2>3, <2>4, <2>5
<1>3. CASE ~Editable(doc)
  <2>1. Propagated(doc, n) = [doc EXCEPT !.noted = TRUE]
    BY <1>3 DEF Propagated
  <2>2. [doc EXCEPT !.noted = TRUE] \in Bill
    BY DEF Bill
  <2>3. /\ Propagated(doc, n).status = doc.status /\ Propagated(doc, n).pass = doc.pass
        /\ Propagated(doc, n).deliveries = doc.deliveries
        /\ Propagated(doc, n).charges = doc.charges
    BY <2>1 DEF Bill
  <2>4. Propagated(doc, n).noted
    BY <2>1, Zenon DEF Bill
  <2> QED BY <1>1, <1>3, <2>1, <2>2, <2>3, <2>4
<1> QED BY <1>2, <1>3

-----------------------------------------------------------------------------
(* Steps that take a bill in hand. *)

Excuses == {"raced", "shrunk", "reopened", "unfinished", "delivered", "reverted"}

BillTypes == /\ bills \in [Bills -> Bill]
             /\ work \in [Users -> Work]
             /\ excuses \subseteq Excuses

LEMMA TypeParts == TypeOK <=> ReceiptTypes /\ BillTypes
  BY DEF TypeOK, BillTypes, Users, Excuses

(* The kinds of steps there are on the side of the bills: somebody takes     *)
(* something in hand, or somebody writes a bill.                             *)
Takes(w, job) ==
  /\ job \in Work /\ JobSound(w, job)
  /\ work' = [work EXCEPT ![w] = job]
  /\ UNCHANGED <<pass, deliveries, request, bills, excuses>>

Writes(w, b, doc, next) ==
  /\ doc \in Bill /\ next \in Work
  /\ bills' = [bills EXCEPT ![b] = doc]
  /\ work' = Overtaken(w, next)
  /\ excuses \subseteq excuses' /\ excuses' \subseteq Excuses
  /\ UNCHANGED <<pass, deliveries>>

LEMMA IdleSound ==
  ASSUME NEW w
  PROVE  JobSound(w, NoWork) /\ JobSound(w, NoWork)'
<1>1. /\ NoWork.pc = "idle" /\ ~NoWork.fresh /\ NoWork.bill.deliveries = {}
      /\ \A b \in Bills : NoWork.found[b].deliveries = {}
  BY DEF NoWork, NoBill, NoFindings
<1> QED BY <1>1 DEF JobSound, JobShape

LEMMA StartBillTakes ==
  ASSUME BillingInv, NEW c \in Cashiers, NEW b \in Bills, NEW by \in BOOLEAN,
         NEW ds \in SUBSET Deliveries, NEW charges \in [Rows -> Nat], NEW instant \in BOOLEAN,
         StartBill(c, b, by, ds, charges, instant)
  PROVE  \E job \in Work : Takes(c, job)
<1>0. ReceiptTypes /\ BillTypes
  BY TypeParts DEF BillingInv
<1> DEFINE st == IF instant THEN "PAID" ELSE "DRAFT"
           doc == [status |-> st, pass |-> by, deliveries |-> ds, charges |-> charges,
                   noted |-> FALSE]
           job == [NoWork EXCEPT !.pc = "billed", !.id = b, !.fresh = TRUE,
                                 !.received = Received(pass.items), !.bill = doc]
<1>1. doc \in Bill /\ doc.deliveries = ds
  BY DEF Bill
<1>2. pass.items \in Items
  BY <1>0 DEF ReceiptTypes, Pass
<1>3. Received(pass.items) \in Nat
  BY <1>2, ReceivedType
<1> HIDE DEF doc
<1>4. /\ job \in Work /\ job.pc = "billed" /\ job.bill = doc /\ job.id = b /\ job.fresh
      /\ job.received = Received(pass.items) /\ job.found = NoFindings
  BY <1>1, <1>3, NothingTyped DEF NoWork, Work
<1>5. Take(c, job)
  BY DEF StartBill, doc
<1> HIDE DEF job
<1>6. ds \subseteq Made
  BY DEF StartBill, Made
<1>7. JobShape(c, job)
  <2>1. c \notin Slots
    BY BillsAssumption
  <2>2. \A x \in Bills : job.found[x].deliveries = {}
    BY <1>4 DEF NoFindings, NoBill
  <2> QED BY <1>1, <1>4, <1>6, <2>1, <2>2 DEF JobShape
<1>8. JobFits(c, job)
  BY <1>4 DEF JobFits
<1>9. Takes(c, job)
  BY <1>4, <1>5, <1>7, <1>8 DEF Takes, Take, JobSound
<1> QED BY <1>4, <1>9

LEMMA StartBillEditTakes ==
  ASSUME BillingInv, NEW c \in Cashiers, NEW b \in Bills,
         NEW charges \in [Rows -> Nat], NEW covered \in BOOLEAN,
         StartBillEdit(c, b, charges, covered)
  PROVE  \E job \in Work : Takes(c, job)
<1>0. ReceiptTypes /\ BillTypes /\ bills[b] \in Bill /\ BillsNameMade
  BY TypeParts DEF BillingInv, BillTypes
<1> DEFINE doc == [bills[b] EXCEPT !.charges = charges,
                                   !.status = IF covered THEN "PAID" ELSE bills[b].status]
           job == [NoWork EXCEPT !.pc = "ceiling", !.id = b, !.fresh = TRUE, !.bill = doc]
<1>1. doc \in Bill /\ doc.deliveries = bills[b].deliveries
  BY <1>0 DEF Bill
<1> HIDE DEF doc
<1>4. /\ job \in Work /\ job.pc = "ceiling" /\ job.bill = doc /\ job.id = b
      /\ job.found = NoFindings
  BY <1>1, NothingTyped DEF NoWork, Work
<1>5. Take(c, job)
  BY DEF StartBillEdit, doc
<1> HIDE DEF job
<1>7. JobShape(c, job)
  <2>1. c \notin Slots
    BY BillsAssumption
  <2>2. \A x \in Bills : job.found[x].deliveries = {}
    BY <1>4 DEF NoFindings, NoBill
  <2> QED BY <1>0, <1>1, <1>4, <2>1, <2>2 DEF JobShape, BillsNameMade
<1>8. JobFits(c, job)
  BY <1>4 DEF JobFits
<1>9. Takes(c, job)
  BY <1>4, <1>5, <1>7, <1>8 DEF Takes, Take, JobSound
<1> QED BY <1>4, <1>9

(* The other bills that were found are at least those that name the pass.    *)
LEMMA BilledAtLeast ==
  ASSUME BillTypes, NEW doc
  PROVE  Billed(doc) \in Nat /\ Pieces(OnPass) \in Nat /\ Pieces(OnPass) <= Billed(doc)
<1> DEFINE S == OnPass \cup OnDeliveries(IF doc.deliveries = {} THEN Moving(deliveries)
                                                           ELSE doc.deliveries)
           F == [b \in Bills |-> Total(bills[b])]
<1>1. OnPass \subseteq S /\ S \subseteq Bills /\ Billed(doc) = Pieces(S)
  BY DEF OnPass, OnDeliveries, Billed
<1> HIDE DEF S
<1>2. \A b \in S : F[b] \in Nat
  BY <1>1, TotalType DEF BillTypes
<1>3. IsFiniteSet(S)
  BY <1>1, BillsAssumption, FS_Subset
<1> HIDE DEF F
<1>4. SumFunctionOnSet(F, OnPass) <= SumFunctionOnSet(F, S)
  BY <1>1, <1>2, <1>3, SumSubset
<1> QED BY <1>1, <1>4, PiecesType DEF BillTypes, Pieces, F

LEMMA ReadBilledTakes ==
  ASSUME BillingInv, NEW c \in Cashiers, ReadBilled(c)
  PROVE  \E job \in Work : Takes(c, job)
<1>0. ReceiptTypes /\ BillTypes /\ work[c] \in Work /\ JobSound(c, work[c])
  BY TypeParts DEF BillingInv, BillTypes, HandsSound, Users
<1> DEFINE old == work[c]
           job == [old EXCEPT !.pc = "insert", !.received = 0]
<1>1. CASE ~Within(old.bill, AtLeastZero(old.received - Billed(old.bill)))
  <2>1. Takes(c, NoWork)
    BY <1>1, IdleSound, NothingTyped DEF ReadBilled, Look, Takes, receiptVars
  <2> QED BY <2>1, NothingTyped
<1>2. CASE Within(old.bill, AtLeastZero(old.received - Billed(old.bill)))
  <2>1. /\ job \in Work /\ job.pc = "insert" /\ job.bill = old.bill /\ job.id = old.id
        /\ job.found = old.found /\ job.fresh = old.fresh
    BY <1>0 DEF Work
  <2>2. JobShape(c, job)
    <3>1. c \notin Slots
      BY BillsAssumption
    <3> QED BY <1>0, <2>1, <3>1 DEF JobShape, JobSound, ReadBilled
  <2>3. ASSUME old.fresh PROVE JobFits(c, job)
    <3>1. old.received = Received(pass.items)
      BY <1>0, <2>3 DEF JobSound, JobFits, ReadBilled
    <3>2. Billed(old.bill) \in Nat /\ Pieces(OnPass) \in Nat /\ Pieces(OnPass) <= Billed(old.bill)
      BY <1>0, BilledAtLeast
    <3>3. old.received \in Nat /\ \A r \in Rows : old.bill.charges[r] \in Nat
      BY <1>0, TotalType DEF Work
    <3>4. Within(old.bill, AtLeastZero(old.received - Pieces(OnPass)))
      BY <1>2, <3>2, <3>3 DEF AtLeastZero, Within
    <3> QED BY <2>1, <3>1, <3>4 DEF JobFits
  <2>4. work' = [work EXCEPT ![c] = job]
    BY <1>2 DEF ReadBilled, Look
  <2>5. UNCHANGED <<pass, deliveries, request, bills, excuses>>
    BY DEF ReadBilled, Look, receiptVars
  <2> HIDE DEF job
  <2>6. Takes(c, job)
    BY <2>1, <2>2, <2>3, <2>4, <2>5 DEF Takes, JobSound
  <2> QED BY <2>1, <2>6
<1> QED BY <1>1, <1>2

LEMMA CheckCeilingTakes ==
  ASSUME BillingInv, NEW c \in Cashiers, CheckCeiling(c)
  PROVE  \E job \in Work : Takes(c, job)
<1>0. ReceiptTypes /\ BillTypes /\ work[c] \in Work /\ JobSound(c, work[c])
  BY TypeParts DEF BillingInv, BillTypes, HandsSound, Users
<1> DEFINE old == work[c]
           job == [old EXCEPT !.pc = "replace"]
<1>1. CASE ~(old.bill.pass => Within(old.bill, EditCeiling(old.id)))
  <2>1. Takes(c, NoWork)
    BY <1>1, IdleSound, NothingTyped DEF CheckCeiling, Look, Takes, receiptVars
  <2> QED BY <2>1, NothingTyped
<1>2. CASE old.bill.pass => Within(old.bill, EditCeiling(old.id))
  <2>1. /\ job \in Work /\ job.pc = "replace" /\ job.bill = old.bill /\ job.id = old.id
        /\ job.found = old.found /\ job.fresh = old.fresh
    BY <1>0 DEF Work
  <2>2. JobShape(c, job)
    <3>1. c \notin Slots
      BY BillsAssumption
    <3> QED BY <1>0, <2>1, <3>1 DEF JobShape, JobSound, CheckCeiling
  <2>3. JobFits(c, job)
    BY <1>2, <2>1 DEF JobFits
  <2>4. work' = [work EXCEPT ![c] = job]
    BY <1>2 DEF CheckCeiling, Look
  <2>5. UNCHANGED <<pass, deliveries, request, bills, excuses>>
    BY DEF CheckCeiling, Look, receiptVars
  <2> HIDE DEF job
  <2>6. Takes(c, job)
    BY <2>1, <2>2, <2>3, <2>4, <2>5 DEF Takes, JobSound
  <2> QED BY <2>1, <2>6
<1> QED BY <1>1, <1>2

LEMMA CashierCrashTakes ==
  ASSUME NEW c \in Cashiers, CashierCrash(c)
  PROVE  Takes(c, NoWork)
  BY IdleSound, NothingTyped DEF CashierCrash, Look, Takes, receiptVars

(* One batch of bills is found: those left out need no writing.              *)
Untold(s, todo) ==
  \A b \in Linked \ todo : Within(bills[b], Received(request[s].pass.items))

LEMMA ReadLinkedTakes ==
  ASSUME BillingInv, NEW s \in Slots, ReadLinked(s)
  PROVE  /\ request[s].pc = "sync" /\ work[s].pc = "idle"
         /\ \/ \E job \in Work : Takes(s, job) /\ job.pc = "write" /\ Untold(s, job.todo)
            \/ /\ UNCHANGED <<pass, deliveries, bills, work, excuses>>
               /\ request' = [request EXCEPT ![s] = Synced(s)]
               /\ Untold(s, {})
<1>0. ReceiptTypes /\ BillTypes /\ BillsNameMade
  BY TypeParts DEF BillingInv
<1>1. PICK n \in Nat : n = Received(request[s].pass.items)
  <2>1. request[s].pass.items \in Items
    BY <1>0 DEF ReceiptTypes, Request, Pass
  <2> QED BY <2>1, ReceivedType
<1> DEFINE new  == [b \in Linked |-> Propagated(bills[b], n)]
           todo == {b \in Linked : \/ ~Editable(bills[b])
                                   \/ new[b] # bills[b]
                                   \/ bills[b].charges = NoCharges /\ n > 0}
           found == [b \in Bills |-> IF b \in todo THEN new[b] ELSE NoBill]
           job == [NoWork EXCEPT !.pc = "write", !.todo = todo, !.fresh = TRUE, !.found = found]
<1>2. Linked \subseteq Bills
  BY DEF Linked, OnPass, OnDeliveries
<1>3. /\ \A b \in Linked : /\ new[b] = Propagated(bills[b], n) /\ new[b] \in Bill
                           /\ new[b].deliveries = bills[b].deliveries
                           /\ Editable(bills[b]) => Within(new[b], n)
  BY <1>0, <1>2, PropagatedType DEF BillTypes
<1>4. Untold(s, todo)
  <2>1. ASSUME NEW b \in Linked \ todo PROVE Within(bills[b], n)
    BY <1>3, <2>1
  <2> QED BY <1>1, <2>1 DEF Untold
<1>5. request[s].pc = "sync" /\ work[s].pc = "idle"
  BY DEF ReadLinked
<1>6. CASE todo = {}
  <2>1. /\ UNCHANGED <<pass, deliveries, bills, work, excuses>>
        /\ request' = [request EXCEPT ![s] = Synced(s)]
    BY <1>1, <1>6 DEF ReadLinked
  <2> QED BY <1>4, <1>5, <1>6, <2>1
<1>7. CASE todo # {}
  <2>1. Look(s, job)
    BY <1>1, <1>7 DEF ReadLinked
  <2>2. found \in [Bills -> Bill]
    BY <1>2, <1>3, NothingTyped
  <2>3. todo \subseteq Bills /\ \A b \in todo : found[b] = Propagated(bills[b], n)
    BY <1>2
  <2>4. \A b \in Bills : found[b].deliveries \subseteq Made
    BY <1>0, <1>3 DEF BillsNameMade, NoBill
  <2> HIDE DEF found, todo
  <2>5. /\ job \in Work /\ job.pc = "write" /\ job.todo = todo /\ job.found = found
        /\ job.bill = NoBill
    BY <2>2, <2>3, NothingTyped DEF NoWork, Work
  <2> HIDE DEF job
  <2>6. JobShape(s, job)
    <3>1. s \notin Cashiers
      BY BillsAssumption
    <3> QED BY <1>5, <1>7, <2>4, <2>5, <3>1 DEF JobShape, NoBill
  <2>7. JobFits(s, job)
    BY <1>1, <2>3, <2>5 DEF JobFits
  <2>8. Takes(s, job)
    BY <2>1, <2>5, <2>6, <2>7 DEF Takes, Look, receiptVars, JobSound
  <2> QED BY <1>4, <1>5, <2>5, <2>8
<1> QED BY <1>6, <1>7

LEMMA TakesKeeps ==
  ASSUME BillingInv, NEW w \in Users, NEW job, Takes(w, job)
  PROVE  BillTypes' /\ HandsSound' /\ BillsNameMade' /\ PassCoversBills'
<1>0. ReceiptTypes /\ BillTypes /\ BillsNameMade /\ HandsSound /\ PassCoversBills
  BY TypeParts DEF BillingInv
<1>1. BillTypes'
  BY <1>0 DEF Takes, BillTypes
<1>2. ASSUME NEW v \in Users PROVE JobSound(v, work[v])'
  <2>1. PICK x \in Work : x = work'[v] /\ JobSound(v, x)
    BY <1>0 DEF Takes, BillTypes, HandsSound
  <2>2. JobSound(v, x)'
    BY <2>1 DEF Takes, JobSound, JobShape, JobFits, Made, OnPass, Live, Pieces, EditCeiling
  <2> QED BY <2>1, <2>2
<1>3. BillsNameMade'
  BY <1>0 DEF Takes, BillsNameMade, Made
<1>4. PassCoversBills'
  BY <1>0 DEF Takes, PassCoversBills, Covers, Picked, OnPass, Live
<1> QED BY <1>1, <1>2, <1>3, <1>4 DEF HandsSound

LEMMA WritesKeeps ==
  ASSUME BillingInv, NEW w, NEW b \in Bills, NEW doc, NEW next, Writes(w, b, doc, next),
         doc.deliveries \subseteq Made,
         \A t \in Slots \ {w} : request'[t] = request[t],
         JobSound(w, next)'
  PROVE  BillTypes' /\ HandsSound' /\ BillsNameMade'
<1>0. ReceiptTypes /\ BillTypes /\ BillsNameMade /\ HandsSound
  BY TypeParts DEF BillingInv
<1>1. BillTypes'
  BY <1>0, OvertakenTyped DEF Writes, BillTypes
<1>2. ASSUME NEW v \in Users PROVE JobSound(v, work[v])'
  <2>1. CASE v = w
    <3>1. work'[v] = next
      BY <2>1 DEF Writes, Overtaken, Users
    <3> QED BY <2>1, <3>1
  <2>2. CASE v # w
    <3>1. PICK old \in Work : old = work[v] /\ JobShape(v, old)
      BY <1>0 DEF BillTypes, HandsSound, JobSound
    <3>2. PICK x \in Work : x = work'[v]
      BY <1>1 DEF BillTypes
    <3>3. x = [old EXCEPT !.fresh = FALSE]
      BY <2>2, <3>1, <3>2 DEF Writes, Overtaken, Users
    <3>4. /\ x.pc = old.pc /\ x.todo = old.todo /\ x.id = old.id /\ x.bill = old.bill
          /\ x.found = old.found /\ ~x.fresh
      BY <3>3 DEF Work
    <3>5. JobShape(v, x)'
      BY <2>2, <3>1, <3>4 DEF JobShape, Writes, Made
    <3>6. JobSound(v, x)'
      BY <3>4, <3>5 DEF JobSound
    <3> QED BY <3>2, <3>6
  <2> QED BY <2>1, <2>2
<1>3. BillsNameMade'
  BY <1>0 DEF Writes, BillsNameMade, Made, BillTypes
<1> QED BY <1>1, <1>2, <1>3 DEF HandsSound

-----------------------------------------------------------------------------
(* What is billed. *)

(* What a line of a bill counts for against the ceiling of its pass. *)
Charges(doc, r) ==
  IF doc.status \notin {"NONE", "CANCELLED"} /\ doc.pass THEN doc.charges[r] ELSE 0

LEMMA ChargesType ==
  ASSUME NEW doc \in Bill, NEW r \in Rows
  PROVE  Charges(doc, r) \in Nat /\ Charges(doc, r) <= doc.charges[r]
  BY TotalType DEF Charges

LEMMA PickedType ==
  ASSUME bills \in [Bills -> Bill], NEW pick \in [Bills -> Rows], NEW S \in SUBSET Bills
  PROVE  Picked(pick, S) \in Nat /\ Picked(pick, S) <= Pieces(S)
<1> DEFINE F == [b \in Bills |-> bills[b].charges[pick[b]]]
           G == [b \in Bills |-> Total(bills[b])]
<1>1. \A b \in S : F[b] \in Nat /\ G[b] \in Nat /\ F[b] <= G[b]
  BY TotalType
<1>2. IsFiniteSet(S)
  BY BillsAssumption, FS_Subset
<1> HIDE DEF F, G
<1>3. SumFunctionOnSet(F, S) \in Nat
  BY <1>1, <1>2, SumNat
<1>4. SumFunctionOnSet(F, S) <= SumFunctionOnSet(G, S)
  BY <1>1, <1>2, SumMonotone
<1> QED BY <1>3, <1>4 DEF Picked, Pieces, F, G

(* All the bills but one charge no more than all. *)
LEMMA PiecesLess ==
  ASSUME BillTypes, NEW b
  PROVE  /\ Pieces(OnPass) \in Nat /\ Pieces(OnPass \ {b}) \in Nat
         /\ Pieces(OnPass \ {b}) <= Pieces(OnPass)
<1> DEFINE F == [x \in Bills |-> Total(bills[x])]
<1>1. OnPass \subseteq Bills /\ IsFiniteSet(OnPass)
  BY BillsAssumption, FS_Subset DEF OnPass
<1>2. \A x \in OnPass : F[x] \in Nat
  BY <1>1, TotalType DEF BillTypes
<1> HIDE DEF F
<1>3. SumFunctionOnSet(F, OnPass \ {b}) <= SumFunctionOnSet(F, OnPass)
  BY <1>1, <1>2, SumSubset
<1> QED BY <1>1, <1>3, PiecesType DEF BillTypes, Pieces, F

LEMMA PickedWith ==
  ASSUME BillTypes, NEW pick \in [Bills -> Rows], NEW b \in Bills
  PROVE  /\ Picked(pick, OnPass) = Picked(pick, OnPass \ {b}) + Charges(bills[b], pick[b])
         /\ Picked(pick, OnPass \ {b}) \in Nat
<1> DEFINE F == [x \in Bills |-> bills[x].charges[pick[x]]]
<1>1. OnPass \subseteq Bills /\ bills[b] \in Bill /\ Charges(bills[b], pick[b]) \in Nat
  BY ChargesType DEF OnPass, BillTypes
<1>2. Picked(pick, OnPass \ {b}) \in Nat
  BY <1>1, PickedType DEF BillTypes
<1>3. CASE b \in OnPass
  <2>1. \A x \in OnPass : F[x] \in Int
    BY <1>1, TotalType DEF BillTypes
  <2>2. IsFiniteSet(OnPass)
    BY <1>1, BillsAssumption, FS_Subset
  <2>3. F[b] = Charges(bills[b], pick[b])
    BY <1>3 DEF OnPass, Live, Charges
  <2> HIDE DEF F
  <2>4. SumFunctionOnSet(F, OnPass) = F[b] + SumFunctionOnSet(F, OnPass \ {b})
    BY <1>3, <2>1, <2>2, SumRemove
  <2> QED BY <1>1, <1>2, <2>3, <2>4 DEF Picked, F
<1>4. CASE b \notin OnPass
  <2>1. OnPass \ {b} = OnPass /\ Charges(bills[b], pick[b]) = 0
    BY <1>4 DEF OnPass, Live, Charges
  <2>2. Picked(pick, OnPass) = Picked(pick, OnPass \ {b})
    BY <2>1, Zenon
  <2>3. PICK n \in Nat : n = Picked(pick, OnPass \ {b})
    BY <1>2
  <2> QED BY <1>2, <2>1, <2>2, <2>3
<1> QED BY <1>3, <1>4

(* The bills but the one that is written. *)
LEMMA PickedBut ==
  ASSUME BillTypes, NEW pick \in [Bills -> Rows], NEW b \in Bills, NEW doc \in Bill,
         bills' = [bills EXCEPT ![b] = doc]
  PROVE  Picked(pick, OnPass)' = Picked(pick, OnPass \ {b}) + Charges(doc, pick[b])
<1> DEFINE F == [x \in Bills |-> bills[x].charges[pick[x]]]
           G == [x \in Bills |-> bills'[x].charges[pick[x]]]
<1>1. bills' \in [Bills -> Bill] /\ bills'[b] = doc /\ \A x \in Bills \ {b} : bills'[x] = bills[x]
  BY DEF BillTypes
<1>2. PICK T \in SUBSET Bills : T = OnPass \ {b}
  BY DEF OnPass
<1>3. OnPass' \ {b} = T /\ OnPass' \subseteq Bills /\ b \notin T
  BY <1>1, <1>2 DEF OnPass, Live
<1>4. \A x \in T : F[x] = G[x]
  BY <1>1, <1>3
<1>5. IsFiniteSet(T) /\ IsFiniteSet(OnPass')
  BY <1>3, BillsAssumption, FS_Subset
<1>6. \A x \in Bills : G[x] \in Int
  BY <1>1, TotalType
<1>7. b \in OnPass' => G[b] = Charges(doc, pick[b])
  BY <1>1 DEF OnPass, Live, Charges
<1>8. b \notin OnPass' => Charges(doc, pick[b]) = 0
  BY <1>1 DEF OnPass, Live, Charges
<1>9. Picked(pick, OnPass)' = SumFunctionOnSet(G, OnPass') /\ Picked(pick, T) = SumFunctionOnSet(F, T)
  BY DEF Picked
<1>10. Picked(pick, T) \in Nat
  BY PickedType DEF BillTypes
<1> HIDE DEF F, G
<1>11. SumFunctionOnSet(F, T) = SumFunctionOnSet(G, T)
  BY <1>4, <1>5, SumSame
<1>12. CASE b \in OnPass'
  <2>1. SumFunctionOnSet(G, OnPass') = G[b] + SumFunctionOnSet(G, OnPass' \ {b})
    BY <1>3, <1>5, <1>6, <1>12, SumRemove
  <2>2. Charges(doc, pick[b]) \in Nat
    BY ChargesType
  <2>3. SumFunctionOnSet(G, OnPass' \ {b}) = SumFunctionOnSet(F, T)
    BY <1>3, <1>11, Zenon
  <2>4. Picked(pick, OnPass \ {b}) = Picked(pick, T)
    BY <1>2, Zenon
  <2>5. Picked(pick, OnPass)' = Charges(doc, pick[b]) + Picked(pick, T)
    BY <1>7, <1>9, <1>12, <2>1, <2>3
  <2> QED BY <1>10, <2>2, <2>4, <2>5
<1>13. CASE b \notin OnPass'
  <2>1. OnPass' = T
    BY <1>3, <1>13
  <2>2. Picked(pick, OnPass \ {b}) = Picked(pick, T) /\ Picked(pick, OnPass)' = Picked(pick, T)
    BY <1>2, <1>9, <1>11, <2>1, Zenon
  <2> QED BY <1>8, <1>10, <1>13, <2>2
<1> QED BY <1>12, <1>13

(* No line of a bill grows but up to what the other bills leave. *)
Fills(b, doc, r) ==
  \/ Pieces(OnPass \ {b}) + Charges(doc, r) <= Chargeable(pass.items, deliveries)
  \/ Charges(doc, r) <= Charges(bills[b], r)

LEMMA CeilingKept ==
  ASSUME BillingInv, NEW w, NEW b \in Bills, NEW doc, NEW next, Writes(w, b, doc, next),
         \/ excuses' \cap {"raced", "shrunk", "reopened"} # {}
         \/ \A r \in Rows : Fills(b, doc, r)
  PROVE  PassCoversBills'
<1>0. ReceiptTypes /\ BillTypes /\ PassCoversBills
  BY TypeParts DEF BillingInv
<1>1. Chargeable(pass.items, deliveries)' = Chargeable(pass.items, deliveries)
  BY DEF Writes
<1>2. PICK n \in Nat : n = Chargeable(pass.items, deliveries)
  BY <1>0, ReceivedType, DeliveredType DEF Chargeable, LargerOf, ReceiptTypes, Pass
<1>6. CASE excuses' \cap {"raced", "shrunk", "reopened"} # {}
  BY <1>6 DEF PassCoversBills
<1>7. CASE excuses \cap {"raced", "shrunk", "reopened"} # {}
  BY <1>7 DEF PassCoversBills, Writes
<1>8. CASE Covers(pass.items, deliveries) /\ \A r \in Rows : Fills(b, doc, r)
  <2>1. ASSUME NEW pick \in [Bills -> Rows] PROVE Picked(pick, OnPass)' <= n
    <3>1. Picked(pick, OnPass)' = Picked(pick, OnPass \ {b}) + Charges(doc, pick[b])
      BY <1>0, PickedBut DEF Writes
    <3>2. /\ Picked(pick, OnPass) = Picked(pick, OnPass \ {b}) + Charges(bills[b], pick[b])
          /\ Picked(pick, OnPass \ {b}) \in Nat
      BY <1>0, PickedWith
    <3>3. OnPass \ {b} \in SUBSET Bills
      BY DEF OnPass
    <3>4. Picked(pick, OnPass \ {b}) <= Pieces(OnPass \ {b}) /\ Pieces(OnPass \ {b}) \in Nat
      BY <1>0, <3>3, PickedType, PiecesType DEF BillTypes
    <3>5. Charges(doc, pick[b]) \in Nat /\ Charges(bills[b], pick[b]) \in Nat
      BY <1>0, ChargesType DEF Writes, BillTypes
    <3>6. Picked(pick, OnPass) <= n
      BY <1>2, <1>8 DEF Covers
    <3>7. Fills(b, doc, pick[b])
      BY <1>8
    <3> QED BY <1>2, <3>1, <3>2, <3>4, <3>5, <3>6, <3>7 DEF Fills
  <2>2. Covers(pass.items, deliveries)'
    BY <1>1, <1>2, <2>1 DEF Covers
  <2> QED BY <2>2 DEF PassCoversBills
<1> QED BY <1>0, <1>6, <1>7, <1>8 DEF PassCoversBills

-----------------------------------------------------------------------------
(* Steps that write a bill. *)

(* A write leaves what a correction has reached as it is, or reaches more. *)
Reaches(b, doc) ==
  b \in Linked' => \/ Follows(doc)
                   \/ b \in Linked /\ (Follows(bills[b]) => Follows(doc))

LEMMA ReachKept ==
  ASSUME BillingInv, NEW w, NEW b \in Bills, NEW doc, NEW next, Writes(w, b, doc, next),
         \A t \in Slots \ {w} : request'[t] = request[t],
         Reaches(b, doc) \/ excuses' \cap Unreached # {},
         ~(w \in Slots /\ Pursues(w))
  PROVE  CorrectionsPursued'
<1>0. BillTypes /\ CorrectionsPursued
  BY TypeParts DEF BillingInv
<1>1. bills'[b] = doc /\ \A x \in Bills \ {b} : bills'[x] = bills[x]
  BY <1>0 DEF BillTypes, Writes
<1>2. CASE excuses' \cap Unreached # {}
  BY <1>2 DEF CorrectionsPursued
<1>3. CASE excuses \cap Unreached # {}
  BY <1>3 DEF CorrectionsPursued, Writes
<1>4. CASE Reaches(b, doc) /\ \A x \in Linked : Follows(bills[x])
  <2>1. Linked \subseteq Bills /\ Linked' \subseteq Bills
    BY DEF Linked, OnPass, OnDeliveries
  <2>2. \A x \in Linked' : x # b => x \in Linked
    BY <1>1 DEF Linked, OnPass, OnDeliveries, Live, Writes
  <2>3. ASSUME NEW x \in Bills, NEW y, y = bills'[x], Follows(y) PROVE Follows(bills[x])'
    BY <2>3 DEF Follows, Writes
  <2>4. ASSUME NEW x \in Linked' PROVE Follows(bills[x])'
    <3>1. CASE x = b
      <4>1. Follows(doc)
        BY <1>4, <2>4, <3>1 DEF Reaches
      <4> QED BY <1>1, <2>3, <3>1, <4>1
    <3>2. CASE x # b
      <4>1. Follows(bills[x]) /\ bills'[x] = bills[x] /\ x \in Bills
        BY <1>1, <1>4, <2>1, <2>2, <2>4, <3>2
      <4> QED BY <2>3, <4>1
    <3> QED BY <3>1, <3>2
  <2> QED BY <2>4 DEF CorrectionsPursued
<1>5. ASSUME NEW s \in Slots, Pursues(s) PROVE CorrectionsPursued'
  <2>1. s # w
    BY <1>5
  <2>2. request'[s] = request[s] /\ pass' = pass
    BY <2>1 DEF Writes
  <2>3. work'[s] = [work[s] EXCEPT !.fresh = FALSE] /\ work[s] \in Work
    BY <1>0, <2>1 DEF Writes, Overtaken, Users, BillTypes
  <2>4. work'[s].pc = work[s].pc /\ ~work'[s].fresh
    BY <2>3 DEF Work
  <2>5. Pursues(s)'
    BY <1>5, <2>2, <2>4 DEF Pursues
  <2> QED BY <2>5 DEF CorrectionsPursued
<1> QED BY <1>0, <1>2, <1>3, <1>4, <1>5 DEF CorrectionsPursued

BillsInv == BillTypes /\ HandsSound /\ BillsNameMade /\ PassCoversBills /\ CorrectionsPursued

LEMMA InsertBillKeeps ==
  ASSUME BillingInv, NEW c \in Cashiers, InsertBill(c)
  PROVE  BillsInv'
<1> DEFINE job == work[c]
           b   == job.id
           doc == job.bill
<1>0. /\ ReceiptTypes /\ BillTypes /\ work[c] \in Work /\ JobShape(c, job)
      /\ job.fresh => JobFits(c, job)
  BY TypeParts DEF BillingInv, BillTypes, HandsSound, Users, JobSound
<1>1. b \in Bills /\ doc \in Bill /\ doc.deliveries \subseteq Made
  BY <1>0, WorkFields DEF JobShape, InsertBill
<1>2. Writes(c, b, doc, NoWork)
  BY <1>0, <1>1, NothingTyped DEF InsertBill, WriteBill, Writes, BillTypes, Excuses
<1>3. \A t \in Slots \ {c} : request'[t] = request[t]
  BY DEF InsertBill
<1>4. JobSound(c, NoWork)'
  BY IdleSound
<1>5. BillTypes' /\ HandsSound' /\ BillsNameMade'
  BY <1>1, <1>2, <1>3, <1>4, WritesKeeps
<1>6. c \notin Slots
  BY BillsAssumption
<1>7. CASE ~job.fresh
  <2>1. "raced" \in excuses'
    BY <1>7 DEF InsertBill, WriteBill
  <2>2. PassCoversBills' /\ CorrectionsPursued'
    BY <2>1 DEF PassCoversBills, CorrectionsPursued, Unreached
  <2> QED BY <1>5, <2>2 DEF BillsInv
<1>8. CASE job.fresh
  <2>1. Within(doc, AtLeastZero(Received(pass.items) - Pieces(OnPass)))
    BY <1>0, <1>8 DEF JobFits, InsertBill
  <2>2. Received(pass.items) \in Nat /\ DeliveredInAll(deliveries) \in Nat
    BY <1>0, ReceivedType, DeliveredType DEF ReceiptTypes, Pass
  <2>3. /\ Pieces(OnPass) \in Nat /\ Pieces(OnPass \ {b}) \in Nat
        /\ Pieces(OnPass \ {b}) <= Pieces(OnPass)
    BY <1>0, PiecesLess
  <2>4. \A r \in Rows : /\ doc.charges[r] \in Nat /\ Charges(doc, r) \in Nat
                        /\ Charges(doc, r) <= doc.charges[r] /\ Charges(bills[b], r) \in Nat
    BY <1>0, <1>1, TotalType, ChargesType DEF BillTypes
  <2>5. \A r \in Rows : Fills(b, doc, r)
    BY <2>1, <2>2, <2>3, <2>4 DEF AtLeastZero, Chargeable, LargerOf, Fills, Within
  <2>6. PassCoversBills'
    BY <1>1, <1>2, <2>5, CeilingKept
  <2>7. Follows(doc)
    BY <2>1, <2>2, <2>3, <2>4 DEF AtLeastZero, Follows, Within
  <2>8. CorrectionsPursued'
    BY <1>1, <1>2, <1>3, <1>6, <2>7, ReachKept DEF Reaches
  <2> QED BY <1>5, <2>6, <2>8 DEF BillsInv
<1> QED BY <1>7, <1>8

LEMMA ReplaceBillKeeps ==
  ASSUME BillingInv, NEW c \in Cashiers, ReplaceBill(c)
  PROVE  BillsInv'
<1> DEFINE job == work[c]
           b   == job.id
           doc == job.bill
<1>0. /\ ReceiptTypes /\ BillTypes /\ work[c] \in Work /\ JobShape(c, job)
      /\ job.fresh => JobFits(c, job)
  BY TypeParts DEF BillingInv, BillTypes, HandsSound, Users, JobSound
<1>1. b \in Bills /\ doc \in Bill /\ doc.deliveries \subseteq Made
  BY <1>0, WorkFields DEF JobShape, ReplaceBill
<1>2. Writes(c, b, doc, NoWork)
  BY <1>0, <1>1, NothingTyped DEF ReplaceBill, WriteBill, Writes, BillTypes, Excuses
<1>3. \A t \in Slots \ {c} : request'[t] = request[t]
  BY DEF ReplaceBill
<1>4. JobSound(c, NoWork)'
  BY IdleSound
<1>5. BillTypes' /\ HandsSound' /\ BillsNameMade'
  BY <1>1, <1>2, <1>3, <1>4, WritesKeeps
<1>6. c \notin Slots
  BY BillsAssumption
<1>7. Received(pass.items) \in Nat /\ DeliveredInAll(deliveries) \in Nat
  BY <1>0, ReceivedType, DeliveredType DEF ReceiptTypes, Pass
<1>8. CorrectionsPursued'
  <2>1. CASE ~Within(doc, Received(pass.items))
    <3>1. "delivered" \in excuses'
      BY <2>1 DEF ReplaceBill, WriteBill
    <3> QED BY <3>1 DEF CorrectionsPursued, Unreached
  <2>2. CASE Within(doc, Received(pass.items))
    <3>1. Follows(doc)
      BY <2>2 DEF Follows
    <3> QED BY <1>1, <1>2, <1>3, <1>6, <3>1, ReachKept DEF Reaches
  <2> QED BY <2>1, <2>2
<1>9. PassCoversBills'
  <2>1. CASE ~job.fresh
    <3>1. "raced" \in excuses'
      BY <2>1 DEF ReplaceBill, WriteBill
    <3> QED BY <3>1 DEF PassCoversBills
  <2>2. CASE ~doc.pass
    <3>1. \A r \in Rows : Charges(doc, r) = 0 /\ Charges(bills[b], r) \in Nat
      BY <1>0, <1>1, <2>2, ChargesType DEF Charges, BillTypes
    <3>2. \A r \in Rows : Fills(b, doc, r)
      BY <3>1 DEF Fills
    <3> QED BY <1>1, <1>2, <3>2, CeilingKept
  <2>3. CASE job.fresh /\ doc.pass
    <3>1. Within(doc, EditCeiling(b))
      BY <1>0, <2>3 DEF JobFits, ReplaceBill
    <3>2. Pieces(OnPass \ {b}) \in Nat
      BY <1>0, PiecesLess
    <3>3. \A r \in Rows : /\ doc.charges[r] \in Nat /\ Charges(doc, r) \in Nat
                          /\ Charges(doc, r) <= doc.charges[r] /\ Charges(bills[b], r) \in Nat
      BY <1>0, <1>1, TotalType, ChargesType DEF BillTypes
    <3>4. PICK m \in Nat, n \in Nat, k \in Nat :
            /\ m = Received(pass.items) /\ n = DeliveredInAll(deliveries)
            /\ k = Pieces(OnPass \ {b})
      BY <1>7, <3>2
    <3>5. \A r \in Rows : doc.charges[r] <= (IF n - k < 0 THEN 0 ELSE n - k)
      BY <3>1, <3>4 DEF EditCeiling, AtLeastZero, Within
    <3>6. Chargeable(pass.items, deliveries) = (IF m > n THEN m ELSE n)
      BY <3>4 DEF Chargeable, LargerOf
    <3>7. ASSUME NEW r \in Rows PROVE Fills(b, doc, r)
      <4>1. PICK x \in Nat, y \in Nat, z \in Nat :
              x = doc.charges[r] /\ y = Charges(doc, r) /\ z = Charges(bills[b], r)
        BY <3>3
      <4>2. x <= (IF n - k < 0 THEN 0 ELSE n - k) /\ y <= x
        BY <3>3, <3>5, <4>1
      <4>3. k + y <= (IF m > n THEN m ELSE n) \/ y <= z
        BY <4>1, <4>2
      <4> QED BY <3>4, <3>6, <4>1, <4>3 DEF Fills
    <3> QED BY <1>1, <1>2, <3>7, CeilingKept
  <2> QED BY <2>1, <2>2, <2>3
<1> QED BY <1>5, <1>8, <1>9 DEF BillsInv

LEMMA SetBillKeeps ==
  ASSUME BillingInv, NEW b \in Bills, NEW st \in {"DRAFT", "PAID", "CANCELLED"},
         NEW more, SetBill(b, st, more), more \subseteq Excuses,
         \/ "reopened" \in more
         \/ st = "CANCELLED"
         \/ bills[b].status = "DRAFT"
  PROVE  BillsInv'
<1>0. BillTypes /\ BillsNameMade /\ bills[b] \in Bill
  BY TypeParts DEF BillingInv, BillTypes
<1>1. PICK doc \in Bill :
        /\ doc = [bills[b] EXCEPT !.status = st] /\ doc.status = st
        /\ doc.pass = bills[b].pass /\ doc.deliveries = bills[b].deliveries
        /\ doc.charges = bills[b].charges /\ doc.noted = bills[b].noted
  <2>1. [bills[b] EXCEPT !.status = st] \in Bill
    BY <1>0 DEF Bill
  <2> QED BY <1>0, <2>1 DEF Bill
<1>2. Writes(None, b, doc, NoWork)
  BY <1>0, <1>1, NothingTyped DEF SetBill, Writes, BillTypes
<1>3. \A t \in Slots \ {None} : request'[t] = request[t]
  BY DEF SetBill
<1>4. JobSound(None, NoWork)' /\ doc.deliveries \subseteq Made
  BY <1>0, <1>1, IdleSound DEF BillsNameMade
<1>5. BillTypes' /\ HandsSound' /\ BillsNameMade'
  BY <1>2, <1>3, <1>4, WritesKeeps
<1>6. CASE "reopened" \in more
  <2>1. "reopened" \in excuses'
    BY <1>6 DEF SetBill
  <2>2. PassCoversBills' /\ CorrectionsPursued'
    BY <2>1 DEF PassCoversBills, CorrectionsPursued, Unreached
  <2> QED BY <1>5, <2>2 DEF BillsInv
<1>7. CASE st = "CANCELLED" \/ bills[b].status = "DRAFT"
  <2>1. \A r \in Rows : Fills(b, doc, r)
    BY <1>0, <1>1, <1>7, ChargesType DEF Charges, Fills
  <2>2. PassCoversBills'
    BY <1>2, <2>1, CeilingKept
  <2>3. bills'[b] = doc /\ deliveries' = deliveries
    BY <1>0, <1>2 DEF Writes, BillTypes
  <2>4. b \in Linked' => b \in Linked /\ bills[b].status = "DRAFT"
    BY <1>1, <1>7, <2>3 DEF Linked, OnPass, OnDeliveries, Live
  <2>5. Reaches(b, doc)
    BY <1>1, <2>4 DEF Reaches, Follows, Within
  <2>6. CorrectionsPursued'
    BY <1>2, <1>3, <2>5, ReachKept, IdsAssumption
  <2> QED BY <1>5, <2>2, <2>6 DEF BillsInv
<1> QED BY <1>6, <1>7

LEMMA StatusSteps ==
  ASSUME BillingInv, NEW b \in Bills
  PROVE  /\ PayBill(b) => BillsInv'
         /\ CancelBill(b) => BillsInv'
         /\ ReversePayment(b) => BillsInv'
         /\ \A st \in {"DRAFT", "PAID"} : SetBillStatus(b, st) => BillsInv'
<1>1. PayBill(b) => BillsInv'
  BY SetBillKeeps DEF PayBill, Excuses
<1>2. CancelBill(b) => BillsInv'
  BY SetBillKeeps DEF CancelBill, Excuses
<1>3. ASSUME NEW st \in {"DRAFT", "PAID"}, SetBillStatus(b, st) PROVE BillsInv'
  <2>1. bills[b].status \in {"DRAFT", "PAID", "CANCELLED"}
    BY <1>3, TypeParts DEF BillingInv, BillTypes, Bill, SetBillStatus
  <2>2. CASE Editable(bills[b])
    <3>1. bills[b].status = "DRAFT" /\ SetBill(b, st, {})
      BY <1>3, <2>1, <2>2 DEF Editable, SetBillStatus
    <3> QED BY <3>1, SetBillKeeps DEF Excuses
  <2>3. CASE ~Editable(bills[b])
    <3>1. SetBill(b, st, {"reopened"})
      BY <1>3, <2>3 DEF SetBillStatus
    <3> QED BY <3>1, SetBillKeeps DEF Excuses
  <2> QED BY <2>2, <2>3
<1>4. ReversePayment(b) => BillsInv'
  BY SetBillKeeps DEF ReversePayment, Excuses
<1> QED BY <1>1, <1>2, <1>3, <1>4

LEMMA WriteLinkedKeeps ==
  ASSUME BillingInv, NEW s \in Slots, NEW b \in Bills, WriteLinked(s, b)
  PROVE  BillsInv'
<1>p. PICK job \in Work : job = work[s]
  BY TypeParts DEF BillingInv, BillTypes, Users
<1> DEFINE rest == job.todo \ {b}
           doc  == job.found[b]
           left == [job EXCEPT !.todo = rest, !.found[b] = NoBill]
           next == IF rest = {} THEN NoWork ELSE left
<1>0. /\ ReceiptTypes /\ BillTypes /\ BillsNameMade /\ CorrectionsPursued
      /\ JobShape(s, job) /\ (job.fresh => JobFits(s, job))
  BY <1>p, TypeParts DEF BillingInv, HandsSound, Users, JobSound
<1>1. job.pc = "write" /\ b \in job.todo /\ request[s].pc = "sync"
  BY <1>p DEF WriteLinked
<1>2. /\ doc \in Bill /\ doc.deliveries \subseteq Made /\ rest \subseteq Bills
      /\ \A x \in Bills : job.found[x].deliveries \subseteq Made
  BY <1>0, <1>1, WorkFields DEF JobShape
<1>3. /\ left \in Work /\ left.pc = job.pc /\ left.todo = rest /\ left.fresh = job.fresh
      /\ left.bill = job.bill /\ left.found = [job.found EXCEPT ![b] = NoBill]
  <2>1. [job.found EXCEPT ![b] = NoBill] \in [Bills -> Bill]
    BY <1>0, NothingTyped, WorkFields
  <2> QED BY <1>0, <1>2, <2>1 DEF Work
<1> HIDE DEF left
<1>4. next \in Work
  BY <1>3, NothingTyped
<1>5. /\ bills' = [bills EXCEPT ![b] = doc] /\ work' = Overtaken(s, next)
      /\ excuses' = excuses \cup (IF job.fresh THEN {} ELSE {"raced"})
      /\ UNCHANGED <<pass, deliveries>>
      /\ request' = IF rest = {} THEN [request EXCEPT ![s] = Synced(s)] ELSE request
  BY <1>p DEF WriteLinked, WriteBill, left
<1>6. Writes(s, b, doc, next)
  BY <1>0, <1>2, <1>4, <1>5 DEF Writes, BillTypes, Excuses
<1>7. \A t \in Slots \ {s} : request'[t] = request[t]
  BY <1>5
<1>8. bills'[b] = doc /\ \A x \in Bills \ {b} : bills'[x] = bills[x]
  BY <1>0, <1>5 DEF BillTypes
<1>9. s \notin Cashiers
  BY BillsAssumption
<1>10. JobSound(s, next)'
  <2>1. CASE rest = {}
    BY <2>1, IdleSound
  <2>2. CASE rest # {}
    <3>1. next = left /\ request' = request /\ Made' = Made
      BY <1>5, <2>2 DEF Made
    <3>2. \A x \in Bills : left.found[x].deliveries \subseteq Made
      <4>1. \A x \in Bills : left.found[x] = job.found[x] \/ left.found[x] = NoBill
        BY <1>0, <1>3, WorkFields
      <4>2. NoBill.deliveries = {}
        BY DEF NoBill
      <4> QED BY <1>2, <4>1, <4>2
    <3>3. JobShape(s, left)'
      BY <1>0, <1>1, <1>3, <1>9, <2>2, <3>1, <3>2 DEF JobShape
    <3>4. ASSUME left.fresh PROVE JobFits(s, left)'
      <4>1. \A x \in job.todo :
              job.found[x] = Propagated(bills[x], Received(request[s].pass.items))
        BY <1>0, <1>1, <1>3, <3>4 DEF JobFits
      <4>2. ASSUME NEW x \in left.todo
            PROVE left.found[x] = Propagated(bills'[x], Received(request[s].pass.items))
        <5>1. x \in job.todo /\ x # b /\ x \in Bills
          BY <1>2, <1>3, <4>2
        <5>2. left.found[x] = job.found[x]
          BY <1>0, <1>3, <5>1, WorkFields
        <5> QED BY <1>8, <4>1, <5>1, <5>2
      <4> QED BY <1>1, <1>3, <3>1, <4>2 DEF JobFits
    <3> QED BY <3>1, <3>3, <3>4 DEF JobSound
  <2> QED BY <2>1, <2>2
<1>11. BillTypes' /\ HandsSound' /\ BillsNameMade'
  BY <1>2, <1>6, <1>7, <1>10, WritesKeeps
<1>12. CASE ~job.fresh
  <2>1. "raced" \in excuses'
    BY <1>5, <1>12
  <2>2. PassCoversBills' /\ CorrectionsPursued'
    BY <2>1 DEF PassCoversBills, CorrectionsPursued, Unreached
  <2> QED BY <1>11, <2>2 DEF BillsInv
<1>13. CASE job.fresh
  <2>1. PICK n \in Nat : n = Received(request[s].pass.items)
    <3>1. request[s].pass.items \in Items
      BY <1>0 DEF ReceiptTypes, Request, Pass
    <3> QED BY <3>1, ReceivedType
  <2>2. bills[b] \in Bill /\ doc = Propagated(bills[b], n)
    BY <1>0, <1>1, <1>13, <2>1 DEF JobFits, BillTypes
  <2>3. /\ doc.status = bills[b].status /\ doc.pass = bills[b].pass
        /\ doc.deliveries = bills[b].deliveries
        /\ \A r \in Rows : doc.charges[r] <= bills[b].charges[r]
        /\ Editable(bills[b]) => Within(doc, n)
        /\ ~Editable(bills[b]) => doc.noted
        /\ \A r \in Rows : doc.charges[r] \in Nat /\ bills[b].charges[r] \in Nat
    <3> DEFINE P(d) == /\ d.status = bills[b].status /\ d.pass = bills[b].pass
                       /\ d.deliveries = bills[b].deliveries
                       /\ \A r \in Rows : d.charges[r] <= bills[b].charges[r]
                       /\ Editable(bills[b]) => Within(d, n)
                       /\ ~Editable(bills[b]) => d.noted
    <3>1. P(Propagated(bills[b], n))
      BY <2>2, PropagatedType
    <3>2. \A r \in Rows : doc.charges[r] \in Nat /\ bills[b].charges[r] \in Nat
      BY <1>2, <2>2, TotalType
    <3> HIDE DEF P
    <3>3. P(doc)
      BY <2>2, <3>1
    <3> QED BY <3>2, <3>3 DEF P
  <2>4. \A r \in Rows : Fills(b, doc, r)
    BY <2>3 DEF Charges, Fills
  <2>5. PassCoversBills'
    BY <1>6, <2>4, CeilingKept
  <2>6. b \in Linked' => b \in Linked
    BY <1>5, <1>8, <2>3 DEF Linked, OnPass, OnDeliveries, Live
  <2>7. CASE ~Pursues(s)
    <3>1. Received(pass.items) \in Nat
      BY <1>0, ReceivedType DEF ReceiptTypes, Pass
    <3>2. Follows(bills[b]) => Follows(doc)
      BY <2>3, <3>1 DEF Follows, Editable, Within
    <3>3. CorrectionsPursued'
      BY <1>6, <1>7, <2>6, <2>7, <3>2, ReachKept DEF Reaches
    <3> QED BY <1>11, <2>5, <3>3 DEF BillsInv
  <2>8. CASE Pursues(s)
    <3>1. /\ request[s].pass.items = pass.items
          /\ \A x \in Linked \ job.todo : Follows(bills[x])
      BY <1>p, <1>1, <1>13, <2>8 DEF Pursues
    <3>2. b \in Linked => Follows(doc)
      BY <2>1, <2>3, <3>1 DEF Follows, Editable, Linked, OnPass, OnDeliveries, Live, Bill
    <3>3. Linked' \subseteq Bills /\ \A x \in Linked' : x # b => x \in Linked
      BY <1>5, <1>8 DEF Linked, OnPass, OnDeliveries, Live
    <3>4. ASSUME NEW y \in Bill, Follows(y) PROVE Follows(y)'
      BY <1>5, <3>4 DEF Follows
    <3>5. ASSUME NEW x \in Linked' \ rest PROVE Follows(bills[x])'
      <4>1. CASE x = b
        <5>1. Follows(doc)
          BY <2>6, <3>2, <3>5, <4>1
        <5>2. Follows(doc)'
          BY <1>5, <5>1 DEF Follows
        <5> QED BY <1>8, <4>1, <5>1, <1>5 DEF Follows
      <4>2. CASE x # b
        <5>1. Follows(bills[x]) /\ bills'[x] = bills[x]
          BY <1>8, <3>1, <3>3, <3>5, <4>2
        <5> QED BY <1>5, <5>1 DEF Follows
      <4> QED BY <4>1, <4>2
    <3>6. CASE rest = {}
      BY <1>11, <2>5, <3>5, <3>6 DEF BillsInv, CorrectionsPursued
    <3>7. CASE rest # {}
      <4>1. work'[s] = left
        BY <1>5, <3>7 DEF Overtaken, Users
      <4>2. request' = request /\ pass' = pass
        BY <1>5, <3>7
      <4>3. Pursues(s)'
        BY <1>1, <1>3, <3>1, <3>5, <4>1, <4>2 DEF Pursues
      <4> QED BY <1>11, <2>5, <4>3 DEF BillsInv, CorrectionsPursued
    <3> QED BY <3>6, <3>7
  <2> QED BY <2>7, <2>8
<1> QED BY <1>12, <1>13

-----------------------------------------------------------------------------
(* Who tells the bills of a correction. *)

LEMMA TakesReach ==
  ASSUME BillingInv, NEW w \in Users, NEW job, Takes(w, job),
         w \in Slots /\ Pursues(w) =>
           work[w].pc = "idle" /\ job.pc = "write" /\ Untold(w, job.todo)
  PROVE  CorrectionsPursued'
<1>0. BillTypes /\ CorrectionsPursued
  BY TypeParts DEF BillingInv
<1>1. UNCHANGED <<pass, deliveries, request, bills, excuses>> /\ work' = [work EXCEPT ![w] = job]
  BY DEF Takes
<1>2. Linked' = Linked
  BY <1>1 DEF Linked, OnPass, OnDeliveries, Live
<1>3. \A b \in Bills : Follows(bills[b]) => Follows(bills[b])'
  BY <1>1 DEF Follows
<1>4. Linked \subseteq Bills
  BY DEF Linked, OnPass, OnDeliveries
<1>5. CASE \A b \in Linked : Follows(bills[b])
  BY <1>2, <1>3, <1>4, <1>5 DEF CorrectionsPursued
<1>6. CASE excuses \cap Unreached # {}
  BY <1>1, <1>6 DEF CorrectionsPursued
<1>7. ASSUME NEW s \in Slots, Pursues(s), s # w PROVE CorrectionsPursued'
  <2>1. work'[s] = work[s]
    BY <1>0, <1>1, <1>7 DEF BillTypes, Users
  <2>2. Pursues(s)'
    BY <1>1, <1>2, <1>3, <1>4, <1>7, <2>1 DEF Pursues
  <2> QED BY <2>2 DEF CorrectionsPursued
<1>8. CASE w \in Slots /\ Pursues(w)
  <2>1. work'[w] = job /\ job.pc = "write" /\ request[w].pass.items = pass.items
    BY <1>0, <1>1, <1>8 DEF BillTypes, Pursues
  <2>2. \A b \in Linked \ job.todo : Within(bills[b], Received(pass.items))
    BY <1>8, <2>1 DEF Untold
  <2>3. \A b \in Linked \ job.todo : Follows(bills[b])'
    BY <1>1, <2>2 DEF Follows
  <2>4. Pursues(w)'
    BY <1>1, <1>2, <1>8, <2>1, <2>3 DEF Pursues
  <2> QED BY <1>8, <2>4 DEF CorrectionsPursued
<1> QED BY <1>0, <1>5, <1>6, <1>7, <1>8 DEF CorrectionsPursued

LEMMA ReadLinkedKeeps ==
  ASSUME BillingInv, NEW s \in Slots, ReadLinked(s)
  PROVE  BillsInv'
<1>0. /\ ReceiptTypes /\ BillTypes /\ HandsSound /\ BillsNameMade /\ PassCoversBills
      /\ CorrectionsPursued /\ s \in Users
  BY TypeParts DEF BillingInv, Users
<1>1. request[s].pc = "sync" /\ work[s].pc = "idle"
  BY ReadLinkedTakes
<1>2. ASSUME NEW job \in Work, Takes(s, job), job.pc = "write", Untold(s, job.todo)
      PROVE  BillsInv'
  BY <1>0, <1>1, <1>2, TakesKeeps, TakesReach DEF BillsInv
<1>3. ASSUME UNCHANGED <<pass, deliveries, bills, work, excuses>>,
             request' = [request EXCEPT ![s] = Synced(s)], Untold(s, {})
      PROVE  BillsInv'
  <2>1. BillTypes' /\ BillsNameMade' /\ PassCoversBills' /\ Made' = Made /\ Linked' = Linked
    BY <1>0, <1>3 DEF BillTypes, BillsNameMade, PassCoversBills, Covers, Picked, Made, OnPass, Live,
                      Linked, OnDeliveries
  <2>2. ASSUME NEW v \in Users PROVE JobSound(v, work[v])'
    <3>1. PICK x \in Work : x = work'[v] /\ x = work[v] /\ JobSound(v, x)
      BY <1>0, <1>3 DEF BillTypes, HandsSound
    <3>2. v \in Slots /\ x.pc = "write" => request'[v] = request[v] /\ v # s
      BY <1>1, <1>3, <3>1
    <3>3. JobShape(v, x)'
      BY <2>1, <3>1, <3>2 DEF JobSound, JobShape
    <3>4. v \notin Slots => x.pc # "write"
      BY <3>1 DEF JobSound, JobShape, Users
    <3>5. x.pc = "write" => request'[v] = request[v]
      BY <3>2, <3>4
    <3>6. x.fresh => JobFits(v, x)'
      BY <1>3, <3>1, <3>5 DEF JobSound, JobFits, OnPass, Live, Pieces, EditCeiling
    <3>7. JobSound(v, x)'
      BY <3>3, <3>6 DEF JobSound
    <3> QED BY <3>1, <3>7
  <2>3. CorrectionsPursued'
    <3>1. CASE Pursues(s)
      <4>1. request[s].pass.items = pass.items
        BY <1>1, <3>1 DEF Pursues
      <4>2. \A b \in Linked : Within(bills[b], Received(pass.items))
        BY <1>3, <4>1 DEF Untold
      <4>3. \A b \in Linked' : Follows(bills[b])'
        BY <1>3, <2>1, <4>2 DEF Follows
      <4> QED BY <4>3 DEF CorrectionsPursued
    <3>2. CASE ~Pursues(s)
      <4>1. Linked \subseteq Bills /\ \A b \in Bills : Follows(bills[b]) => Follows(bills[b])'
        BY <1>3 DEF Linked, OnPass, OnDeliveries, Follows
      <4>2. ASSUME NEW t \in Slots, Pursues(t) PROVE Pursues(t)'
        <5>1. request'[t] = request[t] /\ work' = work /\ pass' = pass
          BY <1>3, <3>2, <4>2
        <5> QED BY <2>1, <4>1, <4>2, <5>1 DEF Pursues
      <4>3. CASE \A b \in Linked : Follows(bills[b])
        BY <2>1, <4>1, <4>3 DEF CorrectionsPursued
      <4>4. CASE \E t \in Slots : Pursues(t)
        BY <4>2, <4>4 DEF CorrectionsPursued
      <4>5. CASE excuses \cap Unreached # {}
        BY <1>3, <4>5 DEF CorrectionsPursued
      <4> QED BY <1>0, <4>3, <4>4, <4>5 DEF CorrectionsPursued
    <3> QED BY <3>1, <3>2
  <2> QED BY <2>1, <2>2, <2>3 DEF BillsInv, HandsSound
<1> QED BY <1>2, <1>3, ReadLinkedTakes

LEMMA PropagationFailsKeeps ==
  ASSUME BillingInv, NEW s \in Slots, PropagationFails(s)
  PROVE  BillsInv'
<1>0. /\ ReceiptTypes /\ BillTypes /\ HandsSound /\ BillsNameMade /\ PassCoversBills
  BY TypeParts DEF BillingInv
<1>1. /\ UNCHANGED <<pass, deliveries, bills>> /\ work' = [work EXCEPT ![s] = NoWork]
      /\ excuses' = excuses \cup {"unfinished"}
      /\ request' = [request EXCEPT ![s] = Synced(s)]
  BY DEF PropagationFails
<1>2. BillTypes'
  BY <1>0, <1>1, NothingTyped DEF BillTypes, Excuses
<1>3. BillsNameMade' /\ PassCoversBills' /\ Made' = Made
  BY <1>0, <1>1 DEF BillsNameMade, PassCoversBills, Covers, Picked, Made, OnPass, Live
<1>4. "unfinished" \in excuses'
  BY <1>1
<1>5. CorrectionsPursued'
  BY <1>4 DEF CorrectionsPursued, Unreached
<1>6. ASSUME NEW v \in Users PROVE JobSound(v, work[v])'
  <2>1. CASE v = s
    BY <1>0, <1>1, <2>1, IdleSound DEF BillTypes, Users
  <2>2. CASE v # s
    <3>1. PICK x \in Work : x = work'[v] /\ x = work[v] /\ JobSound(v, x)
      BY <1>0, <1>1, <2>2 DEF BillTypes, HandsSound
    <3>2. v \in Slots => request'[v] = request[v]
      BY <1>1, <2>2
    <3>3. JobShape(v, x)'
      BY <1>3, <3>1, <3>2 DEF JobSound, JobShape
    <3>4. v \notin Slots => x.pc # "write"
      BY <3>1 DEF JobSound, JobShape, Users
    <3>5. x.pc = "write" => request'[v] = request[v]
      BY <3>2, <3>4
    <3>6. x.fresh => JobFits(v, x)'
      BY <1>1, <3>1, <3>5 DEF JobSound, JobFits, OnPass, Live, Pieces, EditCeiling
    <3>7. JobSound(v, x)'
      BY <3>3, <3>6 DEF JobSound
    <3> QED BY <3>1, <3>7
  <2> QED BY <2>1, <2>2
<1> QED BY <1>2, <1>3, <1>5, <1>6 DEF BillsInv, HandsSound

LEMMA BillSideKeeps ==
  ASSUME BillingInv, BillSide
  PROVE  BillsInv'
<1>1. ASSUME NEW c \in Cashiers, NEW job, Takes(c, job) PROVE BillsInv'
  <2>1. c \in Users /\ c \notin Slots
    BY BillsAssumption DEF Users
  <2> QED BY <1>1, <2>1, TakesKeeps, TakesReach DEF BillsInv
<1>2. ASSUME NEW c \in Cashiers, NEW b \in Bills, NEW charges \in Entries, NEW by \in BOOLEAN,
             NEW ds \in SUBSET Deliveries, NEW instant \in BOOLEAN,
             StartBill(c, b, by, ds, charges, instant)
      PROVE  BillsInv'
  BY <1>1, <1>2, StartBillTakes, BillsAssumption
<1>3. ASSUME NEW c \in Cashiers, NEW b \in Bills, NEW charges \in Entries,
             NEW covered \in BOOLEAN, StartBillEdit(c, b, charges, covered)
      PROVE  BillsInv'
  BY <1>1, <1>3, StartBillEditTakes, BillsAssumption
<1>4. ASSUME NEW c \in Cashiers, ReadBilled(c) \/ CheckCeiling(c) \/ CashierCrash(c)
      PROVE  BillsInv'
  BY <1>1, <1>4, ReadBilledTakes, CheckCeilingTakes, CashierCrashTakes
<1>5. ASSUME NEW c \in Cashiers, InsertBill(c) \/ ReplaceBill(c) PROVE BillsInv'
  BY <1>5, InsertBillKeeps, ReplaceBillKeeps
<1> QED BY <1>2, <1>3, <1>4, <1>5, StatusSteps, ReadLinkedKeeps, PropagationFailsKeeps,
           WriteLinkedKeeps DEF BillSide

-----------------------------------------------------------------------------
(* The writers of the pass, as the bills see them. *)

(* A step of a writer of the gate pass, to one who is telling the bills: it   *)
(* goes on or dies; and who begins to tell them has just written the pass.   *)
RequestMoves(t) ==
  \/ request'[t].pc = request[t].pc /\ request'[t].pass = request[t].pass
  \/ request'[t].pc = "idle"
  \/ /\ request[t].pc # "sync"
     /\ request'[t].pc = "sync" => request'[t].pass.items = pass'.items

(* Deliveries are made once, and cancelled. *)
DeliveryMoves(d) ==
  \/ deliveries'[d] = deliveries[d]
  \/ deliveries[d].status = "NONE"
  \/ deliveries[d].status = "DELIVERED" /\ deliveries'[d].status = "CANCELLED"

LEMMA QuietMoves ==
  ASSUME ReceiptTypes, NEW s \in Slots, NEW r, request' = [request EXCEPT ![s] = r],
         r.pc = "idle" \/ (request[s].pc # "sync" /\ r.pc # "sync")
  PROVE  \A t \in Slots : RequestMoves(t)
  BY DEF ReceiptTypes, RequestMoves

LEMMA GotoMoves ==
  ASSUME ReceiptTypes, NEW s \in Slots, NEW pc, Goto(s, pc),
         request[s].pc # "sync" /\ pc # "sync"
  PROVE  \A t \in Slots : RequestMoves(t)
<1>1. PICK r : r = [request[s] EXCEPT !.pc = pc]
  OBVIOUS
<1>2. r.pc = pc
  BY <1>1, MoveTyped DEF Request
<1>3. request' = [request EXCEPT ![s] = r]
  BY <1>1 DEF Goto
<1> QED BY <1>2, <1>3, QuietMoves

LEMMA FinishMoves ==
  ASSUME ReceiptTypes, NEW s \in Slots, Finish(s)
  PROVE  \A t \in Slots : RequestMoves(t)
<1>1. IdleRequest.pc = "idle"
  BY DEF IdleRequest
<1> QED BY <1>1, QuietMoves DEF Finish

LEMMA WriteMoves ==
  ASSUME ReceiptTypes, NEW s \in Slots, NEW new \in Pass, NEW req \in Request,
         WritePass(s, new, req), request[s].pc # "sync",
         req.pc = "sync" => req.pass.items = new.items
  PROVE  \A t \in Slots : RequestMoves(t)
<1>1. request'[s] = req /\ pass' = new /\ \A t \in Slots \ {s} : Same(t)
  BY WritePassFacts
<1> QED BY <1>1 DEF RequestMoves, Same

LEMMA OutdatedMoves ==
  ASSUME ReceiptTypes, NEW new \in Pass, pass' = new, request' = Outdated(request, new)
  PROVE  \A t \in Slots : RequestMoves(t)
  BY OutdatedFacts DEF RequestMoves, Same

LEMMA BeginMoves ==
  ASSUME ReceiptTypes, NEW s \in Slots, NEW req \in Request, Begin(s, req), req.pc # "sync"
  PROVE  /\ \A t \in Slots : RequestMoves(t)
         /\ pass' = pass /\ deliveries' = deliveries
<1>1. PICK r : r = [req EXCEPT !.current = (req.adjustment # None),
                               !.unchanged = (req.adjustment = None)]
  OBVIOUS
<1>2. r.pc # "sync"
  BY <1>1 DEF Request
<1>3. request[s].pc = "idle" /\ request' = [request EXCEPT ![s] = r]
      /\ pass' = pass /\ deliveries' = deliveries
  BY <1>1 DEF Begin
<1> QED BY <1>2, <1>3, QuietMoves

LEMMA StartMoves ==
  ASSUME ReceiptTypes, NEW s \in Slots,
         \/ \E paper \in Papers \cup {None} : StartEdit(s, paper)
         \/ \E d \in Deliveries, load \in Loads : StartCatchUp(s, d, load)
         \/ \E a \in Adjustments : StartApproval(s, a)
         \/ StartReopen(s)
  PROVE  (\A t \in Slots : RequestMoves(t)) /\ deliveries' = deliveries
<1>0. pass \in Pass /\ pass.items \in Items /\ IdleRequest \in Request
  BY IdleTyped DEF ReceiptTypes, Pass
<1>1. ASSUME NEW paper \in Papers \cup {None}, StartEdit(s, paper)
      PROVE  (\A t \in Slots : RequestMoves(t)) /\ deliveries' = deliveries
  <2> DEFINE plain == [IdleRequest EXCEPT !.pc = "replace", !.pass = pass]
             typed == [IdleRequest EXCEPT !.pc = "movements", !.edits = TRUE,
                                          !.pass = [pass EXCEPT !.items = paper]]
  <2>1. plain \in Request /\ plain.pc = "replace"
    BY <1>0 DEF Request
  <2>2. CASE paper = None
    <3>1. Begin(s, plain)
      BY <1>1, <2>2 DEF StartEdit
    <3> HIDE DEF plain
    <3> QED BY <2>1, <3>1, BeginMoves
  <2>3. CASE paper # None
    <3>1. paper \in Items
      BY <2>3, QuantitiesAssumption
    <3>2. [pass EXCEPT !.items = paper] \in Pass
      BY <1>0, <3>1 DEF Pass
    <3>3. typed \in Request /\ typed.pc = "movements"
      BY <1>0, <3>2 DEF Request
    <3>4. Begin(s, typed)
      BY <1>1, <2>3 DEF StartEdit
    <3> HIDE DEF typed
    <3> QED BY <3>3, <3>4, BeginMoves
  <2> QED BY <2>2, <2>3
<1>2. ASSUME NEW d \in Deliveries, NEW load \in Loads, StartCatchUp(s, d, load)
      PROVE  (\A t \in Slots : RequestMoves(t)) /\ deliveries' = deliveries
  <2> DEFINE req == [IdleRequest EXCEPT !.pc = "plan", !.delivery = d, !.load = load,
                                        !.pass = pass]
  <2>1. load \in [Lines -> 0..MaxQty]
    BY QuantitiesAssumption
  <2>2. req \in Request /\ req.pc = "plan"
    BY <1>0, <2>1 DEF Request
  <2>3. Begin(s, req)
    BY <1>2 DEF StartCatchUp
  <2> HIDE DEF req
  <2> QED BY <2>2, <2>3, BeginMoves
<1>3. ASSUME NEW a \in Adjustments, StartApproval(s, a)
      PROVE  (\A t \in Slots : RequestMoves(t)) /\ deliveries' = deliveries
  <2>1. PICK new : new = [pass EXCEPT !.items = Corrected(@, adjustments[a].change)]
    OBVIOUS
  <2>2. adjustments[a].change \in Corrections
    BY DEF ReceiptTypes, Adjustment
  <2>3. Corrected(pass.items, adjustments[a].change) \in Items
    BY <1>0, <2>2, CorrectedTyped
  <2>4. new \in Pass
    BY <1>0, <2>1, <2>3 DEF Pass
  <2> DEFINE req == [IdleRequest EXCEPT !.pc = "movements", !.adjustment = a, !.pass = new]
  <2>5. req \in Request /\ req.pc = "movements"
    BY <1>0, <2>4 DEF Request
  <2>6. Begin(s, req)
    BY <1>3, <2>1 DEF StartApproval
  <2> HIDE DEF req
  <2> QED BY <2>5, <2>6, BeginMoves
<1>4. ASSUME StartReopen(s)
      PROVE  (\A t \in Slots : RequestMoves(t)) /\ deliveries' = deliveries
  <2> DEFINE req == [IdleRequest EXCEPT !.pc = "reopenMovements",
                       !.pass = [pass EXCEPT !.marked = FALSE, !.status = "RECEIVED"]]
  <2>1. [pass EXCEPT !.marked = FALSE, !.status = "RECEIVED"] \in Pass
    BY <1>0 DEF Pass, PassStatuses
  <2>2. req \in Request /\ req.pc = "reopenMovements"
    BY <1>0, <2>1 DEF Request
  <2>3. Begin(s, req)
    BY <1>4 DEF StartReopen
  <2> HIDE DEF req
  <2> QED BY <2>2, <2>3, BeginMoves
<1> QED BY <1>1, <1>2, <1>3, <1>4

LEMMA RequestSteps ==
  ASSUME ReceiptTypes, NEW s \in Slots,
         \/ CountMovements(s) \/ ReplaceEdited(s)
         \/ RefreshAndReread(s) \/ PutPassBack(s)
         \/ CountBeforeReopening(s) \/ Reopen(s)
         \/ LoadMovements(s) \/ ClaimAdjustment(s) \/ ReplaceCorrected(s)
         \/ ReleaseAdjustment(s) \/ MarkApproved(s) \/ Crash(s)
  PROVE  (\A t \in Slots : RequestMoves(t)) /\ deliveries' = deliveries
<1>0. request[s] \in Request /\ request[s].pass \in Pass /\ IdleRequest \in Request
      /\ IdleRequest.pc = "idle" /\ pass \in Pass
  BY MoveTyped, RequestFields, IdleTyped DEF IdleRequest, ReceiptTypes
<1>1. CASE CountMovements(s) \/ CountBeforeReopening(s) \/ ClaimAdjustment(s)
  BY <1>1, GotoMoves, FinishMoves DEF CountMovements, CountBeforeReopening, ClaimAdjustment
<1>2. CASE ReleaseAdjustment(s) \/ MarkApproved(s) \/ Crash(s)
  BY <1>2, FinishMoves DEF ReleaseAdjustment, MarkApproved, Crash, Settle
<1>3. CASE ReplaceEdited(s) \/ ReplaceCorrected(s)
  <2> DEFINE req == [request[s] EXCEPT !.pc = "sync", !.current = FALSE, !.unchanged = FALSE]
  <2>1. req \in Request /\ req.pass = request[s].pass
    BY <1>0 DEF Request
  <2>2. /\ request[s].pc = "replace" /\ deliveries' = deliveries
        /\ \/ WritePass(s, request[s].pass, req)
           \/ WritePass(s, request[s].pass, IdleRequest)
           \/ Goto(s, "release")
    BY <1>3 DEF ReplaceEdited, ReplaceCorrected
  <2> HIDE DEF req
  <2> QED BY <1>0, <2>1, <2>2, WriteMoves, GotoMoves
<1>4. CASE PutPassBack(s) \/ Reopen(s)
  <2>1. WritePass(s, request[s].pass, IdleRequest) /\ request[s].pc # "sync"
        /\ deliveries' = deliveries
    BY <1>4 DEF PutPassBack, Reopen
  <2> QED BY <1>0, <2>1, WriteMoves
<1>5. CASE RefreshAndReread(s)
  <2>1. PICK new : new = Refreshed(pass, deliveries)
    OBVIOUS
  <2>2. new \in Pass
    BY <1>0, <2>1, RefreshedTyped
  <2>3. PICK r : r = [request[s] EXCEPT !.pc = "putBack", !.pass.status = new.status]
    OBVIOUS
  <2>4. r.pc = "putBack"
    BY <1>0, <2>3 DEF Request
  <2>5. /\ request[s].pc = "refresh" /\ pass' = new /\ deliveries' = deliveries
        /\ request' = [Outdated(request, new) EXCEPT ![s] = r]
    BY <1>5, <2>1, <2>3 DEF RefreshAndReread
  <2>6. \A t \in Slots \ {s} : request'[t] = Outdated(request, new)[t]
    BY <2>5 DEF Outdated
  <2>7. \A t \in Slots \ {s} : RequestMoves(t)
    BY <2>2, <2>5, <2>6, OutdatedFacts DEF RequestMoves, Same
  <2>8. request'[s] = r
    BY <2>5 DEF Outdated
  <2>9. RequestMoves(s)
    BY <2>4, <2>5, <2>8 DEF RequestMoves
  <2> QED BY <2>5, <2>7, <2>9
<1>6. CASE LoadMovements(s)
  <2>1. PICK r : r = [request[s] EXCEPT !.pc = "claim",
          !.pass.status = DerivedStatus(request[s].pass.items, deliveries, FALSE,
                                        request[s].pass.status)]
    OBVIOUS
  <2>2. r.pc = "claim"
    BY <1>0, <2>1 DEF Request
  <2>3. request' = [request EXCEPT ![s] = r] /\ request[s].pc # "sync"
        /\ deliveries' = deliveries
    BY <1>6, <2>1 DEF LoadMovements
  <2> QED BY <2>2, <2>3, QuietMoves
<1> QED BY <1>1, <1>2, <1>3, <1>4, <1>5, <1>6

LEMMA LinenMoves ==
  ASSUME ReceiptTypes, NEW docs, MoveLinen(docs)
  PROVE  (\A t \in Slots : RequestMoves(t)) /\ deliveries' = docs
<1>1. PICK new \in Pass : new = Refreshed(pass, docs)
  BY RefreshedTyped DEF ReceiptTypes
<1>2. pass' = new /\ deliveries' = docs /\ request' = Outdated(request, new)
  BY <1>1 DEF MoveLinen
<1> QED BY <1>2, OutdatedMoves

LEMMA OtherMoves ==
  ASSUME ReceiptTypes,
         \/ \E s \in Slots : RecordCatchUp(s)
         \/ \E s \in Slots \cup {None}, a \in Adjustments, c \in Corrections :
              RequestAdjustment(s, a, c)
         \/ \E a \in Adjustments : RejectAdjustment(a)
         \/ \E d \in Deliveries, load \in Loads : Deliver(d, load)
         \/ \E d \in Deliveries : CancelDelivery(d)
         \/ CancelPass
  PROVE  (\A t \in Slots : RequestMoves(t)) /\ (\A d \in Deliveries : DeliveryMoves(d))
<1>0. deliveries \in [Deliveries -> Delivery] /\ pass \in Pass
  BY DEF ReceiptTypes
<1>1. ASSUME NEW s \in Slots, RecordCatchUp(s)
      PROVE  (\A t \in Slots : RequestMoves(t)) /\ (\A d \in Deliveries : DeliveryMoves(d))
  <2>1. request[s].pc = "plan"
    BY <1>1 DEF RecordCatchUp
  <2>2. \A t \in Slots : RequestMoves(t)
    BY <1>1, <2>1, GotoMoves, FinishMoves DEF RecordCatchUp
  <2>3. \A d \in Deliveries : DeliveryMoves(d)
    BY <1>0, <1>1 DEF RecordCatchUp, DeliveryMoves
  <2> QED BY <2>2, <2>3
<1>2. CASE \/ \E s \in Slots \cup {None}, a \in Adjustments, c \in Corrections :
                RequestAdjustment(s, a, c)
           \/ \E a \in Adjustments : RejectAdjustment(a)
  BY <1>2 DEF RequestAdjustment, RejectAdjustment, RequestMoves, DeliveryMoves
<1>3. ASSUME NEW d \in Deliveries, NEW load \in Loads, Deliver(d, load)
      PROVE  (\A t \in Slots : RequestMoves(t)) /\ (\A e \in Deliveries : DeliveryMoves(e))
  <2>1. PICK docs : docs = [deliveries EXCEPT ![d] = [status |-> "DELIVERED", load |-> load]]
    OBVIOUS
  <2>2. MoveLinen(docs) /\ deliveries[d].status = "NONE"
    BY <1>3, <2>1 DEF Deliver
  <2>3. (\A t \in Slots : RequestMoves(t)) /\ deliveries' = docs
    BY <2>2, LinenMoves
  <2> QED BY <1>0, <2>1, <2>2, <2>3 DEF DeliveryMoves
<1>4. ASSUME NEW d \in Deliveries, CancelDelivery(d)
      PROVE  (\A t \in Slots : RequestMoves(t)) /\ (\A e \in Deliveries : DeliveryMoves(e))
  <2>1. PICK doc : doc = [deliveries[d] EXCEPT !.status = "CANCELLED"]
    OBVIOUS
  <2>2. PICK docs : docs = [deliveries EXCEPT ![d] = doc]
    OBVIOUS
  <2>3. MoveLinen(docs) /\ deliveries[d].status = "DELIVERED" /\ doc.status = "CANCELLED"
    BY <1>0, <1>4, <2>1, <2>2 DEF CancelDelivery, Delivery
  <2>4. (\A t \in Slots : RequestMoves(t)) /\ deliveries' = docs
    BY <2>3, LinenMoves
  <2> QED BY <1>0, <2>2, <2>3, <2>4 DEF DeliveryMoves
<1>5. CASE CancelPass
  <2>1. PICK new : new = [pass EXCEPT !.status = "CANCELLED"]
    OBVIOUS
  <2>2. new \in Pass
    BY <1>0, <2>1 DEF Pass, PassStatuses
  <2>3. pass' = new /\ request' = Outdated(request, new) /\ deliveries' = deliveries
    BY <1>5, <2>1 DEF CancelPass
  <2> QED BY <2>2, <2>3, OutdatedMoves DEF DeliveryMoves
<1> QED BY <1>1, <1>2, <1>3, <1>4, <1>5

LEMMA ReceiptMoves ==
  ASSUME ReceiptTypes, ReceiptStep
  PROVE  (\A t \in Slots : RequestMoves(t)) /\ (\A d \in Deliveries : DeliveryMoves(d))
<1>1. deliveries' = deliveries => \A d \in Deliveries : DeliveryMoves(d)
  BY DEF DeliveryMoves
<1> QED BY <1>1, StartMoves, RequestSteps, OtherMoves DEF ReceiptStep

-----------------------------------------------------------------------------
(* Bills beside the writers of the pass. *)

(* What a step of a writer of the gate pass leaves of a job in hand. *)
LEMMA JobsBeside ==
  ASSUME BillingInv, ReceiptSide, NEW v \in Users
  PROVE  \/ v \in Slots /\ request'[v].pc = "idle" /\ work'[v] = NoWork
         \/ /\ v \in Slots => request'[v].pc # "idle"
            /\ work'[v] = work[v] /\ pass' = pass /\ deliveries' = deliveries
         \/ /\ v \in Slots => request'[v].pc # "idle"
            /\ work'[v] = [work[v] EXCEPT !.fresh = FALSE]
<1>1. work'[v] = IF v \in Slots /\ request'[v].pc = "idle" THEN NoWork
                 ELSE IF <<pass, deliveries>>' = <<pass, deliveries>> THEN work[v]
                 ELSE [work[v] EXCEPT !.fresh = FALSE]
  BY DEF ReceiptSide, Users
<1> QED BY <1>1

LEMMA MadeGrows ==
  ASSUME ReceiptTypes, \A d \in Deliveries : DeliveryMoves(d)
  PROVE  /\ Made \subseteq Made'
         /\ \A d \in Moving(deliveries)' : d \in Moving(deliveries) \/ d \notin Made
<1>1. \A d \in Deliveries : deliveries[d] \in Delivery
  BY DEF ReceiptTypes
<1> QED BY <1>1 DEF DeliveryMoves, Made, Moving, Delivery

LEMMA HandsBeside ==
  ASSUME BillingInv, ReceiptSide
  PROVE  BillTypes' /\ HandsSound' /\ BillsNameMade'
<1>0. ReceiptTypes /\ BillTypes /\ HandsSound /\ BillsNameMade
  BY TypeParts DEF BillingInv
<1>1. /\ \A t \in Slots : RequestMoves(t)
      /\ Made \subseteq Made' /\ bills' = bills
  BY <1>0, ReceiptMoves, MadeGrows DEF ReceiptSide
<1>2. \A v \in Users : [work[v] EXCEPT !.fresh = FALSE] \in Work /\ work[v] \in Work
  BY <1>0 DEF BillTypes, Work
<1>3. \A v \in Users : work'[v] \in Work
  BY <1>2, JobsBeside, NothingTyped
<1>4. BillTypes'
  <2>1. work' \in [Users -> Work]
    <3> DEFINE job(w) == IF w \in Slots /\ request'[w].pc = "idle" THEN NoWork
                         ELSE IF <<pass, deliveries>>' = <<pass, deliveries>> THEN work[w]
                         ELSE [work[w] EXCEPT !.fresh = FALSE]
    <3>1. work' = [w \in Users |-> job(w)]
      BY DEF ReceiptSide, Users
    <3> HIDE DEF job
    <3>2. \A w \in Users : job(w) \in Work
      BY <1>3, <3>1
    <3> QED BY <3>1, <3>2
  <2>2. excuses' \subseteq Excuses
    BY <1>0 DEF ReceiptSide, BillTypes, Excuses
  <2> QED BY <1>0, <1>1, <2>1, <2>2 DEF BillTypes
<1>5. ASSUME NEW v \in Users PROVE JobSound(v, work[v])'
  <2>1. PICK old \in Work : old = work[v] /\ JobSound(v, old)
    BY <1>0, <1>2 DEF HandsSound
  <2>2. PICK x \in Work : x = work'[v]
    BY <1>3
  <2>3. CASE v \in Slots /\ request'[v].pc = "idle" /\ work'[v] = NoWork
    BY <2>3, IdleSound
  <2>4. ASSUME v \in Slots => request'[v].pc # "idle",
               x.pc = old.pc, x.todo = old.todo, x.id = old.id, x.bill = old.bill,
               x.found = old.found
        PROVE  JobShape(v, x)'
    <3>1. v \in Slots /\ old.pc = "write" => request'[v].pc = "sync"
      BY <1>1, <2>1, <2>4 DEF JobSound, JobShape, RequestMoves
    <3>2. JobShape(v, old)
      BY <2>1 DEF JobSound
    <3>3. /\ x.bill.deliveries \subseteq Made'
          /\ \A b \in Bills : x.found[b].deliveries \subseteq Made'
      BY <1>1, <2>4, <3>2 DEF JobShape
    <3> QED BY <2>4, <3>1, <3>2, <3>3 DEF JobShape
  <2>5. CASE /\ v \in Slots => request'[v].pc # "idle"
             /\ work'[v] = work[v] /\ pass' = pass /\ deliveries' = deliveries
    <3>1. x = old
      BY <2>1, <2>2, <2>5
    <3>2. JobShape(v, x)'
      BY <2>4, <2>5, <3>1
    <3>3. old.pc = "write" => v \in Slots /\ request[v].pc = "sync"
      BY <2>1 DEF JobSound, JobShape, Users
    <3>4. old.pc = "write" => request'[v].pass = request[v].pass
      BY <1>1, <2>5, <3>3 DEF RequestMoves
    <3>5. x.fresh => JobFits(v, x)'
      BY <1>1, <2>1, <2>5, <3>1, <3>4
         DEF JobSound, JobFits, OnPass, Live, Pieces, EditCeiling
    <3>6. JobSound(v, x)'
      BY <3>2, <3>5 DEF JobSound
    <3> QED BY <2>2, <3>6
  <2>6. CASE /\ v \in Slots => request'[v].pc # "idle"
             /\ work'[v] = [work[v] EXCEPT !.fresh = FALSE]
    <3>1. x = [old EXCEPT !.fresh = FALSE]
      BY <2>1, <2>2, <2>6
    <3>2. /\ x.pc = old.pc /\ x.todo = old.todo /\ x.id = old.id /\ x.bill = old.bill
          /\ x.found = old.found /\ ~x.fresh
      BY <3>1 DEF Work
    <3>3. JobShape(v, x)'
      BY <2>4, <2>6, <3>2
    <3>4. JobSound(v, x)'
      BY <3>2, <3>3 DEF JobSound
    <3> QED BY <2>2, <3>4
  <2> QED BY <2>3, <2>5, <2>6, JobsBeside
<1>6. BillsNameMade'
  BY <1>0, <1>1 DEF BillsNameMade
<1> QED BY <1>4, <1>5, <1>6 DEF HandsSound

(* A receipt or a delivery taken back below what was billed is excused. *)
LEMMA CeilingBeside ==
  ASSUME BillingInv, ReceiptSide
  PROVE  PassCoversBills'
<1>0. PassCoversBills /\ ReceiptTypes /\ ReceiptTypes' /\ BillTypes
  BY TypeParts, TypedStep DEF BillingInv, Next
<1>1. excuses \subseteq excuses'
  BY DEF ReceiptSide
<1>2. ASSUME NEW pick PROVE Picked(pick, OnPass)' = Picked(pick, OnPass)
  BY DEF ReceiptSide, Picked, OnPass, Live
<1>3. ASSUME NEW i \in Items, NEW docs \in [Deliveries -> Delivery]
      PROVE  Chargeable(i, docs) \in Nat
  BY <1>3, ReceivedType, DeliveredType DEF Chargeable, LargerOf
<1>4. PICK m \in Nat, n \in Nat :
        /\ m = Chargeable(pass.items, deliveries) /\ n = Chargeable(pass'.items, deliveries')
  BY <1>0, <1>3 DEF ReceiptTypes, Pass
<1>5. \A pick \in [Bills -> Rows] : Picked(pick, OnPass) \in Nat
  <2>1. OnPass \in SUBSET Bills
    BY DEF OnPass
  <2> QED BY <1>0, <2>1, PickedType DEF BillTypes
<1>6. CASE excuses \cap {"raced", "shrunk", "reopened"} # {}
  BY <1>1, <1>6 DEF PassCoversBills
<1>7. CASE Covers(pass.items, deliveries) /\ ~(n < m)
  <2>1. Covers(pass.items, deliveries)'
    BY <1>2, <1>4, <1>5, <1>7 DEF Covers
  <2> QED BY <2>1 DEF PassCoversBills
<1>8. CASE Covers(pass'.items, deliveries')
  <2>1. Covers(pass.items, deliveries)'
    BY <1>2, <1>8 DEF Covers
  <2> QED BY <2>1 DEF PassCoversBills
<1>9. CASE n < m /\ ~Covers(pass'.items, deliveries')
  <2>1. <<pass.items, deliveries>>' # <<pass.items, deliveries>>
    BY <1>4, <1>9
  <2>2. "shrunk" \in excuses'
    BY <1>4, <1>9, <2>1 DEF ReceiptSide
  <2> QED BY <2>2 DEF PassCoversBills
<1> QED BY <1>0, <1>6, <1>7, <1>8, <1>9 DEF PassCoversBills

(* Who corrects the receipt is about to tell the bills, or is excused.        *)
LEMMA ReachBeside ==
  ASSUME BillingInv, ReceiptSide
  PROVE  CorrectionsPursued'
<1>0. ReceiptTypes /\ BillTypes /\ HandsSound /\ BillsNameMade /\ CorrectionsPursued
  BY TypeParts DEF BillingInv
<1>1. /\ \A t \in Slots : RequestMoves(t)
      /\ \A d \in Deliveries : DeliveryMoves(d)
      /\ bills' = bills /\ excuses \subseteq excuses'
  BY <1>0, ReceiptMoves DEF ReceiptSide
<1>2. Linked' \subseteq Linked /\ Linked \subseteq Bills
  <2>1. \A b \in Bills : bills[b].deliveries \subseteq Made
    BY <1>0 DEF BillsNameMade
  <2>2. \A d \in Moving(deliveries)' : d \in Moving(deliveries) \/ d \notin Made
    BY <1>0, <1>1, MadeGrows
  <2> QED BY <1>1, <2>1, <2>2 DEF Linked, OnPass, OnDeliveries, Live
<1>3. CASE excuses' \cap Unreached # {}
  BY <1>3 DEF CorrectionsPursued
<1>4. CASE excuses' \cap Unreached = {} /\ pass'.items = pass.items
  <2>1. \A b \in Bills : Follows(bills[b]) => Follows(bills[b])'
    BY <1>1, <1>4 DEF Follows
  <2>2. CASE \A b \in Linked : Follows(bills[b])
    BY <1>2, <2>1, <2>2 DEF CorrectionsPursued
  <2>3. ASSUME NEW s \in Slots, Pursues(s) PROVE Pursues(s)'
    <3>1. request[s].pc = "sync" /\ request'[s].pc # "idle"
      BY <1>4, <2>3 DEF Pursues, ReceiptSide, Unreached
    <3>2. request'[s].pc = "sync" /\ request'[s].pass = request[s].pass
      BY <1>1, <3>1 DEF RequestMoves
    <3>3. /\ work'[s].pc = work[s].pc /\ work'[s].todo = work[s].todo
          /\ ~work[s].fresh => ~work'[s].fresh
      <4>1. work[s] \in Work /\ s \in Users
        BY <1>0 DEF BillTypes, Users
      <4>2. PICK y : y = [work[s] EXCEPT !.fresh = FALSE]
        OBVIOUS
      <4>3. y.pc = work[s].pc /\ y.todo = work[s].todo /\ ~y.fresh
        BY <4>1, <4>2 DEF Work
      <4>4. work'[s] = work[s] \/ work'[s] = y
        BY <3>1, <4>1, <4>2, JobsBeside
      <4> QED BY <4>3, <4>4
    <3>4. CASE work[s].pc = "idle" /\ request[s].pass.items = pass.items
      BY <1>4, <3>2, <3>3, <3>4 DEF Pursues
    <3>5. CASE work[s].pc = "write" /\ ~work[s].fresh
      BY <3>2, <3>3, <3>5 DEF Pursues
    <3>6. CASE /\ work[s].pc = "write" /\ request[s].pass.items = pass.items
               /\ \A b \in Linked \ work[s].todo : Follows(bills[b])
      <4>1. \A b \in Linked' \ work'[s].todo : Follows(bills[b])'
        BY <1>2, <2>1, <3>3, <3>6
      <4>2. work'[s].pc = "write" /\ request'[s].pass.items = pass'.items
        BY <1>4, <3>2, <3>3, <3>6
      <4> QED BY <3>2, <4>1, <4>2 DEF Pursues
    <3> QED BY <2>3, <3>4, <3>5, <3>6 DEF Pursues
  <2>4. CASE \E s \in Slots : Pursues(s)
    BY <2>3, <2>4 DEF CorrectionsPursued
  <2>5. excuses \cap Unreached = {}
    BY <1>1, <1>4
  <2> QED BY <1>0, <2>2, <2>4, <2>5 DEF CorrectionsPursued
<1>5. CASE excuses' \cap Unreached = {} /\ pass'.items # pass.items
  <2>1. PICK s \in Slots : request'[s].pc = "sync" /\ request[s].pc # "sync"
    BY <1>5 DEF ReceiptSide, Unreached
  <2>2. request'[s].pass.items = pass'.items
    BY <1>1, <2>1 DEF RequestMoves
  <2>3. work[s].pc = "idle"
    BY <1>0, <2>1 DEF HandsSound, JobSound, JobShape, Users
  <2>4. work'[s].pc = "idle"
    <3>1. work[s] \in Work /\ s \in Users
      BY <1>0 DEF BillTypes, Users
    <3>2. PICK y : y = [work[s] EXCEPT !.fresh = FALSE]
      OBVIOUS
    <3>3. y.pc = "idle"
      BY <2>3, <3>1, <3>2 DEF Work
    <3>4. work'[s] = work[s] \/ work'[s] = y
      BY <2>1, <3>1, <3>2, JobsBeside
    <3> QED BY <2>3, <3>3, <3>4
  <2>5. Pursues(s)'
    BY <2>1, <2>2, <2>4 DEF Pursues
  <2> QED BY <2>5 DEF CorrectionsPursued
<1> QED BY <1>3, <1>4, <1>5

-----------------------------------------------------------------------------
(* The inductive invariant, and the theorems about the bills. *)

LEMMA BillingInit ==
  ASSUME Init
  PROVE  BillingInv
<1>0. ReceiptTypes
  BY TypedInit
<1>1. /\ \A b \in Bills : bills[b] = NoBill
      /\ \A w \in Users : work[w] = NoWork
      /\ excuses = {} /\ bills = [b \in Bills |-> NoBill]
      /\ work = [w \in Users |-> NoWork]
  BY DEF Init, Users
<1>2. BillTypes
  BY <1>1, NothingTyped DEF BillTypes
<1>3. HandsSound
  BY <1>1, IdleSound DEF HandsSound
<1>4. BillsNameMade
  BY <1>1 DEF BillsNameMade, NoBill
<1>5. OnPass = {} /\ Linked = {}
  BY <1>1 DEF OnPass, OnDeliveries, Linked, Live, NoBill
<1>6. PassCoversBills
  <2>1. \A pick : Picked(pick, OnPass) = 0
    BY <1>5, SumEmpty DEF Picked
  <2>2. Received(pass.items) \in Nat /\ DeliveredInAll(deliveries) \in Nat
    BY <1>0, ReceivedType, DeliveredType DEF ReceiptTypes, Pass
  <2> QED BY <2>1, <2>2 DEF PassCoversBills, Covers, Chargeable, LargerOf
<1>7. CorrectionsPursued
  BY <1>5 DEF CorrectionsPursued
<1> QED BY <1>0, <1>2, <1>3, <1>4, <1>6, <1>7, TypeParts DEF BillingInv

LEMMA BillingStep ==
  ASSUME BillingInv, [Next]_vars
  PROVE  BillingInv'
<1>0. ReceiptTypes' /\ ReceiptTypes
  BY TypedStep, TypeParts DEF BillingInv
<1>1. ASSUME ReceiptSide PROVE BillsInv'
  BY <1>1, HandsBeside, CeilingBeside, ReachBeside DEF BillsInv
<1>2. ASSUME BillSide PROVE BillsInv'
  BY <1>2, BillSideKeeps
<1>3. ASSUME UNCHANGED vars PROVE BillsInv'
  <2>1. BillTypes' /\ BillsNameMade' /\ PassCoversBills'
    BY <1>3, TypeParts DEF BillingInv, vars, receiptVars, BillTypes, BillsNameMade, Made,
                           PassCoversBills, Covers, Picked, OnPass, Live
  <2>2. HandsSound'
    BY <1>3 DEF BillingInv, vars, receiptVars, HandsSound, JobSound, JobShape, JobFits, Made,
                Pieces, OnPass, Live, EditCeiling
  <2>3. CorrectionsPursued'
    BY <1>3 DEF BillingInv, vars, receiptVars, CorrectionsPursued, Follows, Pursues, Linked,
                OnPass, OnDeliveries, Live
  <2> QED BY <2>1, <2>2, <2>3 DEF BillsInv
<1>4. BillsInv'
  BY <1>1, <1>2, <1>3 DEF Next
<1>5. TypeOK'
  BY <1>0, <1>4, TypeParts, PTL DEF BillsInv
<1> QED BY <1>4, <1>5 DEF BillsInv, BillingInv

LEMMA PursuedReach ==
  ASSUME BillingInv
  PROVE  CorrectionsReachBills
<1>0. BillTypes /\ ReceiptTypes /\ CorrectionsPursued
  BY TypeParts DEF BillingInv
<1>2. (\A b \in Linked : Follows(bills[b])) =>
        \A b \in Linked : \/ Within(bills[b], Received(pass.items))
                          \/ bills[b].status = "PAID" /\ bills[b].noted
  BY DEF Follows
<1>3. (\E s \in Slots : Pursues(s)) => \E s \in Slots : request[s].pc = "sync"
  BY DEF Pursues
<1> QED BY <1>0, <1>2, <1>3 DEF CorrectionsPursued, CorrectionsReachBills, Unreached

(* The inductive invariant of the bills, for any number of bills, cashiers,  *)
(* correctors and deliveries: what is in hand fits what there is unless it   *)
(* was overtaken, and who still has to tell the bills of a correction.       *)
THEOREM BillingInvHolds == Spec => []BillingInv
<1>1. Init => BillingInv
  BY BillingInit
<1>2. BillingInv /\ [Next]_vars => BillingInv'
  BY BillingStep
<1> QED BY <1>1, <1>2, PTL DEF Spec

(* Bills, what cashiers and correctors have in hand, and all the documents   *)
(* of the gate pass keep their types: no bill gets a negative quantity.      *)
THEOREM TypeCorrect == Spec => []TypeOK
<1>1. BillingInv => TypeOK
  BY DEF BillingInv
<1> QED BY <1>1, BillingInvHolds, PTL

(* One line of each bill that names the pass, whichever, and they charge no  *)
(* more than was received, or delivered (create_bill, edit_bill), unless     *)
(* requests overlapped, linen was taken back below what was billed, or a     *)
(* closed bill was set back, by hand or by a reversed payment.               *)
THEOREM PassAlwaysCoversBills == Spec => []PassCoversBills
<1>1. BillingInv => PassCoversBills
  BY DEF BillingInv
<1> QED BY <1>1, BillingInvHolds, PTL

(* sync_bills_to_gate_pass brings every line a correction concerns within    *)
(* the receipt, each for itself, or leaves a note on its bill if that is     *)
(* paid, once it is through and nothing that it excuses has happened.        *)
THEOREM CorrectionsReach == Spec => []CorrectionsReachBills
<1>1. BillingInv => CorrectionsReachBills
  BY PursuedReach
<1> QED BY <1>1, BillingInvHolds, PTL
================================================================================
