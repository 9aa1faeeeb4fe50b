-------------------------- MODULE BillPayments_proofs --------------------------
(* Theorems about BillPayments, for every value of its constants. *)
EXTENDS BillPayments, SumTheorems, TLAPS

-----------------------------------------------------------------------------
(* Types. *)

LEMMA ClampedType == ASSUME NEW n \in Int PROVE AtLeastZero(n) \in Nat
  BY DEF AtLeastZero

LEMMA BillType ==
  ASSUME NEW b \in Bill
  PROVE  b.total \in Nat /\ b.paid \in Nat /\ b.outstanding \in Nat /\ b.status \in Statuses
<1>1. b.total \in Totals
  BY DEF Bill
<1>2. b.total \in Nat
  BY <1>1, TotalsAssumption
<1> QED BY <1>2 DEF Bill

LEMMA RequestType ==
  ASSUME NEW req \in Request
  PROVE  /\ req.old \in Bill /\ req.prior \in Statuses /\ req.total \in Totals
         /\ req.total \in Nat /\ req.amount \in Nat /\ req.old.paid \in Nat
<1>1. req.old \in Bill /\ req.prior \in Statuses /\ req.total \in Totals
      /\ req.amount \in Amounts \cup {0}
  BY DEF Request
<1>2. req.total \in Nat
  BY <1>1, TotalsAssumption
<1>3. req.amount \in Nat
  <2>1. \A n \in Amounts : n \in Nat
    BY AmountsAssumption
  <2> QED BY <1>1, <2>1
<1> QED BY <1>1, <1>2, <1>3, BillType

LEMMA IdleType ==
  ASSUME TypeOK
  PROVE  IdleRequest \in Request /\ AnyTotal \in Totals
<1>1. AnyTotal \in Totals
  BY DEF TypeOK, Bill, AnyTotal
<1>2. AnyTotal \in Nat
  BY <1>1, TotalsAssumption
<1>3. 0 \in 0..(MaxTries - 1)
  BY BoundsAssumption
<1> QED BY <1>1, <1>2, <1>3 DEF IdleRequest, Request, Bill, Statuses, PCs, AllOps

(* What was computed from a well-typed bill is one, with the balance it      *)
(* should have.                                                              *)
LEMMA WithPaidType ==
  ASSUME NEW b \in Bill, NEW paid \in Int, paid >= 0, NEW st \in Statuses
  PROVE  /\ WithPaid(b, paid, st) \in Bill
         /\ WithPaid(b, paid, st).total = b.total
         /\ WithPaid(b, paid, st).paid = paid
         /\ WithPaid(b, paid, st).outstanding = AtLeastZero(b.total - paid)
<1>1. b.total \in Nat /\ b.total - paid \in Int /\ paid \in Nat
  BY BillType
<1>2. AtLeastZero(b.total - paid) \in Nat
  BY <1>1, ClampedType
<1> QED BY <1>1, <1>2 DEF WithPaid, Bill, Statuses

LEMMA RolledBackType ==
  ASSUME NEW req \in Request
  PROVE  /\ RolledBack(req) \in Bill
         /\ RolledBack(req).total = req.old.total
         /\ RolledBack(req).outstanding = Due(RolledBack(req))
         /\ req.old.status = "CANCELLED" => RolledBack(req).status = "CANCELLED"
<1> DEFINE paid == AtLeastZero(req.old.paid - req.amount)
           back == WithPaid(req.old, paid, req.prior)
<1>1. /\ req.old \in Bill /\ req.prior \in Statuses
      /\ req.old.paid \in Nat /\ req.amount \in Nat
  BY RequestType
<1>2. paid \in Nat
  BY <1>1, ClampedType
<1>3. /\ back \in Bill /\ back.total = req.old.total /\ back.paid = paid
      /\ back.outstanding = AtLeastZero(req.old.total - paid)
  BY <1>1, <1>2, WithPaidType
<1> HIDE DEF back, paid
<1>4. RolledBack(req) = IF req.old.status = "CANCELLED"
                        THEN [back EXCEPT !.status = "CANCELLED"] ELSE back
  BY DEF RolledBack, back, paid
<1> QED BY <1>3, <1>4 DEF Bill, Statuses, Due

LEMMA UnwoundType ==
  ASSUME bill \in Bill, NEW req \in Request
  PROVE  /\ Unwound(req) \in Bill
         /\ Unwound(req).total = bill.total
         /\ req.old.total = bill.total => Unwound(req).outstanding = Due(Unwound(req))
<1> DEFINE paid == AtLeastZero(req.old.paid - req.amount)
           back == WithPaid(req.old, paid, "OPEN")
<1>1. req.old \in Bill /\ req.old.paid \in Nat /\ req.amount \in Nat
  BY RequestType
<1>2. paid \in Nat
  BY <1>1, ClampedType
<1>3. "OPEN" \in Statuses
  BY DEF Statuses
<1>4. /\ back \in Bill /\ back.paid = paid
      /\ back.outstanding = AtLeastZero(req.old.total - paid)
  BY <1>1, <1>2, <1>3, WithPaidType
<1> HIDE DEF back, paid
<1>5. Unwound(req) = [back EXCEPT !.total = bill.total]
  BY DEF Unwound, back, paid
<1> QED BY <1>4, <1>5 DEF Bill, Due

LEMMA ReplacedType ==
  ASSUME NEW req \in Request
  PROVE  /\ Replaced(req) \in Bill
         /\ Replaced(req) # req.old => Replaced(req).outstanding = Due(Replaced(req))
<1> DEFINE left == AtLeastZero(req.total - req.old.paid)
           priced == [req.old EXCEPT !.total = req.total, !.outstanding = left]
<1>1. req.old \in Bill /\ req.old.paid \in Nat /\ req.total \in Totals /\ req.total \in Nat
  BY RequestType
<1>2. left \in Nat
  BY <1>1, ClampedType
<1>3. priced \in Bill /\ priced.outstanding = AtLeastZero(priced.total - priced.paid)
  BY <1>1, <1>2 DEF Bill
<1> HIDE DEF priced, left
<1>4. \/ Replaced(req) = [priced EXCEPT !.status = "PAID"]
      \/ Replaced(req) = req.old
      \/ Replaced(req) = priced
  BY DEF Replaced, priced, left
<1> QED BY <1>1, <1>3, <1>4 DEF Bill, Statuses, Due

(* A step of one request keeps all of them well-typed. *)
LEMMA MoveTypes ==
  ASSUME TypeOK, NEW s \in Slots
  PROVE  /\ \A pc \in PCs : Goto(s, pc) => request' \in [Slots -> Request]
         /\ Finish(s) => request' \in [Slots -> Request]
         /\ \A pc \in PCs : ReadBill(s, pc) => request' \in [Slots -> Request]
         /\ \A pc \in PCs, n \in 0..(MaxTries - 1) :
              GotoAfresh(s, pc, n) => request' \in [Slots -> Request]
         /\ \A pc \in PCs : Again(s, pc) => request' \in [Slots -> Request]
<1>1. request \in [Slots -> Request] /\ request[s] \in Request /\ bill \in Bill
  BY DEF TypeOK
<1>2. \A pc \in PCs : [request[s] EXCEPT !.pc = pc] \in Request
  BY <1>1 DEF Request
<1>3. \A pc \in PCs : [request[s] EXCEPT !.old = bill, !.pc = pc] \in Request
  BY <1>1 DEF Request
<1>4. \A pc \in PCs, n \in 0..(MaxTries - 1) :
        [request[s] EXCEPT !.pc = pc, !.tries = n, !.old = IdleRequest.old] \in Request
  BY <1>1, IdleType DEF Request
<1>5. LastTry(s) \/ request[s].tries + 1 \in 0..(MaxTries - 1)
  BY <1>1, BoundsAssumption DEF LastTry, Request
<1>6. \A pc \in PCs : Goto(s, pc) => request' \in [Slots -> Request]
  BY <1>1, <1>2 DEF Goto
<1>7. \A pc \in PCs : ReadBill(s, pc) => request' \in [Slots -> Request]
  BY <1>1, <1>3 DEF ReadBill
<1>8. \A pc \in PCs, n \in 0..(MaxTries - 1) :
        GotoAfresh(s, pc, n) => request' \in [Slots -> Request]
  BY <1>1, <1>4 DEF GotoAfresh
<1>9. \A pc \in PCs : Again(s, pc) => request' \in [Slots -> Request]
  <2> SUFFICES ASSUME NEW pc \in PCs, Again(s, pc) PROVE request' \in [Slots -> Request]
    OBVIOUS
  <2>1. request[s].tries + 1 \in 0..(MaxTries - 1)
    BY <1>5 DEF Again
  <2>2. GotoAfresh(s, pc, request[s].tries + 1)
    BY DEF Again
  <2> QED BY <1>8, <2>1, <2>2
<1>10. Finish(s) => request' \in [Slots -> Request]
  BY <1>1, IdleType DEF Finish
<1> QED BY <1>6, <1>7, <1>8, <1>9, <1>10

LEMMA BeginTypes ==
  ASSUME TypeOK, NEW s \in Slots, NEW req \in Request, Begin(s, req)
  PROVE  /\ request' \in [Slots -> Request] /\ started' \in 0..MaxRequests
         /\ history' \in SUBSET Incidents
         /\ bill' \in Bill /\ payments' \in [Payments -> Payment]
         /\ keyed' \in [Keys -> Payments \cup {None}]
<1>1. request' \in [Slots -> Request]
  BY DEF TypeOK, Begin
<1>2. started' \in 0..MaxRequests
  BY BoundsAssumption DEF TypeOK, Begin
<1>3. history' \in SUBSET Incidents
  BY DEF TypeOK, Begin, Incidents
<1> QED BY <1>1, <1>2, <1>3 DEF TypeOK, Begin

LEMMA NewRequestType ==
  ASSUME TypeOK, NEW s \in Slots, NewRequest(s)
  PROVE  TypeOK'
<1> USE IdleType
<1>0. AllOps = {"pay", "reverse", "edit", "resync", "cancel", "status", "fail", "crash"}
  BY DEF AllOps
<1>1. ASSUME NEW p \in Payments, NEW amount \in Amounts, NEW k \in Keys \cup {None},
             StartPay(s, p, amount, k)
      PROVE  TypeOK'
  <2> DEFINE req == [IdleRequest EXCEPT !.pc = "reserveRead", !.op = "pay", !.payment = p,
                                        !.amount = amount, !.key = k]
  <2>1. req \in Request
    BY <1>0 DEF Request, PCs
  <2>2. Begin(s, req)
    BY <1>1 DEF StartPay
  <2>3. unsafe' \in SUBSET Keys
    BY <1>1 DEF TypeOK, StartPay
  <2> HIDE DEF req
  <2> QED BY <2>1, <2>2, <2>3, BeginTypes DEF TypeOK
<1>2. ASSUME NEW p \in Payments, StartReverse(s, p) PROVE TypeOK'
  <2> DEFINE req == [IdleRequest EXCEPT !.pc = "claim", !.op = "reverse", !.payment = p,
                                        !.amount = payments[p].amount]
  <2>1. payments[p].amount \in Amounts \cup {0}
    BY DEF TypeOK, Payment
  <2>2. req \in Request
    BY <1>0, <2>1 DEF Request, PCs
  <2>3. Begin(s, req) /\ unsafe' = unsafe
    BY <1>2 DEF StartReverse
  <2> HIDE DEF req
  <2> QED BY <2>2, <2>3, BeginTypes DEF TypeOK
<1>3. ASSUME NEW total \in Totals, NEW op \in {"edit", "resync"},
             Begin(s, [IdleRequest EXCEPT !.pc = "replace", !.op = op, !.old = bill,
                                          !.total = total]),
             UNCHANGED unsafe
      PROVE  TypeOK'
  <2> DEFINE req == [IdleRequest EXCEPT !.pc = "replace", !.op = op, !.old = bill,
                                        !.total = total]
  <2>1. req \in Request
    BY <1>0 DEF Request, PCs, TypeOK
  <2>2. Begin(s, req)
    BY <1>3
  <2> HIDE DEF req
  <2> QED BY <1>3, <2>1, <2>2, BeginTypes DEF TypeOK
<1>4. ASSUME NEW total \in Totals, StartEdit(s, total) PROVE TypeOK'
  BY <1>3, <1>4 DEF StartEdit
<1>5. ASSUME NEW total \in Totals, StartResync(s, total) PROVE TypeOK'
  BY <1>3, <1>5 DEF StartResync
<1> QED BY <1>1, <1>2, <1>4, <1>5 DEF NewRequest

LEMMA RecordedType ==
  ASSUME TypeOK, NEW s \in Slots, Recorded(s)
  PROVE  payments' \in [Payments -> Payment]
<1>1. request[s] \in Request
  BY DEF TypeOK
<1>2. [state |-> "RECORDED", amount |-> request[s].amount, key |-> request[s].key] \in Payment
  BY <1>1 DEF Request, Payment
<1> QED BY <1>2 DEF Recorded, TypeOK

LEMMA StateType ==
  ASSUME TypeOK, NEW p, NEW st \in {"NONE", "RECORDED", "REVERSED"},
         payments' = [payments EXCEPT ![p].state = st]
  PROVE  payments' \in [Payments -> Payment]
<1>1. \A q \in Payments : [payments[q] EXCEPT !.state = st] \in Payment
  BY DEF TypeOK, Payment
<1> QED BY <1>1 DEF TypeOK

LEMMA StepType ==
  ASSUME TypeOK, NEW s \in Slots, Step(s)
  PROVE  TypeOK'
<1> DEFINE req == request[s]
<1>0. /\ req \in Request /\ bill \in Bill /\ payments \in [Payments -> Payment]
      /\ keyed \in [Keys -> Payments \cup {None}] /\ history \in SUBSET Incidents
      /\ started \in 0..MaxRequests /\ unsafe \in SUBSET Keys
      /\ request \in [Slots -> Request]
  BY DEF TypeOK
<1>pcs. /\ "reserve" \in PCs /\ "insert" \in PCs /\ "confirm" \in PCs /\ "remember" \in PCs
        /\ "reserveRead" \in PCs /\ "rollbackRead" \in PCs /\ "rollback" \in PCs
        /\ "unwindRead" \in PCs /\ "unwind" \in PCs /\ "release" \in PCs
  BY DEF PCs
<1>z. 0 \in 0..(MaxTries - 1)
  BY BoundsAssumption
<1> HIDE DEF req
<1>1. CASE ReserveRead(s)
  <2>1. request' \in [Slots -> Request]
    BY <1>1, <1>pcs, MoveTypes DEF ReserveRead
  <2> QED BY <1>0, <1>1, <2>1 DEF TypeOK, ReserveRead, Frame
<1>2. CASE Reserve(s)
  <2>1. CASE Unchanged(s)
    <3>1. bill' = WithPaid(bill, req.old.paid + req.amount, bill.status)
      BY <1>2, <2>1 DEF Reserve, req
    <3>2. req.old.paid + req.amount \in Nat
      BY <1>0, RequestType
    <3>3. bill' \in Bill
      BY <1>0, <3>1, <3>2, WithPaidType, BillType
    <3>4. [req EXCEPT !.pc = "insert", !.tries = 0, !.prior = req.old.status,
                      !.old = IdleRequest.old] \in Request
      <4>1. req.old.status \in Statuses /\ IdleRequest.old \in Bill
        BY <1>0, RequestType, BillType, IdleType
      <4> QED BY <1>0, <1>pcs, <1>z, <4>1 DEF Request
    <3>5. request' \in [Slots -> Request]
      BY <1>0, <1>2, <2>1, <3>4 DEF Reserve, req
    <3> QED BY <1>0, <1>2, <3>3, <3>5 DEF TypeOK, Reserve, Frame
  <2>2. CASE ~Unchanged(s)
    <3>1. bill' = bill
      BY <1>2, <2>2 DEF Reserve
    <3>2. request' \in [Slots -> Request]
      BY <1>2, <2>2, <1>pcs, MoveTypes DEF Reserve
    <3> QED BY <1>0, <1>2, <3>1, <3>2 DEF TypeOK, Reserve, Frame
  <2> QED BY <2>1, <2>2
<1>3. CASE InsertPayment(s)
  <2>1. request' \in [Slots -> Request]
    BY <1>3, <1>pcs, MoveTypes DEF InsertPayment
  <2>2. payments' \in [Payments -> Payment]
    BY <1>3, RecordedType DEF InsertPayment
  <2> QED BY <1>0, <1>3, <2>1, <2>2 DEF TypeOK, InsertPayment, Frame
<1>4. CASE InsertRaises(s)
  <2>1. request' \in [Slots -> Request]
    BY <1>4, <1>pcs, MoveTypes DEF InsertRaises
  <2>2. payments' \in [Payments -> Payment]
    BY <1>0, <1>4, RecordedType DEF InsertRaises
  <2>3. history' \in SUBSET Incidents
    BY <1>0, <1>4 DEF InsertRaises, Incidents
  <2> QED BY <1>0, <1>4, <2>1, <2>2, <2>3 DEF TypeOK, InsertRaises, Frame
<1>5. CASE Confirm(s)
  <2>1. request' \in [Slots -> Request]
    BY <1>5, <1>pcs, MoveTypes DEF Confirm
  <2> QED BY <1>0, <1>5, <2>1 DEF TypeOK, Confirm, Frame
<1>6. CASE RollbackRead(s)
  <2>1. request' \in [Slots -> Request]
    BY <1>6, <1>pcs, MoveTypes DEF RollbackRead
  <2> QED BY <1>0, <1>6, <2>1 DEF TypeOK, RollbackRead, Frame
<1>7. CASE Rollback(s)
  <2>1. request' \in [Slots -> Request]
    BY <1>7, <1>pcs, MoveTypes DEF Rollback
  <2>2. bill' \in Bill
    BY <1>0, <1>7, RolledBackType DEF Rollback, req
  <2>3. history' \in SUBSET Incidents
    BY <1>0, <1>7 DEF Rollback, Incidents
  <2> QED BY <1>0, <1>7, <2>1, <2>2, <2>3 DEF TypeOK, Rollback, Frame
<1>8. CASE Remember(s)
  <2>1. request' \in [Slots -> Request]
    BY <1>8, MoveTypes DEF Remember
  <2>2. req.payment \in Payments \cup {None} /\ req.key \in Keys \cup {None}
    BY <1>0 DEF Request
  <2>3. keyed' \in [Keys -> Payments \cup {None}]
    BY <1>0, <1>8, <2>2 DEF Remember, req
  <2> QED BY <1>0, <1>8, <2>1, <2>3 DEF TypeOK, Remember, Frame
<1>9. CASE Claim(s)
  <2>1. request' \in [Slots -> Request]
    BY <1>9, <1>pcs, MoveTypes DEF Claim
  <2>2. payments' \in [Payments -> Payment]
    BY <1>0, <1>9, StateType DEF Claim
  <2> QED BY <1>0, <1>9, <2>1, <2>2 DEF TypeOK, Claim, Frame
<1>10. CASE UnwindRead(s)
  <2>1. request' \in [Slots -> Request]
    BY <1>10, <1>pcs, MoveTypes DEF UnwindRead
  <2> QED BY <1>0, <1>10, <2>1 DEF TypeOK, UnwindRead, Frame
<1>11. CASE Unwind(s)
  <2>1. request' \in [Slots -> Request]
    BY <1>11, <1>pcs, <1>z, MoveTypes DEF Unwind
  <2>2. bill' \in Bill
    BY <1>0, <1>11, UnwoundType DEF Unwind, req
  <2> QED BY <1>0, <1>11, <2>1, <2>2 DEF TypeOK, Unwind, Frame
<1>12. CASE UnwindRaises(s)
  <2>1. request' \in [Slots -> Request]
    BY <1>12, <1>pcs, <1>z, MoveTypes DEF UnwindRaises
  <2>2. bill' \in Bill
    BY <1>0, <1>12, UnwoundType DEF UnwindRaises, req
  <2>3. history' \in SUBSET Incidents
    BY <1>0, <1>12 DEF UnwindRaises, Incidents
  <2> QED BY <1>0, <1>12, <2>1, <2>2, <2>3 DEF TypeOK, UnwindRaises, Frame
<1>13. CASE Release(s)
  <2>1. request' \in [Slots -> Request]
    BY <1>13, MoveTypes DEF Release
  <2>2. payments' \in [Payments -> Payment]
    BY <1>13, StateType DEF Release
  <2> QED BY <1>0, <1>13, <2>1, <2>2 DEF TypeOK, Release, Frame
<1>14. CASE ReplaceBill(s)
  <2>1. request' \in [Slots -> Request]
    BY <1>14, MoveTypes DEF ReplaceBill
  <2>2. bill' \in Bill
    BY <1>0, <1>14, ReplacedType DEF ReplaceBill, req
  <2>3. history' \in SUBSET Incidents
    BY <1>0, <1>14 DEF ReplaceBill, Incidents
  <2> QED BY <1>0, <1>14, <2>1, <2>2, <2>3 DEF TypeOK, ReplaceBill, Frame
<1> QED BY <1>1, <1>2, <1>3, <1>4, <1>5, <1>6, <1>7, <1>8, <1>9, <1>10, <1>11, <1>12,
           <1>13, <1>14 DEF Step

LEMMA TypeInvariant == TypeOK /\ [Next]_vars => TypeOK'
<1> SUFFICES ASSUME TypeOK, [Next]_vars PROVE TypeOK'
  OBVIOUS
<1>1. ASSUME NEW s \in Slots, Crash(s) PROVE TypeOK'
  <2>1. request' \in [Slots -> Request]
    BY <1>1, MoveTypes DEF Crash
  <2>2. history' \in SUBSET Incidents /\ unsafe' \in SUBSET Keys
    BY <1>1 DEF TypeOK, Crash, Incidents
  <2> QED BY <1>1, <2>1, <2>2 DEF TypeOK, Crash
<1>2. ASSUME NEW to \in Statuses, bill' = [bill EXCEPT !.status = to] PROVE bill' \in Bill
  BY <1>2 DEF TypeOK, Bill
<1>3. CASE Cancel
  <2>1. bill' \in Bill
    BY <1>2, <1>3 DEF Cancel, Statuses
  <2> QED BY <1>3, <2>1 DEF TypeOK, Cancel, Frame
<1>4. ASSUME NEW to \in Statuses, SetStatus(to) PROVE TypeOK'
  <2>1. bill' \in Bill
    BY <1>2, <1>4 DEF SetStatus
  <2>2. history' \in SUBSET Incidents
    BY <1>4 DEF TypeOK, SetStatus, Incidents
  <2> QED BY <1>4, <2>1, <2>2 DEF TypeOK, SetStatus, Frame
<1>5. CASE UNCHANGED vars
  BY <1>5 DEF TypeOK, vars
<1> QED BY <1>1, <1>3, <1>4, <1>5, NewRequestType, StepType DEF Next

LEMMA TypeInit == Init => TypeOK
<1> SUFFICES ASSUME Init PROVE TypeOK
  OBVIOUS
<1>1. PICK n \in Totals : bill = [status |-> "OPEN", paid |-> 0, total |-> n, outstanding |-> n]
  BY DEF Init
<1>2. n \in Nat /\ AnyTotal \in Totals /\ AnyTotal \in Nat
  BY <1>1, TotalsAssumption DEF AnyTotal
<1>3. 0 \in 0..(MaxTries - 1) /\ 0 \in 0..MaxRequests
  BY BoundsAssumption
<1>4. bill \in Bill
  BY <1>1, <1>2 DEF Bill, Statuses
<1>5. IdleRequest \in Request
  BY <1>2, <1>3 DEF IdleRequest, Request, Bill, Statuses, PCs, AllOps
<1>6. NoPayment \in Payment
  BY DEF NoPayment, Payment
<1> QED BY <1>3, <1>4, <1>5, <1>6 DEF Init, TypeOK

(* The paid and outstanding amounts never go below zero, and every document  *)
(* and request keeps its shape, for whatever amounts, totals and numbers of  *)
(* requests and attempts.                                                    *)
THEOREM TypeCorrect == Spec => []TypeOK
  BY TypeInit, TypeInvariant, PTL DEF Spec

-----------------------------------------------------------------------------
(* The balance.  BalanceAddsUp is not inductive: a reversal computes what is *)
(* outstanding from the total it read, and a resynchronised paid bill is     *)
(* written back with the balance it had.  As long as whole-document writers  *)
(* run alone, the total a reversal read is the stored one.                   *)

BalanceInv ==
  /\ TypeOK
  /\ \A s \in Slots : request[s].pc = "replace" => Replaces(request[s].op)
  /\ Spared({"raced"}) =>
       /\ bill.outstanding = Due(bill)
       /\ \A s \in Slots : request[s].pc = "unwind" => request[s].old.total = bill.total
       /\ \A s \in Slots : request[s].pc = "replace" =>
            /\ request[s].old.outstanding = Due(request[s].old)
            /\ \A t \in Slots \ {s} : ~Active(t)

(* A step concerns one request, which only then knows of the bill.           *)
LEMMA StepMoves ==
  ASSUME TypeOK, NEW s \in Slots, Step(s)
  PROVE  /\ \A t \in Slots \ {s} : request'[t] = request[t]
         /\ request'[s].pc # "replace"
         /\ request'[s].pc = "unwind" => request'[s].old = bill /\ bill' = bill
         /\ history \subseteq history'
<1> USE DEF Frame, Goto, Finish, ReadBill, GotoAfresh, Again
<1>0. request \in [Slots -> Request] /\ request[s] \in Request
  BY DEF TypeOK
<1>i. IdleRequest.pc = "idle"
  BY DEF IdleRequest
<1> USE <1>0, <1>i DEF Request
<1>1. CASE ReserveRead(s)
  BY <1>1 DEF ReserveRead
<1>2. CASE Reserve(s)
  BY <1>2 DEF Reserve
<1>3. CASE InsertPayment(s)
  BY <1>3 DEF InsertPayment
<1>4. CASE InsertRaises(s)
  BY <1>4 DEF InsertRaises
<1>5. CASE Confirm(s)
  BY <1>5 DEF Confirm
<1>6. CASE RollbackRead(s)
  BY <1>6 DEF RollbackRead
<1>7. CASE Rollback(s)
  BY <1>7 DEF Rollback
<1>8. CASE Remember(s)
  BY <1>8 DEF Remember
<1>9. CASE Claim(s)
  BY <1>9 DEF Claim
<1>10. CASE UnwindRead(s)
  BY <1>10 DEF UnwindRead
<1>11. CASE Unwind(s)
  BY <1>11 DEF Unwind
<1>12. CASE UnwindRaises(s)
  BY <1>12 DEF UnwindRaises
<1>13. CASE Release(s)
  BY <1>13 DEF Release
<1>14. CASE ReplaceBill(s)
  BY <1>14 DEF ReplaceBill
<1> QED BY <1>1, <1>2, <1>3, <1>4, <1>5, <1>6, <1>7, <1>8, <1>9, <1>10, <1>11, <1>12,
           <1>13, <1>14 DEF Step

(* Only a replacement changes the total, and every write leaves a balance    *)
(* that adds up.                                                             *)
LEMMA StepBalance ==
  ASSUME TypeOK, NEW s \in Slots, Step(s), bill.outstanding = Due(bill),
         request[s].pc = "unwind" => request[s].old.total = bill.total,
         request[s].pc = "replace" => request[s].old.outstanding = Due(request[s].old)
  PROVE  /\ bill'.outstanding = Due(bill')
         /\ request[s].pc # "replace" => bill'.total = bill.total
<1>0. request[s] \in Request /\ bill \in Bill
  BY DEF TypeOK
<1>1. CASE Reserve(s)
  <2>1. CASE Unchanged(s)
    <3>1. bill' = WithPaid(bill, request[s].old.paid + request[s].amount, bill.status)
      BY <1>1, <2>1 DEF Reserve
    <3>2. request[s].old.paid + request[s].amount \in Nat
      BY <1>0, RequestType
    <3> QED BY <1>0, <3>1, <3>2, WithPaidType, BillType DEF Due
  <2> QED BY <1>1, <2>1 DEF Reserve
<1>2. CASE Rollback(s)
  BY <1>0, <1>2, RolledBackType DEF Rollback, Unchanged
<1>3. CASE Unwind(s)
  BY <1>0, <1>3, UnwoundType DEF Unwind
<1>4. CASE UnwindRaises(s)
  BY <1>0, <1>4, UnwoundType DEF UnwindRaises
<1>5. CASE ReplaceBill(s)
  BY <1>0, <1>5, ReplacedType DEF ReplaceBill
<1>6. CASE ~(Reserve(s) \/ Rollback(s) \/ Unwind(s) \/ UnwindRaises(s) \/ ReplaceBill(s))
  <2>1. bill' = bill
    BY <1>6 DEF Step, ReserveRead, InsertPayment, InsertRaises, Confirm, RollbackRead,
                Remember, Claim, UnwindRead, Release
  <2> QED BY <2>1
<1> QED BY <1>1, <1>2, <1>3, <1>4, <1>5, <1>6

(* A new request: one that replaces the bill starts alone, or all is raced.  *)
LEMMA BeginBalance ==
  ASSUME BalanceInv, NEW s \in Slots, NEW req \in Request, Begin(s, req),
         req.pc \notin {"idle", "unwind"},
         req.pc = "replace" => Replaces(req.op) /\ req.old = bill, TypeOK'
  PROVE  BalanceInv'
<1>1. /\ \A t \in Slots \ {s} : request'[t] = request[t]
      /\ request'[s] = req /\ bill' = bill /\ history \subseteq history'
  BY DEF BalanceInv, TypeOK, Begin
<1>2. ~Active(s)
  BY DEF Begin
<1>3. Spared({"raced"})' => Spared({"raced"})
  BY <1>1 DEF Spared
<1>4. ASSUME Spared({"raced"})', NEW t \in Slots, Active(t)
      PROVE  ~Replaces(req.op) /\ ~Replaces(request[t].op)
  BY <1>4 DEF Spared, Begin
<1>5. \A t \in Slots : request'[t].pc = "replace" => Replaces(request'[t].op)
  BY <1>1 DEF BalanceInv
<1>6. ASSUME Spared({"raced"})'
      PROVE  /\ bill'.outstanding = Due(bill')
             /\ \A t \in Slots : request'[t].pc = "unwind" => request'[t].old.total = bill'.total
             /\ \A t \in Slots : request'[t].pc = "replace" =>
                  /\ request'[t].old.outstanding = Due(request'[t].old)
                  /\ \A u \in Slots \ {t} : ~Active(u)'
  <2>1. bill'.outstanding = Due(bill')
    BY <1>1, <1>3, <1>6 DEF BalanceInv
  <2>2. ASSUME NEW t \in Slots, request'[t].pc = "unwind"
        PROVE  request'[t].old.total = bill'.total
    BY <1>1, <1>3, <1>6, <2>2 DEF BalanceInv
  <2>3. ASSUME NEW t \in Slots, request'[t].pc = "replace"
        PROVE  /\ request'[t].old.outstanding = Due(request'[t].old)
               /\ \A u \in Slots \ {t} : ~Active(u)'
    <3>1. CASE t = s
      <4>1. \A u \in Slots \ {s} : ~Active(u)
        BY <1>1, <1>4, <1>6, <2>3, <3>1
      <4> QED BY <1>1, <2>1, <2>3, <3>1, <4>1 DEF Active
    <3>2. CASE t # s
      <4>1. request[t].pc = "replace" /\ Active(t) /\ Replaces(request[t].op)
        BY <1>1, <2>3, <3>2 DEF BalanceInv, Active
      <4> QED BY <1>4, <1>6, <4>1
    <3> QED BY <3>1, <3>2
  <2> QED BY <2>1, <2>2, <2>3
<1> QED BY <1>5, <1>6 DEF BalanceInv, Spared, Due, AtLeastZero, Active, Replaces

LEMMA BalanceInvariant == BalanceInv /\ [Next]_vars => BalanceInv'
<1> SUFFICES ASSUME BalanceInv, [Next]_vars PROVE BalanceInv'
  OBVIOUS
<1>0. TypeOK /\ TypeOK'
  BY TypeInvariant DEF BalanceInv
<1>1. ASSUME NEW s \in Slots, NewRequest(s) PROVE BalanceInv'
  <2> USE <1>0, IdleType
  <2>0. AllOps = {"pay", "reverse", "edit", "resync", "cancel", "status", "fail", "crash"}
    BY DEF AllOps
  <2>1. ASSUME NEW p \in Payments, NEW amount \in Amounts, NEW k \in Keys \cup {None},
               StartPay(s, p, amount, k)
        PROVE  BalanceInv'
    <3> DEFINE req == [IdleRequest EXCEPT !.pc = "reserveRead", !.op = "pay", !.payment = p,
                                          !.amount = amount, !.key = k]
    <3>1. req \in Request /\ req.pc = "reserveRead"
      BY <2>0 DEF Request, PCs
    <3>2. Begin(s, req)
      BY <2>1 DEF StartPay
    <3> HIDE DEF req
    <3> QED BY <3>1, <3>2, BeginBalance
  <2>2. ASSUME NEW p \in Payments, StartReverse(s, p) PROVE BalanceInv'
    <3> DEFINE req == [IdleRequest EXCEPT !.pc = "claim", !.op = "reverse", !.payment = p,
                                          !.amount = payments[p].amount]
    <3>1. payments[p].amount \in Amounts \cup {0}
      BY DEF TypeOK, Payment
    <3>2. req \in Request /\ req.pc = "claim"
      BY <2>0, <3>1 DEF Request, PCs
    <3>3. Begin(s, req)
      BY <2>2 DEF StartReverse
    <3> HIDE DEF req
    <3> QED BY <3>2, <3>3, BeginBalance
  <2>3. ASSUME NEW total \in Totals, NEW op \in {"edit", "resync"},
               Begin(s, [IdleRequest EXCEPT !.pc = "replace", !.op = op, !.old = bill,
                                            !.total = total])
        PROVE  BalanceInv'
    <3> DEFINE req == [IdleRequest EXCEPT !.pc = "replace", !.op = op, !.old = bill,
                                          !.total = total]
    <3>1. req \in Request /\ req.pc = "replace" /\ req.old = bill /\ req.op = op
      <4>1. IdleRequest \in Request /\ bill \in Bill /\ op \in AllOps /\ "replace" \in PCs
        BY <2>0 DEF PCs, TypeOK
      <4> QED BY <4>1 DEF Request
    <3>2. Begin(s, req)
      BY <2>3
    <3> HIDE DEF req
    <3> QED BY <3>1, <3>2, BeginBalance DEF Replaces
  <2>4. ASSUME NEW total \in Totals, StartEdit(s, total) \/ StartResync(s, total)
        PROVE  BalanceInv'
    BY <2>3, <2>4 DEF StartEdit, StartResync
  <2> QED BY <1>1, <2>1, <2>2, <2>4 DEF NewRequest
<1>2. ASSUME NEW s \in Slots, Step(s) PROVE BalanceInv'
  <2>0. /\ \A t \in Slots \ {s} : request'[t] = request[t]
        /\ request'[s].pc # "replace"
        /\ request'[s].pc = "unwind" => request'[s].old = bill /\ bill' = bill
        /\ history \subseteq history'
    BY <1>0, <1>2, StepMoves
  <2>a. Active(s)
    BY <1>2 DEF Step, Active, ReserveRead, Reserve, InsertPayment, InsertRaises, Confirm,
                RollbackRead, Rollback, Remember, Claim, UnwindRead, Unwind, UnwindRaises,
                Release, ReplaceBill
  <2>1. \A t \in Slots : request'[t].pc = "replace" => Replaces(request'[t].op)
    BY <2>0 DEF BalanceInv
  <2>2. ASSUME Spared({"raced"})'
        PROVE  /\ bill'.outstanding = Due(bill')
               /\ \A t \in Slots : request'[t].pc = "unwind" =>
                    request'[t].old.total = bill'.total
               /\ \A t \in Slots : request'[t].pc # "replace"
    <3>1. Spared({"raced"})
      BY <2>0, <2>2 DEF Spared
    <3>2. /\ bill'.outstanding = Due(bill')
          /\ request[s].pc # "replace" => bill'.total = bill.total
      BY <1>0, <1>2, <3>1, StepBalance DEF BalanceInv
    <3>3. ASSUME NEW t \in Slots PROVE request'[t].pc # "replace"
      BY <2>0, <2>a, <3>1, <3>3 DEF BalanceInv
    <3>4. ASSUME NEW t \in Slots, request'[t].pc = "unwind"
          PROVE  request'[t].old.total = bill'.total
      <4>1. CASE t = s
        BY <2>0, <3>4, <4>1
      <4>2. CASE t # s
        <5>1. Active(t) /\ request[t].old.total = bill.total
          BY <2>0, <3>1, <3>4, <4>2 DEF BalanceInv, Active
        <5>2. request[s].pc # "replace"
          BY <3>1, <4>2, <5>1 DEF BalanceInv
        <5> QED BY <2>0, <3>2, <4>2, <5>1, <5>2
      <4> QED BY <4>1, <4>2
    <3> QED BY <3>2, <3>3, <3>4
  <2> QED BY <1>0, <2>1, <2>2 DEF BalanceInv, Spared, Due, AtLeastZero, Active, Replaces
<1>3. ASSUME NEW s \in Slots, Crash(s) PROVE BalanceInv'
  <2>1. /\ \A t \in Slots \ {s} : request'[t] = request[t]
        /\ request'[s].pc = "idle" /\ bill' = bill /\ history \subseteq history'
    BY <1>0, <1>3 DEF TypeOK, Crash, Finish, IdleRequest
  <2>2. Spared({"raced"})' => Spared({"raced"})
    BY <2>1 DEF Spared
  <2> QED BY <1>0, <2>1, <2>2 DEF BalanceInv, Due, AtLeastZero, Active, Replaces
<1>4. ASSUME request' = request, history \subseteq history', bill'.total = bill.total,
             bill'.paid = bill.paid, bill'.outstanding = bill.outstanding
      PROVE  BalanceInv'
  <2>1. Spared({"raced"})' => Spared({"raced"})
    BY <1>4 DEF Spared
  <2> QED BY <1>0, <1>4, <2>1 DEF BalanceInv, Due, AtLeastZero, Active, Replaces
<1>5. ASSUME NEW to \in Statuses, bill' = [bill EXCEPT !.status = to]
      PROVE  bill'.total = bill.total /\ bill'.paid = bill.paid
             /\ bill'.outstanding = bill.outstanding
  BY <1>0, <1>5 DEF TypeOK, Bill
<1>6. CASE Cancel
  BY <1>4, <1>5, <1>6 DEF Cancel, Statuses
<1>7. ASSUME NEW to \in Statuses, SetStatus(to) PROVE BalanceInv'
  BY <1>4, <1>5, <1>7 DEF SetStatus
<1>8. CASE UNCHANGED vars
  BY <1>4, <1>8 DEF vars
<1> QED BY <1>1, <1>2, <1>3, <1>6, <1>7, <1>8 DEF Next

(* The outstanding amount is always what total and paid amount imply, for    *)
(* any number of payments, compensations and reversals at once, whatever     *)
(* fails in between, provided edits and corrections run alone.               *)
THEOREM BalanceIsRight == Spec => []BalanceAddsUp
<1>1. Init => BalanceInv
  <2> SUFFICES ASSUME Init PROVE BalanceInv
    OBVIOUS
  <2>1. PICK n \in Totals : bill = [status |-> "OPEN", paid |-> 0, total |-> n, outstanding |-> n]
    BY DEF Init
  <2>2. n \in Nat
    BY <2>1, TotalsAssumption
  <2>3. bill.outstanding = Due(bill)
    BY <2>1, <2>2 DEF Due, AtLeastZero
  <2>4. \A s \in Slots : request[s].pc = "idle"
    BY DEF Init, IdleRequest
  <2> QED BY <2>3, <2>4, TypeInit DEF BalanceInv
<1>2. BalanceInv => BalanceAddsUp
  BY DEF BalanceInv, BalanceAddsUp
<1> QED BY <1>1, <1>2, BalanceInvariant, PTL DEF Spec

-----------------------------------------------------------------------------
(* Cancellations.  A reservation is only ever attempted from a copy of the   *)
(* bill that was not cancelled, and the copy must still be what is stored.   *)

CancellationInv ==
  /\ TypeOK
  /\ \A s \in Slots : request[s].pc = "reserve" => request[s].old.status # "CANCELLED"

LEMMA CancellationInvariant == CancellationInv /\ [Next]_vars => CancellationInv'
<1> SUFFICES ASSUME CancellationInv, [Next]_vars PROVE CancellationInv'
  OBVIOUS
<1>0. TypeOK /\ TypeOK'
  BY TypeInvariant DEF CancellationInv
<1>i. IdleRequest \in Request /\ IdleRequest.pc = "idle"
  BY <1>0, IdleType DEF IdleRequest
<1>1. ASSUME NEW s \in Slots,
             \A t \in Slots \ {s} : request'[t] = request[t],
             request'[s].pc = "reserve" => request'[s].old.status # "CANCELLED"
      PROVE  CancellationInv'
  BY <1>0, <1>1 DEF CancellationInv
<1>2. ASSUME NEW s \in Slots, NEW req \in Request, Begin(s, req), req.pc # "reserve"
      PROVE  CancellationInv'
  BY <1>0, <1>1, <1>2 DEF Begin, TypeOK
<1>3. ASSUME NEW s \in Slots, NewRequest(s) PROVE CancellationInv'
  <2>1. ASSUME NEW req, Begin(s, req), req.pc # "reserve" PROVE CancellationInv'
    <3>1. request' = [request EXCEPT ![s] = req]
      BY <2>1 DEF Begin
    <3>2. request'[s] = req /\ \A t \in Slots \ {s} : request'[t] = request[t]
      BY <1>0, <3>1 DEF TypeOK
    <3> QED BY <1>1, <2>1, <3>2
  <2>2. ASSUME NEW p \in Payments, NEW amount \in Amounts, NEW k \in Keys \cup {None},
               StartPay(s, p, amount, k)
        PROVE  CancellationInv'
    <3> DEFINE req == [IdleRequest EXCEPT !.pc = "reserveRead", !.op = "pay", !.payment = p,
                                          !.amount = amount, !.key = k]
    <3>1. req.pc = "reserveRead"
      BY DEF IdleRequest
    <3>2. Begin(s, req)
      BY <2>2 DEF StartPay
    <3> HIDE DEF req
    <3> QED BY <2>1, <3>1, <3>2
  <2>3. ASSUME NEW p \in Payments, StartReverse(s, p) PROVE CancellationInv'
    <3> DEFINE req == [IdleRequest EXCEPT !.pc = "claim", !.op = "reverse", !.payment = p,
                                          !.amount = payments[p].amount]
    <3>1. req.pc = "claim"
      BY DEF IdleRequest
    <3>2. Begin(s, req)
      BY <2>3 DEF StartReverse
    <3> HIDE DEF req
    <3> QED BY <2>1, <3>1, <3>2
  <2>4. ASSUME NEW total \in Totals, NEW op \in {"edit", "resync"},
               Begin(s, [IdleRequest EXCEPT !.pc = "replace", !.op = op, !.old = bill,
                                            !.total = total])
        PROVE  CancellationInv'
    <3> DEFINE req == [IdleRequest EXCEPT !.pc = "replace", !.op = op, !.old = bill,
                                          !.total = total]
    <3>1. req.pc = "replace"
      BY DEF IdleRequest
    <3>2. Begin(s, req)
      BY <2>4
    <3> HIDE DEF req
    <3> QED BY <2>1, <3>1, <3>2
  <2>5. ASSUME NEW total \in Totals, StartEdit(s, total) \/ StartResync(s, total)
        PROVE  CancellationInv'
    BY <2>4, <2>5 DEF StartEdit, StartResync
  <2> QED BY <1>3, <2>2, <2>3, <2>5 DEF NewRequest
<1>4. ASSUME NEW s \in Slots, Step(s) PROVE CancellationInv'
  <2>1. \A t \in Slots \ {s} : request'[t] = request[t]
    BY <1>0, <1>4, StepMoves
  <2>2. CASE ReserveRead(s)
    <3>1. request'[s].pc = "reserve" => request'[s].old = bill /\ bill.status # "CANCELLED"
      BY <1>0, <1>i, <2>2 DEF ReserveRead, ReadBill, Finish, Acceptable, TypeOK, Request
    <3> QED BY <1>1, <2>1, <3>1
  <2>3. ASSUME request'[s].pc # "reserve" PROVE CancellationInv'
    BY <1>1, <2>1, <2>3
  <2> USE <1>0, <1>i DEF TypeOK
  <2>4. ASSUME NEW pc \in PCs \ {"reserve"}, NEW n,
               Goto(s, pc) \/ Finish(s) \/ ReadBill(s, pc) \/ GotoAfresh(s, pc, n)
        PROVE  CancellationInv'
    <3>0. request[s] \in Request
      OBVIOUS
    <3>1. CASE Goto(s, pc)
      BY <2>3, <2>4, <3>0, <3>1 DEF Goto, Request
    <3>2. CASE Finish(s)
      BY <2>3, <3>2 DEF Finish
    <3>3. CASE ReadBill(s, pc)
      <4>1. request'[s].pc = pc
        BY <3>0, <3>3 DEF ReadBill, Request
      <4> QED BY <2>3, <2>4, <4>1
    <3>4. CASE GotoAfresh(s, pc, n)
      <4> DEFINE req == [request[s] EXCEPT !.pc = pc, !.tries = n, !.old = IdleRequest.old]
      <4>1. req.pc = pc
        BY <3>0 DEF Request
      <4>2. request'[s] = req
        BY <3>4 DEF GotoAfresh
      <4> HIDE DEF req
      <4> QED BY <2>3, <2>4, <4>1, <4>2
    <3> QED BY <2>4, <3>1, <3>2, <3>3, <3>4
  <2>5. CASE Reserve(s)
    <3>1. CASE Unchanged(s)
      <4> DEFINE req == [request[s] EXCEPT !.pc = "insert", !.tries = 0,
                            !.prior = request[s].old.status, !.old = IdleRequest.old]
      <4>1. req.pc = "insert"
        BY DEF Request
      <4>2. request'[s] = req
        BY <2>5, <3>1 DEF Reserve
      <4> HIDE DEF req
      <4> QED BY <2>3, <4>1, <4>2
    <3>2. CASE ~Unchanged(s)
      BY <2>4, <2>5, <3>2 DEF Reserve, Again, PCs
    <3> QED BY <3>1, <3>2
  <2>6. CASE InsertPayment(s) \/ InsertRaises(s) \/ Confirm(s)
    BY <2>4, <2>6 DEF InsertPayment, InsertRaises, Confirm, PCs
  <2>7. CASE RollbackRead(s) \/ Rollback(s) \/ Remember(s)
    BY <2>4, <2>7 DEF RollbackRead, Rollback, Remember, Again, PCs
  <2>8. CASE Claim(s) \/ UnwindRead(s) \/ Unwind(s)
    BY <2>4, <2>8 DEF Claim, UnwindRead, Unwind, Again, PCs
  <2>9. CASE UnwindRaises(s) \/ Release(s) \/ ReplaceBill(s)
    BY <2>4, <2>9 DEF UnwindRaises, Release, ReplaceBill, PCs
  <2> QED BY <1>4, <2>2, <2>5, <2>6, <2>7, <2>8, <2>9 DEF Step
<1>5. ASSUME NEW s \in Slots, Crash(s) PROVE CancellationInv'
  BY <1>0, <1>i, <1>1, <1>5 DEF Crash, Finish, TypeOK
<1>6. CASE request' = request
  BY <1>0, <1>6 DEF CancellationInv
<1> QED BY <1>3, <1>4, <1>5, <1>6 DEF Next, Cancel, SetStatus, vars

(* A step that leaves a request's record alone is not that request's.        *)
LEMMA OnlyItsOwnStep ==
  ASSUME TypeOK, [Next]_vars, NEW s \in Slots, request'[s] # request[s],
         request[s].pc \in {"reserve", "rollback"}
  PROVE  Reserve(s) \/ Rollback(s) \/ bill' = bill
<1>1. ASSUME NEW t \in Slots, NewRequest(t) \/ Crash(t) PROVE bill' = bill
  BY <1>1 DEF NewRequest, StartPay, StartReverse, StartEdit, StartResync, Begin, Crash
<1>2. ASSUME NEW t \in Slots, Step(t) PROVE Reserve(s) \/ Rollback(s)
  <2>1. t = s
    BY <1>2, StepMoves
  <2> QED BY <1>2, <2>1 DEF Step, ReserveRead, InsertPayment, InsertRaises, Confirm,
             RollbackRead, Remember, Claim, UnwindRead, Unwind, UnwindRaises, Release,
             ReplaceBill
<1> QED BY <1>1, <1>2 DEF Next, Cancel, SetStatus, vars

(* A payment never lands on a cancelled bill and its compensation never      *)
(* brings one back, whenever the cancellation slips in between.              *)
THEOREM PaymentsKeepCancellations == Spec => PaymentsRespectCancellation
<1>1. Init => CancellationInv
  BY TypeInit DEF Init, IdleRequest, CancellationInv
<1>2. ASSUME CancellationInv, [Next]_vars, NEW s \in Slots, bill.status = "CANCELLED",
             request[s].pc \in {"reserve", "rollback"}, request'[s] # request[s]
      PROVE  bill'.status = "CANCELLED"
  <2>0. TypeOK /\ request[s] \in Request
    BY <1>2 DEF CancellationInv, TypeOK
  <2>1. CASE Reserve(s)
    BY <1>2, <2>1 DEF CancellationInv, Reserve, Unchanged
  <2>2. CASE Rollback(s)
    BY <1>2, <2>0, <2>2, RolledBackType DEF Rollback, Unchanged
  <2> QED BY <1>2, <2>0, <2>1, <2>2, OnlyItsOwnStep
<1>3. CancellationInv /\ [Next]_vars =>
        [\A s \in Slots :
           /\ bill.status = "CANCELLED" /\ request[s].pc \in {"reserve", "rollback"}
           /\ request'[s] # request[s]
           => bill'.status = "CANCELLED"]_vars
  BY <1>2
<1> QED BY <1>1, <1>3, CancellationInvariant, PTL DEF Spec, PaymentsRespectCancellation

-----------------------------------------------------------------------------
(* Requests in flight.  What a request does to its own record and to its     *)
(* payment, told apart from what it does to the bill: the invariants about   *)
(* payments, money and keys all follow from these cases.                     *)

PayPCs == {"reserveRead", "reserve", "insert", "confirm", "rollbackRead", "rollback", "remember"}

UnrecordedPCs == {"reserveRead", "reserve", "insert", "rollbackRead", "rollback"}

ReversePCs == {"claim", "unwindRead", "unwind", "release"}

ClaimedPCs == ReversePCs \ {"claim"}

Document(s) == payments[request[s].payment]

(* From one point of the code to the next, without a change to a payment.    *)
Edges ==
  {<<"reserveRead", "reserve">>, <<"reserve", "reserveRead">>, <<"reserve", "insert">>,
   <<"insert", "confirm">>, <<"confirm", "remember">>, <<"confirm", "rollbackRead">>,
   <<"rollbackRead", "rollback">>, <<"rollback", "rollbackRead">>,
   <<"unwindRead", "unwind">>, <<"unwind", "unwindRead">>, <<"unwind", "release">>,
   <<"unwindRead", "release">>}

Moves(s, pc) ==
  /\ request'[s].pc = pc /\ request'[s].payment = request[s].payment
  /\ request'[s].amount = request[s].amount /\ request'[s].key = request[s].key
  /\ request'[s].op = request[s].op

GoesOn(s) ==
  /\ payments' = payments /\ keyed' = keyed
  /\ request[s].pc = "insert" => "failed" \in history'
  /\ \E pc \in PCs :
       /\ Moves(s, pc) /\ <<request[s].pc, pc>> \in Edges
       /\ request[s].pc = "confirm" => (pc = "remember" <=> IsRecorded(s))

Ends(s) ==
  /\ payments' = payments /\ keyed' = keyed /\ request'[s] = IdleRequest
  /\ request[s].pc \in {"reserveRead", "reserve", "rollback", "claim", "unwind", "replace"}

Records(s) ==
  /\ request[s].pc = "insert" /\ Recorded(s) /\ keyed' = keyed
  /\ \E pc \in {"remember", "confirm"} : Moves(s, pc)

Claims(s) ==
  /\ request[s].pc = "claim" /\ Document(s).state = "RECORDED" /\ keyed' = keyed
  /\ payments' = [payments EXCEPT ![request[s].payment].state = "REVERSED"]
  /\ Moves(s, "unwindRead")

LEMMA MoveCases ==
  ASSUME TypeOK, NEW s \in Slots
  PROVE  /\ \A pc \in PCs : Goto(s, pc) => Moves(s, pc) /\ request'[s].old = request[s].old
         /\ \A pc \in PCs : ReadBill(s, pc) => Moves(s, pc) /\ request'[s].old = bill
         /\ \A pc \in PCs : \A n : GotoAfresh(s, pc, n) => Moves(s, pc)
         /\ \A pc \in PCs : Again(s, pc) => Moves(s, pc)
         /\ Finish(s) => request'[s] = IdleRequest
<1>0. request \in [Slots -> Request] /\ request[s] \in Request
  BY DEF TypeOK
<1> USE <1>0 DEF Moves
<1>1. ASSUME NEW pc \in PCs, Goto(s, pc)
      PROVE  Moves(s, pc) /\ request'[s].old = request[s].old
  BY <1>1 DEF Goto, Request
<1>2. ASSUME NEW pc \in PCs, ReadBill(s, pc) PROVE Moves(s, pc) /\ request'[s].old = bill
  BY <1>2 DEF ReadBill, Request
<1>3. ASSUME NEW pc \in PCs, NEW n, GotoAfresh(s, pc, n) PROVE Moves(s, pc)
  BY <1>3 DEF GotoAfresh, Request
<1>4. ASSUME NEW pc \in PCs, Again(s, pc) PROVE Moves(s, pc)
  BY <1>3, <1>4 DEF Again
<1>5. Finish(s) => request'[s] = IdleRequest
  BY DEF Finish
<1> HIDE DEF Moves
<1> QED BY <1>1, <1>2, <1>3, <1>4, <1>5

LEMMA StepCases ==
  ASSUME TypeOK, NEW s \in Slots, Step(s)
  PROVE  GoesOn(s) \/ Ends(s) \/ Records(s) \/ Claims(s) \/ Remember(s) \/ Release(s)
<1>p. PCs = {"idle", "reserveRead", "reserve", "insert", "confirm", "rollbackRead",
             "rollback", "remember", "claim", "unwindRead", "unwind", "release", "replace"}
  BY DEF PCs
<1>1. ASSUME NEW pc \in PCs, Moves(s, pc), payments' = payments, keyed' = keyed,
             <<request[s].pc, pc>> \in Edges,
             request[s].pc = "confirm" => (pc = "remember" <=> IsRecorded(s)),
             request[s].pc = "insert" => "failed" \in history'
      PROVE  GoesOn(s)
  BY <1>1 DEF GoesOn
<1>2. CASE ReserveRead(s)
  BY <1>1, <1>2, <1>p, MoveCases DEF ReserveRead, Edges, Ends
<1>3. CASE Reserve(s)
  <2>1. CASE Unchanged(s)
    <3> DEFINE req == [request[s] EXCEPT !.pc = "insert", !.tries = 0,
                          !.prior = request[s].old.status, !.old = IdleRequest.old]
    <3>0. request \in [Slots -> Request] /\ request[s] \in Request
      BY DEF TypeOK
    <3>a. /\ req.pc = "insert" /\ req.payment = request[s].payment
          /\ req.amount = request[s].amount /\ req.key = request[s].key
          /\ req.op = request[s].op
      BY <3>0 DEF Request
    <3>b. request' = [request EXCEPT ![s] = req]
      BY <1>3, <2>1 DEF Reserve
    <3> HIDE DEF req
    <3>1. Moves(s, "insert")
      BY <3>0, <3>a, <3>b DEF Moves
    <3> QED BY <1>1, <1>3, <2>1, <3>1, <1>p DEF Reserve, Edges
  <2>2. CASE ~Unchanged(s)
    BY <1>1, <1>3, <2>2, <1>p, MoveCases DEF Reserve, Edges, Ends
  <2> QED BY <2>1, <2>2
<1>4. CASE InsertPayment(s)
  BY <1>4, <1>p, MoveCases DEF InsertPayment, Records
<1>5. CASE InsertRaises(s)
  BY <1>1, <1>5, <1>p, MoveCases DEF InsertRaises, Records, Edges
<1>6. CASE Confirm(s)
  BY <1>1, <1>6, <1>p, MoveCases DEF Confirm, Edges
<1>7. CASE RollbackRead(s)
  BY <1>1, <1>7, <1>p, MoveCases DEF RollbackRead, Edges
<1>8. CASE Rollback(s)
  BY <1>1, <1>8, <1>p, MoveCases DEF Rollback, Edges, Ends
<1>9. CASE Claim(s)
  BY <1>9, <1>p, MoveCases DEF Claim, Claims, Ends, Document
<1>10. CASE UnwindRead(s)
  BY <1>1, <1>10, <1>p, MoveCases DEF UnwindRead, Edges
<1>11. CASE Unwind(s)
  BY <1>1, <1>11, <1>p, MoveCases DEF Unwind, Edges, Ends
<1>12. CASE UnwindRaises(s)
  BY <1>1, <1>12, <1>p, MoveCases DEF UnwindRaises, Edges
<1>13. CASE ReplaceBill(s)
  BY <1>13, MoveCases DEF ReplaceBill, Ends
<1> QED BY <1>2, <1>3, <1>4, <1>5, <1>6, <1>7, <1>8, <1>9, <1>10, <1>11, <1>12, <1>13 DEF Step

(* The three kinds of new requests. *)
StartsPaying(s) ==
  /\ request'[s].pc = "reserveRead" /\ request'[s].op = "pay"
  /\ request'[s].payment \in Payments /\ Fresh(request'[s].payment)
  /\ request'[s].amount \in Amounts
  /\ request'[s].key # None => keyed[request'[s].key] = None
  /\ (\E t \in Slots : Active(t) /\ request[t].key = request'[s].key) =>
       {request'[s].key} \cap Keys \subseteq unsafe'

StartsReversing(s) ==
  /\ request'[s].pc = "claim" /\ request'[s].payment \in Payments /\ request'[s].key = None
  /\ payments[request'[s].payment].state = "RECORDED"
  /\ request'[s].amount = payments[request'[s].payment].amount

StartsReplacing(s) ==
  /\ request'[s].pc = "replace" /\ request'[s].old = bill
  /\ Replaces(request'[s].op)
  /\ request'[s].op = "edit" => bill.status # "PAID"

LEMMA NewRequestCases ==
  ASSUME TypeOK, NEW s \in Slots, NewRequest(s)
  PROVE  /\ StartsPaying(s) \/ StartsReversing(s) \/ StartsReplacing(s)
         /\ \A t \in Slots \ {s} : request'[t] = request[t]
         /\ request[s].pc = "idle" /\ request'[s].pc # "idle"
         /\ bill' = bill /\ payments' = payments /\ keyed' = keyed
         /\ history \subseteq history' /\ unsafe \subseteq unsafe'
         /\ \A t \in Slots \ {s} : Active(t) /\ Replaces(request'[s].op) => "raced" \in history'
<1>0. /\ request \in [Slots -> Request] /\ IdleRequest \in Request
      /\ AllOps = {"pay", "reverse", "edit", "resync", "cancel", "status", "fail", "crash"}
  BY IdleType DEF TypeOK, AllOps
<1>1. ASSUME NEW req, Begin(s, req)
      PROVE  /\ request'[s] = req /\ \A t \in Slots \ {s} : request'[t] = request[t]
             /\ request[s].pc = "idle"
             /\ bill' = bill /\ payments' = payments /\ keyed' = keyed
             /\ history \subseteq history'
             /\ \A t \in Slots \ {s} : Active(t) /\ Replaces(req.op) => "raced" \in history'
  BY <1>0, <1>1 DEF Begin, Active
<1>2. ASSUME NEW p \in Payments, NEW amount \in Amounts, NEW k \in Keys \cup {None},
             Fresh(p), StartPay(s, p, amount, k)
      PROVE  /\ StartsPaying(s) /\ unsafe \subseteq unsafe'
             /\ \E req : Begin(s, req) /\ req.pc # "idle"
  <2> DEFINE req == [IdleRequest EXCEPT !.pc = "reserveRead", !.op = "pay", !.payment = p,
                                        !.amount = amount, !.key = k]
  <2>1. /\ req.pc = "reserveRead" /\ req.op = "pay" /\ req.payment = p /\ req.amount = amount
        /\ req.key = k
    BY <1>0 DEF Request
  <2>2. Begin(s, req) /\ (k # None => keyed[k] = None)
    BY <1>2 DEF StartPay
  <2>4. unsafe' = unsafe \cup (IF \E t \in Slots : Active(t) /\ request[t].key = k
                               THEN {k} \cap Keys ELSE {})
    BY <1>2 DEF StartPay
  <2> HIDE DEF req
  <2>3. request'[s] = req
    BY <1>1, <2>2
  <2>5. /\ unsafe \subseteq unsafe'
        /\ (\E t \in Slots : Active(t) /\ request[t].key = k) => {k} \cap Keys \subseteq unsafe'
    BY <2>4
  <2>6. StartsPaying(s)
    BY <1>2, <2>1, <2>2, <2>3, <2>5 DEF StartsPaying
  <2> QED BY <2>1, <2>2, <2>5, <2>6
<1>3. ASSUME NEW p \in Payments, StartReverse(s, p)
      PROVE  /\ StartsReversing(s) /\ unsafe \subseteq unsafe'
             /\ \E req : Begin(s, req) /\ req.pc # "idle"
  <2> DEFINE req == [IdleRequest EXCEPT !.pc = "claim", !.op = "reverse", !.payment = p,
                                        !.amount = payments[p].amount]
  <2>1. /\ req.pc = "claim" /\ req.payment = p /\ req.amount = payments[p].amount
        /\ req.key = None
    BY <1>0 DEF Request, IdleRequest
  <2>2. Begin(s, req) /\ payments[p].state = "RECORDED" /\ unsafe' = unsafe
    BY <1>3 DEF StartReverse
  <2> HIDE DEF req
  <2>3. request'[s] = req
    BY <1>1, <2>2
  <2> QED BY <2>1, <2>2, <2>3 DEF StartsReversing
<1>4. ASSUME NEW total \in Totals, NEW op \in {"edit", "resync"},
             Begin(s, [IdleRequest EXCEPT !.pc = "replace", !.op = op, !.old = bill,
                                          !.total = total]),
             unsafe' = unsafe, op = "edit" => bill.status # "PAID"
      PROVE  /\ StartsReplacing(s) /\ unsafe \subseteq unsafe'
             /\ \E req : Begin(s, req) /\ req.pc # "idle"
  <2> DEFINE req == [IdleRequest EXCEPT !.pc = "replace", !.op = op, !.old = bill,
                                        !.total = total]
  <2>1. req.pc = "replace" /\ req.old = bill /\ req.op = op
    BY <1>0 DEF Request
  <2>2. Begin(s, req)
    BY <1>4
  <2> HIDE DEF req
  <2>3. request'[s] = req
    BY <1>1, <2>2
  <2> QED BY <1>4, <2>1, <2>2, <2>3 DEF StartsReplacing, Replaces
<1>5. ASSUME NEW total \in Totals, StartEdit(s, total) \/ StartResync(s, total)
      PROVE  /\ StartsReplacing(s) /\ unsafe \subseteq unsafe'
             /\ \E req : Begin(s, req) /\ req.pc # "idle"
  BY <1>4, <1>5 DEF StartEdit, StartResync
<1>6. /\ StartsPaying(s) \/ StartsReversing(s) \/ StartsReplacing(s)
      /\ unsafe \subseteq unsafe' /\ \E req : Begin(s, req) /\ req.pc # "idle"
  BY <1>2, <1>3, <1>5 DEF NewRequest
<1> QED BY <1>1, <1>6

-----------------------------------------------------------------------------
(* Each payment document has at most one request that will still insert it   *)
(* and at most one that has claimed it, and those requests know its state.   *)

Paying(s) ==
  request[s].pc \in PayPCs =>
    /\ request[s].payment \in Payments /\ request[s].amount \in Amounts
    /\ request[s].op = "pay"
    /\ request[s].pc \in UnrecordedPCs => Document(s).state = "NONE"
    /\ request[s].pc = "remember" => Document(s).state # "NONE"
    /\ Document(s).state # "NONE" => Document(s).key = request[s].key

Reversing(s) ==
  request[s].pc \in ReversePCs =>
    /\ request[s].payment \in Payments /\ request[s].key = None
    /\ Document(s).state # "NONE" /\ Document(s).amount = request[s].amount
    /\ request[s].pc \in ClaimedPCs => Document(s).state = "REVERSED"

Apart(s, t) ==
  (\/ request[s].pc \in PayPCs /\ request[t].pc \in PayPCs
   \/ request[s].pc \in ClaimedPCs /\ request[t].pc \in ClaimedPCs)
  => request[s].payment # request[t].payment

FlightInv ==
  /\ TypeOK
  /\ \A p \in Payments : payments[p].state # "NONE" => payments[p].amount \in Amounts
  /\ \A s \in Slots : Paying(s) /\ Reversing(s)
  /\ \A s, t \in Slots : s # t => Apart(s, t)

LEMMA FlightStep ==
  ASSUME FlightInv, TypeOK', NEW s \in Slots, Step(s)
  PROVE  FlightInv'
<1> USE DEF PayPCs, UnrecordedPCs, ReversePCs, ClaimedPCs
<1>0. /\ \A t \in Slots \ {s} : request'[t] = request[t]
      /\ payments \in [Payments -> Payment] /\ request[s] \in Request
      /\ IdleRequest.pc = "idle"
  BY StepMoves DEF FlightInv, TypeOK, IdleRequest
<1>m. /\ \A p \in Payments : payments[p].state # "NONE" => payments[p].amount \in Amounts
      /\ \A t \in Slots : Paying(t) /\ Reversing(t)
      /\ \A t, u \in Slots : t # u => Apart(t, u)
  BY DEF FlightInv
<1>1. CASE Ends(s)
  BY <1>0, <1>1, <1>m DEF Ends, FlightInv, Paying, Reversing, Apart, Document
<1>2. CASE GoesOn(s)
  <2>1. PICK pc \in PCs : /\ Moves(s, pc) /\ <<request[s].pc, pc>> \in Edges
                          /\ request[s].pc = "confirm" => (pc = "remember" <=> IsRecorded(s))
    BY <1>2 DEF GoesOn
  <2>2. payments' = payments
    BY <1>2 DEF GoesOn
  <2>3. Paying(s)' /\ Reversing(s)'
    BY <1>m, <2>1, <2>2 DEF Moves, Edges, Paying, Reversing, Document, IsRecorded
  <2>4. \A t \in Slots \ {s} : Paying(t)' /\ Reversing(t)'
    BY <1>0, <1>m, <2>2 DEF Paying, Reversing, Document
  <2>5. /\ request'[s].pc \in PayPCs => request[s].pc \in PayPCs
        /\ request'[s].pc \in ClaimedPCs => request[s].pc \in ClaimedPCs
        /\ request'[s].payment = request[s].payment
    BY <2>1 DEF Moves, Edges
  <2>6. \A t, u \in Slots : t # u => Apart(t, u)'
    BY <1>0, <1>m, <2>5 DEF Apart
  <2> QED BY <1>m, <2>2, <2>3, <2>4, <2>6 DEF FlightInv
<1>3. CASE Records(s)
  <2> DEFINE p == request[s].payment
  <2>1. /\ payments'[p].state = "RECORDED" /\ payments'[p].amount = request[s].amount
        /\ payments'[p].key = request[s].key
        /\ \A q \in Payments \ {p} : payments'[q] = payments[q]
        /\ p \in Payments /\ payments[p].state = "NONE" /\ request[s].amount \in Amounts
    BY <1>0, <1>3, <1>m DEF Records, Recorded, Paying, Document
  <2>2. \A t \in Slots \ {s} :
          \/ request[t].payment # p
          \/ request[t].pc \notin PayPCs \cup ReversePCs
    BY <1>0, <1>3, <1>m, <2>1 DEF Records, Paying, Reversing, Apart, Document
  <2> HIDE DEF p
  <2>3. /\ request'[s].pc \in {"remember", "confirm"} /\ request'[s].payment = p
        /\ request'[s].amount = request[s].amount /\ request'[s].key = request[s].key
        /\ request'[s].op = request[s].op /\ request[s].pc = "insert"
    BY <1>3 DEF Records, Moves, p
  <2>4. \A q \in Payments : payments'[q].state # "NONE" => payments'[q].amount \in Amounts
    BY <1>m, <2>1
  <2>5. Paying(s)' /\ Reversing(s)'
    BY <1>m, <2>1, <2>3 DEF Paying, Reversing, Document
  <2>6. \A t \in Slots \ {s} : Paying(t)' /\ Reversing(t)'
    BY <1>0, <1>m, <2>1, <2>2 DEF Paying, Reversing, Document
  <2>7. \A t, u \in Slots : t # u => Apart(t, u)'
    BY <1>0, <1>m, <2>3 DEF Apart, p
  <2> QED BY <2>4, <2>5, <2>6, <2>7 DEF FlightInv
<1>4. ASSUME NEW st \in {"RECORDED", "REVERSED"},
             payments' = [payments EXCEPT ![request[s].payment].state = st],
             request[s].payment \in Payments, payments[request[s].payment].state # "NONE"
      PROVE  /\ payments'[request[s].payment].state = st
             /\ \A q \in Payments : payments'[q].amount = payments[q].amount
                                    /\ payments'[q].key = payments[q].key
                                    /\ (payments'[q].state # "NONE" <=> payments[q].state # "NONE")
             /\ \A q \in Payments \ {request[s].payment} : payments'[q] = payments[q]
  BY <1>0, <1>4 DEF Payment
<1>5. CASE Claims(s)
  <2> DEFINE p == request[s].payment
  <2>1. /\ p \in Payments /\ payments[p].state = "RECORDED" /\ request[s].pc = "claim"
    BY <1>5, <1>m DEF Claims, Reversing, Document
  <2>2. /\ payments'[p].state = "REVERSED"
        /\ \A q \in Payments : payments'[q].amount = payments[q].amount
                                    /\ payments'[q].key = payments[q].key
                                    /\ (payments'[q].state # "NONE" <=> payments[q].state # "NONE")
        /\ \A q \in Payments \ {p} : payments'[q] = payments[q]
    BY <1>4, <1>5, <2>1 DEF Claims
  <2>3. /\ request'[s].pc = "unwindRead" /\ request'[s].payment = p
        /\ request'[s].amount = request[s].amount /\ request'[s].key = request[s].key
    BY <1>5 DEF Claims, Moves
  <2>4. \A t \in Slots \ {s} : request[t].pc \in ClaimedPCs => request[t].payment # p
    BY <1>m, <2>1 DEF Reversing, Document
  <2> HIDE DEF p
  <2>5. Paying(s)' /\ Reversing(s)'
    BY <1>m, <2>1, <2>2, <2>3 DEF Paying, Reversing, Document, p
  <2>6. \A t \in Slots \ {s} : Paying(t)' /\ Reversing(t)'
    BY <1>0, <1>m, <2>2, <2>4 DEF Paying, Reversing, Document
  <2>7. \A t, u \in Slots : t # u => Apart(t, u)'
    BY <1>0, <1>m, <2>3, <2>4 DEF Apart
  <2> QED BY <1>m, <2>2, <2>5, <2>6, <2>7 DEF FlightInv
<1>6. CASE Release(s)
  <2> DEFINE p == request[s].payment
  <2>1. /\ p \in Payments /\ payments[p].state = "REVERSED" /\ request[s].pc = "release"
    BY <1>6, <1>m DEF Release, Reversing, Document
  <2>2. /\ \A q \in Payments : payments'[q].amount = payments[q].amount
                                    /\ payments'[q].key = payments[q].key
                                    /\ (payments'[q].state # "NONE" <=> payments[q].state # "NONE")
        /\ \A q \in Payments \ {p} : payments'[q] = payments[q]
    BY <1>4, <1>6, <2>1 DEF Release
  <2>3. request'[s] = IdleRequest
    BY <1>6, MoveCases DEF Release, FlightInv
  <2>4. \A t \in Slots \ {s} : request[t].pc \in ClaimedPCs => request[t].payment # p
    BY <1>m, <2>1 DEF Apart
  <2> HIDE DEF p
  <2>5. Paying(s)' /\ Reversing(s)'
    BY <1>0, <2>3 DEF Paying, Reversing
  <2>6. \A t \in Slots \ {s} : Paying(t)' /\ Reversing(t)'
    BY <1>0, <1>m, <2>2, <2>4 DEF Paying, Reversing, Document
  <2>7. \A t, u \in Slots : t # u => Apart(t, u)'
    BY <1>0, <1>m, <2>3 DEF Apart
  <2> QED BY <1>m, <2>2, <2>5, <2>6, <2>7 DEF FlightInv
<1>7. CASE Remember(s)
  <2>1. request'[s].pc = "idle" /\ payments' = payments
    BY <1>0, <1>7, MoveCases DEF Remember, FlightInv
  <2> QED BY <1>0, <1>m, <2>1 DEF FlightInv, Paying, Reversing, Apart, Document
<1> QED BY <1>1, <1>2, <1>3, <1>5, <1>6, <1>7, StepCases DEF FlightInv

LEMMA FlightNew ==
  ASSUME FlightInv, TypeOK', NEW s \in Slots, NewRequest(s)
  PROVE  FlightInv'
<1> USE DEF PayPCs, UnrecordedPCs, ReversePCs, ClaimedPCs
<1>0. /\ StartsPaying(s) \/ StartsReversing(s) \/ StartsReplacing(s)
      /\ \A t \in Slots \ {s} : request'[t] = request[t]
      /\ payments' = payments
  BY NewRequestCases DEF FlightInv
<1>m. /\ \A p \in Payments : payments[p].state # "NONE" => payments[p].amount \in Amounts
      /\ \A t \in Slots : Paying(t) /\ Reversing(t)
      /\ \A t, u \in Slots : t # u => Apart(t, u)
  BY DEF FlightInv
<1>1. CASE StartsPaying(s)
  BY <1>0, <1>1, <1>m DEF StartsPaying, Fresh, FlightInv, Paying, Reversing, Apart, Document
<1>2. CASE StartsReversing(s)
  BY <1>0, <1>2, <1>m DEF StartsReversing, FlightInv, Paying, Reversing, Apart, Document
<1>3. CASE StartsReplacing(s)
  BY <1>0, <1>3, <1>m DEF StartsReplacing, FlightInv, Paying, Reversing, Apart, Document
<1> QED BY <1>0, <1>1, <1>2, <1>3

LEMMA FlightInvariant == FlightInv /\ [Next]_vars => FlightInv'
<1> SUFFICES ASSUME FlightInv, [Next]_vars PROVE FlightInv'
  OBVIOUS
<1>0. TypeOK /\ TypeOK'
  BY TypeInvariant DEF FlightInv
<1>1. ASSUME NEW s \in Slots, Crash(s) PROVE FlightInv'
  <2>1. /\ \A t \in Slots \ {s} : request'[t] = request[t]
        /\ request'[s].pc = "idle" /\ payments' = payments
    BY <1>0, <1>1 DEF TypeOK, Crash, Finish, IdleRequest
  <2> QED BY <1>0, <2>1 DEF FlightInv, Paying, Reversing, Apart, Document, PayPCs, ReversePCs,
             ClaimedPCs
<1>2. ASSUME request' = request, payments' = payments PROVE FlightInv'
  BY <1>0, <1>2 DEF FlightInv, Paying, Reversing, Apart, Document
<1> QED BY <1>0, <1>1, <1>2, FlightStep, FlightNew DEF Next, Cancel, SetStatus, vars

LEMMA FlightInit == Init => FlightInv
  BY TypeInit DEF Init, FlightInv, Paying, Reversing, Apart, Document, IdleRequest, NoPayment,
     PayPCs, ReversePCs, ClaimedPCs

-----------------------------------------------------------------------------
(* Money.  What stands and what is held, as sums and counts over all         *)
(* payments and all requests, so that a step changes one term at most.       *)

AmountHeld(s) == IF Holds(s) THEN request[s].amount ELSE 0

OneHeld(s) == IF Holds(s) THEN 1 ELSE 0

AmountStanding(p) == IF payments[p].state = "RECORDED" THEN payments[p].amount ELSE 0

OneStanding(p) == IF payments[p].state = "RECORDED" THEN 1 ELSE 0

Held == SumFunctionOnSet([s \in Slots |-> AmountHeld(s)], Slots)

HeldCount == SumFunctionOnSet([s \in Slots |-> OneHeld(s)], Slots)

Stands == SumFunctionOnSet([p \in Payments |-> AmountStanding(p)], Payments)

StandsCount == SumFunctionOnSet([p \in Payments |-> OneStanding(p)], Payments)

Counted ==
  /\ \A s \in Slots : AmountHeld(s) \in Nat /\ OneHeld(s) \in Nat
  /\ \A p \in Payments : AmountStanding(p) \in Nat /\ OneStanding(p) \in Nat

LEMMA AmountTypes ==
  ASSUME TypeOK
  PROVE  /\ \A s \in Slots : request[s].amount \in Nat
         /\ \A p \in Payments : payments[p].amount \in Nat
<1>1. \A s \in Slots : request[s].amount \in Nat
  BY RequestType DEF TypeOK
<1>2. \A n \in Amounts : n \in Nat
  BY AmountsAssumption
<1>3. \A p \in Payments : payments[p].amount \in Nat
  BY <1>2 DEF TypeOK, Payment
<1> QED BY <1>1, <1>3

LEMMA TermTypes == TypeOK => Counted
  BY AmountTypes DEF Counted, AmountHeld, OneHeld, AmountStanding, OneStanding

LEMMA TermTypesNext == TypeOK' => Counted'
  BY TermTypes, PTL

LEMMA SumTypes ==
  ASSUME TypeOK
  PROVE  Held \in Nat /\ HeldCount \in Nat /\ Stands \in Nat /\ StandsCount \in Nat
<1>1. Held \in Nat
  BY TermTypes, SumNat, SlotsAssumption DEF Counted, Held
<1>2. HeldCount \in Nat
  BY TermTypes, SumNat, SlotsAssumption DEF Counted, HeldCount
<1>3. Stands \in Nat
  BY TermTypes, SumNat, PaymentsAssumption DEF Counted, Stands
<1>4. StandsCount \in Nat
  BY TermTypes, SumNat, PaymentsAssumption DEF Counted, StandsCount
<1> QED BY <1>1, <1>2, <1>3, <1>4

(* The sums over all are the sums MoneyConserved and NeverOverpaid take.     *)
LEMMA SumsAreTheModels ==
  ASSUME TypeOK
  PROVE  /\ SumFunctionOnSet([p \in Payments |-> payments[p].amount], Standing) = Stands
         /\ SumFunctionOnSet([s \in Slots |-> request[s].amount], Holding) = Held
         /\ Cardinality(Standing) = StandsCount
         /\ Cardinality(Holding) = HeldCount
<1>1. \A p \in Payments : payments[p].amount \in Nat
  BY AmountTypes
<1>2. Standing \subseteq Payments /\ IsFiniteSet(Standing)
  BY PaymentsAssumption, FS_Subset DEF Standing
<1>3. Holding \subseteq Slots /\ IsFiniteSet(Holding)
  BY SlotsAssumption, FS_Subset DEF Holding
<1>4. SumFunctionOnSet([p \in Payments |-> payments[p].amount], Standing) = Stands
  <2> DEFINE F == [p \in Payments |-> payments[p].amount]
             G == [p \in Payments |-> AmountStanding(p)]
  <2>1. \A p \in Standing : F[p] \in Int /\ G[p] = F[p]
    BY <1>1 DEF Standing, AmountStanding
  <2>2. \A p \in Payments \ Standing : G[p] = 0
    BY DEF Standing, AmountStanding
  <2> HIDE DEF F, G
  <2>3. SumFunctionOnSet(F, Standing) = SumFunctionOnSet(G, Payments)
    BY <1>2, <2>1, <2>2, SumOfPart, PaymentsAssumption
  <2> QED BY <2>3 DEF F, G, Stands
<1>5. SumFunctionOnSet([s \in Slots |-> request[s].amount], Holding) = Held
  <2> DEFINE F == [s \in Slots |-> request[s].amount]
             G == [s \in Slots |-> AmountHeld(s)]
  <2>1. \A s \in Holding : F[s] \in Int /\ G[s] = F[s]
    BY AmountTypes DEF Holding, AmountHeld
  <2>2. \A s \in Slots \ Holding : G[s] = 0
    BY DEF Holding, AmountHeld
  <2> HIDE DEF F, G
  <2>3. SumFunctionOnSet(F, Holding) = SumFunctionOnSet(G, Slots)
    BY <1>3, <2>1, <2>2, SumOfPart, SlotsAssumption
  <2> QED BY <2>3 DEF F, G, Held
<1>6. Cardinality(Standing) = StandsCount
  <2> DEFINE F == [p \in Standing |-> 1]
             G == [p \in Payments |-> OneStanding(p)]
  <2>1. \A p \in Standing : F[p] = 1 /\ F[p] \in Int /\ G[p] = F[p]
    BY <1>2 DEF Standing, OneStanding
  <2>2. \A p \in Payments \ Standing : G[p] = 0
    BY DEF Standing, OneStanding
  <2> HIDE DEF F, G
  <2>3. SumFunctionOnSet(F, Standing) = SumFunctionOnSet(G, Payments)
    BY <1>2, <2>1, <2>2, SumOfPart, PaymentsAssumption
  <2>4. SumFunctionOnSet(F, Standing) = Cardinality(Standing)
    BY <1>2, <2>1, SumOfOnes
  <2> QED BY <2>3, <2>4 DEF G, StandsCount
<1>7. Cardinality(Holding) = HeldCount
  <2> DEFINE F == [s \in Holding |-> 1]
             G == [s \in Slots |-> OneHeld(s)]
  <2>1. \A s \in Holding : F[s] = 1 /\ F[s] \in Int /\ G[s] = F[s]
    BY <1>3 DEF Holding, OneHeld
  <2>2. \A s \in Slots \ Holding : G[s] = 0
    BY DEF Holding, OneHeld
  <2> HIDE DEF F, G
  <2>3. SumFunctionOnSet(F, Holding) = SumFunctionOnSet(G, Slots)
    BY <1>3, <2>1, <2>2, SumOfPart, SlotsAssumption
  <2>4. SumFunctionOnSet(F, Holding) = Cardinality(Holding)
    BY <1>3, <2>1, SumOfOnes
  <2> QED BY <2>3, <2>4 DEF G, HeldCount
<1> QED BY <1>4, <1>5, <1>6, <1>7

(* A change to one request, or to one payment, changes one term.             *)
LEMMA HeldChange ==
  ASSUME TypeOK, TypeOK', NEW s \in Slots,
         \A t \in Slots \ {s} : AmountHeld(t)' = AmountHeld(t) /\ OneHeld(t)' = OneHeld(t)
  PROVE  /\ Held' = Held + (AmountHeld(s)' - AmountHeld(s))
         /\ HeldCount' = HeldCount + (OneHeld(s)' - OneHeld(s))
<1>0. /\ \A t \in Slots : AmountHeld(t) \in Nat /\ OneHeld(t) \in Nat
      /\ \A t \in Slots : AmountHeld(t)' \in Nat /\ OneHeld(t)' \in Nat
  BY TermTypes, TermTypesNext DEF Counted
<1>1. Held' = Held + (AmountHeld(s)' - AmountHeld(s))
  <2> DEFINE F == [t \in Slots |-> AmountHeld(t)]
             G == [t \in Slots |-> AmountHeld(t)']
  <2>1. \A t \in Slots : F[t] \in Int /\ G[t] \in Int
    BY <1>0
  <2>2. \A t \in Slots \ {s} : F[t] = G[t]
    OBVIOUS
  <2>3. F[s] = AmountHeld(s) /\ G[s] = AmountHeld(s)'
    OBVIOUS
  <2>4. Held = SumFunctionOnSet(F, Slots) /\ Held' = SumFunctionOnSet(G, Slots)
    BY DEF Held
  <2> HIDE DEF F, G
  <2> QED BY <2>1, <2>2, <2>3, <2>4, SumChange, SlotsAssumption
<1>2. HeldCount' = HeldCount + (OneHeld(s)' - OneHeld(s))
  <2> DEFINE F == [t \in Slots |-> OneHeld(t)]
             G == [t \in Slots |-> OneHeld(t)']
  <2>1. \A t \in Slots : F[t] \in Int /\ G[t] \in Int
    BY <1>0
  <2>2. \A t \in Slots \ {s} : F[t] = G[t]
    OBVIOUS
  <2>3. F[s] = OneHeld(s) /\ G[s] = OneHeld(s)'
    OBVIOUS
  <2>4. HeldCount = SumFunctionOnSet(F, Slots) /\ HeldCount' = SumFunctionOnSet(G, Slots)
    BY DEF HeldCount
  <2> HIDE DEF F, G
  <2> QED BY <2>1, <2>2, <2>3, <2>4, SumChange, SlotsAssumption
<1> QED BY <1>1, <1>2

LEMMA StandsChange ==
  ASSUME TypeOK, TypeOK', NEW p \in Payments,
         \A q \in Payments \ {p} : payments'[q] = payments[q]
  PROVE  /\ Stands' = Stands + (AmountStanding(p)' - AmountStanding(p))
         /\ StandsCount' = StandsCount + (OneStanding(p)' - OneStanding(p))
<1>0. /\ \A q \in Payments : AmountStanding(q) \in Nat /\ OneStanding(q) \in Nat
      /\ \A q \in Payments : AmountStanding(q)' \in Nat /\ OneStanding(q)' \in Nat
  BY TermTypes, TermTypesNext DEF Counted
<1>a. \A q \in Payments \ {p} : /\ AmountStanding(q)' = AmountStanding(q)
                                /\ OneStanding(q)' = OneStanding(q)
  BY DEF AmountStanding, OneStanding
<1>1. Stands' = Stands + (AmountStanding(p)' - AmountStanding(p))
  <2> DEFINE F == [q \in Payments |-> AmountStanding(q)]
             G == [q \in Payments |-> AmountStanding(q)']
  <2>1. \A q \in Payments : F[q] \in Int /\ G[q] \in Int
    BY <1>0
  <2>2. \A q \in Payments \ {p} : F[q] = G[q]
    BY <1>a
  <2>3. F[p] = AmountStanding(p) /\ G[p] = AmountStanding(p)'
    OBVIOUS
  <2>4. Stands = SumFunctionOnSet(F, Payments) /\ Stands' = SumFunctionOnSet(G, Payments)
    BY DEF Stands
  <2> HIDE DEF F, G
  <2> QED BY <2>1, <2>2, <2>3, <2>4, SumChange, PaymentsAssumption
<1>2. StandsCount' = StandsCount + (OneStanding(p)' - OneStanding(p))
  <2> DEFINE F == [q \in Payments |-> OneStanding(q)]
             G == [q \in Payments |-> OneStanding(q)']
  <2>1. \A q \in Payments : F[q] \in Int /\ G[q] \in Int
    BY <1>0
  <2>2. \A q \in Payments \ {p} : F[q] = G[q]
    BY <1>a
  <2>3. F[p] = OneStanding(p) /\ G[p] = OneStanding(p)'
    OBVIOUS
  <2>4. StandsCount = SumFunctionOnSet(F, Payments) /\ StandsCount' = SumFunctionOnSet(G, Payments)
    BY DEF StandsCount
  <2> HIDE DEF F, G
  <2> QED BY <2>1, <2>2, <2>3, <2>4, SumChange, PaymentsAssumption
<1> QED BY <1>1, <1>2

LEMMA StandsSame ==
  ASSUME payments' = payments
  PROVE  Stands' = Stands /\ StandsCount' = StandsCount
  BY DEF Stands, StandsCount, AmountStanding, OneStanding

(* What is held is at least what any one request holds.                      *)
LEMMA HeldAtLeast ==
  ASSUME TypeOK, NEW s \in Slots, Holds(s)
  PROVE  request[s].amount <= Held
<1> DEFINE F == [t \in Slots |-> AmountHeld(t)]
<1>1. \A t \in Slots : F[t] \in Nat
  BY TermTypes DEF Counted
<1>2. SumFunctionOnSet(F, Slots) = F[s] + SumFunctionOnSet(F, Slots \ {s})
  <2>1. \A t \in Slots : F[t] \in Int
    BY <1>1
  <2> HIDE DEF F
  <2> QED BY <2>1, SumRemove, SlotsAssumption
<1>3. SumFunctionOnSet(F, Slots \ {s}) \in Nat
  <2>1. \A t \in Slots \ {s} : F[t] \in Nat
    BY <1>1
  <2>2. IsFiniteSet(Slots \ {s})
    BY FS_Subset, SlotsAssumption
  <2> HIDE DEF F
  <2> QED BY <2>1, <2>2, SumNat
<1>4. F[s] = request[s].amount /\ F[s] \in Nat
  BY <1>1 DEF AmountHeld
<1>5. Held = SumFunctionOnSet(F, Slots)
  BY DEF Held
<1> HIDE DEF F
<1> QED BY <1>2, <1>3, <1>4, <1>5

(* The inductive invariant for the money.  A request about to reserve knows  *)
(* that its amount fits the balance it read (a cent over at most); a request *)
(* about to replace the bill alone knows what has been paid.                 *)
MoneyInv ==
  /\ BalanceInv /\ FlightInv
  /\ \A s \in Slots : request[s].pc = "reserve" => request[s].amount <= Due(request[s].old) + 1
  /\ Spared({"raced"}) =>
       \A s \in Slots : request[s].pc = "replace" => request[s].old.paid = bill.paid
  /\ Spared({"raced", "unsettled"}) => bill.paid = Stands + Held
  /\ Spared({"raced", "unsettled", "shrunk"}) =>
       bill.paid <= bill.total + StandsCount + HeldCount

(* What a step can mean for the money of the bill.                           *)
Reserves(s) ==
  /\ request[s].pc = "reserve" /\ Moves(s, "insert") /\ payments' = payments
  /\ request[s].old = bill /\ bill'.paid = bill.paid + request[s].amount
  /\ bill'.total = bill.total

GivesBack(s) ==
  /\ request[s].pc \in {"rollback", "unwind"} /\ request'[s] = IdleRequest
  /\ payments' = payments
  /\ bill'.paid = AtLeastZero(bill.paid - request[s].amount) /\ bill'.total = bill.total

Rewrites(s) ==
  /\ request[s].pc = "replace" /\ request'[s] = IdleRequest /\ payments' = payments
  /\ bill'.paid = request[s].old.paid
  /\ bill'.total >= bill.total \/ "shrunk" \in history'

KeepsOn(s) ==
  \/ GoesOn(s) /\ ~(request[s].pc = "reserve" /\ request'[s].pc = "insert")
  \/ Ends(s) /\ request[s].pc \in {"reserveRead", "reserve", "claim"}
  \/ Records(s) \/ Claims(s) \/ Remember(s) \/ Release(s)

(* Every step that settles what it holds is one of them.                     *)
LEMMA StepMoney ==
  ASSUME FlightInv, NEW s \in Slots, Step(s)
  PROVE  \/ KeepsOn(s) /\ bill'.paid = bill.paid /\ bill'.total = bill.total
         \/ Reserves(s) \/ GivesBack(s) \/ Rewrites(s)
         \/ "unsettled" \in history'
<1>0. /\ TypeOK /\ request[s] \in Request /\ bill \in Bill /\ bill.paid \in Nat
      /\ bill.total \in Nat /\ request[s].old.paid \in Nat /\ request[s].amount \in Nat
      /\ request[s].old \in Bill /\ request[s].total \in Nat
  <2>1. TypeOK /\ request[s] \in Request /\ bill \in Bill
    BY DEF FlightInv, TypeOK
  <2> QED BY <2>1, BillType, RequestType
<1>1. ASSUME bill' = bill, ~ReplaceBill(s), ~(request'[s].pc = "insert"),
             request[s].pc \in {"rollback", "unwind"} => request'[s] # IdleRequest
      PROVE  KeepsOn(s)
  <2>1. GoesOn(s) \/ Ends(s) \/ Records(s) \/ Claims(s) \/ Remember(s) \/ Release(s)
    BY <1>0, StepCases
  <2>2. request[s].pc # "replace"
    BY <1>1 DEF Step, ReserveRead, Reserve, InsertPayment, InsertRaises, Confirm,
                RollbackRead, Rollback, Remember, Claim, UnwindRead, Unwind, UnwindRaises,
                Release, ReplaceBill
  <2> QED BY <1>1, <2>1, <2>2 DEF KeepsOn, Ends
<1>p. PCs = {"idle", "reserveRead", "reserve", "insert", "confirm", "rollbackRead",
             "rollback", "remember", "claim", "unwindRead", "unwind", "release", "replace"}
  BY DEF PCs
<1>i. IdleRequest.pc = "idle"
  BY DEF IdleRequest
<1>2. CASE Reserve(s)
  <2>1. CASE Unchanged(s)
    <3>1. bill' = WithPaid(bill, request[s].old.paid + request[s].amount, bill.status)
      BY <1>2, <2>1 DEF Reserve
    <3>2. bill'.paid = request[s].old.paid + request[s].amount /\ bill'.total = bill.total
      <4>1. request[s].old.paid + request[s].amount \in Nat /\ bill.status \in Statuses
        BY <1>0, BillType
      <4>2. /\ request[s].old.paid + request[s].amount \in Int
            /\ request[s].old.paid + request[s].amount >= 0
        BY <4>1
      <4> DEFINE paid == request[s].old.paid + request[s].amount
      <4> HIDE DEF paid
      <4>3. WithPaid(bill, paid, bill.status).paid = paid
            /\ WithPaid(bill, paid, bill.status).total = bill.total
        BY <1>0, <4>1, <4>2, WithPaidType DEF paid
      <4> QED BY <3>1, <4>3 DEF paid
    <3> DEFINE req == [request[s] EXCEPT !.pc = "insert", !.tries = 0,
                          !.prior = request[s].old.status, !.old = IdleRequest.old]
    <3>3. request \in [Slots -> Request]
      BY <1>0 DEF TypeOK
    <3>4. /\ req.pc = "insert" /\ req.payment = request[s].payment
          /\ req.amount = request[s].amount /\ req.key = request[s].key
          /\ req.op = request[s].op
      BY <1>0 DEF Request
    <3>5. request' = [request EXCEPT ![s] = req]
      BY <1>2, <2>1 DEF Reserve
    <3> HIDE DEF req
    <3>6. Moves(s, "insert")
      BY <3>3, <3>4, <3>5 DEF Moves
    <3> QED BY <1>2, <2>1, <3>2, <3>6 DEF Reserves, Reserve, Unchanged
  <2>2. CASE ~Unchanged(s)
    <3>1. bill' = bill /\ request[s].pc = "reserve"
      BY <1>2, <2>2 DEF Reserve
    <3>2. request'[s].pc # "insert"
      BY <1>0, <1>2, <2>2, <1>p, <1>i, MoveCases DEF Reserve, Moves
    <3>3. ~ReplaceBill(s)
      BY <3>1 DEF ReplaceBill
    <3> QED BY <1>1, <3>1, <3>2, <3>3
  <2> QED BY <2>1, <2>2
<1>3. CASE Rollback(s)
  <2>1. CASE Unchanged(s)
    <3>1. bill' = RolledBack(request[s]) /\ request'[s] = IdleRequest /\ payments' = payments
          /\ request[s].pc = "rollback"
      BY <1>0, <1>3, <2>1, MoveCases DEF Rollback
    <3>2. RolledBack(request[s]).total = request[s].old.total
      BY <1>0, RolledBackType
    <3>3. RolledBack(request[s]).paid = AtLeastZero(request[s].old.paid - request[s].amount)
      <4> DEFINE paid == AtLeastZero(request[s].old.paid - request[s].amount)
                 back == WithPaid(request[s].old, paid, request[s].prior)
      <4>1. paid \in Nat
        BY <1>0, ClampedType
      <4>2. back \in Bill /\ back.paid = paid
        BY <1>0, <4>1, WithPaidType, RequestType
      <4> HIDE DEF back, paid
      <4>3. RolledBack(request[s]) = IF request[s].old.status = "CANCELLED"
                                     THEN [back EXCEPT !.status = "CANCELLED"] ELSE back
        BY DEF RolledBack, back, paid
      <4>4. RolledBack(request[s]).paid = paid
        BY <4>2, <4>3 DEF Bill
      <4> QED BY <4>4 DEF paid
    <3> QED BY <2>1, <3>1, <3>2, <3>3 DEF GivesBack, Unchanged
  <2>2. CASE ~Unchanged(s)
    <3>1. bill' = bill /\ request[s].pc = "rollback"
          /\ (Again(s, "rollbackRead") \/ "unsettled" \in history')
      BY <1>3, <2>2 DEF Rollback
    <3>2. Again(s, "rollbackRead") => request'[s].pc = "rollbackRead"
      BY <1>0, <1>p, MoveCases DEF Moves
    <3>3. ~ReplaceBill(s)
      BY <3>1 DEF ReplaceBill
    <3> QED BY <1>1, <1>i, <3>1, <3>2, <3>3
  <2> QED BY <2>1, <2>2
<1>4. ASSUME bill' = Unwound(request[s]), Unwinds(request[s])
      PROVE  /\ bill'.paid = AtLeastZero(bill.paid - request[s].amount)
             /\ bill'.total = bill.total
  <2> DEFINE paid == AtLeastZero(request[s].old.paid - request[s].amount)
             back == WithPaid(request[s].old, paid, "OPEN")
  <2>1. paid \in Nat /\ "OPEN" \in Statuses
    BY <1>0, ClampedType DEF Statuses
  <2>2. back \in Bill /\ back.paid = paid
    BY <1>0, <2>1, WithPaidType
  <2> HIDE DEF back, paid
  <2>3. bill' = [back EXCEPT !.total = bill.total]
    BY <1>4 DEF Unwound, back, paid
  <2>4. bill'.paid = paid /\ bill'.total = bill.total
    BY <2>2, <2>3 DEF Bill
  <2> QED BY <1>4, <2>4 DEF paid, Unwinds
<1>5. CASE Unwind(s)
  <2>0. request[s].pc = "unwind" /\ ~ReplaceBill(s) /\ payments' = payments
    BY <1>5 DEF Unwind, ReplaceBill
  <2>1. CASE Unwinds(request[s]) /\ bill' = Unwound(request[s]) /\ Finish(s)
    BY <1>0, <1>4, <2>0, <2>1, MoveCases DEF GivesBack
  <2>2. CASE bill' = bill /\ (Again(s, "unwindRead") \/ (LastTry(s) /\ GotoAfresh(s, "release", 0)))
    <3>1. request'[s].pc \in {"unwindRead", "release"}
      BY <1>0, <2>2, <1>p, MoveCases DEF Moves
    <3> QED BY <1>1, <1>i, <2>0, <2>2, <3>1
  <2> QED BY <1>5, <2>1, <2>2 DEF Unwind
<1>6. CASE UnwindRaises(s)
  <2>1. request'[s].pc = "release" /\ ~ReplaceBill(s)
    BY <1>0, <1>6, <1>p, MoveCases DEF UnwindRaises, Moves, ReplaceBill
  <2>2. bill' = bill \/ "unsettled" \in history'
    BY <1>6 DEF UnwindRaises
  <2> QED BY <1>1, <1>i, <2>1, <2>2
<1>7. CASE ReplaceBill(s)
  <2>1. /\ bill' = Replaced(request[s]) /\ request'[s] = IdleRequest /\ payments' = payments
        /\ request[s].pc = "replace"
        /\ history' = history \cup (IF bill'.total < bill.total THEN {"shrunk"} ELSE {})
    BY <1>0, <1>7, MoveCases DEF ReplaceBill
  <2>2. Replaced(request[s]).paid = request[s].old.paid
    BY <1>0 DEF Replaced, Bill
  <2>3. bill'.total \in Nat
    BY <1>0, <2>1, ReplacedType, BillType
  <2>4. bill'.total >= bill.total \/ "shrunk" \in history'
    BY <1>0, <2>1, <2>3
  <2> QED BY <2>1, <2>2, <2>4 DEF Rewrites
<1>8. CASE ReserveRead(s) \/ InsertPayment(s) \/ InsertRaises(s) \/ Confirm(s) \/ RollbackRead(s)
           \/ Remember(s) \/ Claim(s) \/ UnwindRead(s) \/ Release(s)
  <2>1. bill' = bill /\ request[s].pc \notin {"replace", "rollback", "unwind"}
    BY <1>8 DEF ReserveRead, InsertPayment, InsertRaises, Confirm, RollbackRead,
                Remember, Claim, UnwindRead, Release
  <2>2. request'[s].pc # "insert"
    BY <1>0, <1>8, <1>p, <1>i, MoveCases DEF Moves, ReserveRead, InsertPayment, InsertRaises,
       Confirm, RollbackRead, Remember, Claim, UnwindRead, Release
  <2>3. ~ReplaceBill(s)
    BY <2>1 DEF ReplaceBill
  <2> QED BY <1>1, <2>1, <2>2, <2>3
<1> QED BY <1>2, <1>3, <1>5, <1>6, <1>7, <1>8 DEF Step

(* Steps that only move an amount between requests and payments.             *)
LEMMA QuietSums ==
  ASSUME FlightInv, FlightInv', NEW s \in Slots, KeepsOn(s),
         \A t \in Slots \ {s} : request'[t] = request[t]
  PROVE  Stands' + Held' = Stands + Held /\ StandsCount' + HeldCount' = StandsCount + HeldCount
<1> USE DEF PayPCs, UnrecordedPCs, ReversePCs, ClaimedPCs
<1>0. /\ TypeOK /\ TypeOK' /\ IdleRequest.pc = "idle"
      /\ payments \in [Payments -> Payment] /\ request[s] \in Request
  BY DEF FlightInv, TypeOK, IdleRequest
<1>m. /\ \A t \in Slots : Paying(t) /\ Reversing(t)
      /\ \A t, u \in Slots : t # u => Apart(t, u)
  BY DEF FlightInv
<1>t. /\ Held \in Nat /\ HeldCount \in Nat /\ Stands \in Nat /\ StandsCount \in Nat
      /\ request[s].amount \in Nat /\ \A p \in Payments : payments[p].amount \in Nat
  BY <1>0, SumTypes, AmountTypes
<1>1. ASSUME payments' = payments, Holds(s)' <=> Holds(s),
             Holds(s) => request'[s].amount = request[s].amount
      PROVE  Stands' + Held' = Stands + Held /\ StandsCount' + HeldCount' = StandsCount + HeldCount
  <2>1. \A t \in Slots \ {s} : Holds(t)' <=> Holds(t)
    BY <1>1 DEF Holds, IsRecorded
  <2>2. /\ \A t \in Slots \ {s} : AmountHeld(t)' = AmountHeld(t) /\ OneHeld(t)' = OneHeld(t)
        /\ AmountHeld(s)' = AmountHeld(s) /\ OneHeld(s)' = OneHeld(s)
        /\ AmountHeld(s) \in Nat /\ OneHeld(s) \in Nat
    BY <1>1, <1>t, <2>1 DEF AmountHeld, OneHeld
  <2>3. Held' = Held /\ HeldCount' = HeldCount
    BY <1>0, <1>t, <2>2, HeldChange
  <2> QED BY <1>1, <2>3, StandsSame
<1>2. ASSUME NEW p \in Payments, \A q \in Payments \ {p} : payments'[q] = payments[q],
             \A t \in Slots \ {s} : Holds(t)' <=> Holds(t),
             AmountStanding(p)' + AmountHeld(s)' = AmountStanding(p) + AmountHeld(s),
             OneStanding(p)' + OneHeld(s)' = OneStanding(p) + OneHeld(s)
      PROVE  Stands' + Held' = Stands + Held /\ StandsCount' + HeldCount' = StandsCount + HeldCount
  <2>1. \A t \in Slots \ {s} : AmountHeld(t)' = AmountHeld(t) /\ OneHeld(t)' = OneHeld(t)
    BY <1>2 DEF AmountHeld, OneHeld
  <2>2. /\ Held' = Held + (AmountHeld(s)' - AmountHeld(s))
        /\ HeldCount' = HeldCount + (OneHeld(s)' - OneHeld(s))
    BY <1>0, <2>1, HeldChange
  <2>3. /\ Stands' = Stands + (AmountStanding(p)' - AmountStanding(p))
        /\ StandsCount' = StandsCount + (OneStanding(p)' - OneStanding(p))
    BY <1>0, <1>2, StandsChange
  <2>c. Counted /\ Counted'
    BY <1>0, TermTypes, TermTypesNext
  <2>4. /\ AmountHeld(s) \in Nat /\ OneHeld(s) \in Nat
        /\ AmountStanding(p) \in Nat /\ OneStanding(p) \in Nat
    BY <2>c DEF Counted
  <2>5. AmountHeld(s)' \in Nat /\ OneHeld(s)' \in Nat
    BY <2>c DEF Counted
  <2>6. AmountStanding(p)' \in Nat /\ OneStanding(p)' \in Nat
    BY <2>c DEF Counted
  <2>7. Held \in Nat /\ HeldCount \in Nat /\ Stands \in Nat /\ StandsCount \in Nat
    BY <1>t
  <2>8. Stands' + Held' = Stands + Held
    <3>1. Stands' = Stands + (AmountStanding(p)' - AmountStanding(p))
      BY <2>3
    <3>2. Held' = Held + (AmountHeld(s)' - AmountHeld(s))
      BY <2>2
    <3>3. AmountStanding(p)' + AmountHeld(s)' = AmountStanding(p) + AmountHeld(s)
      BY <1>2
    <3> QED BY <2>4, <2>5, <2>6, <2>7, <3>1, <3>2, <3>3
  <2>9. StandsCount' + HeldCount' = StandsCount + HeldCount
    <3>1. StandsCount' = StandsCount + (OneStanding(p)' - OneStanding(p))
      BY <2>3
    <3>2. HeldCount' = HeldCount + (OneHeld(s)' - OneHeld(s))
      BY <2>2
    <3>3. OneStanding(p)' + OneHeld(s)' = OneStanding(p) + OneHeld(s)
      BY <1>2
    <3> QED BY <2>4, <2>5, <2>6, <2>7, <3>1, <3>2, <3>3
  <2> QED BY <2>8, <2>9
<1>3. CASE GoesOn(s) /\ ~(request[s].pc = "reserve" /\ request'[s].pc = "insert")
  <2>1. PICK pc \in PCs : /\ Moves(s, pc) /\ <<request[s].pc, pc>> \in Edges
                          /\ request[s].pc = "confirm" => (pc = "remember" <=> IsRecorded(s))
    BY <1>3 DEF GoesOn
  <2>2. payments' = payments
    BY <1>3 DEF GoesOn
  <2>3. IsRecorded(s)' <=> IsRecorded(s)
    BY <2>1, <2>2 DEF Moves, IsRecorded
  <2>4. Holds(s)' <=> Holds(s)
    BY <1>3, <2>1, <2>3 DEF Moves, Edges, Holds
  <2> QED BY <1>1, <2>1, <2>2, <2>4 DEF Moves
<1>4. CASE Ends(s) /\ request[s].pc \in {"reserveRead", "reserve", "claim"}
  BY <1>0, <1>1, <1>4 DEF Ends, Holds
<1>5. CASE Remember(s)
  BY <1>0, <1>1, <1>5, MoveCases DEF Remember, Holds
<1>6. CASE Records(s)
  <2>0. PICK p \in Payments : p = request[s].payment
    BY <1>6, <1>m DEF Records, Paying
  <2>1. /\ payments'[p].state = "RECORDED" /\ payments'[p].amount = request[s].amount
        /\ \A q \in Payments \ {p} : payments'[q] = payments[q]
        /\ p \in Payments /\ payments[p].state = "NONE"
    BY <2>0, <1>0, <1>6, <1>m DEF Records, Recorded, Paying, Document
  <2>2. \A t \in Slots \ {s} : request[t].pc \in PayPCs => request[t].payment # p
    BY <2>0, <1>6, <1>m DEF Records, Apart
  <2>3. \A t \in Slots \ {s} : Holds(t)' <=> Holds(t)
    BY <2>0, <1>m, <2>1, <2>2 DEF Holds, IsRecorded, Paying
  <2>4. request'[s].pc \in {"remember", "confirm"} /\ request'[s].payment = p
        /\ request[s].pc = "insert"
    BY <2>0, <1>6 DEF Records, Moves
  <2>5. ~Holds(s)' /\ Holds(s)
    BY <2>0, <2>1, <2>4 DEF Holds, IsRecorded
  <2>6. /\ AmountStanding(p)' + AmountHeld(s)' = AmountStanding(p) + AmountHeld(s)
        /\ OneStanding(p)' + OneHeld(s)' = OneStanding(p) + OneHeld(s)
    BY <2>0, <1>t, <2>1, <2>5 DEF AmountStanding, AmountHeld, OneStanding, OneHeld
  <2> QED BY <2>0, <1>2, <2>1, <2>3, <2>6
<1>7. ASSUME NEW st \in {"RECORDED", "REVERSED"},
             payments' = [payments EXCEPT ![request[s].payment].state = st],
             request[s].payment \in Payments, payments[request[s].payment].state # "NONE"
      PROVE  /\ payments'[request[s].payment].state = st
             /\ payments'[request[s].payment].amount = payments[request[s].payment].amount
             /\ \A q \in Payments \ {request[s].payment} : payments'[q] = payments[q]
             /\ \A t \in Slots \ {s} : Holds(t)' <=> Holds(t)
  <2>1. /\ payments'[request[s].payment].state = st
        /\ payments'[request[s].payment].amount = payments[request[s].payment].amount
        /\ \A q \in Payments \ {request[s].payment} : payments'[q] = payments[q]
    BY <1>0, <1>7 DEF Payment
  <2>2. \A t \in Slots \ {s} : Holds(t)' <=> Holds(t)
    BY <1>7, <1>m, <2>1 DEF Holds, IsRecorded, Paying
  <2> QED BY <2>1, <2>2
<1>8. CASE Claims(s)
  <2>0. PICK p \in Payments : p = request[s].payment
    BY <1>8, <1>m DEF Claims, Reversing
  <2>1. /\ p \in Payments /\ payments[p].state = "RECORDED" /\ request[s].pc = "claim"
        /\ payments[p].amount = request[s].amount
    BY <2>0, <1>8, <1>m DEF Claims, Reversing, Document
  <2>2. /\ payments'[p].state = "REVERSED" /\ payments'[p].amount = payments[p].amount
        /\ \A q \in Payments \ {p} : payments'[q] = payments[q]
        /\ \A t \in Slots \ {s} : Holds(t)' <=> Holds(t)
    BY <2>0, <1>7, <1>8, <2>1 DEF Claims
  <2>3. request'[s].pc = "unwindRead" /\ request'[s].amount = request[s].amount
    BY <2>0, <1>8 DEF Claims, Moves
  <2>4. Holds(s)' /\ ~Holds(s)
    BY <2>1, <2>3 DEF Holds
  <2>5. /\ AmountStanding(p)' + AmountHeld(s)' = AmountStanding(p) + AmountHeld(s)
        /\ OneStanding(p)' + OneHeld(s)' = OneStanding(p) + OneHeld(s)
    BY <2>0, <1>t, <2>1, <2>2, <2>3, <2>4 DEF AmountStanding, AmountHeld, OneStanding, OneHeld
  <2> QED BY <2>0, <1>2, <2>1, <2>2, <2>5
<1>9. CASE Release(s)
  <2>0. PICK p \in Payments : p = request[s].payment
    BY <1>9, <1>m DEF Release, Reversing
  <2>1. /\ p \in Payments /\ payments[p].state = "REVERSED" /\ request[s].pc = "release"
        /\ payments[p].amount = request[s].amount
    BY <2>0, <1>9, <1>m DEF Release, Reversing, Document
  <2>2. /\ payments'[p].state = "RECORDED" /\ payments'[p].amount = payments[p].amount
        /\ \A q \in Payments \ {p} : payments'[q] = payments[q]
        /\ \A t \in Slots \ {s} : Holds(t)' <=> Holds(t)
    BY <2>0, <1>7, <1>9, <2>1 DEF Release
  <2>3. request'[s].pc = "idle"
    BY <2>0, <1>0, <1>9, MoveCases DEF Release
  <2>4. ~Holds(s)' /\ Holds(s)
    BY <2>1, <2>3 DEF Holds
  <2>5. /\ AmountStanding(p)' + AmountHeld(s)' = AmountStanding(p) + AmountHeld(s)
        /\ OneStanding(p)' + OneHeld(s)' = OneStanding(p) + OneHeld(s)
    BY <2>0, <1>t, <2>1, <2>2, <2>3, <2>4 DEF AmountStanding, AmountHeld, OneStanding, OneHeld
  <2> QED BY <2>0, <1>2, <2>1, <2>2, <2>5
<1> QED BY <1>3, <1>4, <1>5, <1>6, <1>8, <1>9 DEF KeepsOn

(* A step that leaves the payments alone and its own request holding or not. *)
LEMMA SlotSums ==
  ASSUME TypeOK, TypeOK', NEW s \in Slots, payments' = payments,
         \A t \in Slots \ {s} : request'[t] = request[t]
  PROVE  /\ Stands' = Stands /\ StandsCount' = StandsCount
         /\ Held' = Held + (AmountHeld(s)' - AmountHeld(s))
         /\ HeldCount' = HeldCount + (OneHeld(s)' - OneHeld(s))
<1>1. \A t \in Slots \ {s} : Holds(t)' <=> Holds(t)
  BY DEF Holds, IsRecorded
<1>2. \A t \in Slots \ {s} : AmountHeld(t)' = AmountHeld(t) /\ OneHeld(t)' = OneHeld(t)
  BY <1>1 DEF AmountHeld, OneHeld
<1> QED BY <1>2, HeldChange, StandsSame

LEMMA MoneyStep ==
  ASSUME MoneyInv, BalanceInv', FlightInv', NEW s \in Slots, Step(s)
  PROVE  MoneyInv'
<1>0. /\ TypeOK /\ TypeOK' /\ IdleRequest.pc = "idle" /\ FlightInv /\ BalanceInv
      /\ \A t \in Slots \ {s} : request'[t] = request[t]
      /\ history \subseteq history' /\ Active(s)
  <2>1. TypeOK /\ TypeOK' /\ FlightInv /\ BalanceInv
    BY DEF MoneyInv, FlightInv
  <2>2. Active(s)
    BY DEF Step, Active, ReserveRead, Reserve, InsertPayment, InsertRaises, Confirm,
                RollbackRead, Rollback, Remember, Claim, UnwindRead, Unwind, UnwindRaises,
                Release, ReplaceBill
  <2> QED BY <2>1, <2>2, StepMoves DEF IdleRequest
<1>t. /\ Held \in Nat /\ HeldCount \in Nat /\ Stands \in Nat /\ StandsCount \in Nat
      /\ request[s].amount \in Nat /\ bill.paid \in Nat /\ bill.total \in Nat
      /\ bill'.paid \in Nat /\ bill'.total \in Nat /\ bill'.outstanding \in Nat
  <2>1. bill \in Bill /\ bill' \in Bill
    BY <1>0 DEF TypeOK
  <2>2. bill.paid \in Nat /\ bill.total \in Nat
    BY <2>1, BillType
  <2>3. bill'.paid \in Nat /\ bill'.total \in Nat /\ bill'.outstanding \in Nat
    BY <2>1, BillType
  <2> QED BY <1>0, <2>2, <2>3, SumTypes, AmountTypes
(* What the step leaves of the requests that are reserving or rewriting.     *)
<1>1. \A t \in Slots : request'[t].pc = "reserve" => request'[t].amount <= Due(request'[t].old) + 1
  <2>1. CASE ReserveRead(s)
    <3>1. request'[s].pc = "reserve" =>
            request'[s].old = bill /\ request'[s].amount = request[s].amount
            /\ request[s].amount <= Due(bill) + 1
      <4>1. "reserve" \in PCs
        BY DEF PCs
      <4> QED BY <1>0, <2>1, <4>1, MoveCases DEF ReserveRead, Acceptable, Moves
    <3> QED BY <1>0, <3>1 DEF MoneyInv, Due, AtLeastZero
  <2>2. CASE ~ReserveRead(s)
    <3>p. /\ "reserveRead" \in PCs /\ "rollbackRead" \in PCs /\ "unwindRead" \in PCs
          /\ "release" \in PCs /\ "confirm" \in PCs /\ "remember" \in PCs
          /\ "rollback" \in PCs /\ "unwind" \in PCs
      BY DEF PCs
    <3>1. CASE Reserve(s)
      <4>1. CASE Unchanged(s)
        <5> DEFINE req == [request[s] EXCEPT !.pc = "insert", !.tries = 0,
                          !.prior = request[s].old.status, !.old = IdleRequest.old]
        <5>1. request \in [Slots -> Request] /\ request[s] \in Request
          BY <1>0 DEF TypeOK
        <5>2. req.pc = "insert"
          BY <5>1 DEF Request
        <5>3. request' = [request EXCEPT ![s] = req]
          BY <3>1, <4>1 DEF Reserve
        <5> HIDE DEF req
        <5> QED BY <1>0, <5>1, <5>2, <5>3 DEF MoneyInv, Due, AtLeastZero
      <4>2. CASE ~Unchanged(s)
        <5>1. request'[s].pc # "reserve"
          BY <1>0, <3>1, <3>p, <4>2, MoveCases DEF Reserve, Moves
        <5> QED BY <1>0, <5>1 DEF MoneyInv, Due, AtLeastZero
      <4> QED BY <4>1, <4>2
    <3>2. CASE ~Reserve(s)
      <4>1. request'[s].pc # "reserve"
        BY <1>0, <2>2, <3>2, <3>p, MoveCases DEF Step, Moves, InsertPayment, InsertRaises, Confirm,
                RollbackRead, Rollback, Remember, Claim, UnwindRead, Unwind, UnwindRaises,
                Release, ReplaceBill
      <4> QED BY <1>0, <4>1 DEF MoneyInv, Due, AtLeastZero
    <3> QED BY <3>1, <3>2
  <2> QED BY <2>1, <2>2
<1>2. Spared({"raced"})' =>
        \A t \in Slots : request'[t].pc = "replace" => request'[t].old.paid = bill'.paid
  <2> SUFFICES ASSUME Spared({"raced"})', NEW t \in Slots, request'[t].pc = "replace" PROVE FALSE
    OBVIOUS
  <2>1. t # s /\ request[t].pc = "replace"
    BY <1>0, StepMoves
  <2>2. Spared({"raced"})
    BY <1>0 DEF Spared
  <2> QED BY <1>0, <2>1, <2>2 DEF BalanceInv
<1>s. /\ Spared({"raced", "unsettled"})' => Spared({"raced", "unsettled"}) /\ Spared({"raced"})
      /\ Spared({"raced", "unsettled", "shrunk"})' =>
           Spared({"raced", "unsettled", "shrunk"}) /\ Spared({"raced", "unsettled"})'
      /\ "unsettled" \in history' => ~Spared({"raced", "unsettled"})'
      /\ "shrunk" \in history' => ~Spared({"raced", "unsettled", "shrunk"})'
  BY <1>0 DEF Spared
<1>3. CASE KeepsOn(s) /\ bill'.paid = bill.paid /\ bill'.total = bill.total
  <2>1. Stands' + Held' = Stands + Held /\ StandsCount' + HeldCount' = StandsCount + HeldCount
    BY <1>0, <1>3, QuietSums
  <2>2. Stands' \in Nat /\ Held' \in Nat /\ StandsCount' \in Nat /\ HeldCount' \in Nat
    <3>1. TypeOK' => (Held \in Nat /\ HeldCount \in Nat /\ Stands \in Nat /\ StandsCount \in Nat)'
      BY SumTypes, PTL
    <3> QED BY <1>0, <3>1
  <2>3. ASSUME Spared({"raced", "unsettled"})' PROVE bill'.paid = Stands' + Held'
    BY <1>3, <1>s, <2>1, <2>3 DEF MoneyInv
  <2>4. ASSUME Spared({"raced", "unsettled", "shrunk"})'
        PROVE  bill'.paid <= bill'.total + StandsCount' + HeldCount'
    <3>1. bill.paid <= bill.total + StandsCount + HeldCount
      BY <1>s, <2>4 DEF MoneyInv
    <3> QED BY <1>3, <1>t, <2>1, <2>2, <3>1
  <2> QED BY <1>0, <1>1, <1>2, <2>3, <2>4 DEF MoneyInv
<1>4. ASSUME payments' = payments
      PROVE  /\ Stands' = Stands /\ StandsCount' = StandsCount
             /\ Held' = Held + (AmountHeld(s)' - AmountHeld(s))
             /\ HeldCount' = HeldCount + (OneHeld(s)' - OneHeld(s))
  BY <1>0, <1>4, SlotSums
<1>5. CASE Reserves(s)
  <2>1. /\ Stands' = Stands /\ StandsCount' = StandsCount
        /\ Held' = Held + (AmountHeld(s)' - AmountHeld(s))
        /\ HeldCount' = HeldCount + (OneHeld(s)' - OneHeld(s))
    BY <1>4, <1>5 DEF Reserves
  <2>2. Holds(s)' /\ ~Holds(s)
    <3>1. ~IsRecorded(s)
      BY <1>0, <1>5 DEF Reserves, FlightInv, Paying, PayPCs, UnrecordedPCs, IsRecorded, Document
    <3> QED BY <1>5, <3>1 DEF Reserves, Moves, Holds, IsRecorded
  <2>3. /\ AmountHeld(s)' = request[s].amount /\ AmountHeld(s) = 0
        /\ OneHeld(s)' = 1 /\ OneHeld(s) = 0
    BY <1>5, <2>2 DEF AmountHeld, OneHeld, Reserves, Moves
  <2>4. request[s].amount <= Due(bill) + 1
    BY <1>5 DEF Reserves, MoneyInv
  <2>5. ASSUME Spared({"raced", "unsettled"})' PROVE bill'.paid = Stands' + Held'
    BY <1>5, <1>s, <1>t, <2>1, <2>3, <2>5 DEF Reserves, MoneyInv
  <2>6. ASSUME Spared({"raced", "unsettled", "shrunk"})'
        PROVE  bill'.paid <= bill'.total + StandsCount' + HeldCount'
    <3>1. bill.paid <= bill.total + StandsCount + HeldCount
      BY <1>s, <2>6 DEF MoneyInv
    <3>2. bill'.paid = bill.paid + request[s].amount /\ bill'.total = bill.total
      BY <1>5 DEF Reserves
    <3> QED BY <1>t, <2>1, <2>3, <2>4, <3>1, <3>2 DEF Due, AtLeastZero
  <2> QED BY <1>0, <1>1, <1>2, <2>5, <2>6 DEF MoneyInv
<1>6. CASE GivesBack(s)
  <2>1. /\ Stands' = Stands /\ StandsCount' = StandsCount
        /\ Held' = Held + (AmountHeld(s)' - AmountHeld(s))
        /\ HeldCount' = HeldCount + (OneHeld(s)' - OneHeld(s))
    BY <1>4, <1>6 DEF GivesBack
  <2>2. Holds(s) /\ ~Holds(s)'
    <3>1. request[s].pc = "rollback" => ~IsRecorded(s)
      BY <1>0 DEF FlightInv, Paying, PayPCs, UnrecordedPCs, IsRecorded, Document
    <3> QED BY <1>0, <1>6, <3>1 DEF GivesBack, Holds
  <2>3. /\ AmountHeld(s) = request[s].amount /\ AmountHeld(s)' = 0
        /\ OneHeld(s) = 1 /\ OneHeld(s)' = 0
    BY <2>2 DEF AmountHeld, OneHeld
  <2>4. request[s].amount <= Held
    BY <1>0, <2>2, HeldAtLeast
  <2>5. request[s].amount >= 1
    <3>1. request[s].amount \in Amounts
      BY <1>0, <1>6 DEF GivesBack, FlightInv, Paying, Reversing, PayPCs, ReversePCs, Document
    <3> QED BY <3>1, <1>t, AmountsAssumption
  <2>6. bill'.paid = AtLeastZero(bill.paid - request[s].amount) /\ bill'.total = bill.total
    BY <1>6 DEF GivesBack
  <2>7. ASSUME Spared({"raced", "unsettled"})'
        PROVE  bill'.paid = bill.paid - request[s].amount /\ bill'.paid = Stands' + Held'
    <3>1. bill.paid = Stands + Held
      BY <1>s, <2>7 DEF MoneyInv
    <3>2. bill'.paid = bill.paid - request[s].amount
      BY <1>t, <2>4, <2>6, <3>1 DEF AtLeastZero
    <3> QED BY <1>t, <2>1, <2>3, <3>1, <3>2
  <2>8. ASSUME Spared({"raced", "unsettled", "shrunk"})'
        PROVE  bill'.paid <= bill'.total + StandsCount' + HeldCount'
    <3>1. bill.paid <= bill.total + StandsCount + HeldCount
      BY <1>s, <2>8 DEF MoneyInv
    <3>2. bill'.paid = bill.paid - request[s].amount
      BY <1>s, <2>7, <2>8
    <3> QED BY <1>t, <2>1, <2>3, <2>5, <2>6, <3>1, <3>2
  <2> QED BY <1>0, <1>1, <1>2, <2>7, <2>8 DEF MoneyInv
<1>7. CASE Rewrites(s)
  <2>1. /\ Stands' = Stands /\ StandsCount' = StandsCount
        /\ Held' = Held + (AmountHeld(s)' - AmountHeld(s))
        /\ HeldCount' = HeldCount + (OneHeld(s)' - OneHeld(s))
    BY <1>4, <1>7 DEF Rewrites
  <2>2. ~Holds(s) /\ ~Holds(s)'
    BY <1>0, <1>7 DEF Rewrites, Holds
  <2>3. Held' = Held /\ HeldCount' = HeldCount
    BY <1>t, <2>1, <2>2 DEF AmountHeld, OneHeld
  <2>4. Spared({"raced"}) => bill'.paid = bill.paid
    BY <1>7 DEF Rewrites, MoneyInv
  <2>5. Spared({"raced", "unsettled", "shrunk"})' => bill'.total >= bill.total
    BY <1>7, <1>s DEF Rewrites
  <2>6. ASSUME Spared({"raced", "unsettled"})' PROVE bill'.paid = Stands' + Held'
    BY <1>s, <2>1, <2>3, <2>4, <2>6 DEF MoneyInv
  <2>7. ASSUME Spared({"raced", "unsettled", "shrunk"})'
        PROVE  bill'.paid <= bill'.total + StandsCount' + HeldCount'
    <3>1. bill.paid <= bill.total + StandsCount + HeldCount
      BY <1>s, <2>7 DEF MoneyInv
    <3>2. bill'.paid = bill.paid /\ bill'.total >= bill.total
      BY <1>s, <2>4, <2>5, <2>7
    <3> QED BY <1>t, <2>1, <2>3, <3>1, <3>2
  <2> QED BY <1>0, <1>1, <1>2, <2>6, <2>7 DEF MoneyInv
<1>8. CASE "unsettled" \in history'
  BY <1>0, <1>1, <1>2, <1>8, <1>s DEF MoneyInv
<1> QED BY <1>0, <1>3, <1>5, <1>6, <1>7, <1>8, StepMoney

LEMMA MoneyInvariant == MoneyInv /\ [Next]_vars => MoneyInv'
<1> SUFFICES ASSUME MoneyInv, [Next]_vars PROVE MoneyInv'
  OBVIOUS
<1>0. /\ TypeOK /\ TypeOK' /\ BalanceInv /\ BalanceInv' /\ FlightInv /\ FlightInv'
      /\ IdleRequest.pc = "idle"
  <2>1. BalanceInv' /\ FlightInv'
    BY BalanceInvariant, FlightInvariant DEF MoneyInv
  <2> QED BY <2>1 DEF MoneyInv, FlightInv, IdleRequest
<1>t. /\ Held \in Nat /\ HeldCount \in Nat /\ Stands \in Nat /\ StandsCount \in Nat
  BY <1>0, SumTypes
<1>1. ASSUME NEW s \in Slots, payments' = payments,
             \A t \in Slots \ {s} : request'[t] = request[t],
             bill'.paid = bill.paid, bill'.total = bill.total, history \subseteq history',
             Holds(s) => "unsettled" \in history',
             request'[s].pc \in {"idle", "reserveRead", "claim", "replace"},
             request'[s].pc = "replace" => request'[s].old = bill
      PROVE  MoneyInv'
  <2>1. /\ Stands' = Stands /\ StandsCount' = StandsCount
        /\ Held' = Held + (AmountHeld(s)' - AmountHeld(s))
        /\ HeldCount' = HeldCount + (OneHeld(s)' - OneHeld(s))
    BY <1>0, <1>1, SlotSums
  <2>2. ~Holds(s)'
    BY <1>1 DEF Holds
  <2>3. "unsettled" \notin history' => Held' = Held /\ HeldCount' = HeldCount
    BY <1>1, <1>t, <2>1, <2>2 DEF AmountHeld, OneHeld
  <2>4. \A t \in Slots : request'[t].pc = "reserve" =>
          request'[t].amount <= Due(request'[t].old) + 1
    BY <1>1 DEF MoneyInv, Due, AtLeastZero
  <2>5. Spared({"raced"})' =>
          \A t \in Slots : request'[t].pc = "replace" => request'[t].old.paid = bill'.paid
    BY <1>1 DEF MoneyInv, Spared
  <2>6. Spared({"raced", "unsettled"})' => bill'.paid = Stands' + Held'
    BY <1>1, <2>1, <2>3 DEF MoneyInv, Spared
  <2>7. Spared({"raced", "unsettled", "shrunk"})' =>
          bill'.paid <= bill'.total + StandsCount' + HeldCount'
    BY <1>1, <2>1, <2>3 DEF MoneyInv, Spared
  <2> QED BY <1>0, <2>4, <2>5, <2>6, <2>7 DEF MoneyInv
<1>2. ASSUME NEW s \in Slots, NewRequest(s) PROVE MoneyInv'
  <2>1. /\ StartsPaying(s) \/ StartsReversing(s) \/ StartsReplacing(s)
        /\ \A t \in Slots \ {s} : request'[t] = request[t]
        /\ request[s].pc = "idle" /\ bill' = bill /\ payments' = payments
        /\ history \subseteq history'
    BY <1>0, <1>2, NewRequestCases
  <2>2. request'[s].pc \in {"reserveRead", "claim", "replace"}
        /\ (request'[s].pc = "replace" => request'[s].old = bill)
    BY <2>1 DEF StartsPaying, StartsReversing, StartsReplacing
  <2>3. ~Holds(s)
    BY <2>1 DEF Holds
  <2> QED BY <1>1, <2>1, <2>2, <2>3
<1>3. ASSUME NEW s \in Slots, Crash(s) PROVE MoneyInv'
  <2>1. /\ \A t \in Slots \ {s} : request'[t] = request[t]
        /\ request'[s].pc = "idle" /\ payments' = payments /\ bill' = bill
        /\ history \subseteq history' /\ (Holds(s) => "unsettled" \in history')
    BY <1>0, <1>3 DEF TypeOK, Crash, Finish
  <2> QED BY <1>1, <2>1
<1>4. ASSUME request' = request, payments' = payments, history \subseteq history',
             bill'.paid = bill.paid, bill'.total = bill.total
      PROVE  MoneyInv'
  <2>1. /\ Stands' = Stands /\ StandsCount' = StandsCount /\ Held' = Held
        /\ HeldCount' = HeldCount
    BY <1>4, StandsSame DEF Held, HeldCount, AmountHeld, OneHeld, Holds, IsRecorded
  <2>2. \A t \in Slots : request'[t].pc = "reserve" =>
          request'[t].amount <= Due(request'[t].old) + 1
    BY <1>4 DEF MoneyInv, Due, AtLeastZero
  <2> QED BY <1>0, <1>4, <2>1, <2>2 DEF MoneyInv, Spared
<1>5. ASSUME NEW to \in Statuses, bill' = [bill EXCEPT !.status = to]
      PROVE  bill'.total = bill.total /\ bill'.paid = bill.paid
  BY <1>0, <1>5 DEF TypeOK, Bill
<1>6. CASE Cancel
  BY <1>4, <1>5, <1>6 DEF Cancel, Statuses
<1>7. ASSUME NEW to \in Statuses, SetStatus(to) PROVE MoneyInv'
  BY <1>4, <1>5, <1>7 DEF SetStatus
<1>8. CASE UNCHANGED vars
  BY <1>4, <1>8 DEF vars
<1>9. ASSUME NEW s \in Slots, Step(s) PROVE MoneyInv'
  BY <1>0, <1>9, MoneyStep
<1> QED BY <1>2, <1>3, <1>6, <1>7, <1>8, <1>9 DEF Next

LEMMA MoneyInit == Init => MoneyInv
<1> SUFFICES ASSUME Init PROVE MoneyInv
  OBVIOUS
<1>1. FlightInv /\ TypeOK
  BY FlightInit, TypeInit
<1>2. \A s \in Slots : request[s].pc = "idle"
  BY DEF Init, IdleRequest
<1>3. BalanceInv /\ bill.paid = 0 /\ bill.total \in Nat
  <2>1. PICK n \in Totals : bill = [status |-> "OPEN", paid |-> 0, total |-> n, outstanding |-> n]
    BY DEF Init
  <2>2. n \in Nat
    BY <2>1, TotalsAssumption
  <2>3. bill.outstanding = Due(bill)
    BY <2>1, <2>2 DEF Due, AtLeastZero
  <2> QED BY <1>1, <1>2, <2>1, <2>2, <2>3 DEF BalanceInv
<1>4. Stands = 0
  <2> DEFINE F == [p \in Payments |-> AmountStanding(p)]
  <2>1. \A p \in Payments : F[p] = 0
    BY DEF Init, NoPayment, AmountStanding
  <2> HIDE DEF F
  <2>2. SumFunctionOnSet(F, Payments) = 0
    BY <2>1, SumConstantZero, PaymentsAssumption
  <2> QED BY <2>2 DEF Stands, F
<1>5. Held = 0
  <2> DEFINE F == [s \in Slots |-> AmountHeld(s)]
  <2>1. \A s \in Slots : F[s] = 0
    BY <1>2 DEF AmountHeld, Holds
  <2> HIDE DEF F
  <2>2. SumFunctionOnSet(F, Slots) = 0
    BY <2>1, SumConstantZero, SlotsAssumption
  <2> QED BY <2>2 DEF Held, F
<1>6. StandsCount \in Nat /\ HeldCount \in Nat
  BY <1>1, SumTypes
<1> QED BY <1>1, <1>2, <1>3, <1>4, <1>5, <1>6 DEF MoneyInv

(* Whatever the order of reservations, lost answers, compensations, claims   *)
(* and releases, the bill says what its payments and its requests in flight  *)
(* add up to: for any number of payments, requests, amounts and attempts.    *)
THEOREM MoneyIsConserved == Spec => []MoneyConserved
<1>1. MoneyInv => MoneyConserved
  <2> SUFFICES ASSUME MoneyInv PROVE MoneyConserved
    OBVIOUS
  <2>1. TypeOK
    BY DEF MoneyInv, FlightInv
  <2> QED BY <2>1, SumsAreTheModels DEF MoneyInv, MoneyConserved
<1> QED BY <1>1, MoneyInit, MoneyInvariant, PTL DEF Spec

(* A bill is never overpaid by more than a cent for each payment on it.      *)
THEOREM OverpaidByCentsOnly == Spec => []NeverOverpaid
<1>1. MoneyInv => NeverOverpaid
  <2> SUFFICES ASSUME MoneyInv PROVE NeverOverpaid
    OBVIOUS
  <2>1. TypeOK
    BY DEF MoneyInv, FlightInv
  <2> QED BY <2>1, SumsAreTheModels DEF MoneyInv, NeverOverpaid
<1> QED BY <1>1, MoneyInit, MoneyInvariant, PTL DEF Spec

-----------------------------------------------------------------------------
(* Statuses.  The status a compensation restores need not be earned, but one *)
(* runs only after an insert failed; a paid bill is never edited.            *)

Earned(b) ==
  /\ b.status = "PAID" => b.outstanding = 0
  /\ b.status = "PARTIALLY_PAID" => b.paid > 0

StatusInv ==
  /\ BalanceInv /\ FlightInv
  /\ \A s \in Slots :
       /\ request[s].pc \in {"rollbackRead", "rollback"} => "failed" \in history
       /\ request[s].pc = "confirm" /\ ~IsRecorded(s) => "failed" \in history
       /\ request[s].pc = "replace" /\ request[s].op = "edit" => request[s].old.status # "PAID"
  /\ Spared({"raced", "byHand", "failed"}) =>
       /\ Earned(bill)
       /\ \A s \in Slots : request[s].pc = "replace" => Earned(request[s].old)

LEMMA StatusStep ==
  ASSUME StatusInv, BalanceInv', FlightInv', NEW s \in Slots, Step(s)
  PROVE  StatusInv'
<1>0. /\ TypeOK /\ IdleRequest.pc = "idle" /\ FlightInv /\ BalanceInv
      /\ \A t \in Slots \ {s} : request'[t] = request[t]
      /\ history \subseteq history' /\ request'[s].pc # "replace"
      /\ payments \in [Payments -> Payment]
  <2>1. TypeOK /\ FlightInv /\ BalanceInv
    BY DEF StatusInv, FlightInv
  <2> QED BY <2>1, StepMoves DEF IdleRequest, TypeOK
<1>t. /\ request[s] \in Request /\ bill \in Bill /\ request[s].old \in Bill
      /\ request[s].amount \in Nat /\ request[s].old.paid \in Nat
      /\ request[s].prior \in Statuses /\ request[s].total \in Nat /\ bill.paid \in Nat
  <2>1. request[s] \in Request /\ bill \in Bill
    BY <1>0 DEF TypeOK
  <2> QED BY <2>1, RequestType, BillType
<1>s. Spared({"raced", "byHand", "failed"})' =>
        Spared({"raced", "byHand", "failed"}) /\ Spared({"raced"})
  BY <1>0 DEF Spared
<1>1. /\ request'[s].pc \in {"rollbackRead", "rollback"} => "failed" \in history'
      /\ request'[s].pc = "confirm" /\ ~IsRecorded(s)' => "failed" \in history'
  <2>1. CASE GoesOn(s)
    <3>1. PICK pc \in PCs : /\ Moves(s, pc) /\ <<request[s].pc, pc>> \in Edges
                            /\ request[s].pc = "confirm" => (pc = "remember" <=> IsRecorded(s))
      BY <2>1 DEF GoesOn
    <3>2. request[s].pc = "insert" => "failed" \in history'
      BY <2>1 DEF GoesOn
    <3> QED BY <1>0, <3>1, <3>2 DEF StatusInv, Moves, Edges
  <2>2. CASE Records(s)
    <3>1. request[s].payment \in Payments /\ request'[s].payment = request[s].payment
      BY <1>0, <2>2 DEF Records, Moves, FlightInv, Paying, PayPCs
    <3>2. payments'[request[s].payment].state = "RECORDED"
      BY <1>0, <2>2, <3>1 DEF Records, Recorded
    <3> QED BY <2>2, <3>1, <3>2 DEF Records, Moves, IsRecorded
  <2>3. CASE Ends(s) \/ Claims(s) \/ Remember(s) \/ Release(s)
    BY <1>0, <2>3, MoveCases DEF Ends, Claims, Moves, Remember, Release
  <2> QED BY <1>0, <2>1, <2>2, <2>3, StepCases
<1>2. ASSUME NEW t \in Slots \ {s}, request'[t].pc = "confirm", ~IsRecorded(t)'
      PROVE  "failed" \in history'
  <2>1. ~IsRecorded(t)
    <3>0. request'[t] = request[t] /\ request[t].payment \in Payments
      BY <1>0, <1>2 DEF FlightInv, Paying, PayPCs
    <3>1. SUFFICES ASSUME payments[request[t].payment].state # "NONE"
                   PROVE  payments'[request[t].payment].state # "NONE"
      BY <1>2, <3>0 DEF IsRecorded
    <3>2. CASE payments' = payments
      BY <3>1, <3>2
    <3>3. ASSUME NEW st \in {"RECORDED", "REVERSED"}, NEW q,
                 payments' = [payments EXCEPT ![q].state = st]
          PROVE  payments'[request[t].payment].state # "NONE"
      BY <1>0, <3>0, <3>1, <3>3 DEF Payment
    <3>4. CASE Recorded(s)
      BY <1>0, <3>0, <3>1, <3>4 DEF Recorded
    <3> QED BY <1>0, <3>2, <3>3, <3>4, StepCases
            DEF GoesOn, Ends, Records, Claims, Remember, Release
  <2> QED BY <1>0, <1>2, <2>1 DEF StatusInv
<1>3. \A t \in Slots :
       /\ request'[t].pc \in {"rollbackRead", "rollback"} => "failed" \in history'
       /\ request'[t].pc = "confirm" /\ ~IsRecorded(t)' => "failed" \in history'
       /\ request'[t].pc = "replace" /\ request'[t].op = "edit" =>
            request'[t].old.status # "PAID"
  BY <1>0, <1>1, <1>2 DEF StatusInv
<1>5. ASSUME Spared({"raced", "byHand", "failed"})' PROVE Earned(bill')
  <2>0. Earned(bill) /\ "failed" \notin history' /\ bill.outstanding = Due(bill)
    BY <1>s, <1>5, <1>0 DEF StatusInv, Spared, BalanceInv
  <2>1. CASE bill' = bill
    BY <2>0, <2>1
  <2>2. CASE Reserve(s) /\ Unchanged(s)
    <3> DEFINE paid == request[s].old.paid + request[s].amount
    <3>1. bill' = WithPaid(bill, paid, bill.status)
      BY <2>2 DEF Reserve
    <3>2. request[s].amount \in Amounts
      BY <1>0, <2>2 DEF Reserve, FlightInv, Paying, PayPCs
    <3>3. paid \in Nat /\ paid > 0
      BY <1>t, <3>2, AmountsAssumption
    <3> HIDE DEF paid
    <3>4. bill.total \in Nat /\ bill.status \in Statuses
      BY <1>t, BillType
    <3>5. AtLeastZero(bill.total - paid) \in Nat
      BY <3>3, <3>4, ClampedType
    <3> QED BY <1>t, <3>1, <3>3, <3>4, <3>5 DEF WithPaid, Earned, Bill
  <2>3. CASE Rollback(s) /\ bill' # bill
    <3>1. request[s].pc = "rollback"
      BY <2>3 DEF Rollback
    <3> QED BY <1>0, <2>0, <3>1 DEF StatusInv
  <2>4. CASE bill' = Unwound(request[s])
    <3> DEFINE paid == AtLeastZero(request[s].old.paid - request[s].amount)
               back == WithPaid(request[s].old, paid, "OPEN")
    <3>1. paid \in Nat /\ "OPEN" \in Statuses
      BY <1>t, ClampedType DEF Statuses
    <3> HIDE DEF paid
    <3>c. paid \in Int /\ paid >= 0
      BY <3>1
    <3>a. back \in Bill
      BY <1>t, <3>1, <3>c, WithPaidType
    <3>b. Earned(back)
      <4>1. request[s].old.total \in Nat /\ AtLeastZero(request[s].old.total - paid) \in Nat
        BY <1>t, <3>1, BillType, ClampedType
      <4> QED BY <1>t, <3>1, <4>1 DEF WithPaid, Earned, Bill
    <3>2. back \in Bill /\ Earned(back)
      BY <3>a, <3>b
    <3> HIDE DEF back
    <3>3. bill' = [back EXCEPT !.total = bill.total]
      BY <2>4 DEF Unwound, back, paid
    <3> QED BY <3>2, <3>3 DEF Earned, Bill
  <2>5. CASE ReplaceBill(s)
    <3>1. /\ bill' = Replaced(request[s]) /\ request[s].pc = "replace"
      BY <2>5 DEF ReplaceBill
    <3>2. Earned(request[s].old) /\ Replaces(request[s].op)
          /\ (request[s].op = "edit" => request[s].old.status # "PAID")
      BY <1>s, <1>5, <1>0, <3>1 DEF StatusInv, BalanceInv
    <3> DEFINE left == AtLeastZero(request[s].total - request[s].old.paid)
               priced == [request[s].old EXCEPT !.total = request[s].total, !.outstanding = left]
    <3>3. left \in Nat
      BY <1>t, ClampedType
    <3>4. /\ priced.status = request[s].old.status /\ priced.outstanding = left
          /\ priced.paid = request[s].old.paid
          /\ DOMAIN priced = {"status", "paid", "total", "outstanding"}
      BY <1>t DEF Bill
    <3> HIDE DEF priced, left
    <3>5. Replaced(request[s]) =
            CASE request[s].op = "edit" /\ left = 0 -> [priced EXCEPT !.status = "PAID"]
              [] request[s].op = "resync" /\ request[s].old.status = "PAID" -> request[s].old
              [] OTHER -> priced
      BY DEF Replaced, priced, left
    <3>6. CASE request[s].op = "edit" /\ left = 0
      <4>1. bill' = [priced EXCEPT !.status = "PAID"]
        BY <3>1, <3>5, <3>6
      <4> QED BY <3>4, <3>6, <4>1 DEF Earned
    <3>7. CASE request[s].op = "resync" /\ request[s].old.status = "PAID"
      BY <3>1, <3>2, <3>5, <3>7
    <3>8. CASE ~(request[s].op = "edit" /\ left = 0)
               /\ ~(request[s].op = "resync" /\ request[s].old.status = "PAID")
      <4>1. bill' = priced /\ request[s].old.status # "PAID"
        BY <3>1, <3>2, <3>5, <3>8 DEF Replaces
      <4> QED BY <3>2, <3>4, <4>1 DEF Earned
    <3> QED BY <3>6, <3>7, <3>8
  <2>6. \/ bill' = bill \/ (Reserve(s) /\ Unchanged(s)) \/ (Rollback(s) /\ bill' # bill)
        \/ bill' = Unwound(request[s]) \/ ReplaceBill(s)
    <3>1. CASE Reserve(s)
      BY <3>1 DEF Reserve
    <3>2. CASE Rollback(s)
      BY <3>2
    <3>3. CASE Unwind(s) \/ UnwindRaises(s)
      BY <3>3 DEF Unwind, UnwindRaises
    <3>4. CASE ReserveRead(s) \/ InsertPayment(s) \/ InsertRaises(s) \/ Confirm(s)
               \/ RollbackRead(s) \/ Remember(s) \/ Claim(s) \/ UnwindRead(s) \/ Release(s)
      BY <3>4 DEF ReserveRead, InsertPayment, InsertRaises, Confirm, RollbackRead, Remember,
                  Claim, UnwindRead, Release
    <3> QED BY <3>1, <3>2, <3>3, <3>4 DEF Step
  <2> QED BY <2>1, <2>2, <2>3, <2>4, <2>5, <2>6
<1>6. Spared({"raced", "byHand", "failed"})' =>
        \A t \in Slots : request'[t].pc = "replace" => Earned(request'[t].old)
  BY <1>0, <1>s DEF StatusInv
<1> QED BY <1>3, <1>5, <1>6 DEF StatusInv, Earned

LEMMA StatusInvariant == StatusInv /\ [Next]_vars => StatusInv'
<1> SUFFICES ASSUME StatusInv, [Next]_vars PROVE StatusInv'
  OBVIOUS
<1>0. TypeOK /\ BalanceInv' /\ FlightInv' /\ IdleRequest.pc = "idle"
  BY BalanceInvariant, FlightInvariant DEF StatusInv, FlightInv, IdleRequest
<1>1. ASSUME NEW s \in Slots, payments' = payments,
             \A t \in Slots \ {s} : request'[t] = request[t],
             Earned(bill) => Earned(bill)', history \subseteq history',
             request'[s].pc \in {"idle", "reserveRead", "claim", "replace"},
             request'[s].pc = "replace" =>
               /\ request'[s].old = bill
               /\ request'[s].op = "edit" => bill.status # "PAID"
      PROVE  StatusInv'
  BY <1>0, <1>1 DEF StatusInv, Spared, Earned, IsRecorded
<1>2. ASSUME NEW s \in Slots, NewRequest(s) PROVE StatusInv'
  <2>1. /\ StartsPaying(s) \/ StartsReversing(s) \/ StartsReplacing(s)
        /\ \A t \in Slots \ {s} : request'[t] = request[t]
        /\ bill' = bill /\ payments' = payments /\ history \subseteq history'
    BY <1>0, <1>2, NewRequestCases
  <2> QED BY <1>1, <2>1 DEF StartsPaying, StartsReversing, StartsReplacing, Earned
<1>3. ASSUME NEW s \in Slots, Crash(s) PROVE StatusInv'
  <2>1. /\ \A t \in Slots \ {s} : request'[t] = request[t]
        /\ request'[s].pc = "idle" /\ payments' = payments /\ bill' = bill
        /\ history \subseteq history'
    BY <1>0, <1>3 DEF TypeOK, Crash, Finish
  <2> QED BY <1>1, <2>1 DEF Earned
<1>4. ASSUME request' = request, payments' = payments, history \subseteq history',
             Earned(bill) => Earned(bill)' \/ "byHand" \in history'
      PROVE  StatusInv'
  BY <1>0, <1>4 DEF StatusInv, Spared, Earned, IsRecorded
<1>5. CASE Cancel
  <2>1. bill'.status = "CANCELLED"
    BY <1>0, <1>5 DEF Cancel, TypeOK, Bill
  <2> QED BY <1>4, <1>5, <2>1 DEF Cancel, Earned
<1>6. ASSUME NEW to \in Statuses, SetStatus(to) PROVE StatusInv'
  BY <1>4, <1>6 DEF SetStatus
<1>7. CASE UNCHANGED vars
  BY <1>4, <1>7 DEF vars, Earned
<1>8. ASSUME NEW s \in Slots, Step(s) PROVE StatusInv'
  BY <1>0, <1>8, StatusStep
<1> QED BY <1>2, <1>3, <1>5, <1>6, <1>7, <1>8 DEF Next

(* PAID means nothing outstanding and PARTIALLY_PAID something paid, as long *)
(* as no status was set by hand, no insert failed and no edit was raced.     *)
THEOREM StatusesAreEarned == Spec => []StatusIsEarned
<1>1. Init => StatusInv
  <2> SUFFICES ASSUME Init PROVE StatusInv
    OBVIOUS
  <2>1. MoneyInv
    BY MoneyInit
  <2>2. \A s \in Slots : request[s].pc = "idle"
    BY DEF Init, IdleRequest
  <2>3. bill.status = "OPEN"
    BY DEF Init
  <2> QED BY <2>1, <2>2, <2>3 DEF StatusInv, MoneyInv, Earned
<1>2. StatusInv => StatusIsEarned
  BY DEF StatusInv, StatusIsEarned, Earned
<1> QED BY <1>1, <1>2, StatusInvariant, PTL DEF Spec

-----------------------------------------------------------------------------
(* Keys.  Unless requests of the same key overlapped, or one died before its *)
(* key was remembered, everything recorded or still to be recorded with a    *)
(* key is one payment, and the key is remembered or about to be.             *)

Has(p, k) == payments[p].state # "NONE" /\ payments[p].key = k

Uses(s, k) == request[s].pc \in PayPCs /\ request[s].key = k

OnePayment(k) ==
  /\ \A p, q \in Payments : Has(p, k) /\ Has(q, k) => p = q
  /\ \A s \in Slots, p \in Payments : Uses(s, k) /\ Has(p, k) => p = request[s].payment
  /\ \A s, t \in Slots : Uses(s, k) /\ Uses(t, k) => s = t
  /\ \A p \in Payments : Has(p, k) /\ keyed[k] = None =>
       \E s \in Slots : /\ request[s].pc \in {"confirm", "remember"}
                        /\ request[s].payment = p /\ request[s].key = k

KeyInv == FlightInv /\ \A k \in Keys \ unsafe : OnePayment(k)

(* What is needed of a step that leaves the payments alone.                  *)
LEMMA KeySlot ==
  ASSUME NEW k \in Keys, OnePayment(k), NEW s \in Slots, payments' = payments,
         \A t \in Slots \ {s} : request'[t] = request[t],
         Uses(s, k)' => Uses(s, k) /\ request'[s].payment = request[s].payment,
         keyed'[k] = keyed[k] \/ keyed'[k] # None,
         \A p \in Payments :
           /\ Has(p, k) /\ keyed'[k] = None /\ request[s].pc \in {"confirm", "remember"}
           /\ request[s].payment = p /\ request[s].key = k
           => request'[s].pc \in {"confirm", "remember"}
              /\ request'[s].payment = p /\ request'[s].key = k
  PROVE  OnePayment(k)'
<1>1. \A p \in Payments : Has(p, k)' <=> Has(p, k)
  BY DEF Has
<1>2. \A t \in Slots : Uses(t, k)' => Uses(t, k) /\ request'[t].payment = request[t].payment
  BY DEF Uses
<1>3. \A p, q \in Payments : Has(p, k)' /\ Has(q, k)' => p = q
  BY <1>1 DEF OnePayment
<1>4. \A t \in Slots, p \in Payments : Uses(t, k)' /\ Has(p, k)' => p = request'[t].payment
  BY <1>1, <1>2 DEF OnePayment
<1>5. \A t, u \in Slots : Uses(t, k)' /\ Uses(u, k)' => t = u
  BY <1>2 DEF OnePayment
<1>6. ASSUME NEW p \in Payments, Has(p, k)', keyed'[k] = None
      PROVE  \E t \in Slots : /\ request'[t].pc \in {"confirm", "remember"}
                              /\ request'[t].payment = p /\ request'[t].key = k
  <2>1. PICK t \in Slots : /\ request[t].pc \in {"confirm", "remember"}
                           /\ request[t].payment = p /\ request[t].key = k
    BY <1>1, <1>6 DEF OnePayment
  <2> QED BY <1>1, <1>6, <2>1
<1> QED BY <1>3, <1>4, <1>5, <1>6 DEF OnePayment

LEMMA KeyStep ==
  ASSUME KeyInv, FlightInv', NEW s \in Slots, Step(s)
  PROVE  KeyInv'
<1>0. /\ TypeOK /\ FlightInv /\ IdleRequest.pc = "idle" /\ unsafe' = unsafe
      /\ \A t \in Slots \ {s} : request'[t] = request[t]
      /\ payments \in [Payments -> Payment] /\ keyed \in [Keys -> Payments \cup {None}]
      /\ request[s] \in Request
  <2>1. TypeOK /\ FlightInv
    BY DEF KeyInv, FlightInv
  <2>2. unsafe' = unsafe
    BY DEF Step, Frame, ReserveRead, Reserve, InsertPayment, InsertRaises, Confirm, RollbackRead,
           Rollback, Remember, Claim, UnwindRead, Unwind, UnwindRaises, Release, ReplaceBill
  <2> QED BY <2>1, <2>2, StepMoves DEF IdleRequest, TypeOK
<1> SUFFICES ASSUME NEW k \in Keys \ unsafe, OnePayment(k) PROVE OnePayment(k)'
  BY <1>0 DEF KeyInv
<1>m. /\ Paying(s) /\ Reversing(s)
      /\ \A t \in Slots : Paying(t) /\ \A u \in Slots : t # u => Apart(t, u)
  BY <1>0 DEF FlightInv
<1>1. CASE GoesOn(s)
  <2>1. PICK pc \in PCs : /\ Moves(s, pc) /\ <<request[s].pc, pc>> \in Edges
                          /\ request[s].pc = "confirm" => (pc = "remember" <=> IsRecorded(s))
    BY <1>1 DEF GoesOn
  <2>2. payments' = payments /\ keyed' = keyed
    BY <1>1 DEF GoesOn
  <2>3. Uses(s, k)' => Uses(s, k) /\ request'[s].payment = request[s].payment
    BY <2>1 DEF Moves, Edges, Uses, PayPCs
  <2>4. ASSUME NEW p \in Payments, Has(p, k), request[s].pc \in {"confirm", "remember"},
               request[s].payment = p, request[s].key = k
        PROVE  request'[s].pc \in {"confirm", "remember"}
               /\ request'[s].payment = p /\ request'[s].key = k
    BY <2>1, <2>4 DEF Moves, Edges, Has, IsRecorded
  <2> QED BY <1>0, <2>2, <2>3, <2>4, KeySlot
<1>2. CASE Ends(s)
  <2>1. ~Uses(s, k)' /\ request[s].pc \notin {"confirm", "remember"}
        /\ payments' = payments /\ keyed' = keyed
    BY <1>0, <1>2 DEF Ends, Uses, PayPCs
  <2> QED BY <1>0, <2>1, KeySlot
<1>3. CASE Remember(s)
  <2>1. ~Uses(s, k)' /\ payments' = payments
    BY <1>0, <1>3, MoveCases DEF Remember, Uses, PayPCs
  <2>2. request[s].payment \in Payments /\ request[s].payment # None /\ None \notin Keys
    BY <1>3, <1>m, PaymentsAssumption, KeysAssumption DEF Remember, Paying, PayPCs
  <2>3. /\ keyed'[k] = keyed[k] \/ keyed'[k] # None
        /\ request[s].key = k => keyed'[k] # None
    BY <1>0, <1>3, <2>2 DEF Remember
  <2> QED BY <1>0, <2>1, <2>3, KeySlot
<1>4. ASSUME keyed' = keyed, NEW st \in {"RECORDED", "REVERSED"},
             payments' = [payments EXCEPT ![request[s].payment].state = st],
             request[s].payment \in Payments, payments[request[s].payment].state # "NONE",
             request[s].pc \in ReversePCs, request'[s].pc \notin PayPCs
      PROVE  OnePayment(k)'
  <2>1. \A p \in Payments : Has(p, k)' <=> Has(p, k)
    BY <1>0, <1>4 DEF Has, Payment
  <2>2. \A t \in Slots : Uses(t, k)' => Uses(t, k) /\ request'[t] = request[t]
    BY <1>0, <1>4 DEF Uses
  <2>3. \A p, q \in Payments : Has(p, k)' /\ Has(q, k)' => p = q
    BY <2>1 DEF OnePayment
  <2>4. \A t \in Slots, p \in Payments : Uses(t, k)' /\ Has(p, k)' => p = request'[t].payment
    BY <2>1, <2>2 DEF OnePayment
  <2>5. \A t, u \in Slots : Uses(t, k)' /\ Uses(u, k)' => t = u
    BY <2>2 DEF OnePayment
  <2>6. ASSUME NEW p \in Payments, Has(p, k)', keyed'[k] = None
        PROVE  \E t \in Slots : /\ request'[t].pc \in {"confirm", "remember"}
                                /\ request'[t].payment = p /\ request'[t].key = k
    <3>1. PICK t \in Slots : /\ request[t].pc \in {"confirm", "remember"}
                             /\ request[t].payment = p /\ request[t].key = k
      BY <1>4, <2>1, <2>6 DEF OnePayment
    <3>2. t # s
      BY <1>4, <3>1 DEF ReversePCs
    <3> QED BY <1>0, <3>1, <3>2
  <2> QED BY <2>3, <2>4, <2>5, <2>6 DEF OnePayment
<1>5. CASE Claims(s)
  BY <1>4, <1>5, <1>m DEF Claims, Moves, Reversing, ReversePCs, PayPCs, Document
<1>6. CASE Release(s)
  <2>1. request'[s].pc = "idle" /\ keyed' = keyed /\ request[s].pc = "release"
    BY <1>0, <1>6, MoveCases DEF Release
  <2>2. request[s].payment \in Payments /\ payments[request[s].payment].state # "NONE"
    BY <1>m, <2>1 DEF Reversing, ReversePCs, Document
  <2> QED BY <1>4, <1>6, <2>1, <2>2 DEF Release, PayPCs, ReversePCs
<1>7. CASE Records(s)
  <2>0. PICK p \in Payments : p = request[s].payment
    BY <1>7, <1>m DEF Records, Paying, PayPCs
  <2>1. /\ payments'[p].state = "RECORDED" /\ payments'[p].key = request[s].key
        /\ \A q \in Payments \ {p} : payments'[q] = payments[q]
        /\ payments[p].state = "NONE" /\ keyed' = keyed
    BY <1>0, <1>7, <1>m, <2>0 DEF Records, Recorded, Paying, Document, PayPCs, UnrecordedPCs
  <2>2. /\ request'[s].pc \in {"remember", "confirm"} /\ request'[s].payment = p
        /\ request'[s].key = request[s].key /\ request[s].pc = "insert"
    BY <1>7, <2>0 DEF Records, Moves
  <2>3. \A t \in Slots : (Uses(t, k)' <=> Uses(t, k)) /\ request'[t].payment = request[t].payment
    BY <1>0, <2>0, <2>2 DEF Uses, PayPCs
  <2>4. \A q \in Payments : Has(q, k)' => Has(q, k) \/ (q = p /\ Uses(s, k))
    BY <2>1, <2>2 DEF Has, Uses, PayPCs
  <2>5. \A q, r \in Payments : Has(q, k)' /\ Has(r, k)' => q = r
    BY <2>0, <2>4 DEF OnePayment
  <2>6. \A t \in Slots, q \in Payments : Uses(t, k)' /\ Has(q, k)' => q = request'[t].payment
    BY <2>0, <2>3, <2>4 DEF OnePayment
  <2>7. \A t, u \in Slots : Uses(t, k)' /\ Uses(u, k)' => t = u
    BY <2>3 DEF OnePayment
  <2>8. ASSUME NEW q \in Payments, Has(q, k)', keyed'[k] = None
        PROVE  \E t \in Slots : /\ request'[t].pc \in {"confirm", "remember"}
                                /\ request'[t].payment = q /\ request'[t].key = k
    <3>1. CASE q = p /\ Uses(s, k)
      BY <2>2, <3>1 DEF Uses
    <3>2. CASE Has(q, k)
      <4>1. PICK t \in Slots : /\ request[t].pc \in {"confirm", "remember"}
                               /\ request[t].payment = q /\ request[t].key = k
        BY <2>1, <2>8, <3>2 DEF OnePayment
      <4>2. t # s
        BY <2>2, <4>1
      <4> QED BY <1>0, <4>1, <4>2
    <3> QED BY <2>4, <2>8, <3>1, <3>2
  <2> QED BY <2>5, <2>6, <2>7, <2>8 DEF OnePayment
<1> QED BY <1>0, <1>1, <1>2, <1>3, <1>5, <1>6, <1>7, StepCases

LEMMA KeyInvariant == KeyInv /\ [Next]_vars => KeyInv'
<1> SUFFICES ASSUME KeyInv, [Next]_vars PROVE KeyInv'
  OBVIOUS
<1>0. TypeOK /\ FlightInv /\ FlightInv' /\ IdleRequest.pc = "idle"
  BY FlightInvariant DEF KeyInv, FlightInv, IdleRequest
<1>m. \A t \in Slots : Paying(t)
  BY <1>0 DEF FlightInv
<1>1. ASSUME NEW s \in Slots, Step(s) PROVE KeyInv'
  BY <1>0, <1>1, KeyStep
<1>2. ASSUME NEW s \in Slots, NewRequest(s) PROVE KeyInv'
  <2>1. /\ StartsPaying(s) \/ StartsReversing(s) \/ StartsReplacing(s)
        /\ \A t \in Slots \ {s} : request'[t] = request[t]
        /\ request[s].pc = "idle" /\ payments' = payments /\ keyed' = keyed
        /\ unsafe \subseteq unsafe'
    BY <1>0, <1>2, NewRequestCases
  <2> SUFFICES ASSUME NEW k \in Keys \ unsafe' PROVE OnePayment(k)'
    BY <1>0 DEF KeyInv
  <2>2. OnePayment(k)
    BY <2>1 DEF KeyInv
  <2>3. CASE StartsPaying(s) /\ request'[s].key = k
    <3>1. keyed[k] = None /\ ~\E t \in Slots : Active(t) /\ request[t].key = k
      BY <2>3, KeysAssumption DEF StartsPaying
    <3>2. \A t \in Slots : ~Uses(t, k)
      BY <3>1 DEF Uses, PayPCs, Active
    <3>3. \A p \in Payments : ~Has(p, k)
      BY <2>2, <3>1 DEF OnePayment, Active
    <3>4. \A p \in Payments : ~Has(p, k)'
      BY <2>1, <3>3 DEF Has
    <3>5. \A t \in Slots \ {s} : ~Uses(t, k)'
      BY <2>1, <3>2 DEF Uses
    <3> QED BY <3>4, <3>5 DEF OnePayment
  <2>4. CASE ~(StartsPaying(s) /\ request'[s].key = k)
    <3>1. ~Uses(s, k)'
      BY <2>1, <2>4 DEF Uses, PayPCs, StartsReversing, StartsReplacing
    <3> QED BY <2>1, <2>2, <3>1, KeySlot
  <2> QED BY <2>3, <2>4
<1>3. ASSUME NEW s \in Slots, Crash(s) PROVE KeyInv'
  <2>1. /\ \A t \in Slots \ {s} : request'[t] = request[t]
        /\ request'[s].pc = "idle" /\ payments' = payments /\ keyed' = keyed
        /\ unsafe \subseteq unsafe'
        /\ request[s].op = "pay" /\ request[s].pc \in {"confirm", "remember"} =>
             {request[s].key} \cap Keys \subseteq unsafe'
    BY <1>0, <1>3 DEF TypeOK, Crash, Finish
  <2> SUFFICES ASSUME NEW k \in Keys \ unsafe' PROVE OnePayment(k)'
    BY <1>0 DEF KeyInv
  <2>2. OnePayment(k)
    BY <2>1 DEF KeyInv
  <2>3. ~Uses(s, k)'
    BY <2>1 DEF Uses, PayPCs
  <2>4. request[s].pc \in {"confirm", "remember"} => request[s].key # k
    BY <1>m, <2>1 DEF Paying, PayPCs
  <2> QED BY <2>1, <2>2, <2>3, <2>4, KeySlot
<1>4. ASSUME request' = request, payments' = payments, keyed' = keyed, unsafe' = unsafe
      PROVE  KeyInv'
  BY <1>0, <1>4 DEF KeyInv, OnePayment, Has, Uses
<1> QED BY <1>1, <1>2, <1>3, <1>4 DEF Next, Cancel, SetStatus, vars, Frame

(* Retries with the same key never record a second payment.                  *)
THEOREM KeysAreUsedOnce == Spec => []KeyUsedOnce
<1>1. Init => KeyInv
  <2> SUFFICES ASSUME Init PROVE KeyInv
    OBVIOUS
  <2>1. FlightInv
    BY FlightInit
  <2>2. \A s \in Slots : request[s].pc = "idle"
    BY DEF Init, IdleRequest
  <2>3. \A p \in Payments : payments[p].state = "NONE"
    BY DEF Init, NoPayment
  <2> QED BY <2>1, <2>2, <2>3 DEF KeyInv, OnePayment, Has, Uses, PayPCs
<1>2. KeyInv => KeyUsedOnce
  <2> SUFFICES ASSUME KeyInv, NEW k \in Keys \ unsafe
               PROVE  Cardinality({p \in Payments : /\ payments[p].state # "NONE"
                                                    /\ payments[p].key = k}) <= 1
    BY DEF KeyUsedOnce
  <2> DEFINE S == {p \in Payments : payments[p].state # "NONE" /\ payments[p].key = k}
  <2>1. \A p, q \in S : p = q
    BY DEF KeyInv, OnePayment, Has
  <2> HIDE DEF S
  <2>2. S = {} \/ \E p : S = {p}
    BY <2>1
  <2>3. Cardinality(S) = 0 \/ Cardinality(S) = 1
    BY <2>2, FS_EmptySet, FS_Singleton
  <2> QED BY <2>3 DEF S
<1> QED BY <1>1, <1>2, KeyInvariant, PTL DEF Spec
==============================================================================
