------------------------------ MODULE BillPayments ------------------------------
(***************************************************************************)
(* The money of one bill.  The bill stores what was paid on it and what is *)
(* outstanding, the payments are documents of their own, and no            *)
(* transaction spans the two.  create_payment first reserves the amount on *)
(* the bill (compare and set), then inserts the payment, and takes the     *)
(* reservation back if the insert failed.  reverse_payment first claims    *)
(* the payment, then unwinds the bill, and releases the claim if it could  *)
(* not.  Edits and corrections of gate passes replace the whole bill by    *)
(* what they computed from the copy they had read.                         *)
(*                                                                         *)
(* Money is counted in cents.  OPEN stands for DRAFT, PENDING and ISSUED,  *)
(* which nothing here tells apart.  A bill starts unpaid.                  *)
(***************************************************************************)
EXTENDS Integers, FiniteSets, Functions

CONSTANTS Payments,    \* payment documents that may come to exist
          Keys,        \* idempotency keys the clients use
          Slots,       \* requests in flight at the same time
          None,        \* no payment, no key
          Amounts,     \* amounts clients pay
          Totals,      \* grand totals a bill may have
          MaxTries,    \* attempts at a compare-and-set, 20 in the code
          Ops,         \* what happens in this deployment
          MaxRequests  \* bound: requests of a behaviour

AllOps == {"pay", "reverse", "edit", "resync", "cancel", "status", "fail", "crash"}

ASSUME PaymentsAssumption == IsFiniteSet(Payments) /\ None \notin Payments
ASSUME SlotsAssumption    == IsFiniteSet(Slots)
ASSUME KeysAssumption     == None \notin Keys
ASSUME AmountsAssumption  == Amounts \subseteq Nat \ {0}
ASSUME TotalsAssumption   == Totals \subseteq Nat
ASSUME OpsAssumption      == Ops \subseteq AllOps
ASSUME BoundsAssumption   == MaxTries \in Nat \ {0} /\ MaxRequests \in Nat

VARIABLES bill,     \* the money fields of the bill
          payments, \* payment -> document
          keyed,    \* key -> the payment remembered for it
          request,  \* slot -> where its request stands, and what it has read
          started,  \* requests so far, for the bound
          history,  \* history: what has gone wrong, or was done by hand
          unsafe    \* history: keys whose retries the code cannot recognise

vars == <<bill, payments, keyed, request, started, history, unsafe>>

-----------------------------------------------------------------------------
Statuses == {"OPEN", "PARTIALLY_PAID", "PAID", "CANCELLED"}

Bill == [status: Statuses, paid: Nat, total: Totals, outstanding: Nat]

(* A payment whose reversed_at is set is REVERSED. *)
Payment == [state: {"NONE", "RECORDED", "REVERSED"}, amount: Amounts \cup {0},
            key: Keys \cup {None}]

NoPayment == [state |-> "NONE", amount |-> 0, key |-> None]

AtLeastZero(n) == IF n < 0 THEN 0 ELSE n

PCs == {"idle", "reserveRead", "reserve", "insert", "confirm", "rollbackRead",
        "rollback", "remember", "claim", "unwindRead", "unwind", "release", "replace"}

(* `old` is the bill as last read, `prior` the status the payment found.     *)
Request == [pc: PCs, op: AllOps, payment: Payments \cup {None}, amount: Amounts \cup {0},
            key: Keys \cup {None}, old: Bill, prior: Statuses, total: Totals,
            tries: 0..(MaxTries - 1)]

AnyTotal == CHOOSE n \in Totals : TRUE

IdleRequest ==
  [pc |-> "idle", op |-> "pay", payment |-> None, amount |-> 0, key |-> None,
   old |-> [status |-> "OPEN", paid |-> 0, total |-> AnyTotal, outstanding |-> AnyTotal],
   prior |-> "OPEN", total |-> AnyTotal, tries |-> 0]

(* "raced": an edit or a correction overlapped with another request.         *)
(* "shrunk": a total was lowered.  "byHand": a status was set by hand.       *)
(* "failed": a payment could not be inserted.  "unsettled": a request died   *)
(* or gave up and left bill and payments apart, to be reconciled manually.   *)
Incidents == {"raced", "shrunk", "byHand", "failed", "unsettled"}

TypeOK ==
  /\ bill \in Bill
  /\ payments \in [Payments -> Payment]
  /\ keyed \in [Keys -> Payments \cup {None}]
  /\ request \in [Slots -> Request]
  /\ started \in 0..MaxRequests
  /\ history \in SUBSET Incidents
  /\ unsafe \in SUBSET Keys

Init ==
  /\ \E n \in Totals : bill = [status |-> "OPEN", paid |-> 0, total |-> n, outstanding |-> n]
  /\ payments = [p \in Payments |-> NoPayment]
  /\ keyed = [k \in Keys |-> None]
  /\ request = [s \in Slots |-> IdleRequest]
  /\ started = 0 /\ history = {} /\ unsafe = {}

Frame == UNCHANGED <<started, unsafe>>

Goto(s, pc) == request' = [request EXCEPT ![s].pc = pc]

Finish(s) == request' = [request EXCEPT ![s] = IdleRequest]

(* find_one of the bill, before a compare-and-set or a replacement. *)
ReadBill(s, pc) == request' = [request EXCEPT ![s].old = bill, ![s].pc = pc]

(* What a request knows of the bill is forgotten with each attempt. *)
GotoAfresh(s, pc, tries) ==
  request' = [request EXCEPT ![s] =
                [request[s] EXCEPT !.pc = pc, !.tries = tries, !.old = IdleRequest.old]]

(* A compare-and-set that lost is tried again MaxTries times altogether. *)
LastTry(s) == request[s].tries + 1 = MaxTries

Again(s, pc) == ~LastTry(s) /\ GotoAfresh(s, pc, request[s].tries + 1)

Active(s) == request[s].pc # "idle"

(* The requests that write back the whole bill they have read. *)
Replaces(op) == op \in {"edit", "resync"}

Begin(s, req) ==
  /\ req.op \in Ops
  /\ ~Active(s) /\ started < MaxRequests
  /\ request' = [request EXCEPT ![s] = req]
  /\ started' = started + 1
  /\ history' = history \cup
       (IF \E t \in Slots : Active(t) /\ (Replaces(req.op) \/ Replaces(request[t].op))
        THEN {"raced"} ELSE {})
  /\ UNCHANGED <<bill, payments, keyed>>

-----------------------------------------------------------------------------
(* create_payment. *)

(* A key that is remembered returns its payment and nothing happens; one     *)
(* whose first request is still on its way is not recognised.                *)
StartPay(s, p, amount, k) ==
  /\ k # None => keyed[k] = None
  /\ Begin(s, [IdleRequest EXCEPT !.pc = "reserveRead", !.op = "pay", !.payment = p,
                                  !.amount = amount, !.key = k])
  /\ unsafe' = unsafe \cup (IF \E t \in Slots : Active(t) /\ request[t].key = k
                            THEN {k} \cap Keys ELSE {})

Due(b) == AtLeastZero(b.total - b.paid)

(* Mutant: the amount is compared to the whole bill. *)
Acceptable_WholeBill(b, amount) == b.status # "CANCELLED" /\ amount <= b.total + 1

(* One cent more than what is due is tolerated, whatever was tolerated before. *)
Acceptable(b, amount) == b.status # "CANCELLED" /\ amount <= Due(b) + 1

ReserveRead(s) ==
  /\ request[s].pc = "reserveRead"
  /\ IF Acceptable(bill, request[s].amount) THEN ReadBill(s, "reserve") ELSE Finish(s)
  /\ UNCHANGED <<bill, payments, keyed, history>> /\ Frame

WithPaid(b, paid, whenUnpaid) ==
  LET left == AtLeastZero(b.total - paid) IN
  [b EXCEPT !.paid = paid, !.outstanding = left,
            !.status = IF left = 0 THEN "PAID"
                       ELSE IF paid > 0 THEN "PARTIALLY_PAID" ELSE whenUnpaid]

(* Mutant: only the paid amount is compared, as reverse_payment does. *)
Unchanged_PaidOnly(s) == bill.paid = request[s].old.paid

(* _payment_bill_cas_filter: the four money fields. *)
Unchanged(s) == bill = request[s].old

Reserve(s) ==
  LET req == request[s] IN
  /\ req.pc = "reserve"
  /\ IF Unchanged(s)
     THEN /\ bill' = WithPaid(bill, req.old.paid + req.amount, bill.status)
          /\ request' = [request EXCEPT ![s] = [req EXCEPT !.pc = "insert", !.tries = 0,
                            !.prior = req.old.status, !.old = IdleRequest.old]]
     ELSE /\ Again(s, "reserveRead") \/ (LastTry(s) /\ Finish(s))
          /\ UNCHANGED bill
  /\ UNCHANGED <<payments, keyed, history>> /\ Frame

Recorded(s) ==
  payments' = [payments EXCEPT ![request[s].payment] =
                 [state |-> "RECORDED", amount |-> request[s].amount, key |-> request[s].key]]

InsertPayment(s) ==
  /\ request[s].pc = "insert"
  /\ Recorded(s) /\ Goto(s, "remember")
  /\ UNCHANGED <<bill, keyed, history>> /\ Frame

(* insert_one raises: the payment is there (the answer was lost) or not. *)
InsertRaises(s) ==
  /\ "fail" \in Ops
  /\ request[s].pc = "insert"
  /\ \/ Recorded(s) /\ UNCHANGED history
     \/ history' = history \cup {"failed"} /\ UNCHANGED payments
  /\ Goto(s, "confirm")
  /\ UNCHANGED <<bill, keyed>> /\ Frame

IsRecorded(s) == payments[request[s].payment].state # "NONE"

(* Mutant: an insert that raised is taken for one that failed. *)
Confirm_Pessimistic(s) ==
  /\ request[s].pc = "confirm"
  /\ Goto(s, "rollbackRead")
  /\ UNCHANGED <<bill, payments, keyed, history>> /\ Frame

Confirm(s) ==
  /\ request[s].pc = "confirm"
  /\ IF IsRecorded(s) THEN Goto(s, "remember")
     ELSE Goto(s, "rollbackRead")
  /\ UNCHANGED <<bill, payments, keyed, history>> /\ Frame

RollbackRead(s) ==
  /\ request[s].pc = "rollbackRead"
  /\ ReadBill(s, "rollback")
  /\ UNCHANGED <<bill, payments, keyed, history>> /\ Frame

(* Mutant: the paid amount is not kept from going below zero. *)
RolledBack_BelowZero(req) ==
  LET back == WithPaid(req.old, req.old.paid - req.amount, req.prior) IN
  IF req.old.status = "CANCELLED" THEN [back EXCEPT !.status = "CANCELLED"] ELSE back

(* _rollback_bill_payment keeps a cancellation, and otherwise restores the   *)
(* status the payment had found.                                             *)
RolledBack(req) ==
  LET back == WithPaid(req.old, AtLeastZero(req.old.paid - req.amount), req.prior) IN
  IF req.old.status = "CANCELLED" THEN [back EXCEPT !.status = "CANCELLED"] ELSE back

(* Giving up leaves the amount on the bill: "manual reconciliation is        *)
(* required".                                                                *)
Rollback(s) ==
  LET req == request[s] IN
  /\ req.pc = "rollback"
  /\ IF Unchanged(s)
     THEN bill' = RolledBack(req) /\ Finish(s) /\ UNCHANGED history
     ELSE /\ \/ Again(s, "rollbackRead") /\ UNCHANGED history
             \/ LastTry(s) /\ Finish(s) /\ history' = history \cup {"unsettled"}
          /\ UNCHANGED bill
  /\ UNCHANGED <<payments, keyed>> /\ Frame

(* Mutant: the key is never remembered. *)
Remember_Nothing(s) ==
  /\ request[s].pc = "remember"
  /\ Finish(s)
  /\ UNCHANGED <<bill, payments, keyed, history>> /\ Frame

(* record_created, after everything else; the first payment of a key wins. *)
Remember(s) ==
  LET k == request[s].key IN
  /\ request[s].pc = "remember"
  /\ keyed' = IF k # None /\ keyed[k] = None
              THEN [keyed EXCEPT ![k] = request[s].payment] ELSE keyed
  /\ Finish(s)
  /\ UNCHANGED <<bill, payments, history>> /\ Frame

-----------------------------------------------------------------------------
(* reverse_payment.  It looks for a field `status` in the bill, which stores *)
(* payment_status: no bill is refused for being cancelled.                   *)

StartReverse(s, p) ==
  /\ payments[p].state = "RECORDED"
  /\ Begin(s, [IdleRequest EXCEPT !.pc = "claim", !.op = "reverse", !.payment = p,
                                  !.amount = payments[p].amount])
  /\ UNCHANGED unsafe

Claim(s) ==
  LET p == request[s].payment IN
  /\ request[s].pc = "claim"
  /\ IF payments[p].state = "RECORDED"
     THEN payments' = [payments EXCEPT ![p].state = "REVERSED"] /\ Goto(s, "unwindRead")
     ELSE UNCHANGED payments /\ Finish(s)
  /\ UNCHANGED <<bill, keyed, history>> /\ Frame

UnwindRead(s) ==
  /\ request[s].pc = "unwindRead"
  /\ ReadBill(s, "unwind")
  /\ UNCHANGED <<bill, payments, keyed, history>> /\ Frame

(* Mutant: what was outstanding grows by the amount, overpaid cents and all. *)
Unwound_Adding(req) ==
  LET left == req.old.outstanding + req.amount
      paid == AtLeastZero(req.old.paid - req.amount) IN
  [bill EXCEPT !.paid = paid, !.outstanding = left,
               !.status = IF left = 0 THEN "PAID" ELSE IF paid > 0 THEN "PARTIALLY_PAID" ELSE "OPEN"]

(* Mutant: a bill with nothing left on it stays PARTIALLY_PAID. *)
Unwound_StaysPartial(req) ==
  LET back == WithPaid(req.old, AtLeastZero(req.old.paid - req.amount), "PARTIALLY_PAID") IN
  [back EXCEPT !.total = bill.total]

(* The three fields that are set; the total is the stored one. *)
Unwound(req) ==
  LET back == WithPaid(req.old, AtLeastZero(req.old.paid - req.amount), "OPEN") IN
  [back EXCEPT !.total = bill.total]

(* The update compares the paid amount alone. *)
Unwinds(req) == bill.paid = req.old.paid

(* One that changes nothing counts as lost; an OPEN bill may change, from    *)
(* DRAFT or ISSUED to PENDING.                                               *)
Unwind(s) ==
  LET req == request[s] IN
  /\ req.pc = "unwind"
  /\ \/ /\ Unwinds(req) /\ (Unwound(req) # bill \/ bill.status = "OPEN")
        /\ bill' = Unwound(req) /\ Finish(s)
     \/ /\ Unwinds(req) => Unwound(req) = bill
        /\ Again(s, "unwindRead") \/ (LastTry(s) /\ GotoAfresh(s, "release", 0))
        /\ UNCHANGED bill
  /\ UNCHANGED <<payments, keyed, history>> /\ Frame

(* A read or the update raises, and the update may have been applied. *)
UnwindRaises(s) ==
  LET req == request[s] IN
  /\ "fail" \in Ops
  /\ \/ req.pc \in {"unwindRead", "unwind"} /\ UNCHANGED <<bill, history>>
     \/ /\ req.pc = "unwind" /\ Unwinds(req)
        /\ bill' = Unwound(req)
        /\ history' = history \cup {"unsettled"}
  /\ GotoAfresh(s, "release", 0)
  /\ UNCHANGED <<payments, keyed>> /\ Frame

Release(s) ==
  /\ request[s].pc = "release"
  /\ payments' = [payments EXCEPT ![request[s].payment].state = "RECORDED"]
  /\ Finish(s)
  /\ UNCHANGED <<bill, keyed, history>> /\ Frame

-----------------------------------------------------------------------------
(* Writers of the whole bill. *)

StartEdit(s, total) ==
  /\ bill.status \notin {"PAID", "CANCELLED"}
  /\ Begin(s, [IdleRequest EXCEPT !.pc = "replace", !.op = "edit", !.old = bill, !.total = total])
  /\ UNCHANGED unsafe

(* sync_bills_to_gate_pass clamps quantities, the total can only go down;    *)
(* a paid bill gets a note and is written back as it was read.               *)
StartResync(s, total) ==
  /\ bill.status # "CANCELLED"
  /\ IF bill.status = "PAID" THEN total = bill.total ELSE total <= bill.total
  /\ Begin(s, [IdleRequest EXCEPT !.pc = "replace", !.op = "resync", !.old = bill, !.total = total])
  /\ UNCHANGED unsafe

Replaced(req) ==
  LET left == AtLeastZero(req.total - req.old.paid)
      priced == [req.old EXCEPT !.total = req.total, !.outstanding = left] IN
  CASE req.op = "edit" /\ left = 0                    -> [priced EXCEPT !.status = "PAID"]
    [] req.op = "resync" /\ req.old.status = "PAID"   -> req.old
    [] OTHER                                          -> priced

ReplaceBill(s) ==
  LET req == request[s] IN
  /\ req.pc = "replace"
  /\ bill' = Replaced(req)
  /\ history' = history \cup (IF bill'.total < bill.total THEN {"shrunk"} ELSE {})
  /\ Finish(s)
  /\ UNCHANGED <<payments, keyed>> /\ Frame

(* delete_bill and update_bill_status: one unconditional update each. *)
Cancel ==
  /\ "cancel" \in Ops
  /\ bill' = [bill EXCEPT !.status = "CANCELLED"]
  /\ UNCHANGED <<payments, keyed, request, history>> /\ Frame

SetStatus(to) ==
  /\ "status" \in Ops
  /\ bill' = [bill EXCEPT !.status = to]
  /\ history' = history \cup {"byHand"}
  /\ UNCHANGED <<payments, keyed, request>> /\ Frame

-----------------------------------------------------------------------------
(* Amounts that are on the bill without a payment that stands: reserved for  *)
(* one to be inserted, or claimed by a reversal that has not unwound them.   *)
Holds(s) ==
  \/ /\ request[s].pc \in {"insert", "confirm", "rollbackRead", "rollback"}
     /\ ~IsRecorded(s)
  \/ request[s].pc \in {"unwindRead", "unwind", "release"}

(* A request dies, or fails for good: a payment that cannot be confirmed is  *)
(* answered with an error, as is one that cannot be compensated.             *)
Crash(s) ==
  LET req == request[s] IN
  /\ "crash" \in Ops /\ Active(s)
  /\ Finish(s)
  /\ history' = history \cup (IF Holds(s) THEN {"unsettled"} ELSE {})
  /\ unsafe' = unsafe \cup (IF req.op = "pay" /\ req.pc \in {"confirm", "remember"}
                            THEN {req.key} \cap Keys ELSE {})
  /\ UNCHANGED <<bill, payments, keyed, started>>

Fresh(p) == payments[p].state = "NONE" /\ \A s \in Slots : request[s].payment # p

NewRequest(s) ==
  \/ \E p \in Payments, amount \in Amounts, k \in Keys \cup {None} :
       Fresh(p) /\ StartPay(s, p, amount, k)
  \/ \E p \in Payments : StartReverse(s, p)
  \/ \E total \in Totals : StartEdit(s, total) \/ StartResync(s, total)

Step(s) == \/ ReserveRead(s) \/ Reserve(s)       \/ InsertPayment(s) \/ InsertRaises(s)
           \/ Confirm(s)     \/ RollbackRead(s)  \/ Rollback(s)      \/ Remember(s)
           \/ Claim(s)       \/ UnwindRead(s)    \/ Unwind(s)        \/ UnwindRaises(s)
           \/ Release(s)     \/ ReplaceBill(s)

Next == \/ \E s \in Slots : NewRequest(s) \/ Step(s) \/ Crash(s)
        \/ Cancel
        \/ \E to \in Statuses : SetStatus(to)

Spec == Init /\ [][Next]_vars

-----------------------------------------------------------------------------
(* Properties. *)

Spared(incidents) == history \cap incidents = {}

Standing == {p \in Payments : payments[p].state = "RECORDED"}

Holding == {s \in Slots : Holds(s)}

(* What the bill says was paid is what its standing payments add up to, plus *)
(* what requests in flight hold, in every interleaving of payments, lost     *)
(* answers, compensations and reversals (create_payment, reverse_payment).   *)
(* Left out are behaviours in which an edit of the bill overlapped, and those *)
(* the code leaves to be reconciled by hand.                                 *)
MoneyConserved ==
  Spared({"raced", "unsettled"}) =>
    bill.paid = SumFunctionOnSet([p \in Payments |-> payments[p].amount], Standing)
                  + SumFunctionOnSet([s \in Slots |-> request[s].amount], Holding)

(* However many payments race, a bill is overpaid by no more than the cent   *)
(* of tolerance of each payment on it (_reserve_bill_payment).               *)
NeverOverpaid ==
  Spared({"raced", "unsettled", "shrunk"}) =>
    bill.paid <= bill.total + Cardinality(Standing) + Cardinality(Holding)

(* The outstanding amount is what the total and the paid amount imply, also  *)
(* after compensations and reversals that went through several attempts, and *)
(* after overpaid cents.                                                     *)
BalanceAddsUp == Spared({"raced"}) => bill.outstanding = Due(bill)

(* A status that nobody set by hand is earned: PAID has nothing outstanding, *)
(* PARTIALLY_PAID has something paid.                                        *)
StatusIsEarned ==
  Spared({"raced", "byHand", "failed"}) =>
    /\ bill.status = "PAID" => bill.outstanding = 0
    /\ bill.status = "PARTIALLY_PAID" => bill.paid > 0

(* A retry with the key of a payment that was answered for never records a   *)
(* second one (idempotency.py); keys of requests that overlapped or died     *)
(* before their key was remembered are left out, as the code must.           *)
KeyUsedOnce ==
  \A k \in Keys \ unsafe :
    Cardinality({p \in Payments : payments[p].state # "NONE" /\ payments[p].key = k}) <= 1

(* A payment neither lands on a bill that was cancelled after it was read,   *)
(* nor does its compensation bring the bill back.                            *)
PaymentsRespectCancellation ==
  [][\A s \in Slots :
       /\ bill.status = "CANCELLED" /\ request[s].pc \in {"reserve", "rollback"}
       /\ request'[s] # request[s]
       => bill'.status = "CANCELLED"]_vars

=============================================================================
