--------------------------------- MODULE Billing ---------------------------------
(***************************************************************************)
(* Bills of the linen of one gate pass, beside the writers of that pass    *)
(* (Receipts).  A bill names the pass, some of its deliveries, or both.    *)
(* Creating one reads the receipt, then what has been billed, then         *)
(* inserts; editing one checks another ceiling and replaces the whole      *)
(* bill; a corrected receipt is propagated to the bills one by one         *)
(* (services/bill_sync.py), as a step of the edit or approval that         *)
(* corrected it.                                                           *)
(*                                                                         *)
(* All lines are of one item, and nothing keeps a bill from naming it on   *)
(* several lines: a bill charges a number of pieces on each of its rows.   *)
(* Its money is in BillPayments; here a bill is open (DRAFT), PAID in      *)
(* full, or CANCELLED.  Bills without a pass and deliveries have no        *)
(* ceiling and are left out.                                               *)
(***************************************************************************)
EXTENDS Receipts

CONSTANTS Bills,     \* bills that may come to exist
          Rows,      \* places for lines on a bill
          Entries,   \* the lines users enter: row -> pieces, 0 where there is none
          Cashiers   \* users with a bill in hand

ASSUME BillsAssumption == /\ IsFiniteSet(Bills) /\ IsFiniteSet(Rows)
                          /\ IsFiniteSet(Cashiers) /\ Cashiers \cap Slots = {}
                          /\ Entries \subseteq [Rows -> Nat]

VARIABLES bills,    \* bill -> document
          work,     \* user -> the bill, or the propagation, in hand
          excuses   \* history: what has happened that the code has no answer to

vars == <<receiptVars, bills, work, excuses>>

-----------------------------------------------------------------------------
(* The documents. *)

(* `charges`: row -> pieces, 0 where there is no line; `noted`: the note that *)
(* a paid bill disagrees with the corrected receipt.                         *)
Bill == [status: {"NONE", "DRAFT", "PAID", "CANCELLED"},
         pass: BOOLEAN, deliveries: SUBSET Deliveries, charges: [Rows -> Nat],
         noted: BOOLEAN]

NoCharges == [r \in Rows |-> 0]

NoBill == [status |-> "NONE", pass |-> FALSE, deliveries |-> {}, charges |-> NoCharges,
           noted |-> FALSE]

(* `bill` is to be written to `id`, within the ceiling found; `received` is  *)
(* the billable quantity read; `found` the bills a propagation has read and  *)
(* still has to write; `fresh` says that nothing has changed since.          *)
Work == [pc: {"idle", "billed", "insert", "ceiling", "replace", "bills", "write"},
         id: Bills \cup {None}, bill: Bill, received: Nat,
         found: [Bills -> Bill], todo: SUBSET Bills, fresh: BOOLEAN]

NoFindings == [b \in Bills |-> NoBill]

NoWork == [pc |-> "idle", id |-> None, bill |-> NoBill, received |-> 0,
           found |-> NoFindings, todo |-> {}, fresh |-> FALSE]

TypeOK == /\ ReceiptTypes
          /\ bills \in [Bills -> Bill]
          /\ work \in [Slots \cup Cashiers -> Work]
          /\ excuses \subseteq {"raced", "shrunk", "reopened", "unfinished", "delivered",
                                "reverted"}

Live(b) == bills[b].status \notin {"NONE", "CANCELLED"}

Editable(doc) == doc.status \notin {"PAID", "CANCELLED"}

Total(doc) == SumFunctionOnSet(doc.charges, Rows)

Pieces(some) == SumFunctionOnSet([b \in Bills |-> Total(bills[b])], some)

(* Each line for itself. *)
Within(doc, n) == \A r \in Rows : doc.charges[r] <= n

(* Free re-washes are not billable. *)
Received(items) ==
  SumFunctionOnSet([l \in Lines |-> items[l].qty], {l \in Lines : ~items[l].rewashed})

LargerOf(m, n) == IF m > n THEN m ELSE n

(* The larger of the two ceilings: create_bill's, and edit_bill's.           *)
Chargeable(items, docs) == LargerOf(Received(items), DeliveredInAll(docs))

-----------------------------------------------------------------------------
(* What was billed before, as each of the readers sees it. *)

OnPass == {b \in Bills : Live(b) /\ bills[b].pass}

(* One line of each of some bills. *)
Picked(pick, some) == SumFunctionOnSet([b \in Bills |-> bills[b].charges[pick[b]]], some)

(* Whichever is picked, the lines are for linen there is. *)
Covers(items, docs) ==
  \A pick \in [Bills -> Rows] : Picked(pick, OnPass) <= Chargeable(items, docs)

OnDeliveries(ds) == {b \in Bills : Live(b) /\ bills[b].deliveries \cap ds # {}}

(* Mutant: only what is paid counts as billed. *)
Billed_PaidOnly(doc) ==
  Pieces({b \in OnPass \cup OnDeliveries(Moving(deliveries)) : bills[b].status = "PAID"})

(* create_bill: by its deliveries, those of the bill and those of the pass;  *)
(* by the pass, those of any of its deliveries that are not cancelled.       *)
Billed(doc) ==
  Pieces(OnPass \cup OnDeliveries(IF doc.deliveries = {} THEN Moving(deliveries)
                                                         ELSE doc.deliveries))

(* The ceiling of an edit is what was delivered, re-washes included, since   *)
(* delivery lines carry no tag, less the other bills of the pass; bills keep *)
(* the ids of deliveries as text and are not found by them.                  *)
EditCeiling(b) == AtLeastZero(DeliveredInAll(deliveries) - Pieces(OnPass \ {b}))

-----------------------------------------------------------------------------
(* Steps. *)

Init == /\ ReceiptInit
        /\ bills = [b \in Bills |-> NoBill]
        /\ work = [w \in Slots \cup Cashiers |-> NoWork]
        /\ excuses = {}

(* All that is in hand has been overtaken, but what `w` does itself. *)
Overtaken(w, next) ==
  [v \in Slots \cup Cashiers |->
     IF v = w THEN next ELSE [work[v] EXCEPT !.fresh = FALSE]]

Take(w, job) ==
  /\ work[w].pc = "idle" /\ Count
  /\ work' = [work EXCEPT ![w] = job]
  /\ UNCHANGED <<pass, deliveries, adjustments, request, latest, applied, bills, excuses>>

(* A bill is written on what was read, which may have been overtaken. *)
WriteBill(w, b, doc, next, more) ==
  /\ bills' = [bills EXCEPT ![b] = doc]
  /\ work' = Overtaken(w, next)
  /\ excuses' = excuses \cup more \cup (IF work[w].fresh THEN {} ELSE {"raced"})
  /\ UNCHANGED <<pass, deliveries, adjustments, started, latest, applied>>

Look(w, next) ==
  /\ work' = [work EXCEPT ![w] = next]
  /\ UNCHANGED <<receiptVars, bills, excuses>>

(* create_bill: the pass is read first, or the deliveries and their pass.    *)
(* Bills issued as `instant` are paid.                                       *)
StartBill(c, b, by, ds, charges, instant) ==
  /\ bills[b].status = "NONE" /\ \A w \in Cashiers : work[w].id # b
  /\ by \/ ds # {}
  /\ \A d \in ds : deliveries[d].status = "DELIVERED"
  /\ Take(c, [NoWork EXCEPT !.pc = "billed", !.id = b, !.fresh = TRUE,
       !.received = Received(pass.items),
       !.bill = [status |-> IF instant THEN "PAID" ELSE "DRAFT", pass |-> by,
                 deliveries |-> ds, charges |-> charges, noted |-> FALSE]])

(* Deliveries and bills are read, each line is checked against all that is   *)
(* not billed yet: the lines before it do not count.                         *)
ReadBilled(c) ==
  LET job == work[c] IN
  /\ job.pc = "billed"
  /\ Look(c, IF Within(job.bill, AtLeastZero(job.received - Billed(job.bill)))
             THEN [job EXCEPT !.pc = "insert", !.received = 0] ELSE NoWork)

(* insert_one: the id is new, nothing is looked at again. *)
InsertBill(c) ==
  LET job == work[c] IN
  /\ job.pc = "insert"
  /\ WriteBill(c, job.id, job.bill, NoWork, {}) /\ UNCHANGED request

(* edit_bill: it is PAID if what was paid before covers what it charges now. *)
(* (An edit of the fees alone keeps the lines, asks no ceiling and is left    *)
(* out.)                                                                     *)
StartBillEdit(c, b, charges, covered) ==
  /\ bills[b].status # "NONE" /\ Editable(bills[b])
  /\ Take(c, [NoWork EXCEPT !.pc = "ceiling", !.id = b, !.fresh = TRUE,
       !.bill = [bills[b] EXCEPT !.charges = charges,
                                 !.status = IF covered THEN "PAID" ELSE bills[b].status]])

(* _assert_items_within_billable_ceiling: without a pass there is none, and  *)
(* again each line is looked at alone.                                       *)
CheckCeiling(c) ==
  LET job == work[c] IN
  /\ job.pc = "ceiling"
  /\ Look(c, IF job.bill.pass => Within(job.bill, EditCeiling(job.id))
             THEN [job EXCEPT !.pc = "replace"] ELSE NoWork)

(* The whole bill as it was read.  More may have been delivered than the     *)
(* receipt says now.                                                         *)
ReplaceBill(c) ==
  LET job == work[c] IN
  /\ job.pc = "replace"
  /\ WriteBill(c, job.id, job.bill, NoWork,
       IF Within(job.bill, Received(pass.items)) THEN {} ELSE {"delivered"})
  /\ UNCHANGED request

(* One update each: a payment of the rest; delete_bill and                   *)
(* update_bill_status, which sets any status.                                *)
SetBill(b, st, more) ==
  /\ Count
  /\ bills' = [bills EXCEPT ![b].status = st]
  /\ work' = Overtaken(None, NoWork)
  /\ excuses' = excuses \cup more
  /\ UNCHANGED <<pass, deliveries, adjustments, request, latest, applied>>

PayBill(b) == bills[b].status = "DRAFT" /\ SetBill(b, "PAID", {})

CancelBill(b) == Live(b) /\ SetBill(b, "CANCELLED", {})

(* reverse_payment: the bill is open again, cancelled or not (`status` is    *)
(* asked, `payment_status` was meant).                                       *)
ReversePayment(b) ==
  bills[b].status \in {"PAID", "CANCELLED"} /\ SetBill(b, "DRAFT", {"reopened"})

SetBillStatus(b, st) ==
  /\ bills[b].status \notin {"NONE", st}
  /\ SetBill(b, st, IF Editable(bills[b]) THEN {} ELSE {"reopened"})

-----------------------------------------------------------------------------
(* sync_bills_to_gate_pass *)

Linked == OnPass \cup OnDeliveries(Moving(deliveries))

(* Mutant: a line keeps its quantity as long as some of it was received. *)
Clamped_Removed(doc, received) ==
  [doc EXCEPT !.charges = [r \in Rows |-> IF received = 0 THEN 0 ELSE doc.charges[r]]]

(* Mutant: the change is written where the quantity belongs. *)
Clamped_Delta(doc, received) ==
  [doc EXCEPT !.charges = [r \in Rows |-> IF doc.charges[r] <= received THEN doc.charges[r]
                                          ELSE received - doc.charges[r]]]

(* min(old_qty, received), line by line. *)
Clamped(doc, received) ==
  [doc EXCEPT !.charges = [r \in Rows |-> IF doc.charges[r] <= received THEN doc.charges[r]
                                          ELSE received]]

(* Paid bills get a note, open ones are clamped. *)
Propagated(doc, received) ==
  IF Editable(doc) THEN Clamped(doc, received) ELSE [doc EXCEPT !.noted = TRUE]

(* The deliveries and one batch of bills are read.  An open bill is written  *)
(* again when its lines change, or to note what it does not charge at all.   *)
ReadLinked(s) ==
  LET received == Received(request[s].pass.items)
      new  == [b \in Linked |-> Propagated(bills[b], received)]
      todo == {b \in Linked : \/ ~Editable(bills[b])
                              \/ new[b] # bills[b]
                              \/ bills[b].charges = NoCharges /\ received > 0} IN
  /\ request[s].pc = "sync" /\ work[s].pc = "idle"
  /\ IF todo = {}
     THEN /\ request' = [request EXCEPT ![s] = Synced(s)]
          /\ UNCHANGED <<pass, deliveries, adjustments, started, latest, applied,
                         bills, work, excuses>>
     ELSE Look(s, [NoWork EXCEPT !.pc = "write", !.todo = todo, !.fresh = TRUE,
                    !.found = [b \in Bills |-> IF b \in todo THEN new[b] ELSE NoBill]])

(* _persist_bill: replace_one by the document read in the batch. *)
WriteLinked(s, b) ==
  LET job  == work[s]
      rest == job.todo \ {b} IN
  /\ request[s].pc = "sync" /\ job.pc = "write" /\ b \in job.todo
  /\ WriteBill(s, b, job.found[b],
       IF rest = {} THEN NoWork
       ELSE [job EXCEPT !.todo = rest, !.found[b] = NoBill], {})
  /\ request' = IF rest = {} THEN [request EXCEPT ![s] = Synced(s)] ELSE request

(* An exception in between is logged, and the request goes on. *)
PropagationFails(s) ==
  /\ request[s].pc = "sync"
  /\ request' = [request EXCEPT ![s] = Synced(s)]
  /\ work' = [work EXCEPT ![s] = NoWork]
  /\ excuses' = excuses \cup {"unfinished"}
  /\ UNCHANGED <<pass, deliveries, adjustments, started, latest, applied, bills>>

(* The process dies with a bill in hand: nothing of it was written. *)
CashierCrash(c) == c \in Cashiers /\ work[c].pc # "idle" /\ Look(c, NoWork)

(* A receipt corrected, or a delivery cancelled, below what is billed already *)
(* leaves no way to bill each piece once (cancel_delivery tells no bill); a  *)
(* crash of the corrector leaves the bills alone.                            *)
ReceiptSide ==
  /\ ReceiptStep
  /\ work' = [w \in Slots \cup Cashiers |->
       IF w \in Slots /\ request'[w].pc = "idle" THEN NoWork
       ELSE IF <<pass, deliveries>>' = <<pass, deliveries>> THEN work[w]
       ELSE [work[w] EXCEPT !.fresh = FALSE]]
  /\ excuses' = excuses
       \cup (IF /\ <<pass.items, deliveries>>' # <<pass.items, deliveries>>
                /\ Chargeable(pass'.items, deliveries') < Chargeable(pass.items, deliveries)
                /\ ~Covers(pass'.items, deliveries')
             THEN {"shrunk"} ELSE {})
       \cup (IF /\ pass'.items # pass.items
                /\ \A s \in Slots : request'[s].pc = "sync" => request[s].pc = "sync"
             THEN {"reverted"} ELSE {})
       \cup (IF \E s \in Slots : request[s].pc = "sync" /\ request'[s].pc = "idle"
             THEN {"unfinished"} ELSE {})
  /\ UNCHANGED bills

BillSide ==
  \/ \E c \in Cashiers, b \in Bills, charges \in Entries :
       \/ \E by \in BOOLEAN, ds \in SUBSET Deliveries, instant \in BOOLEAN :
            StartBill(c, b, by, ds, charges, instant)
       \/ \E covered \in BOOLEAN : StartBillEdit(c, b, charges, covered)
  \/ \E c \in Cashiers :
       ReadBilled(c) \/ InsertBill(c) \/ CheckCeiling(c) \/ ReplaceBill(c) \/ CashierCrash(c)
  \/ \E b \in Bills : \/ PayBill(b) \/ CancelBill(b) \/ ReversePayment(b)
                      \/ \E st \in {"DRAFT", "PAID"} : SetBillStatus(b, st)
  \/ \E s \in Slots :
       ReadLinked(s) \/ PropagationFails(s) \/ \E b \in Bills : WriteLinked(s, b)

Next == ReceiptSide \/ BillSide

Spec == Init /\ [][Next]_vars

-----------------------------------------------------------------------------
(* Properties. *)

(* Counting one line of each bill that names the pass, the bills charge no  *)
(* more than was received, or delivered (edits), whatever sequence of         *)
(* creations by the pass or by its deliveries, edits, cancellations,         *)
(* deliveries and corrections led there: create_bill and the ceiling of      *)
(* edit_bill count all lines of the other bills, and hold each line of the   *)
(* new one against the rest.  A bill with one line of the item counts in     *)
(* full; one that names it on two lines may charge the rest twice.  Excused: *)
(* two requests that overlapped (the ceiling is looked at before the insert  *)
(* only), a receipt or delivery taken back below what was billed, and a      *)
(* cancelled or paid bill set back by hand or by a reversed payment.         *)
PassCoversBills ==
  \/ excuses \cap {"raced", "shrunk", "reopened"} # {}
  \/ Covers(pass.items, deliveries)

(* The bills a corrected receipt concerns follow it: no line of one charges  *)
(* more than the corrected receipt, unless the bill is paid and carries the  *)
(* note that says so (bill_sync.py; two lines of one item may still come to  *)
(* more together).  While the correction is on its way, or after it failed,  *)
(* overlapped with another bill's request, met an edit up to the delivered   *)
(* quantity, or was undone by a writer that tells no bill (a catch-up, a     *)
(* reopening, an edit of names), this is not claimed.                        *)
CorrectionsReachBills ==
  \/ excuses \cap {"raced", "reopened", "unfinished", "delivered", "reverted"} # {}
  \/ \E s \in Slots : request[s].pc = "sync"
  \/ \A b \in Linked : \/ Within(bills[b], Received(pass.items))
                       \/ bills[b].status = "PAID" /\ bills[b].noted

=============================================================================
