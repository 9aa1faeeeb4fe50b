-------------------------------- MODULE ShopBills --------------------------------
(***************************************************************************)
(* The bills of the shop counter and the legacy invoices (routers/         *)
(* shop_bills.py).  Nearly every handler has one shape: find_one, a change *)
(* of the decrypted copy, and an update_one that sets every field of the   *)
(* copy, freshly encrypted.  Between the two other handlers run.  Three    *)
(* writers are different: lock and unlock set one plain field, and PATCH   *)
(* sets the fields it was given under a new data key.                      *)
(*                                                                         *)
(* Money is counted in cents; an item is its line_total.  A request is the *)
(* document it read and the fields it is about to set.  Bulk operations    *)
(* treat their bills one after the other, each as a request of its own.    *)
(* Numbers, versions and the replica are other modules' business; tags,    *)
(* dates and the like are not told apart.                                  *)
(***************************************************************************)
EXTENDS Integers, FiniteSets, Functions

CONSTANTS Bills,       \* bill documents that may come to exist
          Slots,       \* requests in flight at the same time
          NoBill,      \* not a bill
          Prices,      \* line totals of items
          MaxLines,    \* bound: items of one bill
          Orders,      \* items of new bills
          Charges,     \* discounts, transport fees and taxes users enter
          Amounts,     \* amounts of payments, which are validated
          Entered,     \* amounts taken as they are: refunds, credit notes, opening amounts
          Patches,     \* bodies of PATCH: some fields and their values
          Papers,      \* legacy invoices users enter: [grand_total, discount]
          MaxRequests  \* bound: requests of a behaviour

-----------------------------------------------------------------------------
(* What users enter. *)

PaymentStatuses == {"DRAFT", "PENDING", "PARTIALLY_PAID", "PAID", "OVERDUE",
                    "CANCELLED", "REFUNDED"}

Statuses == {"PENDING", "DELIVERED", "CANCELLED", "COMPLETED"}

(* The items of a bill: how many there are of each line total.               *)
Items == [Prices -> 0..MaxLines]

(* ShopBillUpdate: the fields a PATCH may set, each of the right type.       *)
Fits(patch) ==
  /\ DOMAIN patch \subseteq {"items", "discounts", "transport_fee", "taxes", "status",
                             "payment_status", "locked", "noted"}
  /\ "items" \in DOMAIN patch => patch.items \in Items
  /\ \A f \in DOMAIN patch \cap {"discounts", "transport_fee", "taxes"} : patch[f] \in Int
  /\ "status" \in DOMAIN patch => patch.status \in Statuses
  /\ "payment_status" \in DOMAIN patch => patch.payment_status \in PaymentStatuses
  /\ \A f \in DOMAIN patch \cap {"locked", "noted"} : patch[f] \in BOOLEAN

ASSUME BillsAssumption   == IsFiniteSet(Bills) /\ NoBill \notin Bills
ASSUME SlotsAssumption   == IsFiniteSet(Slots)
ASSUME MoneyAssumption   == /\ Prices \subseteq Int /\ IsFiniteSet(Prices)
                            /\ Charges \subseteq Int /\ 0 \in Charges
                            /\ Amounts \subseteq Nat \ {0} /\ Entered \subseteq Int
ASSUME OrdersAssumption  == Orders \subseteq Items /\ Orders # {}
ASSUME PatchesAssumption == \A patch \in Patches : Fits(patch)
ASSUME PapersAssumption  == /\ Papers \subseteq [grand_total: Nat \ {0}, discount: Nat]
                            /\ Papers # {} /\ \A p \in Papers : p.discount <= p.grand_total
ASSUME BoundsAssumption  == MaxLines \in Nat \ {0} /\ MaxRequests \in Nat

VARIABLES bills,    \* bill -> document
          invoice,  \* one legacy invoice
          request,  \* slot -> what its request has read and will write
          started,  \* requests so far, for the bound
          byHand,   \* history: bills some handler credited without a payment
          patched   \* history: bills PATCH was used on

vars == <<bills, invoice, request, started, byHand, patched>>

-----------------------------------------------------------------------------
(* The documents. *)

(* `payments` is the sum of the payments listed; 0 when the field is absent. *)
(* "whole": every encrypted field opens with the document's data key.        *)
(* "torn": some are still under an older key, which is lost.  "garbled":     *)
(* such ciphertext was taken for plain text and encrypted again.             *)
Doc == [life: {"unborn", "stored", "deleted"},
        items: Items,
        discounts: Int, transport_fee: Int, taxes: Int,
        total_amount: Int, grand_total: Int,
        paid_amount: Int, outstanding_amount: Int, payments: Nat,
        status: Statuses,
        payment_status: PaymentStatuses,
        locked: BOOLEAN, noted: BOOLEAN,
        envelope: {"whole", "torn", "garbled"}]

Unborn == [life |-> "unborn", items |-> [p \in Prices |-> 0],
           discounts |-> 0, transport_fee |-> 0, taxes |-> 0,
           total_amount |-> 0, grand_total |-> 0, paid_amount |-> 0,
           outstanding_amount |-> 0, payments |-> 0, status |-> "PENDING",
           payment_status |-> "DRAFT", locked |-> FALSE, noted |-> FALSE,
           envelope |-> "whole"]

(* laundry_amount is grand_total less discount, and derived. *)
Invoice == [life: {"unborn", "stored", "deleted"}, paper: Papers,
            payment_status: {"PENDING", "PAID"}]

AnyPaper == CHOOSE p \in Papers : TRUE

NoInvoice == [life |-> "unborn", paper |-> AnyPaper, payment_status |-> "PENDING"]

Fields == DOMAIN Unborn \ {"life"}

(* `child` is a bill to insert once the write is done; `byHand` says that    *)
(* the handler credits the bill and appends nothing to its payments.         *)
IdleRequest == [pc |-> "idle", bill |-> NoBill, old |-> Unborn, new |-> Unborn,
                fields |-> {}, child |-> Unborn, byHand |-> FALSE, invoice |-> NoInvoice]

Request == [pc: {"idle", "write", "insert", "delete", "gather",
                 "replaceInvoice", "payInvoice", "deleteInvoice"},
            bill: Bills \cup {NoBill}, old: Doc, new: Doc, fields: SUBSET Fields,
            child: Doc, byHand: BOOLEAN, invoice: Invoice]

TypeOK == /\ bills \in [Bills -> Doc]
          /\ invoice \in Invoice
          /\ request \in [Slots -> Request]
          /\ started \in 0..MaxRequests
          /\ byHand \in SUBSET Bills
          /\ patched \in SUBSET Bills

-----------------------------------------------------------------------------
(* Money. *)

AtLeastZero(n) == IF n < 0 THEN 0 ELSE n

Amount(items) == SumFunctionOnSet([p \in Prices |-> p * items[p]], Prices)

Lines(items) == SumFunctionOnSet([p \in Prices |-> items[p]], Prices)

NoItems == [p \in Prices |-> 0]

OneItem(p) == [NoItems EXCEPT ![p] = 1]

Plus(items, more) == [p \in Prices |-> items[p] + more[p]]

Minus(items, less) == [p \in Prices |-> items[p] - less[p]]

Parts(items) == {part \in Items : \A p \in Prices : part[p] <= items[p]}

GrandTotal(doc) ==
  AtLeastZero(Amount(doc.items) - doc.discounts + doc.transport_fee + doc.taxes)

(* Mutant: what was paid is forgotten when the totals are recomputed. *)
Totalled_Unpaid(doc) ==
  [doc EXCEPT !.total_amount = Amount(doc.items),
              !.grand_total = GrandTotal(doc),
              !.outstanding_amount = GrandTotal(doc)]

Totalled(doc) ==
  [doc EXCEPT !.total_amount = Amount(doc.items),
              !.grand_total = GrandTotal(doc),
              !.outstanding_amount = GrandTotal(doc) - doc.paid_amount]

(* A bill with no money on it yet, as every creating handler stores it. *)
NewBill(items, discounts) ==
  Totalled([Unborn EXCEPT !.life = "stored", !.items = items, !.discounts = discounts])

(* What a new bill may open with: nothing negative, no more than it owes.    *)
ClampPaid(doc, amount) ==
  IF amount > doc.grand_total THEN AtLeastZero(doc.grand_total) ELSE AtLeastZero(amount)

-----------------------------------------------------------------------------
(* Requests. *)

Active(s) == request[s].pc # "idle"

Stored(b) == bills[b].life = "stored"

(* _dec returns the ciphertext of a bill it cannot decrypt, as a dict: what  *)
(* walks over the items, or appends to the notes, of such a bill raises.     *)
Readable(doc) == doc.envelope = "whole"

Finish(s) == request' = [request EXCEPT ![s] = IdleRequest]

Begin(s, req) ==
  /\ started' = started + 1
  /\ request' = [request EXCEPT ![s] = req]
  /\ UNCHANGED <<bills, invoice, byHand>>

Submit(s, req) == Begin(s, req) /\ UNCHANGED patched

(* Mutant: the list of payments does not get into the merged document. *)
WholeDocument_NoList(doc) == Fields \ {"payments"}

(* {"$set": _enc(merged)}: all that was read, with a field the document did  *)
(* not have then left alone.                                                 *)
WholeDocument(doc) == Fields \ (IF doc.payments = 0 THEN {"payments"} ELSE {})

Encrypted(doc) == [doc EXCEPT !.envelope = IF Readable(doc) THEN "whole" ELSE "garbled"]

Rewriting(b, new) ==
  [IdleRequest EXCEPT !.pc = "write", !.bill = b, !.old = bills[b],
                      !.new = Encrypted(new), !.fields = WholeDocument(new)]

Rewrite(s, b, new) == Stored(b) /\ Submit(s, Rewriting(b, new))

Unlocked(b) == ~bills[b].locked

(* A change of what is billed: refused when locked, recomputes the totals. *)
Rebill(s, b, new) ==
  Unlocked(b) /\ Readable(bills[b]) /\ Lines(new.items) <= MaxLines /\ Rewrite(s, b, Totalled(new))

Insert(s, new) ==
  Submit(s, [IdleRequest EXCEPT !.pc = "insert", !.child = new])

(* Handlers that set the paid amount themselves.                             *)
RewriteByHand(s, b, new, credits) ==
  Stored(b) /\ Submit(s, [Rewriting(b, new) EXCEPT !.byHand = credits])

InsertByHand(s, new, credits) ==
  Submit(s, [IdleRequest EXCEPT !.pc = "insert", !.child = new, !.byHand = credits])

(* update_one matches nothing once the bill is deleted, and bump_version     *)
(* raises; a request with a bill to insert then inserts it all the same,     *)
(* since split_bill does not bump the bill it split.                         *)
Write(s) ==
  LET r == request[s] IN
  /\ r.pc = "write"
  /\ bills' = IF Stored(r.bill)
              THEN [bills EXCEPT ![r.bill] =
                      [f \in DOMAIN @ |-> IF f \in r.fields THEN r.new[f] ELSE @[f]]]
              ELSE bills
  /\ byHand' = IF Stored(r.bill) /\ r.byHand THEN byHand \cup {r.bill} ELSE byHand
  /\ IF r.child.life = "unborn" THEN Finish(s)
     ELSE request' = [request EXCEPT ![s] = [IdleRequest EXCEPT !.pc = "insert", !.child = r.child]]
  /\ UNCHANGED <<invoice, started, patched>>

InsertBill(s, b) ==
  /\ request[s].pc = "insert" /\ bills[b].life = "unborn"
  /\ bills' = [bills EXCEPT ![b] = request[s].child]
  /\ byHand' = IF request[s].byHand THEN byHand \cup {b} ELSE byHand
  /\ Finish(s)
  /\ UNCHANGED <<invoice, started, patched>>

(* A request dies between two of its steps, or its insert fails. *)
Die(s) ==
  /\ request[s].pc = "insert"
  /\ Finish(s) /\ UNCHANGED <<bills, invoice, started, byHand, patched>>

-----------------------------------------------------------------------------
(* Creation. *)

(* Transport fee and taxes are given later, by the handlers that set them. *)
CreateBill(s) ==
  \E items \in Orders, discounts \in Charges, locked \in BOOLEAN :
    Insert(s, [NewBill(items, discounts) EXCEPT !.locked = locked])

(* quick_bill, also from a template: no charges, no lock. *)
QuickBill(s) == \E items \in Orders \cup {NoItems} : Insert(s, NewBill(items, 0))

FromQuotation(s) == \E items \in Orders : Insert(s, NewBill(items, 0))

(* manual_bill and batch-create: a paid amount, clamped, and any status. *)
ManualBill(s) ==
  \E items \in Orders, amount \in Entered \cup {0} :
    LET bill == NewBill(items, 0)
        paid == ClampPaid(bill, amount)
    IN InsertByHand(s, [bill EXCEPT !.payment_status = "PENDING", !.paid_amount = paid,
                                    !.outstanding_amount = bill.grand_total - paid],
                    paid > 0)

DuplicateBill(s, b) ==
  Stored(b) /\ Readable(bills[b]) /\ Insert(s, NewBill(bills[b].items, 0))

(* duplicate-options, when the items are not kept. *)
DuplicateOptions(s, b) == Stored(b) /\ Insert(s, NewBill(NoItems, 0))

(* The amount is not checked: a credit note of -2 is a bill of 2, paid.      *)
CreditNote(s, b) ==
  /\ Stored(b)
  /\ \E amount \in Entered :
       InsertByHand(s, [Unborn EXCEPT !.life = "stored", !.total_amount = -amount,
                          !.grand_total = -amount, !.paid_amount = -amount,
                          !.status = "COMPLETED", !.payment_status = "PAID",
                          !.locked = TRUE, !.noted = TRUE],
                    amount < 0)

-----------------------------------------------------------------------------
(* Changes of what is billed. *)

(* PATCH sets the fields of its body and the totals, under a new data key:   *)
(* the encrypted fields it leaves out, client_name always, keep the old one. *)
PatchBill(s, b) ==
  /\ Stored(b) /\ Unlocked(b)
  /\ \E patch \in Patches :
       /\ "items" \in DOMAIN patch \/ Readable(bills[b])
       /\ LET document == [f \in DOMAIN bills[b] |->
                             IF f \in DOMAIN patch THEN patch[f] ELSE bills[b][f]]
          IN Begin(s, [IdleRequest EXCEPT
               !.pc = "write", !.bill = b, !.old = bills[b],
               !.new = [Totalled(document) EXCEPT !.envelope = "torn"],
               !.fields = DOMAIN patch \cup
                 {"total_amount", "grand_total", "outstanding_amount", "envelope"}])
  /\ patched' = patched \cup {b}

AddItem(s, b) ==
  \E p \in Prices : Rebill(s, b, [bills[b] EXCEPT !.items[p] = @ + 1])

(* Mutant: the index is not checked. *)
RemoveItem_AnyIndex(s, b) ==
  \E p \in Prices : Rebill(s, b, [bills[b] EXCEPT !.items[p] = @ - 1])

RemoveItem(s, b) ==
  \E p \in Prices : /\ bills[b].items[p] > 0
                    /\ Rebill(s, b, [bills[b] EXCEPT !.items[p] = @ - 1])

UpdateItem(s, b) ==
  \E p, q \in Prices : /\ bills[b].items[p] > 0 /\ p # q
                       /\ Rebill(s, b, [bills[b] EXCEPT !.items[p] = @ - 1, !.items[q] = @ + 1])

UpdateDiscount(s, b) == \E c \in Charges : Rebill(s, b, [bills[b] EXCEPT !.discounts = c])

UpdateTransportFee(s, b) == \E c \in Charges : Rebill(s, b, [bills[b] EXCEPT !.transport_fee = c])

UpdateTaxes(s, b) == \E c \in Charges : Rebill(s, b, [bills[b] EXCEPT !.taxes = c])

(* The original is written first, and never bumped nor enqueued. *)
SplitBill(s, b) ==
  /\ Stored(b) /\ Unlocked(b) /\ Readable(bills[b])
  /\ \E moved \in Parts(bills[b].items) :
       Submit(s, [Rewriting(b, Totalled([bills[b] EXCEPT !.items = Minus(@, moved)]))
                    EXCEPT !.child = NewBill(moved, 0)])

(* merge_bills reads the base, then the other bill, which stays as it is.    *)
BeginMerge(s, b) ==
  /\ Stored(b) /\ Unlocked(b) /\ Readable(bills[b])
  /\ Submit(s, [Rewriting(b, bills[b]) EXCEPT !.pc = "gather"])

MergeWith(s, other) ==
  LET base == request[s].old IN
  /\ request[s].pc = "gather" /\ other # request[s].bill
  /\ IF Stored(other) /\ Unlocked(other) /\ Readable(bills[other])
     THEN LET items == Plus(base.items, bills[other].items) IN
          /\ Lines(items) <= MaxLines
          /\ request' = [request EXCEPT ![s].pc = "write",
                                        ![s].new = Totalled([base EXCEPT !.items = items])]
     ELSE Finish(s)
  /\ UNCHANGED <<bills, invoice, started, byHand, patched>>

-----------------------------------------------------------------------------
(* Payments. *)

(* A cent too much is taken, and the rest of it forgotten. *)
RecordPayment(s, b) ==
  \E amount \in Amounts :
    LET bill == bills[b]
        paid == bill.paid_amount + amount
        rest == bill.grand_total - paid
    IN /\ bill.payment_status \notin {"PAID", "CANCELLED", "REFUNDED"}
       /\ amount <= bill.outstanding_amount + 1
       /\ Rewrite(s, b, [bill EXCEPT
            !.paid_amount = paid, !.outstanding_amount = AtLeastZero(rest),
            !.payment_status = IF rest < 1 THEN "PAID"
                               ELSE IF paid > 0 THEN "PARTIALLY_PAID" ELSE @,
            !.payments = @ + amount])

(* The note is appended to the notes, which must have been decrypted. *)
CanAppendNote(bill) == Readable(bill) \/ ~bill.noted

(* Nor is this amount: a refund of -2 credits the bill with 2.               *)
Refund(s, b) ==
  \E amount \in Entered :
    LET bill == bills[b]
        paid == AtLeastZero(bill.paid_amount - amount)
        rest == bill.grand_total - paid
    IN /\ CanAppendNote(bill)
       /\ RewriteByHand(s, b, [bill EXCEPT
            !.paid_amount = paid, !.outstanding_amount = rest, !.noted = TRUE,
            !.payment_status = IF rest <= 1 THEN "PAID"
                               ELSE IF paid > 0 THEN "PARTIALLY_PAID" ELSE "PENDING"],
            amount < 0)

BulkMarkPaid(s, b) ==
  /\ Unlocked(b)
  /\ RewriteByHand(s, b, [bills[b] EXCEPT !.paid_amount = bills[b].grand_total,
                                          !.outstanding_amount = 0, !.payment_status = "PAID"],
                   TRUE)

ExpireOld(s, b) ==
  /\ bills[b].outstanding_amount > 0
  /\ bills[b].payment_status \in {"PENDING", "PARTIALLY_PAID"}
  /\ Rewrite(s, b, [bills[b] EXCEPT !.payment_status = "OVERDUE"])

-----------------------------------------------------------------------------
(* The life of a bill. *)

ChangeStatus(s, b) ==
  \E status \in {"PENDING", "DELIVERED", "CANCELLED"} :
    Rewrite(s, b, [bills[b] EXCEPT !.status = status])

MarkDelivered(s, b) == Rewrite(s, b, [bills[b] EXCEPT !.status = "DELIVERED"])

BulkStatus(s, b) == Unlocked(b) /\ ChangeStatus(s, b)

BulkStatusNotes(s, b) ==
  /\ Unlocked(b) /\ CanAppendNote(bills[b])
  /\ Rewrite(s, b, [bills[b] EXCEPT !.status = "DELIVERED", !.noted = TRUE])

VoidBill(s, b) ==
  \E reason \in BOOLEAN :
    /\ reason => CanAppendNote(bills[b])
    /\ Rewrite(s, b, [bills[b] EXCEPT !.status = "CANCELLED", !.payment_status = "CANCELLED",
                                      !.locked = TRUE, !.noted = @ \/ reason])

SetLocked(s, b, locked) ==
  Stored(b) /\ Submit(s, [IdleRequest EXCEPT !.pc = "write", !.bill = b, !.old = bills[b],
                            !.new = [bills[b] EXCEPT !.locked = locked], !.fields = {"locked"}])

LockBill(s, b) == SetLocked(s, b, TRUE)

UnlockBill(s, b) == SetLocked(s, b, FALSE)

UpdateNotes(s, b) == Rewrite(s, b, [bills[b] EXCEPT !.noted = TRUE])

(* Tags, as well as recurrence, attachments, archiving, quotation links,     *)
(* delivery dates and clients: everything modelled is put back as read.      *)
EditTags(s, b) == Rewrite(s, b, bills[b])

(* Mutant: a locked bill may be deleted. *)
DeleteBill_Locked(s, b) == Stored(b) /\ Submit(s, [Rewriting(b, bills[b]) EXCEPT !.pc = "delete"])

DeleteBill(s, b) ==
  Stored(b) /\ Unlocked(b) /\ Submit(s, [Rewriting(b, bills[b]) EXCEPT !.pc = "delete"])

RemoveBill(s) ==
  /\ request[s].pc = "delete"
  /\ bills' = [bills EXCEPT ![request[s].bill].life = "deleted"]
  /\ Finish(s)
  /\ UNCHANGED <<invoice, started, byHand, patched>>

-----------------------------------------------------------------------------
(* The legacy invoice. *)

OnInvoice(s, pc, new) ==
  /\ invoice.life = "stored"
  /\ Submit(s, [IdleRequest EXCEPT !.pc = pc, !.invoice = new])

Editable(inv) == inv.payment_status # "PAID"

CreateInvoice ==
  /\ invoice.life = "unborn"
  /\ \E paper \in Papers :
       invoice' = [NoInvoice EXCEPT !.life = "stored", !.paper = paper]
  /\ started' = started + 1
  /\ UNCHANGED <<bills, request, byHand, patched>>

UpdateInvoice(s) ==
  /\ Editable(invoice)
  /\ \E paper \in Papers : OnInvoice(s, "replaceInvoice", [invoice EXCEPT !.paper = paper])

PayInvoice(s) == Editable(invoice) /\ OnInvoice(s, "payInvoice", invoice)

DeleteInvoice(s) == Editable(invoice) /\ OnInvoice(s, "deleteInvoice", invoice)

(* replace_one, the $set of the payment and delete_one. *)
WriteInvoice(s) ==
  LET r == request[s] IN
  /\ \/ r.pc \in {"replaceInvoice", "payInvoice", "deleteInvoice"}
        /\ invoice.life = "deleted" /\ UNCHANGED invoice
     \/ r.pc = "replaceInvoice" /\ invoice.life = "stored" /\ invoice' = r.invoice
     \/ /\ r.pc = "payInvoice" /\ invoice.life = "stored"
        /\ invoice' = [invoice EXCEPT !.payment_status = "PAID"]
     \/ /\ r.pc = "deleteInvoice" /\ invoice.life = "stored"
        /\ invoice' = [invoice EXCEPT !.life = "deleted"]
  /\ Finish(s)
  /\ UNCHANGED <<bills, started, byHand, patched>>

-----------------------------------------------------------------------------
Init ==
  /\ \E there \in SUBSET Bills \ {{}}, items \in Orders, discounts \in Charges :
       bills = [b \in Bills |-> IF b \in there THEN NewBill(items, discounts) ELSE Unborn]
  /\ invoice = NoInvoice
  /\ request = [s \in Slots |-> IdleRequest]
  /\ started = 0 /\ byHand = {} /\ patched = {}

Create(s) == CreateBill(s) \/ QuickBill(s) \/ FromQuotation(s) \/ ManualBill(s)

Copy(s, b) == DuplicateBill(s, b) \/ DuplicateOptions(s, b) \/ CreditNote(s, b)

ChangeBilled(s, b) ==
  \/ PatchBill(s, b) \/ AddItem(s, b) \/ RemoveItem(s, b) \/ UpdateItem(s, b)
  \/ UpdateDiscount(s, b) \/ UpdateTransportFee(s, b) \/ UpdateTaxes(s, b)
  \/ SplitBill(s, b) \/ BeginMerge(s, b)

ChangePaid(s, b) ==
  RecordPayment(s, b) \/ Refund(s, b) \/ BulkMarkPaid(s, b) \/ ExpireOld(s, b)

ChangeState(s, b) ==
  \/ ChangeStatus(s, b) \/ MarkDelivered(s, b) \/ BulkStatus(s, b) \/ BulkStatusNotes(s, b)
  \/ VoidBill(s, b) \/ LockBill(s, b) \/ UnlockBill(s, b) \/ UpdateNotes(s, b)
  \/ EditTags(s, b) \/ DeleteBill(s, b)

Receive ==
  /\ started < MaxRequests
  /\ \/ CreateInvoice
     \/ \E s \in Slots :
          /\ ~Active(s)
          /\ \/ Create(s) \/ UpdateInvoice(s) \/ PayInvoice(s) \/ DeleteInvoice(s)
             \/ \E b \in Bills : \/ Copy(s, b) \/ ChangeBilled(s, b)
                                 \/ ChangePaid(s, b) \/ ChangeState(s, b)

Continue ==
  \E s \in Slots :
    \/ Write(s) \/ RemoveBill(s) \/ Die(s) \/ WriteInvoice(s)
    \/ \E b \in Bills : InsertBill(s, b) \/ MergeWith(s, b)

Next == Receive \/ Continue

Spec == Init /\ [][Next]_vars

-----------------------------------------------------------------------------
(* Properties. *)

(* However the requests interleave, only PATCH costs a bill its encrypted    *)
(* fields: the other handlers write the whole document under one data key, or *)
(* a field that is not encrypted.  A bill that can be read is a consistent    *)
(* one: its total is that of its items, its grand total follows from it and   *)
(* the charges, and what is outstanding is what is not paid, up to the cent   *)
(* record_payment forgives.  A credit note has a total and no items, until    *)
(* somebody edits it.                                                        *)
BooksBalance ==
  \A b \in Bills : Stored(b) =>
    IF ~Readable(bills[b]) THEN b \in patched
    ELSE LET bill == bills[b] IN
         /\ \/ /\ bill.total_amount = Amount(bill.items)
               /\ bill.grand_total = GrandTotal(bill)
            \/ bill.items = NoItems /\ bill.grand_total = bill.total_amount
         /\ bill.outstanding_amount - (bill.grand_total - bill.paid_amount) \in 0..1

(* However payments, refunds, edits and deletions interleave, a bill is      *)
(* credited with no more than the payments it lists: a payment that is lost  *)
(* to a whole-document write is lost with its amount, and no refund, edit or *)
(* late copy brings the amount back alone.  Four handlers do credit a bill   *)
(* and append to no list, and the bills they wrote to are left out:          *)
(* bulk-mark-paid, the opening amount of a manual bill, and refunds and      *)
(* credit notes of a negative amount, which nothing forbids                  *)
(* (shop_bills.py:2510-2511, 2523-2524; the docstring of _clamp_paid,        *)
(* 219-224, is against such amounts, and only manual bills pass through it). *)
PaidIsBacked ==
  \A b \in Bills : Stored(b) /\ b \notin byHand => bills[b].paid_amount <= bills[b].payments

Billed(bill) == <<bill.items, bill.discounts, bill.transport_fee, bill.taxes>>

(* A bill is deleted while it is locked, or anything billed on it changed,   *)
(* only by a request that had read it unlocked, or that puts back as it was  *)
(* what such a request has just changed.  Likewise the figure of a legacy    *)
(* invoice that is paid, by one that had read it before it was paid.         *)
LockHolds ==
  [][/\ \A b \in Bills :
          /\ Stored(b) /\ bills[b].locked
          /\ bills'[b].life = "deleted" \/ Billed(bills'[b]) # Billed(bills[b])
          => \E s \in Slots :
               LET r == request[s] IN
               /\ r.bill = b
               /\ \/ ~r.old.locked
                  \/ r.pc = "write" /\ Billed(r.new) = Billed(r.old)
     /\ invoice.payment_status = "PAID" /\ invoice' # invoice
          => \E s \in Slots : /\ request[s].pc \in {"replaceInvoice", "deleteInvoice"}
                              /\ Editable(request[s].invoice)]_vars

=============================================================================
