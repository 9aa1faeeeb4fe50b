------------------------------ MODULE ShopBillsInv ------------------------------
(***************************************************************************)
(* The inductive invariant of the shop bills: what the documents promise,  *)
(* and what a request in flight has in hand, so that it cannot break the   *)
(* promise however late it writes.                                         *)
(***************************************************************************)
EXTENDS ShopBills

(* Where a forgiven cent may stand: statuses that take no further payment.   *)
Settled == {"PAID", "CANCELLED", "REFUNDED"}

(* The amounts of a bill belong together.                                    *)
Adds(doc) ==
  /\ \/ doc.total_amount = Amount(doc.items) /\ doc.grand_total = GrandTotal(doc)
     \/ doc.items = NoItems /\ doc.grand_total = doc.total_amount
  /\ \/ doc.outstanding_amount = doc.grand_total - doc.paid_amount
     \/ /\ doc.outstanding_amount = doc.grand_total - doc.paid_amount + 1
        /\ doc.payment_status \in Settled

BillSound(b) ==
  Stored(b) => /\ IF Readable(bills[b]) THEN Adds(bills[b]) ELSE b \in patched
               /\ b \notin byHand => bills[b].paid_amount <= bills[b].payments

(* A whole document to write; its list of payments stays out if it is empty. *)
WritesWhole(r) ==
  /\ Fields \ {"payments"} \subseteq r.fields /\ r.fields \subseteq Fields
  /\ "payments" \notin r.fields => r.new.payments = 0
  /\ IF Readable(r.new) THEN Adds(r.new) ELSE r.bill \in patched
  /\ r.bill \notin byHand /\ ~r.byHand => r.new.paid_amount <= r.new.payments

(* The one field of lock and unlock.                                         *)
WritesLock(r) == r.fields = {"locked"}

(* The fields of a PATCH: never the money that was paid.                     *)
WritesPart(r) ==
  /\ "envelope" \in r.fields /\ r.new.envelope = "torn" /\ r.bill \in patched
  /\ r.fields \cap {"life", "paid_amount", "payments"} = {}

ChildSound(doc) == \/ doc.life = "unborn"
                   \/ doc.life = "stored" /\ Readable(doc) /\ Adds(doc)

BackedWhenRead(r) == r.bill \notin byHand => r.old.paid_amount <= r.old.payments

WriteSound(r) ==
  /\ r.bill \in Bills
  /\ WritesWhole(r) \/ WritesLock(r) \/ WritesPart(r)
  /\ ~r.old.locked \/ Billed(r.new) = Billed(r.old)
  /\ ChildSound(r.child) /\ r.child.paid_amount <= r.child.payments

GatherSound(r) ==
  /\ r.bill \in Bills
  /\ Fields \ {"payments"} \subseteq r.fields /\ r.fields \subseteq Fields
  /\ "payments" \notin r.fields => r.old.payments = 0
  /\ Readable(r.old) /\ ~r.old.locked
  /\ BackedWhenRead(r)
  /\ r.child.life = "unborn" /\ r.child.paid_amount <= r.child.payments

RequestSound(r) ==
  /\ r.pc = "write"  => WriteSound(r)
  /\ r.pc = "gather" => GatherSound(r)
  /\ r.pc = "insert" => /\ r.child.life = "stored" /\ ChildSound(r.child)
                        /\ ~r.byHand => r.child.paid_amount <= r.child.payments
  /\ r.pc = "delete" => r.bill \in Bills /\ ~r.old.locked
  /\ r.pc \in {"replaceInvoice", "payInvoice", "deleteInvoice"} => Editable(r.invoice)

ShopInv == /\ TypeOK
           /\ \A b \in Bills : BillSound(b)
           /\ \A s \in Slots : RequestSound(request[s])
           /\ invoice.life = "unborn" => Editable(invoice)
=============================================================================
