---------------------------- MODULE ShopBills_proofs ----------------------------
(***************************************************************************)
(* Theorems about ShopBills, for every value of its constants.  There are  *)
(* some forty handlers; each of them starts a request whose document in    *)
(* hand is sound (RequestSound), and the few writes that follow keep every *)
(* bill sound, whatever was written since the request has read it.         *)
(***************************************************************************)
EXTENDS ShopBillsInv, SumTheorems, TLAPS

-----------------------------------------------------------------------------
(* Money and items. *)

LEMMA ClampedType == ASSUME NEW n \in Int PROVE AtLeastZero(n) \in Nat
  BY DEF AtLeastZero

LEMMA PricesAreNumbers == \A p \in Prices : p \in Int
  BY MoneyAssumption

(* What a bill may hold before the bound on its lines is looked at.          *)
Loose == [Prices -> Nat]

LEMMA SumsType ==
  ASSUME NEW items \in Loose
  PROVE  Amount(items) \in Int /\ Lines(items) \in Nat
<1>1. \A p \in Prices : p * items[p] \in Int
  <2> TAKE p \in Prices
  <2>1. p \in Int /\ items[p] \in Int
    BY PricesAreNumbers DEF Loose
  <2> QED BY <2>1
<1> DEFINE F == [p \in Prices |-> p * items[p]]
           G == [p \in Prices |-> items[p]]
<1>2. \A p \in Prices : F[p] \in Int
  BY <1>1
<1>3. \A p \in Prices : G[p] \in Nat
  BY DEF Loose
<1> HIDE DEF F, G
<1>4. SumFunctionOnSet(F, Prices) \in Int /\ SumFunctionOnSet(G, Prices) \in Nat
  BY <1>2, <1>3, SumType, SumNat, MoneyAssumption
<1> QED BY <1>4 DEF Amount, Lines, F, G

(* A bill of few lines has few of each item.                                 *)
LEMMA FewLines ==
  ASSUME NEW items \in Loose, Lines(items) <= MaxLines
  PROVE  items \in Items
<1> DEFINE G == [p \in Prices |-> items[p]]
<1>1. \A p \in Prices : G[p] \in Nat /\ G[p] = items[p]
  BY DEF Loose
<1>2. Lines(items) = SumFunctionOnSet(G, Prices)
  BY DEF Lines
<1>3. ASSUME NEW p \in Prices PROVE items[p] \in 0..MaxLines
  <2> HIDE DEF G
  <2>1. IsFiniteSet(Prices) /\ \A q \in Prices : G[q] \in Int
    BY <1>1, MoneyAssumption
  <2>2. SumFunctionOnSet(G, Prices) = G[p] + SumFunctionOnSet(G, Prices \ {p})
    BY <2>1, SumRemove
  <2>3. IsFiniteSet(Prices \ {p})
    BY <2>1, FS_Subset
  <2>4. SumFunctionOnSet(G, Prices \ {p}) \in Nat
    BY <1>1, <2>3, SumNat
  <2>5. G[p] \in Nat /\ G[p] = items[p] /\ MaxLines \in Nat
    BY <1>1, BoundsAssumption
  <2> QED BY <1>2, <2>2, <2>4, <2>5
<1> QED BY <1>3 DEF Loose, Items

LEMMA ItemsAreLoose == ASSUME NEW items \in Items PROVE items \in Loose
  BY BoundsAssumption DEF Items, Loose

LEMMA ItemChanges ==
  ASSUME NEW items \in Items
  PROVE  /\ NoItems \in Items
         /\ \A p \in Prices : [items EXCEPT ![p] = @ + 1] \in Loose
         /\ \A p \in Prices : items[p] > 0 => [items EXCEPT ![p] = @ - 1] \in Loose
         /\ \A p, q \in Prices : items[p] > 0 /\ p # q =>
              [items EXCEPT ![p] = @ - 1, ![q] = @ + 1] \in Loose
         /\ \A part \in Parts(items) : part \in Items /\ Minus(items, part) \in Items
         /\ \A more \in Items : Plus(items, more) \in Loose
<1>1. MaxLines \in Nat /\ \A p \in Prices : items[p] \in 0..MaxLines
  BY BoundsAssumption DEF Items
<1>2. NoItems \in Items
  BY <1>1 DEF NoItems, Items
<1>3. \A p \in Prices : items[p] \in Nat /\ (items[p] > 0 => items[p] - 1 \in Nat)
                                         /\ items[p] + 1 \in Nat
  BY <1>1
<1>4. items \in Loose
  BY ItemsAreLoose
<1>5. \A p \in Prices : [items EXCEPT ![p] = @ + 1] \in Loose
  BY <1>3, <1>4 DEF Loose
<1>6. \A p \in Prices : items[p] > 0 => [items EXCEPT ![p] = @ - 1] \in Loose
  BY <1>3, <1>4 DEF Loose
<1>7. \A p, q \in Prices : items[p] > 0 /\ p # q =>
        [items EXCEPT ![p] = @ - 1, ![q] = @ + 1] \in Loose
  BY <1>3, <1>4 DEF Loose
<1>8. ASSUME NEW part \in Parts(items) PROVE part \in Items /\ Minus(items, part) \in Items
  <2>1. part \in Items /\ \A p \in Prices : part[p] \in 0..MaxLines /\ part[p] <= items[p]
    BY DEF Parts, Items
  <2>2. \A p \in Prices : items[p] - part[p] \in 0..MaxLines
    BY <1>1, <2>1
  <2> QED BY <2>1, <2>2 DEF Minus, Items
<1>9. ASSUME NEW more \in Items PROVE Plus(items, more) \in Loose
  <2>1. more \in Loose
    BY ItemsAreLoose
  <2> QED BY <1>4, <2>1 DEF Plus, Loose
<1> QED BY <1>2, <1>5, <1>6, <1>7, <1>8, <1>9

-----------------------------------------------------------------------------
(* Documents. *)

LooseDoc == [life: {"unborn", "stored", "deleted"},
             items: Loose,
             discounts: Int, transport_fee: Int, taxes: Int,
             total_amount: Int, grand_total: Int,
             paid_amount: Int, outstanding_amount: Int, payments: Nat,
             status: Statuses, payment_status: PaymentStatuses,
             locked: BOOLEAN, noted: BOOLEAN,
             envelope: {"whole", "torn", "garbled"}]

LEMMA DocsAreLoose == ASSUME NEW doc \in Doc PROVE doc \in LooseDoc
<1>1. doc.items \in Loose
  BY ItemsAreLoose DEF Doc
<1> QED BY <1>1 DEF Doc, LooseDoc

LEMMA LooseFits ==
  ASSUME NEW doc \in LooseDoc, doc.items \in Items PROVE doc \in Doc
  BY DEF Doc, LooseDoc

LEMMA GrandTotalType == ASSUME NEW doc \in LooseDoc PROVE GrandTotal(doc) \in Nat
<1>1. Amount(doc.items) \in Int
  BY SumsType DEF LooseDoc
<1>2. Amount(doc.items) - doc.discounts + doc.transport_fee + doc.taxes \in Int
  BY <1>1 DEF LooseDoc
<1> QED BY <1>2, ClampedType DEF GrandTotal

(* Recomputing the totals makes the amounts belong together.                 *)
LEMMA TotalledType ==
  ASSUME NEW doc \in LooseDoc
  PROVE  /\ Totalled(doc) \in LooseDoc
         /\ Adds(Totalled(doc))
         /\ Totalled(doc).total_amount = Amount(doc.items)
         /\ Totalled(doc).grand_total = GrandTotal(doc)
         /\ Totalled(doc).outstanding_amount = GrandTotal(doc) - doc.paid_amount
         /\ Totalled(doc).life = doc.life /\ Totalled(doc).items = doc.items
         /\ Totalled(doc).discounts = doc.discounts
         /\ Totalled(doc).transport_fee = doc.transport_fee
         /\ Totalled(doc).taxes = doc.taxes
         /\ Totalled(doc).paid_amount = doc.paid_amount
         /\ Totalled(doc).payments = doc.payments
         /\ Totalled(doc).envelope = doc.envelope
         /\ Totalled(doc).locked = doc.locked
<1> DEFINE amount == Amount(doc.items)
           grand == GrandTotal(doc)
           new == Totalled(doc)
<1>1. amount \in Int /\ grand \in Nat
  BY SumsType, GrandTotalType DEF LooseDoc
<1>2. new = [doc EXCEPT !.total_amount = amount, !.grand_total = grand,
                        !.outstanding_amount = grand - doc.paid_amount]
  BY DEF Totalled
<1> HIDE DEF amount, grand, new
<1>a. amount \in Int /\ grand \in Int /\ grand - doc.paid_amount \in Int
  BY <1>1 DEF LooseDoc
<1>b. new \in LooseDoc
  BY <1>2, <1>a, Zenon DEF LooseDoc
<1>3. /\ new \in LooseDoc
      /\ new.total_amount = amount /\ new.grand_total = grand
      /\ new.outstanding_amount = grand - doc.paid_amount
      /\ new.life = doc.life /\ new.items = doc.items
      /\ new.discounts = doc.discounts /\ new.transport_fee = doc.transport_fee
      /\ new.taxes = doc.taxes
      /\ new.paid_amount = doc.paid_amount /\ new.payments = doc.payments
      /\ new.envelope = doc.envelope /\ new.locked = doc.locked
  BY <1>2, <1>b DEF LooseDoc
<1>4. Amount(new.items) = amount
  BY <1>3 DEF amount
<1>5. GrandTotal(new) = grand
  BY <1>3 DEF GrandTotal, grand
<1>6. Adds(new)
  BY <1>3, <1>4, <1>5 DEF Adds
<1> QED BY <1>3, <1>6 DEF new, amount, grand

LEMMA UnbornType ==
  /\ Unborn \in Doc /\ Unborn \in LooseDoc
  /\ Unborn.life = "unborn" /\ Unborn.envelope = "whole"
  /\ Unborn.paid_amount = 0 /\ Unborn.payments = 0
<1>1. NoItems \in Items
  BY BoundsAssumption DEF NoItems, Items
<1>3. Unborn.items = NoItems
  BY DEF Unborn, NoItems
<1>4. Unborn \in Doc
  BY <1>1, <1>3, SMT DEF Unborn, Doc, Statuses, PaymentStatuses
<1>5. Unborn \in LooseDoc
  BY <1>4, DocsAreLoose
<1> QED BY <1>4, <1>5 DEF Unborn

LEMMA NoInvoiceType == NoInvoice \in Invoice /\ Editable(NoInvoice)
<1>1. AnyPaper \in Papers
  BY PapersAssumption DEF AnyPaper
<1> QED BY <1>1 DEF NoInvoice, Invoice, Editable

LEMMA IdleType == IdleRequest \in Request /\ RequestSound(IdleRequest)
<1>1. IdleRequest \in Request
  BY UnbornType, NoInvoiceType DEF IdleRequest, Request
<1> QED BY <1>1 DEF IdleRequest, RequestSound

LEMMA NewBillType ==
  ASSUME NEW items \in Items, NEW discounts \in Int
  PROVE  /\ NewBill(items, discounts) \in Doc
         /\ NewBill(items, discounts).life = "stored"
         /\ Readable(NewBill(items, discounts))
         /\ Adds(NewBill(items, discounts))
         /\ NewBill(items, discounts).paid_amount = 0
         /\ NewBill(items, discounts).payments = 0
<1> DEFINE doc == [Unborn EXCEPT !.life = "stored", !.items = items, !.discounts = discounts]
<1>1. items \in Loose
  BY ItemsAreLoose
<1>2. doc \in LooseDoc
  BY <1>1, UnbornType DEF LooseDoc
<1>3. /\ doc.life = "stored" /\ doc.items = items /\ doc.envelope = "whole"
      /\ doc.paid_amount = 0 /\ doc.payments = 0
  BY UnbornType DEF LooseDoc
<1>4. NewBill(items, discounts) = Totalled(doc)
  BY DEF NewBill
<1> HIDE DEF doc
<1>5. Totalled(doc) \in LooseDoc /\ Totalled(doc).items = items
  BY <1>2, <1>3, TotalledType
<1>6. Totalled(doc) \in Doc
  BY <1>5, LooseFits
<1> QED BY <1>2, <1>3, <1>4, <1>6, TotalledType DEF Readable

LEMMA EncryptedType ==
  ASSUME NEW doc \in Doc
  PROVE  /\ Encrypted(doc) \in Doc
         /\ Readable(Encrypted(doc)) <=> Readable(doc)
         /\ Adds(doc) => Adds(Encrypted(doc))
         /\ Billed(Encrypted(doc)) = Billed(doc)
         /\ Encrypted(doc).payments = doc.payments
         /\ Encrypted(doc).paid_amount = doc.paid_amount
<1> DEFINE envelope == IF Readable(doc) THEN "whole" ELSE "garbled"
           new == Encrypted(doc)
<1>1. new = [doc EXCEPT !.envelope = envelope]
  BY DEF Encrypted
<1>2. envelope \in {"whole", "torn", "garbled"} /\ (envelope = "whole" <=> Readable(doc))
  OBVIOUS
<1> HIDE DEF envelope, new
<1>3. new \in Doc
  BY <1>1, <1>2 DEF Doc
<1>4. /\ new.envelope = envelope
      /\ new.total_amount = doc.total_amount /\ new.grand_total = doc.grand_total
      /\ new.outstanding_amount = doc.outstanding_amount
      /\ new.paid_amount = doc.paid_amount /\ new.payments = doc.payments
      /\ new.items = doc.items /\ new.discounts = doc.discounts
      /\ new.transport_fee = doc.transport_fee /\ new.taxes = doc.taxes
      /\ new.payment_status = doc.payment_status
  BY <1>1 DEF Doc
<1>5. GrandTotal(new) = GrandTotal(doc)
  BY <1>4 DEF GrandTotal
<1>6. Billed(new) = Billed(doc)
  BY <1>4 DEF Billed
<1>7. Adds(doc) => Adds(new)
  BY <1>4, <1>5 DEF Adds
<1>8. Readable(new) <=> Readable(doc)
  BY <1>2, <1>4 DEF Readable
<1> QED BY <1>3, <1>4, <1>6, <1>7, <1>8 DEF new

LEMMA WholeFields ==
  ASSUME NEW doc \in Doc
  PROVE  /\ Fields \ {"payments"} \subseteq WholeDocument(doc)
         /\ WholeDocument(doc) \subseteq Fields
         /\ "payments" \notin WholeDocument(doc) => doc.payments = 0
<1>1. "payments" \in Fields
  BY DEF Fields, Unborn
<1> QED BY <1>1 DEF WholeDocument

-----------------------------------------------------------------------------
(* How a request starts: with a document that is sound to write whenever.    *)
Starts(s, req) ==
  /\ request' = [request EXCEPT ![s] = req]
  /\ started' = started + 1
  /\ UNCHANGED <<bills, invoice, byHand>>
  /\ patched \subseteq patched' /\ patched' \subseteq Bills
  /\ RequestSound(req)'

StartsOne(s) == \E req \in Request : Starts(s, req)

LEMMA SubmitStarts ==
  ASSUME ShopInv, NEW s \in Slots, NEW req \in Request, Submit(s, req), RequestSound(req)
  PROVE  StartsOne(s)
<1>1. UNCHANGED <<bills, invoice, byHand, patched>>
  BY DEF Submit, Begin
<1>2. RequestSound(req)'
  BY <1>1 DEF RequestSound, WriteSound, GatherSound, WritesWhole, WritesLock, WritesPart,
              BackedWhenRead
<1>3. patched \subseteq Bills
  BY DEF ShopInv, TypeOK
<1>4. Starts(s, req)
  BY <1>1, <1>2, <1>3 DEF Starts, Submit, Begin
<1> QED BY <1>4 DEF StartsOne

(* The document that a handler read.                                         *)
LEMMA ReadDoc ==
  ASSUME ShopInv, NEW b \in Bills
  PROVE  /\ bills[b] \in Doc /\ bills[b] \in LooseDoc /\ BillSound(b)
         /\ bills[b].items \in Items
<1>1. bills[b] \in Doc
  BY DEF ShopInv, TypeOK
<1> QED BY <1>1, DocsAreLoose DEF ShopInv, Doc

(* What a request has in hand before it writes a whole document.             *)
LEMMA RewritingSound ==
  ASSUME ShopInv, NEW b \in Bills, Stored(b), NEW new \in Doc, NEW credits \in BOOLEAN,
         new.envelope = bills[b].envelope,
         Readable(new) => Adds(new),
         ~bills[b].locked \/ Billed(new) = Billed(bills[b]),
         b \notin byHand /\ ~credits => new.paid_amount <= new.payments
  PROVE  LET req == [Rewriting(b, new) EXCEPT !.byHand = credits]
         IN /\ req \in Request /\ RequestSound(req)
            /\ req.pc = "write" /\ WriteSound(req)
            /\ req.bill = b /\ req.old = bills[b]
            /\ req.new = Encrypted(new) /\ req.fields = WholeDocument(new)
            /\ req.child = Unborn /\ req.byHand = credits
<1> DEFINE req == [Rewriting(b, new) EXCEPT !.byHand = credits]
           written == Encrypted(new)
           fields == WholeDocument(new)
<1>1. req = [IdleRequest EXCEPT !.pc = "write", !.bill = b, !.old = bills[b],
                                !.new = written, !.fields = fields, !.byHand = credits]
  BY DEF Rewriting, IdleRequest
<1>2. /\ bills[b] \in Doc /\ written \in Doc /\ fields \in SUBSET Fields
      /\ Readable(written) <=> Readable(new)
      /\ Readable(written) => Adds(written)
      /\ ~bills[b].locked \/ Billed(written) = Billed(bills[b])
      /\ b \notin byHand /\ ~credits => written.paid_amount <= written.payments
  BY ReadDoc, EncryptedType, WholeFields
<1>3. /\ Fields \ {"payments"} \subseteq fields /\ fields \subseteq Fields
      /\ "payments" \notin fields => written.payments = 0
  BY WholeFields, EncryptedType
<1>4. ~Readable(written) => b \in patched
  BY <1>2, ReadDoc DEF BillSound, Readable
<1> HIDE DEF req, written, fields
<1>5. /\ req \in Request /\ req.pc = "write" /\ req.bill = b /\ req.old = bills[b]
      /\ req.new = written /\ req.fields = fields /\ req.child = Unborn
      /\ req.byHand = credits
  <2>1. IdleRequest \in Request /\ IdleRequest.child = Unborn
    BY IdleType DEF IdleRequest
  <2>2. req \in Request
    BY <1>1, <1>2, <2>1 DEF Request
  <2> QED BY <1>1, <2>1, <2>2 DEF Request
<1>6. WritesWhole(req)
  BY <1>2, <1>3, <1>4, <1>5 DEF WritesWhole
<1>7. ChildSound(req.child) /\ req.child.paid_amount <= req.child.payments
  BY <1>5, UnbornType DEF ChildSound
<1>8. WriteSound(req)
  BY <1>2, <1>4, <1>5, <1>6, <1>7 DEF WriteSound
<1>9. RequestSound(req)
  BY <1>5, <1>8 DEF RequestSound
<1> QED BY <1>5, <1>8, <1>9 DEF req, written, fields

LEMMA AlreadyFalse ==
  ASSUME NEW r, r = [f \in DOMAIN r |-> r[f]], r.byHand = FALSE
  PROVE  [r EXCEPT !.byHand = FALSE] = r
  OBVIOUS

LEMMA PlainRewriting ==
  ASSUME NEW b, NEW new
  PROVE  [Rewriting(b, new) EXCEPT !.byHand = FALSE] = Rewriting(b, new)
<1> DEFINE req == Rewriting(b, new)
<1>1. req.byHand = FALSE /\ req = [f \in DOMAIN req |-> req[f]]
  BY DEF Rewriting, IdleRequest
<1> HIDE DEF req
<1>2. [req EXCEPT !.byHand = FALSE] = req
  BY <1>1, AlreadyFalse
<1> QED BY <1>2 DEF req

LEMMA PlainSound ==
  ASSUME ShopInv, NEW b \in Bills, Stored(b), NEW new \in Doc,
         new.envelope = bills[b].envelope,
         Readable(new) => Adds(new),
         ~bills[b].locked \/ Billed(new) = Billed(bills[b]),
         b \notin byHand => new.paid_amount <= new.payments
  PROVE  LET req == Rewriting(b, new)
         IN /\ req \in Request /\ req.pc = "write" /\ WriteSound(req)
            /\ req.bill = b /\ req.old = bills[b]
            /\ req.fields = WholeDocument(new)
            /\ req.child = Unborn /\ ~req.byHand
<1>1. PICK credits \in BOOLEAN : credits = FALSE
  OBVIOUS
<1> DEFINE req == [Rewriting(b, new) EXCEPT !.byHand = credits]
<1>2. b \notin byHand /\ ~credits => new.paid_amount <= new.payments
  OBVIOUS
<1>3. /\ req \in Request /\ req.pc = "write" /\ WriteSound(req)
      /\ req.bill = b /\ req.old = bills[b] /\ req.fields = WholeDocument(new)
      /\ req.child = Unborn /\ req.byHand = credits
  BY <1>2, RewritingSound
<1>4. req = Rewriting(b, new)
  BY <1>1, PlainRewriting
<1> HIDE DEF req
<1>5. /\ req \in Request /\ req.pc = "write" /\ WriteSound(req)
      /\ req.bill = b /\ req.old = bills[b] /\ req.fields = WholeDocument(new)
      /\ req.child = Unborn /\ ~req.byHand
  BY <1>1, <1>3
<1> QED BY <1>4, <1>5, Zenon

LEMMA RewriteStarts ==
  ASSUME ShopInv, NEW s \in Slots, NEW b \in Bills, NEW new \in Doc, NEW credits \in BOOLEAN,
         RewriteByHand(s, b, new, credits),
         new.envelope = bills[b].envelope,
         Readable(new) => Adds(new),
         ~bills[b].locked \/ Billed(new) = Billed(bills[b]),
         b \notin byHand /\ ~credits => new.paid_amount <= new.payments
  PROVE  StartsOne(s)
<1>1. Stored(b) /\ Submit(s, [Rewriting(b, new) EXCEPT !.byHand = credits])
  BY DEF RewriteByHand
<1> DEFINE req == [Rewriting(b, new) EXCEPT !.byHand = credits]
<1>2. req \in Request /\ RequestSound(req)
  BY <1>1, RewritingSound
<1> HIDE DEF req
<1> QED BY <1>1, <1>2, SubmitStarts DEF req

LEMMA PlainRewrite ==
  ASSUME NEW s, NEW b, NEW new, Rewrite(s, b, new)
  PROVE  RewriteByHand(s, b, new, FALSE)
  BY PlainRewriting DEF Rewrite, RewriteByHand

LEMMA RebillStarts ==
  ASSUME ShopInv, NEW s \in Slots, NEW b \in Bills, NEW new \in LooseDoc, Rebill(s, b, new),
         new.envelope = bills[b].envelope, new.paid_amount = bills[b].paid_amount,
         new.payments = bills[b].payments
  PROVE  StartsOne(s)
<1>1. /\ ~bills[b].locked /\ Lines(new.items) <= MaxLines
      /\ Stored(b) /\ RewriteByHand(s, b, Totalled(new), FALSE)
  BY PlainRewrite DEF Rebill, Unlocked, Rewrite
<1>2. new.items \in Items
  BY <1>1, FewLines DEF LooseDoc
<1>3. /\ Totalled(new) \in LooseDoc /\ Totalled(new).items = new.items
      /\ Adds(Totalled(new)) /\ Totalled(new).envelope = new.envelope
      /\ Totalled(new).paid_amount = new.paid_amount /\ Totalled(new).payments = new.payments
  BY TotalledType
<1>4. Totalled(new) \in Doc
  BY <1>2, <1>3, LooseFits
<1>5. b \notin byHand => Totalled(new).paid_amount <= Totalled(new).payments
  BY <1>1, <1>3, ReadDoc DEF BillSound
<1> QED BY <1>1, <1>3, <1>4, <1>5, RewriteStarts

LEMMA ByHandStarts ==
  ASSUME ShopInv, NEW s \in Slots, NEW new \in Doc, NEW credits \in BOOLEAN,
         InsertByHand(s, new, credits),
         new.life = "stored", Readable(new), Adds(new),
         ~credits => new.paid_amount <= new.payments
  PROVE  StartsOne(s)
<1> DEFINE req == [IdleRequest EXCEPT !.pc = "insert", !.child = new, !.byHand = credits]
<1>1. req \in Request /\ req.pc = "insert" /\ req.child = new /\ req.byHand = credits
  BY IdleType DEF Request
<1> HIDE DEF req
<1>2. RequestSound(req)
  BY <1>1 DEF RequestSound, ChildSound
<1>3. Submit(s, req)
  BY DEF InsertByHand, req
<1> QED BY <1>1, <1>2, <1>3, SubmitStarts

LEMMA InsertStarts ==
  ASSUME ShopInv, NEW s \in Slots, NEW new \in Doc, Insert(s, new),
         new.life = "stored", Readable(new), Adds(new), new.paid_amount <= new.payments
  PROVE  StartsOne(s)
<1> DEFINE req == [IdleRequest EXCEPT !.pc = "insert", !.child = new]
<1>a. req.byHand = FALSE /\ req = [f \in DOMAIN req |-> req[f]]
  BY DEF IdleRequest
<1>b. [IdleRequest EXCEPT !.pc = "insert", !.child = new, !.byHand = FALSE]
        = [req EXCEPT !.byHand = FALSE]
  BY DEF IdleRequest
<1>1. InsertByHand(s, new, FALSE)
  BY <1>a, <1>b, AlreadyFalse DEF Insert, InsertByHand
<1> QED BY <1>1, ByHandStarts

LEMMA CreateStarts ==
  ASSUME ShopInv, NEW s \in Slots, Create(s)
  PROVE  StartsOne(s)
<1>1. /\ \A items \in Orders : items \in Items
      /\ \A c \in Charges : c \in Int
      /\ NoItems \in Items /\ 0 \in Int
  BY OrdersAssumption, MoneyAssumption, BoundsAssumption DEF NoItems, Items
<1>2. CASE CreateBill(s)
  <2>1. PICK items \in Orders, discounts \in Charges, locked \in BOOLEAN :
          Insert(s, [NewBill(items, discounts) EXCEPT !.locked = locked])
    BY <1>2 DEF CreateBill
  <2> DEFINE bill == NewBill(items, discounts)
             new == [bill EXCEPT !.locked = locked]
  <2>2. bill \in Doc /\ bill.life = "stored" /\ Readable(bill) /\ Adds(bill)
        /\ bill.paid_amount = 0 /\ bill.payments = 0
    BY <1>1, <2>1, NewBillType
  <2> HIDE DEF bill
  <2>3. new \in Doc /\ new.life = "stored" /\ Readable(new) /\ Adds(new)
        /\ new.paid_amount <= new.payments
    <3>1. new \in Doc
      BY <2>2 DEF Doc
    <3>2. Readable(new) /\ new.life = "stored" /\ new.paid_amount = 0 /\ new.payments = 0
      BY <2>2 DEF Doc, Readable
    <3>3. GrandTotal(new) = GrandTotal(bill)
      BY <2>2 DEF Doc, GrandTotal
    <3>4. Adds(new)
      BY <2>2, <3>3 DEF Doc, Adds
    <3> QED BY <3>1, <3>2, <3>4
  <2>4. Insert(s, new)
    BY <2>1 DEF bill
  <2> HIDE DEF new
  <2> QED BY <2>3, <2>4, InsertStarts
<1>3. CASE QuickBill(s) \/ FromQuotation(s)
  <2>1. PICK items \in Orders \cup {NoItems} : Insert(s, NewBill(items, 0))
    BY <1>3 DEF QuickBill, FromQuotation
  <2>2. items \in Items
    BY <1>1, <2>1
  <2> QED BY <1>1, <2>1, <2>2, NewBillType, InsertStarts
<1>4. CASE ManualBill(s)
  <2>1. PICK items \in Orders, amount \in Entered \cup {0} :
          LET bill == NewBill(items, 0)
              paid == ClampPaid(bill, amount)
          IN InsertByHand(s, [bill EXCEPT !.payment_status = "PENDING", !.paid_amount = paid,
                                          !.outstanding_amount = bill.grand_total - paid],
                          paid > 0)
    BY <1>4 DEF ManualBill
  <2> DEFINE bill == NewBill(items, 0)
             paid == ClampPaid(bill, amount)
             rest == bill.grand_total - paid
             new == [bill EXCEPT !.payment_status = "PENDING", !.paid_amount = paid,
                                 !.outstanding_amount = rest]
  <2>2. bill \in Doc /\ bill.life = "stored" /\ Readable(bill) /\ Adds(bill)
        /\ bill.payments = 0
    BY <1>1, <2>1, NewBillType
  <2>3. InsertByHand(s, new, paid > 0) /\ (paid > 0) \in BOOLEAN
    BY <2>1
  <2>4. amount \in Int
    BY <2>1, MoneyAssumption
  <2> HIDE DEF bill
  <2>5. bill.grand_total \in Int /\ paid \in Int /\ rest \in Int
    BY <2>2, <2>4 DEF ClampPaid, AtLeastZero, Doc
  <2>6. rest = bill.grand_total - paid
    OBVIOUS
  <2> HIDE DEF paid, rest
  <2>7. new \in Doc
    BY <2>2, <2>5 DEF Doc, PaymentStatuses
  <2>8. /\ new.life = "stored" /\ Readable(new) /\ new.grand_total = bill.grand_total
        /\ new.total_amount = bill.total_amount /\ new.items = bill.items
        /\ new.discounts = bill.discounts /\ new.transport_fee = bill.transport_fee
        /\ new.taxes = bill.taxes
        /\ new.paid_amount = paid /\ new.outstanding_amount = rest /\ new.payments = 0
    BY <2>2 DEF Doc, Readable
  <2> HIDE DEF new
  <2>9. GrandTotal(new) = GrandTotal(bill)
    BY <2>8 DEF GrandTotal
  <2>10. Adds(new)
    BY <2>2, <2>5, <2>6, <2>8, <2>9 DEF Adds
  <2>11. ~(paid > 0) => new.paid_amount <= new.payments
    BY <2>5, <2>8
  <2> QED BY <2>3, <2>7, <2>8, <2>10, <2>11, ByHandStarts
<1> QED BY <1>2, <1>3, <1>4 DEF Create

LEMMA CopyStarts ==
  ASSUME ShopInv, NEW s \in Slots, NEW b \in Bills, Copy(s, b)
  PROVE  StartsOne(s)
<1>1. NoItems \in Items /\ 0 \in Int /\ bills[b].items \in Items
  BY ReadDoc, BoundsAssumption DEF NoItems, Items
<1>2. CASE DuplicateBill(s, b)
  <2>1. Insert(s, NewBill(bills[b].items, 0))
    BY <1>2 DEF DuplicateBill
  <2> QED BY <1>1, <2>1, NewBillType, InsertStarts
<1>3. CASE DuplicateOptions(s, b)
  <2>1. Insert(s, NewBill(NoItems, 0))
    BY <1>3 DEF DuplicateOptions
  <2> QED BY <1>1, <2>1, NewBillType, InsertStarts
<1>4. CASE CreditNote(s, b)
  <2>1. PICK amount \in Entered :
          InsertByHand(s, [Unborn EXCEPT !.life = "stored", !.total_amount = -amount,
                             !.grand_total = -amount, !.paid_amount = -amount,
                             !.status = "COMPLETED", !.payment_status = "PAID",
                             !.locked = TRUE, !.noted = TRUE],
                       amount < 0)
    BY <1>4 DEF CreditNote
  <2>2. amount \in Int /\ (amount < 0) \in BOOLEAN
    BY <2>1, MoneyAssumption
  <2> DEFINE sum == -amount
             new == [Unborn EXCEPT !.life = "stored", !.total_amount = sum,
                       !.grand_total = sum, !.paid_amount = sum, !.status = "COMPLETED",
                       !.payment_status = "PAID", !.locked = TRUE, !.noted = TRUE]
  <2>3. InsertByHand(s, new, amount < 0)
    BY <2>1
  <2>4. sum \in Int /\ (~(amount < 0) => sum <= 0)
    BY <2>2
  <2> HIDE DEF sum
  <2>5. new \in Doc
    BY <2>4, UnbornType DEF Doc, PaymentStatuses, Statuses
  <2>6. Unborn.outstanding_amount = 0 /\ Unborn.items = NoItems
    BY DEF Unborn, NoItems
  <2>7. /\ new.life = "stored" /\ Readable(new) /\ new.items = NoItems
        /\ new.total_amount = sum /\ new.grand_total = sum /\ new.paid_amount = sum
        /\ new.outstanding_amount = 0 /\ new.payments = 0
    BY <2>6, UnbornType DEF Doc, Readable
  <2> HIDE DEF new
  <2>8. Adds(new)
    BY <2>4, <2>7 DEF Adds
  <2>9. ~(amount < 0) => new.paid_amount <= new.payments
    BY <2>4, <2>7
  <2> QED BY <2>2, <2>3, <2>5, <2>7, <2>8, <2>9, ByHandStarts
<1> QED BY <1>2, <1>3, <1>4 DEF Copy

(* A change of one field of what is billed.                                  *)
SameMoney(new, doc) == /\ new.envelope = doc.envelope /\ new.paid_amount = doc.paid_amount
                       /\ new.payments = doc.payments

LEMMA FieldChanges ==
  ASSUME NEW doc \in LooseDoc
  PROVE  /\ \A items \in Loose : /\ [doc EXCEPT !.items = items] \in LooseDoc
                                 /\ [doc EXCEPT !.items = items].items = items
                                 /\ SameMoney([doc EXCEPT !.items = items], doc)
         /\ \A c \in Int : /\ [doc EXCEPT !.discounts = c] \in LooseDoc
                           /\ SameMoney([doc EXCEPT !.discounts = c], doc)
         /\ \A c \in Int : /\ [doc EXCEPT !.transport_fee = c] \in LooseDoc
                           /\ SameMoney([doc EXCEPT !.transport_fee = c], doc)
         /\ \A c \in Int : /\ [doc EXCEPT !.taxes = c] \in LooseDoc
                           /\ SameMoney([doc EXCEPT !.taxes = c], doc)
  BY DEF LooseDoc, SameMoney

LEMMA RebillsStart ==
  ASSUME ShopInv, NEW s \in Slots, NEW b \in Bills,
         \/ AddItem(s, b) \/ RemoveItem(s, b) \/ UpdateItem(s, b)
         \/ UpdateDiscount(s, b) \/ UpdateTransportFee(s, b) \/ UpdateTaxes(s, b)
  PROVE  StartsOne(s)
<1> DEFINE doc == bills[b]
<1>1. doc \in LooseDoc /\ doc.items \in Items
  BY ReadDoc
<1>2. \A c \in Charges : c \in Int
  BY MoneyAssumption
<1> HIDE DEF doc
<1>3. CASE AddItem(s, b)
  <2>1. PICK p \in Prices : Rebill(s, b, [doc EXCEPT !.items = [doc.items EXCEPT ![p] = @ + 1]])
    BY <1>1, <1>3 DEF AddItem, doc, LooseDoc
  <2>2. [doc.items EXCEPT ![p] = @ + 1] \in Loose
    BY <1>1, ItemChanges
  <2> QED BY <1>1, <2>1, <2>2, FieldChanges, RebillStarts DEF doc, SameMoney
<1>4. CASE RemoveItem(s, b)
  <2>1. PICK p \in Prices : /\ doc.items[p] > 0
                            /\ Rebill(s, b, [doc EXCEPT !.items = [doc.items EXCEPT ![p] = @ - 1]])
    BY <1>1, <1>4 DEF RemoveItem, doc, LooseDoc
  <2>2. [doc.items EXCEPT ![p] = @ - 1] \in Loose
    BY <1>1, <2>1, ItemChanges
  <2> QED BY <1>1, <2>1, <2>2, FieldChanges, RebillStarts DEF doc, SameMoney
<1>5. CASE UpdateItem(s, b)
  <2>1. PICK p \in Prices, q \in Prices :
          /\ doc.items[p] > 0 /\ p # q
          /\ Rebill(s, b, [doc EXCEPT !.items[p] = @ - 1, !.items[q] = @ + 1])
    BY <1>5 DEF UpdateItem, doc
  <2>2. [doc EXCEPT !.items[p] = @ - 1, !.items[q] = @ + 1]
          = [doc EXCEPT !.items = [doc.items EXCEPT ![p] = @ - 1, ![q] = @ + 1]]
    BY <1>1 DEF LooseDoc
  <2>3. [doc.items EXCEPT ![p] = @ - 1, ![q] = @ + 1] \in Loose
    BY <1>1, <2>1, ItemChanges
  <2> QED BY <1>1, <2>1, <2>2, <2>3, FieldChanges, RebillStarts DEF doc, SameMoney
<1>6. CASE UpdateDiscount(s, b)
  <2>1. PICK c \in Charges : Rebill(s, b, [doc EXCEPT !.discounts = c])
    BY <1>6 DEF UpdateDiscount, doc
  <2> QED BY <1>1, <1>2, <2>1, FieldChanges, RebillStarts DEF doc, SameMoney
<1>7. CASE UpdateTransportFee(s, b)
  <2>1. PICK c \in Charges : Rebill(s, b, [doc EXCEPT !.transport_fee = c])
    BY <1>7 DEF UpdateTransportFee, doc
  <2> QED BY <1>1, <1>2, <2>1, FieldChanges, RebillStarts DEF doc, SameMoney
<1>8. CASE UpdateTaxes(s, b)
  <2>1. PICK c \in Charges : Rebill(s, b, [doc EXCEPT !.taxes = c])
    BY <1>8 DEF UpdateTaxes, doc
  <2> QED BY <1>1, <1>2, <2>1, FieldChanges, RebillStarts DEF doc, SameMoney
<1> QED BY <1>3, <1>4, <1>5, <1>6, <1>7, <1>8

LEMMA SplitStarts ==
  ASSUME ShopInv, NEW s \in Slots, NEW b \in Bills, SplitBill(s, b)
  PROVE  StartsOne(s)
<1>1. /\ Stored(b) /\ ~bills[b].locked /\ Readable(bills[b])
  BY DEF SplitBill, Unlocked
<1>2. PICK moved \in Parts(bills[b].items) :
        Submit(s, [Rewriting(b, Totalled([bills[b] EXCEPT !.items = Minus(@, moved)]))
                     EXCEPT !.child = NewBill(moved, 0)])
  BY DEF SplitBill
<1> DEFINE doc == bills[b]
           left == Minus(doc.items, moved)
           new == Totalled([doc EXCEPT !.items = left])
           whole == Rewriting(b, new)
           child == NewBill(moved, 0)
           req == [whole EXCEPT !.child = child]
<1>3. doc \in LooseDoc /\ doc.items \in Items
  BY ReadDoc
<1>4. moved \in Items /\ left \in Items /\ left \in Loose
  BY <1>2, <1>3, ItemChanges, ItemsAreLoose
<1>5. Submit(s, req)
  BY <1>2
<1>6. /\ new \in LooseDoc /\ new.items = left /\ Adds(new) /\ SameMoney(new, doc)
  <2> DEFINE loose == [doc EXCEPT !.items = left]
  <2> HIDE DEF left, doc
  <2>1. loose \in LooseDoc /\ loose.items = left /\ SameMoney(loose, doc)
    BY <1>3, <1>4, FieldChanges
  <2>2. new = Totalled(loose)
    OBVIOUS
  <2> HIDE DEF loose, new
  <2> QED BY <2>1, <2>2, TotalledType DEF SameMoney
<1>7. new \in Doc
  BY <1>4, <1>6, LooseFits
<1>8. /\ child \in Doc /\ child.life = "stored" /\ Readable(child) /\ Adds(child)
      /\ child.paid_amount <= child.payments
  BY <1>4, NewBillType
<1> HIDE DEF new, child
<1>a. b \notin byHand => new.paid_amount <= new.payments
  BY <1>1, <1>6, ReadDoc DEF BillSound, SameMoney
<1>b. new.envelope = bills[b].envelope
  BY <1>6 DEF SameMoney
<1>9. /\ whole \in Request /\ whole.pc = "write" /\ WriteSound(whole)
  BY <1>1, <1>6, <1>7, <1>a, <1>b, PlainSound
<1> HIDE DEF whole
<1>10. req \in Request
  BY <1>8, <1>9 DEF Request
<1>11. /\ req.pc = "write" /\ req.child = child /\ req.bill = whole.bill /\ req.old = whole.old
       /\ req.new = whole.new /\ req.fields = whole.fields /\ req.byHand = whole.byHand
  BY <1>9 DEF Request
<1> HIDE DEF req
<1>12. ChildSound(req.child) /\ req.child.paid_amount <= req.child.payments
  BY <1>8, <1>11 DEF ChildSound
<1>13. WriteSound(req)
  BY <1>9, <1>11, <1>12
     DEF WriteSound, WritesWhole, WritesLock, WritesPart, Readable
<1>14. RequestSound(req)
  BY <1>11, <1>13 DEF RequestSound
<1> QED BY <1>5, <1>10, <1>14, SubmitStarts

LEMMA MergeStarts ==
  ASSUME ShopInv, NEW s \in Slots, NEW b \in Bills, BeginMerge(s, b)
  PROVE  StartsOne(s)
<1> DEFINE doc == bills[b]
           whole == Rewriting(b, doc)
           req == [whole EXCEPT !.pc = "gather"]
<1>1. /\ Stored(b) /\ ~doc.locked /\ Readable(doc) /\ Submit(s, req)
  BY DEF BeginMerge, Unlocked
<1>2. doc \in Doc /\ BillSound(b)
  BY ReadDoc
<1>3. Adds(doc)
  BY <1>1, <1>2 DEF BillSound
<1>a. b \notin byHand => doc.paid_amount <= doc.payments
  BY <1>1, <1>2 DEF BillSound
<1>4. /\ whole \in Request /\ whole.bill = b /\ whole.old = doc
      /\ whole.fields = WholeDocument(doc) /\ whole.child = Unborn
  BY <1>1, <1>2, <1>3, <1>a, PlainSound
<1> HIDE DEF whole, doc
<1>5. /\ req \in Request
      /\ req.pc = "gather" /\ req.bill = b /\ req.old = doc
      /\ req.fields = WholeDocument(doc) /\ req.child = Unborn
  BY <1>4 DEF Request
<1> HIDE DEF req
<1>6. GatherSound(req)
  BY <1>1, <1>2, <1>a, <1>5, WholeFields, UnbornType DEF GatherSound, BackedWhenRead
<1>7. RequestSound(req)
  BY <1>5, <1>6 DEF RequestSound
<1> QED BY <1>1, <1>5, <1>7, SubmitStarts

(* PATCH: its fields are those of the body and the totals.                   *)
LEMMA PatchStarts ==
  ASSUME ShopInv, NEW s \in Slots, NEW b \in Bills, PatchBill(s, b)
  PROVE  StartsOne(s)
<1> DEFINE doc == bills[b]
<1>1. doc \in Doc /\ doc \in LooseDoc /\ BillSound(b)
  BY ReadDoc
<1>2. /\ Stored(b) /\ ~doc.locked /\ patched' = patched \cup {b}
  BY DEF PatchBill, Unlocked
<1>3. PICK patch \in Patches :
        LET document == [f \in DOMAIN doc |-> IF f \in DOMAIN patch THEN patch[f] ELSE doc[f]]
        IN Begin(s, [IdleRequest EXCEPT
             !.pc = "write", !.bill = b, !.old = doc,
             !.new = [Totalled(document) EXCEPT !.envelope = "torn"],
             !.fields = DOMAIN patch \cup
               {"total_amount", "grand_total", "outstanding_amount", "envelope"}])
  BY DEF PatchBill
<1> DEFINE document == [f \in DOMAIN doc |-> IF f \in DOMAIN patch THEN patch[f] ELSE doc[f]]
           new == [Totalled(document) EXCEPT !.envelope = "torn"]
           fields == DOMAIN patch \cup
                       {"total_amount", "grand_total", "outstanding_amount", "envelope"}
           req == [IdleRequest EXCEPT !.pc = "write", !.bill = b, !.old = doc,
                                      !.new = new, !.fields = fields]
<1>4. Begin(s, req)
  BY <1>3
<1>5. Fits(patch)
  BY PatchesAssumption
<1>6. DOMAIN doc = Fields \cup {"life"} /\ DOMAIN doc = DOMAIN Unborn
  BY <1>1 DEF Doc, Fields, Unborn
<1>7. document \in Doc
  <2> HIDE DEF doc
  <2>1. /\ document.life = doc.life /\ document.total_amount = doc.total_amount
        /\ document.grand_total = doc.grand_total /\ document.paid_amount = doc.paid_amount
        /\ document.outstanding_amount = doc.outstanding_amount
        /\ document.payments = doc.payments /\ document.envelope = doc.envelope
    BY <1>1, <1>5, <1>6 DEF Doc, Fits, Unborn
  <2>2. document.items \in Items
    BY <1>1, <1>5, <1>6 DEF Doc, Fits, Unborn
  <2>3. document.discounts \in Int /\ document.transport_fee \in Int /\ document.taxes \in Int
    BY <1>1, <1>5, <1>6 DEF Doc, Fits, Unborn
  <2>4. document.status \in Statuses /\ document.payment_status \in PaymentStatuses
    BY <1>1, <1>5, <1>6 DEF Doc, Fits, Unborn
  <2>5. document.locked \in BOOLEAN /\ document.noted \in BOOLEAN
    BY <1>1, <1>5, <1>6 DEF Doc, Fits, Unborn
  <2>6. DOMAIN document = DOMAIN Unborn
    BY <1>6
  <2>7. document = [f \in DOMAIN Unborn |-> document[f]]
    BY <2>6
  <2> HIDE DEF document
  <2> QED BY <1>1, <2>1, <2>2, <2>3, <2>4, <2>5, <2>7 DEF Doc, Unborn
<1>8. /\ Totalled(document) \in LooseDoc /\ Totalled(document).items = document.items
  <2>1. document \in LooseDoc
    BY <1>7, DocsAreLoose
  <2> HIDE DEF document
  <2> QED BY <2>1, TotalledType
<1>9. Totalled(document) \in Doc
  <2>1. document.items \in Items
    BY <1>7 DEF Doc
  <2> HIDE DEF document
  <2> QED BY <1>8, <2>1, LooseFits
<1>10. new \in Doc /\ new.envelope = "torn"
  <2> HIDE DEF document
  <2> QED BY <1>9 DEF Doc
<1>11. fields \in SUBSET Fields /\ "envelope" \in fields
       /\ fields \cap {"life", "paid_amount", "payments"} = {}
  BY <1>5 DEF Fits, Fields, Unborn
<1> HIDE DEF new, fields
<1>12. /\ req \in Request /\ req.pc = "write" /\ req.bill = b /\ req.old = doc
       /\ req.new = new /\ req.fields = fields /\ req.child = Unborn
  <2>1. IdleRequest \in Request /\ IdleRequest.child = Unborn
    BY IdleType DEF IdleRequest
  <2>2. req \in Request
    BY <1>1, <1>10, <1>11, <2>1 DEF Request
  <2> QED BY <2>1, <2>2 DEF Request
<1>13. /\ UNCHANGED <<bills, invoice, byHand>> /\ started' = started + 1
       /\ request' = [request EXCEPT ![s] = req]
  BY <1>4 DEF Begin
<1>14. patched \subseteq patched' /\ patched' \subseteq Bills /\ b \in patched'
  BY <1>2 DEF ShopInv, TypeOK
<1> HIDE DEF req, doc
<1>16. PICK r \in Request : r = req
  BY <1>12
<1>17. /\ r.pc = "write" /\ r.bill = b /\ ~r.old.locked /\ r.child = Unborn
       /\ r.new.envelope = "torn" /\ "envelope" \in r.fields
       /\ r.fields \cap {"life", "paid_amount", "payments"} = {}
  BY <1>2, <1>10, <1>11, <1>12, <1>16
<1>18. WritesPart(r)'
  BY <1>14, <1>17 DEF WritesPart
<1>20. ChildSound(r.child) /\ r.child.paid_amount <= r.child.payments
  BY <1>17, UnbornType DEF ChildSound
<1>21. WriteSound(r)'
  BY <1>17, <1>18, <1>20 DEF WriteSound
<1>22. RequestSound(r)'
  BY <1>17, <1>21 DEF RequestSound
<1>23. Starts(s, r)
  BY <1>13, <1>14, <1>16, <1>22 DEF Starts
<1> QED BY <1>23 DEF StartsOne

(* A change of the document that leaves what is billed alone.                *)
Unbilled(doc, new) ==
  /\ new \in Doc /\ new.envelope = doc.envelope
  /\ new.items = doc.items /\ new.discounts = doc.discounts
  /\ new.transport_fee = doc.transport_fee /\ new.taxes = doc.taxes
  /\ new.total_amount = doc.total_amount /\ new.grand_total = doc.grand_total

LEMMA UnbilledStarts ==
  ASSUME ShopInv, NEW s \in Slots, NEW b \in Bills, NEW new, NEW credits \in BOOLEAN,
         RewriteByHand(s, b, new, credits),
         Unbilled(bills[b], new),
         Adds(bills[b]) =>
           \/ new.outstanding_amount = new.grand_total - new.paid_amount
           \/ /\ new.outstanding_amount = new.grand_total - new.paid_amount + 1
              /\ new.payment_status \in Settled,
         ~credits /\ bills[b].paid_amount <= bills[b].payments
           => new.paid_amount <= new.payments
  PROVE  StartsOne(s)
<1> DEFINE doc == bills[b]
<1>1. doc \in Doc /\ BillSound(b) /\ Stored(b)
  BY ReadDoc DEF RewriteByHand
<1>2. GrandTotal(new) = GrandTotal(doc) /\ Billed(new) = Billed(doc)
  BY DEF Unbilled, GrandTotal, Billed
<1>3. Readable(new) <=> Readable(doc)
  BY DEF Unbilled, Readable
<1>4. Readable(new) => Adds(new)
  BY <1>1, <1>2, <1>3 DEF BillSound, Adds, Unbilled
<1>5. b \notin byHand /\ ~credits => new.paid_amount <= new.payments
  BY <1>1 DEF BillSound
<1> QED BY <1>2, <1>4, <1>5, RewriteStarts DEF Unbilled

LEMMA PaymentStarts ==
  ASSUME ShopInv, NEW s \in Slots, NEW b \in Bills, RecordPayment(s, b)
  PROVE  StartsOne(s)
<1> DEFINE bill == bills[b]
<1>1. PICK amount \in Amounts :
        LET paid == bill.paid_amount + amount
            rest == bill.grand_total - paid
        IN /\ bill.payment_status \notin {"PAID", "CANCELLED", "REFUNDED"}
           /\ amount <= bill.outstanding_amount + 1
           /\ Rewrite(s, b, [bill EXCEPT
                !.paid_amount = paid, !.outstanding_amount = AtLeastZero(rest),
                !.payment_status = IF rest < 1 THEN "PAID"
                                   ELSE IF paid > 0 THEN "PARTIALLY_PAID" ELSE @,
                !.payments = @ + amount])
  BY DEF RecordPayment
<1>2. bill \in Doc
  BY ReadDoc
<1>3. amount \in Nat
  BY <1>1, MoneyAssumption
<1> HIDE DEF bill
<1> DEFINE paid == bill.paid_amount + amount
           rest == bill.grand_total - paid
           left == AtLeastZero(rest)
           status == IF rest < 1 THEN "PAID"
                     ELSE IF paid > 0 THEN "PARTIALLY_PAID" ELSE bill.payment_status
           sum == bill.payments + amount
           new == [bill EXCEPT !.paid_amount = paid, !.outstanding_amount = left,
                               !.payment_status = status, !.payments = sum]
<1>4. /\ bill.payment_status \notin Settled /\ amount <= bill.outstanding_amount + 1
      /\ Rewrite(s, b, new)
  BY <1>1 DEF Settled
<1>5. /\ paid \in Int /\ rest \in Int /\ sum \in Nat /\ bill.outstanding_amount \in Int
      /\ bill.grand_total \in Int /\ bill.paid_amount \in Int
  BY <1>2, <1>3 DEF Doc
<1>b. bill.paid_amount <= bill.payments => paid <= sum
  BY <1>2, <1>3 DEF Doc
<1>6. status \in PaymentStatuses /\ (rest < 1 => status = "PAID")
  BY <1>2 DEF Doc, PaymentStatuses
<1>7. left \in Nat /\ left = IF rest < 0 THEN 0 ELSE rest
  BY <1>5, ClampedType DEF AtLeastZero
<1>8. bill.outstanding_amount = bill.grand_total - bill.paid_amount
        => \/ left = bill.grand_total - paid
           \/ left = bill.grand_total - paid + 1 /\ status \in Settled
  BY <1>3, <1>4, <1>5, <1>6, <1>7 DEF Settled
<1> HIDE DEF paid, rest, left, status, sum
<1>9. Unbilled(bill, new) /\ new.paid_amount = paid /\ new.outstanding_amount = left
      /\ new.payment_status = status /\ new.payments = sum
  <2>1. new \in Doc
    <3>1. left \in Int
      BY <1>7
    <3> QED BY <1>2, <1>5, <1>6, <3>1, Zenon DEF Doc
  <2> QED BY <1>2, <2>1 DEF Unbilled, Doc
<1>10. new.grand_total = bill.grand_total
  BY <1>9 DEF Unbilled
<1>a. RewriteByHand(s, b, new, FALSE) /\ FALSE \in BOOLEAN
  BY <1>4, PlainRewrite
<1>11. Adds(bill) => bill.outstanding_amount = bill.grand_total - bill.paid_amount
  BY <1>4 DEF Adds
<1> HIDE DEF new
<1>12. Adds(bill) =>
         \/ new.outstanding_amount = new.grand_total - new.paid_amount
         \/ /\ new.outstanding_amount = new.grand_total - new.paid_amount + 1
            /\ new.payment_status \in Settled
  BY <1>8, <1>9, <1>10, <1>11
<1>13. bill.paid_amount <= bill.payments => new.paid_amount <= new.payments
  BY <1>b, <1>9
<1> QED BY <1>a, <1>9, <1>12, <1>13, UnbilledStarts DEF bill

LEMMA RefundStarts ==
  ASSUME ShopInv, NEW s \in Slots, NEW b \in Bills, Refund(s, b)
  PROVE  StartsOne(s)
<1> DEFINE bill == bills[b]
<1>1. PICK amount \in Entered :
        LET paid == AtLeastZero(bill.paid_amount - amount)
            rest == bill.grand_total - paid
        IN RewriteByHand(s, b, [bill EXCEPT
             !.paid_amount = paid, !.outstanding_amount = rest, !.noted = TRUE,
             !.payment_status = IF rest <= 1 THEN "PAID"
                                ELSE IF paid > 0 THEN "PARTIALLY_PAID" ELSE "PENDING"],
             amount < 0)
  BY DEF Refund
<1>2. bill \in Doc
  BY ReadDoc
<1>3. amount \in Int /\ (amount < 0) \in BOOLEAN
  BY <1>1, MoneyAssumption
<1> HIDE DEF bill
<1> DEFINE paid == AtLeastZero(bill.paid_amount - amount)
           rest == bill.grand_total - paid
           status == IF rest <= 1 THEN "PAID"
                     ELSE IF paid > 0 THEN "PARTIALLY_PAID" ELSE "PENDING"
           new == [bill EXCEPT !.paid_amount = paid, !.outstanding_amount = rest, !.noted = TRUE,
                               !.payment_status = status]
<1>4. RewriteByHand(s, b, new, amount < 0)
  BY <1>1
<1>5. paid \in Nat /\ rest \in Int /\ rest = bill.grand_total - paid
  <2>1. bill.paid_amount - amount \in Int /\ bill.grand_total \in Int
    BY <1>2, <1>3 DEF Doc
  <2> QED BY <2>1, ClampedType
(* A refund of nothing below zero takes from the credit, down to nothing.    *)
<1>a. ~(amount < 0) /\ bill.paid_amount <= bill.payments => paid <= bill.payments
  BY <1>2, <1>3 DEF Doc, AtLeastZero
<1>6. status \in PaymentStatuses
  BY DEF PaymentStatuses
<1> HIDE DEF paid, rest, status
<1>7. Unbilled(bill, new) /\ new.paid_amount = paid /\ new.outstanding_amount = rest
      /\ new.grand_total = bill.grand_total /\ new.payments = bill.payments
  <2>1. new \in Doc
    <3>1. paid \in Int /\ TRUE \in BOOLEAN
      BY <1>5
    <3> QED BY <1>2, <1>5, <1>6, <3>1, Zenon DEF Doc
  <2> QED BY <1>2, <2>1 DEF Unbilled, Doc
<1> HIDE DEF new
<1>8. ~(amount < 0) /\ bill.paid_amount <= bill.payments => new.paid_amount <= new.payments
  BY <1>a, <1>7
<1> QED BY <1>3, <1>4, <1>5, <1>7, <1>8, UnbilledStarts DEF bill

LEMMA MarkPaidStarts ==
  ASSUME ShopInv, NEW s \in Slots, NEW b \in Bills, BulkMarkPaid(s, b)
  PROVE  StartsOne(s)
<1> DEFINE bill == bills[b]
           new == [bill EXCEPT !.paid_amount = bill.grand_total,
                               !.outstanding_amount = 0, !.payment_status = "PAID"]
<1>1. RewriteByHand(s, b, new, TRUE) /\ TRUE \in BOOLEAN
  BY DEF BulkMarkPaid
<1>2. bill \in Doc
  BY ReadDoc
<1> HIDE DEF bill
<1>3. Unbilled(bill, new)
  <2>1. new \in Doc
    <3>1. 0 \in Int /\ "PAID" \in PaymentStatuses /\ bill.grand_total \in Int
      BY <1>2 DEF Doc, PaymentStatuses
    <3> QED BY <1>2, <3>1, Zenon DEF Doc
  <2> QED BY <1>2, <2>1 DEF Unbilled, Doc
<1>4. new.outstanding_amount = 0 /\ new.paid_amount = new.grand_total /\ new.grand_total \in Int
  BY <1>2 DEF Doc
<1>5. new.outstanding_amount = new.grand_total - new.paid_amount
  BY <1>4
<1> HIDE DEF new
<1> QED BY <1>1, <1>3, <1>5, UnbilledStarts DEF bill

(* Handlers that leave the money alone as well.                              *)
LEMMA SameMoneyStarts ==
  ASSUME ShopInv, NEW s \in Slots, NEW b \in Bills, NEW new, Rewrite(s, b, new),
         Unbilled(bills[b], new),
         new.paid_amount = bills[b].paid_amount, new.payments = bills[b].payments,
         new.outstanding_amount = bills[b].outstanding_amount,
         \/ new.payment_status = bills[b].payment_status
         \/ new.payment_status \in Settled
         \/ bills[b].payment_status \notin Settled
  PROVE  StartsOne(s)
<1>1. RewriteByHand(s, b, new, FALSE) /\ FALSE \in BOOLEAN
  BY PlainRewrite
<1> QED BY <1>1, UnbilledStarts DEF Adds, Unbilled

LEMMA StateStarts ==
  ASSUME ShopInv, NEW s \in Slots, NEW b \in Bills,
         \/ ExpireOld(s, b) \/ ChangeStatus(s, b) \/ MarkDelivered(s, b) \/ BulkStatus(s, b)
         \/ BulkStatusNotes(s, b) \/ VoidBill(s, b) \/ UpdateNotes(s, b) \/ EditTags(s, b)
  PROVE  StartsOne(s)
<1> DEFINE doc == bills[b]
<1>1. doc \in Doc
  BY ReadDoc
<1>2. \E new : Rewrite(s, b, new) /\ Unbilled(doc, new)
         /\ new.paid_amount = doc.paid_amount /\ new.payments = doc.payments
         /\ new.outstanding_amount = doc.outstanding_amount
         /\ \/ new.payment_status = doc.payment_status
            \/ new.payment_status \in Settled
            \/ doc.payment_status \notin Settled
  <2> HIDE DEF doc
  <2>1. CASE ExpireOld(s, b)
    <3> DEFINE new == [doc EXCEPT !.payment_status = "OVERDUE"]
    <3>1. Rewrite(s, b, new) /\ doc.payment_status \notin Settled
      BY <2>1 DEF ExpireOld, doc, Settled
    <3>2. "OVERDUE" \in PaymentStatuses
      BY DEF PaymentStatuses
    <3>3. new \in Doc
      BY <1>1, <3>2, Zenon DEF Doc
    <3>4. Unbilled(doc, new) /\ new.paid_amount = doc.paid_amount
          /\ new.outstanding_amount = doc.outstanding_amount /\ new.payments = doc.payments
      BY <1>1, <3>3 DEF Unbilled, Doc
    <3> QED BY <3>1, <3>4
  <2>2. CASE ChangeStatus(s, b) \/ MarkDelivered(s, b) \/ BulkStatus(s, b)
    <3>1. PICK status \in Statuses : Rewrite(s, b, [doc EXCEPT !.status = status])
      BY <2>2 DEF ChangeStatus, MarkDelivered, BulkStatus, doc, Statuses
    <3> DEFINE new == [doc EXCEPT !.status = status]
    <3>2. new \in Doc
      BY <1>1, <3>1, Zenon DEF Doc
    <3>3. Unbilled(doc, new) /\ new.paid_amount = doc.paid_amount
          /\ new.outstanding_amount = doc.outstanding_amount /\ new.payments = doc.payments
          /\ new.payment_status = doc.payment_status
      BY <1>1, <3>2 DEF Unbilled, Doc
    <3> QED BY <3>1, <3>3
  <2>3. CASE BulkStatusNotes(s, b)
    <3> DEFINE new == [doc EXCEPT !.status = "DELIVERED", !.noted = TRUE]
    <3>1. Rewrite(s, b, new)
      BY <2>3 DEF BulkStatusNotes, doc
    <3>2. "DELIVERED" \in Statuses /\ TRUE \in BOOLEAN
      BY DEF Statuses
    <3>3. new \in Doc
      BY <1>1, <3>2, Zenon DEF Doc
    <3>4. Unbilled(doc, new) /\ new.paid_amount = doc.paid_amount
          /\ new.outstanding_amount = doc.outstanding_amount /\ new.payments = doc.payments
          /\ new.payment_status = doc.payment_status
      BY <1>1, <3>3 DEF Unbilled, Doc
    <3> QED BY <3>1, <3>4
  <2>4. CASE VoidBill(s, b)
    <3>1. PICK reason \in BOOLEAN :
            Rewrite(s, b, [doc EXCEPT !.status = "CANCELLED", !.payment_status = "CANCELLED",
                                      !.locked = TRUE, !.noted = @ \/ reason])
      BY <2>4 DEF VoidBill, doc
    <3> DEFINE noted == doc.noted \/ reason
               new == [doc EXCEPT !.status = "CANCELLED", !.payment_status = "CANCELLED",
                                  !.locked = TRUE, !.noted = noted]
    <3>2. Rewrite(s, b, new)
      BY <3>1
    <3>3. "CANCELLED" \in Statuses /\ "CANCELLED" \in PaymentStatuses /\ TRUE \in BOOLEAN
          /\ noted \in BOOLEAN /\ "CANCELLED" \in Settled
      BY DEF Statuses, PaymentStatuses, Settled
    <3> HIDE DEF noted
    <3>4. new \in Doc
      BY <1>1, <3>3, Zenon DEF Doc
    <3>5. Unbilled(doc, new) /\ new.paid_amount = doc.paid_amount
          /\ new.outstanding_amount = doc.outstanding_amount /\ new.payments = doc.payments
          /\ new.payment_status = "CANCELLED"
      BY <1>1, <3>4 DEF Unbilled, Doc
    <3> QED BY <3>2, <3>3, <3>5
  <2>5. CASE UpdateNotes(s, b)
    <3> DEFINE new == [doc EXCEPT !.noted = TRUE]
    <3>1. Rewrite(s, b, new)
      BY <2>5 DEF UpdateNotes, doc
    <3>2. TRUE \in BOOLEAN
      OBVIOUS
    <3>3. new \in Doc
      BY <1>1, <3>2, Zenon DEF Doc
    <3>4. Unbilled(doc, new) /\ new.paid_amount = doc.paid_amount
          /\ new.outstanding_amount = doc.outstanding_amount /\ new.payments = doc.payments
          /\ new.payment_status = doc.payment_status
      BY <1>1, <3>3 DEF Unbilled, Doc
    <3> QED BY <3>1, <3>4
  <2>6. CASE EditTags(s, b)
    <3>1. Rewrite(s, b, doc)
      BY <2>6 DEF EditTags, doc
    <3>2. Unbilled(doc, doc)
      BY <1>1 DEF Unbilled
    <3> QED BY <3>1, <3>2
  <2> QED BY <2>1, <2>2, <2>3, <2>4, <2>5, <2>6
<1> QED BY <1>2, SameMoneyStarts

LEMMA LockStarts ==
  ASSUME ShopInv, NEW s \in Slots, NEW b \in Bills, LockBill(s, b) \/ UnlockBill(s, b)
  PROVE  StartsOne(s)
<1> DEFINE doc == bills[b]
<1>1. doc \in Doc /\ BillSound(b)
  BY ReadDoc
<1>2. PICK locked \in BOOLEAN : SetLocked(s, b, locked)
  BY DEF LockBill, UnlockBill
<1> DEFINE new == [doc EXCEPT !.locked = locked]
           req == [IdleRequest EXCEPT !.pc = "write", !.bill = b, !.old = doc,
                                      !.new = new, !.fields = {"locked"}]
<1>3. Stored(b) /\ Submit(s, req)
  BY <1>2 DEF SetLocked
<1> HIDE DEF doc
<1>4. new \in Doc /\ Billed(new) = Billed(doc)
  BY <1>1, <1>2 DEF Doc, Billed
<1>5. {"locked"} \in SUBSET Fields
  BY DEF Fields, Unborn
<1> HIDE DEF new
<1>6. /\ req \in Request /\ req.pc = "write" /\ req.bill = b /\ req.old = doc
      /\ req.new = new /\ req.fields = {"locked"} /\ req.child = Unborn
  <2>1. IdleRequest \in Request /\ IdleRequest.child = Unborn
    BY IdleType DEF IdleRequest
  <2>2. req \in Request
    BY <1>1, <1>4, <1>5, <2>1 DEF Request
  <2> QED BY <2>1, <2>2 DEF Request
<1> HIDE DEF req
<1>7. WritesLock(req)
  BY <1>6 DEF WritesLock
<1>9. ChildSound(req.child) /\ req.child.paid_amount <= req.child.payments
  BY <1>6, UnbornType DEF ChildSound
<1>10. WriteSound(req)
  BY <1>4, <1>6, <1>7, <1>9 DEF WriteSound
<1>11. RequestSound(req)
  BY <1>6, <1>10 DEF RequestSound
<1> QED BY <1>3, <1>6, <1>11, SubmitStarts

LEMMA DeleteStarts ==
  ASSUME ShopInv, NEW s \in Slots, NEW b \in Bills, DeleteBill(s, b)
  PROVE  StartsOne(s)
<1> DEFINE doc == bills[b]
           whole == Rewriting(b, doc)
           req == [whole EXCEPT !.pc = "delete"]
<1>1. Stored(b) /\ ~doc.locked /\ Submit(s, req)
  BY DEF DeleteBill, Unlocked
<1>2. /\ doc \in Doc /\ (Readable(doc) => Adds(doc))
      /\ b \notin byHand => doc.paid_amount <= doc.payments
  BY <1>1, ReadDoc DEF BillSound
<1>3. whole \in Request /\ whole.bill = b /\ whole.old = doc
  BY <1>1, <1>2, PlainSound
<1> HIDE DEF whole, doc
<1>4. req \in Request /\ req.pc = "delete" /\ req.bill = b /\ req.old = doc
  BY <1>3 DEF Request
<1> HIDE DEF req
<1>5. RequestSound(req)
  BY <1>1, <1>4 DEF RequestSound
<1> QED BY <1>1, <1>4, <1>5, SubmitStarts

LEMMA InvoiceStarts ==
  ASSUME ShopInv, NEW s \in Slots, UpdateInvoice(s) \/ PayInvoice(s) \/ DeleteInvoice(s)
  PROVE  StartsOne(s)
<1>1. invoice \in Invoice
  BY DEF ShopInv, TypeOK
<1>2. PICK pc \in {"replaceInvoice", "payInvoice", "deleteInvoice"}, new \in Invoice :
        OnInvoice(s, pc, new) /\ Editable(new)
  <2>1. CASE UpdateInvoice(s)
    <3>1. PICK paper \in Papers : OnInvoice(s, "replaceInvoice", [invoice EXCEPT !.paper = paper])
      BY <2>1 DEF UpdateInvoice
    <3>2. [invoice EXCEPT !.paper = paper] \in Invoice
          /\ Editable([invoice EXCEPT !.paper = paper])
      BY <1>1, <2>1, <3>1 DEF UpdateInvoice, Editable, Invoice
    <3> QED BY <3>1, <3>2
  <2>2. CASE PayInvoice(s) \/ DeleteInvoice(s)
    BY <1>1, <2>2 DEF PayInvoice, DeleteInvoice
  <2> QED BY <2>1, <2>2
<1> DEFINE req == [IdleRequest EXCEPT !.pc = pc, !.invoice = new]
<1>3. req \in Request /\ req.pc = pc /\ req.invoice = new
  BY <1>2, IdleType DEF Request
<1>4. Submit(s, req)
  BY <1>2 DEF OnInvoice
<1> HIDE DEF req
<1>5. RequestSound(req)
  BY <1>2, <1>3 DEF RequestSound
<1> QED BY <1>3, <1>4, <1>5, SubmitStarts

(* Whatever the shop asks for: a sound request, or the invoice is created.   *)
LEMMA ReceiveStarts ==
  ASSUME ShopInv, Receive
  PROVE  /\ started < MaxRequests
         /\ CreateInvoice \/ \E s \in Slots : ~Active(s) /\ StartsOne(s)
<1>1. started < MaxRequests
  BY DEF Receive
<1>2. SUFFICES ASSUME ~CreateInvoice PROVE \E s \in Slots : ~Active(s) /\ StartsOne(s)
  BY <1>1
<1>3. PICK s \in Slots :
        /\ ~Active(s)
        /\ \/ Create(s) \/ UpdateInvoice(s) \/ PayInvoice(s) \/ DeleteInvoice(s)
           \/ \E b \in Bills : \/ Copy(s, b) \/ ChangeBilled(s, b)
                               \/ ChangePaid(s, b) \/ ChangeState(s, b)
  BY <1>2 DEF Receive
<1>4. ASSUME NEW b \in Bills, ChangeBilled(s, b) PROVE StartsOne(s)
  BY <1>4, PatchStarts, RebillsStart, SplitStarts, MergeStarts DEF ChangeBilled
<1>5. ASSUME NEW b \in Bills, ChangePaid(s, b) PROVE StartsOne(s)
  BY <1>5, PaymentStarts, RefundStarts, MarkPaidStarts, StateStarts DEF ChangePaid
<1>6. ASSUME NEW b \in Bills, ChangeState(s, b) PROVE StartsOne(s)
  BY <1>6, StateStarts, LockStarts, DeleteStarts DEF ChangeState
<1>7. ASSUME NEW b \in Bills, Copy(s, b) PROVE StartsOne(s)
  BY <1>7, CopyStarts
<1>8. StartsOne(s)
  BY <1>3, <1>4, <1>5, <1>6, <1>7, CreateStarts, InvoiceStarts
<1> QED BY <1>3, <1>8

-----------------------------------------------------------------------------
(* What the writes do. *)

(* The $set of some fields of a document.                                    *)
Mixed(doc, new, fields) == [f \in DOMAIN doc |-> IF f \in fields THEN new[f] ELSE doc[f]]

LEMMA MixedType ==
  ASSUME NEW doc \in Doc, NEW new \in Doc, NEW fields \in SUBSET Fields
  PROVE  /\ Mixed(doc, new, fields) \in Doc
         /\ Mixed(doc, new, fields).life = doc.life
         /\ \A f \in Fields : f \in fields => Mixed(doc, new, fields)[f] = new[f]
         /\ \A f \in Fields : f \notin fields => Mixed(doc, new, fields)[f] = doc[f]
<1> DEFINE mix == Mixed(doc, new, fields)
<1>1. DOMAIN doc = DOMAIN Unborn /\ DOMAIN Unborn = Fields \cup {"life"} /\ "life" \notin Fields
  BY DEF Doc, Fields, Unborn
<1>2. mix = [f \in DOMAIN Unborn |-> IF f \in fields THEN new[f] ELSE doc[f]]
  BY <1>1 DEF Mixed
<1> HIDE DEF mix
<1>3. /\ mix.life = doc.life
      /\ \A f \in Fields : f \in fields => mix[f] = new[f]
      /\ \A f \in Fields : f \notin fields => mix[f] = doc[f]
  BY <1>1, <1>2
<1>4. \A f \in DOMAIN Unborn : mix[f] = new[f] \/ mix[f] = doc[f]
  BY <1>2
<1>5. mix = [f \in DOMAIN Unborn |-> mix[f]]
  BY <1>2
<1>6. mix.life \in {"unborn", "stored", "deleted"} /\ mix.items \in Items
      /\ mix.envelope \in {"whole", "torn", "garbled"}
  BY <1>4 DEF Doc, Unborn
<1>7. mix.discounts \in Int /\ mix.transport_fee \in Int /\ mix.taxes \in Int
      /\ mix.payments \in Nat
  BY <1>4 DEF Doc, Unborn
<1>8. mix.total_amount \in Int /\ mix.grand_total \in Int /\ mix.paid_amount \in Int
      /\ mix.outstanding_amount \in Int
  BY <1>4 DEF Doc, Unborn
<1>9. mix.status \in Statuses /\ mix.payment_status \in PaymentStatuses
      /\ mix.locked \in BOOLEAN /\ mix.noted \in BOOLEAN
  BY <1>4 DEF Doc, Unborn
<1>10. mix \in Doc
  BY <1>5, <1>6, <1>7, <1>8, <1>9 DEF Doc, Unborn
<1> QED BY <1>3, <1>10 DEF mix

(* The requests that do not move stay sound: the history only grows.         *)
LEMMA OthersSound ==
  ASSUME byHand \subseteq byHand', patched \subseteq patched', NEW r, RequestSound(r)
  PROVE  RequestSound(r)'
  BY DEF RequestSound, WriteSound, GatherSound, WritesWhole, WritesLock, WritesPart,
         BackedWhenRead

LEMMA RequestsStaySound ==
  ASSUME ShopInv, NEW s \in Slots, NEW req \in Request,
         request' = [request EXCEPT ![s] = req], RequestSound(req)',
         byHand \subseteq byHand', patched \subseteq patched'
  PROVE  /\ request' \in [Slots -> Request]
         /\ (\A t \in Slots : RequestSound(request[t]))'
<1>1. request \in [Slots -> Request] /\ \A t \in Slots : RequestSound(request[t])
  BY DEF ShopInv, TypeOK
<1>2. request' \in [Slots -> Request]
  BY <1>1
<1>3. ASSUME NEW t \in Slots PROVE RequestSound(request[t])'
  <2>1. CASE t = s
    <3>1. request'[t] = req
      BY <1>1, <2>1
    <3> QED BY <3>1, Zenon DEF RequestSound, WriteSound, GatherSound, WritesWhole, WritesLock,
                        WritesPart, BackedWhenRead
  <2>2. CASE t # s
    <3>1. PICK r : r = request[t]
      OBVIOUS
    <3>2. RequestSound(r)' /\ request'[t] = r
      BY <1>1, <2>2, <3>1, OthersSound
    <3> QED BY <3>2, Zenon DEF RequestSound, WriteSound, GatherSound, WritesWhole, WritesLock,
                        WritesPart, BackedWhenRead
  <2> QED BY <2>1, <2>2
<1> QED BY <1>2, <1>3

(* A $set keeps a bill sound, whatever happened since the request read it.   *)
LEMMA SetSound ==
  ASSUME NEW doc \in Doc, NEW r \in Request, WriteSound(r), doc.life = "stored",
         Readable(doc) \/ r.bill \in patched, Readable(doc) => Adds(doc)
  PROVE  LET mix == Mixed(doc, r.new, r.fields)
         IN IF Readable(mix) THEN Adds(mix) ELSE r.bill \in patched
<1> DEFINE mix == Mixed(doc, r.new, r.fields)
<1>1. r.new \in Doc /\ r.fields \in SUBSET Fields
  BY DEF Request
<1>2. /\ mix \in Doc
      /\ \A f \in Fields : f \in r.fields => mix[f] = r.new[f]
      /\ \A f \in Fields : f \notin r.fields => mix[f] = doc[f]
  BY <1>1, MixedType
<1>3. {"items", "discounts", "transport_fee", "taxes", "total_amount", "grand_total",
       "paid_amount", "outstanding_amount", "payment_status", "envelope", "locked"}
        \subseteq Fields \ {"payments"}
  BY DEF Fields, Unborn
<1> HIDE DEF mix
<1>4. CASE WritesWhole(r)
  <2>1. /\ mix.items = r.new.items /\ mix.discounts = r.new.discounts
        /\ mix.transport_fee = r.new.transport_fee /\ mix.taxes = r.new.taxes
        /\ mix.total_amount = r.new.total_amount /\ mix.grand_total = r.new.grand_total
        /\ mix.paid_amount = r.new.paid_amount
        /\ mix.outstanding_amount = r.new.outstanding_amount
        /\ mix.payment_status = r.new.payment_status /\ mix.envelope = r.new.envelope
    BY <1>2, <1>3, <1>4 DEF WritesWhole
  <2>2. GrandTotal(mix) = GrandTotal(r.new)
    BY <2>1 DEF GrandTotal
  <2>3. Readable(mix) <=> Readable(r.new)
    BY <2>1 DEF Readable
  <2>4. Adds(r.new) => Adds(mix)
    BY <2>1, <2>2 DEF Adds
  <2> QED BY <1>4, <2>3, <2>4 DEF WritesWhole, mix
<1>5. CASE WritesLock(r)
  <2>1. /\ mix.items = doc.items /\ mix.discounts = doc.discounts
        /\ mix.transport_fee = doc.transport_fee /\ mix.taxes = doc.taxes
        /\ mix.total_amount = doc.total_amount /\ mix.grand_total = doc.grand_total
        /\ mix.paid_amount = doc.paid_amount
        /\ mix.outstanding_amount = doc.outstanding_amount
        /\ mix.payment_status = doc.payment_status /\ mix.envelope = doc.envelope
    BY <1>2, <1>3, <1>5 DEF WritesLock
  <2>2. GrandTotal(mix) = GrandTotal(doc)
    BY <2>1 DEF GrandTotal
  <2>3. Readable(mix) <=> Readable(doc)
    BY <2>1 DEF Readable
  <2>4. Adds(doc) => Adds(mix)
    BY <2>1, <2>2 DEF Adds
  <2> QED BY <2>3, <2>4 DEF mix
<1>6. CASE WritesPart(r)
  <2>1. mix.envelope = "torn" /\ r.bill \in patched
    BY <1>2, <1>3, <1>6 DEF WritesPart
  <2> QED BY <2>1 DEF Readable, mix
<1> QED BY <1>4, <1>5, <1>6 DEF WriteSound

(* ... and its paid amount backed, unless the request set it by hand.        *)
LEMMA SetBacked ==
  ASSUME NEW doc \in Doc, NEW r \in Request, WriteSound(r),
         doc.paid_amount <= doc.payments, r.bill \notin byHand, ~r.byHand
  PROVE  Mixed(doc, r.new, r.fields).paid_amount <= Mixed(doc, r.new, r.fields).payments
<1> DEFINE mix == Mixed(doc, r.new, r.fields)
<1>1. r.new \in Doc /\ r.fields \in SUBSET Fields
  BY DEF Request
<1>2. /\ \A f \in Fields : f \in r.fields => mix[f] = r.new[f]
      /\ \A f \in Fields : f \notin r.fields => mix[f] = doc[f]
  BY <1>1, MixedType
<1>3. "paid_amount" \in Fields /\ "payments" \in Fields
  BY DEF Fields, Unborn
<1>4. /\ doc.paid_amount \in Int /\ doc.payments \in Nat
      /\ r.new.paid_amount \in Int /\ r.new.payments \in Nat
  BY <1>1 DEF Doc
<1> HIDE DEF mix
<1>7. mix.paid_amount <= mix.payments
  <2>1. CASE WritesWhole(r)
    <3>1. mix.paid_amount = r.new.paid_amount
      BY <1>2, <1>3, <2>1 DEF WritesWhole
    <3>2. mix.payments = r.new.payments \/ (mix.payments = doc.payments /\ r.new.payments = 0)
      BY <1>2, <1>3, <2>1 DEF WritesWhole
    <3>3. r.new.paid_amount <= r.new.payments
      BY <2>1 DEF WritesWhole
    <3> QED BY <1>4, <3>1, <3>2, <3>3
  <2>2. CASE WritesLock(r) \/ WritesPart(r)
    <3>1. "paid_amount" \notin r.fields /\ "payments" \notin r.fields
      BY <2>2 DEF WritesLock, WritesPart
    <3>2. mix.paid_amount = doc.paid_amount /\ mix.payments = doc.payments
      BY <1>2, <1>3, <3>1
    <3> QED BY <3>2
  <2> QED BY <2>1, <2>2 DEF WriteSound
<1> QED BY <1>7 DEF mix

LEMMA WriteStep ==
  ASSUME ShopInv, NEW s \in Slots, Write(s)
  PROVE  ShopInv'
<1> DEFINE r == request[s]
<1>1. /\ r \in Request /\ r.pc = "write" /\ WriteSound(r) /\ r.bill \in Bills
  <2>1. r \in Request /\ RequestSound(r)
    BY DEF ShopInv, TypeOK
  <2>2. r.pc = "write"
    BY DEF Write
  <2> QED BY <2>1, <2>2 DEF RequestSound, WriteSound
<1>2. /\ bills \in [Bills -> Doc] /\ byHand \in SUBSET Bills /\ patched \in SUBSET Bills
      /\ invoice \in Invoice /\ started \in 0..MaxRequests
      /\ \A b \in Bills : BillSound(b)
      /\ invoice.life = "unborn" => Editable(invoice)
  BY DEF ShopInv, TypeOK
<1> DEFINE doc == bills[r.bill]
           mix == Mixed(doc, r.new, r.fields)
<1>3. /\ Stored(r.bill) => bills' = [bills EXCEPT ![r.bill] = mix]
      /\ ~Stored(r.bill) => bills' = bills
  BY <1>1, <1>2 DEF Write, Mixed
<1>4. /\ byHand' = IF Stored(r.bill) /\ r.byHand THEN byHand \cup {r.bill} ELSE byHand
      /\ UNCHANGED <<invoice, started, patched>>
  BY DEF Write
<1>5. r.new \in Doc /\ r.child \in Doc /\ r.fields \in SUBSET Fields /\ doc \in Doc
  BY <1>1, <1>2 DEF Request
<1>6. mix \in Doc /\ mix.life = doc.life
  BY <1>5, MixedType
<1>7. PICK req \in Request : request' = [request EXCEPT ![s] = req] /\ RequestSound(req)'
  <2>1. CASE r.child.life = "unborn"
    <3>1. request' = [request EXCEPT ![s] = IdleRequest]
      BY <2>1 DEF Write, Finish
    <3>2. RequestSound(IdleRequest)'
      BY DEF RequestSound, IdleRequest
    <3> QED BY <3>1, <3>2, IdleType
  <2>2. CASE r.child.life # "unborn"
    <3>1. PICK child \in Doc : child = r.child
      BY <1>5
    <3> DEFINE req == [IdleRequest EXCEPT !.pc = "insert", !.child = child]
    <3>2. request' = [request EXCEPT ![s] = req]
      BY <2>2, <3>1 DEF Write
    <3>3. req \in Request /\ req.pc = "insert" /\ req.child = child
      BY IdleType DEF Request
    <3> HIDE DEF req
    <3>4. PICK q \in Request : q = req
      BY <3>3
    <3>5. q.pc = "insert" /\ q.child = child
      BY <3>3, <3>4
    <3>6. ChildSound(r.child) /\ r.child.paid_amount <= r.child.payments
      BY <1>1 DEF WriteSound
    <3>7. ChildSound(child) /\ child.life = "stored" /\ child.paid_amount <= child.payments
      BY <2>2, <3>1, <3>6 DEF ChildSound
    <3>8. RequestSound(q)'
      BY <3>5, <3>7 DEF RequestSound
    <3> QED BY <3>2, <3>4, <3>8
  <2> QED BY <2>1, <2>2
<1> HIDE DEF r, doc, mix
<1>8. byHand \subseteq byHand' /\ patched \subseteq patched' /\ byHand' \in SUBSET Bills
  BY <1>1, <1>2, <1>4
<1>9. /\ request' \in [Slots -> Request]
      /\ (\A t \in Slots : RequestSound(request[t]))'
  BY <1>7, <1>8, RequestsStaySound
<1>10. bills' \in [Bills -> Doc]
  BY <1>2, <1>3, <1>6
<1>11. TypeOK'
  BY <1>2, <1>4, <1>8, <1>9, <1>10 DEF TypeOK
<1>12. ASSUME NEW b \in Bills PROVE BillSound(b)'
  <2>1. CASE b = r.bill /\ Stored(b)
    <3>1. bills'[b] = mix /\ doc = bills[b] /\ doc.life = "stored"
      BY <1>1, <1>2, <1>3, <2>1 DEF Stored, doc
    <3>2. BillSound(b)
      BY <1>2
    <3>3. IF Readable(mix) THEN Adds(mix) ELSE b \in patched
      BY <1>1, <1>5, <2>1, <3>1, <3>2, SetSound DEF BillSound, mix
    <3>4. b \notin byHand' => mix.paid_amount <= mix.payments
      <4>1. SUFFICES ASSUME b \notin byHand' PROVE mix.paid_amount <= mix.payments
        OBVIOUS
      <4>2. b \notin byHand /\ ~r.byHand
        BY <1>4, <2>1, <4>1
      <4>4. doc.paid_amount <= doc.payments
        BY <2>1, <3>1, <3>2, <4>2 DEF BillSound
      <4> QED BY <1>1, <1>5, <2>1, <4>2, <4>4, SetBacked DEF mix
    <3>5. (Readable(bills[b]) => Adds(bills[b]))' /\ (Readable(bills[b])' \/ b \in patched')
      BY <1>4, <3>1, <3>3 DEF Readable, Adds
    <3> QED BY <3>1, <3>4, <3>5 DEF BillSound
  <2>2. CASE ~(b = r.bill /\ Stored(b))
    <3>1. bills'[b] = bills[b]
      BY <1>1, <1>2, <1>3, <2>2
    <3> QED BY <1>2, <1>4, <1>8, <3>1 DEF BillSound, Stored, Readable, Adds
  <2> QED BY <2>1, <2>2
<1>13. (invoice.life = "unborn" => Editable(invoice))'
  BY <1>2, <1>4 DEF Editable
<1> QED BY <1>9, <1>11, <1>12, <1>13 DEF ShopInv

(* The parts of the invariant, for the steps below.                          *)
LEMMA InvParts ==
  ASSUME ShopInv
  PROVE  /\ bills \in [Bills -> Doc] /\ invoice \in Invoice
         /\ request \in [Slots -> Request] /\ started \in 0..MaxRequests
         /\ byHand \in SUBSET Bills /\ patched \in SUBSET Bills
         /\ \A b \in Bills : BillSound(b)
         /\ \A s \in Slots : RequestSound(request[s])
         /\ invoice.life = "unborn" => Editable(invoice)
  BY DEF ShopInv, TypeOK

LEMMA IdleSound == RequestSound(IdleRequest)'
  BY DEF RequestSound, IdleRequest

(* A bill that a step leaves alone.                                          *)
LEMMA BillKept ==
  ASSUME NEW b \in Bills, BillSound(b), bills'[b] = bills[b],
         byHand \subseteq byHand', patched \subseteq patched'
  PROVE  BillSound(b)'
  BY DEF BillSound, Stored, Readable, Adds

LEMMA StartStep ==
  ASSUME ShopInv, NEW s \in Slots, started < MaxRequests, StartsOne(s)
  PROVE  ShopInv'
<1>1. PICK req \in Request : Starts(s, req)
  BY DEF StartsOne
<1>2. /\ request' = [request EXCEPT ![s] = req] /\ RequestSound(req)'
      /\ UNCHANGED <<bills, invoice, byHand>> /\ started' = started + 1
      /\ patched \subseteq patched' /\ patched' \subseteq Bills
  BY <1>1 DEF Starts
<1>3. /\ request' \in [Slots -> Request]
      /\ (\A t \in Slots : RequestSound(request[t]))'
  BY <1>2, RequestsStaySound
<1>4. started' \in 0..MaxRequests
  BY <1>2, InvParts, BoundsAssumption
<1>5. TypeOK'
  BY <1>2, <1>3, <1>4, InvParts DEF TypeOK
<1>6. \A b \in Bills : BillSound(b)'
  BY <1>2, InvParts, BillKept
<1>7. (invoice.life = "unborn" => Editable(invoice))'
  BY <1>2, InvParts DEF Editable
<1> QED BY <1>3, <1>5, <1>6, <1>7 DEF ShopInv

LEMMA CreateInvoiceStep ==
  ASSUME ShopInv, started < MaxRequests, CreateInvoice
  PROVE  ShopInv'
<1>1. PICK paper \in Papers : invoice' = [NoInvoice EXCEPT !.life = "stored", !.paper = paper]
  BY DEF CreateInvoice
<1>2. UNCHANGED <<bills, request, byHand, patched>> /\ started' = started + 1
  BY DEF CreateInvoice
<1>3. invoice' \in Invoice /\ invoice'.life = "stored"
  BY <1>1, NoInvoiceType DEF Invoice
<1>4. started' \in 0..MaxRequests
  BY <1>2, InvParts, BoundsAssumption
<1>5. TypeOK'
  BY <1>2, <1>3, <1>4, InvParts DEF TypeOK
<1>6. \A b \in Bills : BillSound(b)'
  BY <1>2, InvParts, BillKept
<1>7. (\A t \in Slots : RequestSound(request[t]))'
  BY <1>2, InvParts
     DEF RequestSound, WriteSound, GatherSound, WritesWhole, WritesLock, WritesPart,
         BackedWhenRead
<1>8. (invoice.life = "unborn" => Editable(invoice))'
  BY <1>3
<1> QED BY <1>5, <1>6, <1>7, <1>8 DEF ShopInv

LEMMA InsertStep ==
  ASSUME ShopInv, NEW s \in Slots, NEW b \in Bills, InsertBill(s, b)
  PROVE  ShopInv'
<1> DEFINE child == request[s].child
<1>1. /\ bills' = [bills EXCEPT ![b] = child]
      /\ byHand' = IF request[s].byHand THEN byHand \cup {b} ELSE byHand
      /\ request' = [request EXCEPT ![s] = IdleRequest]
      /\ UNCHANGED <<invoice, started, patched>>
  BY DEF InsertBill, Finish
<1>2. /\ child \in Doc /\ child.life = "stored" /\ Readable(child) /\ Adds(child)
      /\ ~request[s].byHand => child.paid_amount <= child.payments
  BY InvParts DEF InsertBill, RequestSound, ChildSound, Request
<1> HIDE DEF child
<1>3. byHand \subseteq byHand' /\ byHand' \in SUBSET Bills /\ patched \subseteq patched'
  BY <1>1, InvParts
<1>4. /\ request' \in [Slots -> Request]
      /\ (\A t \in Slots : RequestSound(request[t]))'
  BY <1>1, <1>3, IdleType, IdleSound, RequestsStaySound
<1>5. TypeOK'
  BY <1>1, <1>2, <1>3, <1>4, InvParts DEF TypeOK
<1>6. ASSUME NEW c \in Bills PROVE BillSound(c)'
  <2>1. CASE c = b
    <3>1. bills'[c] = child
      BY <1>1, <2>1, InvParts
    <3>2. c \notin byHand' => child.paid_amount <= child.payments
      BY <1>1, <1>2, <2>1 DEF Doc
    <3> QED BY <1>2, <3>1, <3>2 DEF BillSound, Readable, Adds
  <2>2. CASE c # b
    <3>1. bills'[c] = bills[c]
      BY <1>1, <2>2, InvParts
    <3> QED BY <1>3, <3>1, InvParts, BillKept
  <2> QED BY <2>1, <2>2
<1>7. (invoice.life = "unborn" => Editable(invoice))'
  BY <1>1, InvParts DEF Editable
<1> QED BY <1>4, <1>5, <1>6, <1>7 DEF ShopInv

LEMMA MergeStep ==
  ASSUME ShopInv, NEW s \in Slots, NEW other \in Bills, MergeWith(s, other)
  PROVE  ShopInv'
<1> DEFINE r == request[s]
           base == r.old
           items == Plus(base.items, bills[other].items)
           loose == [base EXCEPT !.items = items]
           new == Totalled(loose)
           req == [r EXCEPT !.pc = "write", !.new = new]
<1>1. /\ UNCHANGED <<bills, invoice, started, byHand, patched>>
      /\ \/ request' = [request EXCEPT ![s] = IdleRequest]
         \/ /\ Lines(items) <= MaxLines
            /\ request' = [request EXCEPT ![s].pc = "write", ![s].new = new]
  BY DEF MergeWith, Finish
<1>2. r \in Request /\ r.pc = "gather" /\ GatherSound(r)
  BY InvParts DEF MergeWith, RequestSound
<1>3. PICK q \in Request : request' = [request EXCEPT ![s] = q] /\ RequestSound(q)'
  <2>1. CASE request' = [request EXCEPT ![s] = IdleRequest]
    BY <2>1, IdleType, IdleSound
  <2>2. CASE /\ Lines(items) <= MaxLines
             /\ request' = [request EXCEPT ![s].pc = "write", ![s].new = new]
    <3>1. base \in Doc /\ base \in LooseDoc /\ base.items \in Items
      <4>1. base \in Doc
        BY <1>2 DEF Request
      <4> HIDE DEF base
      <4> QED BY <4>1, DocsAreLoose DEF Doc
    <3>2. items \in Loose
      BY <3>1, ReadDoc, ItemChanges
    <3>3. items \in Items
      BY <2>2, <3>2, FewLines
    <3>4. request' = [request EXCEPT ![s] = req]
      BY <1>2, <2>2, InvParts DEF Request
    <3> HIDE DEF base, items
    <3>5. loose \in LooseDoc /\ loose.items = items /\ loose.envelope = base.envelope
          /\ loose.payments = base.payments /\ loose.paid_amount = base.paid_amount
      BY <3>1, <3>2 DEF LooseDoc
    <3>6. /\ new \in LooseDoc /\ new.items = items /\ new.envelope = base.envelope
          /\ new.payments = base.payments /\ new.paid_amount = base.paid_amount /\ Adds(new)
      <4> HIDE DEF loose
      <4> QED BY <3>5, TotalledType
    <3> HIDE DEF new
    <3>7. new \in Doc
      BY <3>3, <3>6, LooseFits
    <3>8. /\ req \in Request /\ req.pc = "write" /\ req.bill = r.bill /\ req.old = r.old
          /\ req.new = new /\ req.fields = r.fields /\ req.child = r.child
      <4> HIDE DEF r
      <4> QED BY <1>2, <3>7 DEF Request
    <3> HIDE DEF req
    <3>9. WritesWhole(req)
      BY <1>2, <3>6, <3>8 DEF WritesWhole, GatherSound, BackedWhenRead, Readable, base
    <3>10. WriteSound(req)
      BY <1>2, <3>8, <3>9 DEF WriteSound, GatherSound, ChildSound
    <3>11. RequestSound(req)
      BY <3>8, <3>10 DEF RequestSound
    <3>12. PICK q \in Request : q = req
      BY <3>8
    <3>13. RequestSound(q)'
      BY <1>1, <3>11, <3>12, OthersSound
    <3> QED BY <3>4, <3>12, <3>13
  <2> QED BY <1>1, <2>1, <2>2
<1>4. /\ request' \in [Slots -> Request]
      /\ (\A t \in Slots : RequestSound(request[t]))'
  BY <1>1, <1>3, RequestsStaySound
<1>5. TypeOK'
  BY <1>1, <1>4, InvParts DEF TypeOK
<1>6. \A b \in Bills : BillSound(b)'
  BY <1>1, InvParts, BillKept
<1>7. (invoice.life = "unborn" => Editable(invoice))'
  BY <1>1, InvParts DEF Editable
<1> QED BY <1>4, <1>5, <1>6, <1>7 DEF ShopInv

LEMMA RemoveStep ==
  ASSUME ShopInv, NEW s \in Slots, RemoveBill(s)
  PROVE  ShopInv'
<1> DEFINE b == request[s].bill
<1>1. /\ bills' = [bills EXCEPT ![b].life = "deleted"]
      /\ request' = [request EXCEPT ![s] = IdleRequest]
      /\ UNCHANGED <<invoice, started, byHand, patched>>
  BY DEF RemoveBill, Finish
<1>2. b \in Bills
  BY InvParts DEF RemoveBill, RequestSound
<1> HIDE DEF b
<1>3. /\ request' \in [Slots -> Request]
      /\ (\A t \in Slots : RequestSound(request[t]))'
  BY <1>1, IdleType, IdleSound, RequestsStaySound
<1>4. bills' = [bills EXCEPT ![b] = [bills[b] EXCEPT !.life = "deleted"]]
      /\ [bills[b] EXCEPT !.life = "deleted"] \in Doc
      /\ [bills[b] EXCEPT !.life = "deleted"].life = "deleted"
  <2>1. bills[b] \in Doc
    BY <1>2, InvParts
  <2> QED BY <1>1, <2>1 DEF Doc
<1>5. TypeOK'
  BY <1>1, <1>3, <1>4, InvParts DEF TypeOK
<1>6. ASSUME NEW c \in Bills PROVE BillSound(c)'
  <2>1. CASE c = b
    <3>1. bills'[c].life = "deleted"
      BY <1>2, <1>4, <2>1, InvParts
    <3> QED BY <3>1 DEF BillSound, Stored
  <2>2. CASE c # b
    <3>1. bills'[c] = bills[c]
      BY <1>1, <2>2, InvParts
    <3> QED BY <1>1, <3>1, InvParts, BillKept
  <2> QED BY <2>1, <2>2
<1>7. (invoice.life = "unborn" => Editable(invoice))'
  BY <1>1, InvParts DEF Editable
<1> QED BY <1>3, <1>5, <1>6, <1>7 DEF ShopInv

LEMMA OtherStep ==
  ASSUME ShopInv, NEW s \in Slots, Die(s) \/ WriteInvoice(s)
  PROVE  ShopInv'
<1>1. /\ request' = [request EXCEPT ![s] = IdleRequest]
      /\ UNCHANGED <<bills, started, byHand, patched>>
  BY DEF Die, WriteInvoice, Finish
<1>2. invoice' \in Invoice /\ (invoice.life = "unborn" => Editable(invoice))'
  <2>1. request[s] \in Request /\ RequestSound(request[s]) /\ invoice \in Invoice
    BY InvParts
  <2>2. CASE invoice' = invoice
    BY <2>1, <2>2, InvParts DEF Editable
  <2>3. CASE invoice' # invoice
    <3> DEFINE r == request[s]
    <3>1. \/ r.pc = "replaceInvoice" /\ invoice' = r.invoice
          \/ invoice.life = "stored" /\ invoice' = [invoice EXCEPT !.payment_status = "PAID"]
          \/ invoice' = [invoice EXCEPT !.life = "deleted"]
      BY <2>3 DEF Die, WriteInvoice
    <3>2. r.pc = "replaceInvoice" => r.invoice \in Invoice /\ Editable(r.invoice)
      BY <2>1 DEF Request, RequestSound
    <3> HIDE DEF r
    <3>3. CASE r.pc = "replaceInvoice" /\ invoice' = r.invoice
      BY <3>2, <3>3 DEF Editable
    <3>4. CASE invoice.life = "stored" /\ invoice' = [invoice EXCEPT !.payment_status = "PAID"]
      BY <2>1, <3>4 DEF Invoice
    <3>5. CASE invoice' = [invoice EXCEPT !.life = "deleted"]
      BY <2>1, <3>5 DEF Invoice
    <3> QED BY <3>1, <3>3, <3>4, <3>5
  <2> QED BY <2>2, <2>3
<1>3. /\ request' \in [Slots -> Request]
      /\ (\A t \in Slots : RequestSound(request[t]))'
  BY <1>1, IdleType, IdleSound, RequestsStaySound
<1>4. TypeOK'
  BY <1>1, <1>2, <1>3, InvParts DEF TypeOK
<1>5. \A b \in Bills : BillSound(b)'
  BY <1>1, InvParts, BillKept
<1> QED BY <1>2, <1>3, <1>4, <1>5 DEF ShopInv

LEMMA InitSound == Init => ShopInv
<1> SUFFICES ASSUME Init PROVE ShopInv
  OBVIOUS
<1>1. PICK there \in SUBSET Bills, items \in Orders, discounts \in Charges :
        bills = [b \in Bills |-> IF b \in there THEN NewBill(items, discounts) ELSE Unborn]
  BY DEF Init
<1>2. items \in Items /\ discounts \in Int
  BY <1>1, OrdersAssumption, MoneyAssumption
<1> DEFINE new == NewBill(items, discounts)
<1>3. /\ new \in Doc /\ Readable(new) /\ Adds(new) /\ new.paid_amount <= new.payments
  BY <1>2, NewBillType
<1> HIDE DEF new
<1>4. bills = [b \in Bills |-> IF b \in there THEN new ELSE Unborn]
  BY <1>1 DEF new
<1>5. bills \in [Bills -> Doc]
  BY <1>3, <1>4, UnbornType
<1>6. /\ invoice = NoInvoice /\ request = [s \in Slots |-> IdleRequest]
      /\ started = 0 /\ byHand = {} /\ patched = {}
  BY DEF Init
<1>7. TypeOK
  BY <1>5, <1>6, IdleType, NoInvoiceType, BoundsAssumption DEF TypeOK
<1>8. ASSUME NEW b \in Bills PROVE BillSound(b)
  <2>1. bills[b] = new \/ bills[b] = Unborn
    BY <1>4
  <2> QED BY <1>3, <2>1, UnbornType DEF BillSound, Stored
<1>9. \A s \in Slots : RequestSound(request[s])
  BY <1>6, IdleType
<1> QED BY <1>6, <1>7, <1>8, <1>9, NoInvoiceType DEF ShopInv

(* The invariant of the shop bills: it is inductive.                         *)
LEMMA ShopInvStep == ShopInv /\ [Next]_vars => ShopInv'
<1> SUFFICES ASSUME ShopInv, [Next]_vars PROVE ShopInv'
  OBVIOUS
<1>1. CASE Receive
  BY <1>1, ReceiveStarts, StartStep, CreateInvoiceStep
<1>2. CASE Continue
  <2>1. PICK s \in Slots :
          \/ Write(s) \/ RemoveBill(s) \/ Die(s) \/ WriteInvoice(s)
          \/ \E b \in Bills : InsertBill(s, b) \/ MergeWith(s, b)
    BY <1>2 DEF Continue
  <2> QED BY <2>1, WriteStep, RemoveStep, OtherStep, InsertStep, MergeStep
<1>3. CASE UNCHANGED vars
  BY <1>3 DEF vars, ShopInv, TypeOK, BillSound, Stored, Readable, Adds, RequestSound,
              WriteSound, GatherSound, WritesWhole, WritesLock, WritesPart, BackedWhenRead,
              Editable
<1> QED BY <1>1, <1>2, <1>3 DEF Next

(* The invariant holds: every bill is sound, and so is what every request    *)
(* has in hand.                                                              *)
THEOREM ShopInvHolds == Spec => []ShopInv
  BY InitSound, ShopInvStep, PTL DEF Spec

-----------------------------------------------------------------------------
(* The properties. *)

(* Every reachable state is well-typed.                                      *)
THEOREM TypeCorrect == Spec => []TypeOK
<1>1. ShopInv => TypeOK
  BY DEF ShopInv
<1> QED BY <1>1, ShopInvHolds, PTL

(* For any number of bills and requests and any amounts: the amounts of a    *)
(* bill that can be read belong together, and only PATCH makes unreadable.   *)
THEOREM BooksAlwaysBalance == Spec => []BooksBalance
<1>1. ShopInv => BooksBalance
  <2> SUFFICES ASSUME ShopInv, NEW b \in Bills, Stored(b)
               PROVE IF ~Readable(bills[b]) THEN b \in patched
                     ELSE LET bill == bills[b] IN
                       /\ \/ /\ bill.total_amount = Amount(bill.items)
                             /\ bill.grand_total = GrandTotal(bill)
                          \/ bill.items = NoItems /\ bill.grand_total = bill.total_amount
                       /\ bill.outstanding_amount - (bill.grand_total - bill.paid_amount) \in 0..1
    BY DEF BooksBalance
  <2>1. BillSound(b) /\ bills[b] \in Doc
    BY InvParts
  <2>2. /\ bills[b].outstanding_amount \in Int /\ bills[b].grand_total \in Int
        /\ bills[b].paid_amount \in Int
    BY <2>1 DEF Doc
  <2>3. CASE ~Readable(bills[b])
    BY <2>1, <2>3 DEF BillSound
  <2>4. CASE Readable(bills[b])
    <3>1. Adds(bills[b])
      BY <2>1, <2>4 DEF BillSound
    <3>2. bills[b].outstanding_amount - (bills[b].grand_total - bills[b].paid_amount) \in 0..1
      BY <2>2, <3>1 DEF Adds
    <3> QED BY <2>4, <3>1, <3>2 DEF Adds
  <2> QED BY <2>3, <2>4
<1> QED BY <1>1, ShopInvHolds, PTL

(* For any number of bills and requests and any amounts, below zero as well: *)
(* no bill has more paid than its payments list, unless bulk-mark-paid, a    *)
(* manual bill's opening amount, or a refund or a credit note below zero     *)
(* wrote to it; which handler it was is told by the request, never by what   *)
(* the write did to the amounts.                                             *)
THEOREM PaidIsAlwaysBacked == Spec => []PaidIsBacked
<1>1. ShopInv => PaidIsBacked
  BY InvParts DEF PaidIsBacked, BillSound
<1> QED BY <1>1, ShopInvHolds, PTL

(* A write changes what a bill charges only if its request was to.           *)
LEMMA BilledByWrite ==
  ASSUME ShopInv, NEW s \in Slots, Write(s), NEW b \in Bills, Stored(b),
         Billed(bills'[b]) # Billed(bills[b]) \/ bills'[b].life = "deleted"
  PROVE  /\ request[s].bill = b /\ request[s].pc = "write"
         /\ ~request[s].old.locked \/ Billed(request[s].new) = Billed(request[s].old)
<1> DEFINE r == request[s]
           mix == Mixed(bills[r.bill], r.new, r.fields)
<1>1. /\ r \in Request /\ r.pc = "write" /\ WriteSound(r)
  BY InvParts DEF Write, RequestSound
<1>2. bills \in [Bills -> Doc]
  BY InvParts
<1>3. /\ Stored(r.bill) => bills' = [bills EXCEPT ![r.bill] = mix]
      /\ ~Stored(r.bill) => bills' = bills
  BY <1>1, <1>2 DEF Write, Mixed, WriteSound
<1>4. bills[b].life # "deleted"
  BY DEF Stored
<1>5. r.bill = b
  <2> HIDE DEF r, mix
  <2> QED BY <1>2, <1>3, <1>4
<1> QED BY <1>1, <1>5 DEF WriteSound

(* A locked bill is charged, or deleted, only by a request that read it      *)
(* unlocked, or that puts back what such a request has just changed; and a   *)
(* paid invoice changes only under a request that read it before it was paid. *)
THEOREM LocksHold == Spec => LockHolds
<1> DEFINE
     Touched(b) == /\ Stored(b) /\ bills[b].locked
                   /\ bills'[b].life = "deleted" \/ Billed(bills'[b]) # Billed(bills[b])
     Excused(b) == \E s \in Slots :
                     LET r == request[s] IN
                     /\ r.bill = b
                     /\ \/ ~r.old.locked
                        \/ r.pc = "write" /\ Billed(r.new) = Billed(r.old)
     InvoiceKept == invoice.payment_status = "PAID" /\ invoice' # invoice
                      => \E s \in Slots : /\ request[s].pc \in {"replaceInvoice", "deleteInvoice"}
                                          /\ Editable(request[s].invoice)
<1>1. ASSUME ShopInv, [Next]_vars, NEW b \in Bills, Touched(b) PROVE Excused(b)
  <2>1. bills \in [Bills -> Doc]
    BY <1>1, InvParts
  <2>2. bills[b].life = "stored" /\ bills' # bills
    BY <1>1, <2>1 DEF Stored
  <2>3. CASE Receive
    <3>1. bills' = bills
      BY <1>1, <2>3, ReceiveStarts DEF StartsOne, Starts, CreateInvoice
    <3> QED BY <2>2, <3>1
  <2>4. CASE Continue
    <3>1. PICK s \in Slots :
            \/ Write(s) \/ RemoveBill(s) \/ Die(s) \/ WriteInvoice(s)
            \/ \E c \in Bills : InsertBill(s, c) \/ MergeWith(s, c)
      BY <2>4 DEF Continue
    <3>2. CASE Write(s)
      BY <1>1, <3>2, BilledByWrite
    <3>3. CASE RemoveBill(s)
      <4>1. /\ bills' = [bills EXCEPT ![request[s].bill].life = "deleted"]
            /\ request[s].bill \in Bills /\ ~request[s].old.locked
        BY <1>1, <3>3, InvParts DEF RemoveBill, RequestSound
      <4>2. request[s].bill = b
        <5> SUFFICES ASSUME request[s].bill # b PROVE FALSE
          OBVIOUS
        <5>1. bills'[b] = bills[b]
          BY <2>1, <4>1
        <5> QED BY <1>1, <2>2, <5>1
      <4> QED BY <4>1, <4>2
    <3>4. CASE Die(s) \/ WriteInvoice(s)
      BY <2>2, <3>4 DEF Die, WriteInvoice
    <3>5. ASSUME NEW c \in Bills, InsertBill(s, c) PROVE FALSE
      <4>1. bills[c].life = "unborn" /\ bills' = [bills EXCEPT ![c] = request[s].child]
        BY <3>5 DEF InsertBill
      <4>2. bills'[b] = bills[b]
        BY <2>1, <2>2, <4>1
      <4> QED BY <1>1, <2>2, <4>2
    <3>6. ASSUME NEW c \in Bills, MergeWith(s, c) PROVE FALSE
      BY <2>2, <3>6 DEF MergeWith
    <3> QED BY <3>1, <3>2, <3>3, <3>4, <3>5, <3>6
  <2>5. CASE UNCHANGED vars
    BY <2>2, <2>5 DEF vars
  <2> QED BY <1>1, <2>3, <2>4, <2>5 DEF Next
<1>2. ASSUME ShopInv, [Next]_vars PROVE InvoiceKept
  <2> SUFFICES ASSUME invoice.payment_status = "PAID", invoice' # invoice
               PROVE \E s \in Slots : /\ request[s].pc \in {"replaceInvoice", "deleteInvoice"}
                                      /\ Editable(request[s].invoice)
    OBVIOUS
  <2>1. invoice \in Invoice /\ invoice.life # "unborn"
    BY <1>2, InvParts DEF Editable
  <2>2. CASE Receive
    <3>1. invoice' = invoice
      BY <1>2, <2>1, <2>2, ReceiveStarts DEF StartsOne, Starts, CreateInvoice
    <3> QED BY <3>1
  <2>3. CASE Continue
    <3>1. PICK s \in Slots :
            \/ Write(s) \/ RemoveBill(s) \/ Die(s) \/ WriteInvoice(s)
            \/ \E c \in Bills : InsertBill(s, c) \/ MergeWith(s, c)
      BY <2>3 DEF Continue
    <3>2. WriteInvoice(s)
      BY <3>1 DEF Write, RemoveBill, Die, InsertBill, MergeWith
    <3>3. request[s].pc \in {"replaceInvoice", "payInvoice", "deleteInvoice"}
      BY <3>2 DEF WriteInvoice
    <3>4. request[s].pc # "payInvoice"
      <4> SUFFICES ASSUME request[s].pc = "payInvoice" PROVE FALSE
        OBVIOUS
      <4>1. invoice' = [invoice EXCEPT !.payment_status = "PAID"]
        BY <3>2 DEF WriteInvoice
      <4>2. [invoice EXCEPT !.payment_status = "PAID"] = invoice
        BY <2>1 DEF Invoice
      <4> QED BY <4>1, <4>2
    <3>5. Editable(request[s].invoice)
      BY <1>2, <3>3, InvParts DEF RequestSound
    <3> QED BY <3>3, <3>4, <3>5
  <2>4. CASE UNCHANGED vars
    BY <2>4 DEF vars
  <2> QED BY <1>2, <2>2, <2>3, <2>4 DEF Next
<1>3. ShopInv /\ [Next]_vars => [(\A b \in Bills : Touched(b) => Excused(b)) /\ InvoiceKept]_vars
  BY <1>1, <1>2
<1> QED BY <1>3, ShopInvHolds, PTL DEF Spec, LockHolds
================================================================================
