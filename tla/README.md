# Formal model of the bill-service

TLA+ models, TLC runs and TLAPS proofs for the back office of a hotel laundry: a FastAPI
application over MongoDB (`src/src/bill_service`; file names below are relative to it).
It registers the linen hotels hand over (gate passes), what is delivered back, what comes
back again (returns), what is billed and paid, and it replicates the documents of its main
database to a secondary one.

The one fact that shapes every model: the application uses **no transactions**. A handler is
a coroutine; each `await` on a collection reads or writes atomically, and between two awaits
any other handler, worker or process may run, and the handler itself may die. So each model
has one action per await, and a handler is a small program counter with the values it has
read so far.

## 1. Inventory

| Part | State | Operations | Hard behaviour | What makes it correct |
|---|---|---|---|---|
| Replication (`repositories/*`, `services/synchronization_service.py`, `verification_service.py`) | `sync_version` of a document, `sync_queue`, `sync_status`, the replica | bump, enqueue, delete; claim, copy, verify, acknowledge, release, retry, give up | handlers interleave with workers, leases, crashes, SECONDARY down | an empty queue means a current replica; claims are exclusive; every row is settled in the end |
| Delivery ledger (`routers/deliveries.py`, `returns.py`, `gatepasses.py`, `services/balance_engine.py`, `operations_context.py`) | gate passes, deliveries, returns | create, draft, catch up, activate, correct, cancel; return, resend; status, refresh | plan against one snapshot, write, look again, take back | never more delivered than received; the status of a pass follows its balance |
| Bill payments (`routers/bills.py`, `services/bill_sync.py`, `idempotency.py`) | a bill's money fields, payments, idempotency keys | pay, reverse, edit, resync, cancel, set status | two collections kept in step by compare-and-set and compensation | bill and payments agree; no overpayment; a cancelled bill stays cancelled |
| Bill creation (`bills.py` `create_bill`, `edit_bill`; `services/bill_sync.py`) | bills, their lines | create and edit within a ceiling, propagate a corrected receipt | the ceiling is checked before the insert only, and edits have another one; each line is held against the rest by itself; bills are corrected one by one | the bills of a pass are covered by its linen; bills follow the receipt |
| Monthly grid (`routers/monthly.py`, `services/monthly_sync.py`) | one document per month, a state per day | save a day, confirm, cancel; write back a pass made by hand | records are created first and the day is marked last, from an older copy | the grid lists exactly the records made; a confirmed day stays so |
| Manual references (`services/manual_references.py`, `gate_pass_records.py`, `hotel_code.py`) | reserved numbers, counters | reserve several, release | compensation when a later number is taken | a number belongs to one document; a refused request keeps none |
| Gate pass corrections (`routers/gatepasses.py`, `adjustments.py`) | the items and status of a pass, adjustment requests | edit, catch up, reopen; request, approve, reject | whole-document writes after awaits, a claim in the middle | an adjustment is applied once; no correction is lost to another |
| Shop bills and legacy invoices (`routers/shop_bills.py`) | bills of walk-in customers, figures per month | edit, lock, split, merge, pay, void, duplicate, batches | unconditional whole-document writes after reads; partial updates of encrypted documents | locked bills do not change; totals add up; what is paid is backed by payments |
| Linens (`routers/linens.py`, `live_clock.py`) | status and wash count, the audit trail, a clock per laundry | create, scan, bulk scan, update, delete | a count that is read and set; row, clock and event are separate | every wash is counted once |
| Dispatch, loyalty | one document each | create, update, delete; adjust points | read, then write | points add up |
| Realtime (`realtime.py`, `routers/realtime.py`) | connections, their channels and bounded queues | greet, subscribe, ping, publish, drop | slow readers are dropped, frames lost, events late | a screen is never silently stale |
| Local backup (`services/local_sync_service.py`) | a third database | compare versions, copy, delete what is gone | reads, copies and deletions beside handlers and other runs; versions absent or brought back | a run leaves what MAIN has, and no step goes back |
| Client portal, client orders, notifications, dashboards, reports, today sheet, day close | - | read-only, or single inserts | - | - |
| Tenancy, security, encryption, time, configuration, scripts | - | pure functions, wiring | - | - |

How the parts interact: deliveries, bills, payments, passes and the rest are the *documents*
whose handlers end in `bump_version` and `enqueue_sync`, which is where Replication begins.
Bills read deliveries and passes for their ceiling; corrections of passes write bills
(`sync_bills_to_gate_pass`), which is why `Billing` extends `Receipts`; confirming a month
creates passes and deliveries. Nothing in the ledger reads bills. The other modelled parts
share no variable, and each is a module of its own; the replication model takes the ways
handlers write as its input (`Kinds`). Scans publish to the hub in the process, so `Linens`
has both. `LocalBackup` extends `Replication`: a backup runs beside the same handlers.

`PROJECT.json` lists every part with its status, and the places where the code is hard to
test (`hazards`), each with the properties that would catch it going wrong.

## 2. Replication

Modules: `Replication` (model, properties), `ReplicaFeed` (what the replica promises),
`ReplicationInv` (inductive invariants), `Replication_proofs`, `MCReplication`.

**State.** `main`, `secondary`: record to document (version 0 means the field is missing;
contents are numbered). `queue`: the row of a record in `sync_queue`, with `due`
(`next_attempt_at` has passed) and `lapsed` (`lease_until` has passed) for its timestamps.
`verification`: `sync_status`. `handler` and `worker`: program counters with what was read.

**Actions.** The six ways in which handlers write are the `Kinds`: `create`; `set` (edit,
then bump and enqueue); `replace` (edit_bill: the whole document, version included, from an
earlier read); `bumpReplace` (update_legacy_invoice: bump, then put the old version back);
`delete`; `silent` (a linen scan, which enqueues nothing). Enqueuing is two writes
(`EnqueueRow`, `EnqueuePending`), as in `_enqueue_operation`. A worker runs `Claim`,
`MarkSyncing`, `ReadMain`, `CopyToSecondary` or `DeleteReplica`, `Verify`, `RecordResult`,
`Acknowledge`, with `FailAttempt`, `ReleaseClaim` and `MarkFailed` for the rest of
`attempt_job`. Faults: a handler stops between two awaits, a worker dies, a heartbeat task
dies, SECONDARY raises.

**Left out.** The boundaries of a drain (`processed_ids`, its limit of 50); the order of
`next_attempt_at`, which only matters for fairness; log rows; the copy of the status in
SECONDARY. The claim token is the worker's name (a token is fresh per drain). The retry
inside `_enqueue_operation` on a duplicate key is merged with the first attempt. A failure
of MAIN under a worker is a worker crash.

| Run | Shows |
|---|---|
| `replication_core` | Two requests, two workers, one crash: exclusive claims, an empty queue means a current replica with a settled status, no fresh work is parked, and the model implements `ReplicaFeed` |
| `replication_liveness` | With SECONDARY failing now and then, every record is replicated in the end, or parked as FAILED |
| `replication_faults` | All kinds of writes, crashes and a lost heartbeat: every queued row is acknowledged or parked |
| `replication_delete_race` | *violation*: an edit that bumped before a deletion and enqueues after it turns the DELETE job into an UPSERT that cannot succeed: the row is given up, no request is left to repair it, and SECONDARY keeps the record |

**Bounds.** One record: rows of different records never touch. Two requests and two workers
are enough for every pair of races (enqueue against enqueue, enqueue against ack, two claims);
two contents suffice for a job to be superseded; two attempts cover both branches of
`FailAttempt`.

**Fairness.** Weak fairness for each step of a handler or worker in hand (the event loop runs
what is ready), and for the passing of a backoff or a lease. Strong fairness for claiming a
record: the worker polls for ever and takes the oldest due row first, so a row that is due
again and again is taken. Nothing is assumed of users or of faults, and no fairness is given
to the success of SECONDARY: a record it keeps refusing is parked.

**Proved** (for any records, handlers, workers and bounds):

- `TypeCorrect`.
- `ClaimsAreExclusive`, assuming heartbeats are not lost. The invariant `ClaimHeld` says who
  is at work owns the row under a lease that has not lapsed; the claim step needs a row that
  is unclaimed or lapsed, so no one else can be at work on it.
- `QueueEmptyMeansCurrent`, assuming in addition `OrderlyWriters`: no kind brings an old
  version back, none skips the queue, no handler dies between its write and its enqueue. The
  first is a known limit: update_legacy_invoice (`shop_bills.py:531`, kind `bumpReplace`) puts
  the version back it had read, the number is handed out again, and the acknowledgement of
  the older job deletes the newer one. The inductive invariant `ReplicaInv` has seven parts: versions are handed out once
  (`VersionsFresh`), so an enqueue always spoils a stale ack; a job whose ack would be
  accepted has copied what MAIN has now, unless a request still owes an enqueue
  (`CopyCurrent`); a replica that is behind has a row or a request that owes one
  (`NothingLost`); the rest describe the shape of what is under way.

- `StatusSettlesAlways` (`StatusSettles`), under the same two hypotheses, from `StatusInv`
  on top of `ReplicaInv`: a job that may remove its row has left an answer about the very
  document it copied (`JobsAnswer`), and a record without an answer is still owed one
  (`AnswersOwed`).
- `FreshWorkIsAttempted` (`FreshWorkNotParked`), assuming only that no handler dies: between
  `EnqueueRow` and `EnqueuePending` a fresh job carries the FAILED status of its predecessor,
  and its request is there to reset it.
- `ReplicaFollowsMain`: the model implements `ReplicaFeed`, under all kinds of writers and all
  faults but a lost heartbeat. Every step maps to a copy that moves forward, a removal of a
  deleted record, a change of MAIN, or a stutter. `FeedInv` is what makes it so: a worker about
  to copy has a document its record had, not older than the replica's (the claim keeps others
  from overtaking it between its read and its write), and DELETE jobs exist only for records
  that are gone for good.

**Only model-checked**: liveness.

## 3. The delivery ledger

Modules: `DeliveryLedger`, `DeliveryLedgerInv` (inductive invariants), `DeliveryLedger_proofs`,
`MCDeliveryLedger`.

**State.** `passes` (stored status), `deliveries`, `returns`, and `request`: what each request
in flight has read (passes, deliveries and returns come from three reads, one after the
other). `stamp` is `updated_at`, `seal` stands for the ciphertext of the items; the
conditional write of a correction compares both. `disturbed` is a history variable.

**Actions.** Every handler starts with a guard on one document (`StartCreate`,
`StartActivate`, ...), loads the ledger (`LoadPasses`, `LoadMovements`, `LoadReturns`),
writes (`Insert`, `Activate`, `Correct`, `Cancel`, `RegisterReturn`, `MarkResent`,
`SetStatus`). Creations, catch-ups and corrections look again (`CheckMovements`,
`CheckReturns`) and may take their write back (`Undo`). Then statuses are refreshed
(`RefreshPasses` ... `Persist`); activation derives its status on its own, catch-up puts the
whole pass back at the end.

**Abstractions.** One kind of item, counted in pieces; RECEIVED stands for the three open
workflow states, which nothing here tells apart; a return is of one piece; received
quantities are constant. Stamps are unique: two writes within one millisecond, the resolution
of MongoDB, are taken as told apart. Left out: `update_return`, changes of date, edits of
passes and adjustments, the reopening of legacy passes, version bumps.

| Run | Shows |
|---|---|
| `delivery_race` | Three requests at once (create, draft, catch up, cancel, return): accepted deliveries never oversell a pass |
| `delivery_sequence` | All operations, two at a time, and crashes: undisturbed sequences never oversell, the status of an emptied pass is DELIVERED, a cancelled pass is unused, and a correction replaces only the document it was made from |

**Bounds.** Overselling needs two deliveries that plan against the same snapshot and a third
request that changes what they see, hence three slots and two pieces. The sequence run allows
four requests over two deliveries and a return: enough to create, return, deliver again and
resend. `NeverOversold` is checked for the operations for which the second look is meant; the
code has none for activations.

**Known limits**, which the properties exclude by name: activation checks a draft that draws
on several passes against its primary pass only (`deliveries.py:443`); undoing a lowering
correction takes pieces on which another creation was confirmed meanwhile
(`deliveries.py:814`); two returns of the same pieces do not see each other
(`returns.py:63`); a pass whose only delivery is cancelled stays DELIVERED, since the
derivation keeps a status it has no reason to change (`balance_engine.py:448`).

**Proved** (for any passes, quantities, requests, deliveries, returns and bounds):

- `TypeCorrect`.
- `RacesNeverOversell` (`NeverOversold`), assuming the operations are creations, drafts,
  catch-ups, cancellations, returns and status changes, in any number at once: the ones the
  second look is meant for. The first three of the known limits, and a crash between the insert
  and the second look, are why the hypothesis is needed.
  `NeverOversold` is far from inductive: while checks are under way, more may stand on the pass
  than was received. `WithinReceived` counts what is accepted *together with* the deliveries
  whose check has been overtaken (it read before something else was accepted), and that stays
  within what was received; `CheckOrder` says of two checks that the later one has seen the
  earlier one's delivery, so that they cannot both miss each other and both stay. The rest ties
  a check to its own delivery (`OwnDelivery`) and to what it has read (`CheckReads`,
  `PassesInUse`).
- `CorrectionsAreFresh` (`CorrectionIsFresh`, an action property), for all operations and
  crashes, from `StampInv`: a timestamp belongs to one document.

- `CancelledPassesStayUnused` (`CancelledPassUnused`), for all operations. It speaks of requests
  that neither overlap nor die, and so does its invariant: `SequentialInv` says that there is
  at most one request, that what it has read is still so (`PassesKnown`, `DocsKnown`), that
  its plan is made of what there is (`Justified`), and that nothing draws on a pass that is
  not in use, neither as the ledger stands nor if the request takes its write back
  (`Restored`).
- `SequencesNeverOversell` (`SequentiallySound`) and `StatusesKeepUp` (`StatusKeepsUp`), assuming
  `PrimaryPassOnly`: there is one pass, or drafts are not activated. The hypothesis is the first
  of the known limits: with two passes and activations TLC finds a draft, over both of
  them, that oversells the second. `BalanceInv` adds the quantities to `SequentialInv`: each
  pass is balanced, before and after the request may take its write back, and shows what it
  should unless the request has yet to refresh it (`Pending`). The counting rests on
  `DeliveredReplaced`: replacing one document changes what was delivered by the difference of
  their lines.

`StatusKeepsUp` is about passes on which linen was received: a pass may be registered with a
quantity of zero (`models.py:30`), which is empty without ever being delivered, and stays
RECEIVED.

## 4. Bill payments

Modules: `BillPayments`, `BillPayments_proofs`, `SumTheorems` (sums over finite sets),
`MCBillPayments`.

**State.** `bill` (status, paid, total, outstanding, in cents), `payments` (none, recorded,
reversed), `keyed` (the idempotency collection), `request`. Two history variables: `history`,
what has gone wrong or was done by hand, and `unsafe`, keys whose retries the code cannot
recognise.

**Actions.** create_payment is `StartPay` (looks its key up), `ReserveRead` and `Reserve` (the
compare-and-set on the bill, `MaxTries` times), `InsertPayment` or `InsertRaises`, `Confirm`
(was it stored after all?), `RollbackRead` and `Rollback` (compensation), `Remember` (stores
the key, last). reverse_payment is `StartReverse`, `Claim`, `UnwindRead`, `Unwind` or
`UnwindRaises`, `Release`. edit_bill and sync_bills_to_gate_pass are `StartEdit` and
`StartResync`, which read and compute, and `ReplaceBill`. delete_bill and update_bill_status
are single updates. `Crash` ends a request anywhere; it also stands for handlers that fail
for good ("manual reconciliation is required"). These are all the writers of
`bills_collection` except the insert.

**Abstractions.** OPEN stands for DRAFT, PENDING and ISSUED: nothing distinguishes them
except that a change between them defeats a compare-and-set, which other writes do as well.
A total stands for lines, discounts and fees; an edit may set any total, a correction can only
lower it. Amounts are whole cents. A bill starts unpaid (instant bills are left out).

**What the history excuses.** "raced": an edit or correction, which writes back the whole
bill it read, overlapped with another request; there the code keeps no promise about money.
"shrunk": a total was lowered below what is paid. "byHand": update_bill_status sets any status.
"failed": a compensation restores the status its payment had found, which may be out of date.
"unsettled": a request died with money reserved, or gave up. Each excuse is used only by the
properties that need it: `PaymentsRespectCancellation` uses none, `BalanceAddsUp` only the
first.

| Run | Shows |
|---|---|
| `payments` | All operations, two requests at a time, failing inserts, lost answers, crashes: `MoneyConserved` (paid equals the payments that stand plus what is in flight), `NeverOverpaid` (but for one cent per payment), `BalanceAddsUp`, `StatusIsEarned`, `KeyUsedOnce`, `PaymentsRespectCancellation` |

**Known limit.** reverse_payment guards against cancelled bills by a field `status` that bills
do not have (`bills.py:1650`), so it reverses their payments and opens them again; the
reversal is in the model as it is, and `PaymentsRespectCancellation` speaks of payments.

**Bounds.** Two payments of two cents against totals of one and three: exact payment,
overpayment by the tolerated cent and refusal all occur. Two slots give every pair of races,
three requests let a third begin while the second is being compensated; two attempts cover
both a compare-and-set that is tried again and one that gives up (20 in the code). The model
stops when its requests are used up, so the deadlock check is off; so it is in the other
models, whose requests are bounded too.

**Proved** (for any finite sets of payments and slots, any amounts and totals, any number of
attempts):

- `TypeCorrect`: no amount goes below zero.
- `BalanceIsRight` (`BalanceAddsUp`). It is not inductive: a reversal writes `outstanding` from
  the total it has *read* but leaves the stored total alone, and compares only the paid
  amount. `BalanceInv` adds that, where no edit or correction overlapped, a request about to
  unwind has read the present total, and that a request about to replace the bill is alone. So
  a reversal's weaker comparison is harmless exactly as long as no edit runs beside it.
- `PaymentsKeepCancellations` (`PaymentsRespectCancellation`), by `CancellationInv`: a request
  about to reserve has read a bill that was not cancelled, so on a cancelled one its
  compare-and-set must fail; a compensation re-reads, and keeps the cancellation it finds.

- `MoneyIsConserved` (`MoneyConserved`) and `OverpaidByCentsOnly` (`NeverOverpaid`). Both compare
  the paid amount with sums over all payments and all requests in flight. `SumTheorems` proves,
  from the definition of the fold, the one fact such a proof needs: when a function changes at
  one point, its sum changes by the difference there. `FlightInv` says of every request what it
  holds (an amount reserved, a payment inserted, a reversal claimed) and that no two hold the
  same payment; `MoneyInv` adds the balance sheet. Each step is then of one of a few kinds
  (`StepCases`): it moves an amount between the bill, a request and a payment, or none.
- `StatusesAreEarned` (`StatusIsEarned`), by an invariant on what each request has read and
  computed, where nothing was raced, failed or set by hand.
- `KeysAreUsedOnce` (`KeyUsedOnce`): the payments of one key, and the requests that may still
  record one under it, are at most one in all, as long as no key is `unsafe`.

The properties of this model are all proved.

## 5. The monthly grid and the registry of numbers

Modules: `ManualReferences` (the registry: what conflicts, what an upsert, a compensation and
a release do to it), `MonthlyDays` (the requests on the grid, which use it), `MonthlyDaysInv`
(inductive invariant), `MonthlyDays_proofs`, `MCMonthlyDays`.

**State.** `months`: the documents of `monthly_entries`, oldest first, since `find_one` returns
the oldest; `reserved`: `manual_references`; `records`: the gate passes, deliveries and
rewashes that confirmations and people create; `keyed`: idempotency keys; `request`: program
counters with what was read. `mixed` is history: the days two requests edited at once, one
died in, or whose month has two documents.

**Actions.** A save is `StartSave`, `InsertNewMonth` when the month has no document, then
`CheckNumber` per number, `ReadOwned`, `Claim` per number (or `Unclaim`, when the index on
`scope_key` refuses one), `WriteDay`, `Release`. A confirmation is `StartConfirm`,
`InsertRecord` per record, `MarkConfirmed`, `Remember`; a cancellation `StartCancel`, `Unset`,
`Release`. A gate pass made by hand reserves its number in the same way (`StartPass`), or has
a generated one (`StartSheet`), is inserted, and is written back into its day (`SyncRead`,
`SyncNewMonth`, `SyncWrite`); an edit of it writes its numbers over the day's (`StartEdit`,
`Propagate`). `Crash` ends any of them.

**Abstracted.** One hotel and one month; quantities to whether there are any; ALRS numbers are
treated as gate-pass numbers are, and share the field `number`; the reads that check one number
are one step; a generated number is fresh, because it is claimed by a unique insert before it
is used, and differs from what people type (`next_receiving_number` skips numbers in use, and
the registry refuses a typed one that was generated: `GeneratedAssumption`); the gate passes
a delivery day draws from are reduced to their number, because its
deliveries are drafts and take nothing (`DeliveryLedger` activates drafts). The status
CANCELLED of a day is tested by the code and never set, so it does not occur.

**The run** `monthly_days` has two days of the receiving grid, a delivery day and a rewash day,
two numbers of which one is also a bill number, three requests of which two overlap, and
crashes. Three requests suffice for what the properties fear: one that leaves something behind
and two that meet over it, or two that compete and a third that finds the result.

| Property | Says |
|---|---|
| `ReservedIsShown` | a day at rest holds the reservations of exactly the numbers it shows: a refused request has neither kept nor lost one |
| `NumbersUsedOnce` | the numbers of a day at rest are on no other day, and on no gate pass of another day |
| `RecordsAreShown` | a day at rest lists exactly the records made for it, drafts have none, and there are no two passes of the grid for one day |
| `ConfirmedForGood` | a confirmed day stays confirmed and loses no record |

All four speak of days that are not `mixed`. That is a real limit of the code: requests on one
day are not serialised, and the last write wins. In particular, although `monthly.py:12` says
that a day is confirmed once, two confirmations at once, or a retry after a crash, create two
gate passes. The properties show that nothing spreads from there to days edited properly, and
that requests on *different* days, which meet in the registry, cannot hurt each other. They
also say nothing of two things the code leaves open: bill numbers on gate passes made by hand
are never reserved, and tenants with a hotel of the same name share the owner of a day's
reservations (`monthly.py:597`), so the run has one laundry.

**Proved** (for any finite set of days, any numbers, payloads, keys, requests and bounds, and
crashes):

- `TypeCorrect`, for any laundries.
- For one laundry: `ReservedWhatIsShown` (`ReservedIsShown`), `RecordsAreListed`
  (`RecordsAreShown`), `NumbersAreUsedOnce` (`NumbersUsedOnce`) and `ConfirmedStaysConfirmed`
  (`ConfirmedForGood`). The hypothesis is not a convenience: with two laundries whose hotels
  have the same name, each releases what the other has reserved.

All follow from one inductive invariant, `MonthInv` (`MonthInvHolds`). None of the properties
says anything while a request is under way on the day, which is where the work is: between two
awaits a save holds numbers the day does not show yet, or still holds some it no longer shows,
and a confirmation has made records the day does not list. `Surplus` and `Unlisted` say which,
for each await, and `Exact` that the books balance up to them; `UpToDate` says that the copy a
request has read is still what the day is, and `Progress` what it has claimed so far, so that a
compensation returns precisely that. These speak of clean days, on which a request is alone;
`OneAtATime` is what clean means. Requests elsewhere leave the books of a day as they are
(`BooksElsewhere`): they write other cells and release other owners' numbers only. What
connects the days is the registry: `PassesHeld` says that a number typed for a pass made by
hand stays with the request that reserved it, which the registry releases for nobody, and
`PassNumbersDiffer` is the unique index, so a number is held either by one day or by one pass
(`HoldersDiffer`). `GeneratedOld` says that a generated number is never shown before its pass
exists, so that the next one is new. TLC found no violation of any part on the instance of the
run.

## 6. Shop bills and legacy invoices

Modules: `ShopBills`, `ShopBillsInv` (inductive invariant), `ShopBills_proofs`, `MCShopBills`.

**State.** `bills`: amounts, paid amount, payments, status, lock, whether the bill is in the
trash, and whether its encrypted fields can still be read together (`update_bill` encrypts
only the fields of its patch, under a data key of its own, and replaces the key of the whole
document). `invoice`: a legacy invoice, the monthly figure of a hotel. `request`: the handler
in flight, the bill it has read and the one it will write. History: `patched`, bills a patch
has been used on, and `byHand`, bills written by a handler that credits a bill and appends
nothing to its payments. Which handler it was is a field of the request, set where it starts
(`RewriteByHand`, `InsertByHand`): it does not follow from the amounts the write changes.

**Actions.** Each handler is its read (`PatchBill`, `AddItem`, `RemoveItem`, `UpdateItem`,
`UpdateDiscount`, ..., `SplitBill`, `BeginMerge` and `MergeWith`, `RecordPayment`, `Refund`,
`BulkMarkPaid`, `VoidBill`, `LockBill`, `UnlockBill`, `DeleteBill`, ...) and the write that
follows (`Write`, `InsertBill`, `WriteInvoice`, ...). What a write takes from the read and what
it leaves alone follows the code: a whole document, or the fields of a `$set`.

**Left out.** Templates; contents of tags, dates, attachments and recurrence (the writes that
put the rest back are there); bill numbers; reports. `PATCH /{bill_id}/items/reorder` and
`/items/bulk-update` are never reached, since `/items/{item_index}` is registered before them.

**The run** `shop_bills`: two bills, two requests at a time, three in all, two prices, at most
two lines. Two whole-document writers meet over one bill, and a third finds the result. Amounts
of payments are above zero, as their model requires (`Amounts`); what refunds, credit notes and
opening amounts take unchecked is any number (`Entered`, here 2 and -2), and so are discounts,
fees and taxes (`Charges`, here -5, 0 and 5).

| Property | Says |
|---|---|
| `BooksBalance` | whoever wrote last, a bill that no PATCH has touched can be read, all fields of it; of a bill that can be read items, charges, totals and outstanding amount belong together (a credit note has a total and no items) |
| `PaidIsBacked` | no bill has more paid than its list of payments, but for bills written by one of the four handlers that credit without a payment |
| `LockHolds` | what a locked bill charges is changed by no request that read it locked, and a paid legacy invoice by none that read it paid |

**What `PaidIsBacked` leaves out.** `bulk-mark-paid`; a manual bill with an opening amount; a
refund of a negative amount, which credits the bill (`shop_bills.py:2510-2511`); a credit note of
a negative amount, which is a paid bill without a payment (2523-2524). The last two are a gap of
the code: the docstring of `_clamp_paid` (219-224) speaks against amounts that mark a bill as
paid without a payment, but only new bills pass through it. The properties hold with such
amounts in the run and in the proofs; what they cannot say is that these bills are paid.

**Known limits.** A PATCH leaves the encrypted fields it does not name unreadable, and the next
whole-document write makes that final (`shop_bills.py:761`). A request that read a bill before
it was locked unlocks it again. `split_bill` writes the original before it inserts the new
bill: a failure in between (`Die`) loses the items (`shop_bills.py:977`), and the original is
neither bumped nor enqueued.

**Proved** (for any bills, requests, prices, charges and entered amounts, below zero as well, and any bounds;
only the amounts of payments are above zero, which their model validates): `TypeCorrect`, `BooksAlwaysBalance`, `PaidIsAlwaysBacked` and `LocksHold`, from one invariant,
`ShopInv` (TLC finds it to hold on the run's instance). Writes here are unconditional and may come arbitrarily late, so
none of the properties can rest on what the request has read being current. `ShopInv` therefore
says that what a request has in hand is sound *whenever* it is written: it writes the whole
document (but perhaps an empty list of payments), and the document adds up; or the lock alone; or
the fields of a PATCH, which tear the document and never touch the money that was paid
(`WriteSound`). Each handler starts with a sound request (one lemma per handler), others leave it
sound, and writing it leaves the bill sound. The cent that rounding forgives is only ever left on
a bill whose status takes no further payment (`Settled`), which is what keeps it at one cent.

## 7. Corrections of a gate pass, and its bills

Modules: `Receipts` (the writers of the pass), `Billing` (extends it: bills, propagation),
`BillingInv` (the inductive invariant), `Billing_proofs`, `MCBilling`.

**State.** `pass` (items, status, the note that closed a legacy pass), `deliveries`,
`adjustments`, `request`; `bills` and `work` (what a cashier, or a propagation, has read and
will write). A line of a pass is an item and a specification, lines are all of one item, since
bills count by item; one line may be a free re-wash. A bill charges a number of pieces on each
of its `Rows`: nothing keeps a bill from naming an item on several lines (`models.py:364-395`),
and the code holds each line for itself against the ceiling (`Within`). History: `latest`, the items the accepted
operations amount to; `applied`, how often an adjustment changed the pass; `excuses`.

**Actions.** update_gate_pass: `StartEdit`, `CountMovements`, `ReplaceEdited`, then the bills.
catch_up_delivery: `StartCatchUp`, `RecordCatchUp`, `RefreshAndReread`, `PutPassBack`.
_reopen_legacy_doc: `StartReopen`, `CountBeforeReopening`, `Reopen`. approve_adjustment:
`StartApproval`, `LoadMovements`, `ClaimAdjustment`, `ReplaceCorrected` (conditional on
updated_at), `MarkApproved` or `ReleaseAdjustment`. Deliveries, their cancellation and the
cancellation of the pass are one step each here. create_bill: `StartBill`, `ReadBilled`,
`InsertBill`. edit_bill: `StartBillEdit`, `CheckCeiling`, `ReplaceBill`. Payments, deletion
and update_bill_status are single updates. sync_bills_to_gate_pass: `ReadLinked` (one batch),
`WriteLinked` per bill, `PropagationFails`. Crashes end any of them.

| Run, property | Says |
|---|---|
| `billing`: `CorrectionsStand` | the received quantities are those of the accepted operations in their order; approvals lose neither each other nor anything beside them |
| `AppliedOnce` | an adjustment changed the pass once if approved, never if open or rejected, and never twice |
| `PassCoversBills` | counting one line of each, whichever, the bills that name the pass charge no more than was received, or delivered; a bill of one line counts in full |
| `CorrectionsReachBills` | no line of a linked bill charges more than the corrected receipt, unless the bill is paid and annotated |

**What is excused.** `latest` follows an edit, a catch-up or a reopening that had read the items
before a correction: those three put the whole pass back (`gatepasses.py:579`), and the
correction is lost. "raced": bills were written on what had been overtaken (the ceiling is
looked at before the insert only). "shrunk": the receipt, or what was delivered, went below
what was billed; the second when a delivery is cancelled after an edit charged up to it
(`cancel_delivery`, `deliveries.py:880`, tells no bill).
"reopened": a paid or cancelled bill was set back by hand, or by a reversed payment. "delivered": an edit up to the
delivered quantity, which may be above the receipt (`edit_bill` has another ceiling than
`create_bill`, re-washes included). "reverted": a writer that tells no bill undid the
correction. "unfinished": the propagation failed, which is logged and never repeated. An
adjustment claimed by a process that dies stays APPROVING for ever (`adjustments.py:242`).

**Known limits.** Two lines of one item pass the ceiling together although they exceed it:
`create_bill` and `edit_bill` compare each line with the same rest (`bills.py:288-299, 458-478,
573-593`), while the docstring (`bills.py:240-250`) says that any jump beyond the ceiling fails.
One request can charge a pass twice in this way; the run's `Entries` have such a bill, and
`PassCoversBills` is what remains: all lines of the *other* bills are counted, so no second bill
adds to it. In the same way a correction clamps each line to the receipt (`bill_sync.py:203-213`):
a bill of two lines of 2 for a receipt corrected from 4 to 2 is left as it is, charging 4, and
`CorrectionsReachBills` is about single lines.

`PassCoversBills` is about bills that name the pass. A bill by deliveries is held against
earlier bills of the same deliveries and the receipt of the whole pass (`bills.py:439`), so two
bills for two deliveries of one pass do not see each other.

**Bounds.** Two pieces and a re-wash, two deliveries, two adjustments, two users on the pass, a
cashier with two bills, four operations: an approval meets a catch-up, or a second approval,
while a bill is created, and a fourth operation finds the result. A bill has two rows: users
enter one piece on one line, or two pieces on each of two (`Entries`), which together are more
than can ever be charged for.

**Proved** (for any lines, adjustments, users, cashiers, bills and bounds):

- `ReceiptsTyped`: the pass, its movements, its adjustments and what its writers have in hand.
- `AdjustmentsApplyOnce` (`AppliedOnce`) and `CorrectionsAreKept` (`CorrectionsStand`), from
  the invariant `ApprovalInv`. Neither holds by itself. The first needs `Claims`: who has
  claimed an adjustment is alone with it, since the claim requires REQUESTED and nobody but
  its holder leaves APPROVING; before the replacement it was applied never, after it once.
  The second needs `ItemsRead`: an approval whose `updated_at` is current has in hand the
  items of now, corrected; a writer that is `unchanged` has those of now. `Shapes` says which
  request is where. One lemma per handler, over lemmas for the kinds of steps there are: a
  request moves on, somebody writes the pass, somebody settles an adjustment.

- `TypeCorrect` (`TypeOK`), `PassAlwaysCoversBills` (`PassCoversBills`) and `CorrectionsReach`
  (`CorrectionsReachBills`), from `BillingInv`. `HandsSound` says what those in the middle of
  a request have in hand: who is `fresh` holds the billable quantity of now, lines each within
  the ceiling of now, or the copy with clamped lines of every bill still to be written; who is
  not raises the excuse "raced" by writing. `BillsNameMade`: no bill names a delivery that is still to be
  made, so a delivery brings no bill within reach of a correction that has passed it by.
  `CorrectionsPursued` strengthens the second property: if a linked bill charges too much,
  somebody is on the way who has not read the bills yet, or has the bill among those left to
  write, or was overtaken and will raise an excuse. The proof goes by kinds of steps (somebody
  takes a bill in hand, somebody writes one, a writer of the pass moves), with the sums over
  bills, and over the lines picked, split at the bill written (`PickedWith`, over `SumTheorems`).

Nothing of this section is left to TLC alone.

## 8. Linens and the screens that follow them

Modules: `Linens`, `LinensInv` (the inductive invariant), `Linens_proofs`, `MCLinens`.

**State.** `docs` (status and wash count), `washed` (rows `complete_wash` of the audit trail),
`clock` (of the laundry), `request`, `conns` (channels, queue and state of a connection),
`screens`. The browser is not part of the repository: a screen patches its rows from events,
and loads the list when a greeting or a pong has a later clock than the last it saw, as the
protocol says (`routers/realtime.py:15-31`).

**Actions.** A scan is `ScanLinen` (reads), `WriteLinen`, `RecordScan`, `RereadLinen`,
`BumpLiveClock`, `Publish`; a bulk scan goes round `NextCode`, `WriteLinen`, `RecordScan`, and
composes its rows from what it read; edits, deletions and creations (of at least one linen,
`models.py:529`, `models.py:658`) share the steps. `Offered` puts what a request publishes into
a connection one by one, dropping a connection whose queue is full. The hub:
`Connect`, `Greet`, `Subscribe`, `Unsubscribe`, `Ping` and `Pong` (the clock is read, and the
answer queued later), `Pump` (the writer task), `Disconnect`. `Crash` ends everything.

The run is `linens`:

| Property | Says |
|---|---|
| `WashesCounted` | wash count and audit trail agree |
| `NeverSilentlyStale` | a screen that shows an old row has its event coming, or the clock ahead of it |

`TypeOK` includes that queues and subscriptions stay within their limits.

**What is excused.** `disturbed`: linens that two requests had in hand at once, or that a
request died with: the wash count is read and set, and one of two is lost. `missed`: rows that
will never reach a screen although it sees their clock: published between greeting and
subscription, or thrown out of a full queue while another row of the same bulk scan gets
through. These are real: only a reload shows them, although `routers/realtime.py:29-30` says that
a dropped socket cannot leave a screen silently stale. A row leaves `missed` when the screen loads
the list and nothing of the linen is left in its queue.

**Bounds.** Two linens, two requests in all, one screen, a queue of two frames (so that it
overflows), one channel. A second screen would share nothing with the first.

**Proved** (`Linens_proofs`), for any finite sets of linens, users and screens, any batches,
queue sizes, channel limits and numbers of requests: all three, `Spec => []TypeOK`,
`Spec => []WashesCounted` and `Spec => []NeverSilentlyStale`, from one inductive invariant,
`LinensInv` (which TLC finds to hold on the instance of the run too). Nothing of this section
is left to TLC alone. Its parts:

- *Requests.* `Shaped`: where a request of each kind can be and what it holds there; it makes
  every `Head` and `Tail` well defined. `Apart`: two requests touch one linen only if it is in
  `disturbed`, and two that create do not create the same. `Holds`, `Publishes`: of a linen no
  requests met on, what a request read, set, and will publish is what is stored; so a bulk
  scan, which composes the row instead of reading it again, publishes what it wrote.
- *Washes.* A linen that is still to be created has no washes (`Washed`), and by `Apart` the
  request that has counted a wash and not recorded it is the only one of its linen, so that
  recording it restores the sum.
- *The clock.* `Clocked`: no frame and no request has a later clock than the laundry; requests
  with a bump to come keep it within the bound.
- *Screens.* `Fresh`: no screen has heard of a linen that is not there yet, nor of one that a
  bulk creation, which publishes no rows, has in hand. `UpToDate` is what lies behind
  `NeverSilentlyStale`, in two forms. Of a connection that is followed (`Followed`): the last
  row of the linen in the queue is the stored one; or there is none, and what is shown is
  stored or the greeting that reloads is the next frame. Of one that is closed, absent or not
  yet greeted (`Settled`), where at most one frame is still sent: the screen after that frame
  shows what is stored, or is behind the clock, or loses the linen's row beyond that frame,
  which is `missed` unless its clock will tell. The two are different invariants because an
  overflow throws out the oldest frame and puts the connection from the first into the second.

The proof has one lemma per action. Those of requests share `WorkKept`: a step keeps the
invariant if it keeps its own request's part (`Kept`), counts for the clock (`Ticks`) and
leaves the linens it does not touch alone, which `Others` turns into the other requests' part
and `WorkScreened` into the screens'. Those of connections share `HubKept`. `Publish` goes by
what `Offered` does to a queue (`Stage`, by counting up the frames, `CountingUp` of
`SumTheorems`): frames are kept in order, or the connection closes.

## 9. The local backup

Modules: `LocalBackup` (extends `Replication`), `ReplicaFeed`, `LocalBackupInv` (inductive
invariants), `Replication_proofs` (its second half), `MCLocalBackup`.

**State.** `local`: record to document in LOCAL. `backup`: what each administrator's run has
read and has left to do. History: `agreed` (a run has gone through alone since MAIN last
changed), `overlapped`, and `muddled`, the records of which one version names two contents.

**Actions.** `StartBackup` reads LOCAL's versions, `ReadDocuments` MAIN, `CopyToLocal` replaces
one document, `ReadIds` and `ListCopies` list both sides again, `DropCopy` deletes one copy,
`BackupFails` ends a run anywhere (LOCAL failed, or the process died). Handlers and their
crashes are those of `Replication`; workers play no part, so the instance has none. One entity
stands for all: they share no collection, and a run treats them one after the other.

The run is `local_backup`:

| Property | Says |
|---|---|
| `BackupMatches` | after a run that went through alone, and until MAIN changes, LOCAL has the documents of MAIN, and their contents but for `muddled` records, whatever runs that died or overlapped had left |
| `OneRunFollows` | while runs do not overlap, LOCAL implements `ReplicaFeed`: no copy goes back, none of a live document is dropped, a deleted one never returns |

**Known limits.** The diff is one of versions (`local_sync_service.py:6`), so an edit is never
copied when its version repeats an older one: a handler died between its write and its bump,
a whole-document write put an old version back, a linen scan bumps nothing, or the document
had no version before (which counts as 1, like the first bump, `entity_registry.py:52`). Of
two runs at once, which nothing prevents, the slower one puts back what it read.

**Bounds.** Two runs, two handlers, one record (documents are copied independently, in an order
that no property looks at), two contents, one crash.

**Proved** (in `Replication_proofs`), for any number of records, handlers, workers and runs, all
kinds of writers and all faults: the types (`BackupTyped`), `CopiesMatch` and `BackupFollows`,
which are `BackupSpec => []BackupMatches` and `BackupSpec => OneRunFollows`. No constant has to
satisfy anything but the assumptions of `Replication`: a backup is a behaviour of `Replication`
(`BackupIsSpec`), so types and shapes of documents are taken over from its proofs.

`BackupMatches` says versions agree, and wants contents. `BackupInv` supplies what lies between
them. `VersionsCount`: a version, counted from the first content, falls behind the contents
only by the bumps still owed, so a record under version 1 with a second content has a handler
about to bump it. `BasesOld`: what a handler will put back is older than what it has bumped,
once it has; so putting it back is what makes a version name two contents, and is in `muddled`.
`CopiesSound`: a copy, in LOCAL or in a run's hands, is of an earlier content under the current
version only while a bump is owed. Handlers touch one record at a time, and all they do to a
record that is not in `muddled` is write it and owe a bump, pay one, or remove it
(`RecordMoves`). `AloneExact` follows a run through its phases as long as nothing else has
happened: what it has treated is up to date, what it has yet to treat it knows. `AgreedQuiet`:
after such a run, later ones find nothing to do. When MAIN changes both are void, which is all
that has to be shown of the handlers for them.

`OneRunFollows` rests on `OneRunInv`: LOCAL is behind each record's history and has dropped
nothing that is in MAIN, and the only run's plans keep it so. The step is that of the feed's
source for handlers (as for SECONDARY) and of its replica for the run. Nothing of this section
is left to TLC alone.

## 10. Plan

Written: replication, ledger, payments and the grid first, because the first two hold what
the business cannot do without (no linen invented, no document lost), the third its money, and
the fourth is where most records begin; then shop bills, corrections with their bills, and
linens and the local backup. Every invariant and action property that a passing run checks is
a theorem, some under the hypotheses their sections name; liveness is not. Next: *loyalty, dispatch, the today sheet.*

## 11. What is out of reach

Liveness and ENABLED stay with TLC. The library's induction theorems take operators as
parameters, which the provers cannot instantiate; what the proofs need of sums over finite
sets and of counting (`CountingUp`) is proved in `SumTheorems` by the smallest
counterexample, of the fold from its definition. No module declares a RECURSIVE operator, so all of them can be proved about. The rest of the repository (section 1, last rows) is
read-only aggregation, pure functions or wiring: it has no protocol state to check.

## 12. Running

In this directory: `tlc -config <cfg> <module>` with the pairs in `PROJECT.json`, and
`tlapm <module>` for the `_proofs` modules and `SumTheorems`.
