------------------------------ MODULE Replication ------------------------------
(***************************************************************************)
(* MAIN -> SECONDARY replication through the durable queue MAIN.sync_queue. *)
(*                                                                         *)
(* Request handlers write a document in MAIN, bump its sync_version and    *)
(* enqueue a row; workers (the background loop and every admin drain)      *)
(* claim rows under a lease, copy, verify and acknowledge them.  Every     *)
(* await on a collection is one atomic step, nothing is transactional, and *)
(* the steps of all handlers and workers interleave.                       *)
(***************************************************************************)
EXTENDS Naturals, FiniteSets

CONSTANTS Records,      \* the synchronised documents (entity, record_id)
          Handlers,     \* request slots: one request in flight in each
          Workers,      \* run_worker, and each concurrent admin drain
          NoWorker,     \* claim_token is unset
          Kinds,        \* the ways the handlers of this deployment write
          Faults,       \* what may go wrong
          MaxAttempts,  \* MAX_ATTEMPTS
          MaxWrites,    \* bound: contents a record goes through
          MaxFaults     \* bound: crashes and lost heartbeats of a behaviour

AllKinds  == {"create", "set", "replace", "bumpReplace", "delete", "silent"}
AllFaults == {"handlerCrash", "workerCrash", "heartbeatLost", "secondaryDown"}

ASSUME RecordsAssumption  == Records # {}
ASSUME NoWorkerAssumption == NoWorker \notin Workers
ASSUME KindsAssumption    == Kinds \subseteq AllKinds
ASSUME FaultsAssumption   == Faults \subseteq AllFaults
ASSUME BoundsAssumption   == /\ MaxAttempts \in Nat \ {0}
                             /\ MaxWrites \in Nat
                             /\ MaxFaults \in Nat

VARIABLES main,        \* record -> document in MAIN
          secondary,   \* record -> document in SECONDARY
          queue,       \* record -> its sync_queue row ("NONE": no row)
          verification,\* record -> its sync_status row in MAIN
          handler,     \* request slot -> where its request stands
          worker,      \* worker -> where its job stands
          faultCount   \* faults so far, for the bound

vars == <<main, secondary, queue, verification, handler, worker, faultCount>>

-----------------------------------------------------------------------------
(* A document: `ver` is the stored sync_version (0: the field is missing),  *)
(* `data` numbers its contents.  An absent document keeps the last ones it  *)
(* had, as history: the code reads neither.                                 *)
Doc == [present: BOOLEAN, ver: Nat, data: Nat]

NoDoc == [present |-> FALSE, ver |-> 0, data |-> 0]

EffectiveVersion(doc) == IF doc.ver = 0 THEN 1 ELSE doc.ver

Operations == {"UPSERT", "DELETE"}

Row == [status: {"NONE", "PENDING", "SYNCING", "FAILED"}, op: Operations,
        ver: Nat, attempts: Nat, due: BOOLEAN,
        token: Workers \cup {NoWorker}, lapsed: BOOLEAN]

NoRow == [status |-> "NONE", op |-> "UPSERT", ver |-> 0, attempts |-> 0,
          due |-> FALSE, token |-> NoWorker, lapsed |-> FALSE]

Statuses == {"NONE", "PENDING", "SYNCING", "VERIFIED", "FAILED"}

RequestPCs == {"idle", "bump", "store", "remove", "enqueue", "pend"}

Request == [pc: RequestPCs, kind: AllKinds, rec: Records, base: Nat, ver: Nat]

WorkerPCs == {"idle", "mark", "read", "copy", "drop", "verify", "record",
              "ack", "release", "fail", "markFailed"}

Job == [pc: WorkerPCs, rec: Records, op: Operations, ver: Nat, attempt: Nat,
        doc: Doc, result: Statuses]

TypeOK ==
  /\ main \in [Records -> Doc]
  /\ secondary \in [Records -> Doc]
  /\ queue \in [Records -> Row]
  /\ verification \in [Records -> [status: Statuses, ver: Nat]]
  /\ handler \in [Handlers -> Request]
  /\ worker \in [Workers -> Job]
  /\ faultCount \in Nat

AnyRecord == CHOOSE r \in Records : TRUE

IdleRequest == [pc |-> "idle", kind |-> "set", rec |-> AnyRecord, base |-> 0, ver |-> 0]

IdleJob == [pc |-> "idle", rec |-> AnyRecord, op |-> "UPSERT", ver |-> 0,
            attempt |-> 0, doc |-> NoDoc, result |-> "NONE"]

Init ==
  /\ main = [r \in Records |-> NoDoc]
  /\ secondary = [r \in Records |-> NoDoc]
  /\ queue = [r \in Records |-> NoRow]
  /\ verification = [r \in Records |-> [status |-> "NONE", ver |-> 0]]
  /\ handler = [h \in Handlers |-> IdleRequest]
  /\ worker = [w \in Workers |-> IdleJob]
  /\ faultCount = 0

-----------------------------------------------------------------------------
(* Request handlers.  The document is written first (or bumped first), the  *)
(* row is enqueued last: a request that stops in between leaves no row.     *)

Goto(h, pc) == handler' = [handler EXCEPT ![h].pc = pc]

Finish(h) == handler' = [handler EXCEPT ![h] = IdleRequest]

Start(h, kind, r, pc) ==
  /\ kind \in Kinds
  /\ handler[h].pc = "idle"
  /\ handler' = [handler EXCEPT ![h] =
       [pc |-> pc, kind |-> kind, rec |-> r, base |-> main[r].ver, ver |-> 0]]

HandlerFrame == UNCHANGED <<secondary, verification, worker, faultCount>>

(* insert_one of a new document, which carries no sync_version yet. *)
Create(h, r) ==
  /\ main[r] = NoDoc /\ MaxWrites > 0
  /\ Start(h, "create", r, "bump")
  /\ main' = [main EXCEPT ![r] = [present |-> TRUE, ver |-> 0, data |-> 1]]
  /\ UNCHANGED queue /\ HandlerFrame

Editable(r) == main[r].present /\ main[r].data < MaxWrites

NewContent(doc) == [doc EXCEPT !.data = @ + 1]

(* update_one({_id}, {$set: fields}): sync_version is not among the fields. *)
SetFields(h, r) ==
  /\ Editable(r)
  /\ Start(h, "set", r, "bump")
  /\ main' = [main EXCEPT ![r] = NewContent(@)]
  /\ UNCHANGED queue /\ HandlerFrame

(* edit_bill, activate and the gate-pass edits read the whole document and  *)
(* later put the whole document back, sync_version included ...             *)
ReadForReplace(h, r) ==
  /\ Editable(r)
  /\ Start(h, "replace", r, "store")
  /\ UNCHANGED <<main, queue>> /\ HandlerFrame

(* ... and update_legacy_invoice bumps in between. *)
ReadForBumpReplace(h, r) ==
  /\ Editable(r)
  /\ Start(h, "bumpReplace", r, "bump")
  /\ UNCHANGED <<main, queue>> /\ HandlerFrame

(* replace_one matches nothing when the document is gone. *)
ReplaceDocument(h) ==
  LET req == handler[h] IN
  /\ req.pc = "store"
  /\ main' = [main EXCEPT ![req.rec] =
       IF @.present THEN [NewContent(@) EXCEPT !.ver = req.base] ELSE @]
  /\ Goto(h, IF req.kind = "replace" THEN "bump" ELSE "enqueue")
  /\ UNCHANGED queue /\ HandlerFrame

(* A delete starts by capturing a version: bump_version needs the document. *)
BeginDelete(h, r) ==
  /\ main[r].present
  /\ Start(h, "delete", r, "bump")
  /\ UNCHANGED <<main, queue>> /\ HandlerFrame

AfterBump(kind) == CASE kind = "delete"      -> "remove"
                     [] kind = "bumpReplace" -> "store"
                     [] OTHER                -> "enqueue"

(* find_one_and_update $inc sync_version; KeyError ends the request. *)
BumpVersion(h) ==
  LET req == handler[h] IN
  /\ req.pc = "bump"
  /\ IF main[req.rec].present
     THEN /\ main' = [main EXCEPT ![req.rec].ver = @ + 1]
          /\ handler' = [handler EXCEPT ![h].ver = main[req.rec].ver + 1,
                                        ![h].pc = AfterBump(req.kind)]
     ELSE UNCHANGED main /\ Finish(h)
  /\ UNCHANGED queue /\ HandlerFrame

(* delete_one in MAIN.  When the document is already gone, linens and       *)
(* dispatch answer 404, the bill deletions enqueue all the same.            *)
RemoveDocument(h) ==
  LET req == handler[h] IN
  /\ req.pc = "remove"
  /\ main' = [main EXCEPT ![req.rec].present = FALSE]
  /\ \/ Goto(h, "enqueue")
     \/ ~main[req.rec].present /\ Finish(h)
  /\ UNCHANGED queue /\ HandlerFrame

(* Mutant: the kind itself is queued, instead of UPSERT or DELETE. *)
OperationOf_RawKind(kind) == kind

OperationOf(kind) == IF kind = "delete" THEN "DELETE" ELSE "UPSERT"

(* Mutant: the operation and version of an existing row are left alone. *)
Enqueued_InsertOnly(row, op, ver) ==
  [row EXCEPT !.status = IF row.status = "NONE" THEN "PENDING" ELSE row.status,
              !.op = IF row.status = "NONE" THEN op ELSE row.op,
              !.ver = IF row.status = "NONE" THEN ver ELSE row.ver,
              !.attempts = 0, !.due = TRUE]

(* Upsert of the row: status is set on insert only, so a claim in flight    *)
(* keeps its lease, and a FAILED row stays FAILED until the next step.      *)
Enqueued(row, op, ver) ==
  [row EXCEPT !.status = IF row.status = "NONE" THEN "PENDING" ELSE row.status,
              !.op = op, !.ver = ver, !.attempts = 0, !.due = TRUE]

EnqueueRow(h) ==
  LET req == handler[h] IN
  /\ req.pc = "enqueue"
  /\ queue' = [queue EXCEPT ![req.rec] = Enqueued(@, OperationOf(req.kind), req.ver)]
  /\ Goto(h, "pend")
  /\ UNCHANGED main /\ HandlerFrame

(* Mutant: the second update of _enqueue_operation is forgotten. *)
EnqueuePending_Skipped(h) ==
  /\ handler[h].pc = "pend"
  /\ Finish(h)
  /\ UNCHANGED <<main, queue>> /\ HandlerFrame

(* update_one({status: {$ne: SYNCING}}, PENDING). *)
EnqueuePending(h) ==
  LET req == handler[h] IN
  /\ req.pc = "pend"
  /\ queue' = [queue EXCEPT ![req.rec].status =
       IF @ \in {"NONE", "SYNCING"} THEN @ ELSE "PENDING"]
  /\ Finish(h)
  /\ UNCHANGED main /\ HandlerFrame

(* scan_linen, reverse_payment and the returns router write a synchronised  *)
(* document and neither bump nor enqueue.                                   *)
SilentWrite(r) ==
  /\ "silent" \in Kinds
  /\ Editable(r)
  /\ main' = [main EXCEPT ![r] = NewContent(@)]
  /\ UNCHANGED <<queue, handler>> /\ HandlerFrame

(* The process dies, or MAIN fails, between two awaits of a request. *)
HandlerCrash(h) ==
  /\ "handlerCrash" \in Faults /\ faultCount < MaxFaults
  /\ handler[h].pc # "idle"
  /\ faultCount' = faultCount + 1
  /\ Finish(h)
  /\ UNCHANGED <<main, secondary, queue, verification, worker>>

HandlerStep(h) == \/ BumpVersion(h)
                  \/ ReplaceDocument(h)
                  \/ RemoveDocument(h)
                  \/ EnqueueRow(h)
                  \/ EnqueuePending(h)

NewRequest(h, r) == \/ Create(h, r)
                    \/ SetFields(h, r)
                    \/ ReadForReplace(h, r)
                    \/ ReadForBumpReplace(h, r)
                    \/ BeginDelete(h, r)

-----------------------------------------------------------------------------
(* Workers. *)

WorkerFrame == UNCHANGED <<main, handler, faultCount>>

WorkerGoto(w, pc) == worker' = [worker EXCEPT ![w].pc = pc]

Rest(w) == worker' = [worker EXCEPT ![w] = IdleJob]

(* Mutants: a claim in flight is up for grabs; a lapsed one never is. *)
Claimable_IgnoresLease(row) == row.status \in {"PENDING", "SYNCING"} /\ row.due
Claimable_NeverLapsed(row) == row.status = "PENDING" /\ row.due

Claimable(row) == \/ row.status = "PENDING" /\ row.due
                  \/ row.status = "SYNCING" /\ row.lapsed

(* find_one_and_update of a due row in drain_due_jobs: a fresh token and a  *)
(* fresh lease; attempt_job counts one more attempt.                        *)
Claim(w, r) ==
  /\ worker[w].pc = "idle"
  /\ Claimable(queue[r])
  /\ queue' = [queue EXCEPT ![r].status = "SYNCING", ![r].token = w, ![r].lapsed = FALSE]
  /\ worker' = [worker EXCEPT ![w] =
       [pc |-> "mark", rec |-> r, op |-> queue[r].op, ver |-> queue[r].ver,
        attempt |-> queue[r].attempts + 1, doc |-> NoDoc, result |-> "NONE"]]
  /\ UNCHANGED <<secondary, verification>> /\ WorkerFrame

SetVerification(r, st, ver) ==
  verification' = [verification EXCEPT ![r] = [status |-> st, ver |-> ver]]

MarkSyncing(w) ==
  LET job == worker[w] IN
  /\ job.pc = "mark"
  /\ SetVerification(job.rec, "SYNCING", job.ver)
  /\ WorkerGoto(w, IF job.op = "DELETE" THEN "drop" ELSE "read")
  /\ UNCHANGED <<secondary, queue>> /\ WorkerFrame

(* process_one reads MAIN; a missing document is a RuntimeError. *)
ReadMain(w) ==
  LET job == worker[w]
      doc == main[job.rec] IN
  /\ job.pc = "read"
  /\ IF doc.present
     THEN worker' = [worker EXCEPT ![w].doc = doc, ![w].pc = "copy"]
     ELSE WorkerGoto(w, "fail")
  /\ UNCHANGED <<secondary, queue, verification>> /\ WorkerFrame

CopyToSecondary(w) ==
  LET job == worker[w] IN
  /\ job.pc = "copy"
  /\ secondary' = [secondary EXCEPT ![job.rec] = job.doc]
  /\ WorkerGoto(w, "verify")
  /\ UNCHANGED <<queue, verification>> /\ WorkerFrame

DeleteReplica(w) ==
  LET job == worker[w] IN
  /\ job.pc = "drop"
  /\ secondary' = [secondary EXCEPT ![job.rec].present = FALSE]
  /\ worker' = [worker EXCEPT ![w].pc = "record", ![w].result = "VERIFIED"]
  /\ UNCHANGED <<queue, verification>> /\ WorkerFrame

(* SECONDARY cannot be written: process_one raises. *)
SecondaryFails(w) ==
  /\ "secondaryDown" \in Faults
  /\ worker[w].pc \in {"copy", "drop"}
  /\ WorkerGoto(w, "fail")
  /\ UNCHANGED <<secondary, queue, verification>> /\ WorkerFrame

(* verify_document compares versions; an exception is caught and becomes    *)
(* the outcome FAILED, it is not retried.                                   *)
Verify(w) ==
  LET job == worker[w]
      doc == secondary[job.rec]
      matched == doc.present /\ EffectiveVersion(doc) = EffectiveVersion(job.doc) IN
  /\ job.pc = "verify"
  /\ \/ worker' = [worker EXCEPT ![w].pc = "record",
                                 ![w].result = IF matched THEN "VERIFIED" ELSE "PENDING"]
     \/ /\ "secondaryDown" \in Faults
        /\ worker' = [worker EXCEPT ![w].pc = "record", ![w].result = "FAILED"]
  /\ UNCHANGED <<secondary, queue, verification>> /\ WorkerFrame

(* Mutant: the status names the version that was queued, not the one copied. *)
RecordResult_QueuedVersion(w) ==
  LET job == worker[w] IN
  /\ job.pc = "record"
  /\ SetVerification(job.rec, job.result, job.ver)
  /\ WorkerGoto(w, "ack")
  /\ UNCHANGED <<secondary, queue>> /\ WorkerFrame

(* mark_verified, mark_failed or record_sync_status in MAIN.sync_status. *)
RecordResult(w) ==
  LET job == worker[w] IN
  /\ job.pc = "record"
  /\ SetVerification(job.rec, job.result,
       IF job.op = "DELETE" THEN job.ver ELSE EffectiveVersion(job.doc))
  /\ WorkerGoto(w, "ack")
  /\ UNCHANGED <<secondary, queue>> /\ WorkerFrame

(* _claim_owner_filter and _claim_filter. *)
Owns(w, row) == row.status = "SYNCING" /\ row.token = w

(* Mutant: the ack asks who owns the row, not which version it holds. *)
Matches_OwnerOnly(w, row) == Owns(w, row)

Matches(w, row) == Owns(w, row) /\ row.ver = worker[w].ver /\ row.op = worker[w].op

(* delete_one(_claim_filter): a row replaced meanwhile survives the ack. *)
Acknowledge(w) ==
  LET job == worker[w] IN
  /\ job.pc = "ack"
  /\ IF Matches(w, queue[job.rec])
     THEN queue' = [queue EXCEPT ![job.rec] = NoRow] /\ Rest(w)
     ELSE UNCHANGED queue /\ WorkerGoto(w, "release")
  /\ UNCHANGED <<secondary, verification>> /\ WorkerFrame

Returned(row, st) == [row EXCEPT !.status = st, !.token = NoWorker, !.lapsed = FALSE]

(* _release_claim. *)
ReleaseClaim(w) ==
  LET job == worker[w] IN
  /\ job.pc = "release"
  /\ queue' = [queue EXCEPT ![job.rec] =
       IF Owns(w, @) THEN Returned(@, "PENDING") ELSE @]
  /\ Rest(w)
  /\ UNCHANGED <<secondary, verification>> /\ WorkerFrame

(* The except branch of attempt_job: retry after a backoff, or give up. *)
FailAttempt(w) ==
  LET job == worker[w]
      spent == job.attempt >= MaxAttempts IN
  /\ job.pc = "fail"
  /\ IF Matches(w, queue[job.rec])
     THEN /\ queue' = [queue EXCEPT ![job.rec] =
               [Returned(@, IF spent THEN "FAILED" ELSE "PENDING") EXCEPT
                  !.attempts = job.attempt, !.due = spent]]
          /\ IF spent THEN WorkerGoto(w, "markFailed") ELSE Rest(w)
     ELSE UNCHANGED queue /\ WorkerGoto(w, "release")
  /\ UNCHANGED <<secondary, verification>> /\ WorkerFrame

MarkFailed(w) ==
  LET job == worker[w] IN
  /\ job.pc = "markFailed"
  /\ SetVerification(job.rec, "FAILED", job.ver)
  /\ Rest(w)
  /\ UNCHANGED <<secondary, queue>> /\ WorkerFrame

(* The worker process dies, or MAIN fails under it: its claim stays behind. *)
WorkerCrash(w) ==
  /\ "workerCrash" \in Faults /\ faultCount < MaxFaults
  /\ worker[w].pc # "idle"
  /\ faultCount' = faultCount + 1
  /\ Rest(w)
  /\ UNCHANGED <<main, secondary, queue, verification, handler>>

WorkerStep(w) == \/ MarkSyncing(w)
                 \/ ReadMain(w)
                 \/ CopyToSecondary(w)
                 \/ DeleteReplica(w)
                 \/ SecondaryFails(w)
                 \/ Verify(w)
                 \/ RecordResult(w)
                 \/ Acknowledge(w)
                 \/ ReleaseClaim(w)
                 \/ FailAttempt(w)
                 \/ MarkFailed(w)

-----------------------------------------------------------------------------
(* Time. *)

(* w is at work on its job for r, so the heartbeat renews the lease: the    *)
(* late mark_failed runs under the heartbeat too, but no claim is left.     *)
AtWork(w, r) == worker[w].pc \notin {"idle", "markFailed"} /\ worker[w].rec = r

BackoffElapses(r) ==
  /\ queue[r].status = "PENDING" /\ ~queue[r].due
  /\ queue' = [queue EXCEPT ![r].due = TRUE]
  /\ UNCHANGED <<main, secondary, verification, handler, worker, faultCount>>

Lapse(r) ==
  /\ queue[r].status = "SYNCING" /\ ~queue[r].lapsed
  /\ queue' = [queue EXCEPT ![r].lapsed = TRUE]
  /\ UNCHANGED <<main, secondary, verification, handler, worker>>

(* lease_until passes when nobody renews it: the owner is gone ... *)
LeaseLapses(r) ==
  /\ \A w \in Workers : queue[r].token = w => ~AtWork(w, r)
  /\ Lapse(r)
  /\ UNCHANGED faultCount

(* ... or its heartbeat task died of an exception nobody awaits. *)
HeartbeatLost(r) ==
  /\ "heartbeatLost" \in Faults /\ faultCount < MaxFaults
  /\ faultCount' = faultCount + 1
  /\ Lapse(r)

Next ==
  \/ \E h \in Handlers : HandlerStep(h) \/ HandlerCrash(h)
  \/ \E h \in Handlers, r \in Records : NewRequest(h, r)
  \/ \E w \in Workers : WorkerStep(w) \/ WorkerCrash(w)
  \/ \E w \in Workers, r \in Records : Claim(w, r)
  \/ \E r \in Records : \/ SilentWrite(r)
                        \/ BackoffElapses(r)
                        \/ LeaseLapses(r)
                        \/ HeartbeatLost(r)

Spec == Init /\ [][Next]_vars

(* A request or a job in hand is run to its end by the event loop; the      *)
(* worker polls for ever and takes the oldest due row first, so a row that  *)
(* is due again and again is claimed.  Nothing makes a user send a request, *)
(* and no fault has to happen.                                              *)
Fairness ==
  /\ \A h \in Handlers : WF_vars(HandlerStep(h))
  /\ \A w \in Workers : WF_vars(WorkerStep(w))
  /\ \A r \in Records : /\ SF_vars(\E w \in Workers : Claim(w, r))
                        /\ WF_vars(BackoffElapses(r))
                        /\ WF_vars(LeaseLapses(r))

FairSpec == Spec /\ Fairness

-----------------------------------------------------------------------------
(* Properties. *)

InFlight(h, r) == handler[h].pc # "idle" /\ handler[h].rec = r

(* Nothing queued for r and no request at work on it. *)
Settled(r) == queue[r].status = "NONE" /\ \A h \in Handlers : ~InFlight(h, r)

InSync(r) == /\ main[r].present = secondary[r].present
             /\ main[r].present => secondary[r] = main[r]

(* An empty queue means a current replica: whatever the order in which      *)
(* concurrent requests enqueued, and whichever job was superseded while a   *)
(* worker was copying, once no row and no request is left SECONDARY holds   *)
(* exactly the document in MAIN, or neither has it (attempt_job's ack keeps *)
(* superseded rows).                                                        *)
ReplicaCurrent == \A r \in Records : Settled(r) => InSync(r)

(* The lease keeps a claim exclusive: two workers are never at work on the  *)
(* same record (drain_due_jobs, _renew_claim).                              *)
ExclusiveClaim ==
  \A r \in Records, v, w \in Workers : AtWork(v, r) /\ AtWork(w, r) => v = w

(* What users are shown settles: when the queue is empty a record that was   *)
(* ever written shows VERIFIED or FAILED, never a leftover SYNCING or        *)
(* PENDING, and VERIFIED names the version MAIN has now (sync_status).       *)
StatusSettles ==
  \A r \in Records : Settled(r) /\ main[r].data > 0 =>
    /\ verification[r].status \in {"VERIFIED", "FAILED"}
    /\ verification[r].status = "VERIFIED" /\ main[r].present =>
         verification[r].ver = EffectiveVersion(main[r])

(* A FAILED row has used up its attempts: work enqueued on a row that was   *)
(* or is being given up is not left parked with attempts to spare, unless   *)
(* its request is just about to make it PENDING (_enqueue_operation).       *)
FreshWorkNotParked ==
  \A r \in Records :
    queue[r].status = "FAILED" =>
      \/ queue[r].attempts >= MaxAttempts
      \/ \E h \in Handlers : handler[h].pc = "pend" /\ handler[h].rec = r

(* The replica only moves forward along the record's history and never      *)
(* brings a deleted record back.                                            *)
History(store) == [r \in Records |-> [present |-> store[r].present, data |-> store[r].data]]

Feed == INSTANCE ReplicaFeed WITH source <- History(main), replica <- History(secondary)

FeedSpec == Feed!Spec

(* Every record ends up replicated, or parked as FAILED for an operator.    *)
Converges == \A r \in Records : <>[](InSync(r) \/ queue[r].status = "FAILED")

(* Whatever goes wrong, a queued row is eventually acknowledged or parked.  *)
QueueDrains == \A r \in Records :
  (queue[r].status \in {"PENDING", "SYNCING"}) ~> (queue[r].status \in {"NONE", "FAILED"})

(* "replica deletions must follow MAIN deletions" (main_repository.py): with *)
(* SECONDARY up and no request under way on a record, a row is not given up  *)
(* while SECONDARY keeps a document that MAIN has deleted.                   *)
DeletionsFollow == \A r \in Records :
  queue[r].status = "FAILED" /\ (\A h \in Handlers : ~InFlight(h, r))
    => main[r].present \/ ~secondary[r].present
=============================================================================
