--------------------------- MODULE Replication_proofs ---------------------------
(***************************************************************************)
(* Theorems about Replication, and about LocalBackup, which runs beside it,*)
(* for every value of their constants.                                     *)
(***************************************************************************)
EXTENDS LocalBackupInv, TLAPS

-----------------------------------------------------------------------------
(* Types. *)

LEMMA AnyRecordType == AnyRecord \in Records
  BY RecordsAssumption DEF AnyRecord

LEMMA NoDocType == NoDoc \in Doc
  BY DEF NoDoc, Doc

LEMMA IdleTypes == IdleRequest \in Request /\ IdleJob \in Job
  BY AnyRecordType, NoDocType
  DEF IdleRequest, IdleJob, Request, RequestPCs, AllKinds, Job, WorkerPCs,
      Operations, Statuses

(* Moving one request or one job on keeps all of them well-typed. *)
LEMMA GotoType ==
  ASSUME handler \in [Handlers -> Request], NEW h \in Handlers,
         NEW pc \in RequestPCs, Goto(h, pc)
  PROVE  handler' \in [Handlers -> Request]
<1>1. [handler[h] EXCEPT !.pc = pc] \in Request
  BY DEF Request
<1> QED BY <1>1 DEF Goto

LEMMA FinishType ==
  ASSUME handler \in [Handlers -> Request], NEW h \in Handlers, Finish(h)
  PROVE  handler' \in [Handlers -> Request]
  BY IdleTypes DEF Finish

LEMMA StartType ==
  ASSUME main \in [Records -> Doc], handler \in [Handlers -> Request],
         NEW h \in Handlers, NEW r \in Records, NEW kind, NEW pc \in RequestPCs,
         Start(h, kind, r, pc)
  PROVE  handler' \in [Handlers -> Request]
<1>1. kind \in AllKinds /\ main[r].ver \in Nat
  BY KindsAssumption DEF Start, Doc
<1>2. [pc |-> pc, kind |-> kind, rec |-> r, base |-> main[r].ver, ver |-> 0] \in Request
  BY <1>1 DEF Request
<1> QED BY <1>2 DEF Start

LEMMA WorkerGotoType ==
  ASSUME worker \in [Workers -> Job], NEW w \in Workers, NEW pc \in WorkerPCs,
         WorkerGoto(w, pc)
  PROVE  worker' \in [Workers -> Job]
<1>1. [worker[w] EXCEPT !.pc = pc] \in Job
  BY DEF Job
<1> QED BY <1>1 DEF WorkerGoto

LEMMA RestType ==
  ASSUME worker \in [Workers -> Job], NEW w \in Workers, Rest(w)
  PROVE  worker' \in [Workers -> Job]
  BY IdleTypes DEF Rest

LEMMA NewContentType ==
  ASSUME NEW doc \in Doc
  PROVE  NewContent(doc) \in Doc /\ NewContent(doc).ver = doc.ver
         /\ NewContent(doc).present = doc.present /\ NewContent(doc).data = doc.data + 1
  BY DEF NewContent, Doc

LEMMA SetVerificationType ==
  ASSUME TypeOK, NEW r \in Records, NEW st \in Statuses, NEW ver \in Nat,
         SetVerification(r, st, ver)
  PROVE  verification' \in [Records -> [status: Statuses, ver: Nat]]
  BY DEF TypeOK, SetVerification

(* Every step keeps every variable within its type: the requests' and jobs' *)
(* program counters, the rows and the documents of both databases.          *)
THEOREM TypeCorrect == Spec => []TypeOK
<1>1. Init => TypeOK
  <2>1. NoRow \in Row
    BY DEF NoRow, Row, Operations
  <2> QED BY <2>1, IdleTypes, NoDocType DEF Init, TypeOK, Statuses
<1>2. TypeOK /\ [Next]_vars => TypeOK'
  <2> SUFFICES ASSUME TypeOK, [Next]_vars PROVE TypeOK'
    OBVIOUS
  <2>a. ASSUME NEW h \in Handlers
        PROVE  /\ handler[h].rec \in Records /\ handler[h].kind \in AllKinds
               /\ handler[h].ver \in Nat /\ handler[h].base \in Nat
               /\ main[handler[h].rec] \in Doc /\ queue[handler[h].rec] \in Row
               /\ main[handler[h].rec].ver \in Nat
    <3>1. handler[h] \in Request
      BY DEF TypeOK
    <3>2. handler[h].rec \in Records
      BY <3>1 DEF Request
    <3>3. main[handler[h].rec] \in Doc
      BY <3>2 DEF TypeOK
    <3> QED BY <3>1, <3>2, <3>3 DEF TypeOK, Request, Doc
  <2>b. ASSUME NEW w \in Workers
        PROVE  /\ worker[w].rec \in Records /\ worker[w].op \in Operations
               /\ worker[w].ver \in Nat /\ worker[w].attempt \in Nat
               /\ worker[w].doc \in Doc /\ worker[w].result \in Statuses
               /\ main[worker[w].rec] \in Doc /\ secondary[worker[w].rec] \in Doc
               /\ queue[worker[w].rec] \in Row
    <3>1. worker[w] \in Job
      BY DEF TypeOK
    <3> QED BY <3>1 DEF TypeOK, Job
  <2>1. ASSUME NEW h \in Handlers, HandlerStep(h) PROVE TypeOK'
    <3>1. CASE BumpVersion(h)
      <4>1. [main[handler[h].rec] EXCEPT !.ver = @ + 1] \in Doc
        BY <2>a DEF Doc
      <4>2. AfterBump(handler[h].kind) \in RequestPCs
        BY DEF AfterBump, RequestPCs
      <4>3. [handler[h] EXCEPT !.ver = main[handler[h].rec].ver + 1,
                               !.pc = AfterBump(handler[h].kind)] \in Request
        <5>1. handler[h] \in Request /\ main[handler[h].rec].ver + 1 \in Nat
          BY <2>a DEF TypeOK
        <5> QED BY <4>2, <5>1 DEF Request
      <4>4. handler' \in [Handlers -> Request]
        BY <3>1, <4>3, FinishType DEF TypeOK, BumpVersion
      <4> QED BY <2>a, <3>1, <4>1, <4>4 DEF TypeOK, BumpVersion, HandlerFrame
    <3>2. CASE ReplaceDocument(h)
      <4>1. [NewContent(main[handler[h].rec]) EXCEPT !.ver = handler[h].base] \in Doc
        BY <2>a, NewContentType DEF Doc
      <4>2. handler' \in [Handlers -> Request]
        BY <3>2, GotoType DEF TypeOK, ReplaceDocument, RequestPCs
      <4> QED BY <2>a, <3>2, <4>1, <4>2 DEF TypeOK, ReplaceDocument, HandlerFrame
    <3>3. CASE RemoveDocument(h)
      <4>1. [main[handler[h].rec] EXCEPT !.present = FALSE] \in Doc
        BY <2>a DEF Doc
      <4>2. handler' \in [Handlers -> Request]
        BY <3>3, GotoType, FinishType DEF TypeOK, RemoveDocument, RequestPCs
      <4> QED BY <2>a, <3>3, <4>1, <4>2 DEF TypeOK, RemoveDocument, HandlerFrame
    <3>4. CASE EnqueueRow(h)
      <4>1. OperationOf(handler[h].kind) \in Operations
        BY DEF OperationOf, Operations
      <4>2. Enqueued(queue[handler[h].rec], OperationOf(handler[h].kind), handler[h].ver) \in Row
        BY <2>a, <4>1 DEF Row, Enqueued
      <4>3. handler' \in [Handlers -> Request]
        BY <3>4, GotoType DEF TypeOK, EnqueueRow, RequestPCs
      <4> QED BY <2>a, <3>4, <4>2, <4>3 DEF TypeOK, EnqueueRow, HandlerFrame
    <3>5. CASE EnqueuePending(h)
      <4>1. [queue[handler[h].rec] EXCEPT
               !.status = IF @ \in {"NONE", "SYNCING"} THEN @ ELSE "PENDING"] \in Row
        BY <2>a DEF Row
      <4> QED BY <2>a, <3>5, <4>1, FinishType DEF TypeOK, EnqueuePending, HandlerFrame
    <3> QED BY <2>1, <3>1, <3>2, <3>3, <3>4, <3>5 DEF HandlerStep
  <2>2. ASSUME NEW h \in Handlers, NEW r \in Records, NewRequest(h, r) PROVE TypeOK'
    <3>1. handler' \in [Handlers -> Request]
      BY <2>2, StartType
      DEF TypeOK, RequestPCs, NewRequest, Create, SetFields, ReadForReplace,
          ReadForBumpReplace, BeginDelete
    <3>2. main' \in [Records -> Doc]
      <4>1. [present |-> TRUE, ver |-> 0, data |-> 1] \in Doc
        BY DEF Doc
      <4>2. CASE Create(h, r)
        BY <4>1, <4>2 DEF TypeOK, Create
      <4>3. CASE SetFields(h, r)
        BY <4>3, NewContentType DEF TypeOK, SetFields
      <4> QED BY <2>2, <4>2, <4>3
              DEF TypeOK, NewRequest, ReadForReplace, ReadForBumpReplace, BeginDelete
    <3> QED BY <2>2, <3>1, <3>2
            DEF TypeOK, NewRequest, Create, SetFields, ReadForReplace,
                ReadForBumpReplace, BeginDelete, HandlerFrame
  <2>3. ASSUME NEW w \in Workers, WorkerStep(w) PROVE TypeOK'
    <3>1. CASE MarkSyncing(w)
      <4>1. worker' \in [Workers -> Job]
        BY <3>1, WorkerGotoType DEF TypeOK, MarkSyncing, WorkerPCs
      <4>2. verification' \in [Records -> [status: Statuses, ver: Nat]]
        BY <2>b, <3>1, SetVerificationType DEF MarkSyncing, Statuses
      <4> QED BY <3>1, <4>1, <4>2 DEF TypeOK, MarkSyncing, WorkerFrame
    <3>2. CASE ReadMain(w)
      <4>1. [worker[w] EXCEPT !.doc = main[worker[w].rec], !.pc = "copy"] \in Job
        BY <2>b DEF TypeOK, Job, WorkerPCs
      <4>2. worker' \in [Workers -> Job]
        BY <3>2, <4>1, WorkerGotoType DEF TypeOK, ReadMain, WorkerPCs
      <4> QED BY <3>2, <4>2 DEF TypeOK, ReadMain, WorkerFrame
    <3>3. CASE CopyToSecondary(w)
      <4>1. worker' \in [Workers -> Job]
        BY <3>3, WorkerGotoType DEF TypeOK, CopyToSecondary, WorkerPCs
      <4> QED BY <2>b, <3>3, <4>1 DEF TypeOK, CopyToSecondary, WorkerFrame
    <3>4. CASE DeleteReplica(w)
      <4>1. [worker[w] EXCEPT !.pc = "record", !.result = "VERIFIED"] \in Job
        BY DEF TypeOK, Job, WorkerPCs, Statuses
      <4>2. [secondary[worker[w].rec] EXCEPT !.present = FALSE] \in Doc
        BY <2>b DEF Doc
      <4> QED BY <2>b, <3>4, <4>1, <4>2 DEF TypeOK, DeleteReplica, WorkerFrame
    <3>5. CASE SecondaryFails(w)
      <4>1. worker' \in [Workers -> Job]
        BY <3>5, WorkerGotoType DEF TypeOK, SecondaryFails, WorkerPCs
      <4> QED BY <3>5, <4>1 DEF TypeOK, SecondaryFails, WorkerFrame
    <3>6. CASE Verify(w)
      <4>1. ASSUME NEW res \in {"VERIFIED", "PENDING", "FAILED"}
            PROVE  [worker[w] EXCEPT !.pc = "record", !.result = res] \in Job
        BY DEF TypeOK, Job, WorkerPCs, Statuses
      <4>2. worker' \in [Workers -> Job]
        BY <3>6, <4>1 DEF TypeOK, Verify
      <4> QED BY <3>6, <4>2 DEF TypeOK, Verify, WorkerFrame
    <3>7. CASE RecordResult(w)
      <4>1. worker' \in [Workers -> Job]
        BY <3>7, WorkerGotoType DEF TypeOK, RecordResult, WorkerPCs
      <4>2. EffectiveVersion(worker[w].doc) \in Nat
        BY <2>b DEF EffectiveVersion, Doc
      <4>3. verification' \in [Records -> [status: Statuses, ver: Nat]]
        BY <2>b, <3>7, <4>2, SetVerificationType DEF RecordResult
      <4> QED BY <3>7, <4>1, <4>3 DEF TypeOK, RecordResult, WorkerFrame
    <3>8. CASE Acknowledge(w)
      <4>1. NoRow \in Row
        BY DEF NoRow, Row, Operations
      <4>2. worker' \in [Workers -> Job]
        BY <3>8, WorkerGotoType, RestType DEF TypeOK, Acknowledge, WorkerPCs
      <4> QED BY <2>b, <3>8, <4>1, <4>2 DEF TypeOK, Acknowledge, WorkerFrame
    <3>9. CASE ReleaseClaim(w)
      <4>1. Returned(queue[worker[w].rec], "PENDING") \in Row
        BY <2>b, NoWorkerAssumption DEF Returned, Row
      <4> QED BY <2>b, <3>9, <4>1, RestType DEF TypeOK, ReleaseClaim, WorkerFrame
    <3>10. CASE FailAttempt(w)
      <4>1. ASSUME NEW spent \in BOOLEAN
            PROVE  [Returned(queue[worker[w].rec], IF spent THEN "FAILED" ELSE "PENDING")
                      EXCEPT !.attempts = worker[w].attempt, !.due = spent] \in Row
        BY <2>b DEF Returned, Row
      <4>2. worker' \in [Workers -> Job]
        BY <3>10, WorkerGotoType, RestType DEF TypeOK, FailAttempt, WorkerPCs
      <4>3. queue' \in [Records -> Row]
        <5>1. (worker[w].attempt >= MaxAttempts) \in BOOLEAN
          OBVIOUS
        <5> QED BY <2>b, <3>10, <4>1, <5>1 DEF TypeOK, FailAttempt
      <4> QED BY <3>10, <4>2, <4>3 DEF TypeOK, FailAttempt, WorkerFrame
    <3>11. CASE MarkFailed(w)
      <4>1. verification' \in [Records -> [status: Statuses, ver: Nat]]
        BY <2>b, <3>11, SetVerificationType DEF MarkFailed, Statuses
      <4> QED BY <3>11, <4>1, RestType DEF TypeOK, MarkFailed, WorkerFrame
    <3> QED BY <2>3, <3>1, <3>2, <3>3, <3>4, <3>5, <3>6, <3>7, <3>8, <3>9, <3>10, <3>11
            DEF WorkerStep
  <2>4. ASSUME NEW w \in Workers, NEW r \in Records, Claim(w, r) PROVE TypeOK'
    <3>1. [queue[r] EXCEPT !.status = "SYNCING", !.token = w, !.lapsed = FALSE] \in Row
      BY DEF TypeOK, Row
    <3>2. [pc |-> "mark", rec |-> r, op |-> queue[r].op, ver |-> queue[r].ver,
           attempt |-> queue[r].attempts + 1, doc |-> NoDoc, result |-> "NONE"] \in Job
      BY NoDocType DEF TypeOK, Row, Job, WorkerPCs, Statuses
    <3> QED BY <2>4, <3>1, <3>2 DEF TypeOK, Claim, WorkerFrame
  <2>5. ASSUME NEW r \in Records,
               SilentWrite(r) \/ BackoffElapses(r) \/ LeaseLapses(r) \/ HeartbeatLost(r)
        PROVE TypeOK'
    <3>1. [queue[r] EXCEPT !.due = TRUE] \in Row /\ [queue[r] EXCEPT !.lapsed = TRUE] \in Row
      BY DEF TypeOK, Row
    <3>2. NewContent(main[r]) \in Doc
      BY NewContentType DEF TypeOK
    <3>3. CASE SilentWrite(r)
      BY <3>2, <3>3 DEF TypeOK, SilentWrite, HandlerFrame
    <3>4. CASE BackoffElapses(r)
      BY <3>1, <3>4 DEF TypeOK, BackoffElapses
    <3>5. CASE LeaseLapses(r) \/ HeartbeatLost(r)
      <4>1. faultCount' \in Nat
        BY <3>5 DEF TypeOK, LeaseLapses, HeartbeatLost
      <4>2. Lapse(r)
        BY <3>5 DEF LeaseLapses, HeartbeatLost
      <4> QED BY <3>1, <4>1, <4>2 DEF TypeOK, Lapse
    <3> QED BY <2>5, <3>3, <3>4, <3>5
  <2>6. ASSUME NEW h \in Handlers, HandlerCrash(h) PROVE TypeOK'
    BY <2>6, FinishType DEF TypeOK, HandlerCrash
  <2>7. ASSUME NEW w \in Workers, WorkerCrash(w) PROVE TypeOK'
    BY <2>7, RestType DEF TypeOK, WorkerCrash
  <2>8. CASE UNCHANGED vars
    BY <2>8 DEF vars, TypeOK
  <2> QED BY <2>1, <2>2, <2>3, <2>4, <2>5, <2>6, <2>7, <2>8 DEF Next
<1> QED BY <1>1, <1>2, PTL DEF Spec

-----------------------------------------------------------------------------
(* Exclusive claims. *)

LEMMA JobFacts ==
  ASSUME TypeOK, NEW w \in Workers
  PROVE  /\ worker[w].rec \in Records /\ worker[w].pc \in WorkerPCs
         /\ queue[worker[w].rec] \in Row /\ secondary[worker[w].rec] \in Doc
         /\ main[worker[w].rec] \in Doc /\ worker[w].doc \in Doc
         /\ worker[w].op \in Operations /\ worker[w].ver \in Nat
<1>1. worker[w] \in Job
  BY DEF TypeOK
<1> QED BY <1>1 DEF TypeOK, Job

LEMMA RequestFacts ==
  ASSUME TypeOK, NEW h \in Handlers
  PROVE  /\ handler[h].rec \in Records /\ handler[h].kind \in AllKinds
         /\ handler[h].pc \in RequestPCs /\ handler[h].ver \in Nat
         /\ main[handler[h].rec] \in Doc /\ queue[handler[h].rec] \in Row
<1>1. handler[h] \in Request
  BY DEF TypeOK
<1> QED BY <1>1 DEF TypeOK, Request

(* A worker that owns the row of its record owns it alone. *)
LEMMA OwnersDiffer ==
  ASSUME ClaimHeld, NEW v \in Workers, NEW w \in Workers, v # w,
         worker[v].pc \in Working, worker[w].pc \in Working
  PROVE  worker[v].rec # worker[w].rec
  BY DEF ClaimHeld, Owns

LEMMA ClaimHeldStep ==
  ASSUME "heartbeatLost" \notin Faults, TypeOK, ClaimHeld, [Next]_vars
  PROVE  ClaimHeld'
<1> SUFFICES ASSUME NEW v \in Workers, worker'[v].pc \in Working
             PROVE  /\ Owns(v, queue'[worker'[v].rec])
                    /\ ~queue'[worker'[v].rec].lapsed
  BY DEF ClaimHeld
<1> USE DEF TypeOK, ClaimHeld, Owns
<1>a. worker[v].rec \in Records /\ worker[v] \in Job
  BY JobFacts
(* A step that leaves v's job and the SYNCING rows alone. *)
<1>b. ASSUME worker'[v].pc \in Working => worker[v].pc \in Working,
             worker'[v].rec = worker[v].rec,
             worker[v].pc \in Working => queue'[worker[v].rec] = queue[worker[v].rec]
      PROVE  /\ Owns(v, queue'[worker'[v].rec])
             /\ ~queue'[worker'[v].rec].lapsed
  BY <1>b
<1>1. ASSUME NEW h \in Handlers, HandlerStep(h) PROVE Owns(v, queue'[worker'[v].rec])
                                                     /\ ~queue'[worker'[v].rec].lapsed
  <2>1. worker' = worker /\ worker[v].pc \in Working
    BY <1>1 DEF HandlerStep, BumpVersion, ReplaceDocument, RemoveDocument, EnqueueRow,
                EnqueuePending, HandlerFrame
  <2>2. CASE EnqueueRow(h)
    <3>1. handler[h].rec \in Records /\ queue[handler[h].rec] \in Row
      BY RequestFacts
    <3>2. LET row == queue[handler[h].rec]
              new == Enqueued(row, OperationOf(handler[h].kind), handler[h].ver)
          IN  row.status = "SYNCING" => /\ new.status = "SYNCING"
                                        /\ new.token = row.token
                                        /\ new.lapsed = row.lapsed
      BY <3>1 DEF Enqueued, Row
    <3> QED BY <1>a, <2>1, <2>2, <3>1, <3>2 DEF EnqueueRow
  <2>3. CASE EnqueuePending(h)
    BY <1>a, <2>1, <2>3, RequestFacts DEF EnqueuePending, Row
  <2>4. CASE queue' = queue
    BY <2>1, <2>4
  <2> QED BY <1>1, <2>2, <2>3, <2>4
          DEF HandlerStep, BumpVersion, ReplaceDocument, RemoveDocument
<1>2. ASSUME NEW w \in Workers, WorkerStep(w) PROVE Owns(v, queue'[worker'[v].rec])
                                                   /\ ~queue'[worker'[v].rec].lapsed
  <2>1. worker[w].rec \in Records /\ worker[w] \in Job
    BY JobFacts
  <2>2. CASE \/ MarkSyncing(w) \/ ReadMain(w) \/ CopyToSecondary(w) \/ DeleteReplica(w)
             \/ SecondaryFails(w) \/ Verify(w) \/ RecordResult(w)
    <3>1. queue' = queue
      BY <2>2 DEF MarkSyncing, ReadMain, CopyToSecondary, DeleteReplica, SecondaryFails,
                  Verify, RecordResult
    <3>2. worker[w].pc \in Working
      BY <2>2 DEF MarkSyncing, ReadMain, CopyToSecondary, DeleteReplica, SecondaryFails,
                  Verify, RecordResult, Working, WorkerPCs
    <3>3. \A u \in Workers : u # w => worker'[u] = worker[u]
      BY <2>2 DEF MarkSyncing, ReadMain, CopyToSecondary, DeleteReplica, SecondaryFails,
                  Verify, RecordResult, WorkerGoto
    <3>4. worker'[w].rec = worker[w].rec
      BY <2>2, <2>1 DEF MarkSyncing, ReadMain, CopyToSecondary, DeleteReplica,
                  SecondaryFails, Verify, RecordResult, WorkerGoto, Job
    <3> QED BY <3>1, <3>2, <3>3, <3>4
  <2>3. CASE Acknowledge(w) \/ ReleaseClaim(w) \/ FailAttempt(w)
    <3>1. worker[w].pc \in Working
      BY <2>3 DEF Acknowledge, ReleaseClaim, FailAttempt, Working, WorkerPCs
    <3>2. \A u \in Workers : u # w => worker'[u] = worker[u]
      BY <2>3 DEF Acknowledge, ReleaseClaim, FailAttempt, WorkerGoto, Rest
    <3>3. \A r \in Records : r # worker[w].rec => queue'[r] = queue[r]
      BY <2>3 DEF Acknowledge, ReleaseClaim, FailAttempt
    <3>4. CASE v # w
      <4>1. worker[v].rec # worker[w].rec
        BY <3>1, <3>2, <3>4, OwnersDiffer
      <4> QED BY <1>a, <3>2, <3>3, <3>4, <4>1
    <3>5. CASE v = w
      <4>1. worker'[w].pc = "release" /\ queue' = queue /\ worker'[w].rec = worker[w].rec
        BY <2>1, <2>3, <3>5 DEF Acknowledge, ReleaseClaim, FailAttempt, WorkerGoto, Rest,
                                IdleJob, Working, Job
      <4> QED BY <3>1, <3>5, <4>1
    <3> QED BY <3>4, <3>5
  <2>4. CASE MarkFailed(w)
    <3>1. worker'[w].pc = "idle" /\ queue' = queue
      BY <2>4 DEF MarkFailed, Rest, IdleJob
    <3>2. v # w
      BY <3>1 DEF Working
    <3> QED BY <2>4, <3>1, <3>2 DEF MarkFailed, Rest
  <2> QED BY <1>2, <2>2, <2>3, <2>4 DEF WorkerStep
<1>3. ASSUME NEW w \in Workers, NEW r \in Records, Claim(w, r)
      PROVE  Owns(v, queue'[worker'[v].rec]) /\ ~queue'[worker'[v].rec].lapsed
  <2>1. CASE v = w
    BY <1>3, <2>1 DEF Claim, Row
  <2>2. CASE v # w
    <3>1. worker'[v] = worker[v]
      BY <1>3, <2>2 DEF Claim
    <3>2. worker[v].rec # r
      BY <1>3, <3>1 DEF Claim, Claimable
    <3> QED BY <1>3, <1>a, <3>1, <3>2 DEF Claim
  <2> QED BY <2>1, <2>2
<1>4. ASSUME NEW r \in Records, LeaseLapses(r)
      PROVE  Owns(v, queue'[worker'[v].rec]) /\ ~queue'[worker'[v].rec].lapsed
  <2>1. worker' = worker
    BY <1>4 DEF LeaseLapses, Lapse
  <2>2. worker[v].rec # r
    BY <1>4, <2>1 DEF LeaseLapses, AtWork, Working
  <2> QED BY <1>4, <1>a, <2>1, <2>2 DEF LeaseLapses, Lapse
<1>5. ASSUME NEW r \in Records, BackoffElapses(r)
      PROVE  Owns(v, queue'[worker'[v].rec]) /\ ~queue'[worker'[v].rec].lapsed
  BY <1>5, <1>a DEF BackoffElapses
<1>6. ASSUME NEW w \in Workers, WorkerCrash(w)
      PROVE  Owns(v, queue'[worker'[v].rec]) /\ ~queue'[worker'[v].rec].lapsed
  <2>1. v # w
    BY <1>6 DEF WorkerCrash, Rest, IdleJob, Working
  <2> QED BY <1>6, <2>1 DEF WorkerCrash, Rest
<1>7. CASE worker' = worker /\ queue' = queue
  BY <1>7
<1>8. CASE \/ \E h \in Handlers : HandlerCrash(h)
           \/ \E h \in Handlers, r \in Records : NewRequest(h, r)
           \/ \E r \in Records : SilentWrite(r)
           \/ UNCHANGED vars
  BY <1>7, <1>8 DEF HandlerCrash, NewRequest, Create, SetFields, ReadForReplace,
                    ReadForBumpReplace, BeginDelete, SilentWrite, HandlerFrame, vars
<1>9. ASSUME NEW r \in Records PROVE ~HeartbeatLost(r)
  BY DEF HeartbeatLost
<1> QED BY <1>1, <1>2, <1>3, <1>4, <1>5, <1>6, <1>8, <1>9 DEF Next

THEOREM ClaimHeldInvariant ==
  ASSUME "heartbeatLost" \notin Faults
  PROVE  Spec => []ClaimHeld
<1>1. Init => ClaimHeld
  BY DEF Init, ClaimHeld, IdleJob, Working
<1>2. TypeOK /\ ClaimHeld /\ [Next]_vars => ClaimHeld'
  BY ClaimHeldStep
<1> QED BY <1>1, <1>2, TypeCorrect, PTL DEF Spec

(* As long as every heartbeat lives as long as its job, the lease keeps two *)
(* workers off one record, whatever crashes and however requests enqueue.   *)
THEOREM ClaimsAreExclusive ==
  ASSUME "heartbeatLost" \notin Faults
  PROVE  Spec => []ExclusiveClaim
<1>1. TypeOK /\ ClaimHeld => ExclusiveClaim
  <2> SUFFICES ASSUME TypeOK, ClaimHeld, NEW r \in Records, NEW v \in Workers,
                      NEW w \in Workers, AtWork(v, r), AtWork(w, r)
               PROVE  v = w
    BY DEF ExclusiveClaim
  <2>1. worker[v].pc \in Working /\ worker[w].pc \in Working
    BY JobFacts DEF AtWork, Working
  <2> QED BY <2>1, OwnersDiffer DEF AtWork
<1> QED BY <1>1, TypeCorrect, ClaimHeldInvariant, PTL

-----------------------------------------------------------------------------
(* The replica is current.  What the requests' steps do to MAIN and to what *)
(* is owed, and what the workers' steps do to the rows, once and for all.   *)

(* In an orderly deployment only these steps are taken. *)
LEMMA OrderlyNext ==
  ASSUME OrderlyWriters, "heartbeatLost" \notin Faults, RequestShape, [Next]_vars
  PROVE  \/ \E h \in Handlers, r \in Records : Create(h, r) \/ SetFields(h, r) \/ BeginDelete(h, r)
         \/ \E h \in Handlers : BumpVersion(h) \/ RemoveDocument(h)
         \/ \E h \in Handlers : EnqueueRow(h)
         \/ \E h \in Handlers : EnqueuePending(h)
         \/ \E w \in Workers : WorkerStep(w) \/ WorkerCrash(w)
         \/ \E w \in Workers, r \in Records : Claim(w, r)
         \/ \E r \in Records : BackoffElapses(r) \/ LeaseLapses(r)
         \/ UNCHANGED vars
<1>1. \A h \in Handlers : ~HandlerCrash(h)
  BY DEF OrderlyWriters, HandlerCrash
<1>2. \A r \in Records : ~HeartbeatLost(r) /\ ~SilentWrite(r)
  BY DEF OrderlyWriters, HeartbeatLost, SilentWrite
<1>3. \A h \in Handlers, r \in Records : ~ReadForReplace(h, r) /\ ~ReadForBumpReplace(h, r)
  BY DEF OrderlyWriters, ReadForReplace, ReadForBumpReplace, Start
<1>4. \A h \in Handlers : ~ReplaceDocument(h)
  BY DEF RequestShape, ReplaceDocument
<1> QED BY <1>1, <1>2, <1>3, <1>4 DEF Next, HandlerStep, NewRequest

(* The steps of workers and of time: they never touch MAIN or the requests, *)
(* and never add a row or change what a row asks for.                       *)
WorkerSide ==
  \/ \E w \in Workers : WorkerStep(w) \/ WorkerCrash(w)
  \/ \E w \in Workers, r \in Records : Claim(w, r)
  \/ \E r \in Records : BackoffElapses(r) \/ LeaseLapses(r)
  \/ UNCHANGED vars

LEMMA WorkerSideFrame ==
  ASSUME WorkerSide
  PROVE  main' = main /\ handler' = handler
  BY DEF WorkerSide, WorkerStep, WorkerCrash, Claim, BackoffElapses, LeaseLapses, Lapse,
         MarkSyncing, ReadMain, CopyToSecondary, DeleteReplica, SecondaryFails, Verify,
         RecordResult, Acknowledge, ReleaseClaim, FailAttempt, MarkFailed, WorkerFrame, vars

LEMMA WorkerSideRows ==
  ASSUME TypeOK, WorkerSide, NEW r \in Records, Queued(r)'
  PROVE  /\ Queued(r)
         /\ queue'[r].ver = queue[r].ver /\ queue'[r].op = queue[r].op
<1>a. queue[r] \in Row /\ queue \in [Records -> Row]
  BY DEF TypeOK
<1> USE <1>a DEF Queued
<1>1. ASSUME NEW w \in Workers, Acknowledge(w) PROVE queue'[r] = queue[r]
  BY <1>1, JobFacts DEF Acknowledge, NoRow
<1>2. ASSUME NEW w \in Workers, ReleaseClaim(w)
      PROVE  \/ queue'[r] = queue[r]
             \/ /\ queue[r].status # "NONE"
                /\ queue'[r].ver = queue[r].ver /\ queue'[r].op = queue[r].op
  BY <1>2, JobFacts DEF ReleaseClaim, Owns, Returned, Row
<1>3. ASSUME NEW w \in Workers, FailAttempt(w)
      PROVE  \/ queue'[r] = queue[r]
             \/ /\ queue[r].status # "NONE"
                /\ queue'[r].ver = queue[r].ver /\ queue'[r].op = queue[r].op
  <2>1. CASE worker[w].rec # r \/ ~Matches(w, queue[r])
    BY <1>3, <2>1, JobFacts DEF FailAttempt
  <2>2. CASE worker[w].rec = r /\ Matches(w, queue[r])
    <3>1. queue'[r] = [Returned(queue[r], IF worker[w].attempt >= MaxAttempts
                                          THEN "FAILED" ELSE "PENDING") EXCEPT
                         !.attempts = worker[w].attempt,
                         !.due = (worker[w].attempt >= MaxAttempts)]
      BY <1>3, <2>2 DEF FailAttempt
    <3> QED BY <2>2, <3>1 DEF Matches, Owns, Returned, Row
  <2> QED BY <2>1, <2>2
<1>4. ASSUME NEW w \in Workers, NEW s \in Records, Claim(w, s)
      PROVE  \/ queue'[r] = queue[r]
             \/ /\ queue[r].status # "NONE"
                /\ queue'[r].ver = queue[r].ver /\ queue'[r].op = queue[r].op
  BY <1>4 DEF Claim, Claimable, Row
<1>5. ASSUME NEW s \in Records, BackoffElapses(s) \/ LeaseLapses(s)
      PROVE  \/ queue'[r] = queue[r]
             \/ /\ queue[r].status # "NONE"
                /\ queue'[r].ver = queue[r].ver /\ queue'[r].op = queue[r].op
  BY <1>5 DEF BackoffElapses, LeaseLapses, Lapse, Row
<1>6. ASSUME NEW w \in Workers,
             \/ MarkSyncing(w) \/ ReadMain(w) \/ CopyToSecondary(w) \/ DeleteReplica(w)
             \/ SecondaryFails(w) \/ Verify(w) \/ RecordResult(w) \/ MarkFailed(w)
             \/ WorkerCrash(w)
      PROVE  queue' = queue
  BY <1>6 DEF MarkSyncing, ReadMain, CopyToSecondary, DeleteReplica, SecondaryFails, Verify,
              RecordResult, MarkFailed, WorkerCrash
<1>7. CASE UNCHANGED vars
  BY <1>7 DEF vars
<1> QED BY <1>1, <1>2, <1>3, <1>4, <1>5, <1>6, <1>7 DEF WorkerSide, WorkerStep

(* A worker's own step moves its job on: same record, version and operation *)
(* until it rests.                                                          *)
LEMMA WorkerSideJobs ==
  ASSUME TypeOK, WorkerSide, NEW v \in Workers, worker'[v].pc \in Working
  PROVE  \/ /\ worker[v].pc \in Working
            /\ worker'[v].rec = worker[v].rec
            /\ worker'[v].ver = worker[v].ver
            /\ worker'[v].op = worker[v].op
         \/ \E r \in Records : Claim(v, r)
<1> USE JobFacts DEF TypeOK, Job
<1>1. ASSUME NEW w \in Workers, WorkerStep(w)
      PROVE  /\ worker[v].pc \in Working /\ worker'[v].rec = worker[v].rec
             /\ worker'[v].ver = worker[v].ver /\ worker'[v].op = worker[v].op
  <2>1. CASE v # w
    BY <1>1, <2>1 DEF WorkerStep, MarkSyncing, ReadMain, CopyToSecondary, DeleteReplica,
                      SecondaryFails, Verify, RecordResult, Acknowledge, ReleaseClaim,
                      FailAttempt, MarkFailed, WorkerGoto, Rest
  <2>2. CASE v = w
    <3>1. worker[w].pc \in Working
      BY <1>1, <2>2 DEF WorkerStep, MarkSyncing, ReadMain, CopyToSecondary, DeleteReplica,
                  SecondaryFails, Verify, RecordResult, Acknowledge, ReleaseClaim,
                  FailAttempt, MarkFailed, Rest, IdleJob, Working, WorkerPCs
    <3>2. ~Rest(w)
      BY <2>2 DEF Rest, IdleJob, Working
    <3>3. CASE MarkSyncing(w) \/ CopyToSecondary(w) \/ SecondaryFails(w) \/ RecordResult(w)
      BY <2>2, <3>1, <3>3 DEF MarkSyncing, CopyToSecondary, SecondaryFails, RecordResult, WorkerGoto
    <3>4. CASE ReadMain(w) \/ DeleteReplica(w) \/ Verify(w)
      BY <2>2, <3>1, <3>4 DEF ReadMain, DeleteReplica, Verify, WorkerGoto
    <3>5. CASE Acknowledge(w) \/ ReleaseClaim(w) \/ FailAttempt(w) \/ MarkFailed(w)
      BY <2>2, <3>1, <3>2, <3>5 DEF Acknowledge, ReleaseClaim, FailAttempt, MarkFailed, WorkerGoto
    <3> QED BY <1>1, <3>3, <3>4, <3>5 DEF WorkerStep
  <2> QED BY <2>1, <2>2
<1>2. ASSUME NEW w \in Workers, WorkerCrash(w)
      PROVE  worker'[v] = worker[v]
  BY <1>2 DEF WorkerCrash, Rest, IdleJob, Working
<1>3. ASSUME NEW w \in Workers, NEW r \in Records, Claim(w, r), v # w
      PROVE  worker'[v] = worker[v]
  BY <1>3 DEF Claim
<1>4. CASE worker' = worker
  BY <1>4
<1> QED BY <1>1, <1>2, <1>3, <1>4 DEF WorkerSide, BackoffElapses, LeaseLapses, Lapse, vars

-----------------------------------------------------------------------------
(* The requests' side. *)

RequestSide ==
  \/ \E h \in Handlers, r \in Records : Create(h, r) \/ SetFields(h, r) \/ BeginDelete(h, r)
  \/ \E h \in Handlers : BumpVersion(h) \/ RemoveDocument(h)
  \/ \E h \in Handlers : EnqueueRow(h)
  \/ \E h \in Handlers : EnqueuePending(h)

LEMMA RequestSideFrame ==
  ASSUME RequestSide
  PROVE  worker' = worker /\ secondary' = secondary
  BY DEF RequestSide, Create, SetFields, BeginDelete, BumpVersion, RemoveDocument, EnqueueRow,
         EnqueuePending, HandlerFrame

(* MAIN's history only grows, and a deleted document does not come back. *)
LEMMA MainGrows ==
  ASSUME TypeOK, RequestSide, NEW r \in Records
  PROVE  /\ main'[r].ver \in Nat /\ main[r].ver <= main'[r].ver
         /\ main[r].data > 0 => main'[r].data > 0
         /\ main[r].data > 0 /\ ~main[r].present => ~main'[r].present
<1>a. main[r] \in Doc /\ main \in [Records -> Doc]
  BY DEF TypeOK
<1> USE <1>a
<1>1. ASSUME NEW h \in Handlers, NEW s \in Records, Create(h, s)
      PROVE  \/ main'[r] = main[r]
             \/ main[r] = NoDoc /\ main'[r] = [present |-> TRUE, ver |-> 0, data |-> 1]
  BY <1>1 DEF Create
<1>2. ASSUME NEW h \in Handlers, NEW s \in Records, SetFields(h, s)
      PROVE  main'[r] = main[r] \/ (main[r].present /\ main'[r] = NewContent(main[r]))
  BY <1>2 DEF SetFields, Editable
<1>3. ASSUME NEW h \in Handlers, BumpVersion(h)
      PROVE  \/ main'[r] = main[r]
             \/ main[r].present /\ main'[r] = [main[r] EXCEPT !.ver = main[r].ver + 1]
  BY <1>3, RequestFacts DEF BumpVersion
<1>4. ASSUME NEW h \in Handlers, RemoveDocument(h)
      PROVE  main'[r] = main[r] \/ main'[r] = [main[r] EXCEPT !.present = FALSE]
  BY <1>4, RequestFacts DEF RemoveDocument
<1>5. \/ main'[r] = main[r]
      \/ main[r] = NoDoc /\ main'[r] = [present |-> TRUE, ver |-> 0, data |-> 1]
      \/ main[r].present /\ main'[r] = NewContent(main[r])
      \/ main[r].present /\ main'[r] = [main[r] EXCEPT !.ver = main[r].ver + 1]
      \/ main'[r] = [main[r] EXCEPT !.present = FALSE]
  BY <1>1, <1>2, <1>3, <1>4 DEF RequestSide, BeginDelete, EnqueueRow, EnqueuePending
<1> QED BY <1>5, NewContentType DEF NoDoc, Doc

(* Only EnqueueRow pays a debt; every change of a document makes one. *)
LEMMA DebtsStay ==
  ASSUME TypeOK, RequestShape, RequestSide, NEW r \in Records,
         \A h \in Handlers : EnqueueRow(h) => handler[h].rec # r
  PROVE  /\ (\E h \in Handlers : Owes(h, r)) => (\E h \in Handlers : Owes(h, r))'
         /\ main'[r] # main[r] => (\E h \in Handlers : Owes(h, r))'
<1> USE DEF TypeOK
<1>1. ASSUME NEW g \in Handlers, NEW s \in Records,
             Create(g, s) \/ SetFields(g, s) \/ BeginDelete(g, s)
      PROVE  /\ main'[s] # main[s] => Owes(g, s)'
             /\ \A t \in Records : t # s => main'[t] = main[t]
             /\ \A h \in Handlers : h # g => handler'[h] = handler[h]
             /\ ~Owes(g, r)
             /\ main[r].present => main'[r].present
  <2>1. ~Owes(g, r) /\ (\A h \in Handlers : h # g => handler'[h] = handler[h])
    BY <1>1 DEF Create, SetFields, BeginDelete, Start, Owes
  <2>2. CASE Create(g, s)
    BY <2>1, <2>2 DEF Create, Start, Owes, Doc
  <2>3. CASE SetFields(g, s)
    <3>1. main'[s].present /\ main[s].present
      BY <2>3, NewContentType DEF SetFields, Editable
    <3> QED BY <2>1, <2>3, <3>1 DEF SetFields, Start, Owes
  <2>4. CASE BeginDelete(g, s)
    BY <2>1, <2>4 DEF BeginDelete
  <2> QED BY <1>1, <2>2, <2>3, <2>4
<1>2. ASSUME NEW g \in Handlers, BumpVersion(g)
      PROVE  /\ \A t \in Records : t # handler[g].rec => main'[t] = main[t]
             /\ \A t \in Records : main[t].present => main'[t].present
             /\ \A h \in Handlers : h # g => handler'[h] = handler[h]
             /\ Owes(g, r) => Owes(g, r)'
             /\ main'[r] # main[r] => Owes(g, r)'
  <2>1. handler[g] \in Request /\ handler[g].rec \in Records /\ main[handler[g].rec] \in Doc
    BY RequestFacts
  <2>2. \A h \in Handlers : h # g => handler'[h] = handler[h]
    BY <1>2 DEF BumpVersion, Finish
  <2>3. CASE ~main[handler[g].rec].present
    BY <1>2, <2>1, <2>2, <2>3 DEF BumpVersion, Owes
  <2>4. CASE main[handler[g].rec].present
    <3>1. handler[g].kind \in {"create", "set", "delete"}
      BY <1>2 DEF RequestShape, BumpVersion
    <3>2. /\ handler'[g].rec = handler[g].rec
          /\ handler'[g].pc = AfterBump(handler[g].kind)
      BY <1>2, <2>1, <2>4 DEF BumpVersion, Request
    <3>3. handler'[g].pc \in {"remove", "enqueue"}
      BY <3>1, <3>2 DEF AfterBump
    <3>4. main'[handler[g].rec].present
      BY <1>2, <2>1, <2>4 DEF BumpVersion, Doc
    <3>5. handler[g].rec = r => Owes(g, r)'
      BY <3>2, <3>3, <3>4 DEF Owes
    <3>6. \A t \in Records : t # handler[g].rec => main'[t] = main[t]
      BY <1>2 DEF BumpVersion
    <3>7. \A t \in Records : main[t].present => main'[t].present
      BY <2>4, <3>4, <3>6
    <3>8. Owes(g, r) => handler[g].rec = r
      BY DEF Owes
    <3>9. main'[r] # main[r] => handler[g].rec = r
      BY <3>6
    <3> QED BY <2>2, <3>5, <3>6, <3>7, <3>8, <3>9
  <2> QED BY <2>3, <2>4
<1>3. ASSUME NEW g \in Handlers, RemoveDocument(g)
      PROVE  /\ \A t \in Records : t # handler[g].rec => main'[t] = main[t]
             /\ \A h \in Handlers : h # g => handler'[h] = handler[h]
             /\ handler[g].rec # r => ~Owes(g, r)
             /\ handler[g].rec = r => \/ Owes(g, r)'
                                      \/ main'[r] = main[r] /\ ~Owes(g, r)
  <2>1. handler[g] \in Request /\ handler[g].rec \in Records /\ main[handler[g].rec] \in Doc
    BY RequestFacts
  <2>2. /\ \A t \in Records : t # handler[g].rec => main'[t] = main[t]
        /\ \A h \in Handlers : h # g => handler'[h] = handler[h]
        /\ handler[g].rec # r => ~Owes(g, r)
    BY <1>3, <2>1 DEF RemoveDocument, Goto, Finish, Owes
  <2>3. CASE Goto(g, "enqueue")
    BY <2>1, <2>2, <2>3 DEF Goto, Owes, Request
  <2>4. CASE ~main[handler[g].rec].present
    <3>1. main' = main
      BY <1>3, <2>1, <2>4 DEF RemoveDocument, Doc
    <3> QED BY <1>3, <2>2, <2>4, <3>1 DEF RemoveDocument, Owes
  <2> QED BY <1>3, <2>3, <2>4 DEF RemoveDocument
<1>4. ASSUME NEW g \in Handlers, EnqueueRow(g) \/ EnqueuePending(g)
      PROVE  /\ main' = main /\ ~Owes(g, r)
             /\ \A h \in Handlers : h # g => handler'[h] = handler[h]
  BY <1>4 DEF EnqueueRow, EnqueuePending, Goto, Finish, Owes
<1> QED BY <1>1, <1>2, <1>3, <1>4 DEF RequestSide, Owes

LEMMA RequestSideRows ==
  ASSUME TypeOK, RequestSide, NEW r \in Records,
         \A h \in Handlers : EnqueueRow(h) => handler[h].rec # r
  PROVE  /\ Queued(r)' <=> Queued(r)
         /\ queue'[r].ver = queue[r].ver /\ queue'[r].op = queue[r].op
         /\ queue[r].status = "SYNCING" => queue'[r] = queue[r]
         /\ queue'[r].status = "SYNCING" => queue'[r] = queue[r]
<1>a. queue[r] \in Row /\ queue \in [Records -> Row]
  BY DEF TypeOK
<1>1. ASSUME NEW g \in Handlers, EnqueueRow(g) PROVE queue'[r] = queue[r]
  BY <1>1, <1>a DEF EnqueueRow
<1>2. ASSUME NEW g \in Handlers, EnqueuePending(g)
      PROVE  \/ queue'[r] = queue[r]
             \/ /\ queue[r].status \in {"PENDING", "FAILED"}
                /\ queue'[r] = [queue[r] EXCEPT !.status = "PENDING"]
  BY <1>2, <1>a, RequestFacts DEF EnqueuePending, Row
<1>3. \/ queue'[r] = queue[r]
      \/ /\ queue[r].status \in {"PENDING", "FAILED"}
         /\ queue'[r] = [queue[r] EXCEPT !.status = "PENDING"]
  BY <1>1, <1>2 DEF RequestSide, Create, SetFields, BeginDelete, BumpVersion, RemoveDocument
<1> QED BY <1>3, <1>a DEF Queued, Row

LEMMA EnqueuedRow ==
  ASSUME TypeOK, NEW h \in Handlers, EnqueueRow(h)
  PROVE  /\ queue'[handler[h].rec].status # "NONE"
         /\ queue'[handler[h].rec].ver = handler[h].ver
         /\ queue'[handler[h].rec].op = OperationOf(handler[h].kind)
         /\ main' = main
<1>1. handler[h].rec \in Records /\ queue[handler[h].rec] \in Row
  BY RequestFacts
<1>2. queue'[handler[h].rec] = Enqueued(queue[handler[h].rec], OperationOf(handler[h].kind),
                                        handler[h].ver)
  BY <1>1 DEF EnqueueRow, TypeOK
<1>3. queue'[handler[h].rec].status # "NONE"
  BY <1>1, <1>2 DEF Enqueued, Row
<1>4. /\ queue'[handler[h].rec].ver = handler[h].ver
      /\ queue'[handler[h].rec].op = OperationOf(handler[h].kind)
  BY <1>1, <1>2 DEF Enqueued, Row
<1> QED BY <1>3, <1>4 DEF EnqueueRow

LEMMA DocShapeStep ==
  ASSUME TypeOK, DocShape, RequestSide \/ WorkerSide
  PROVE  DocShape'
<1>1. CASE WorkerSide
  BY <1>1, WorkerSideFrame DEF DocShape
<1>2. CASE RequestSide
  <2> SUFFICES ASSUME NEW r \in Records, main'[r].present PROVE main'[r].data > 0
    BY DEF DocShape
  <2>1. main[r] \in Doc
    BY DEF TypeOK
  <2>2. CASE \E g \in Handlers, s \in Records : Create(g, s)
    BY <2>2 DEF Create, DocShape, TypeOK
  <2>3. CASE \E g \in Handlers, s \in Records : SetFields(g, s)
    BY <2>1, <2>3, NewContentType DEF SetFields, DocShape, TypeOK, Doc
  <2>4. CASE \E g \in Handlers : BumpVersion(g)
    BY <2>1, <2>4, RequestFacts DEF BumpVersion, DocShape, TypeOK, Doc
  <2>5. CASE \E g \in Handlers : RemoveDocument(g)
    BY <2>1, <2>5, RequestFacts DEF RemoveDocument, DocShape, TypeOK, Doc
  <2>6. CASE main' = main
    BY <2>6 DEF DocShape
  <2> QED BY <1>2, <2>2, <2>3, <2>4, <2>5, <2>6
          DEF RequestSide, BeginDelete, EnqueueRow, EnqueuePending
<1> QED BY <1>1, <1>2

(* What a step of a request makes of its slot g. *)
SlotBegins(g) ==
  /\ handler[g].pc = "idle" /\ handler'[g].pc = "bump"
  /\ handler'[g].kind \in {"create", "set", "delete"}
  /\ handler'[g].rec \in Records
  /\ main'[handler'[g].rec].data > 0

SlotMoves(g) ==
  /\ handler'[g].kind = handler[g].kind /\ handler'[g].rec = handler[g].rec
  /\ \/ /\ BumpVersion(g) /\ main[handler[g].rec].present
        /\ handler'[g].ver = main[handler[g].rec].ver + 1
        /\ main'[handler[g].rec].ver = main[handler[g].rec].ver + 1
        /\ handler'[g].pc = AfterBump(handler[g].kind)
     \/ /\ RemoveDocument(g)
        /\ handler'[g].ver = handler[g].ver /\ handler'[g].pc = "enqueue"
        /\ ~main'[handler[g].rec].present
     \/ EnqueueRow(g) /\ handler'[g].pc = "pend"

SlotStep(g) ==
  /\ \A h \in Handlers : h # g => handler'[h] = handler[h]
  /\ SlotBegins(g) \/ SlotMoves(g) \/ handler'[g].pc = "idle"

LEMMA RequestSlots ==
  ASSUME TypeOK, DocShape, RequestSide
  PROVE  \E g \in Handlers : SlotStep(g)
<1> USE RequestFacts DEF TypeOK
<1>1. ASSUME NEW g \in Handlers, NEW s \in Records,
             Create(g, s) \/ SetFields(g, s) \/ BeginDelete(g, s)
      PROVE  SlotStep(g)
  <2>1. /\ \A h \in Handlers : h # g => handler'[h] = handler[h]
        /\ handler[g].pc = "idle" /\ handler'[g].pc = "bump"
        /\ handler'[g].kind \in {"create", "set", "delete"}
        /\ handler'[g].rec = s
    BY <1>1 DEF Create, SetFields, BeginDelete, Start
  <2>2. CASE Create(g, s)
    BY <2>1, <2>2 DEF Create, SlotStep, SlotBegins
  <2>3. CASE SetFields(g, s)
    <3>1. main'[s].data > 0
      BY <2>3, NewContentType DEF SetFields, Doc
    <3> QED BY <2>1, <3>1 DEF SlotStep, SlotBegins
  <2>4. CASE BeginDelete(g, s)
    <3>1. main'[s].data > 0
      BY <2>4 DEF BeginDelete, DocShape
    <3> QED BY <2>1, <3>1 DEF SlotStep, SlotBegins
  <2> QED BY <1>1, <2>2, <2>3, <2>4
<1>2. ASSUME NEW g \in Handlers, BumpVersion(g)
      PROVE  SlotStep(g)
  <2>1. \A h \in Handlers : h # g => handler'[h] = handler[h]
    BY <1>2 DEF BumpVersion, Finish
  <2>2. CASE ~main[handler[g].rec].present
    <3>1. handler'[g].pc = "idle"
      BY <1>2, <2>2 DEF BumpVersion, Finish, IdleRequest
    <3> QED BY <2>1, <3>1 DEF SlotStep
  <2>3. CASE main[handler[g].rec].present
    <3>1. /\ handler'[g].kind = handler[g].kind /\ handler'[g].rec = handler[g].rec
          /\ handler'[g].ver = main[handler[g].rec].ver + 1
          /\ handler'[g].pc = AfterBump(handler[g].kind)
      BY <1>2, <2>3 DEF BumpVersion, Request
    <3>2. main'[handler[g].rec].ver = main[handler[g].rec].ver + 1
      BY <1>2, <2>3 DEF BumpVersion, Doc
    <3> QED BY <1>2, <2>1, <2>3, <3>1, <3>2 DEF SlotStep, SlotMoves
  <2> QED BY <2>2, <2>3
<1>3. ASSUME NEW g \in Handlers, RemoveDocument(g)
      PROVE  SlotStep(g)
  <2>1. \A h \in Handlers : h # g => handler'[h] = handler[h]
    BY <1>3 DEF RemoveDocument, Goto, Finish
  <2>2. CASE Finish(g)
    BY <2>1, <2>2 DEF Finish, IdleRequest, SlotStep
  <2>3. CASE Goto(g, "enqueue")
    <3>1. /\ handler'[g].kind = handler[g].kind /\ handler'[g].rec = handler[g].rec
          /\ handler'[g].ver = handler[g].ver /\ handler'[g].pc = "enqueue"
      BY <2>3 DEF Goto, Request
    <3>2. ~main'[handler[g].rec].present
      BY <1>3 DEF RemoveDocument, Doc
    <3> QED BY <1>3, <2>1, <3>1, <3>2 DEF SlotStep, SlotMoves
  <2> QED BY <1>3, <2>2, <2>3 DEF RemoveDocument
<1>4. ASSUME NEW g \in Handlers, EnqueueRow(g)
      PROVE  SlotStep(g)
  <2>1. /\ \A h \in Handlers : h # g => handler'[h] = handler[h]
        /\ handler'[g].kind = handler[g].kind /\ handler'[g].rec = handler[g].rec
        /\ handler'[g].pc = "pend"
    BY <1>4 DEF EnqueueRow, Goto, Request
  <2> QED BY <1>4, <2>1 DEF SlotStep, SlotMoves
<1>5. ASSUME NEW g \in Handlers, EnqueuePending(g)
      PROVE  SlotStep(g)
  BY <1>5 DEF EnqueuePending, Finish, IdleRequest, SlotStep
<1> QED BY <1>1, <1>2, <1>3, <1>4, <1>5 DEF RequestSide

-----------------------------------------------------------------------------
(* Each part of ReplicaInv is kept by each side. *)

LEMMA RequestShapeStep ==
  ASSUME TypeOK, DocShape, RequestShape, RequestSide \/ WorkerSide
  PROVE  RequestShape'
<1>1. CASE WorkerSide
  BY <1>1, WorkerSideFrame DEF RequestShape
<1>2. CASE RequestSide
  <2>1. PICK g \in Handlers : SlotStep(g)
    BY <1>2, RequestSlots
  <2> SUFFICES ASSUME NEW h \in Handlers, handler'[h].pc # "idle"
               PROVE  /\ handler'[h].kind \in {"create", "set", "delete"}
                      /\ handler'[h].pc # "store"
                      /\ main'[handler'[h].rec].data > 0
                      /\ handler'[h].pc = "remove" => handler'[h].kind = "delete"
                      /\ handler'[h].kind = "delete" /\ handler'[h].pc \in {"enqueue", "pend"} =>
                           ~main'[handler'[h].rec].present
    BY DEF RequestShape
  <2>2. CASE h # g
    <3>1. handler'[h] = handler[h] /\ handler[h].rec \in Records
      BY <2>1, <2>2, RequestFacts DEF SlotStep
    <3> QED BY <1>2, <3>1, MainGrows DEF RequestShape
  <2>3. CASE h = g /\ SlotBegins(g)
    BY <2>3 DEF SlotBegins
  <2>4. CASE h = g /\ SlotMoves(g)
    <3>1. /\ handler[g].pc # "idle" /\ handler[g].rec \in Records
          /\ handler'[g].kind = handler[g].kind /\ handler'[g].rec = handler[g].rec
      BY <2>4, RequestFacts DEF SlotMoves, BumpVersion, RemoveDocument, EnqueueRow
    <3>2. /\ handler[g].kind \in {"create", "set", "delete"}
          /\ main'[handler[g].rec].data > 0
          /\ handler[g].kind = "delete" /\ handler[g].pc \in {"enqueue", "pend"} =>
               ~main'[handler[g].rec].present
      BY <1>2, <3>1, MainGrows DEF RequestShape
    <3>3. handler'[g].pc \in {"enqueue", "remove", "pend"}
      BY <2>4, <3>2 DEF SlotMoves, AfterBump
    <3>4. handler'[g].pc = "remove" => handler'[g].kind = "delete"
      BY <2>4, <3>2 DEF SlotMoves, AfterBump
    <3>5. handler'[g].kind = "delete" /\ handler'[g].pc \in {"enqueue", "pend"} =>
            ~main'[handler[g].rec].present
      BY <2>4, <3>1, <3>2 DEF SlotMoves, AfterBump, EnqueueRow
    <3> QED BY <2>4, <3>1, <3>2, <3>3, <3>4, <3>5
  <2> QED BY <2>1, <2>2, <2>3, <2>4 DEF SlotStep
<1> QED BY <1>1, <1>2

LEMMA RowShapeStep ==
  ASSUME TypeOK, RequestShape, RowShape, VersionsFresh, RequestSide \/ WorkerSide
  PROVE  RowShape'
<1> SUFFICES ASSUME NEW r \in Records, Queued(r)'
             PROVE  /\ main'[r].data > 0
                    /\ queue'[r].ver <= main'[r].ver
                    /\ queue'[r].op = "DELETE" => ~main'[r].present
  BY DEF RowShape
<1>1. CASE WorkerSide
  BY <1>1, WorkerSideFrame, WorkerSideRows DEF RowShape
<1>2. CASE RequestSide /\ \A h \in Handlers : EnqueueRow(h) => handler[h].rec # r
  <2>1. /\ Queued(r) /\ queue'[r].ver = queue[r].ver /\ queue'[r].op = queue[r].op
        /\ queue[r].ver \in Nat /\ main[r].ver \in Nat
    BY <1>2, RequestSideRows DEF TypeOK, Row, Doc
  <2>2. /\ main'[r].ver \in Nat /\ main[r].ver <= main'[r].ver
        /\ main[r].data > 0 => main'[r].data > 0
        /\ main[r].data > 0 /\ ~main[r].present => ~main'[r].present
    BY <1>2, MainGrows
  <2> QED BY <2>1, <2>2 DEF RowShape
<1>3. ASSUME NEW h \in Handlers, EnqueueRow(h), handler[h].rec = r
      PROVE  /\ main'[r].data > 0
             /\ queue'[r].ver <= main'[r].ver
             /\ queue'[r].op = "DELETE" => ~main'[r].present
  <2>1. /\ queue'[r].ver = handler[h].ver /\ queue'[r].op = OperationOf(handler[h].kind)
        /\ main' = main
    BY <1>3, EnqueuedRow
  <2>2. handler[h].pc = "enqueue"
    BY <1>3 DEF EnqueueRow
  <2> QED BY <1>3, <2>1, <2>2 DEF RequestShape, VersionsFresh, Bumped, OperationOf
<1> QED BY <1>1, <1>2, <1>3

(* A worker at work on r has r's row, so r has been written. *)
LEMMA WorkedOnExists ==
  ASSUME TypeOK, ClaimHeld, RowShape, NEW w \in Workers, worker[w].pc \in Working
  PROVE  Queued(worker[w].rec) /\ main[worker[w].rec].data > 0
  BY JobFacts DEF ClaimHeld, Owns, RowShape, Queued

LEMMA VersionsFreshStep ==
  ASSUME TypeOK, ClaimHeld, DocShape, RequestShape, RowShape, VersionsFresh, JobShape,
         RequestSide \/ WorkerSide
  PROVE  VersionsFresh'
<1> SUFFICES ASSUME NEW h \in Handlers, Bumped(h)'
             PROVE  /\ handler'[h].ver <= main'[handler'[h].rec].ver
                    /\ Queued(handler[h].rec)' =>
                         queue'[handler'[h].rec].ver # handler'[h].ver
                    /\ \A w \in Workers :
                         worker'[w].pc \in Working /\ worker'[w].rec = handler'[h].rec =>
                           worker'[w].ver # handler'[h].ver
                    /\ \A g \in Handlers :
                         g # h /\ Bumped(g)' /\ handler'[g].rec = handler'[h].rec =>
                           handler'[g].ver # handler'[h].ver
  BY DEF VersionsFresh
<1>1. CASE WorkerSide
  <2>1. main' = main /\ handler' = handler /\ handler[h].rec \in Records
    BY <1>1, WorkerSideFrame, RequestFacts
  <2>2. Bumped(h) /\ \A g \in Handlers : Bumped(g)' = Bumped(g)
    BY <2>1 DEF Bumped
  <2>3. Queued(handler[h].rec)' => queue'[handler'[h].rec].ver # handler'[h].ver
    BY <1>1, <2>1, <2>2, WorkerSideRows DEF VersionsFresh, Queued
  <2>4. ASSUME NEW w \in Workers, worker'[w].pc \in Working, worker'[w].rec = handler'[h].rec
        PROVE  worker'[w].ver # handler'[h].ver
    <3>1. CASE worker[w].pc \in Working /\ worker'[w].rec = worker[w].rec
               /\ worker'[w].ver = worker[w].ver
      BY <2>1, <2>2, <2>4, <3>1 DEF VersionsFresh
    <3>2. CASE \E r \in Records : Claim(w, r)
      <4>1. PICK r \in Records : Claim(w, r)
        BY <3>2
      <4>2. worker'[w].rec = r /\ worker'[w].ver = queue[r].ver /\ Queued(r)
        BY <4>1 DEF Claim, Claimable, Queued, TypeOK
      <4> QED BY <2>1, <2>2, <2>4, <4>2 DEF VersionsFresh
    <3> QED BY <1>1, <2>4, <3>1, <3>2, WorkerSideJobs
  <2> QED BY <2>1, <2>2, <2>3, <2>4 DEF VersionsFresh
<1>2. CASE RequestSide
  <2>1. PICK g \in Handlers : SlotStep(g)
    BY <1>2, RequestSlots
  <2>2. worker' = worker
    BY <1>2, RequestSideFrame
  (* Requests other than g kept their version. *)
  <2>3. ASSUME NEW k \in Handlers, k # g
        PROVE  handler'[k] = handler[k] /\ Bumped(k)' = Bumped(k)
    BY <2>1, <2>3 DEF SlotStep, Bumped
  <2>4. ASSUME NEW k \in Handlers
        PROVE  /\ handler[k].rec \in Records /\ handler[k].ver \in Nat
               /\ main[handler[k].rec].ver \in Nat /\ main'[handler[k].rec].ver \in Nat
               /\ main[handler[k].rec].ver <= main'[handler[k].rec].ver
    <3>1. handler[k].rec \in Records /\ handler[k].ver \in Nat /\ main[handler[k].rec].ver \in Nat
      BY RequestFacts DEF Doc
    <3> QED BY <1>2, <3>1, MainGrows
  (* g has just got its version ... *)
  <2>5. CASE BumpVersion(g) /\ SlotMoves(g) /\ main[handler[g].rec].present
             /\ handler'[g].ver = main[handler[g].rec].ver + 1
             /\ main'[handler[g].rec].ver = main[handler[g].rec].ver + 1
             /\ handler'[g].rec = handler[g].rec
    <3>1. queue' = queue
      BY <2>5 DEF BumpVersion
    <3>2. CASE h = g
      <4>1. ASSUME NEW w \in Workers, worker[w].pc \in Working, worker[w].rec = handler[g].rec
            PROVE  worker[w].ver # handler'[g].ver
        BY <2>4, <2>5, <4>1, JobFacts DEF JobShape
      <4>2. Queued(handler[g].rec) => queue[handler[g].rec].ver # handler'[g].ver
        BY <2>4, <2>5 DEF RowShape, TypeOK, Row
      <4>3. ASSUME NEW k \in Handlers, k # g, Bumped(k), handler[k].rec = handler[g].rec
            PROVE  handler[k].ver # handler'[g].ver
        BY <2>4, <2>5, <4>3 DEF VersionsFresh
      <4> QED BY <2>2, <2>3, <2>4, <2>5, <3>1, <3>2, <4>1, <4>2, <4>3 DEF Queued
    <3>3. CASE h # g
      <4>1. Bumped(h) /\ handler'[h] = handler[h]
        BY <2>3, <3>3
      <4>2. handler[h].ver <= main[handler[h].rec].ver
        BY <4>1 DEF VersionsFresh
      <4>3. handler[h].rec = handler[g].rec => handler'[g].ver # handler[h].ver
        BY <2>4, <2>5, <4>2
      <4>4. handler[h].ver <= main'[handler[h].rec].ver
        BY <2>4, <4>2
      <4> QED BY <2>2, <2>3, <2>5, <3>1, <3>3, <4>1, <4>3, <4>4 DEF VersionsFresh, Queued
    <3> QED BY <3>2, <3>3
  (* ... or has none of its own to account for, or kept it. *)
  <2>6. CASE ~Bumped(g)' \/ (Bumped(g) /\ handler'[g].ver = handler[g].ver
                             /\ handler'[g].rec = handler[g].rec)
    <3>1. ASSUME NEW k \in Handlers, Bumped(k)'
          PROVE  Bumped(k) /\ handler'[k].ver = handler[k].ver /\ handler'[k].rec = handler[k].rec
      BY <2>3, <2>6, <3>1
    <3>2. handler'[h].ver <= main'[handler'[h].rec].ver
      BY <2>4, <3>1 DEF VersionsFresh
    <3>3. Queued(handler[h].rec)' => queue'[handler'[h].rec].ver # handler'[h].ver
      <4>1. CASE \A k \in Handlers : EnqueueRow(k) => handler[k].rec # handler[h].rec
        BY <1>2, <2>4, <3>1, <4>1, RequestSideRows DEF VersionsFresh, Queued
      <4>2. ASSUME NEW k \in Handlers, EnqueueRow(k), handler[k].rec = handler[h].rec
            PROVE  queue'[handler'[h].rec].ver # handler'[h].ver
        <5>1. ~Bumped(k)' /\ Bumped(k)
          BY <4>2 DEF EnqueueRow, Goto, Bumped, TypeOK, Request
        <5>2. queue'[handler[h].rec].ver = handler[k].ver
          BY <4>2, EnqueuedRow
        <5> QED BY <3>1, <4>2, <5>1, <5>2 DEF VersionsFresh
      <4> QED BY <4>1, <4>2
    <3> QED BY <2>2, <3>1, <3>2, <3>3 DEF VersionsFresh
  <2>7. CASE SlotBegins(g) \/ handler'[g].pc = "idle"
    <3>1. ~Bumped(g)'
      BY <2>7 DEF SlotBegins, Bumped
    <3> QED BY <2>6, <3>1
  <2>8. CASE SlotMoves(g)
    BY <2>5, <2>6, <2>8 DEF SlotMoves, Bumped, RemoveDocument
  <2> QED BY <2>1, <2>7, <2>8 DEF SlotStep
<1> QED BY <1>1, <1>2

(* What a worker's step does to SECONDARY and to the jobs that rely on it. *)
LEMMA SecondaryStep ==
  ASSUME TypeOK, WorkerSide, NEW r \in Records, secondary'[r] # secondary[r]
  PROVE  \E w \in Workers : /\ worker[w].rec = r
                            /\ CopyToSecondary(w) \/ DeleteReplica(w)
  BY DEF WorkerSide, WorkerStep, WorkerCrash, Claim, BackoffElapses, LeaseLapses, Lapse,
         MarkSyncing, ReadMain, CopyToSecondary, DeleteReplica, SecondaryFails, Verify,
         RecordResult, Acknowledge, ReleaseClaim, FailAttempt, MarkFailed, vars, TypeOK

(* How a job gets to the places JobShape and CopyCurrent speak of. *)
LEMMA JobAdvances ==
  ASSUME TypeOK, WorkerSide, NEW v \in Workers, worker'[v].pc \in Working
  PROVE  \/ worker'[v] = worker[v]
         \/ /\ \E r \in Records : Claim(v, r)
            /\ worker'[v].pc = "mark"
         \/ /\ MarkSyncing(v)
            /\ worker'[v] = [worker[v] EXCEPT !.pc = IF worker[v].op = "DELETE" THEN "drop" ELSE "read"]
         \/ /\ ReadMain(v) /\ worker'[v].pc = "copy" /\ main[worker[v].rec].present
            /\ worker'[v].doc = main[worker[v].rec]
         \/ /\ CopyToSecondary(v) /\ worker'[v] = [worker[v] EXCEPT !.pc = "verify"]
         \/ /\ DeleteReplica(v) /\ worker'[v].pc = "record"
         \/ /\ Verify(v) /\ worker'[v].pc = "record" /\ worker'[v].doc = worker[v].doc
         \/ /\ RecordResult(v) /\ worker'[v] = [worker[v] EXCEPT !.pc = "ack"]
         \/ worker'[v].pc \in {"release", "fail"}
<1> USE DEF TypeOK, Job
<1>1. ASSUME NEW w \in Workers, w # v, WorkerStep(w) \/ WorkerCrash(w) \/ \E r \in Records : Claim(w, r)
      PROVE  worker'[v] = worker[v]
  BY <1>1 DEF WorkerStep, MarkSyncing, ReadMain, CopyToSecondary, DeleteReplica,
              SecondaryFails, Verify, RecordResult, Acknowledge, ReleaseClaim,
              FailAttempt, MarkFailed, WorkerGoto, Rest, WorkerCrash, Claim
<1>2. ~Rest(v) /\ ~WorkerCrash(v)
  BY DEF WorkerCrash, Rest, IdleJob, Working
<1>3. ASSUME NEW r \in Records, Claim(v, r)
      PROVE  worker'[v].pc = "mark"
  BY <1>3 DEF Claim
<1>4. CASE MarkSyncing(v)
  BY <1>4 DEF MarkSyncing, WorkerGoto
<1>5. CASE ReadMain(v)
  BY <1>5 DEF ReadMain, WorkerGoto
<1>6. CASE CopyToSecondary(v)
  BY <1>6 DEF CopyToSecondary, WorkerGoto
<1>7. CASE DeleteReplica(v)
  BY <1>7 DEF DeleteReplica
<1>8. CASE SecondaryFails(v)
  BY <1>8 DEF SecondaryFails, WorkerGoto
<1>9. CASE Verify(v)
  <2>1. PICK res : worker' = [worker EXCEPT ![v].pc = "record", ![v].result = res]
    BY <1>9 DEF Verify
  <2> QED BY <1>9, <2>1
<1>10. CASE RecordResult(v)
  BY <1>10 DEF RecordResult, WorkerGoto
<1>11. CASE Acknowledge(v)
  BY <1>2, <1>11 DEF Acknowledge, WorkerGoto
<1>12. CASE FailAttempt(v)
  <2>1. worker'[v].pc # "markFailed"
    BY DEF Working
  <2> QED BY <1>2, <1>12, <2>1 DEF FailAttempt, WorkerGoto
<1>13. CASE ReleaseClaim(v) \/ MarkFailed(v)
  BY <1>2, <1>13 DEF ReleaseClaim, MarkFailed
<1>14. CASE UNCHANGED worker
  BY <1>14
<1> QED BY <1>1, <1>2, <1>3, <1>4, <1>5, <1>6, <1>7, <1>8, <1>9, <1>10, <1>11, <1>12, <1>13, <1>14
        DEF WorkerSide, WorkerStep, BackoffElapses, LeaseLapses, Lapse, vars

LEMMA JobShapeStep ==
  ASSUME TypeOK, ClaimHeld, RowShape, JobShape, RequestSide \/ WorkerSide
  PROVE  JobShape'
<1> SUFFICES ASSUME NEW w \in Workers, worker'[w].pc \in Working
             PROVE  /\ worker'[w].ver <= main'[worker'[w].rec].ver
                    /\ worker'[w].op = "DELETE" => ~main'[worker'[w].rec].present
                    /\ worker'[w].pc \in {"read", "copy", "verify"} => worker'[w].op = "UPSERT"
                    /\ worker'[w].pc = "drop" => worker'[w].op = "DELETE"
                    /\ worker'[w].op = "UPSERT" /\ worker'[w].pc \in {"verify", "record", "ack"} =>
                         secondary'[worker'[w].rec] = worker'[w].doc
                    /\ worker'[w].op = "DELETE" /\ worker'[w].pc \in {"record", "ack"} =>
                         ~secondary'[worker'[w].rec].present
  BY DEF JobShape
<1>1. CASE RequestSide
  <2>1. worker' = worker /\ secondary' = secondary
    BY <1>1, RequestSideFrame
  <2>2. /\ worker[w].rec \in Records /\ worker[w].ver \in Nat
        /\ main[worker[w].rec].ver \in Nat /\ main[worker[w].rec].data > 0
    BY <2>1, JobFacts, WorkedOnExists DEF Doc
  <2>3. /\ main'[worker[w].rec].ver \in Nat
        /\ main[worker[w].rec].ver <= main'[worker[w].rec].ver
        /\ ~main[worker[w].rec].present => ~main'[worker[w].rec].present
    BY <1>1, <2>2, MainGrows
  <2>4. worker[w].ver <= main'[worker[w].rec].ver
    BY <2>1, <2>2, <2>3 DEF JobShape
  <2> QED BY <2>1, <2>3, <2>4 DEF JobShape
<1>2. CASE WorkerSide
  <2>1. main' = main
    BY <1>2, WorkerSideFrame
  <2>2. CASE \E r \in Records : Claim(w, r)
    <3>1. PICK r \in Records : Claim(w, r)
      BY <2>2
    <3>2. /\ worker'[w].rec = r /\ worker'[w].ver = queue[r].ver /\ worker'[w].op = queue[r].op
          /\ worker'[w].pc = "mark" /\ Queued(r)
      BY <3>1 DEF Claim, Claimable, Queued, TypeOK
    <3> QED BY <2>1, <3>2 DEF RowShape
  <2>3. CASE /\ worker[w].pc \in Working /\ worker'[w].rec = worker[w].rec
             /\ worker'[w].ver = worker[w].ver /\ worker'[w].op = worker[w].op
    <3>1. worker[w].rec \in Records /\ worker[w] \in Job
      BY JobFacts DEF TypeOK
    <3>2. /\ worker'[w].ver <= main'[worker'[w].rec].ver
          /\ worker'[w].op = "DELETE" => ~main'[worker'[w].rec].present
      BY <2>1, <2>3 DEF JobShape
    (* Only w itself writes the replica of its record. *)
    <3>3. secondary'[worker[w].rec] # secondary[worker[w].rec] =>
            CopyToSecondary(w) \/ DeleteReplica(w)
      <4> SUFFICES ASSUME secondary'[worker[w].rec] # secondary[worker[w].rec]
                   PROVE  CopyToSecondary(w) \/ DeleteReplica(w)
        OBVIOUS
      <4>1. PICK v \in Workers : /\ worker[v].rec = worker[w].rec
                                 /\ CopyToSecondary(v) \/ DeleteReplica(v)
        BY <1>2, <3>1, SecondaryStep
      <4>2. worker[v].pc \in Working
        BY <4>1 DEF CopyToSecondary, DeleteReplica, Working, WorkerPCs
      <4> QED BY <2>3, <4>1, <4>2, OwnersDiffer
    <3>4. CASE worker'[w] = worker[w]
      <4>1. ~CopyToSecondary(w) /\ ~DeleteReplica(w)
        BY <3>1, <3>4 DEF CopyToSecondary, DeleteReplica, WorkerGoto, TypeOK, Job
      <4> QED BY <2>3, <3>2, <3>3, <3>4, <4>1 DEF JobShape
    <3>5. CASE MarkSyncing(w) /\ worker'[w] = [worker[w] EXCEPT !.pc =
                                   IF worker[w].op = "DELETE" THEN "drop" ELSE "read"]
      BY <2>3, <3>1, <3>2, <3>5 DEF Job, Operations
    <3>6. CASE ReadMain(w) /\ worker'[w].pc = "copy"
      BY <2>3, <3>2, <3>6 DEF ReadMain, JobShape
    <3>7. CASE CopyToSecondary(w) /\ worker'[w] = [worker[w] EXCEPT !.pc = "verify"]
      <4>1. secondary'[worker[w].rec] = worker[w].doc
        BY <3>1, <3>7 DEF CopyToSecondary, TypeOK
      <4> QED BY <2>3, <3>1, <3>2, <3>7, <4>1 DEF CopyToSecondary, JobShape, Job
    <3>8. CASE DeleteReplica(w) /\ worker'[w].pc = "record"
      <4>1. ~secondary'[worker[w].rec].present
        BY <3>1, <3>8, JobFacts DEF DeleteReplica, TypeOK, Doc
      <4> QED BY <2>3, <3>2, <3>8, <4>1 DEF DeleteReplica, JobShape
    <3>9. CASE \/ Verify(w) /\ worker'[w].pc = "record" /\ worker'[w].doc = worker[w].doc
               \/ RecordResult(w) /\ worker'[w] = [worker[w] EXCEPT !.pc = "ack"]
      <4>1. /\ secondary' = secondary /\ worker'[w].doc = worker[w].doc
            /\ worker[w].pc \in {"verify", "record"} /\ worker'[w].pc \in {"record", "ack"}
            /\ worker[w].pc = "verify" => worker[w].op = "UPSERT"
        BY <2>3, <3>1, <3>9 DEF Verify, RecordResult, JobShape, Job
      <4> QED BY <2>3, <3>2, <4>1 DEF JobShape
    <3>10. CASE worker'[w].pc \in {"release", "fail", "mark"}
      BY <2>3, <3>2, <3>10
    <3> QED BY <1>2, <3>4, <3>5, <3>6, <3>7, <3>8, <3>9, <3>10, JobAdvances
  <2> QED BY <1>2, <2>2, <2>3, WorkerSideJobs
<1> QED BY <1>1, <1>2

LEMMA CopyCurrentStep ==
  ASSUME TypeOK, ClaimHeld, ClaimHeld', RequestShape, VersionsFresh, JobShape,
         CopyCurrent, RequestSide \/ WorkerSide
  PROVE  CopyCurrent'
<1> SUFFICES ASSUME NEW w \in Workers,
                    worker'[w].pc \in {"copy", "verify", "record", "ack"},
                    worker'[w].op = "UPSERT",
                    Matches(w, queue[worker[w].rec])'
             PROVE  \/ /\ main'[worker'[w].rec].present
                       /\ worker'[w].doc = main'[worker'[w].rec]
                    \/ \E h \in Handlers : Owes(h, worker[w].rec)'
  BY DEF CopyCurrent
<1>a. worker'[w].pc \in Working
  BY DEF Working, WorkerPCs
<1>1. CASE RequestSide
  <2>1. worker' = worker
    BY <1>1, RequestSideFrame
  <2>2. worker[w].rec \in Records /\ worker[w].pc \in Working
    BY <2>1, <1>a, JobFacts
  <2>3. ASSUME NEW h \in Handlers, EnqueueRow(h), handler[h].rec = worker[w].rec
        PROVE  FALSE
    <3>1. queue'[worker[w].rec].ver = handler[h].ver
      BY <2>3, EnqueuedRow
    <3>2. Bumped(h)
      BY <2>3 DEF EnqueueRow, Bumped
    <3> QED BY <2>1, <2>2, <2>3, <3>1, <3>2 DEF VersionsFresh, Matches
  <2>4. Matches(w, queue[worker[w].rec])
    BY <1>1, <2>1, <2>2, <2>3, RequestSideRows DEF Matches, Owns
  <2>5. \/ main[worker[w].rec].present /\ worker[w].doc = main[worker[w].rec]
        \/ \E h \in Handlers : Owes(h, worker[w].rec)
    BY <2>1, <2>4 DEF CopyCurrent
  <2>6. /\ (\E h \in Handlers : Owes(h, worker[w].rec)) =>
             (\E h \in Handlers : Owes(h, worker[w].rec)')
        /\ main'[worker[w].rec] # main[worker[w].rec] =>
             (\E h \in Handlers : Owes(h, worker[w].rec)')
    <3>1. ASSUME NEW r \in Records, r = worker[w].rec
          PROVE  /\ (\E h \in Handlers : Owes(h, r)) => (\E h \in Handlers : Owes(h, r))'
                 /\ main'[r] # main[r] => (\E h \in Handlers : Owes(h, r))'
      BY <1>1, <2>3, <3>1, DebtsStay
    <3>2. ASSUME NEW r \in Records, NEW h \in Handlers, r = worker[w].rec, Owes(h, r)'
          PROVE  Owes(h, worker[w].rec)'
      BY <2>1, <3>2 DEF Owes
    <3> QED BY <2>2, <3>1, <3>2
  <2> QED BY <2>1, <2>5, <2>6
<1>2. CASE WorkerSide
  <2>1. main' = main /\ handler' = handler
    BY <1>2, WorkerSideFrame
  <2>2. CASE worker'[w].rec = worker[w].rec /\ worker'[w].ver = worker[w].ver
             /\ worker'[w].op = worker[w].op /\ worker[w].pc \in Working
    <3>1. worker[w].rec \in Records
      BY JobFacts
    <3>2. Matches(w, queue[worker[w].rec])
      <4>1. Queued(worker[w].rec)'
        BY DEF Matches, Owns, Queued
      <4>2. /\ queue'[worker[w].rec].ver = queue[worker[w].rec].ver
            /\ queue'[worker[w].rec].op = queue[worker[w].rec].op
        <5>1. ASSUME NEW r \in Records, r = worker[w].rec
              PROVE  queue'[r].ver = queue[r].ver /\ queue'[r].op = queue[r].op
          BY <1>2, <2>2, <4>1, <5>1, WorkerSideRows DEF Queued
        <5> QED BY <3>1, <5>1
      <4>3. Owns(w, queue[worker[w].rec])
        BY <2>2 DEF ClaimHeld
      <4> QED BY <2>2, <4>2, <4>3 DEF Matches
    <3>3. CASE worker'[w].doc = worker[w].doc
               /\ worker[w].pc \in {"copy", "verify", "record", "ack"}
      BY <2>1, <2>2, <3>2, <3>3 DEF CopyCurrent, Owes
    <3>4. CASE ReadMain(w) /\ main[worker[w].rec].present /\ worker'[w].doc = main[worker[w].rec]
      BY <2>1, <2>2, <3>4
    <3>5. CASE \/ CopyToSecondary(w) /\ worker'[w] = [worker[w] EXCEPT !.pc = "verify"]
               \/ Verify(w) /\ worker'[w].doc = worker[w].doc
               \/ RecordResult(w) /\ worker'[w] = [worker[w] EXCEPT !.pc = "ack"]
      <4>1. worker[w] \in Job
        BY DEF TypeOK
      <4>2. worker[w].pc \in {"copy", "verify", "record"} /\ worker'[w].doc = worker[w].doc
        BY <3>5, <4>1 DEF CopyToSecondary, Verify, RecordResult, Job
      <4> QED BY <3>3, <4>2
    <3>6. CASE DeleteReplica(w)
      BY <2>2, <3>6 DEF DeleteReplica, JobShape
    <3>7. CASE worker'[w] = worker[w]
      BY <3>3, <3>7
    <3>8. CASE MarkSyncing(w) /\ worker'[w] = [worker[w] EXCEPT !.pc =
                                   IF worker[w].op = "DELETE" THEN "drop" ELSE "read"]
      BY <3>8 DEF TypeOK, Job
    <3> QED BY <1>2, <1>a, <3>4, <3>5, <3>6, <3>7, <3>8, JobAdvances
  <2>3. CASE \E r \in Records : Claim(w, r)
    BY <2>3 DEF Claim, TypeOK
  <2> QED BY <1>2, <1>a, <2>2, <2>3, WorkerSideJobs
<1> QED BY <1>1, <1>2

(* Only the ack of the worker whose job matches it removes a row.            *)
LEMMA RowRemoved ==
  ASSUME TypeOK, WorkerSide, NEW r \in Records, Queued(r), ~Queued(r)'
  PROVE  \E w \in Workers : /\ Acknowledge(w) /\ worker[w].rec = r
                            /\ Matches(w, queue[r])
<1>1. queue'[r] # queue[r] /\ queue'[r].status = "NONE" /\ queue[r] \in Row
  BY DEF Queued, TypeOK
<1>2. ASSUME NEW v \in Workers, Acknowledge(v)
      PROVE  worker[v].rec = r /\ Matches(v, queue[r])
  <2>1. worker[v].rec # r => queue'[r] = queue[r]
    BY <1>2 DEF Acknowledge, TypeOK
  <2>2. ~Matches(v, queue[worker[v].rec]) => queue' = queue
    BY <1>2 DEF Acknowledge
  <2> QED BY <1>1, <2>1, <2>2
<1>3. ASSUME NEW v \in Workers PROVE ~ReleaseClaim(v)
  <2> SUFFICES ASSUME ReleaseClaim(v) PROVE FALSE
    OBVIOUS
  <2>1. queue'[r] = Returned(queue[r], "PENDING")
    BY <1>1, JobFacts DEF ReleaseClaim, TypeOK
  <2> QED BY <1>1, <2>1 DEF Returned, Row
<1>4. ASSUME NEW v \in Workers PROVE ~FailAttempt(v)
  <2> SUFFICES ASSUME FailAttempt(v) PROVE FALSE
    OBVIOUS
  <2>1. queue'[r] = [Returned(queue[r], IF worker[v].attempt >= MaxAttempts
                                        THEN "FAILED" ELSE "PENDING") EXCEPT
                       !.attempts = worker[v].attempt,
                       !.due = (worker[v].attempt >= MaxAttempts)]
    BY <1>1, JobFacts DEF FailAttempt, TypeOK
  <2> QED BY <1>1, <2>1 DEF Returned, Row
<1>5. ASSUME NEW v \in Workers, NEW s \in Records PROVE ~Claim(v, s)
  BY <1>1 DEF Claim, Row, TypeOK
<1>6. ASSUME NEW s \in Records PROVE ~BackoffElapses(s) /\ ~LeaseLapses(s)
  BY <1>1 DEF BackoffElapses, LeaseLapses, Lapse, Row, TypeOK
<1> QED BY <1>1, <1>2, <1>3, <1>4, <1>5, <1>6
        DEF WorkerSide, WorkerStep, WorkerCrash, MarkSyncing, ReadMain,
            CopyToSecondary, DeleteReplica, SecondaryFails, Verify, RecordResult,
            MarkFailed, vars

LEMMA NothingLostStep ==
  ASSUME TypeOK, ClaimHeld, DocShape, RequestShape, RowShape, VersionsFresh, JobShape,
         CopyCurrent, NothingLost, RequestSide \/ WorkerSide
  PROVE  NothingLost'
<1> SUFFICES ASSUME NEW r \in Records
             PROVE  InSync(r)' \/ Queued(r)' \/ (\E h \in Handlers : Owes(h, r))'
  BY DEF NothingLost
<1>a. InSync(r) \/ Queued(r) \/ \E h \in Handlers : Owes(h, r)
  BY DEF NothingLost
<1>1. CASE RequestSide
  <2>1. secondary' = secondary
    BY <1>1, RequestSideFrame
  <2>2. ASSUME NEW h \in Handlers, EnqueueRow(h), handler[h].rec = r
        PROVE  Queued(r)'
    BY <2>2, EnqueuedRow DEF Queued
  <2>3. CASE \A h \in Handlers : EnqueueRow(h) => handler[h].rec # r
    <3>1. Queued(r) => Queued(r)'
      BY <1>1, <2>3, RequestSideRows
    <3>2. /\ (\E h \in Handlers : Owes(h, r)) => (\E h \in Handlers : Owes(h, r))'
          /\ main'[r] # main[r] => (\E h \in Handlers : Owes(h, r))'
      BY <1>1, <2>3, DebtsStay
    <3>3. InSync(r) /\ main'[r] = main[r] => InSync(r)'
      BY <2>1 DEF InSync
    <3> QED BY <1>a, <3>1, <3>2, <3>3
  <2> QED BY <2>2, <2>3
<1>2. CASE WorkerSide
  <2>1. main' = main /\ handler' = handler
    BY <1>2, WorkerSideFrame
  <2>2. (\E h \in Handlers : Owes(h, r)) => (\E h \in Handlers : Owes(h, r))'
    BY <2>1 DEF Owes
  <2>3. CASE secondary'[r] # secondary[r]
    <3>1. PICK w \in Workers : worker[w].rec = r /\ (CopyToSecondary(w) \/ DeleteReplica(w))
      BY <1>2, <2>3, SecondaryStep
    <3>2. worker[w].pc \in Working /\ queue' = queue
      BY <3>1 DEF CopyToSecondary, DeleteReplica, Working, WorkerPCs
    <3> QED BY <3>1, <3>2, WorkedOnExists DEF Queued
  <2>4. CASE secondary'[r] = secondary[r]
    <3>1. InSync(r) => InSync(r)'
      BY <2>1, <2>4 DEF InSync
    <3>2. CASE Queued(r) /\ ~Queued(r)'
      <4>1. PICK w \in Workers : /\ Acknowledge(w) /\ worker[w].rec = r
                                 /\ Matches(w, queue[r])
        BY <1>2, <3>2, RowRemoved
      <4>2. worker[w].pc = "ack" /\ worker[w].pc \in Working
        BY <4>1 DEF Acknowledge, Working, WorkerPCs
      <4>3. CASE worker[w].op = "UPSERT"
        <5>1. secondary[r] = worker[w].doc
          BY <4>1, <4>2, <4>3 DEF JobShape
        <5>2. \/ main[r].present /\ worker[w].doc = main[r]
              \/ \E h \in Handlers : Owes(h, r)
          BY <4>1, <4>2, <4>3 DEF CopyCurrent
        <5>3. main[r].present /\ worker[w].doc = main[r] => InSync(r)
          BY <5>1 DEF InSync
        <5> QED BY <2>2, <3>1, <5>2, <5>3
      <4>4. CASE worker[w].op = "DELETE"
        <5>1. ~main[r].present /\ ~secondary[r].present
          BY <4>1, <4>2, <4>4 DEF JobShape
        <5>2. InSync(r)
          BY <5>1 DEF InSync, TypeOK, Doc
        <5> QED BY <3>1, <5>2
      <4> QED BY <4>3, <4>4, JobFacts DEF Operations
    <3> QED BY <1>a, <2>2, <3>1, <3>2
  <2> QED BY <2>3, <2>4
<1> QED BY <1>1, <1>2

THEOREM ReplicaInvInvariant ==
  ASSUME OrderlyWriters, "heartbeatLost" \notin Faults
  PROVE  Spec => []ReplicaInv
<1>1. Init => ReplicaInv
  BY DEF Init, ReplicaInv, DocShape, RequestShape, RowShape, VersionsFresh, JobShape,
         CopyCurrent, NothingLost, IdleRequest, IdleJob, NoRow, NoDoc, Queued, Bumped,
         Working, InSync
<1>2. TypeOK /\ ClaimHeld /\ ClaimHeld' /\ ReplicaInv /\ [Next]_vars => ReplicaInv'
  <2> SUFFICES ASSUME TypeOK, ClaimHeld, ClaimHeld', ReplicaInv, [Next]_vars
               PROVE  ReplicaInv'
    OBVIOUS
  <2>1. RequestSide \/ WorkerSide
    BY OrderlyNext DEF ReplicaInv, RequestSide, WorkerSide
  <2> QED BY <2>1, DocShapeStep, RequestShapeStep, RowShapeStep, VersionsFreshStep,
             JobShapeStep, CopyCurrentStep, NothingLostStep DEF ReplicaInv
<1> QED BY <1>1, <1>2, TypeCorrect, ClaimHeldInvariant, PTL DEF Spec

(* Where writers keep to the protocol and heartbeats live, an empty queue   *)
(* means a current replica, for any number of records, requests and         *)
(* workers, through worker crashes and SECONDARY outages.                   *)
THEOREM QueueEmptyMeansCurrent ==
  ASSUME OrderlyWriters, "heartbeatLost" \notin Faults
  PROVE  Spec => []ReplicaCurrent
<1>1. ReplicaInv => ReplicaCurrent
  BY DEF ReplicaInv, NothingLost, ReplicaCurrent, Settled, InFlight, Queued, Owes
<1> QED BY <1>1, ReplicaInvInvariant, PTL

-----------------------------------------------------------------------------
(* The replica follows its record's history (ReplicaFeed): whatever the kinds *)
(* of writers, and whatever crashes.                                         *)

(* Every step of a request, also where writers do not keep to the protocol.   *)
Writes ==
  \/ \E h \in Handlers : HandlerStep(h) \/ HandlerCrash(h)
  \/ \E h \in Handlers, r \in Records : NewRequest(h, r)
  \/ \E r \in Records : SilentWrite(r)

LEMMA NextSides ==
  ASSUME "heartbeatLost" \notin Faults, [Next]_vars
  PROVE  Writes \/ WorkerSide
  BY DEF Next, Writes, WorkerSide, HeartbeatLost

LEMMA WritesFrame ==
  ASSUME Writes
  PROVE  worker' = worker /\ secondary' = secondary
  BY DEF Writes, HandlerStep, HandlerCrash, NewRequest, SilentWrite, Create, SetFields,
         ReadForReplace, ReadForBumpReplace, ReplaceDocument, BeginDelete, BumpVersion,
         RemoveDocument, EnqueueRow, EnqueuePending, HandlerFrame

(* What a write means for the history of one document.                       *)
Kept(r) == main'[r].present = main[r].present /\ main'[r].data = main[r].data

Edited(r) == ~Gone(r) /\ main'[r].present /\ main'[r].data = main[r].data + 1

Removed(r) == main[r].present /\ ~main'[r].present /\ main'[r].data = main[r].data

LEMMA WritesOne ==
  ASSUME TypeOK, Writes
  PROVE  \/ main' = main
         \/ \E r \in Records : /\ \A s \in Records \ {r} : main'[s] = main[s]
                               /\ Kept(r) \/ Edited(r) \/ Removed(r)
<1>0. main \in [Records -> Doc]
  BY DEF TypeOK
<1>1. ASSUME NEW h \in Handlers, NEW r \in Records, Create(h, r)
      PROVE  (\A s \in Records \ {r} : main'[s] = main[s]) /\ Edited(r)
  BY <1>0, <1>1 DEF Create, Edited, Gone, NoDoc
<1>2. ASSUME NEW h \in Handlers, NEW r \in Records, SetFields(h, r)
      PROVE  (\A s \in Records \ {r} : main'[s] = main[s]) /\ Edited(r)
  BY <1>0, <1>2 DEF SetFields, Editable, NewContent, Edited, Gone, Doc
<1>3. ASSUME NEW h \in Handlers, BumpVersion(h)
      PROVE  /\ handler[h].rec \in Records
             /\ \A s \in Records \ {handler[h].rec} : main'[s] = main[s]
             /\ Kept(handler[h].rec)
  BY <1>0, <1>3, RequestFacts DEF BumpVersion, Kept, Doc
<1>4. ASSUME NEW h \in Handlers, RemoveDocument(h)
      PROVE  /\ handler[h].rec \in Records
             /\ \A s \in Records \ {handler[h].rec} : main'[s] = main[s]
             /\ Kept(handler[h].rec) \/ Removed(handler[h].rec)
  BY <1>0, <1>4, RequestFacts DEF RemoveDocument, Kept, Removed, Doc
<1>5. ASSUME NEW h \in Handlers, ReplaceDocument(h)
      PROVE  /\ handler[h].rec \in Records
             /\ \A s \in Records \ {handler[h].rec} : main'[s] = main[s]
             /\ Kept(handler[h].rec) \/ Edited(handler[h].rec)
  BY <1>0, <1>5, RequestFacts DEF ReplaceDocument, NewContent, Kept, Edited, Gone, Doc
<1>6. ASSUME NEW r \in Records, SilentWrite(r)
      PROVE  (\A s \in Records \ {r} : main'[s] = main[s]) /\ Edited(r)
  BY <1>0, <1>6 DEF SilentWrite, Editable, NewContent, Edited, Gone, Doc
<1>7. ASSUME NEW h \in Handlers, NEW r \in Records,
             ReadForReplace(h, r) \/ ReadForBumpReplace(h, r) \/ BeginDelete(h, r)
      PROVE  main' = main
  BY <1>7 DEF ReadForReplace, ReadForBumpReplace, BeginDelete
<1>8. ASSUME NEW h \in Handlers, EnqueueRow(h) \/ EnqueuePending(h) \/ HandlerCrash(h)
      PROVE  main' = main
  BY <1>8 DEF EnqueueRow, EnqueuePending, HandlerCrash
<1> QED BY <1>1, <1>2, <1>3, <1>4, <1>5, <1>6, <1>7, <1>8 DEF Writes, HandlerStep, NewRequest

(* MAIN's history only grows, and a deleted document does not come back.     *)
LEMMA HistoryGrows ==
  ASSUME TypeOK, TypeOK', Writes, NEW r \in Records
  PROVE  /\ main[r].data \in Nat /\ main'[r].data \in Nat /\ main[r].data <= main'[r].data
         /\ Gone(r) => Gone(r)'
         /\ DocShape /\ main'[r].present => main'[r].data > 0
<1>1. main[r] \in Doc /\ main'[r] \in Doc
  BY DEF TypeOK
<1>2. Kept(r) \/ Edited(r) \/ Removed(r)
  BY WritesOne DEF Kept
<1> QED BY <1>1, <1>2 DEF Kept, Edited, Removed, Gone, DocShape, Doc

LEMMA DeletesRemoveStep ==
  ASSUME TypeOK, TypeOK', DocShape, DeletesRemove, Writes
  PROVE  DeletesRemove'
<1> SUFFICES ASSUME NEW g \in Handlers, handler'[g].kind = "delete", handler'[g].pc # "idle"
             PROVE  /\ main'[handler'[g].rec].data > 0
                    /\ handler'[g].pc # "store"
                    /\ handler'[g].pc \in {"enqueue", "pend"} => ~main'[handler'[g].rec].present
  BY DEF DeletesRemove
<1>0. handler \in [Handlers -> Request] /\ handler[g] \in Request
  BY DEF TypeOK
<1>1. CASE handler'[g] = handler[g]
  <2>1. /\ handler[g].rec \in Records /\ main[handler[g].rec].data > 0
        /\ handler[g].pc # "store"
        /\ handler[g].pc \in {"enqueue", "pend"} => Gone(handler[g].rec)
    BY <1>1, RequestFacts DEF DeletesRemove, Gone
  <2> QED BY <1>1, <2>1, HistoryGrows DEF Gone
<1>2. ASSUME NEW r \in Records, BeginDelete(g, r)
      PROVE  handler'[g].rec = r /\ handler'[g].pc = "bump" /\ main' = main /\ main[r].present
  BY <1>0, <1>2 DEF BeginDelete, Start
<1>3. ASSUME handler[g].kind = "delete", handler[g].pc # "idle", handler'[g].rec = handler[g].rec,
             handler'[g].pc \in {"bump", "remove", "pend"},
             handler'[g].pc = "pend" => handler[g].pc = "enqueue"
      PROVE  /\ main'[handler'[g].rec].data > 0
             /\ handler'[g].pc # "store"
             /\ handler'[g].pc \in {"enqueue", "pend"} => ~main'[handler'[g].rec].present
  <2>1. /\ handler[g].rec \in Records /\ main[handler[g].rec].data > 0
        /\ handler[g].pc \in {"enqueue", "pend"} => Gone(handler[g].rec)
    BY <1>3, RequestFacts DEF DeletesRemove, Gone
  <2> QED BY <1>3, <2>1, HistoryGrows DEF Gone
<1>4. ASSUME Finish(g) PROVE FALSE
  BY <1>0, <1>4 DEF Finish, IdleRequest
<1>5. ASSUME BumpVersion(g)
      PROVE  /\ handler[g].kind = "delete" /\ handler[g].pc # "idle"
             /\ handler'[g].rec = handler[g].rec /\ handler'[g].pc = "remove"
  <2>1. /\ handler' = [handler EXCEPT ![g].ver = main[handler[g].rec].ver + 1,
                                      ![g].pc = AfterBump(handler[g].kind)]
        /\ handler[g].pc = "bump"
    BY <1>4, <1>5 DEF BumpVersion
  <2>2. handler'[g].kind = handler[g].kind /\ handler'[g].rec = handler[g].rec
        /\ handler'[g].pc = AfterBump(handler[g].kind)
    BY <1>0, <2>1 DEF Request
  <2> QED BY <2>1, <2>2 DEF AfterBump
<1>6. ASSUME ReplaceDocument(g) PROVE FALSE
  <2>1. handler'[g].kind = handler[g].kind /\ handler[g].pc = "store"
    BY <1>0, <1>6 DEF ReplaceDocument, Goto, Request
  <2> QED BY <2>1 DEF DeletesRemove
<1>7. CASE RemoveDocument(g)
  <2>1. handler'[g].kind = handler[g].kind /\ handler[g].pc = "remove"
        /\ handler'[g].rec = handler[g].rec /\ handler'[g].pc = "enqueue"
    BY <1>0, <1>4, <1>7 DEF RemoveDocument, Goto, Request
  <2>2. handler[g].rec \in Records /\ main[handler[g].rec].data > 0
    BY <2>1, RequestFacts DEF DeletesRemove
  <2>3. ~main'[handler[g].rec].present
    BY <1>7, <2>2 DEF RemoveDocument, TypeOK, Doc
  <2>4. main[handler[g].rec].data \in Nat /\ main'[handler[g].rec].data \in Nat
        /\ main[handler[g].rec].data <= main'[handler[g].rec].data
    BY <2>2, HistoryGrows
  <2> QED BY <2>1, <2>2, <2>3, <2>4
<1>8. ASSUME EnqueueRow(g)
      PROVE  /\ handler[g].kind = "delete" /\ handler[g].pc = "enqueue"
             /\ handler'[g].rec = handler[g].rec /\ handler'[g].pc = "pend"
  BY <1>0, <1>8 DEF EnqueueRow, Goto, Request
<1>9. ASSUME NEW r \in Records, NewRequest(g, r), ~BeginDelete(g, r) PROVE FALSE
  <2>1. \E kind \in AllKinds \ {"delete"}, pc \in RequestPCs : Start(g, kind, r, pc)
    BY <1>9 DEF NewRequest, Create, SetFields, ReadForReplace, ReadForBumpReplace, AllKinds,
                RequestPCs
  <2> QED BY <1>0, <2>1 DEF Start
<1>10. ASSUME NEW h \in Handlers, h # g, HandlerStep(h) \/ HandlerCrash(h)
       PROVE  handler'[g] = handler[g]
  BY <1>0, <1>10 DEF HandlerStep, HandlerCrash, BumpVersion, ReplaceDocument, RemoveDocument,
                     EnqueueRow, EnqueuePending, Goto, Finish
<1>11. ASSUME NEW h \in Handlers, h # g, NEW r \in Records, NewRequest(h, r)
       PROVE  handler'[g] = handler[g]
  BY <1>0, <1>11 DEF NewRequest, Create, SetFields, ReadForReplace, ReadForBumpReplace,
                     BeginDelete, Start
<1>12. ASSUME NEW r \in Records, SilentWrite(r) PROVE handler'[g] = handler[g]
  BY <1>12 DEF SilentWrite
<1>13. ~EnqueuePending(g) /\ ~HandlerCrash(g)
  BY <1>4 DEF EnqueuePending, HandlerCrash
<1>14. CASE \E r \in Records : BeginDelete(g, r)
  BY <1>2, <1>14 DEF DocShape
<1>15. CASE BumpVersion(g) \/ EnqueueRow(g)
  BY <1>3, <1>5, <1>8, <1>15
<1> QED BY <1>1, <1>6, <1>7, <1>9, <1>10, <1>11, <1>12, <1>13, <1>14, <1>15
        DEF Writes, HandlerStep

LEMMA DeletionsQueuedStep ==
  ASSUME TypeOK, TypeOK', DeletesRemove, DeletionsQueued, Writes \/ WorkerSide
  PROVE  DeletionsQueued'
<1> SUFFICES ASSUME NEW r \in Records, Queued(r)', queue'[r].op = "DELETE"
             PROVE  Gone(r)'
  BY DEF DeletionsQueued
<1>0. queue \in [Records -> Row] /\ queue[r] \in Row
  BY DEF TypeOK
<1>1. CASE WorkerSide
  <2>1. Queued(r) /\ queue[r].op = "DELETE" /\ main' = main
    BY <1>1, WorkerSideRows, WorkerSideFrame
  <2> QED BY <2>1 DEF DeletionsQueued, Gone
<1>2. CASE Writes
  <2>1. ASSUME Queued(r), queue'[r].op = queue[r].op PROVE Gone(r)'
    BY <1>2, <2>1, HistoryGrows DEF DeletionsQueued
  <2>2. ASSUME NEW h \in Handlers, EnqueueRow(h) PROVE Gone(r)'
    <3>1. handler[h].rec = r => handler[h].kind = "delete"
      BY <2>2, EnqueuedRow DEF OperationOf
    <3>2. handler[h].rec = r => Gone(r)
      BY <2>2, <3>1 DEF EnqueueRow, DeletesRemove, Gone
    <3>3. handler[h].rec # r => queue'[r] = queue[r]
      BY <1>0, <2>2 DEF EnqueueRow
    <3> QED BY <1>2, <2>1, <3>2, <3>3, HistoryGrows DEF Queued
  <2>3. ASSUME NEW h \in Handlers, EnqueuePending(h) PROVE Gone(r)'
    <3>1. queue'[r].op = queue[r].op /\ (queue'[r].status = "NONE" <=> queue[r].status = "NONE")
      BY <1>0, <2>3, RequestFacts DEF EnqueuePending, Row
    <3> QED BY <2>1, <3>1 DEF Queued
  <2>4. CASE queue' = queue
    BY <2>1, <2>4 DEF Queued
  <2> QED BY <1>2, <2>2, <2>3, <2>4
          DEF Writes, HandlerStep, HandlerCrash, NewRequest, SilentWrite, Create, SetFields,
              ReadForReplace, ReadForBumpReplace, ReplaceDocument, BeginDelete, BumpVersion,
              RemoveDocument
<1> QED BY <1>1, <1>2

(* Only the worker at work on a record writes its replica.                   *)
LEMMA OwnReplica ==
  ASSUME TypeOK, ClaimHeld, WorkerSide, NEW w \in Workers, worker[w].pc \in Working,
         secondary'[worker[w].rec] # secondary[worker[w].rec]
  PROVE  CopyToSecondary(w) \/ DeleteReplica(w)
<1>1. worker[w].rec \in Records
  BY JobFacts
<1>2. PICK v \in Workers : /\ worker[v].rec = worker[w].rec
                           /\ CopyToSecondary(v) \/ DeleteReplica(v)
  BY <1>1, SecondaryStep
<1>3. worker[v].pc \in Working
  BY <1>2 DEF CopyToSecondary, DeleteReplica, Working, WorkerPCs
<1> QED BY <1>2, <1>3, OwnersDiffer

LEMMA CopiesFollowStep ==
  ASSUME TypeOK, TypeOK', ClaimHeld, DocShape, DeletionsQueued, CopiesFollow, ReplicaBehind,
         Writes \/ WorkerSide
  PROVE  CopiesFollow'
<1> DEFINE Follows(w) ==
      /\ worker[w].op = "DELETE" => Gone(worker[w].rec)
      /\ worker[w].pc = "drop" => worker[w].op = "DELETE"
      /\ worker[w].pc \in {"copy", "verify"} => worker[w].doc.present
      /\ worker[w].pc = "copy" =>
           /\ 0 < worker[w].doc.data /\ worker[w].doc.data <= main[worker[w].rec].data
           /\ secondary[worker[w].rec].data <= worker[w].doc.data
           /\ secondary[worker[w].rec].present \/ secondary[worker[w].rec].data = 0
<1> SUFFICES ASSUME NEW w \in Workers, worker'[w].pc \in Working
             PROVE  Follows(w)'
  BY DEF CopiesFollow
<1>0. /\ worker \in [Workers -> Job] /\ worker[w] \in Job /\ worker[w].rec \in Records
      /\ worker[w].doc \in Doc /\ main[worker[w].rec] \in Doc /\ secondary[worker[w].rec] \in Doc
  BY JobFacts DEF TypeOK
<1>1. CASE Writes
  <2>1. worker' = worker /\ secondary' = secondary
    BY <1>1, WritesFrame
  <2>2. Follows(w)
    BY <2>1 DEF CopiesFollow
  <2>3. /\ main[worker[w].rec].data \in Nat /\ main'[worker[w].rec].data \in Nat
        /\ main[worker[w].rec].data <= main'[worker[w].rec].data
        /\ \A r \in Records : Gone(r) => Gone(r)'
    BY <1>0, <1>1, HistoryGrows
  <2>4. worker[w].doc.data \in Nat
    BY <1>0 DEF Doc
  <2>5. Gone(worker[w].rec) => Gone(worker[w].rec)'
    BY <1>0, <2>1, <2>3 DEF Gone
  <2> QED BY <2>1, <2>2, <2>3, <2>4, <2>5
<1>2. CASE WorkerSide
  <2>1. main' = main
    BY <1>2, WorkerSideFrame
  <2>2. CASE \E r \in Records : Claim(w, r)
    <3>1. PICK r \in Records : Claim(w, r)
      BY <2>2
    <3>2. /\ worker'[w].rec = r /\ worker'[w].op = queue[r].op /\ worker'[w].pc = "mark"
          /\ Queued(r)
      BY <1>0, <3>1 DEF Claim, Claimable, Queued
    <3> QED BY <2>1, <3>2 DEF DeletionsQueued, Gone
  <2>3. CASE /\ worker[w].pc \in Working /\ worker'[w].rec = worker[w].rec
             /\ worker'[w].op = worker[w].op
    <3>1. Follows(w)
      BY <2>3 DEF CopiesFollow
    <3>2. worker'[w].op = "DELETE" => Gone(worker[w].rec)'
      BY <2>1, <2>3, <3>1 DEF Gone
    <3>3. CASE worker'[w] = worker[w]
      <4>1. ~CopyToSecondary(w) /\ ~DeleteReplica(w)
        BY <1>0, <3>3 DEF CopyToSecondary, DeleteReplica, WorkerGoto, Job
      <4>2. secondary'[worker[w].rec] = secondary[worker[w].rec]
        BY <1>2, <2>3, <4>1, OwnReplica
      <4> QED BY <2>1, <3>1, <3>2, <3>3, <4>2
    <3>4. CASE MarkSyncing(w) /\ worker'[w] = [worker[w] EXCEPT !.pc =
                                   IF worker[w].op = "DELETE" THEN "drop" ELSE "read"]
      BY <1>0, <2>3, <3>2, <3>4 DEF Job
    <3>5. CASE ReadMain(w) /\ worker'[w].pc = "copy" /\ main[worker[w].rec].present
               /\ worker'[w].doc = main[worker[w].rec]
      <4>1. secondary' = secondary
        BY <3>5 DEF ReadMain
      <4>2. main[worker[w].rec].data \in Nat /\ 0 < main[worker[w].rec].data
        BY <1>0, <3>5 DEF DocShape, Doc
      <4>3. secondary[worker[w].rec].data <= main[worker[w].rec].data
        BY <1>0 DEF ReplicaBehind
      <4>4. secondary[worker[w].rec].present \/ secondary[worker[w].rec].data = 0
        <5>1. secondary[worker[w].rec].data \in Nat
          BY <1>0 DEF Doc
        <5> QED BY <1>0, <3>5, <5>1 DEF ReplicaBehind, Gone
      <4> QED BY <2>1, <2>3, <3>2, <3>5, <4>1, <4>2, <4>3, <4>4
    <3>6. CASE CopyToSecondary(w) /\ worker'[w] = [worker[w] EXCEPT !.pc = "verify"]
      <4>1. worker'[w].pc = "verify" /\ worker'[w].doc = worker[w].doc /\ worker[w].pc = "copy"
        BY <1>0, <3>6 DEF CopyToSecondary, Job
      <4> QED BY <3>1, <3>2, <4>1
    <3>7. CASE worker'[w].pc \in {"release", "fail", "mark", "record", "ack"}
      BY <3>2, <3>7
    <3>8. CASE RecordResult(w) /\ worker'[w] = [worker[w] EXCEPT !.pc = "ack"]
      BY <1>0, <3>7, <3>8 DEF Job
    <3> QED BY <1>2, <3>3, <3>4, <3>5, <3>6, <3>7, <3>8, JobAdvances
  <2> QED BY <1>2, <2>2, <2>3, WorkerSideJobs
<1> QED BY <1>1, <1>2

LEMMA ReplicaBehindStep ==
  ASSUME TypeOK, TypeOK', CopiesFollow, ReplicaBehind, Writes \/ WorkerSide
  PROVE  ReplicaBehind'
<1> SUFFICES ASSUME NEW r \in Records
             PROVE  /\ secondary'[r].data <= main'[r].data
                    /\ ~secondary'[r].present /\ secondary'[r].data > 0 => Gone(r)'
  BY DEF ReplicaBehind
<1>0. /\ secondary \in [Records -> Doc] /\ secondary[r] \in Doc /\ main[r] \in Doc
      /\ secondary[r].data <= main[r].data
      /\ ~secondary[r].present /\ secondary[r].data > 0 => Gone(r)
  BY DEF TypeOK, ReplicaBehind
<1>1. CASE Writes
  <2>1. /\ secondary' = secondary /\ main[r].data \in Nat /\ main'[r].data \in Nat
        /\ main[r].data <= main'[r].data
        /\ Gone(r) => Gone(r)'
    BY <1>1, WritesFrame, HistoryGrows
  <2>2. secondary[r].data \in Nat
    BY <1>0 DEF Doc
  <2> QED BY <1>0, <2>1, <2>2
<1>2. CASE WorkerSide
  <2>1. main' = main
    BY <1>2, WorkerSideFrame
  <2>2. CASE secondary'[r] = secondary[r]
    BY <1>0, <2>1, <2>2 DEF Gone
  <2>3. CASE secondary'[r] # secondary[r]
    <3>1. PICK w \in Workers : worker[w].rec = r /\ (CopyToSecondary(w) \/ DeleteReplica(w))
      BY <1>2, <2>3, SecondaryStep
    <3>2. worker[w].pc \in Working
      BY <3>1 DEF CopyToSecondary, DeleteReplica, Working, WorkerPCs
    <3>3. CASE CopyToSecondary(w)
      <4>1. secondary'[r] = worker[w].doc /\ worker[w].pc = "copy"
        BY <1>0, <3>1, <3>3 DEF CopyToSecondary
      <4> QED BY <2>1, <3>1, <3>2, <4>1 DEF CopiesFollow
    <3>4. CASE DeleteReplica(w)
      <4>1. secondary'[r].data = secondary[r].data /\ worker[w].pc = "drop"
        BY <1>0, <3>1, <3>4 DEF DeleteReplica, Doc
      <4>2. Gone(r)
        BY <3>1, <3>2, <4>1 DEF CopiesFollow
      <4> QED BY <1>0, <2>1, <4>1, <4>2 DEF Gone
    <3> QED BY <3>1, <3>3, <3>4
  <2> QED BY <2>2, <2>3
<1> QED BY <1>1, <1>2

LEMMA FeedInvariant ==
  ASSUME "heartbeatLost" \notin Faults
  PROVE  Spec => []FeedInv
<1>1. Init => FeedInv
  BY DEF Init, FeedInv, DocShape, DeletesRemove, DeletionsQueued, CopiesFollow, ReplicaBehind,
         IdleRequest, IdleJob, NoRow, NoDoc, Queued, Working
<1>2. TypeOK /\ TypeOK' /\ ClaimHeld /\ FeedInv /\ [Next]_vars => FeedInv'
  <2> SUFFICES ASSUME TypeOK, TypeOK', ClaimHeld, FeedInv, [Next]_vars PROVE FeedInv'
    OBVIOUS
  <2>1. Writes \/ WorkerSide
    BY NextSides
  <2>2. DocShape /\ DeletesRemove /\ DeletionsQueued /\ CopiesFollow /\ ReplicaBehind
    BY DEF FeedInv
  <2>3. DocShape'
    BY <2>1, <2>2, HistoryGrows, WorkerSideFrame DEF DocShape
  <2>4. DeletesRemove'
    <3>1. CASE WorkerSide
      BY <2>2, <3>1, WorkerSideFrame DEF DeletesRemove
    <3> QED BY <2>1, <2>2, <3>1, DeletesRemoveStep
  <2> QED BY <2>1, <2>2, <2>3, <2>4, DeletionsQueuedStep, CopiesFollowStep, ReplicaBehindStep
          DEF FeedInv
<1> QED BY <1>1, <1>2, TypeCorrect, ClaimHeldInvariant, PTL DEF Spec

(* Every step of the system is a step of the feed, or leaves it alone.       *)
LEMMA FeedStep ==
  ASSUME TypeOK, TypeOK', FeedInv, Writes \/ WorkerSide
  PROVE  [Feed!Next]_<<History(main), History(secondary)>>
<1>0. /\ main \in [Records -> Doc] /\ secondary \in [Records -> Doc]
      /\ main' \in [Records -> Doc] /\ secondary' \in [Records -> Doc]
  BY DEF TypeOK
<1>h. /\ \A r \in Records : /\ History(main)[r].present = main[r].present
                            /\ History(main)[r].data = main[r].data
                            /\ History(secondary)[r].present = secondary[r].present
                            /\ History(secondary)[r].data = secondary[r].data
      /\ History(main)' = [r \in Records |-> [present |-> main'[r].present, data |-> main'[r].data]]
      /\ History(secondary)' =
           [r \in Records |-> [present |-> secondary'[r].present, data |-> secondary'[r].data]]
  BY DEF History
<1>1. CASE Writes
  <2>1. History(secondary)' = History(secondary)
    BY <1>1, WritesFrame DEF History
  <2>2. CASE main' = main
    BY <2>1, <2>2 DEF History
  <2>3. CASE \E r \in Records : /\ \A s \in Records \ {r} : main'[s] = main[s]
                                /\ Kept(r) \/ Edited(r) \/ Removed(r)
    <3>1. PICK r \in Records : /\ \A s \in Records \ {r} : main'[s] = main[s]
                               /\ Kept(r) \/ Edited(r) \/ Removed(r)
      BY <2>3
    <3>2. CASE Kept(r)
      <4>1. \A s \in Records : main'[s].present = main[s].present /\ main'[s].data = main[s].data
        BY <3>1, <3>2 DEF Kept
      <4>2. History(main)' = History(main)
        BY <4>1 DEF History
      <4> QED BY <2>1, <4>2
    <3>3. CASE Edited(r)
      <4>1. ~Feed!Forgotten(History(main)[r])
        BY <1>h, <3>3 DEF Edited, Gone, Feed!Forgotten
      <4>2. History(main)' = [History(main) EXCEPT ![r] =
              [present |-> TRUE, data |-> History(main)[r].data + 1]]
        BY <1>0, <3>1, <3>3 DEF Edited, History, Doc
      <4> QED BY <2>1, <4>1, <4>2 DEF Feed!Next, Feed!Edit
    <3>4. CASE Removed(r)
      <4>1. History(main)[r].present
        BY <1>h, <3>4 DEF Removed
      <4>2. History(main)' = [History(main) EXCEPT ![r] =
              [History(main)[r] EXCEPT !.present = FALSE]]
        BY <1>0, <3>1, <3>4 DEF Removed, History, Doc
      <4> QED BY <2>1, <4>1, <4>2 DEF Feed!Next, Feed!Delete
    <3> QED BY <3>1, <3>2, <3>3, <3>4
  <2> QED BY <1>1, <2>2, <2>3, WritesOne
<1>2. CASE WorkerSide
  <2>1. History(main)' = History(main)
    BY <1>2, WorkerSideFrame DEF History
  <2>2. ASSUME NEW w \in Workers, CopyToSecondary(w)
        PROVE  Feed!Follow(worker[w].rec)
    <3>1. /\ worker[w].rec \in Records /\ worker[w].doc \in Doc /\ worker[w].pc = "copy"
          /\ secondary' = [secondary EXCEPT ![worker[w].rec] = worker[w].doc]
      BY <2>2, JobFacts DEF CopyToSecondary
    <3>2. /\ worker[w].doc.present
          /\ 0 < worker[w].doc.data /\ worker[w].doc.data <= main[worker[w].rec].data
          /\ secondary[worker[w].rec].data <= worker[w].doc.data
          /\ secondary[worker[w].rec].present \/ secondary[worker[w].rec].data = 0
      BY <3>1 DEF FeedInv, CopiesFollow, Working, WorkerPCs
    <3>3. PICK r \in Records : r = worker[w].rec
      BY <3>1
    <3>4. PICK doc \in Doc : doc = worker[w].doc
      BY <3>1
    <3>5. /\ doc.data \in 1 .. History(main)[r].data
          /\ History(secondary)[r].data <= doc.data
          /\ ~Feed!Forgotten(History(secondary)[r])
      BY <1>0, <1>h, <3>2, <3>3, <3>4 DEF Feed!Forgotten, Doc
    <3>6. History(secondary)' = [History(secondary) EXCEPT ![r] =
                                   [present |-> TRUE, data |-> doc.data]]
      BY <1>0, <3>1, <3>2, <3>3, <3>4 DEF History, Doc
    <3> QED BY <2>1, <3>3, <3>5, <3>6 DEF Feed!Follow
  <2>3. ASSUME NEW w \in Workers, DeleteReplica(w)
        PROVE  Feed!Drop(worker[w].rec)
    <3>1. /\ worker[w].rec \in Records /\ worker[w].pc = "drop"
          /\ secondary' = [secondary EXCEPT ![worker[w].rec].present = FALSE]
      BY <2>3, JobFacts DEF DeleteReplica
    <3>2. Gone(worker[w].rec)
      BY <3>1 DEF FeedInv, CopiesFollow, Working, WorkerPCs
    <3>3. PICK r \in Records : r = worker[w].rec
      BY <3>1
    <3>4. Feed!Forgotten(History(main)[r])
      BY <1>h, <3>2, <3>3 DEF Gone, Feed!Forgotten
    <3>5. History(secondary)' = [History(secondary) EXCEPT ![r] =
                                   [History(secondary)[r] EXCEPT !.present = FALSE]]
      BY <1>0, <3>1, <3>3 DEF History, Doc
    <3> QED BY <2>1, <3>3, <3>4, <3>5 DEF Feed!Drop
  <2>4. CASE secondary' = secondary
    BY <2>1, <2>4 DEF History
  <2>5. CASE secondary' # secondary
    <3>1. PICK r \in Records : secondary'[r] # secondary[r]
      BY <1>0, <2>5
    <3>2. PICK w \in Workers : CopyToSecondary(w) \/ DeleteReplica(w)
      BY <1>2, <3>1, SecondaryStep
    <3> QED BY <2>2, <2>3, <3>2, JobFacts DEF Feed!Next
  <2> QED BY <2>4, <2>5
<1> QED BY <1>1, <1>2

(* SECONDARY only ever moves forward along the history of each record, holds *)
(* nothing MAIN never had and does not bring a deleted record back: through  *)
(* every kind of write, whole-document replacements and writes that skip the *)
(* queue included, crashes of requests and workers, and SECONDARY outages,   *)
(* as long as heartbeats live as long as their jobs.                         *)
THEOREM ReplicaFollowsMain ==
  ASSUME "heartbeatLost" \notin Faults
  PROVE  Spec => FeedSpec
<1>1. Init => Feed!Init
  BY DEF Init, Feed!Init, History, Feed!Absent, NoDoc
<1>2. TypeOK /\ TypeOK' /\ FeedInv /\ [Next]_vars
        => [Feed!Next]_<<History(main), History(secondary)>>
  BY NextSides, FeedStep
<1> QED BY <1>1, <1>2, TypeCorrect, FeedInvariant, PTL DEF Spec, FeedSpec, Feed!Spec

-----------------------------------------------------------------------------
(* A row given up has used its attempts, or is about to be revived.          *)
LEMMA ParkedStep ==
  ASSUME "handlerCrash" \notin Faults, TypeOK, FreshWorkNotParked, [Next]_vars
  PROVE  FreshWorkNotParked'
<1> SUFFICES ASSUME NEW r \in Records, queue'[r].status = "FAILED"
             PROVE  \/ queue'[r].attempts >= MaxAttempts
                    \/ \E h \in Handlers : handler'[h].pc = "pend" /\ handler'[h].rec = r
  BY DEF FreshWorkNotParked
<1>0. /\ queue \in [Records -> Row] /\ queue[r] \in Row /\ handler \in [Handlers -> Request]
      /\ worker \in [Workers -> Job]
  BY DEF TypeOK
<1>1. queue[r].status = "FAILED" =>
        \/ queue[r].attempts >= MaxAttempts
        \/ \E h \in Handlers : handler[h].pc = "pend" /\ handler[h].rec = r
  BY DEF FreshWorkNotParked
<1>2. ASSUME queue'[r] = queue[r],
             \A h \in Handlers : handler[h].pc = "pend" /\ handler[h].rec = r
                                   => handler'[h] = handler[h]
      PROVE  \/ queue'[r].attempts >= MaxAttempts
             \/ \E h \in Handlers : handler'[h].pc = "pend" /\ handler'[h].rec = r
  BY <1>1, <1>2
<1>3. ASSUME NEW h \in Handlers, EnqueueRow(h)
      PROVE  \/ queue'[r].attempts >= MaxAttempts
             \/ \E g \in Handlers : handler'[g].pc = "pend" /\ handler'[g].rec = r
  <2>1. handler'[h].pc = "pend" /\ handler'[h].rec = handler[h].rec
    BY <1>0, <1>3 DEF EnqueueRow, Goto, Request
  <2>2. handler[h].rec # r => queue'[r] = queue[r]
    BY <1>0, <1>3 DEF EnqueueRow
  <2>3. \A g \in Handlers : handler[g].pc = "pend" => handler'[g] = handler[g]
    BY <1>0, <1>3 DEF EnqueueRow, Goto
  <2> QED BY <1>2, <2>1, <2>2, <2>3
<1>4. ASSUME NEW h \in Handlers, EnqueuePending(h)
      PROVE  \/ queue'[r].attempts >= MaxAttempts
             \/ \E g \in Handlers : handler'[g].pc = "pend" /\ handler'[g].rec = r
  <2>1. handler[h].rec # r
    BY <1>0, <1>4 DEF EnqueuePending, Row
  <2>2. queue'[r] = queue[r] /\ \A g \in Handlers \ {h} : handler'[g] = handler[g]
    BY <1>0, <1>4, <2>1 DEF EnqueuePending, Finish
  <2> QED BY <1>2, <2>1, <2>2
<1>5. ASSUME NEW h \in Handlers, BumpVersion(h) \/ ReplaceDocument(h) \/ RemoveDocument(h)
      PROVE  /\ queue' = queue
             /\ \A g \in Handlers : handler[g].pc = "pend" => handler'[g] = handler[g]
  BY <1>0, <1>5 DEF BumpVersion, ReplaceDocument, RemoveDocument, Goto, Finish
<1>6. ASSUME NEW h \in Handlers, NEW s \in Records, NewRequest(h, s)
      PROVE  /\ queue' = queue
             /\ \A g \in Handlers : handler[g].pc = "pend" => handler'[g] = handler[g]
  BY <1>0, <1>6 DEF NewRequest, Create, SetFields, ReadForReplace, ReadForBumpReplace,
                    BeginDelete, Start
<1>7. CASE \E w \in Workers : FailAttempt(w)
  <2>1. PICK w \in Workers : FailAttempt(w)
    BY <1>7
  <2>2. handler' = handler
    BY <2>1 DEF FailAttempt, WorkerFrame
  <2>3. CASE worker[w].rec = r /\ Matches(w, queue[r])
    <3>1. queue'[r] = [Returned(queue[r], IF worker[w].attempt >= MaxAttempts
                                          THEN "FAILED" ELSE "PENDING") EXCEPT
                         !.attempts = worker[w].attempt,
                         !.due = (worker[w].attempt >= MaxAttempts)]
      BY <1>0, <2>1, <2>3 DEF FailAttempt
    <3> QED BY <1>0, <3>1 DEF Returned, Row
  <2>4. CASE ~(worker[w].rec = r /\ Matches(w, queue[r]))
    <3>1. queue'[r] = queue[r]
      BY <1>0, <2>1, <2>4, JobFacts DEF FailAttempt
    <3> QED BY <1>2, <2>2, <3>1
  <2> QED BY <2>3, <2>4
<1>8. ASSUME NEW w \in Workers, ReleaseClaim(w)
      PROVE  handler' = handler /\ queue'[r] = queue[r]
  BY <1>0, <1>8, JobFacts DEF ReleaseClaim, WorkerFrame, Returned, Row
<1>9. ASSUME NEW w \in Workers, Acknowledge(w)
      PROVE  handler' = handler /\ queue'[r] = queue[r]
  BY <1>0, <1>9, JobFacts DEF Acknowledge, WorkerFrame, NoRow
<1>10. ASSUME NEW w \in Workers, NEW s \in Records, Claim(w, s)
       PROVE  handler' = handler /\ queue'[r] = queue[r]
  BY <1>0, <1>10 DEF Claim, WorkerFrame, Row
<1>11. ASSUME NEW s \in Records, BackoffElapses(s) \/ LeaseLapses(s) \/ HeartbeatLost(s)
       PROVE  handler' = handler /\ queue'[r] = queue[r]
  BY <1>0, <1>11 DEF BackoffElapses, LeaseLapses, HeartbeatLost, Lapse, Row
<1>12. ASSUME NEW w \in Workers,
              \/ MarkSyncing(w) \/ ReadMain(w) \/ CopyToSecondary(w) \/ DeleteReplica(w)
              \/ SecondaryFails(w) \/ Verify(w) \/ RecordResult(w) \/ MarkFailed(w)
              \/ WorkerCrash(w)
       PROVE  handler' = handler /\ queue' = queue
  BY <1>12 DEF MarkSyncing, ReadMain, CopyToSecondary, DeleteReplica, SecondaryFails, Verify,
               RecordResult, MarkFailed, WorkerCrash, WorkerFrame
<1>13. ASSUME NEW s \in Records, SilentWrite(s) PROVE handler' = handler /\ queue' = queue
  BY <1>13 DEF SilentWrite
<1>14. \A h \in Handlers : ~HandlerCrash(h)
  BY DEF HandlerCrash
<1>15. UNCHANGED vars => handler' = handler /\ queue' = queue
  BY DEF vars
<1> QED BY <1>2, <1>3, <1>4, <1>5, <1>6, <1>7, <1>8, <1>9, <1>10, <1>11, <1>12, <1>13, <1>14,
           <1>15 DEF Next, HandlerStep, WorkerStep

(* As long as requests run to their end, no row is left FAILED with attempts *)
(* to spare, in any deployment and whatever else goes wrong.                 *)
THEOREM FreshWorkIsAttempted ==
  ASSUME "handlerCrash" \notin Faults
  PROVE  Spec => []FreshWorkNotParked
<1>1. Init => FreshWorkNotParked
  BY DEF Init, FreshWorkNotParked, NoRow
<1>2. TypeOK /\ FreshWorkNotParked /\ [Next]_vars => FreshWorkNotParked'
  BY ParkedStep
<1> QED BY <1>1, <1>2, TypeCorrect, PTL DEF Spec

-----------------------------------------------------------------------------
(* What users are shown settles.                                             *)

LEMMA ShownStep ==
  ASSUME TypeOK, WorkerSide, NEW r \in Records, verification'[r] # verification[r]
  PROVE  \E w \in Workers :
           /\ worker[w].rec = r
           /\ \/ MarkSyncing(w) \/ RecordResult(w)
              \/ MarkFailed(w) /\ verification'[r].status = "FAILED"
<1>1. verification' # verification
  OBVIOUS
<1>2. PICK w \in Workers : MarkSyncing(w) \/ RecordResult(w) \/ MarkFailed(w)
  BY <1>1 DEF WorkerSide, WorkerStep, WorkerCrash, Claim, BackoffElapses, LeaseLapses, Lapse,
         ReadMain, CopyToSecondary, DeleteReplica, SecondaryFails, Verify,
         Acknowledge, ReleaseClaim, FailAttempt, vars
<1>3. worker[w].rec = r
  BY <1>2 DEF MarkSyncing, RecordResult, MarkFailed, SetVerification, TypeOK
<1>4. MarkFailed(w) => verification'[r].status = "FAILED"
  BY <1>3 DEF MarkFailed, SetVerification, TypeOK
<1> QED BY <1>2, <1>3, <1>4

LEMMA JobsAnswerStep ==
  ASSUME TypeOK, ClaimHeld, JobShape, CopiesFollow, JobsAnswer, WorkerSide
  PROVE  JobsAnswer'
<1> SUFFICES ASSUME NEW w \in Workers, worker'[w].pc \in {"record", "ack"}
             PROVE  /\ worker'[w].pc = "record" => worker'[w].result \in {"VERIFIED", "FAILED"}
                    /\ worker'[w].pc = "ack" =>
                         /\ verification'[worker'[w].rec].status \in {"VERIFIED", "FAILED"}
                         /\ /\ verification'[worker'[w].rec].status = "VERIFIED"
                            /\ worker'[w].op = "UPSERT"
                            => verification'[worker'[w].rec].ver
                                 = EffectiveVersion(worker'[w].doc)
  BY DEF JobsAnswer
<1>0. /\ worker \in [Workers -> Job] /\ worker[w] \in Job /\ worker[w].rec \in Records
      /\ worker'[w].pc \in Working
      /\ verification \in [Records -> [status: Statuses, ver: Nat]]
  BY JobFacts DEF TypeOK, Working, WorkerPCs
<1>1. CASE worker'[w] = worker[w]
  <2>1. CASE worker[w].pc = "record"
    BY <1>1, <2>1 DEF JobsAnswer
  <2>2. CASE worker[w].pc = "ack"
    <3>1. \/ verification'[worker[w].rec] = verification[worker[w].rec]
          \/ verification'[worker[w].rec].status = "FAILED"
      <4> SUFFICES ASSUME verification'[worker[w].rec] # verification[worker[w].rec]
                   PROVE  verification'[worker[w].rec].status = "FAILED"
        OBVIOUS
      <4>1. PICK v \in Workers :
              /\ worker[v].rec = worker[w].rec
              /\ \/ MarkSyncing(v) \/ RecordResult(v)
                 \/ MarkFailed(v) /\ verification'[worker[w].rec].status = "FAILED"
        BY <1>0, ShownStep
      <4>2. ~MarkSyncing(v) /\ ~RecordResult(v)
        <5> SUFFICES ASSUME MarkSyncing(v) \/ RecordResult(v) PROVE FALSE
          OBVIOUS
        <5>1. worker[v].pc \in Working /\ worker[v].pc # "ack"
          BY DEF MarkSyncing, RecordResult, Working, WorkerPCs
        <5> QED BY <1>0, <1>1, <2>2, <4>1, <5>1, OwnersDiffer
      <4> QED BY <4>1, <4>2
    <3> QED BY <1>1, <2>2, <3>1 DEF JobsAnswer
  <2> QED BY <1>1, <2>1, <2>2
<1>2. CASE DeleteReplica(w)
  BY <1>0, <1>2 DEF DeleteReplica, Job
<1>3. CASE Verify(w)
  <2>1. /\ worker[w].pc = "verify" /\ worker[w].pc \in Working
        /\ worker[w].doc.present /\ secondary[worker[w].rec] = worker[w].doc
    <3>1. worker[w].pc = "verify" /\ worker[w].pc \in Working
      BY <1>3 DEF Verify, Working, WorkerPCs
    <3> QED BY <3>1 DEF JobShape, CopiesFollow
  <2>2. /\ worker'[w].pc = "record"
        /\ worker'[w].result \in {"VERIFIED", "FAILED"}
    BY <1>0, <1>3, <2>1 DEF Verify, Job
  <2> QED BY <2>2
<1>4. CASE RecordResult(w)
  <2>1. /\ worker'[w].pc = "ack" /\ worker'[w].rec = worker[w].rec
        /\ worker'[w].doc = worker[w].doc /\ worker'[w].op = worker[w].op
        /\ worker[w].pc = "record"
    BY <1>0, <1>4 DEF RecordResult, WorkerGoto, Job
  <2>2. verification'[worker[w].rec] =
          [status |-> worker[w].result,
           ver |-> IF worker[w].op = "DELETE" THEN worker[w].ver
                   ELSE EffectiveVersion(worker[w].doc)]
    BY <1>0, <1>4 DEF RecordResult, SetVerification
  <2> QED BY <2>1, <2>2 DEF JobsAnswer
<1>5. MarkSyncing(w) => worker'[w].pc \in {"drop", "read"}
  BY <1>0 DEF MarkSyncing, WorkerGoto, Job
<1>6. CopyToSecondary(w) => worker'[w].pc = "verify"
  BY <1>0 DEF CopyToSecondary, WorkerGoto, Job
<1> QED BY <1>0, <1>1, <1>2, <1>3, <1>4, <1>5, <1>6, JobAdvances

LEMMA AnswersOwedStep ==
  ASSUME TypeOK, ClaimHeld, DocShape, RequestShape, JobShape, CopyCurrent, JobsAnswer, AnswersOwed,
         RequestSide \/ WorkerSide
  PROVE  AnswersOwed'
<1> SUFFICES ASSUME NEW r \in Records, main'[r].data > 0
             PROVE  Answered(r)' \/ Queued(r)' \/ (\E h \in Handlers : Owes(h, r))'
  BY DEF AnswersOwed
<1>a. main[r].data > 0 => Answered(r) \/ Queued(r) \/ \E h \in Handlers : Owes(h, r)
  BY DEF AnswersOwed
<1>1. CASE RequestSide
  <2>1. verification' = verification
    BY <1>1 DEF RequestSide, Create, SetFields, BeginDelete, BumpVersion, RemoveDocument,
                EnqueueRow, EnqueuePending, HandlerFrame
  <2>2. ASSUME NEW h \in Handlers, EnqueueRow(h), handler[h].rec = r
        PROVE  Queued(r)'
    BY <2>2, EnqueuedRow DEF Queued
  <2>3. CASE \A h \in Handlers : EnqueueRow(h) => handler[h].rec # r
    <3>1. Queued(r) => Queued(r)'
      BY <1>1, <2>3, RequestSideRows
    <3>2. /\ (\E h \in Handlers : Owes(h, r)) => (\E h \in Handlers : Owes(h, r))'
          /\ main'[r] # main[r] => (\E h \in Handlers : Owes(h, r))'
      BY <1>1, <2>3, DebtsStay
    <3>3. Answered(r) /\ main'[r] = main[r] => Answered(r)'
      BY <2>1 DEF Answered
    <3> QED BY <1>a, <3>1, <3>2, <3>3
  <2> QED BY <2>2, <2>3
<1>2. CASE WorkerSide
  <2>1. main' = main /\ handler' = handler
    BY <1>2, WorkerSideFrame
  <2>2. (\E h \in Handlers : Owes(h, r)) => (\E h \in Handlers : Owes(h, r))'
    BY <2>1 DEF Owes
  <2>3. CASE Queued(r) /\ ~Queued(r)'
    <3>1. PICK w \in Workers : Acknowledge(w) /\ worker[w].rec = r /\ Matches(w, queue[r])
      BY <1>2, <2>3, RowRemoved
    <3>2. worker[w].pc = "ack" /\ worker[w].pc \in Working /\ verification' = verification
      BY <3>1 DEF Acknowledge, Working, WorkerPCs
    <3>3. /\ verification[r].status \in {"VERIFIED", "FAILED"}
          /\ verification[r].status = "VERIFIED" /\ worker[w].op = "UPSERT" =>
               verification[r].ver = EffectiveVersion(worker[w].doc)
      BY <3>1, <3>2 DEF JobsAnswer
    <3>4. CASE worker[w].op = "UPSERT"
      <4>1. \/ main[r].present /\ worker[w].doc = main[r]
            \/ \E h \in Handlers : Owes(h, r)
        BY <3>1, <3>2, <3>4 DEF CopyCurrent
      <4>2. worker[w].doc = main[r] => Answered(r)'
        BY <2>1, <3>2, <3>3, <3>4 DEF Answered
      <4> QED BY <2>2, <4>1, <4>2
    <3>5. CASE worker[w].op = "DELETE"
      <4>1. ~main[r].present
        BY <3>1, <3>2, <3>5 DEF JobShape
      <4> QED BY <2>1, <3>2, <3>3, <4>1 DEF Answered
    <3> QED BY <3>4, <3>5, JobFacts DEF Operations
  <2>4. CASE ~Queued(r)
    <3>1. Answered(r) => Answered(r)'
      <4>1. CASE verification'[r] = verification[r]
        BY <2>1, <4>1 DEF Answered
      <4>2. CASE verification'[r] # verification[r]
        <5>1. PICK w \in Workers :
                /\ worker[w].rec = r
                /\ \/ MarkSyncing(w) \/ RecordResult(w)
                   \/ MarkFailed(w) /\ verification'[r].status = "FAILED"
          BY <1>2, <4>2, ShownStep
        <5>2. ~MarkSyncing(w) /\ ~RecordResult(w)
          BY <2>4, <5>1 DEF MarkSyncing, RecordResult, Working, WorkerPCs, ClaimHeld, Owns, Queued
        <5> QED BY <5>1, <5>2 DEF Answered
      <4> QED BY <4>1, <4>2
    <3> QED BY <1>a, <2>1, <2>2, <2>4, <3>1
  <2> QED BY <2>3, <2>4
<1> QED BY <1>1, <1>2

LEMMA StatusInvariant ==
  ASSUME OrderlyWriters, "heartbeatLost" \notin Faults
  PROVE  Spec => []StatusInv
<1>1. Init => StatusInv
  BY DEF Init, StatusInv, JobsAnswer, AnswersOwed, IdleJob, NoDoc
<1>2. TypeOK /\ ClaimHeld /\ ReplicaInv /\ FeedInv /\ StatusInv /\ [Next]_vars => StatusInv'
  <2> SUFFICES ASSUME TypeOK, ClaimHeld, ReplicaInv, FeedInv, StatusInv, [Next]_vars
               PROVE  StatusInv'
    OBVIOUS
  <2>1. RequestSide \/ WorkerSide
    BY OrderlyNext DEF ReplicaInv, RequestSide, WorkerSide
  <2>2. JobsAnswer'
    <3>1. CASE RequestSide
      <4>1. worker' = worker /\ verification' = verification
        BY <3>1 DEF RequestSide, Create, SetFields, BeginDelete, BumpVersion, RemoveDocument,
                    EnqueueRow, EnqueuePending, HandlerFrame
      <4> QED BY <4>1 DEF StatusInv, JobsAnswer
    <3>2. CASE WorkerSide
      BY <3>2, JobsAnswerStep DEF ReplicaInv, FeedInv, StatusInv
    <3> QED BY <2>1, <3>1, <3>2
  <2>3. AnswersOwed'
    BY <2>1, AnswersOwedStep DEF ReplicaInv, StatusInv
  <2> QED BY <2>2, <2>3 DEF StatusInv
<1> QED BY <1>1, <1>2, TypeCorrect, ClaimHeldInvariant, ReplicaInvInvariant, FeedInvariant, PTL
    DEF Spec

(* Where writers keep to the protocol and heartbeats live, a record with     *)
(* nothing queued shows VERIFIED with the version MAIN has now, or FAILED.   *)
THEOREM StatusSettlesAlways ==
  ASSUME OrderlyWriters, "heartbeatLost" \notin Faults
  PROVE  Spec => []StatusSettles
<1>1. StatusInv => StatusSettles
  BY DEF StatusInv, AnswersOwed, StatusSettles, Answered, Settled, InFlight, Queued, Owes
<1> QED BY <1>1, StatusInvariant, PTL

-----------------------------------------------------------------------------
(***************************************************************************)
(* LocalBackup, for any number of records, handlers, workers and runs, any *)
(* kinds of writers and any faults: a backup is a behaviour of             *)
(* Replication, its types, what versions say of contents beside the        *)
(* handlers (BackupInv, and from it BackupMatches), and what one run at a  *)
(* time does (OneRunInv, and from it OneRunFollows).                       *)
(***************************************************************************)

-----------------------------------------------------------------------------
(* Types, and what each step makes of a run. *)

LEMMA VersionsType ==
  ASSUME NEW store \in [Records -> Doc]
  PROVE  /\ Versions(store) \in [Records -> Nat]
         /\ \A r \in Records :
              /\ store[r].present => /\ Versions(store)[r] = EffectiveVersion(store[r])
                                     /\ Versions(store)[r] > 0
              /\ ~store[r].present => Versions(store)[r] = 0
  BY DEF Versions, EffectiveVersion, Doc

(* Equal versions mean the same documents are there. *)
LEMMA SameVersions ==
  ASSUME NEW a \in [Records -> Doc], NEW b \in [Records -> Doc], Versions(a) = Versions(b)
  PROVE  Present(a) = Present(b)
  BY VersionsType DEF Present

LEMMA RunFields ==
  ASSUME NEW run \in Run
  PROVE  /\ run.pc \in {"idle", "plan", "copy", "ids", "list", "drop"}
         /\ run.found \in [Records -> Nat] /\ run.docs \in [Records -> Doc]
         /\ run.todo \subseteq Records /\ run.ids \subseteq Records /\ run.alone \in BOOLEAN
  BY DEF Run

LEMMA IdleBackupFacts ==
  /\ IdleBackup \in Run /\ IdleBackup.pc = "idle" /\ ~IdleBackup.alone
  /\ \A r \in Records : IdleBackup.docs[r] = NoDoc
  BY NoDocType DEF IdleBackup, Run

(* One run goes on as `run`; nobody else does anything. *)
Moves(k, run) ==
  /\ run \in Run
  /\ backup' = [backup EXCEPT ![k] = run]
  /\ UNCHANGED <<vars, muddled, overlapped>>

(* A new run has read LOCAL's versions; nobody is alone any more but perhaps it. *)
LEMMA StartBackupFacts ==
  ASSUME BackupTypes, NEW k \in Admins, StartBackup(k)
  PROVE  /\ backup[k].pc = "idle"
         /\ backup' \in [Admins -> Run]
         /\ backup'[k].pc = "plan" /\ backup'[k].found = Versions(local)
         /\ backup'[k].docs = IdleBackup.docs
         /\ backup'[k].alone <=> \A i \in Admins : backup[i].pc = "idle"
         /\ \A j \in Admins \ {k} : /\ backup'[j].pc = backup[j].pc
                                    /\ backup'[j].found = backup[j].found
                                    /\ backup'[j].docs = backup[j].docs
                                    /\ backup'[j].todo = backup[j].todo
                                    /\ backup'[j].ids = backup[j].ids
                                    /\ ~backup'[j].alone
         /\ overlapped' <=> overlapped \/ \E i \in Admins : backup[i].pc # "idle"
         /\ UNCHANGED <<vars, muddled, local, agreed>>
<1> DEFINE a == \A i \in Admins : backup[i].pc = "idle"
           run == [IdleBackup EXCEPT !.pc = "plan", !.found = Versions(local), !.alone = a]
<1>1. /\ backup[k].pc = "idle" /\ a \in BOOLEAN /\ Versions(local) \in [Records -> Nat]
      /\ backup \in [Admins -> Run]
  BY VersionsType DEF StartBackup, BackupTypes
<1>2. /\ run \in Run /\ run.pc = "plan" /\ run.found = Versions(local)
      /\ run.docs = IdleBackup.docs
  BY <1>1, IdleBackupFacts DEF Run
<1>3. run.alone = a
  BY <1>1, IdleBackupFacts DEF IdleBackup
<1>4. /\ \A j \in Admins : backup'[j] = IF j = k THEN run ELSE [backup[j] EXCEPT !.alone = FALSE]
      /\ backup' = [j \in Admins |-> IF j = k THEN run ELSE [backup[j] EXCEPT !.alone = FALSE]]
  BY DEF StartBackup
<1>5. \A j \in Admins : /\ [backup[j] EXCEPT !.alone = FALSE] \in Run
                        /\ [backup[j] EXCEPT !.alone = FALSE].pc = backup[j].pc
                        /\ [backup[j] EXCEPT !.alone = FALSE].found = backup[j].found
                        /\ [backup[j] EXCEPT !.alone = FALSE].docs = backup[j].docs
                        /\ [backup[j] EXCEPT !.alone = FALSE].todo = backup[j].todo
                        /\ [backup[j] EXCEPT !.alone = FALSE].ids = backup[j].ids
                        /\ ~[backup[j] EXCEPT !.alone = FALSE].alone
  BY <1>1 DEF Run
<1>6. /\ overlapped' <=> overlapped \/ \E i \in Admins : backup[i].pc # "idle"
      /\ UNCHANGED <<vars, muddled, local, agreed>>
  BY DEF StartBackup, MainFrame
<1> HIDE DEF run, a
<1>7. backup' \in [Admins -> Run]
  BY <1>2, <1>4, <1>5
<1>8. /\ backup'[k] = run
      /\ \A j \in Admins \ {k} : backup'[j] = [backup[j] EXCEPT !.alone = FALSE]
  BY <1>4
<1>9. run.alone <=> \A i \in Admins : backup[i].pc = "idle"
  BY <1>3 DEF a
<1>10. backup'[k].alone <=> \A i \in Admins : backup[i].pc = "idle"
  BY <1>8, <1>9, Zenon
<1>11. \A j \in Admins \ {k} : /\ backup'[j].pc = backup[j].pc
                                /\ backup'[j].found = backup[j].found
                                /\ backup'[j].docs = backup[j].docs
                                /\ backup'[j].todo = backup[j].todo
                                /\ backup'[j].ids = backup[j].ids
                                /\ ~backup'[j].alone
  BY <1>5, <1>8, Zenon
<1>12. /\ backup'[k].pc = "plan" /\ backup'[k].found = Versions(local)
       /\ backup'[k].docs = IdleBackup.docs
  BY <1>2, <1>8, Zenon
<1> QED BY <1>1, <1>6, <1>7, <1>10, <1>11, <1>12, Zenon

(* What each step of a run reads and leaves. *)
LEMMA ReadDocumentsFacts ==
  ASSUME TypeOK, BackupTypes, NEW k \in Admins, ReadDocuments(k)
  PROVE  /\ backup[k].pc = "plan"
         /\ UNCHANGED <<local, agreed>>
         /\ \E run : /\ Moves(k, run)
                     /\ run.todo = ToCopy(backup[k].found, main)
                     /\ run.pc = (IF run.todo = {} THEN "ids" ELSE "copy")
                     /\ run.docs = [r \in Records |-> IF r \in run.todo THEN main[r] ELSE NoDoc]
                     /\ run.alone = backup[k].alone
<1> DEFINE todo == ToCopy(backup[k].found, main)
           docs == [r \in Records |-> IF r \in todo THEN main[r] ELSE NoDoc]
           found == [r \in Records |-> IF r \in todo THEN backup[k].found[r] ELSE 0]
           pc == IF todo = {} THEN "ids" ELSE "copy"
           run == [backup[k] EXCEPT !.pc = pc, !.docs = docs, !.found = found, !.todo = todo]
<1>1. /\ backup[k] \in Run /\ main \in [Records -> Doc]
      /\ backup[k].found \in [Records -> Nat]
  BY DEF BackupTypes, TypeOK, Run
<1>2. todo \subseteq Records /\ docs \in [Records -> Doc] /\ found \in [Records -> Nat]
      /\ pc \in {"ids", "copy"}
  BY <1>1, NoDocType DEF ToCopy, Present
<1>3. backup[k].pc = "plan" /\ UNCHANGED <<local, agreed, vars, muddled, overlapped>>
      /\ backup' = [backup EXCEPT ![k] = run]
  BY DEF ReadDocuments, Proceed, MainFrame
<1> HIDE DEF todo, docs, found, pc
<1>4. run \in Run /\ run.todo = todo /\ run.pc = pc /\ run.docs = docs
      /\ run.alone = backup[k].alone
  BY <1>1, <1>2 DEF Run
<1> HIDE DEF run
<1>5. Moves(k, run)
  BY <1>3, <1>4 DEF Moves
<1>6. /\ run.todo = ToCopy(backup[k].found, main)
      /\ run.pc = (IF run.todo = {} THEN "ids" ELSE "copy")
      /\ run.docs = [r \in Records |-> IF r \in run.todo THEN main[r] ELSE NoDoc]
  BY <1>4 DEF todo, docs, pc
<1> QED BY <1>3, <1>4, <1>5, <1>6

LEMMA CopyFacts ==
  ASSUME TypeOK, BackupTypes, NEW k \in Admins, NEW r \in Records, CopyToLocal(k, r)
  PROVE  /\ backup[k].pc = "copy" /\ r \in backup[k].todo
         /\ local' = [local EXCEPT ![r] = backup[k].docs[r]]
         /\ agreed' = agreed
         /\ \E run : /\ Moves(k, run)
                     /\ run.todo = backup[k].todo \ {r}
                     /\ run.pc = (IF run.todo = {} THEN "ids" ELSE "copy")
                     /\ run.docs = [backup[k].docs EXCEPT ![r] = NoDoc]
                     /\ run.alone = backup[k].alone
<1> DEFINE todo == backup[k].todo \ {r}
           docs == [backup[k].docs EXCEPT ![r] = NoDoc]
           found == [backup[k].found EXCEPT ![r] = 0]
           pc == IF todo = {} THEN "ids" ELSE "copy"
           run == [backup[k] EXCEPT !.pc = pc, !.docs = docs, !.found = found, !.todo = todo]
<1>1. /\ backup[k] \in Run /\ backup[k].found \in [Records -> Nat]
      /\ backup[k].docs \in [Records -> Doc] /\ backup[k].todo \subseteq Records
  BY DEF BackupTypes, Run
<1>2. todo \subseteq Records /\ docs \in [Records -> Doc] /\ found \in [Records -> Nat]
      /\ pc \in {"ids", "copy"}
  BY <1>1, NoDocType
<1>3. [backup[k] EXCEPT !.todo = todo, !.found[r] = 0, !.docs[r] = NoDoc, !.pc = pc] = run
  BY <1>1 DEF Run
<1>4. /\ backup[k].pc = "copy" /\ r \in backup[k].todo
      /\ local' = [local EXCEPT ![r] = backup[k].docs[r]]
      /\ UNCHANGED <<agreed, vars, muddled, overlapped>>
      /\ backup' = [backup EXCEPT ![k] = run]
  BY <1>3 DEF CopyToLocal, Proceed, MainFrame
<1> HIDE DEF todo, docs, found, pc
<1>5. run \in Run /\ run.todo = todo /\ run.pc = pc /\ run.docs = docs
      /\ run.alone = backup[k].alone
  BY <1>1, <1>2 DEF Run
<1> HIDE DEF run
<1>6. Moves(k, run)
  BY <1>4, <1>5 DEF Moves
<1>7. /\ run.todo = backup[k].todo \ {r}
      /\ run.pc = (IF run.todo = {} THEN "ids" ELSE "copy")
      /\ run.docs = [backup[k].docs EXCEPT ![r] = NoDoc]
  BY <1>5 DEF todo, docs, pc
<1> QED BY <1>4, <1>5, <1>6, <1>7

LEMMA ReadIdsFacts ==
  ASSUME TypeOK, BackupTypes, NEW k \in Admins, ReadIds(k)
  PROVE  /\ backup[k].pc = "ids"
         /\ UNCHANGED <<local, agreed>>
         /\ \E run : /\ Moves(k, run)
                     /\ run.pc = "list" /\ run.ids = Present(main)
                     /\ run.docs = backup[k].docs /\ run.alone = backup[k].alone
<1> DEFINE ids == Present(main)
           run == [backup[k] EXCEPT !.pc = "list", !.ids = ids]
<1>1. backup[k] \in Run /\ ids \subseteq Records
  BY DEF BackupTypes, Present
<1>2. backup[k].pc = "ids" /\ UNCHANGED <<local, agreed, vars, muddled, overlapped>>
      /\ backup' = [backup EXCEPT ![k] = run]
  BY DEF ReadIds, Proceed, MainFrame
<1> HIDE DEF ids
<1>3. run \in Run /\ run.pc = "list" /\ run.ids = ids /\ run.docs = backup[k].docs
      /\ run.alone = backup[k].alone
  BY <1>1 DEF Run
<1> HIDE DEF run
<1> QED BY <1>2, <1>3 DEF Moves, ids

(* A run ends: it is idle, and `agreed` if it was alone. *)
Ends(k) == Moves(k, IdleBackup) /\ agreed' = (agreed \/ backup[k].alone)

LEMMA EndFacts ==
  ASSUME BackupTypes, NEW k \in Admins, End(k)
  PROVE  Ends(k)
  BY IdleBackupFacts DEF End, Ends, Moves, MainFrame

LEMMA ListFacts ==
  ASSUME TypeOK, BackupTypes, NEW k \in Admins, ListCopies(k)
  PROVE  /\ backup[k].pc = "list"
         /\ local' = local
         /\ \/ Present(local) \subseteq backup[k].ids /\ Ends(k)
            \/ agreed' = agreed /\ \E run : /\ Moves(k, run)
                        /\ run.pc = "drop" /\ run.todo = Present(local) \ backup[k].ids
                        /\ run.todo # {}
                        /\ run.docs = backup[k].docs /\ run.alone = backup[k].alone
<1> DEFINE gone == LeftOver(backup[k], local)
           run == [backup[k] EXCEPT !.pc = "drop", !.todo = gone, !.ids = {}]
<1>1. backup[k] \in Run /\ gone \subseteq Records
  BY DEF BackupTypes, LeftOver, Present
<1>2. backup[k].pc = "list" /\ local' = local
  BY DEF ListCopies
<1>3. CASE gone = {}
  <2>1. End(k)
    BY <1>3 DEF ListCopies
  <2>2. Present(local) \subseteq backup[k].ids
    BY <1>3 DEF LeftOver
  <2> QED BY <1>2, <2>1, <2>2, EndFacts
<1>4. CASE gone # {}
  <2>1. backup' = [backup EXCEPT ![k] = run] /\ UNCHANGED <<agreed, vars, muddled, overlapped>>
    BY <1>4 DEF ListCopies, Proceed, MainFrame
  <2>2. gone = Present(local) \ backup[k].ids
    BY DEF LeftOver
  <2> HIDE DEF gone
  <2>3. run \in Run /\ run.pc = "drop" /\ run.todo = gone /\ run.docs = backup[k].docs
        /\ run.alone = backup[k].alone
    BY <1>1 DEF Run
  <2> HIDE DEF run
  <2> QED BY <1>2, <1>4, <2>1, <2>2, <2>3 DEF Moves
<1> QED BY <1>3, <1>4

LEMMA DropFacts ==
  ASSUME TypeOK, BackupTypes, NEW k \in Admins, NEW r \in Records, DropCopy(k, r)
  PROVE  /\ backup[k].pc = "drop" /\ r \in backup[k].todo
         /\ local' = [local EXCEPT ![r].present = FALSE]
         /\ \/ backup[k].todo = {r} /\ Ends(k)
            \/ agreed' = agreed /\ \E run : /\ Moves(k, run)
                        /\ run.pc = "drop" /\ run.todo = backup[k].todo \ {r}
                        /\ run.docs = backup[k].docs /\ run.alone = backup[k].alone
<1> DEFINE rest == backup[k].todo \ {r}
           run == [backup[k] EXCEPT !.todo = rest]
<1>1. backup[k] \in Run /\ backup[k].todo \subseteq Records
  BY DEF BackupTypes, Run
<1>2. backup[k].pc = "drop" /\ r \in backup[k].todo
      /\ local' = [local EXCEPT ![r].present = FALSE]
  BY DEF DropCopy
<1>3. CASE rest = {}
  <2>1. End(k)
    BY <1>3 DEF DropCopy
  <2>2. backup[k].todo = {r}
    BY <1>2, <1>3
  <2> QED BY <1>2, <2>1, <2>2, EndFacts
<1>4. CASE rest # {}
  <2>1. backup' = [backup EXCEPT ![k] = run] /\ UNCHANGED <<agreed, vars, muddled, overlapped>>
    BY <1>4 DEF DropCopy, Proceed, MainFrame
  <2>2. rest \subseteq Records
    BY <1>1
  <2> HIDE DEF rest
  <2>3. run \in Run /\ run.pc = "drop" /\ run.todo = rest /\ run.docs = backup[k].docs
        /\ run.alone = backup[k].alone
    BY <1>1, <1>2, <2>2 DEF Run
  <2>4. Moves(k, run)
    BY <2>1, <2>3 DEF Moves
  <2> QED BY <1>2, <2>1, <2>3, <2>4 DEF rest
<1> QED BY <1>3, <1>4

LEMMA FailsFacts ==
  ASSUME BackupTypes, NEW k \in Admins, BackupFails(k)
  PROVE  Moves(k, IdleBackup) /\ UNCHANGED <<local, agreed>>
  BY IdleBackupFacts DEF BackupFails, Proceed, MainFrame, Moves

-----------------------------------------------------------------------------
(* MAIN under a run: what the steps of the handlers do to one record. *)

LEMMA NextMain ==
  ASSUME [Next]_vars
  PROVE  Writes \/ (main' = main /\ handler' = handler)
<1>1. WorkerSide => main' = main /\ handler' = handler
  BY WorkerSideFrame
<1>2. (\E r \in Records : HeartbeatLost(r)) => main' = main /\ handler' = handler
  BY DEF HeartbeatLost, Lapse
<1> QED BY <1>1, <1>2 DEF Next, Writes, WorkerSide

(* Nothing in the step makes one version of r name two contents. *)
Clear(r) ==
  /\ r \notin muddled
  /\ ~(main'[r].ver < main[r].ver)
  /\ main'[r].data # main[r].data => handler' # handler
  /\ \A h \in Handlers : Unbumps(h, r) => handler'[h].pc # "idle"

LEMMA MuddledGrows ==
  ASSUME TypeOK, MainSide
  PROVE  /\ muddled \subseteq muddled'
         /\ \A r \in Records \ muddled' : Clear(r)
<1> DEFINE older == {r \in Records : main'[r].ver < main[r].ver}
           silent == {r \in Records : main'[r].data # main[r].data /\ handler' = handler}
           died == {h \in Handlers : handler[h].pc = "bump" /\ handler'[h].pc = "idle"}
           left == {handler[h].rec : h \in died}
<1>1. muddled' = muddled \cup older \cup silent \cup left
  BY DEF MainSide
<1>2. ASSUME NEW r \in Records \ muddled' PROVE Clear(r)
  <2>1. r \notin muddled /\ r \notin older /\ r \notin silent /\ r \notin left
    BY <1>1, <1>2
  <2>2. \A h \in Handlers : Unbumps(h, r) => handler'[h].pc # "idle"
    <3> SUFFICES ASSUME NEW h \in Handlers, Unbumps(h, r), handler'[h].pc = "idle" PROVE FALSE
      OBVIOUS
    <3>1. h \in died /\ handler[h].rec = r
      BY DEF Unbumps
    <3> HIDE DEF died
    <3> QED BY <2>1, <3>1
  <2> QED BY <2>1, <2>2 DEF Clear
<1> HIDE DEF older, silent, left
<1> QED BY <1>1, <1>2

StillUnbumped(g, r) == Unbumps(g, r) => Unbumps(g, r)'

MainStays(r) == main'[r] = main[r] /\ \A g \in Handlers : StillUnbumped(g, r)

MainWritten(r) ==
  /\ main[r].present \/ main[r].data = 0
  /\ main'[r].present /\ main'[r].data = main[r].data + 1 /\ main[r].ver <= main'[r].ver
  /\ \E h \in Handlers : ~Unbumps(h, r) /\ Unbumps(h, r)'
  /\ \A g \in Handlers : StillUnbumped(g, r)

MainBumped(r) ==
  /\ main'[r].present = main[r].present /\ main'[r].data = main[r].data
  /\ main'[r].ver = main[r].ver + 1
  /\ \E h \in Handlers : \A g \in Handlers \ {h} : StillUnbumped(g, r)

MainRemoved(r) ==
  /\ ~main'[r].present /\ main'[r].data = main[r].data /\ main'[r].ver = main[r].ver

(* A request's step leaves the other requests where they are. *)
LEMMA OthersStay ==
  ASSUME TypeOK, NEW h \in Handlers, NEW g \in Handlers \ {h}, NEW q \in Records,
         HandlerStep(h) \/ HandlerCrash(h) \/ NewRequest(h, q)
  PROVE  handler'[g] = handler[g]
<1>0. handler \in [Handlers -> Request]
  BY DEF TypeOK
<1> QED BY <1>0 DEF HandlerStep, HandlerCrash, BumpVersion, ReplaceDocument, RemoveDocument,
                     EnqueueRow, EnqueuePending, Goto, Finish, NewRequest, Create, SetFields,
                     ReadForReplace, ReadForBumpReplace, BeginDelete, Start

(* Where a request can be after a step, and what it still knows of its read. *)
LEMMA RequestMoves ==
  ASSUME TypeOK, Writes, NEW g \in Handlers
  PROVE  \/ handler'[g] = handler[g]
         \/ handler'[g].pc = "idle"
         \/ /\ handler[g].pc = "idle" /\ handler'[g].base = main[handler'[g].rec].ver
            /\ handler'[g].pc = "store" => handler'[g].kind = "replace"
         \/ /\ handler[g].pc # "idle" /\ handler'[g].rec = handler[g].rec
            /\ handler'[g].kind = handler[g].kind /\ handler'[g].base = handler[g].base
            /\ \/ handler'[g].pc # "store"
               \/ main'[handler[g].rec].ver = main[handler[g].rec].ver + 1
<1>0. /\ handler \in [Handlers -> Request] /\ handler[g] \in Request
      /\ main \in [Records -> Doc] /\ handler[g].rec \in Records
  BY RequestFacts DEF TypeOK
<1>1. ASSUME NEW r \in Records, NewRequest(g, r)
      PROVE  /\ handler[g].pc = "idle" /\ handler'[g].base = main[handler'[g].rec].ver
             /\ handler'[g].pc = "store" => handler'[g].kind = "replace"
  <2>1. ASSUME NEW kind, NEW pc, Start(g, kind, r, pc), pc = "store" => kind = "replace"
        PROVE  /\ handler[g].pc = "idle" /\ handler'[g].base = main[handler'[g].rec].ver
               /\ handler'[g].pc = "store" => handler'[g].kind = "replace"
    BY <1>0, <2>1 DEF Start
  <2> QED BY <1>1, <2>1 DEF NewRequest, Create, SetFields, ReadForReplace, ReadForBumpReplace,
                            BeginDelete
<1>2. ASSUME Finish(g) PROVE handler'[g].pc = "idle"
  BY <1>0, <1>2 DEF Finish, IdleRequest
<1>3. ASSUME NEW pc, Goto(g, pc)
      PROVE  /\ handler'[g].rec = handler[g].rec /\ handler'[g].pc = pc
             /\ handler'[g].kind = handler[g].kind /\ handler'[g].base = handler[g].base
  BY <1>0, <1>3 DEF Goto, Request
<1>4. CASE BumpVersion(g)
  <2>1. CASE main[handler[g].rec].present
    <3>1. /\ handler' = [handler EXCEPT ![g].ver = main[handler[g].rec].ver + 1,
                                        ![g].pc = AfterBump(handler[g].kind)]
          /\ main' = [main EXCEPT ![handler[g].rec].ver = @ + 1]
          /\ handler[g].pc = "bump"
      BY <1>4, <2>1 DEF BumpVersion
    <3>2. /\ handler'[g].rec = handler[g].rec
          /\ handler'[g].kind = handler[g].kind /\ handler'[g].base = handler[g].base
      BY <1>0, <3>1 DEF Request
    <3>3. main'[handler[g].rec].ver = main[handler[g].rec].ver + 1
      BY <1>0, <3>1 DEF Doc
    <3> QED BY <3>1, <3>2, <3>3
  <2>2. CASE ~main[handler[g].rec].present
    BY <1>2, <1>4, <2>2 DEF BumpVersion
  <2> QED BY <2>1, <2>2
<1>5. CASE ReplaceDocument(g)
  BY <1>3, <1>5 DEF ReplaceDocument
<1>6. CASE RemoveDocument(g)
  BY <1>2, <1>3, <1>6 DEF RemoveDocument
<1>7. CASE EnqueueRow(g)
  BY <1>3, <1>7 DEF EnqueueRow
<1>8. CASE EnqueuePending(g) \/ HandlerCrash(g)
  BY <1>2, <1>8 DEF EnqueuePending, HandlerCrash
<1>9. CASE \E r \in Records : SilentWrite(r)
  BY <1>9 DEF SilentWrite
<1>10. CASE \E h \in Handlers \ {g} : \/ HandlerStep(h) \/ HandlerCrash(h)
                                      \/ \E r \in Records : NewRequest(h, r)
  BY <1>10, OthersStay, RecordsAssumption
<1> QED BY <1>1, <1>4, <1>5, <1>6, <1>7, <1>8, <1>9, <1>10 DEF Writes, HandlerStep

(* A record of which a version keeps one content is written, with a bump owed, *)
(* bumped, removed or left alone: never two of these at once.                 *)
LEMMA RecordMoves ==
  ASSUME TypeOK, BasesOld, Writes, NEW r \in Records, Clear(r)
  PROVE  MainStays(r) \/ MainWritten(r) \/ MainBumped(r) \/ MainRemoved(r)
<1>0. /\ handler \in [Handlers -> Request] /\ main \in [Records -> Doc] /\ main[r] \in Doc
      /\ main[r].ver \in Nat /\ main[r].data \in Nat
  BY DEF TypeOK, Doc
<1>c. /\ r \notin muddled
      /\ ~(main'[r].ver < main[r].ver)
      /\ main'[r].data # main[r].data => handler' # handler
      /\ \A h \in Handlers : Unbumps(h, r) => handler'[h].pc # "idle"
  BY DEF Clear
<1>s. ASSUME NEW g \in Handlers, handler'[g] = handler[g] PROVE StillUnbumped(g, r)
  BY <1>s DEF StillUnbumped, Unbumps
<1>1. ASSUME NEW h \in Handlers, NEW q \in Records, NewRequest(h, q)
      PROVE  MainStays(r) \/ MainWritten(r)
  <2>1. \A g \in Handlers : StillUnbumped(g, r)
    <3>1. handler[h].pc = "idle"
      BY <1>1 DEF NewRequest, Create, SetFields, ReadForReplace, ReadForBumpReplace,
                  BeginDelete, Start
    <3>2. StillUnbumped(h, r)
      BY <3>1 DEF StillUnbumped, Unbumps
    <3> QED BY <1>1, <1>s, <3>2, OthersStay
  <2>2. CASE main'[r] = main[r]
    BY <2>1, <2>2 DEF MainStays
  <2>3. CASE main'[r] # main[r]
    <3>1. Create(h, q) \/ SetFields(h, q)
      BY <1>1, <2>3 DEF NewRequest, ReadForReplace, ReadForBumpReplace, BeginDelete
    <3>2. q = r
      BY <1>0, <2>3, <3>1 DEF Create, SetFields
    <3>3. handler[h].pc = "idle" /\ handler'[h].pc = "bump" /\ handler'[h].rec = r
      BY <1>0, <3>1, <3>2 DEF Create, SetFields, Start
    <3>4. ~Unbumps(h, r) /\ Unbumps(h, r)'
      BY <3>3 DEF Unbumps
    <3>5. /\ main[r].present \/ main[r].data = 0
          /\ main'[r].present /\ main'[r].data = main[r].data + 1 /\ main[r].ver <= main'[r].ver
      <4>1. CASE Create(h, r)
        BY <1>0, <4>1 DEF Create, NoDoc
      <4>2. CASE SetFields(h, r)
        BY <1>0, <4>2 DEF SetFields, Editable, NewContent, Doc
      <4> QED BY <3>1, <3>2, <4>1, <4>2
    <3> QED BY <2>1, <3>4, <3>5 DEF MainWritten
  <2> QED BY <2>2, <2>3
<1>2. ASSUME NEW h \in Handlers, HandlerStep(h) \/ HandlerCrash(h), handler[h].rec # r
      PROVE  MainStays(r)
  <2>1. main'[r] = main[r]
    BY <1>0, <1>2 DEF HandlerStep, HandlerCrash, BumpVersion, ReplaceDocument, RemoveDocument,
                      EnqueueRow, EnqueuePending
  <2>2. StillUnbumped(h, r)
    BY <1>2 DEF StillUnbumped, Unbumps
  <2>3. \A g \in Handlers : StillUnbumped(g, r)
    BY <1>2, <1>s, <2>2, OthersStay
  <2> QED BY <2>1, <2>3 DEF MainStays
<1>3. ASSUME NEW h \in Handlers, HandlerStep(h) \/ HandlerCrash(h), handler[h].rec = r
      PROVE  MainStays(r) \/ MainWritten(r) \/ MainBumped(r) \/ MainRemoved(r)
  <2>0. \A g \in Handlers \ {h} : StillUnbumped(g, r)
    BY <1>3, <1>s, OthersStay
  <2>1. ASSUME BumpVersion(h) PROVE MainBumped(r)
    <3>1. main[r].present
      <4> SUFFICES ASSUME ~main[r].present PROVE FALSE
        OBVIOUS
      <4>1. Unbumps(h, r) /\ handler'[h].pc = "idle"
        BY <1>0, <1>3, <2>1 DEF BumpVersion, Finish, IdleRequest, Unbumps
      <4> QED BY <1>c, <4>1
    <3>2. main' = [main EXCEPT ![r].ver = @ + 1]
      BY <1>3, <2>1, <3>1 DEF BumpVersion
    <3> QED BY <1>0, <2>0, <3>2 DEF MainBumped, Doc
  <2>2. ASSUME ReplaceDocument(h) PROVE MainStays(r) \/ MainWritten(r)
    <3>1. /\ handler[h].pc = "store"
          /\ main' = [main EXCEPT ![r] =
               IF @.present THEN [NewContent(@) EXCEPT !.ver = handler[h].base] ELSE @]
          /\ handler' = [handler EXCEPT ![h].pc =
                           IF handler[h].kind = "replace" THEN "bump" ELSE "enqueue"]
      BY <1>3, <2>2 DEF ReplaceDocument, Goto
    <3>2. ~Unbumps(h, r)
      BY <3>1 DEF Unbumps
    <3>3. \A g \in Handlers : StillUnbumped(g, r)
      BY <2>0, <3>2 DEF StillUnbumped
    <3>4. CASE ~main[r].present
      BY <1>0, <3>1, <3>3, <3>4 DEF MainStays
    <3>5. CASE main[r].present
      <4>1. main'[r].present /\ main'[r].data = main[r].data + 1 /\ main'[r].ver = handler[h].base
        BY <1>0, <3>1, <3>5 DEF NewContent, Doc
      <4>2. handler[h].base \in Nat /\ handler[h] \in Request
        BY <1>0 DEF Request
      <4>3. main[r].ver <= handler[h].base
        BY <1>0, <1>c, <4>1, <4>2
      <4>4. handler[h].kind = "replace"
        BY <1>0, <1>3, <1>c, <3>1, <4>2, <4>3 DEF BasesOld
      <4>5. handler'[h].pc = "bump" /\ handler'[h].rec = r
        BY <1>0, <1>3, <3>1, <4>2, <4>4 DEF Request
      <4>6. Unbumps(h, r)'
        BY <4>5 DEF Unbumps
      <4> QED BY <3>2, <3>3, <3>5, <4>1, <4>3, <4>6 DEF MainWritten
    <3> QED BY <3>4, <3>5
  <2>3. ASSUME RemoveDocument(h) PROVE MainRemoved(r)
    BY <1>0, <1>3, <2>3 DEF RemoveDocument, MainRemoved, Doc
  <2>4. ASSUME EnqueueRow(h) \/ EnqueuePending(h) \/ HandlerCrash(h) PROVE MainStays(r)
    <3>1. main' = main
      BY <2>4 DEF EnqueueRow, EnqueuePending, HandlerCrash
    <3>2. StillUnbumped(h, r)
      <4>1. EnqueueRow(h) \/ EnqueuePending(h) => ~Unbumps(h, r)
        BY DEF EnqueueRow, EnqueuePending, Unbumps
      <4>2. HandlerCrash(h) => handler'[h].pc = "idle"
        BY <1>0 DEF HandlerCrash, Finish, IdleRequest
      <4> QED BY <1>c, <2>4, <4>1, <4>2 DEF StillUnbumped
    <3> QED BY <2>0, <3>1, <3>2 DEF MainStays
  <2> QED BY <1>3, <2>1, <2>2, <2>3, <2>4 DEF HandlerStep
<1>4. ASSUME NEW q \in Records, SilentWrite(q) PROVE MainStays(r)
  <2>1. handler' = handler
    BY <1>4 DEF SilentWrite
  <2>2. q # r
    <3> SUFFICES ASSUME q = r PROVE FALSE
      OBVIOUS
    <3>1. main'[r].data = main[r].data + 1
      BY <1>0, <1>4 DEF SilentWrite, NewContent, Doc
    <3> QED BY <1>0, <1>c, <2>1, <3>1
  <2> QED BY <1>0, <1>4, <1>s, <2>1, <2>2 DEF SilentWrite, MainStays
<1> QED BY <1>1, <1>2, <1>3, <1>4 DEF Writes

-----------------------------------------------------------------------------
(* What versions say of contents, beside the handlers. *)

LEMMA StillUnbumpedRecord ==
  ASSUME NEW r \in Records, \A g \in Handlers : StillUnbumped(g, r), Unbumped(r)
  PROVE  Unbumped(r)'
  BY DEF Unbumped, StillUnbumped, Unbumps

(* A copy stays sound whatever the handlers do. *)
LEMMA SoundStays ==
  ASSUME TypeOK, TypeOK', BasesOld, MainSide, NEW r \in Records, NEW doc \in Doc,
         CopySound(doc, r)
  PROVE  CopySound(doc, r)'
<1>0. /\ doc.data \in Nat /\ doc.ver \in Nat
      /\ main[r].data \in Nat /\ main[r].ver \in Nat
      /\ main'[r].data \in Nat /\ main'[r].ver \in Nat
  BY DEF TypeOK, Doc
<1>1. CASE main' = main /\ handler' = handler
  BY <1>1, MuddledGrows DEF CopySound, Unbumped
<1>2. CASE Writes
  <2> SUFFICES ASSUME doc.present
               PROVE  /\ 0 < doc.data /\ doc.data <= main'[r].data
                      /\ r \notin muddled' =>
                           /\ doc.ver <= main'[r].ver
                           /\ main'[r].present /\ doc.data < main'[r].data =>
                                doc.ver < main'[r].ver \/ Unbumped(r)'
    BY DEF CopySound
  <2>1. 0 < doc.data /\ doc.data <= main'[r].data
    BY <1>0, <1>2, HistoryGrows DEF CopySound
  <2>2. ASSUME r \notin muddled'
        PROVE  /\ doc.ver <= main'[r].ver
               /\ main'[r].present /\ doc.data < main'[r].data =>
                    doc.ver < main'[r].ver \/ Unbumped(r)'
    <3>1. Clear(r) /\ r \notin muddled
      BY <2>2, MuddledGrows DEF Clear
    <3>2. /\ doc.ver <= main[r].ver /\ doc.data <= main[r].data
          /\ main[r].present /\ doc.data < main[r].data =>
               doc.ver < main[r].ver \/ Unbumped(r)
      BY <3>1 DEF CopySound
    <3>3. CASE MainStays(r)
      BY <3>2, <3>3, StillUnbumpedRecord DEF MainStays
    <3>4. CASE MainWritten(r)
      <4>1. Unbumped(r)' /\ main[r].ver <= main'[r].ver
        BY <3>4 DEF MainWritten, Unbumped, Unbumps
      <4> QED BY <1>0, <3>2, <4>1
    <3>5. CASE MainBumped(r)
      BY <1>0, <3>2, <3>5 DEF MainBumped
    <3>6. CASE MainRemoved(r)
      BY <3>2, <3>6 DEF MainRemoved
    <3> QED BY <1>2, <3>1, <3>3, <3>4, <3>5, <3>6, RecordMoves
  <2> QED BY <2>1, <2>2
<1> QED BY <1>1, <1>2, NextMain DEF MainSide

(* A content more is a bump owed more. *)
LEMMA VersionsCountStep ==
  ASSUME TypeOK, TypeOK', DocShape, BasesOld, VersionsCount, MainSide
  PROVE  VersionsCount'
<1>1. CASE main' = main /\ handler' = handler
  BY <1>1, MuddledGrows DEF VersionsCount, Unbumped, Unbumps
<1>2. CASE Writes
  <2> SUFFICES ASSUME NEW r \in Records, r \notin muddled', main'[r].present
               PROVE  /\ main'[r].ver = 0 => Unbumped(r)'
                      /\ main'[r].ver = 0 /\ main'[r].data > 1 =>
                           \E g, h \in Handlers : g # h /\ Unbumps(g, r)' /\ Unbumps(h, r)'
                      /\ main'[r].ver = 1 /\ main'[r].data > 1 => Unbumped(r)'
    BY DEF VersionsCount
  <2>0. /\ main[r].data \in Nat /\ main[r].ver \in Nat
        /\ main'[r].data \in Nat /\ main'[r].ver \in Nat
    BY DEF TypeOK, Doc
  <2>1. Clear(r) /\ r \notin muddled
    BY MuddledGrows DEF Clear
  <2>2. main[r].present =>
          /\ main[r].ver = 0 => Unbumped(r)
          /\ main[r].ver = 0 /\ main[r].data > 1 =>
               \E g, h \in Handlers : g # h /\ Unbumps(g, r) /\ Unbumps(h, r)
          /\ main[r].ver = 1 /\ main[r].data > 1 => Unbumped(r)
          /\ main[r].data > 0
    BY <2>1 DEF VersionsCount, DocShape
  <2>3. CASE MainStays(r)
    <3>1. Unbumped(r) => Unbumped(r)'
      BY <2>3, StillUnbumpedRecord DEF MainStays
    <3>2. \A g \in Handlers : Unbumps(g, r) => Unbumps(g, r)'
      BY <2>3 DEF MainStays, StillUnbumped
    <3> QED BY <2>2, <2>3, <3>1, <3>2 DEF MainStays
  <2>4. CASE MainWritten(r)
    <3>1. PICK h \in Handlers : ~Unbumps(h, r) /\ Unbumps(h, r)'
      BY <2>4 DEF MainWritten
    <3>2. \A g \in Handlers : Unbumps(g, r) => Unbumps(g, r)'
      BY <2>4 DEF MainWritten, StillUnbumped
    <3>3. Unbumped(r)'
      BY <3>1 DEF Unbumped, Unbumps
    <3>4. ASSUME main'[r].ver = 0, main'[r].data > 1
          PROVE  \E g, f \in Handlers : g # f /\ Unbumps(g, r)' /\ Unbumps(f, r)'
      <4>1. main[r].present /\ main[r].ver = 0
        BY <2>0, <2>4, <3>4 DEF MainWritten
      <4>2. PICK g \in Handlers : Unbumps(g, r)
        BY <2>2, <4>1 DEF Unbumped, Unbumps
      <4>3. g # h /\ Unbumps(g, r)'
        BY <3>1, <3>2, <4>2
      <4> QED BY <3>1, <4>3
    <3> QED BY <3>3, <3>4
  <2>5. CASE MainBumped(r)
    <3>1. PICK h \in Handlers : \A g \in Handlers \ {h} : Unbumps(g, r) => Unbumps(g, r)'
      BY <2>5 DEF MainBumped, StillUnbumped
    <3>2. main[r].present /\ main'[r].ver = main[r].ver + 1 /\ main'[r].data = main[r].data
      BY <2>5 DEF MainBumped
    <3>3. main'[r].ver # 0
      BY <2>0, <3>2
    <3>4. ASSUME main'[r].ver = 1, main'[r].data > 1 PROVE Unbumped(r)'
      <4>1. \E g, f \in Handlers : g # f /\ Unbumps(g, r) /\ Unbumps(f, r)
        BY <2>0, <2>2, <3>2, <3>4
      <4>2. PICK g \in Handlers \ {h} : Unbumps(g, r)'
        BY <3>1, <4>1
      <4> QED BY <4>2 DEF Unbumped, Unbumps
    <3> QED BY <3>3, <3>4
  <2>6. CASE MainRemoved(r)
    BY <2>6 DEF MainRemoved
  <2> QED BY <1>2, <2>1, <2>3, <2>4, <2>5, <2>6, RecordMoves
<1> QED BY <1>1, <1>2, NextMain DEF MainSide

(* Versions that requests have read only get older. *)
LEMMA BasesOldStep ==
  ASSUME TypeOK, TypeOK', BasesOld, MainSide
  PROVE  BasesOld'
<1>1. CASE main' = main /\ handler' = handler
  <2>1. \A r : r \notin muddled' => r \notin muddled
    BY MuddledGrows
  <2> QED BY <1>1, <2>1 DEF BasesOld
<1>2. CASE Writes
  <2> SUFFICES ASSUME NEW g \in Handlers, handler'[g].pc # "idle", handler'[g].rec \notin muddled'
               PROVE  /\ handler'[g].base <= main'[handler'[g].rec].ver
                      /\ handler'[g].pc = "store" /\ handler'[g].kind # "replace" =>
                           handler'[g].base < main'[handler'[g].rec].ver
    BY DEF BasesOld
  <2>1. PICK r \in Records : r = handler'[g].rec
    BY DEF TypeOK, Request
  <2>2. /\ main[r].ver \in Nat /\ main'[r].ver \in Nat /\ handler'[g].base \in Nat
        /\ handler[g].base \in Nat
    BY DEF TypeOK, Doc, Request
  <2>3. r \notin muddled /\ main[r].ver <= main'[r].ver
    BY <2>1, <2>2, MuddledGrows DEF Clear
  <2>4. CASE handler'[g] = handler[g]
    BY <2>1, <2>2, <2>3, <2>4 DEF BasesOld
  <2>5. CASE /\ handler[g].pc = "idle" /\ handler'[g].base = main[handler'[g].rec].ver
             /\ handler'[g].pc = "store" => handler'[g].kind = "replace"
    BY <2>1, <2>2, <2>3, <2>5
  <2>6. CASE /\ handler[g].pc # "idle" /\ handler'[g].rec = handler[g].rec
             /\ handler'[g].kind = handler[g].kind /\ handler'[g].base = handler[g].base
             /\ \/ handler'[g].pc # "store"
                \/ main'[handler[g].rec].ver = main[handler[g].rec].ver + 1
    <3>1. handler[g].base <= main[r].ver
      BY <2>1, <2>3, <2>6 DEF BasesOld
    <3>2. handler'[g].pc = "store" => main'[r].ver = main[r].ver + 1
      BY <2>1, <2>6
    <3> QED BY <2>1, <2>2, <2>3, <2>6, <3>1, <3>2
  <2> QED BY <1>2, <2>4, <2>5, <2>6, RequestMoves
<1> QED BY <1>1, <1>2, NextMain DEF MainSide

(* MAIN changes, and what a run was alone with is gone. *)
LEMMA MainSideRuns ==
  ASSUME TypeOK, BackupTypes, MainSide
  PROVE  /\ local' = local /\ overlapped' = overlapped /\ muddled' \subseteq Records
         /\ backup' \in [Admins -> Run]
         /\ \A k \in Admins : /\ backup'[k].pc = backup[k].pc
                              /\ backup'[k].found = backup[k].found
                              /\ backup'[k].docs = backup[k].docs
                              /\ backup'[k].todo = backup[k].todo
                              /\ backup'[k].ids = backup[k].ids
         /\ \/ main' = main /\ agreed' = agreed /\ backup' = backup
            \/ ~agreed' /\ \A k \in Admins : ~backup'[k].alone
<1>0. backup \in [Admins -> Run]
  BY DEF BackupTypes
<1>1. local' = local /\ overlapped' = overlapped
  BY DEF MainSide
<1>2. muddled' \subseteq Records
  <2> DEFINE died == {h \in Handlers : handler[h].pc = "bump" /\ handler'[h].pc = "idle"}
  <2>1. {handler[h].rec : h \in died} \subseteq Records
    BY RequestFacts
  <2> QED BY <2>1 DEF MainSide, BackupTypes
<1>3. CASE main' = main
  BY <1>0, <1>1, <1>2, <1>3 DEF MainSide
<1>4. CASE main' # main
  <2> DEFINE next(k) == [backup[k] EXCEPT !.alone = FALSE]
  <2>1. backup' = [k \in Admins |-> next(k)] /\ agreed' = FALSE
    BY <1>4 DEF MainSide
  <2>2. \A k \in Admins : /\ next(k) \in Run /\ ~next(k).alone
                          /\ next(k).pc = backup[k].pc /\ next(k).found = backup[k].found
                          /\ next(k).docs = backup[k].docs /\ next(k).todo = backup[k].todo
                          /\ next(k).ids = backup[k].ids
    BY <1>0 DEF Run
  <2> HIDE DEF next
  <2>3. backup' \in [Admins -> Run] /\ \A k \in Admins : backup'[k] = next(k)
    BY <2>1, <2>2
  <2>4. ~agreed' /\ \A k \in Admins : ~backup'[k].alone
    BY <2>1, <2>2, <2>3, Zenon
  <2>5. \A k \in Admins : /\ backup'[k].pc = backup[k].pc
                          /\ backup'[k].found = backup[k].found
                          /\ backup'[k].docs = backup[k].docs
                          /\ backup'[k].todo = backup[k].todo
                          /\ backup'[k].ids = backup[k].ids
    BY <2>2, <2>3, Zenon
  <2> QED BY <1>1, <1>2, <2>3, <2>4, <2>5, Zenon
<1> QED BY <1>3, <1>4

-----------------------------------------------------------------------------
(* Types. *)

RunMoves(k) == StartBackup(k) \/ BackupStep(k) \/ BackupFails(k)

LEMMA MovesFacts ==
  ASSUME BackupTypes, NEW k \in Admins, NEW run, Moves(k, run)
  PROVE  /\ run \in Run /\ backup'[k] = run /\ backup' \in [Admins -> Run]
         /\ \A j \in Admins \ {k} : backup'[j] = backup[j]
         /\ UNCHANGED <<vars, muddled, overlapped>>
  BY DEF Moves, BackupTypes

(* A run leaves MAIN and its handlers alone, and keeps to the types. *)
RunFrame ==
  /\ backup' \in [Admins -> Run] /\ overlapped' \in BOOLEAN
  /\ UNCHANGED <<vars, muddled>>

LEMMA RunMovesTypes ==
  ASSUME TypeOK, BackupTypes, NEW k \in Admins, RunMoves(k)
  PROVE  RunFrame /\ local' \in [Records -> Doc] /\ agreed' \in BOOLEAN
<1>0. /\ local \in [Records -> Doc] /\ agreed \in BOOLEAN /\ overlapped \in BOOLEAN
      /\ backup[k] \in Run
  BY DEF BackupTypes
<1>1. ASSUME NEW run, Moves(k, run) PROVE RunFrame
  BY <1>0, <1>1, MovesFacts DEF RunFrame
<1>2. ASSUME Ends(k) PROVE agreed' \in BOOLEAN /\ RunFrame
  BY <1>1, <1>2 DEF Ends
<1>3. CASE StartBackup(k)
  <2>1. overlapped' \in BOOLEAN
    BY <1>3 DEF StartBackup
  <2> QED BY <1>0, <1>3, <2>1, StartBackupFacts DEF RunFrame
<1>4. CASE ReadDocuments(k)
  BY <1>0, <1>1, <1>4, ReadDocumentsFacts
<1>5. CASE ReadIds(k)
  BY <1>0, <1>1, <1>5, ReadIdsFacts
<1>6. CASE ListCopies(k)
  BY <1>0, <1>1, <1>2, <1>6, ListFacts
<1>7. CASE BackupFails(k)
  BY <1>0, <1>1, <1>7, FailsFacts
<1>8. CASE \E r \in Records : CopyToLocal(k, r)
  <2>1. PICK r \in Records : CopyToLocal(k, r)
    BY <1>8
  <2>2. backup[k].docs[r] \in Doc
    BY <1>0, RunFields
  <2>3. local' = [local EXCEPT ![r] = backup[k].docs[r]] /\ agreed' = agreed
    BY <2>1, CopyFacts
  <2>4. local' \in [Records -> Doc]
    BY <1>0, <2>2, <2>3
  <2> QED BY <1>0, <1>1, <2>1, <2>3, <2>4, CopyFacts
<1>9. CASE \E r \in Records : DropCopy(k, r)
  <2>1. PICK r \in Records : DropCopy(k, r)
    BY <1>9
  <2>2. local' = [local EXCEPT ![r].present = FALSE]
    BY <2>1, DropFacts
  <2>3. local' \in [Records -> Doc]
    BY <1>0, <2>2 DEF Doc
  <2> QED BY <1>0, <1>1, <1>2, <2>1, <2>3, DropFacts
<1> QED BY <1>3, <1>4, <1>5, <1>6, <1>7, <1>8, <1>9 DEF RunMoves, BackupStep

LEMMA BackupIsNext ==
  ASSUME [BackupNext]_backupVars
  PROVE  [Next]_vars
<1>1. \A k \in Admins : RunMoves(k) => UNCHANGED vars
  BY DEF RunMoves, BackupStep, StartBackup, ReadDocuments, CopyToLocal, ReadIds, ListCopies,
         DropCopy, BackupFails, Proceed, End, MainFrame
<1>2. MainSide => Next
  BY DEF MainSide
<1> QED BY <1>1, <1>2 DEF BackupNext, RunMoves, backupVars

(* The steps of the system that matter here. *)
LEMMA BackupSides ==
  ASSUME [BackupNext]_backupVars
  PROVE  MainSide \/ (\E k \in Admins : RunMoves(k)) \/ UNCHANGED backupVars
  BY DEF BackupNext, RunMoves

LEMMA BackupIsSpec == BackupSpec => Spec
<1>1. BackupInit => Init
  BY DEF BackupInit
<1>2. [BackupNext]_backupVars => [Next]_vars
  BY BackupIsNext
<1> QED BY <1>1, <1>2, PTL DEF BackupSpec, Spec

(* The values of all the variables of a backup have the types they are       *)
(* written with.                                                             *)
THEOREM BackupTyped == BackupSpec => [](TypeOK /\ BackupTypes)
<1>1. BackupInit => BackupTypes
  <2>1. IdleBackup \in Run /\ NoDoc \in Doc
    BY IdleBackupFacts, NoDocType
  <2> QED BY <2>1 DEF BackupInit, BackupTypes
<1>2. TypeOK /\ BackupTypes /\ [BackupNext]_backupVars => BackupTypes'
  <2> SUFFICES ASSUME TypeOK, BackupTypes, [BackupNext]_backupVars PROVE BackupTypes'
    OBVIOUS
  <2>1. CASE MainSide
    <3>1. agreed' \in BOOLEAN
      BY <2>1 DEF MainSide, BackupTypes
    <3>2. local' \in [Records -> Doc] /\ overlapped' \in BOOLEAN
      BY <2>1, MainSideRuns DEF BackupTypes
    <3> QED BY <2>1, <3>1, <3>2, MainSideRuns DEF BackupTypes
  <2>2. ASSUME NEW k \in Admins, RunMoves(k) PROVE BackupTypes'
    BY <2>2, RunMovesTypes DEF RunFrame, BackupTypes
  <2>3. CASE UNCHANGED backupVars
    BY <2>3 DEF backupVars, BackupTypes
  <2> QED BY <2>1, <2>2, <2>3, BackupSides
<1> QED BY <1>1, <1>2, BackupIsSpec, TypeCorrect, PTL DEF BackupSpec

(* A document in MAIN has contents, whatever the faults.                     *)
LEMMA DocShapeInvariant == Spec => []DocShape
<1>1. Init => DocShape
  BY DEF Init, DocShape, NoDoc
<1>2. TypeOK /\ TypeOK' /\ DocShape /\ [Next]_vars => DocShape'
  <2> SUFFICES ASSUME TypeOK, TypeOK', DocShape, [Next]_vars PROVE DocShape'
    OBVIOUS
  <2>1. CASE Writes
    BY <2>1, HistoryGrows DEF DocShape
  <2>2. CASE main' = main
    BY <2>2 DEF DocShape
  <2> QED BY <2>1, <2>2, NextMain
<1> QED BY <1>1, <1>2, TypeCorrect, PTL DEF Spec

-----------------------------------------------------------------------------
(* What the steps of runs do to the copies. *)

LEMMA ReadIsSound ==
  ASSUME TypeOK, DocShape, NEW r \in Records
  PROVE  CopySound(main[r], r)
<1>1. main[r].data \in Nat /\ main[r].ver \in Nat
  BY DEF TypeOK, Doc
<1> QED BY <1>1 DEF CopySound, DocShape

(* Runs copy what was read and read what is in MAIN: sound copies both. *)
LEMMA CopiesSoundMoves ==
  ASSUME BackupTypes, CopiesSound, NEW k \in Admins, NEW run, Moves(k, run),
         \A r \in Records : CopySound(run.docs[r], r) /\ CopySound(local'[r], r)
  PROVE  CopiesSound'
<1>1. /\ main' = main /\ handler' = handler /\ muddled' = muddled
      /\ \A j \in Admins : \A r \in Records : CopySound(backup'[j].docs[r], r)
  BY MovesFacts DEF CopiesSound, vars
<1>2. ASSUME NEW r \in Records PROVE CopySound(local[r], r)'
  <2>1. CopySound(local'[r], r)
    OBVIOUS
  <2> QED BY <1>1, <2>1 DEF CopySound, Unbumped
<1>3. ASSUME NEW r \in Records, NEW j \in Admins PROVE CopySound(backup[j].docs[r], r)'
  <2>1. CopySound(backup'[j].docs[r], r)
    BY <1>1
  <2> QED BY <1>1, <2>1 DEF CopySound, Unbumped
<1> QED BY <1>2, <1>3 DEF CopiesSound

LEMMA CopiesSoundStep ==
  ASSUME TypeOK, BackupTypes, DocShape, CopiesSound, NEW k \in Admins, RunMoves(k)
  PROVE  CopiesSound'
<1>0. /\ \A r \in Records : CopySound(NoDoc, r) /\ CopySound(local[r], r) /\ CopySound(main[r], r)
      /\ \A j \in Admins, r \in Records : CopySound(backup[j].docs[r], r)
      /\ \A r \in Records : CopySound(IdleBackup.docs[r], r)
  BY ReadIsSound, IdleBackupFacts DEF CopySound, NoDoc, CopiesSound
<1>1. ASSUME local' = local, NEW run, Moves(k, run), run.docs = backup[k].docs
      PROVE  CopiesSound'
  BY <1>0, <1>1, CopiesSoundMoves
<1>2. ASSUME local' = local, Moves(k, IdleBackup) PROVE CopiesSound'
  BY <1>0, <1>2, CopiesSoundMoves
<1>3. CASE StartBackup(k)
  <2>1. /\ main' = main /\ handler' = handler /\ muddled' = muddled /\ local' = local
    BY <1>3, StartBackupFacts DEF vars
  <2>2. \A j \in Admins : \A r \in Records : CopySound(backup'[j].docs[r], r)
    <3>1. \A j \in Admins : backup'[j].docs = IF j = k THEN IdleBackup.docs ELSE backup[j].docs
      BY <1>3, StartBackupFacts
    <3> QED BY <1>0, <3>1
  <2>3. ASSUME NEW r \in Records PROVE CopySound(local[r], r)'
    <3>1. CopySound(local[r], r)
      BY <1>0
    <3> QED BY <2>1, <3>1 DEF CopySound, Unbumped
  <2>4. ASSUME NEW r \in Records, NEW j \in Admins PROVE CopySound(backup[j].docs[r], r)'
    <3>1. CopySound(backup'[j].docs[r], r)
      BY <2>2
    <3> QED BY <2>1, <3>1 DEF CopySound, Unbumped
  <2> QED BY <2>3, <2>4 DEF CopiesSound
<1>4. CASE ReadDocuments(k)
  <2>1. PICK run : /\ Moves(k, run)
                   /\ run.docs = [r \in Records |-> IF r \in run.todo THEN main[r] ELSE NoDoc]
    BY <1>4, ReadDocumentsFacts
  <2>2. \A r \in Records : CopySound(run.docs[r], r)
    BY <1>0, <2>1
  <2>3. local' = local
    BY <1>4, ReadDocumentsFacts
  <2> QED BY <1>0, <2>1, <2>2, <2>3, CopiesSoundMoves
<1>5. CASE ReadIds(k)
  BY <1>1, <1>5, ReadIdsFacts
<1>6. CASE ListCopies(k)
  BY <1>1, <1>2, <1>6, ListFacts DEF Ends
<1>7. CASE BackupFails(k)
  BY <1>2, <1>7, FailsFacts
<1>8. CASE \E r \in Records : CopyToLocal(k, r)
  <2>1. PICK q \in Records : CopyToLocal(k, q)
    BY <1>8
  <2>2. local' = [local EXCEPT ![q] = backup[k].docs[q]]
    BY <2>1, CopyFacts
  <2>3. PICK run : Moves(k, run) /\ run.docs = [backup[k].docs EXCEPT ![q] = NoDoc]
    BY <2>1, CopyFacts
  <2>4. backup[k].docs \in [Records -> Doc] /\ local \in [Records -> Doc]
    BY RunFields DEF BackupTypes
  <2>5. \A r \in Records : CopySound(run.docs[r], r) /\ CopySound(local'[r], r)
    <3>1. \A r \in Records : /\ run.docs[r] = IF r = q THEN NoDoc ELSE backup[k].docs[r]
                             /\ local'[r] = IF r = q THEN backup[k].docs[r] ELSE local[r]
      BY <2>2, <2>3, <2>4
    <3> QED BY <1>0, <3>1
  <2> QED BY <2>3, <2>5, CopiesSoundMoves
<1>9. CASE \E r \in Records : DropCopy(k, r)
  <2>1. PICK q \in Records : DropCopy(k, q)
    BY <1>9
  <2>2. local' = [local EXCEPT ![q].present = FALSE] /\ local \in [Records -> Doc]
    BY <2>1, DropFacts DEF BackupTypes
  <2>3. \A r \in Records : CopySound(local'[r], r)
    <3>1. CopySound(local'[q], q)
      BY <2>2 DEF CopySound, Doc
    <3>2. \A r \in Records \ {q} : local'[r] = local[r]
      BY <2>2
    <3> QED BY <1>0, <3>1, <3>2
  <2>4. CASE \E run : Moves(k, run) /\ run.docs = backup[k].docs
    BY <1>0, <2>3, <2>4, CopiesSoundMoves
  <2>5. CASE Moves(k, IdleBackup)
    BY <1>0, <2>3, <2>5, CopiesSoundMoves
  <2> QED BY <2>1, <2>4, <2>5, DropFacts DEF Ends
<1> QED BY <1>3, <1>4, <1>5, <1>6, <1>7, <1>8, <1>9 DEF RunMoves, BackupStep

-----------------------------------------------------------------------------
(* A run that is alone. *)

LEMMA VersionsAgree ==
  ASSUME NEW a \in [Records -> Doc], NEW b \in [Records -> Doc],
         \A r \in Present(b) : Versions(a)[r] = Versions(b)[r],
         Present(a) \subseteq Present(b)
  PROVE  Versions(a) = Versions(b)
<1>1. \A r \in Records : Versions(a)[r] = Versions(b)[r]
  <2> SUFFICES ASSUME NEW r \in Records PROVE Versions(a)[r] = Versions(b)[r]
    OBVIOUS
  <2>1. CASE b[r].present
    BY <2>1 DEF Present
  <2>2. CASE ~b[r].present
    BY <2>2, VersionsType DEF Present
  <2> QED BY <2>1, <2>2
<1> QED BY <1>1, VersionsType

LEMMA MainSame ==
  ASSUME UNCHANGED vars
  PROVE  /\ main' = main /\ Versions(main') = Versions(main) /\ Present(main') = Present(main)
         /\ Versions(main)' = Versions(main) /\ Present(main)' = Present(main)
  BY DEF vars, Versions, Present

(* One run goes on alone: the others are idle, so only its own progress       *)
(* matters.                                                                  *)
LEMMA AloneMoves ==
  ASSUME BackupTypes, AloneExact, NEW k \in Admins, NEW run, Moves(k, run),
         backup[k].pc # "idle", run.alone => backup[k].alone, run.alone => AloneSoFar(k)'
  PROVE  AloneExact'
<1> SUFFICES ASSUME NEW i \in Admins, backup'[i].alone
             PROVE  /\ \A j \in Admins \ {i} : backup'[j].pc = "idle"
                    /\ AloneSoFar(i)'
  BY DEF AloneExact
<1>1. backup'[k] = run /\ \A j \in Admins \ {k} : backup'[j] = backup[j]
  BY MovesFacts
<1>2. i = k
  BY <1>1 DEF AloneExact
<1>3. backup[k].alone /\ AloneSoFar(k)'
  BY <1>1, <1>2
<1>4. \A j \in Admins \ {k} : backup[j].pc = "idle"
  BY <1>3 DEF AloneExact
<1> QED BY <1>1, <1>2, <1>3, <1>4

LEMMA QuietMoves ==
  ASSUME BackupTypes, AgreedQuiet, NEW k \in Admins, NEW run, Moves(k, run), agreed' = agreed,
         agreed => /\ local' = local /\ run.pc \notin {"plan", "copy", "drop"}
                   /\ run.pc = "list" => run.ids = Present(main)
  PROVE  AgreedQuiet'
<1> SUFFICES ASSUME agreed
             PROVE  /\ Versions(local)' = Versions(main)'
                    /\ \A j \in Admins :
                         /\ backup'[j].pc \notin {"copy", "drop"}
                         /\ backup'[j].pc = "plan" => backup'[j].found = Versions(main)'
                         /\ backup'[j].pc = "list" => backup'[j].ids = Present(main)'
  BY DEF AgreedQuiet
<1>1. backup'[k] = run /\ \A j \in Admins \ {k} : backup'[j] = backup[j]
  BY MovesFacts
<1>2. Versions(main)' = Versions(main) /\ Present(main)' = Present(main)
  BY MovesFacts, MainSame
<1>3. Versions(local)' = Versions(local)
  BY DEF Versions
<1> QED BY <1>1, <1>2, <1>3 DEF AgreedQuiet

(* A run that was alone may say so only when LOCAL has MAIN's versions. *)
LEMMA EndsKeep ==
  ASSUME TypeOK, BackupTypes, AloneExact, AgreedQuiet, NEW k \in Admins, Ends(k),
         backup[k].pc # "idle",
         backup[k].alone => Versions(local)' = Versions(main),
         agreed => local' = local
  PROVE  AloneExact' /\ AgreedQuiet'
<1>1. /\ Moves(k, IdleBackup) /\ backup'[k] = IdleBackup
      /\ \A j \in Admins \ {k} : backup'[j] = backup[j]
      /\ agreed' = (agreed \/ backup[k].alone)
  BY MovesFacts DEF Ends
<1>2. AloneExact'
  BY <1>1, IdleBackupFacts, AloneMoves
<1>3. Versions(main)' = Versions(main) /\ Present(main)' = Present(main)
  BY <1>1, MovesFacts, MainSame
<1>4. AgreedQuiet'
  <2> SUFFICES ASSUME agreed'
               PROVE  /\ Versions(local)' = Versions(main)'
                      /\ \A j \in Admins :
                           /\ backup'[j].pc \notin {"copy", "drop"}
                           /\ backup'[j].pc = "plan" => backup'[j].found = Versions(main)'
                           /\ backup'[j].pc = "list" => backup'[j].ids = Present(main)'
    BY DEF AgreedQuiet
  <2>1. CASE backup[k].alone
    <3>1. \A j \in Admins \ {k} : backup[j].pc = "idle"
      BY <2>1 DEF AloneExact
    <3> QED BY <1>1, <1>3, <2>1, <3>1, IdleBackupFacts
  <2>2. CASE agreed
    <3>1. Versions(local)' = Versions(local)
      BY <2>2 DEF Versions
    <3> QED BY <1>1, <1>3, <2>2, <3>1, IdleBackupFacts DEF AgreedQuiet
  <2> QED BY <1>1, <2>1, <2>2
<1> QED BY <1>2, <1>4

(* The steps of runs, one by one. *)
LEMMA AloneStep ==
  ASSUME TypeOK, BackupTypes, AloneExact, AgreedQuiet, NEW k \in Admins, RunMoves(k)
  PROVE  AloneExact' /\ AgreedQuiet'
<1>0. /\ local \in [Records -> Doc] /\ main \in [Records -> Doc]
      /\ backup \in [Admins -> Run] /\ backup[k] \in Run
      /\ Versions(local) \in [Records -> Nat] /\ Versions(main) \in [Records -> Nat]
  BY VersionsType DEF BackupTypes, TypeOK
<1>m. /\ Versions(main)' = Versions(main) /\ Present(main)' = Present(main) /\ main' = main
      /\ local' \in [Records -> Doc]
  BY MainSame, RunMovesTypes DEF RunFrame
<1>l. local' = local => Versions(local)' = Versions(local)
  BY DEF Versions
<1>u. ASSUME NEW r \in Records, local'[r] = local[r], UpToDate(r)
      PROVE  UpToDate(r)'
  <2>1. Versions(local)'[r] = Versions(local)[r]
    BY <1>u DEF Versions
  <2> QED BY <1>m, <1>u, <2>1 DEF UpToDate
<1>1. CASE StartBackup(k)
  <2>1. local' = local /\ Versions(local)' = Versions(local) /\ agreed' = agreed
    BY <1>1, <1>l, StartBackupFacts
  <2>2. AloneExact'
    <3> SUFFICES ASSUME NEW i \in Admins, backup'[i].alone
                 PROVE  /\ \A j \in Admins \ {i} : backup'[j].pc = "idle"
                        /\ AloneSoFar(i)'
      BY DEF AloneExact
    <3>1. i = k
      BY <1>1, StartBackupFacts
    <3>2. \A j \in Admins \ {k} : backup'[j].pc = "idle"
      BY <1>1, <3>1, StartBackupFacts
    <3>3. backup'[k].pc = "plan" /\ backup'[k].found = Versions(local)'
      BY <1>1, <2>1, StartBackupFacts
    <3>4. AloneSoFar(k)'
      BY <3>3 DEF AloneSoFar
    <3> QED BY <3>1, <3>2, <3>4
  <2>3. AgreedQuiet'
    <3> SUFFICES ASSUME agreed
                 PROVE  /\ Versions(local)' = Versions(main)'
                        /\ \A j \in Admins :
                             /\ backup'[j].pc \notin {"copy", "drop"}
                             /\ backup'[j].pc = "plan" => backup'[j].found = Versions(main)'
                             /\ backup'[j].pc = "list" => backup'[j].ids = Present(main)'
      BY <2>1 DEF AgreedQuiet
    <3>1. Versions(local) = Versions(main)
      BY DEF AgreedQuiet
    <3> QED BY <1>1, <1>m, <2>1, <3>1, StartBackupFacts DEF AgreedQuiet
  <2> QED BY <2>2, <2>3
<1>2. CASE ReadDocuments(k)
  <2>1. PICK run : /\ Moves(k, run)
                   /\ run.todo = ToCopy(backup[k].found, main)
                   /\ run.pc = (IF run.todo = {} THEN "ids" ELSE "copy")
                   /\ run.docs = [r \in Records |-> IF r \in run.todo THEN main[r] ELSE NoDoc]
                   /\ run.alone = backup[k].alone
    BY <1>2, ReadDocumentsFacts
  <2>2. local' = local /\ agreed' = agreed /\ backup[k].pc = "plan"
    BY <1>2, ReadDocumentsFacts
  <2>3. backup'[k] = run
    BY <2>1, MovesFacts
  <2>4. run.alone => AloneSoFar(k)'
    <3> SUFFICES ASSUME backup[k].alone PROVE AloneSoFar(k)'
      BY <2>1
    <3>1. backup[k].found = Versions(local)
      BY <2>2 DEF AloneExact, AloneSoFar
    <3>2. \A r \in Present(main) : IF r \in run.todo THEN run.docs[r] = main[r] ELSE UpToDate(r)
      BY <2>1, <3>1 DEF ToCopy, UpToDate, Present
    <3>3. \A r \in Present(main) : IF r \in run.todo THEN run.docs[r] = main[r] ELSE UpToDate(r)'
      BY <1>u, <2>2, <3>2 DEF Present
    <3>4. run.pc = "ids" => \A r \in Present(main) : UpToDate(r)'
      BY <2>1, <3>3
    <3>5. run.pc \in {"ids", "copy"}
      BY <2>1
    <3> QED BY <1>m, <2>3, <3>3, <3>4, <3>5 DEF AloneSoFar
  <2>5. agreed => run.pc = "ids"
    <3> SUFFICES ASSUME agreed PROVE run.todo = {}
      BY <2>1
    <3>1. backup[k].found = Versions(main)
      BY <2>2 DEF AgreedQuiet
    <3> QED BY <2>1, <3>1 DEF ToCopy
  <2> QED BY <2>1, <2>2, <2>4, <2>5, AloneMoves, QuietMoves
<1>3. CASE \E r \in Records : CopyToLocal(k, r)
  <2>1. PICK q \in Records : CopyToLocal(k, q)
    BY <1>3
  <2>2. PICK run : /\ Moves(k, run)
                   /\ run.todo = backup[k].todo \ {q}
                   /\ run.pc = (IF run.todo = {} THEN "ids" ELSE "copy")
                   /\ run.docs = [backup[k].docs EXCEPT ![q] = NoDoc]
                   /\ run.alone = backup[k].alone
    BY <2>1, CopyFacts
  <2>3. /\ backup[k].pc = "copy" /\ q \in backup[k].todo /\ agreed' = agreed
        /\ local' = [local EXCEPT ![q] = backup[k].docs[q]]
    BY <2>1, CopyFacts
  <2>4. backup'[k] = run /\ ~agreed
    BY <2>2, <2>3, MovesFacts DEF AgreedQuiet
  <2>5. run.alone => AloneSoFar(k)'
    <3> SUFFICES ASSUME backup[k].alone PROVE AloneSoFar(k)'
      BY <2>2
    <3>1. \A r \in Present(main) :
            IF r \in backup[k].todo THEN backup[k].docs[r] = main[r] ELSE UpToDate(r)
      BY <2>3 DEF AloneExact, AloneSoFar
    <3>2. backup[k].docs \in [Records -> Doc]
      BY <1>0, RunFields
    <3>3. q \in Present(main) => UpToDate(q)'
      <4> SUFFICES ASSUME q \in Present(main) PROVE UpToDate(q)'
        OBVIOUS
      <4>1. local'[q] = main[q]
        BY <1>0, <2>3, <3>1
      <4>2. Versions(local)'[q] = Versions(main)[q]
        BY <4>1 DEF Versions
      <4> QED BY <1>m, <4>2 DEF UpToDate
    <3>4. \A r \in Records \ {q} : local'[r] = local[r]
      BY <1>0, <2>3
    <3>5. \A r \in Present(main) : IF r \in run.todo THEN run.docs[r] = main[r] ELSE UpToDate(r)'
      BY <1>0, <1>u, <2>2, <3>1, <3>2, <3>3, <3>4 DEF Present
    <3>6. run.pc = "ids" => \A r \in Present(main) : UpToDate(r)'
      BY <2>2, <3>5
    <3>7. run.pc \in {"ids", "copy"}
      BY <2>2
    <3> QED BY <1>m, <2>4, <3>5, <3>6, <3>7 DEF AloneSoFar
  <2> QED BY <2>2, <2>3, <2>4, <2>5, AloneMoves, QuietMoves
<1>4. CASE ReadIds(k)
  <2>1. PICK run : /\ Moves(k, run)
                   /\ run.pc = "list" /\ run.ids = Present(main)
                   /\ run.alone = backup[k].alone
    BY <1>4, ReadIdsFacts
  <2>2. local' = local /\ agreed' = agreed /\ backup[k].pc = "ids"
    BY <1>4, ReadIdsFacts
  <2>3. backup'[k] = run
    BY <2>1, MovesFacts
  <2>4. run.alone => AloneSoFar(k)'
    <3> SUFFICES ASSUME backup[k].alone PROVE AloneSoFar(k)'
      BY <2>1
    <3>1. \A r \in Present(main) : UpToDate(r)
      BY <2>2 DEF AloneExact, AloneSoFar
    <3>2. \A r \in Present(main) : UpToDate(r)'
      BY <1>u, <2>2, <3>1 DEF Present
    <3> QED BY <1>m, <2>1, <2>3, <3>2 DEF AloneSoFar
  <2> QED BY <2>1, <2>2, <2>4, AloneMoves, QuietMoves
<1>5. CASE ListCopies(k)
  <2>0. local' = local /\ backup[k].pc = "list"
    BY <1>5, ListFacts
  <2>s. ASSUME backup[k].alone
        PROVE  /\ \A r \in Present(main) : UpToDate(r) /\ UpToDate(r)'
               /\ backup[k].ids = Present(main)
    <3>1. /\ \A r \in Present(main) : UpToDate(r)
          /\ backup[k].ids = Present(main)
      BY <2>0, <2>s DEF AloneExact, AloneSoFar
    <3> QED BY <1>u, <2>0, <3>1 DEF Present
  <2>1. CASE Present(local) \subseteq backup[k].ids /\ Ends(k)
    <3>1. backup[k].alone => Versions(local) = Versions(main)
      <4> SUFFICES ASSUME backup[k].alone PROVE Versions(local) = Versions(main)
        OBVIOUS
      <4>1. Present(local) \subseteq Present(main)
        BY <2>1, <2>s
      <4>2. \A r \in Present(main) : Versions(local)[r] = Versions(main)[r]
        BY <2>s DEF UpToDate
      <4> QED BY <1>0, <4>1, <4>2, VersionsAgree
    <3>2. backup[k].alone => Versions(local)' = Versions(main)
      BY <1>l, <2>0, <3>1
    <3> QED BY <2>0, <2>1, <3>2, EndsKeep
  <2>2. CASE agreed' = agreed /\ \E run : /\ Moves(k, run)
                        /\ run.pc = "drop" /\ run.todo = Present(local) \ backup[k].ids
                        /\ run.todo # {}
                        /\ run.docs = backup[k].docs /\ run.alone = backup[k].alone
    <3>1. PICK run : /\ Moves(k, run)
                     /\ run.pc = "drop" /\ run.todo = Present(local) \ backup[k].ids
                     /\ run.todo # {} /\ run.alone = backup[k].alone
      BY <2>2
    <3>2. backup'[k] = run
      BY <3>1, MovesFacts
    <3>3. run.alone => AloneSoFar(k)'
      <4> SUFFICES ASSUME backup[k].alone PROVE AloneSoFar(k)'
        BY <3>1
      <4>1. run.todo = Present(local)' \ Present(main)'
        <5>1. Present(local)' = Present(local)
          BY <2>0 DEF Present
        <5> QED BY <1>m, <2>s, <3>1, <5>1
      <4> QED BY <1>m, <2>s, <3>1, <3>2, <4>1 DEF AloneSoFar
    <3>4. ~agreed
      <4> SUFFICES ASSUME agreed PROVE FALSE
        OBVIOUS
      <4>1. backup[k].ids = Present(main) /\ Versions(local) = Versions(main)
        BY <2>0 DEF AgreedQuiet
      <4>2. Present(local) = Present(main)
        BY <1>0, <4>1, SameVersions
      <4> QED BY <3>1, <4>1, <4>2
    <3> QED BY <2>0, <2>2, <3>1, <3>3, <3>4, AloneMoves, QuietMoves
  <2> QED BY <1>5, <2>1, <2>2, ListFacts
<1>6. CASE \E r \in Records : DropCopy(k, r)
  <2>1. PICK q \in Records : DropCopy(k, q)
    BY <1>6
  <2>2. /\ backup[k].pc = "drop" /\ q \in backup[k].todo
        /\ local' = [local EXCEPT ![q].present = FALSE]
    BY <2>1, DropFacts
  <2>3. ~agreed
    BY <2>2 DEF AgreedQuiet
  <2>4. /\ \A r \in Records \ {q} : local'[r] = local[r]
        /\ ~local'[q].present
    BY <1>0, <2>2 DEF Doc
  <2>5. ASSUME backup[k].alone
        PROVE  /\ \A r \in Present(main) : UpToDate(r)'
               /\ Present(local)' \ Present(main)' = backup[k].todo \ {q}
    <3>1. /\ \A r \in Present(main) : UpToDate(r)
          /\ backup[k].todo = Present(local) \ Present(main)
      BY <2>2, <2>5 DEF AloneExact, AloneSoFar
    <3>2. q \notin Present(main)
      BY <2>2, <3>1
    <3>3. Present(local)' = Present(local) \ {q}
      BY <2>4 DEF Present
    <3>4. \A r \in Present(main) : UpToDate(r)'
      BY <1>u, <2>4, <3>1, <3>2 DEF Present
    <3> QED BY <1>m, <3>1, <3>3, <3>4
  <2>6. CASE backup[k].todo = {q} /\ Ends(k)
    <3>1. backup[k].alone => Versions(local)' = Versions(main)
      <4> SUFFICES ASSUME backup[k].alone PROVE Versions(local)' = Versions(main)
        OBVIOUS
      <4>1. Present(local)' \subseteq Present(main)'
        BY <2>5, <2>6
      <4>2. PICK copies \in [Records -> Doc] : copies = local'
        BY <1>m
      <4>3. Present(copies) \subseteq Present(main)
        BY <1>m, <4>1, <4>2 DEF Present
      <4>4. \A r \in Present(main) : Versions(copies)[r] = Versions(main)[r]
        <5>1. \A r \in Present(main) : Versions(local)'[r] = Versions(main)[r]
          BY <1>m, <2>5 DEF UpToDate
        <5>2. Versions(local)' = Versions(copies)
          BY <4>2 DEF Versions
        <5> QED BY <5>1, <5>2, Zenon
      <4>5. Versions(copies) = Versions(main)
        BY <1>0, <4>3, <4>4, VersionsAgree
      <4> QED BY <4>2, <4>5 DEF Versions
    <3> QED BY <2>2, <2>3, <2>6, <3>1, EndsKeep
  <2>7. CASE agreed' = agreed /\ \E run : /\ Moves(k, run)
                        /\ run.pc = "drop" /\ run.todo = backup[k].todo \ {q}
                        /\ run.docs = backup[k].docs /\ run.alone = backup[k].alone
    <3>1. PICK run : /\ Moves(k, run)
                     /\ run.pc = "drop" /\ run.todo = backup[k].todo \ {q}
                     /\ run.alone = backup[k].alone
      BY <2>7
    <3>2. backup'[k] = run
      BY <3>1, MovesFacts
    <3>3. run.alone => AloneSoFar(k)'
      BY <1>m, <2>5, <3>1, <3>2 DEF AloneSoFar
    <3> QED BY <2>2, <2>3, <2>7, <3>1, <3>3, AloneMoves, QuietMoves
  <2> QED BY <2>1, <2>6, <2>7, DropFacts
<1>7. CASE BackupFails(k)
  <2>1. Moves(k, IdleBackup) /\ local' = local /\ agreed' = agreed /\ backup[k].pc # "idle"
    BY <1>7, FailsFacts DEF BackupFails
  <2> QED BY <2>1, IdleBackupFacts, AloneMoves, QuietMoves
<1> QED BY <1>1, <1>2, <1>3, <1>4, <1>5, <1>6, <1>7 DEF RunMoves, BackupStep

(* What runs promise holds beside the handlers, too: what they were alone     *)
(* with ends when MAIN changes.                                              *)
LEMMA BackupInvStep ==
  ASSUME TypeOK, TypeOK', BackupTypes, DocShape, BackupInv, [BackupNext]_backupVars
  PROVE  BackupInv'
<1>1. CASE MainSide
  <2>1. VersionsCount' /\ BasesOld'
    BY <1>1, VersionsCountStep, BasesOldStep DEF BackupInv
  <2>2. CopiesSound'
    <3>1. ASSUME NEW r \in Records PROVE CopySound(local[r], r)'
      <4>1. PICK doc \in Doc : doc = local[r]
        BY DEF BackupTypes
      <4>2. CopySound(doc, r)
        BY <4>1 DEF BackupInv, CopiesSound
      <4>3. CopySound(doc, r)'
        BY <1>1, <4>2, SoundStays DEF BackupInv
      <4>4. local'[r] = doc
        BY <1>1, <4>1, MainSideRuns
      <4> QED BY <4>3, <4>4 DEF CopySound
    <3>2. ASSUME NEW r \in Records, NEW k \in Admins PROVE CopySound(backup[k].docs[r], r)'
      <4>1. PICK doc \in Doc : doc = backup[k].docs[r]
        BY RunFields DEF BackupTypes
      <4>2. CopySound(doc, r)
        BY <4>1 DEF BackupInv, CopiesSound
      <4>3. CopySound(doc, r)'
        BY <1>1, <4>2, SoundStays DEF BackupInv
      <4>4. backup'[k].docs[r] = doc
        BY <1>1, <4>1, MainSideRuns
      <4> QED BY <4>3, <4>4 DEF CopySound
    <3> QED BY <3>1, <3>2 DEF CopiesSound
  <2>3. AloneExact' /\ AgreedQuiet'
    <3>1. local' = local
      BY <1>1, MainSideRuns
    <3>2. CASE main' = main /\ agreed' = agreed /\ backup' = backup
      BY <3>1, <3>2 DEF BackupInv, AloneExact, AgreedQuiet, AloneSoFar, UpToDate, Versions,
                        Present
    <3>3. CASE ~agreed' /\ \A k \in Admins : ~backup'[k].alone
      BY <3>3 DEF AloneExact, AgreedQuiet
    <3> QED BY <1>1, <3>2, <3>3, MainSideRuns
  <2> QED BY <2>1, <2>2, <2>3 DEF BackupInv
<1>2. ASSUME NEW k \in Admins, RunMoves(k) PROVE BackupInv'
  <2>1. main' = main /\ handler' = handler /\ muddled' = muddled
    BY <1>2, RunMovesTypes DEF RunFrame, vars
  <2>2. VersionsCount' /\ BasesOld'
    BY <2>1 DEF BackupInv, VersionsCount, BasesOld, Unbumped, Unbumps
  <2> QED BY <1>2, <2>2, CopiesSoundStep, AloneStep DEF BackupInv
<1>3. CASE UNCHANGED backupVars
  BY <1>3 DEF backupVars, vars, BackupInv, VersionsCount, BasesOld, Unbumped, Unbumps,
              CopiesSound, CopySound, AloneExact, AgreedQuiet, AloneSoFar, UpToDate, Versions,
              Present
<1> QED BY <1>1, <1>2, <1>3, BackupSides

(* The inductive invariant of runs beside handlers and each other: versions   *)
(* count contents, copies are sound, runs alone are exact.                    *)
THEOREM BackupInvHolds == BackupSpec => []BackupInv
<1>1. BackupInit => BackupInv
  BY IdleBackupFacts
     DEF BackupInit, Init, BackupInv, VersionsCount, BasesOld, CopiesSound, CopySound,
         AloneExact, AgreedQuiet, IdleBackup, NoDoc, IdleRequest
<1>2. TypeOK /\ TypeOK' /\ BackupTypes /\ DocShape /\ BackupInv /\ [BackupNext]_backupVars
        => BackupInv'
  BY BackupInvStep
<1> QED BY <1>1, <1>2, BackupTyped, BackupIsSpec, DocShapeInvariant, PTL DEF BackupSpec

(* Once a run has gone through alone, LOCAL has exactly the documents of MAIN  *)
(* until MAIN changes, and their contents but for those of which one version   *)
(* names two: for any number of runs, requests and records, whatever failed    *)
(* or overlapped before and whatever runs are under way meanwhile.             *)
THEOREM CopiesMatch == BackupSpec => []BackupMatches
<1>1. TypeOK /\ BackupTypes /\ BackupInv => BackupMatches
  <2> SUFFICES ASSUME TypeOK, BackupTypes, BackupInv, agreed
               PROVE  /\ Present(local) = Present(main)
                      /\ \A r \in Records : r \in muddled \/ Unbumped(r) \/ Copied(r)
    BY DEF BackupMatches
  <2>0. local \in [Records -> Doc] /\ main \in [Records -> Doc]
    BY DEF TypeOK, BackupTypes
  <2>1. Versions(local) = Versions(main)
    BY DEF BackupInv, AgreedQuiet
  <2>2. Present(local) = Present(main)
    BY <2>0, <2>1, SameVersions
  <2>3. ASSUME NEW r \in Records, r \notin muddled, ~Unbumped(r), main[r].present
        PROVE  local[r].data = main[r].data
    <3>0. /\ local[r].data \in Nat /\ local[r].ver \in Nat
          /\ main[r].data \in Nat /\ main[r].ver \in Nat
      BY <2>0 DEF Doc
    <3>1. local[r].present
      BY <2>2, <2>3 DEF Present
    <3>2. EffectiveVersion(local[r]) = EffectiveVersion(main[r])
      <4>1. Versions(local)[r] = EffectiveVersion(local[r])
        BY <2>0, <3>1, VersionsType
      <4>2. Versions(main)[r] = EffectiveVersion(main[r])
        BY <2>0, <2>3, VersionsType
      <4> QED BY <2>1, <4>1, <4>2, Zenon
    <3>3. /\ 0 < local[r].data /\ local[r].data <= main[r].data
          /\ local[r].data < main[r].data => local[r].ver < main[r].ver
      BY <2>3, <3>1 DEF BackupInv, CopiesSound, CopySound
    <3>4. main[r].ver = 1 /\ main[r].data > 1 => Unbumped(r)
      BY <2>3 DEF BackupInv, VersionsCount
    <3> QED BY <2>3, <3>0, <3>2, <3>3, <3>4 DEF EffectiveVersion
  <2> QED BY <2>2, <2>3 DEF Copied
<1> QED BY <1>1, BackupTyped, BackupInvHolds, PTL

-----------------------------------------------------------------------------
(* One run at a time. *)

LEMMA OneRunMoves ==
  ASSUME BackupTypes, OneRunInv, ~overlapped, NEW k \in Admins, NEW run, Moves(k, run),
         backup[k].pc # "idle", LocalBehind', CopiesForward(run)'
  PROVE  OneRunInv'
<1>1. backup'[k] = run /\ \A j \in Admins \ {k} : backup'[j] = backup[j]
  BY MovesFacts
<1>2. \A j \in Admins \ {k} : backup'[j].pc = "idle"
  BY <1>1 DEF OneRunInv
<1>3. \A j \in Admins : CopiesForward(backup[j])'
  <2> SUFFICES ASSUME NEW j \in Admins PROVE CopiesForward(backup[j])'
    OBVIOUS
  <2>1. CASE j = k
    BY <1>1, <2>1 DEF CopiesForward
  <2>2. CASE j # k
    BY <1>2, <2>2 DEF CopiesForward
  <2> QED BY <2>1, <2>2
<1>4. \A i, j \in Admins : backup'[i].pc # "idle" /\ backup'[j].pc # "idle" => i = j
  BY <1>2
<1> QED BY <1>3, <1>4 DEF OneRunInv

LEMMA OneRunStep ==
  ASSUME TypeOK, TypeOK', BackupTypes, DocShape, OneRunInv, [BackupNext]_backupVars
  PROVE  OneRunInv'
<1>0. /\ local \in [Records -> Doc] /\ main \in [Records -> Doc] /\ backup \in [Admins -> Run]
      /\ \A r \in Records : local[r].data \in Nat /\ main[r].data \in Nat
  BY DEF BackupTypes, TypeOK, Doc
<1>1. CASE MainSide
  <2>1. \A r \in Records : /\ main'[r].data \in Nat /\ main[r].data <= main'[r].data
                           /\ Gone(r) => Gone(r)'
    <3>1. CASE Writes
      BY <3>1, HistoryGrows
    <3>2. CASE main' = main
      BY <1>0, <3>2 DEF Gone
    <3> QED BY <1>1, <3>1, <3>2, NextMain DEF MainSide
  <2> SUFFICES ASSUME ~overlapped
               PROVE  /\ \A j, k \in Admins :
                           backup'[j].pc # "idle" /\ backup'[k].pc # "idle" => j = k
                      /\ LocalBehind'
                      /\ \A k \in Admins : CopiesForward(backup[k])'
    BY <1>1, MainSideRuns DEF OneRunInv
  <2>2. local' = local
    BY <1>1, MainSideRuns
  <2>3. \A j, k \in Admins : backup'[j].pc # "idle" /\ backup'[k].pc # "idle" => j = k
    BY <1>1, MainSideRuns DEF OneRunInv
  <2>4. LocalBehind'
    BY <1>0, <2>1, <2>2 DEF OneRunInv, LocalBehind
  <2>5. ASSUME NEW k \in Admins PROVE CopiesForward(backup[k])'
    <3>1. /\ backup'[k].pc = backup[k].pc /\ backup'[k].docs = backup[k].docs
          /\ backup'[k].todo = backup[k].todo /\ backup'[k].ids = backup[k].ids
      BY <1>1, MainSideRuns
    <3>2. /\ backup[k].docs \in [Records -> Doc] /\ backup[k].todo \subseteq Records
          /\ \A r \in Records : backup[k].docs[r].data \in Nat
      BY <1>0, RunFields DEF Doc
    <3>3. Present(local)' = Present(local) /\ Present(local) \subseteq Records
      BY <2>2 DEF Present
    <3>4. CopiesForward(backup[k])
      BY DEF OneRunInv
    <3>5. backup[k].pc = "copy" => \A r \in backup[k].todo :
            /\ backup[k].docs[r].present
            /\ 0 < backup[k].docs[r].data /\ backup[k].docs[r].data <= main'[r].data
            /\ local[r].data <= backup[k].docs[r].data
            /\ local[r].present \/ local[r].data = 0
      BY <1>0, <2>1, <3>2, <3>4 DEF CopiesForward
    <3>6. /\ backup[k].pc = "list" => \A r \in Present(local) \ backup[k].ids : Gone(r)'
          /\ backup[k].pc = "drop" => \A r \in backup[k].todo : Gone(r)'
      BY <2>1, <3>2, <3>3, <3>4 DEF CopiesForward
    <3> QED BY <2>2, <3>1, <3>3, <3>5, <3>6 DEF CopiesForward
  <2> QED BY <2>3, <2>4, <2>5
<1>2. ASSUME NEW k \in Admins, RunMoves(k) PROVE OneRunInv'
  <2>m. main' = main /\ (\A r \in Records : Gone(r)' <=> Gone(r))
    BY <1>2, RunMovesTypes DEF RunFrame, vars, Gone
  <2>1. CASE StartBackup(k)
    <3> SUFFICES ASSUME ~overlapped'
                 PROVE  /\ \A i, j \in Admins :
                             backup'[i].pc # "idle" /\ backup'[j].pc # "idle" => i = j
                        /\ LocalBehind'
                        /\ \A j \in Admins : CopiesForward(backup[j])'
      BY DEF OneRunInv
    <3>1. ~overlapped /\ \A i \in Admins : backup[i].pc = "idle"
      BY <2>1, StartBackupFacts
    <3>2. \A j \in Admins \ {k} : backup'[j].pc = "idle"
      BY <2>1, <3>1, StartBackupFacts
    <3>3. backup'[k].pc = "plan" /\ local' = local
      BY <2>1, StartBackupFacts
    <3>4. LocalBehind'
      BY <2>m, <3>1, <3>3 DEF OneRunInv, LocalBehind
    <3>5. ASSUME NEW j \in Admins PROVE CopiesForward(backup[j])'
      <4>1. backup'[j].pc \in {"idle", "plan"}
        BY <3>2, <3>3
      <4> QED BY <4>1 DEF CopiesForward
    <3> QED BY <3>2, <3>4, <3>5
  <2>2. CASE overlapped
    <3>1. overlapped'
      BY <1>2, <2>2 DEF RunMoves, BackupStep, StartBackup, ReadDocuments, CopyToLocal, ReadIds,
                        ListCopies, DropCopy, BackupFails, Proceed, End
    <3> QED BY <3>1 DEF OneRunInv
  <2>3. CASE ~overlapped /\ ~StartBackup(k)
    <3>0. /\ LocalBehind /\ CopiesForward(backup[k]) /\ backup[k] \in Run
          /\ backup[k].docs \in [Records -> Doc] /\ backup[k].todo \subseteq Records
      BY <1>0, <2>3, RunFields DEF OneRunInv
    <3>l. local' = local => LocalBehind'
      BY <2>m, <3>0 DEF LocalBehind
    <3>i. CopiesForward(IdleBackup)'
      BY DEF CopiesForward, IdleBackup
    <3>1. CASE ReadDocuments(k)
      <4>1. PICK run : /\ Moves(k, run)
                       /\ run.todo = ToCopy(backup[k].found, main)
                       /\ run.pc = (IF run.todo = {} THEN "ids" ELSE "copy")
                       /\ run.docs = [r \in Records |-> IF r \in run.todo THEN main[r] ELSE NoDoc]
        BY <3>1, ReadDocumentsFacts
      <4>2. local' = local /\ backup[k].pc # "idle"
        BY <3>1, ReadDocumentsFacts
      <4>3. ASSUME NEW r \in run.todo
            PROVE  /\ r \in Records /\ run.docs[r] = main[r] /\ main[r].present
                   /\ main[r].data > 0 /\ local[r].data <= main[r].data
                   /\ local[r].present \/ local[r].data = 0
        <5>1. r \in Records /\ main[r].present
          BY <4>1, <4>3 DEF ToCopy, Present
        <5>2. run.docs[r] = main[r]
          BY <4>1, <4>3, <5>1
        <5>3. main[r].data > 0 /\ ~Gone(r) /\ local[r].data \in Nat
          BY <1>0, <5>1 DEF DocShape, Gone
        <5>4. /\ local[r].data <= main[r].data
              /\ local[r].present \/ local[r].data = 0
          BY <3>0, <5>1, <5>3 DEF LocalBehind
        <5> QED BY <5>1, <5>2, <5>3, <5>4
      <4>4. run.pc \in {"ids", "copy"}
        BY <4>1
      <4>5. CopiesForward(run)'
        BY <1>0, <2>m, <4>2, <4>3, <4>4 DEF CopiesForward
      <4> QED BY <2>3, <3>l, <4>1, <4>2, <4>5, OneRunMoves
    <3>2. CASE \E r \in Records : CopyToLocal(k, r)
      <4>1. PICK q \in Records : CopyToLocal(k, q)
        BY <3>2
      <4>2. PICK run : /\ Moves(k, run)
                       /\ run.todo = backup[k].todo \ {q}
                       /\ run.pc = (IF run.todo = {} THEN "ids" ELSE "copy")
                       /\ run.docs = [backup[k].docs EXCEPT ![q] = NoDoc]
                       /\ run.alone = backup[k].alone
        BY <4>1, CopyFacts
      <4>3. /\ backup[k].pc = "copy" /\ q \in backup[k].todo
            /\ local' = [local EXCEPT ![q] = backup[k].docs[q]]
        BY <4>1, CopyFacts
      <4>4. /\ local'[q] = backup[k].docs[q]
            /\ \A r \in Records \ {q} : local'[r] = local[r]
        BY <1>0, <4>3
      <4>5. \A r \in backup[k].todo :
              /\ backup[k].docs[r].present
              /\ 0 < backup[k].docs[r].data /\ backup[k].docs[r].data <= main[r].data
              /\ local[r].data <= backup[k].docs[r].data
              /\ local[r].present \/ local[r].data = 0
        BY <3>0, <4>3 DEF CopiesForward
      <4>6. LocalBehind'
        <5>1. ASSUME NEW r \in Records
              PROVE  /\ local'[r].data <= main[r].data
                     /\ local'[r].present => local'[r].data > 0
                     /\ ~local'[r].present /\ local'[r].data > 0 => Gone(r)
          <6>1. CASE r = q
            BY <4>3, <4>4, <4>5, <6>1, <3>0 DEF Doc
          <6>2. CASE r # q
            BY <3>0, <4>4, <6>2 DEF LocalBehind
          <6> QED BY <6>1, <6>2
        <5> QED BY <2>m, <5>1 DEF LocalBehind
      <4>7. \A r \in run.todo : /\ r \in backup[k].todo /\ r \in Records
                                /\ run.docs[r] = backup[k].docs[r] /\ local'[r] = local[r]
        BY <3>0, <4>2, <4>4
      <4>8. run.pc \in {"ids", "copy"}
        BY <4>2
      <4>9. CopiesForward(run)'
        BY <2>m, <4>5, <4>7, <4>8 DEF CopiesForward
      <4> QED BY <2>3, <4>2, <4>3, <4>6, <4>9, OneRunMoves
    <3>3. CASE ReadIds(k)
      <4>1. PICK run : Moves(k, run) /\ run.pc = "list" /\ run.ids = Present(main)
        BY <3>3, ReadIdsFacts
      <4>2. local' = local /\ backup[k].pc # "idle"
        BY <3>3, ReadIdsFacts
      <4>3. \A r \in Present(local) \ run.ids : Gone(r)
        BY <1>0, <3>0, <4>1 DEF Present, LocalBehind, Gone
      <4>4. CopiesForward(run)'
        BY <2>m, <4>1, <4>2, <4>3 DEF CopiesForward, Present
      <4> QED BY <2>3, <3>l, <4>1, <4>2, <4>4, OneRunMoves
    <3>4. CASE ListCopies(k)
      <4>1. local' = local /\ backup[k].pc = "list"
        BY <3>4, ListFacts
      <4>2. CASE Ends(k)
        BY <2>3, <3>i, <3>l, <4>1, <4>2, OneRunMoves DEF Ends
      <4>3. CASE \E run : /\ Moves(k, run)
                          /\ run.pc = "drop" /\ run.todo = Present(local) \ backup[k].ids
        <5>1. PICK run : /\ Moves(k, run)
                         /\ run.pc = "drop" /\ run.todo = Present(local) \ backup[k].ids
          BY <4>3
        <5>2. \A r \in run.todo : r \in Records /\ Gone(r)
          BY <3>0, <4>1, <5>1 DEF CopiesForward, Present
        <5>3. CopiesForward(run)'
          BY <2>m, <5>1, <5>2 DEF CopiesForward
        <5> QED BY <2>3, <3>l, <4>1, <5>1, <5>3, OneRunMoves
      <4> QED BY <3>4, <4>2, <4>3, ListFacts
    <3>5. CASE \E r \in Records : DropCopy(k, r)
      <4>1. PICK q \in Records : DropCopy(k, q)
        BY <3>5
      <4>2. /\ backup[k].pc = "drop" /\ q \in backup[k].todo
            /\ local' = [local EXCEPT ![q].present = FALSE]
        BY <4>1, DropFacts
      <4>3. /\ ~local'[q].present /\ local'[q].data = local[q].data
            /\ \A r \in Records \ {q} : local'[r] = local[r]
        BY <1>0, <4>2 DEF Doc
      <4>4. \A r \in backup[k].todo : r \in Records /\ Gone(r)
        BY <3>0, <4>2 DEF CopiesForward
      <4>5. LocalBehind'
        <5>1. ASSUME NEW r \in Records
              PROVE  /\ local'[r].data <= main[r].data
                     /\ local'[r].present => local'[r].data > 0
                     /\ ~local'[r].present /\ local'[r].data > 0 => Gone(r)
          <6>1. CASE r = q
            BY <3>0, <4>2, <4>3, <4>4, <6>1 DEF LocalBehind
          <6>2. CASE r # q
            BY <3>0, <4>3, <6>2 DEF LocalBehind
          <6> QED BY <6>1, <6>2
        <5> QED BY <2>m, <5>1 DEF LocalBehind
      <4>6. CASE Ends(k)
        BY <2>3, <3>i, <4>2, <4>5, <4>6, OneRunMoves DEF Ends
      <4>7. CASE \E run : /\ Moves(k, run)
                          /\ run.pc = "drop" /\ run.todo = backup[k].todo \ {q}
        <5>1. PICK run : /\ Moves(k, run)
                         /\ run.pc = "drop" /\ run.todo = backup[k].todo \ {q}
          BY <4>7
        <5>2. CopiesForward(run)'
          BY <2>m, <4>4, <5>1 DEF CopiesForward
        <5> QED BY <2>3, <4>2, <4>5, <5>1, <5>2, OneRunMoves
      <4> QED BY <4>1, <4>6, <4>7, DropFacts
    <3>6. CASE BackupFails(k)
      <4>1. Moves(k, IdleBackup) /\ local' = local /\ backup[k].pc # "idle"
        BY <3>6, FailsFacts DEF BackupFails
      <4> QED BY <2>3, <3>i, <3>l, <4>1, OneRunMoves
    <3> QED BY <1>2, <2>3, <3>1, <3>2, <3>3, <3>4, <3>5, <3>6 DEF RunMoves, BackupStep
  <2> QED BY <2>1, <2>2, <2>3
<1>3. CASE UNCHANGED backupVars
  BY <1>3 DEF backupVars, vars, OneRunInv, LocalBehind, CopiesForward, Gone, Present
<1> QED BY <1>1, <1>2, <1>3, BackupSides

(* As long as runs do not overlap, LOCAL is behind MAIN, and what the run is  *)
(* about to do keeps it there.                                               *)
THEOREM OneRunHolds == BackupSpec => []OneRunInv
<1>1. BackupInit => OneRunInv
  BY IdleBackupFacts
     DEF BackupInit, Init, OneRunInv, LocalBehind, CopiesForward, NoDoc
<1>2. TypeOK /\ TypeOK' /\ BackupTypes /\ DocShape /\ OneRunInv /\ [BackupNext]_backupVars
        => OneRunInv'
  BY OneRunStep
<1> QED BY <1>1, <1>2, BackupTyped, BackupIsSpec, DocShapeInvariant, PTL DEF BackupSpec

(* What the handlers do is what a source of the feed does. *)
LEMMA SourceStep ==
  ASSUME TypeOK, TypeOK', BackupTypes, MainSide
  PROVE  [LocalFeed!Next]_<<History(main), History(local)>>
<1>0. main \in [Records -> Doc] /\ main' \in [Records -> Doc]
  BY DEF TypeOK
<1>h. \A r \in Records : /\ History(main)[r].present = main[r].present
                         /\ History(main)[r].data = main[r].data
  BY DEF History
<1>1. History(local)' = History(local)
  BY MainSideRuns DEF History
<1>2. CASE main' = main
  BY <1>1, <1>2 DEF History
<1>3. CASE \E r \in Records : /\ \A s \in Records \ {r} : main'[s] = main[s]
                              /\ Kept(r) \/ Edited(r) \/ Removed(r)
  <2>1. PICK r \in Records : /\ \A s \in Records \ {r} : main'[s] = main[s]
                             /\ Kept(r) \/ Edited(r) \/ Removed(r)
    BY <1>3
  <2>2. CASE Kept(r)
    <3>1. \A s \in Records : main'[s].present = main[s].present /\ main'[s].data = main[s].data
      BY <2>1, <2>2 DEF Kept
    <3>2. History(main)' = History(main)
      BY <3>1 DEF History
    <3> QED BY <1>1, <3>2
  <2>3. CASE Edited(r)
    <3>1. ~LocalFeed!Forgotten(History(main)[r])
      BY <1>h, <2>3 DEF Edited, Gone, LocalFeed!Forgotten
    <3>2. History(main)' = [History(main) EXCEPT ![r] =
            [present |-> TRUE, data |-> History(main)[r].data + 1]]
      BY <1>0, <2>1, <2>3 DEF Edited, History, Doc
    <3> QED BY <1>1, <3>1, <3>2 DEF LocalFeed!Next, LocalFeed!Edit
  <2>4. CASE Removed(r)
    <3>1. History(main)[r].present
      BY <1>h, <2>4 DEF Removed
    <3>2. History(main)' = [History(main) EXCEPT ![r] =
            [History(main)[r] EXCEPT !.present = FALSE]]
      BY <1>0, <2>1, <2>4 DEF Removed, History, Doc
    <3> QED BY <1>1, <3>1, <3>2 DEF LocalFeed!Next, LocalFeed!Delete
  <2> QED BY <2>1, <2>2, <2>3, <2>4
<1> QED BY <1>2, <1>3, NextMain, WritesOne DEF MainSide

(* A step of the only run under way is one of its replica. *)
LEMMA ReplicaStep ==
  ASSUME TypeOK, BackupTypes, OneRunInv, ~overlapped, NEW k \in Admins, RunMoves(k)
  PROVE  [LocalFeed!Next]_<<History(main), History(local)>>
<1>0. /\ local \in [Records -> Doc] /\ main \in [Records -> Doc] /\ backup[k] \in Run
      /\ backup[k].docs \in [Records -> Doc] /\ backup[k].todo \subseteq Records
  BY RunFields DEF BackupTypes, TypeOK
<1>h. \A r \in Records : /\ History(main)[r].present = main[r].present
                         /\ History(main)[r].data = main[r].data
                         /\ History(local)[r].present = local[r].present
                         /\ History(local)[r].data = local[r].data
  BY DEF History
<1>m. History(main)' = History(main)
  BY RunMovesTypes DEF RunFrame, vars, History
<1>f. CopiesForward(backup[k])
  BY DEF OneRunInv
<1>1. CASE local' = local
  BY <1>1, <1>m DEF History
<1>2. ASSUME NEW r \in Records, CopyToLocal(k, r)
      PROVE  LocalFeed!Next
  <2>1. /\ backup[k].pc = "copy" /\ r \in backup[k].todo
        /\ local' = [local EXCEPT ![r] = backup[k].docs[r]]
    BY <1>2, CopyFacts
  <2>2. PICK doc \in Doc : doc = backup[k].docs[r]
    BY <1>0
  <2>3. /\ doc.present /\ 0 < doc.data /\ doc.data <= main[r].data
        /\ local[r].data <= doc.data
        /\ local[r].present \/ local[r].data = 0
    BY <1>f, <2>1, <2>2 DEF CopiesForward
  <2>4. /\ doc.data \in 1 .. History(main)[r].data
        /\ History(local)[r].data <= doc.data
        /\ ~LocalFeed!Forgotten(History(local)[r])
    BY <1>0, <1>h, <2>3 DEF LocalFeed!Forgotten, Doc
  <2>5. History(local)' = [History(local) EXCEPT ![r] = [present |-> TRUE, data |-> doc.data]]
    BY <1>0, <2>1, <2>2, <2>3 DEF History, Doc
  <2> QED BY <1>m, <2>4, <2>5 DEF LocalFeed!Next, LocalFeed!Follow
<1>3. ASSUME NEW r \in Records, DropCopy(k, r)
      PROVE  LocalFeed!Next
  <2>1. /\ backup[k].pc = "drop" /\ r \in backup[k].todo
        /\ local' = [local EXCEPT ![r].present = FALSE]
    BY <1>3, DropFacts
  <2>2. Gone(r)
    BY <1>f, <2>1 DEF CopiesForward
  <2>3. LocalFeed!Forgotten(History(main)[r])
    BY <1>h, <2>2 DEF Gone, LocalFeed!Forgotten
  <2>4. History(local)' = [History(local) EXCEPT ![r] =
                             [History(local)[r] EXCEPT !.present = FALSE]]
    <3>1. local \in [Records -> Doc]
      BY <1>0
    <3> QED BY <2>1, <3>1 DEF History, Doc
  <2> QED BY <1>m, <2>3, <2>4 DEF LocalFeed!Next, LocalFeed!Drop
<1>4. \/ local' = local
      \/ \E r \in Records : CopyToLocal(k, r) \/ DropCopy(k, r)
  BY DEF RunMoves, BackupStep, StartBackup, ReadDocuments, ReadIds, ListCopies, BackupFails
<1> QED BY <1>1, <1>2, <1>3, <1>4

(* As long as runs do not overlap, LOCAL only moves forward along the history  *)
(* of each record and never brings a deleted one back, whatever handlers write *)
(* while a run goes on and wherever runs die.                                  *)
THEOREM BackupFollows == BackupSpec => OneRunFollows
<1>1. BackupInit => LocalFeed!Init
  BY DEF BackupInit, Init, LocalFeed!Init, History, LocalFeed!Absent, NoDoc
<1>2. TypeOK /\ TypeOK' /\ BackupTypes /\ OneRunInv /\ [BackupNext]_backupVars
        => [overlapped' \/ LocalFeed!Next]_<<History(main), History(local)>>
  <2> SUFFICES ASSUME TypeOK, TypeOK', BackupTypes, OneRunInv, [BackupNext]_backupVars,
                      ~overlapped'
               PROVE  [LocalFeed!Next]_<<History(main), History(local)>>
    OBVIOUS
  <2>1. CASE MainSide
    BY <2>1, SourceStep
  <2>2. ASSUME NEW k \in Admins, RunMoves(k)
        PROVE  [LocalFeed!Next]_<<History(main), History(local)>>
    <3>1. ~overlapped
      BY <2>2 DEF RunMoves, BackupStep, StartBackup, ReadDocuments, CopyToLocal, ReadIds,
                  ListCopies, DropCopy, BackupFails, Proceed, End
    <3> QED BY <2>2, <3>1, ReplicaStep
  <2>3. CASE UNCHANGED backupVars
    BY <2>3 DEF backupVars, vars, History
  <2> QED BY <2>1, <2>2, <2>3, BackupSides
<1> QED BY <1>1, <1>2, BackupTyped, BackupIsSpec, OneRunHolds, PTL DEF BackupSpec, OneRunFollows
================================================================================
