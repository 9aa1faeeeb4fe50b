----------------------------- MODULE ReplicationInv -----------------------------
(***************************************************************************)
(* The inductive invariant behind the safety of Replication, in the parts   *)
(* the proofs cite by name.                                                 *)
(***************************************************************************)
EXTENDS Replication

(* A deployment whose writers keep to the protocol: no whole-document        *)
(* replacement brings an old sync_version back, no write skips the queue,    *)
(* no request stops between its write and its enqueue.                       *)
OrderlyWriters ==
  /\ Kinds \cap {"replace", "bumpReplace", "silent"} = {}
  /\ "handlerCrash" \notin Faults

Working == WorkerPCs \ {"idle", "markFailed"}

Queued(r) == queue[r].status # "NONE"

(* Whoever works on a record owns its row, under a lease that has not run out. *)
ClaimHeld ==
  \A w \in Workers : worker[w].pc \in Working =>
    /\ Owns(w, queue[worker[w].rec])
    /\ ~queue[worker[w].rec].lapsed

-----------------------------------------------------------------------------
(* A request that has captured a version it has yet to enqueue. *)
Bumped(h) == handler[h].pc \in {"remove", "enqueue"}

(* h still has to queue something for r. *)
Owes(h, r) ==
  /\ handler[h].rec = r
  /\ \/ handler[h].pc = "enqueue"
     \/ /\ main[r].present
        /\ \/ handler[h].pc = "remove"
           \/ handler[h].pc = "bump" /\ handler[h].kind # "delete"

DocShape == \A r \in Records : main[r].present => main[r].data > 0

(* What is under way for a record concerns one that exists or existed, and  *)
(* deletions are enqueued after the document is gone.                       *)
RequestShape ==
  \A h \in Handlers : handler[h].pc # "idle" =>
    /\ handler[h].kind \in {"create", "set", "delete"}
    /\ handler[h].pc # "store"
    /\ main[handler[h].rec].data > 0
    /\ handler[h].pc = "remove" => handler[h].kind = "delete"
    /\ handler[h].kind = "delete" /\ handler[h].pc \in {"enqueue", "pend"} =>
         ~main[handler[h].rec].present

RowShape ==
  \A r \in Records : Queued(r) =>
    /\ main[r].data > 0
    /\ queue[r].ver <= main[r].ver
    /\ queue[r].op = "DELETE" => ~main[r].present

(* A version is handed out once: nothing queued or claimed has the version  *)
(* a request is about to enqueue, so an enqueue always spoils a stale ack.  *)
VersionsFresh ==
  \A h \in Handlers : Bumped(h) =>
    /\ handler[h].ver <= main[handler[h].rec].ver
    /\ Queued(handler[h].rec) => queue[handler[h].rec].ver # handler[h].ver
    /\ \A w \in Workers :
         worker[w].pc \in Working /\ worker[w].rec = handler[h].rec =>
           worker[w].ver # handler[h].ver
    /\ \A g \in Handlers :
         g # h /\ Bumped(g) /\ handler[g].rec = handler[h].rec =>
           handler[g].ver # handler[h].ver

JobShape ==
  \A w \in Workers : worker[w].pc \in Working =>
    /\ worker[w].ver <= main[worker[w].rec].ver
    /\ worker[w].op = "DELETE" => ~main[worker[w].rec].present
    /\ worker[w].pc \in {"read", "copy", "verify"} => worker[w].op = "UPSERT"
    /\ worker[w].pc = "drop" => worker[w].op = "DELETE"
    /\ worker[w].op = "UPSERT" /\ worker[w].pc \in {"verify", "record", "ack"} =>
         secondary[worker[w].rec] = worker[w].doc
    /\ worker[w].op = "DELETE" /\ worker[w].pc \in {"record", "ack"} =>
         ~secondary[worker[w].rec].present

(* A job whose ack would be accepted has copied the document MAIN has now,  *)
(* unless a request still has to enqueue.                                   *)
CopyCurrent ==
  \A w \in Workers :
    /\ worker[w].pc \in {"copy", "verify", "record", "ack"}
    /\ worker[w].op = "UPSERT"
    /\ Matches(w, queue[worker[w].rec])
    => \/ main[worker[w].rec].present /\ worker[w].doc = main[worker[w].rec]
       \/ \E h \in Handlers : Owes(h, worker[w].rec)

(* A replica that is behind is owed to it: a row is queued or about to be. *)
NothingLost ==
  \A r \in Records : InSync(r) \/ Queued(r) \/ \E h \in Handlers : Owes(h, r)

ReplicaInv ==
  /\ DocShape
  /\ RequestShape
  /\ RowShape
  /\ VersionsFresh
  /\ JobShape
  /\ CopyCurrent
  /\ NothingLost

-----------------------------------------------------------------------------
(* What keeps the replica on its record's history (ReplicaFeed), whatever    *)
(* the kinds of writers and the faults, as long as claims are exclusive.     *)
Gone(r) == ~main[r].present /\ main[r].data > 0

(* A request that deletes found the document, and enqueues after removing it.*)
DeletesRemove ==
  \A h \in Handlers : handler[h].kind = "delete" /\ handler[h].pc # "idle" =>
    /\ main[handler[h].rec].data > 0
    /\ handler[h].pc # "store"
    /\ handler[h].pc \in {"enqueue", "pend"} => ~main[handler[h].rec].present

DeletionsQueued == \A r \in Records : Queued(r) /\ queue[r].op = "DELETE" => Gone(r)

(* A document about to be copied is one its record had, not older than the   *)
(* replica's; a replica about to be dropped belongs to a deleted record.     *)
CopiesFollow ==
  \A w \in Workers : worker[w].pc \in Working =>
    /\ worker[w].op = "DELETE" => Gone(worker[w].rec)
    /\ worker[w].pc = "drop" => worker[w].op = "DELETE"
    /\ worker[w].pc \in {"copy", "verify"} => worker[w].doc.present
    /\ worker[w].pc = "copy" =>
         /\ 0 < worker[w].doc.data /\ worker[w].doc.data <= main[worker[w].rec].data
         /\ secondary[worker[w].rec].data <= worker[w].doc.data
         /\ secondary[worker[w].rec].present \/ secondary[worker[w].rec].data = 0

ReplicaBehind ==
  \A r \in Records :
    /\ secondary[r].data <= main[r].data
    /\ ~secondary[r].present /\ secondary[r].data > 0 => Gone(r)

FeedInv == DocShape /\ DeletesRemove /\ DeletionsQueued /\ CopiesFollow /\ ReplicaBehind

-----------------------------------------------------------------------------
(* What users are shown.  A job that may remove its row has left an answer   *)
(* about the document it copied; a record without an answer is owed one.     *)
Answered(r) ==
  /\ verification[r].status \in {"VERIFIED", "FAILED"}
  /\ verification[r].status = "VERIFIED" /\ main[r].present =>
       verification[r].ver = EffectiveVersion(main[r])

JobsAnswer ==
  \A w \in Workers :
    /\ worker[w].pc = "record" => worker[w].result \in {"VERIFIED", "FAILED"}
    /\ worker[w].pc = "ack" =>
         LET shown == verification[worker[w].rec] IN
         /\ shown.status \in {"VERIFIED", "FAILED"}
         /\ shown.status = "VERIFIED" /\ worker[w].op = "UPSERT" =>
              shown.ver = EffectiveVersion(worker[w].doc)

AnswersOwed ==
  \A r \in Records : main[r].data > 0 =>
    Answered(r) \/ Queued(r) \/ \E h \in Handlers : Owes(h, r)

StatusInv == JobsAnswer /\ AnswersOwed
=============================================================================
