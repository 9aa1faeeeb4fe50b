------------------------------ MODULE LocalBackup ------------------------------
(***************************************************************************)
(* The LOCAL database, which administrators fill from MAIN when they ask   *)
(* for it (services/local_sync_service.py).  A run goes through MAIN once  *)
(* per entity, beside the handlers that write it (Replication), beside     *)
(* other runs, and without any mark on MAIN: it compares the versions that *)
(* LOCAL has with those of MAIN, copies what is new or different, then     *)
(* lists both again and deletes what MAIN no longer has.                   *)
(*                                                                         *)
(* Records are those of one entity: entities share no collection.  A read  *)
(* of a collection is one step; what happens within one read is what may   *)
(* happen to another record before or after it.                            *)
(***************************************************************************)
EXTENDS Replication

CONSTANT Admins      \* administrators' runs that may be under way at once

VARIABLES local,      \* record -> document in LOCAL
          backup,     \* administrator -> where the run stands
          agreed,     \* history: a run alone has succeeded since MAIN last changed
          overlapped, \* history: a run began while another was under way
          muddled     \* history: records of which one version names two contents

backupVars == <<vars, local, backup, agreed, overlapped, muddled>>

-----------------------------------------------------------------------------
(* `pc`: idle, plan, copy, ids, list or drop.  `found`: the versions LOCAL   *)
(* had (0: no copy).  `docs`: MAIN as it was read.  `todo`: the records still *)
(* to copy, or to delete.  `ids`: those of MAIN.  `alone`: MAIN has not       *)
(* changed since the run began, and no other run is or was under way.         *)
IdleBackup == [pc |-> "idle", found |-> [r \in Records |-> 0],
               docs |-> [r \in Records |-> NoDoc], todo |-> {}, ids |-> {},
               alone |-> FALSE]

BackupInit ==
  /\ Init
  /\ local = [r \in Records |-> NoDoc]
  /\ backup = [k \in Admins |-> IdleBackup]
  /\ agreed = FALSE /\ overlapped = FALSE
  /\ muddled = {}

-----------------------------------------------------------------------------
(* A run. *)

Present(store) == {r \in Records : store[r].present}

Versions(store) ==
  [r \in Records |-> IF store[r].present THEN EffectiveVersion(store[r]) ELSE 0]

(* Mutant: copies that exist are left as they are. *)
ToCopy_NewOnly(found, docs) == {r \in Present(docs) : found[r] = 0}

(* build_diff_plan: new in MAIN, or under another version. *)
ToCopy(found, docs) == {r \in Present(docs) : found[r] # Versions(docs)[r]}

(* Mutant: a document without a version is taken for gone. *)
LeftOver_Unversioned(run, copies) == Present(copies) \ {r \in run.ids : copies[r].ver > 0}

(* Copies of documents that are no longer in MAIN. *)
LeftOver(run, copies) == Present(copies) \ run.ids

MainFrame == UNCHANGED <<vars, muddled>>

Proceed(k, run) ==
  backup' = [backup EXCEPT ![k] = run] /\ UNCHANGED <<agreed, overlapped>> /\ MainFrame

End(k) == /\ backup' = [backup EXCEPT ![k] = IdleBackup]
          /\ agreed' = (agreed \/ backup[k].alone)
          /\ UNCHANGED overlapped /\ MainFrame

(* The versions in LOCAL are read.  Nothing keeps a second run from starting. *)
StartBackup(k) ==
  /\ backup[k].pc = "idle"
  /\ backup' = [j \in Admins |->
       IF j = k THEN [IdleBackup EXCEPT !.pc = "plan", !.found = Versions(local),
                        !.alone = \A i \in Admins : backup[i].pc = "idle"]
                ELSE [backup[j] EXCEPT !.alone = FALSE]]
  /\ overlapped' = (overlapped \/ \E i \in Admins : backup[i].pc # "idle")
  /\ UNCHANGED <<local, agreed>> /\ MainFrame

(* MAIN is read.  (The ids it has are read here as well, for a count.) *)
ReadDocuments(k) ==
  LET todo == ToCopy(backup[k].found, main) IN
  /\ backup[k].pc = "plan"
  /\ Proceed(k, [backup[k] EXCEPT !.pc = IF todo = {} THEN "ids" ELSE "copy",
                                  !.docs = [r \in Records |-> IF r \in todo THEN main[r] ELSE NoDoc],
                                  !.found = [r \in Records |-> IF r \in todo THEN @[r] ELSE 0],
                                  !.todo = todo])
  /\ UNCHANGED local

(* replace_one with upsert, what is new first. *)
CopyToLocal(k, r) ==
  LET run  == backup[k]
      rest == run.todo \ {r} IN
  /\ run.pc = "copy" /\ r \in run.todo
  /\ run.found[r] = 0 \/ \A q \in run.todo : run.found[q] # 0
  /\ local' = [local EXCEPT ![r] = run.docs[r]]
  /\ Proceed(k, [run EXCEPT !.todo = rest, !.found[r] = 0, !.docs[r] = NoDoc,
                            !.pc = IF rest = {} THEN "ids" ELSE "copy"])

ReadIds(k) ==
  /\ backup[k].pc = "ids"
  /\ Proceed(k, [backup[k] EXCEPT !.pc = "list", !.ids = Present(main)])
  /\ UNCHANGED local

ListCopies(k) ==
  LET gone == LeftOver(backup[k], local) IN
  /\ backup[k].pc = "list"
  /\ IF gone = {} THEN End(k)
                  ELSE Proceed(k, [backup[k] EXCEPT !.pc = "drop", !.todo = gone, !.ids = {}])
  /\ UNCHANGED local

(* delete_one; after the last one the run is logged. *)
DropCopy(k, r) ==
  LET rest == backup[k].todo \ {r} IN
  /\ backup[k].pc = "drop" /\ r \in backup[k].todo
  /\ local' = [local EXCEPT ![r].present = FALSE]
  /\ IF rest = {} THEN End(k) ELSE Proceed(k, [backup[k] EXCEPT !.todo = rest])

(* LOCAL fails, which ends the work on the entity, or the process dies. *)
BackupFails(k) ==
  /\ backup[k].pc # "idle"
  /\ Proceed(k, IdleBackup)
  /\ UNCHANGED local

BackupStep(k) ==
  \/ ReadDocuments(k) \/ ReadIds(k) \/ ListCopies(k)
  \/ \E r \in Records : CopyToLocal(k, r) \/ DropCopy(k, r)

(* What handlers and replication do.  A version comes to name two contents   *)
(* when an older one is put back (two edits of whole documents at once), when *)
(* a handler dies between its write and its bump, or does not bump at all.    *)
MainSide ==
  /\ Next
  /\ muddled' = muddled
       \cup {r \in Records : main'[r].ver < main[r].ver}
       \cup {r \in Records : main'[r].data # main[r].data /\ handler' = handler}
       \cup {handler[h].rec : h \in {g \in Handlers : /\ handler[g].pc = "bump"
                                                       /\ handler'[g].pc = "idle"}}
  /\ IF main' = main THEN UNCHANGED <<agreed, backup>>
     ELSE /\ agreed' = FALSE
          /\ backup' = [k \in Admins |-> [backup[k] EXCEPT !.alone = FALSE]]
  /\ UNCHANGED <<local, overlapped>>

BackupNext ==
  \/ MainSide
  \/ \E k \in Admins : StartBackup(k) \/ BackupStep(k) \/ BackupFails(k)

BackupSpec == BackupInit /\ [][BackupNext]_backupVars

-----------------------------------------------------------------------------
(* Properties. *)

Unbumped(r) == \E h \in Handlers : handler[h].pc = "bump" /\ handler[h].rec = r

Copied(r) == main[r].present => local[r].data = main[r].data

(* Once a run has gone through alone, and until MAIN changes, LOCAL has      *)
(* exactly the documents of MAIN, whatever failed or overlapping runs had    *)
(* left behind and whatever later runs do; and the contents, too, but for    *)
(* records of which one version names two contents, or whose handler has not *)
(* bumped it yet (the diff is computed on versions).                         *)
BackupMatches ==
  agreed => /\ Present(local) = Present(main)
            /\ \A r \in Records : r \in muddled \/ Unbumped(r) \/ Copied(r)

(* As long as one run at a time is under way, LOCAL keeps to the histories of *)
(* the records as SECONDARY does, beside handlers that write and delete them  *)
(* while the run goes on and runs that died half-way: a copy never goes back  *)
(* to an older content, a document that is in MAIN is never dropped, and one  *)
(* that was dropped never returns.  (Of two runs at once the slower one puts  *)
(* back what it read.)                                                        *)
LocalFeed == INSTANCE ReplicaFeed WITH source <- History(main), replica <- History(local)

OneRunFollows ==
  LocalFeed!Init /\ [][overlapped' \/ LocalFeed!Next]_<<History(main), History(local)>>

=============================================================================
