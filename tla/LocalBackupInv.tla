----------------------------- MODULE LocalBackupInv -----------------------------
(***************************************************************************)
(* The inductive invariants behind LocalBackup: what versions say of       *)
(* contents, what a run that is alone has done so far, and what one run at *)
(* a time does to the history of a record.                                 *)
(***************************************************************************)
EXTENDS LocalBackup, ReplicationInv

Run == [pc: {"idle", "plan", "copy", "ids", "list", "drop"}, found: [Records -> Nat],
        docs: [Records -> Doc], todo: SUBSET Records, ids: SUBSET Records, alone: BOOLEAN]

BackupTypes ==
  /\ local \in [Records -> Doc]
  /\ backup \in [Admins -> Run]
  /\ agreed \in BOOLEAN /\ overlapped \in BOOLEAN
  /\ muddled \subseteq Records

-----------------------------------------------------------------------------
(* Versions and contents. *)

Unbumps(h, r) == handler[h].pc = "bump" /\ handler[h].rec = r

(* A version, counted from the first content, falls behind the contents only *)
(* as long as handlers have yet to bump it: 0 and 1 are the same to a diff.  *)
VersionsCount ==
  \A r \in Records \ muddled : main[r].present =>
    /\ main[r].ver = 0 => Unbumped(r)
    /\ main[r].ver = 0 /\ main[r].data > 1 =>
         \E g, h \in Handlers : g # h /\ Unbumps(g, r) /\ Unbumps(h, r)
    /\ main[r].ver = 1 /\ main[r].data > 1 => Unbumped(r)

(* A handler that will put back what it read has an old version, once it has *)
(* bumped the version itself.                                                *)
BasesOld ==
  \A h \in Handlers : handler[h].pc # "idle" /\ handler[h].rec \notin muddled =>
    /\ handler[h].base <= main[handler[h].rec].ver
    /\ handler[h].pc = "store" /\ handler[h].kind # "replace" =>
         handler[h].base < main[handler[h].rec].ver

(* A copy is of a content the record has had, and under the version it has    *)
(* now only if it is the content it has now.                                 *)
CopySound(doc, r) ==
  doc.present =>
    /\ 0 < doc.data /\ doc.data <= main[r].data
    /\ r \notin muddled =>
         /\ doc.ver <= main[r].ver
         /\ main[r].present /\ doc.data < main[r].data =>
              doc.ver < main[r].ver \/ Unbumped(r)

CopiesSound ==
  \A r \in Records : /\ CopySound(local[r], r)
                     /\ \A k \in Admins : CopySound(backup[k].docs[r], r)

-----------------------------------------------------------------------------
(* Runs that are alone. *)

UpToDate(r) == Versions(local)[r] = Versions(main)[r]

(* How far a run has come, none other being or having been under way and     *)
(* MAIN being as it was when it began.                                       *)
AloneSoFar(k) ==
  LET run == backup[k] IN
  /\ run.pc = "plan" => run.found = Versions(local)
  /\ run.pc = "copy" => \A r \in Present(main) :
       IF r \in run.todo THEN run.docs[r] = main[r] ELSE UpToDate(r)
  /\ run.pc \in {"ids", "list", "drop"} => \A r \in Present(main) : UpToDate(r)
  /\ run.pc = "list" => run.ids = Present(main)
  /\ run.pc = "drop" => run.todo = Present(local) \ Present(main)

AloneExact ==
  \A k \in Admins : backup[k].alone =>
    /\ \A j \in Admins \ {k} : backup[j].pc = "idle"
    /\ AloneSoFar(k)

(* When LOCAL agrees with MAIN, every run under way has begun since, and      *)
(* finds nothing to do.                                                      *)
AgreedQuiet ==
  agreed =>
    /\ Versions(local) = Versions(main)
    /\ \A k \in Admins :
         /\ backup[k].pc \notin {"copy", "drop"}
         /\ backup[k].pc = "plan" => backup[k].found = Versions(main)
         /\ backup[k].pc = "list" => backup[k].ids = Present(main)

BackupInv == VersionsCount /\ BasesOld /\ CopiesSound /\ AloneExact /\ AgreedQuiet

-----------------------------------------------------------------------------
(* One run at a time. *)

(* LOCAL is behind the record's history, and has dropped no document that     *)
(* MAIN still has.                                                           *)
LocalBehind ==
  \A r \in Records :
    /\ local[r].data <= main[r].data
    /\ local[r].present => local[r].data > 0
    /\ ~local[r].present /\ local[r].data > 0 => Gone(r)

CopiesForward(run) ==
  /\ run.pc = "copy" => \A r \in run.todo :
       /\ run.docs[r].present
       /\ 0 < run.docs[r].data /\ run.docs[r].data <= main[r].data
       /\ local[r].data <= run.docs[r].data
       /\ local[r].present \/ local[r].data = 0
  /\ run.pc = "list" => \A r \in Present(local) \ run.ids : Gone(r)
  /\ run.pc = "drop" => \A r \in run.todo : Gone(r)

OneRunInv ==
  overlapped \/ /\ \A j, k \in Admins : backup[j].pc # "idle" /\ backup[k].pc # "idle" => j = k
                /\ LocalBehind
                /\ \A k \in Admins : CopiesForward(backup[k])
=============================================================================
