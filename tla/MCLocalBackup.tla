----------------------------- MODULE MCLocalBackup -----------------------------
(* Instances of LocalBackup for TLC. *)
EXTENDS LocalBackupInv, TLC

(* Request slots and administrators are interchangeable. *)
Slots == Permutations(Handlers) \cup Permutations(Admins)

(* What backups can tell apart.  The queue is written by handlers that have  *)
(* bumped, which nothing here reads without workers; so are what they queue,  *)
(* and the version that only the writers of whole documents put back.        *)
Seen ==
  <<main, local, backup, agreed, overlapped, muddled, faultCount,
    [h \in Handlers |->
       CASE handler[h].pc = "idle"              -> <<>>
         [] handler[h].pc = "store"             -> <<handler[h].rec, handler[h].kind,
                                                     handler[h].base>>
         [] handler[h].pc \in {"bump", "remove"} -> <<handler[h].rec, handler[h].kind,
                                                     handler[h].pc>>
         [] OTHER                               -> <<handler[h].pc>>]>>
================================================================================
