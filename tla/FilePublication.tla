--------------------------- MODULE FilePublication ---------------------------
(***************************************************************************)
(* publish_atomic_file: one target, published without replacing anything   *)
(* (publish_file_noclobber) or in place of exactly the file its caller has *)
(* measured (AtomicFilePolicy::ReplaceIf, a DurableFileSet of one file).   *)
(* Both use the same journal, so a session of the one recovers what a      *)
(* session of the other has left.                                          *)
(*                                                                         *)
(* A no-clobber publication writes the committed journal before its rename *)
(* and a replacement after it: under the same journal state recovery finds *)
(* different files.                                                        *)
(***************************************************************************)
EXTENDS DurableFileSet

OneTarget == N = 1

VARIABLE
    want      \* the file that the caller of ReplaceIf has measured

fileVars == <<vars, want>>

NewSteps ==
    {"announce", "stageNew", "recordNew", "markNew", "renameNew", "verifyNew", "cleanup",
     "cas", "recheck"}

target == ent[1].target

(***************************************************************************)
(* FileTypeOK: every variable has its type.                                *)
(***************************************************************************)
FileTypeOK ==
    /\ StoreTypeOK
    /\ pc \in Steps \cup NewSteps
    /\ mem \in Journal /\ idx \in 0..2 /\ errs \in {"none", "some"}
    /\ purpose \in {"recovery", "commit", "abort"}
    /\ result \in [kind : {"none", "ok", "rolledBack", "incomplete", "uncertain", "error",
                           "exists", "conflict"},
                   mem : Journal]
    /\ txns \in Nat
    /\ want \in Content

FileInit == Init /\ want = NoFile

-----------------------------------------------------------------------------
(***************************************************************************)
(* publish_file_noclobber, once the journal's lock is held and recovery is *)
(* done.                                                                   *)
(***************************************************************************)
Opened == pc = "open" /\ Planned(mem) = {} /\ txns < MaxTxn

CheckAbsent ==
    /\ Opened
    /\ UNCHANGED <<storeVars, want>>
    /\ IF target = NoFile THEN Goto("announce", 1) ELSE Return("exists")

\* The prepared journal.  A failure returns at once.
Announce ==
    /\ pc = "announce"
    /\ txns' = txns + 1 /\ UNCHANGED want
    /\ LET m == [NoChanges EXCEPT !.txn = txns + 1, !.plan[1] = "write"]
       IN  \/ /\ WriteJournal(m)
              /\ pc' = "stageNew" /\ mem' = m
              /\ UNCHANGED <<idx, errs, purpose, result>>
           \/ /\ WriteJournalNotRenamed \/ WriteJournalNotSynced(m)
              /\ pc' = "idle" /\ mem' = NoChanges /\ idx' = 0
              /\ \/ Fault /\ result' = [kind |-> "error", mem |-> m]
                 \/ "crash" \in env /\ UNCHANGED result
              /\ UNCHANGED <<errs, purpose>>

\* write_new_file: the staged file is written, synced and read back.
StageNew ==
    /\ pc = "stageNew" /\ UNCHANGED want
    /\ LET put(f, synced) == PutEntry(1, [ent[1] EXCEPT !.stage = f], synced)
       IN  \/ /\ put(mem.txn, TRUE)
              /\ mem' = [mem EXCEPT !.installed = {1}]
              /\ pc' = "recordNew"
              /\ UNCHANGED <<idx, errs, purpose, result, txns>>
           \/ /\ UNCHANGED storeVars \/ \E f \in {Torn, mem.txn} : put(f, FALSE)
              /\ Failing(Rollback)

RecordNew ==
    /\ pc = "recordNew" /\ UNCHANGED want
    /\ \/ WriteJournal(mem) /\ Goto("markNew", 1)
       \/ /\ WriteJournalNotRenamed \/ WriteJournalNotSynced(mem)
          /\ Failing(Rollback)

(***************************************************************************)
(* The committed journal, before the rename: from here on recovery only    *)
(* cleans up, and never takes the target for something to be undone.       *)
(***************************************************************************)
MarkNew ==
    /\ pc = "markNew" /\ UNCHANGED want
    /\ LET m == [mem EXCEPT !.state = "Committed"]
           go(step) == /\ mem' = m /\ pc' = step
                       /\ UNCHANGED <<idx, errs, purpose, result, txns>>
       IN  \/ WriteJournal(m) /\ go("renameNew")
           \/ /\ WriteJournalNotRenamed \/ WriteJournalNotSynced(m)
              /\ Failing(go("cleanup"))

\* rename_noclobber.  The staged file's directory is opened first, with "?".
RenameNew ==
    /\ pc = "renameNew" /\ UNCHANGED want
    /\ \/ Fault /\ UNCHANGED storeVars /\ Return("error")
       \/ /\ ent[1].stage = mem.txn /\ target = NoFile
          /\ PutEntry(1, Installed(1), FALSE) /\ Goto("verifyNew", 1)
       \/ /\ Fault \/ target # NoFile
          /\ UNCHANGED storeVars /\ Goto("cleanup", 1)

\* A bug: every error after the rename is taken for a failed rename.
VerifyNewOrCleanUp ==
    /\ pc = "verifyNew" /\ UNCHANGED want
    /\ \/ /\ target = mem.txn
          /\ PutEntry(1, ent[1], TRUE)
          /\ pc' = "cleanStage" /\ idx' = 1 /\ errs' = "none" /\ purpose' = "commit"
          /\ UNCHANGED <<mem, result, txns>>
       \/ Fault /\ UNCHANGED storeVars /\ Goto("cleanup", 1)

(***************************************************************************)
(* The target is read back and its directory synced.  On an error the      *)
(* outcome is uncertain if the target is still the published file.  If not,*)
(* or if that cannot be seen ("reread"), only the cleanup is run.          *)
(***************************************************************************)
VerifyNew ==
    /\ pc = "verifyNew" /\ UNCHANGED want
    /\ \/ /\ target = mem.txn
          /\ PutEntry(1, ent[1], TRUE)
          /\ pc' = "cleanStage" /\ idx' = 1 /\ errs' = "none" /\ purpose' = "commit"
          /\ UNCHANGED <<mem, result, txns>>
       \/ /\ Fault /\ UNCHANGED storeVars
          /\ IF target = mem.txn THEN Return("uncertain") ELSE Goto("cleanup", 1)
       \/ /\ target # mem.txn \/ "reread" \in env
          /\ UNCHANGED storeVars /\ Goto("cleanup", 1)

(***************************************************************************)
(* finish_cleanup_only_publication: recover_if_needed, and then the error  *)
(* that led here.                                                          *)
(***************************************************************************)
CleanupOnly ==
    /\ pc = "cleanup" /\ UNCHANGED want
    /\ \/ /\ IF jent.stage = NoFile THEN UNCHANGED storeVars
             ELSE PutJournal([jent EXCEPT !.stage = NoFile], TRUE)
          /\ IF jent.journal.state = "Prepared"
             THEN pc' = "rbTarget" /\ idx' = 1 ELSE pc' = "cleanStage" /\ idx' = 1
          /\ mem' = jent.journal /\ purpose' = "abort" /\ errs' = "none"
          /\ UNCHANGED <<result, txns>>
       \/ /\ \/ UNCHANGED storeVars
             \/ jent.stage # NoFile /\ PutJournal([jent EXCEPT !.stage = NoFile], FALSE)
          /\ Failing(Return("incomplete"))

\* The journal of a finished publication cannot be read: "?" again.
JournalUnread ==
    /\ pc = "finish" /\ errs = "none" /\ purpose = "commit" /\ mem.orig[1] = NoFile
    /\ Fault /\ UNCHANGED <<storeVars, want>>
    /\ Return("error")

-----------------------------------------------------------------------------
(***************************************************************************)
(* ReplaceIf: the target is compared with what the caller has measured,    *)
(* staged, compared again and committed.                                   *)
(***************************************************************************)
Compare ==
    /\ Opened
    /\ UNCHANGED storeVars
    /\ \E w \in (0..txns) \cup {Foreign} :
          /\ want' = w
          /\ IF target = w THEN Goto("cas", 1) ELSE Return("conflict")

StageReplacement ==
    /\ pc = "cas"
    /\ mem' = [mem EXCEPT !.plan[1] = "write", !.orig[1] = target]
    /\ pc' = "recheck"
    /\ UNCHANGED <<storeVars, want, idx, errs, purpose, result, txns>>

Recheck ==
    /\ pc = "recheck"
    /\ UNCHANGED <<storeVars, want>>
    /\ IF target = want THEN Goto("open", 0) ELSE Return("conflict")

\* commit, as in DurableFileSet.
CommitReplacement ==
    /\ \/ Prepare \/ StageFile \/ RecordInstalled \/ CheckOriginal
       \/ MoveToBackup \/ VerifyBackup \/ Install \/ Commit
    /\ UNCHANGED want

-----------------------------------------------------------------------------
\* Another program creates or replaces the target, once; the siblings are private.
OtherWrites ==
    LET e == [ent EXCEPT ![1].target = Foreign]
    IN  /\ "foreign" \in env
        /\ ent' = e /\ disk' = After(DirOf[1], e, jent, FALSE)
        /\ env' = env \ {"foreign"}
        /\ UNCHANGED <<jent, sessionVars, want>>

FilePowerLoss == PowerLoss /\ UNCHANGED want

FileNext ==
    \/ CheckAbsent \/ Announce \/ StageNew \/ RecordNew \/ MarkNew
    \/ RenameNew \/ VerifyNew \/ CleanupOnly \/ JournalUnread
    \/ Compare \/ StageReplacement \/ Recheck \/ CommitReplacement
    \/ RecoveryStep /\ UNCHANGED want
    \/ Crash /\ UNCHANGED want
    \/ OtherWrites \/ FilePowerLoss

FileSpec == FileInit /\ [][FileNext]_fileVars

-----------------------------------------------------------------------------
(***************************************************************************)
(* PublishedStays: no session ever takes away or replaces a file at the    *)
(* target, however it died before and whoever recovers it, except under    *)
(* the journal of a replacement; and what a replacement has moved aside    *)
(* when the new file appears is the file that the caller of ReplaceIf has  *)
(* measured.                                                               *)
(* (the committed journal before the rename in publish_file_noclobber, the *)
(* re-check of the condition after the move in publish_atomic_file)        *)
(***************************************************************************)
PublishedStays ==
    [][/\ target # NoFile /\ target' # target =>
             \/ OtherWrites \/ FilePowerLoss
             \/ jent.journal # NoFile /\ jent.journal.orig[1] # NoFile
       /\ pc = "install" /\ target' = mem.txn => ent[1].backup = want]_fileVars

(***************************************************************************)
(* FileOutcome: what publish_atomic_file returned is so when it returns.   *)
(* Ok: the file is complete at the target, also after a power loss, and    *)
(* nothing else is left.  A plain error after cleanup or rollback: it is   *)
(* not at the target (unless the look at the published file failed, which  *)
(* is reported so too).  Uncertain: it is, or another program replaced it. *)
(* Conflict and existing target: no journal and no sibling is left.        *)
(***************************************************************************)
Quiet == jent.journal = NoFile /\ ent[1].stage = NoFile /\ ent[1].backup = NoFile

Returns == pc # "idle" /\ pc' = "idle" /\ result'.kind # "none"

FileOutcome ==
    [][Returns =>
        LET m == result'.mem
        IN  /\ result'.kind = "ok" =>
                  /\ Quiet' /\ target' \in {m.txn, Foreign}
                  /\ \A v \in disk'[JournalDir] :
                        v.jent.journal = NoFile /\ v.ent[1].target \in {m.txn, Foreign}
            /\ result'.kind = "rolledBack" =>
                  Quiet' /\ (target' # m.txn \/ "reread" \in env)
            /\ result'.kind = "uncertain" => target' \in {m.txn, Foreign}
            /\ result'.kind \in {"conflict", "exists"} => Quiet']_fileVars
=============================================================================
