------------------------- MODULE PublicationRecovery -------------------------
(***************************************************************************)
(* One session under the journal's lock: opening it with recover_if_needed,*)
(* rolling operations back, cleaning up a committed transaction, removing  *)
(* the journal, and the death of the process.  lock_for_journal blocks in  *)
(* flock, which the kernel drops with the descriptor, so there is one      *)
(* session at a time and the model needs only its state.  The next session *)
(* may belong to any process.                                              *)
(*                                                                         *)
(* A system call followed by fsync is one action with three outcomes: both *)
(* succeed, nothing happened, or the change is there but not synced.  In   *)
(* the last two a call has failed, or the process has died at that point.  *)
(***************************************************************************)
EXTENDS PublicationStore

VARIABLES
    pc,       \* where the session is; "idle": the lock is free
    mem,      \* the session's Journal value
    idx,      \* the operation being worked on
    errs,     \* whether rollback or cleanup steps reported errors
    purpose,  \* what rollback or cleanup serves: "recovery", a "commit" that
              \* succeeded, or a commit that failed and must "abort"
    result,   \* what the last session returned, with its Journal value
    txns      \* transactions begun so far

sessionVars == <<pc, mem, idx, errs, purpose, result, txns>>

vars == <<ent, jent, disk, env, pc, mem, idx, errs, purpose, result, txns>>

NoChanges ==
    [state |-> "Prepared", txn |-> 0, plan |-> [t \in Target |-> "keep"],
     orig |-> [t \in Target |-> NoFile], installed |-> {}]

RecoverySteps ==
    {"recover", "rbTarget", "rbBackup", "rbStage", "cleanStage", "cleanBackup", "finish"}

SessionInit ==
    /\ pc = "idle" /\ mem = NoChanges /\ idx = 0 /\ errs = "none"
    /\ purpose = "recovery" /\ txns = 0
    /\ result = [kind |-> "none", mem |-> NoChanges]

Planned(m) == {t \in Target : m.plan[t] # "keep"}

\* What snapshot_matches(.., installed, desired_digest, desired_mode) compares with.
Desired(m, t) == IF m.plan[t] = "write" THEN m.txn ELSE NoFile

\* The lock is dropped and the call returns.
Return(kind) ==
    /\ pc' = "idle" /\ mem' = NoChanges /\ idx' = 0 /\ errs' = "none"
    /\ purpose' = "recovery"
    /\ result' = [kind |-> kind, mem |-> mem]
    /\ txns' = txns

(***************************************************************************)
(* The process dies: the kernel drops the lock and keeps the files.        *)
(***************************************************************************)
Die ==
    /\ pc' = "idle" /\ mem' = NoChanges /\ idx' = 0 /\ errs' = "none"
    /\ purpose' = "recovery"
    /\ result' = [kind |-> "none", mem |-> NoChanges]
    /\ txns' = txns

\* A call failed and the session goes on with "onError", or it ended here.
Failing(onError) ==
    \/ Fault /\ onError
    \/ "crash" \in env /\ Die

Goto(step, i) ==
    /\ pc' = step /\ idx' = i
    /\ UNCHANGED <<mem, errs, purpose, result, txns>>

GotoErr(step, i, failed) ==
    /\ pc' = step /\ idx' = i /\ errs' = IF failed THEN "some" ELSE errs
    /\ UNCHANGED <<mem, purpose, result, txns>>

(***************************************************************************)
(* DurableFileSet::new and the other entry points: lock_for_journal.       *)
(***************************************************************************)
Lock ==
    /\ pc = "idle"
    /\ pc' = "recover"
    /\ result' = [kind |-> "none", mem |-> NoChanges]
    /\ UNCHANGED <<storeVars, mem, idx, errs, purpose, txns>>

\* A bug: every journal is taken for a committed one.
StartRecoveryAlwaysCleans ==
    /\ pc = "recover"
    /\ IF jent.stage = NoFile THEN UNCHANGED storeVars
       ELSE PutJournal([jent EXCEPT !.stage = NoFile], TRUE)
    /\ purpose' = "recovery" /\ errs' = "none"
    /\ UNCHANGED <<result, txns>>
    /\ IF jent.journal = NoFile
       THEN pc' = "open" /\ mem' = NoChanges /\ idx' = 0
       ELSE pc' = "cleanStage" /\ mem' = jent.journal /\ idx' = 1

(***************************************************************************)
(* The head of recover_if_needed.  A leftover staged journal is removed;   *)
(* then the journal decides: none, roll back, or clean up.                 *)
(***************************************************************************)
StartRecovery ==
    /\ pc = "recover"
    /\ IF jent.stage = NoFile THEN UNCHANGED storeVars
       ELSE PutJournal([jent EXCEPT !.stage = NoFile], TRUE)
    /\ purpose' = "recovery" /\ errs' = "none"
    /\ UNCHANGED <<result, txns>>
    /\ \/ /\ jent.journal = NoFile
          /\ pc' = "open" /\ mem' = NoChanges /\ idx' = 0
       \/ /\ jent.journal # NoFile
          /\ mem' = jent.journal
          /\ IF jent.journal.state = "Prepared"
             THEN pc' = "rbTarget" /\ idx' = N
             ELSE pc' = "cleanStage" /\ idx' = 1

StartRecoveryFails ==
    /\ pc = "recover"
    /\ \/ UNCHANGED storeVars
       \/ jent.stage # NoFile /\ PutJournal([jent EXCEPT !.stage = NoFile], FALSE)
    /\ Failing(Return("error"))

\* A bug: the error of a failed removal is not collected.
UnlinkErrorLost(t, name, step, i) ==
    \E synced \in BOOLEAN :
        /\ \/ PutEntry(t, [ent[t] EXCEPT ![name] = NoFile], synced)
           \/ Fault /\ UNCHANGED storeVars
        /\ GotoErr(step, i, FALSE)

(***************************************************************************)
(* remove_at_exact_mode on a sibling or a target of t, after its snapshot  *)
(* was found to match: unlinkat and fsync.  The name that is removed and   *)
(* the next step are the caller's.                                         *)
(***************************************************************************)
Unlink(t, name, step, i) ==
    LET gone == [ent[t] EXCEPT ![name] = NoFile]
    IN  \/ PutEntry(t, gone, TRUE) /\ GotoErr(step, i, FALSE)
        \/ /\ PutEntry(t, gone, FALSE) \/ UNCHANGED storeVars
           /\ Failing(GotoErr(step, i, TRUE))

\* Nothing is changed.  Reading the names may fail, which is reported too.
Report(step, i, failed) ==
    /\ UNCHANGED storeVars
    /\ GotoErr(step, i, failed) \/ (Fault /\ GotoErr(step, i, TRUE))

(***************************************************************************)
(* rollback_operations goes through the operations from the last to the    *)
(* first.  An operation whose directory cannot be examined is left alone.  *)
(***************************************************************************)
RollbackNext == IF idx = 1 THEN "finish" ELSE "rbTarget"

RollbackSkip ==
    /\ pc = "rbTarget"
    /\ UNCHANGED storeVars
    /\ \/ idx \notin Planned(mem) /\ Goto(RollbackNext, idx - 1)
       \/ idx \in Planned(mem) /\ Fault /\ GotoErr(RollbackNext, idx - 1, TRUE)

(***************************************************************************)
(* rollback_operation, first part: the installed file is removed from the  *)
(* target.  The match arm for an installed target also catches the absent  *)
(* target of an applied removal, and reports it.                           *)
(***************************************************************************)
TargetMatchesInstalled(m, t) ==
    \/ m.plan[t] = "write" /\ t \in m.installed /\ ent[t].target = m.txn
    \/ m.plan[t] = "remove" /\ ent[t].target = NoFile

\* A bug: the rollback leaves files that replaced nothing.
RollbackTargetOnlyReplaced ==
    /\ pc = "rbTarget" /\ idx \in Planned(mem)
    /\ IF TargetMatchesInstalled(mem, idx) /\ mem.orig[idx] # NoFile
       THEN Unlink(idx, "target", "rbBackup", idx)
       ELSE Report("rbBackup", idx, FALSE)

RollbackTarget ==
    /\ pc = "rbTarget" /\ idx \in Planned(mem)
    /\ IF TargetMatchesInstalled(mem, idx) /\ mem.plan[idx] = "write"
       THEN Unlink(idx, "target", "rbBackup", idx)
       ELSE Report("rbBackup", idx,
                   \/ TargetMatchesInstalled(mem, idx)
                   \/ ent[idx].target \notin {NoFile, mem.orig[idx]})

(***************************************************************************)
(* rollback_operation, second part: the backup goes back to the target.    *)
(***************************************************************************)
Restored(t) == [ent[t] EXCEPT !.target = ent[t].backup, !.backup = NoFile]

\* A bug: a backup that was already moved back counts as missing.
RollbackBackupNotRepeatable ==
    /\ pc = "rbBackup"
    /\ IF /\ mem.orig[idx] # NoFile /\ ent[idx].backup = mem.orig[idx]
          /\ ent[idx].target = NoFile
       THEN PutEntry(idx, Restored(idx), TRUE) /\ GotoErr("rbStage", idx, FALSE)
       ELSE Report("rbStage", idx, mem.orig[idx] # NoFile)

RollbackBackup ==
    /\ pc = "rbBackup"
    /\ IF mem.orig[idx] # NoFile /\ ent[idx].backup = mem.orig[idx]
             /\ ent[idx].target = NoFile
       THEN \/ PutEntry(idx, Restored(idx), TRUE) /\ GotoErr("rbStage", idx, FALSE)
            \/ /\ PutEntry(idx, Restored(idx), FALSE) \/ UNCHANGED storeVars
               /\ Failing(GotoErr("rbStage", idx, TRUE))
       ELSE Report("rbStage", idx,
                   /\ mem.orig[idx] # NoFile
                   /\ ~(/\ ent[idx].target = mem.orig[idx]
                         /\ ent[idx].backup \in {NoFile, mem.orig[idx]}))

(***************************************************************************)
(* remove_owned_stage: exactly the recorded file, or whatever is there     *)
(* when the journal has no identity for it.                                *)
(***************************************************************************)
RemoveOwnedStage(t, step, i) ==
    \/ mem.plan[t] # "write" /\ UNCHANGED storeVars /\ Goto(step, i)
    \/ /\ mem.plan[t] = "write"
       /\ IF ent[t].stage # NoFile /\ (t \in mem.installed => ent[t].stage = mem.txn)
          THEN Unlink(t, "stage", step, i)
          ELSE Report(step, i, ent[t].stage # NoFile)

RollbackStage ==
    /\ pc = "rbStage"
    /\ RemoveOwnedStage(idx, RollbackNext, idx - 1)

(***************************************************************************)
(* cleanup_committed: the staged files, then the backups.                  *)
(***************************************************************************)
CleanStage ==
    /\ pc = "cleanStage"
    /\ RemoveOwnedStage(idx, IF idx = N THEN "cleanBackup" ELSE "cleanStage",
                        IF idx = N THEN 1 ELSE idx + 1)

CleanBackup ==
    /\ pc = "cleanBackup"
    /\ LET step == IF idx = N THEN "finish" ELSE "cleanBackup"
           i    == IF idx = N THEN 0 ELSE idx + 1
       IN  \/ mem.orig[idx] = NoFile /\ UNCHANGED storeVars /\ Goto(step, i)
           \/ /\ mem.orig[idx] # NoFile
              /\ IF ent[idx].backup = mem.orig[idx]
                 THEN Unlink(idx, "backup", step, i)
                 ELSE Report(step, i, ent[idx].backup # NoFile)

(***************************************************************************)
(* What follows: with errors the journal stays.  Without, it is removed    *)
(* (after a leftover staged journal, when a commit aborts), and recovery   *)
(* goes on to open the file set while commit returns.                      *)
(***************************************************************************)
FinishWithErrors ==
    /\ pc = "finish" /\ errs = "some"
    /\ UNCHANGED storeVars
    /\ Return("incomplete")

\* A bug: the journal goes although the rollback collected errors.
RemoveJournalDespiteErrors ==
    /\ pc = "finish"
    /\ PutJournal([journal |-> NoFile, stage |-> NoFile], TRUE)
    /\ IF purpose = "recovery"
       THEN /\ pc' = "open" /\ mem' = NoChanges /\ idx' = 0
            /\ UNCHANGED <<errs, purpose, result, txns>>
       ELSE Return(IF purpose = "commit" THEN "ok" ELSE "rolledBack")

\* A bug: the directory is not synced once the journal is removed.
RemoveJournalUnsynced ==
    /\ pc = "finish" /\ errs = "none"
    /\ PutJournal([journal |-> NoFile, stage |-> NoFile], FALSE)
    /\ IF purpose = "recovery"
       THEN /\ pc' = "open" /\ mem' = NoChanges /\ idx' = 0
            /\ UNCHANGED <<errs, purpose, result, txns>>
       ELSE Return(IF purpose = "commit" THEN "ok" ELSE "rolledBack")

RemoveJournal ==
    /\ pc = "finish" /\ errs = "none"
    /\ PutJournal([journal |-> NoFile, stage |-> NoFile], TRUE)
    /\ IF purpose = "recovery"
       THEN /\ pc' = "open" /\ mem' = NoChanges /\ idx' = 0
            /\ UNCHANGED <<errs, purpose, result, txns>>
       ELSE Return(IF purpose = "commit" THEN "ok" ELSE "rolledBack")

RemoveJournalFails ==
    /\ pc = "finish" /\ errs = "none"
    /\ \/ UNCHANGED storeVars
       \/ \E j \in {jent.journal, NoFile} :
              PutJournal([journal |-> j, stage |-> NoFile], FALSE)
    /\ Failing(Return("incomplete"))

\* The process dies between two actions.
Crash ==
    /\ "crash" \in env /\ pc # "idle"
    /\ UNCHANGED storeVars
    /\ Die

PowerLoss ==
    /\ "powerloss" \in env
    /\ StorePowerLoss
    /\ Die

Interfere ==
    ForeignWrite /\ UNCHANGED sessionVars

RecoveryStep ==
    \/ Lock \/ StartRecovery \/ StartRecoveryFails
    \/ RollbackTarget \/ RollbackBackup \/ RollbackStage \/ RollbackSkip
    \/ CleanStage \/ CleanBackup
    \/ FinishWithErrors \/ RemoveJournal \/ RemoveJournalFails

Disturbance == Crash \/ PowerLoss \/ Interfere
=============================================================================
