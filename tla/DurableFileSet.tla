--------------------------- MODULE DurableFileSet ---------------------------
(***************************************************************************)
(* DurableFileSet: staging changes in memory, and unix::commit, which      *)
(* writes the journal, the staged files and the journal again, applies the *)
(* operations in order, writes the committed journal and cleans up.        *)
(***************************************************************************)
EXTENDS PublicationRecovery

CONSTANT MaxTxn     \* bound: transactions that reach commit

ASSUME MaxTxnAssumption == MaxTxn \in Nat

Steps ==
    RecoverySteps \cup {"idle", "open", "stage", "record", "check", "move",
                        "verify", "install", "commit"}

\* The steps that work on the operation idx.
AtOperation ==
    {"rbTarget", "rbBackup", "rbStage", "cleanStage", "cleanBackup", "stage", "check",
     "move", "verify", "install"}

SessionTypeOK ==
    /\ pc \in Steps
    /\ mem \in Journal
    /\ idx \in 0..N + 1
    /\ pc \in AtOperation => idx \in Target
    /\ errs \in {"none", "some"}
    /\ purpose \in {"recovery", "commit", "abort"}
    /\ result \in [kind : {"none", "ok", "rolledBack", "incomplete", "uncertain", "error"},
                   mem : Journal]
    /\ txns \in Nat

(***************************************************************************)
(* TypeOK: every variable has its type, and the index of the loops of      *)
(* commit, rollback_operations and cleanup_committed never leaves the      *)
(* operations it runs over.                                                *)
(***************************************************************************)
TypeOK == StoreTypeOK /\ SessionTypeOK

Init == StoreInit /\ SessionInit

(***************************************************************************)
(* stage_write*, stage_create_mode, stage_remove, stage_commit_marker: the *)
(* target's snapshot becomes the operation's original.  A removal of an    *)
(* absent file and a write of equal bytes stage nothing.                   *)
(***************************************************************************)
Stage ==
    /\ pc = "open" /\ txns < MaxTxn
    /\ \E t \in Target, change \in {"write", "remove"} :
          /\ mem.plan[t] = "keep"
          /\ change = "remove" => ent[t].target # NoFile
          /\ mem' = [mem EXCEPT !.plan[t] = change, !.orig[t] = ent[t].target]
    /\ UNCHANGED <<storeVars, pc, idx, errs, purpose, result, txns>>

\* The file set is dropped, or committed without changes.
Drop ==
    /\ pc = "open"
    /\ UNCHANGED storeVars
    /\ Return("none")

(***************************************************************************)
(* write_journal: the new journal is staged, renamed over the old one and  *)
(* its directory synced.  It fails before the rename, perhaps leaving the  *)
(* staged journal, or after it.                                            *)
(***************************************************************************)
WriteJournal(m) == PutJournal([journal |-> m, stage |-> NoFile], TRUE)

WriteJournalNotRenamed ==
    \E left \in {NoFile, Torn} : PutJournal([jent EXCEPT !.stage = left], FALSE)

WriteJournalNotSynced(m) == PutJournal([journal |-> m, stage |-> NoFile], FALSE)

Rollback ==
    /\ pc' = "rbTarget" /\ idx' = N /\ errs' = "none" /\ purpose' = "abort"
    /\ UNCHANGED <<mem, result, txns>>

(***************************************************************************)
(* The first journal.  A failure here returns at once: no target and no    *)
(* sibling has been touched, but the journal may be there already.         *)
(***************************************************************************)
Prepare ==
    /\ pc = "open" /\ Planned(mem) # {}
    /\ txns' = txns + 1
    /\ LET m == [mem EXCEPT !.txn = txns + 1]
       IN  \/ /\ WriteJournal(m)
              /\ pc' = "stage" /\ mem' = m /\ idx' = 1
              /\ UNCHANGED <<errs, purpose, result>>
           \/ /\ WriteJournalNotRenamed \/ WriteJournalNotSynced(m)
              /\ pc' = "idle" /\ mem' = NoChanges
              /\ \/ Fault /\ result' = [kind |-> "error", mem |-> m]
                 \/ "crash" \in env /\ UNCHANGED result
              /\ UNCHANGED <<idx, errs, purpose>>

(***************************************************************************)
(* write_new_file_mode of one staged file: created, written, synced, read  *)
(* back, and on an error removed again if that works.                      *)
(***************************************************************************)
StageFile ==
    /\ pc = "stage"
    /\ LET next == IF idx = N THEN "record" ELSE "stage"
           put(f, synced) == PutEntry(idx, [ent[idx] EXCEPT !.stage = f], synced)
       IN  IF mem.plan[idx] # "write"
           THEN UNCHANGED storeVars /\ Goto(next, idx + 1)
           ELSE \/ /\ put(mem.txn, TRUE)
                   /\ mem' = [mem EXCEPT !.installed = @ \cup {idx}]
                   /\ pc' = next /\ idx' = idx + 1
                   /\ UNCHANGED <<errs, purpose, result, txns>>
                \/ /\ UNCHANGED storeVars \/ \E f \in {Torn, mem.txn} : put(f, FALSE)
                   /\ Failing(Rollback)

\* The journal again, now with the identity of every staged file.
RecordInstalled ==
    /\ pc = "record"
    /\ \/ WriteJournal(mem) /\ Goto("check", 1)
       \/ /\ WriteJournalNotRenamed \/ WriteJournalNotSynced(mem)
          /\ Failing(Rollback)

(***************************************************************************)
(* apply_operation.  The target must still hold the original; the original *)
(* is renamed to the backup, looked at again and synced; the staged file   *)
(* is renamed to the target and synced.  Neither rename replaces a file.   *)
(***************************************************************************)
Advance(i) ==
    IF i = N THEN Goto("commit", N + 1) ELSE Goto("check", i + 1)

CheckOriginal ==
    /\ pc = "check"
    /\ UNCHANGED storeVars
    /\ IF mem.plan[idx] = "keep" THEN Advance(idx)
       ELSE \/ /\ ent[idx].target = mem.orig[idx]
               /\ Goto(IF mem.orig[idx] = NoFile THEN "install" ELSE "move", idx)
            \/ /\ ent[idx].target # mem.orig[idx] \/ Fault
               /\ Rollback

\* A bug: the original is removed instead of moved to its backup name.
UnlinkOriginal ==
    /\ pc = "move"
    /\ PutEntry(idx, [ent[idx] EXCEPT !.target = NoFile], TRUE)
    /\ IF mem.plan[idx] = "write" THEN Goto("install", idx) ELSE Advance(idx)

MoveToBackup ==
    /\ pc = "move"
    /\ \/ /\ ent[idx].backup = NoFile
          /\ PutEntry(idx, [ent[idx] EXCEPT !.backup = ent[idx].target,
                                            !.target = NoFile], FALSE)
          /\ Goto("verify", idx)
       \/ /\ ent[idx].backup # NoFile \/ Fault
          /\ UNCHANGED storeVars /\ Rollback

VerifyBackup ==
    /\ pc = "verify"
    /\ IF ent[idx].backup = mem.orig[idx]
       THEN \/ /\ PutEntry(idx, ent[idx], TRUE)
               /\ IF mem.plan[idx] = "write" THEN Goto("install", idx) ELSE Advance(idx)
            \/ Fault /\ UNCHANGED storeVars /\ Rollback
       ELSE /\ Rollback
            /\ \/ ent[idx].target = NoFile /\ PutEntry(idx, Restored(idx), FALSE)
               \/ (ent[idx].target # NoFile \/ Fault) /\ UNCHANGED storeVars

Installed(t) == [ent[t] EXCEPT !.target = ent[t].stage, !.stage = NoFile]

\* A bug: installing with a rename that replaces what is at the target.
InstallReplacing ==
    /\ pc = "install"
    /\ IF ent[idx].stage = mem.txn
       THEN PutEntry(idx, Installed(idx), TRUE) /\ Advance(idx)
       ELSE UNCHANGED storeVars /\ Rollback

Install ==
    /\ pc = "install"
    /\ IF ent[idx].stage = mem.txn /\ ent[idx].target = NoFile
       THEN \/ PutEntry(idx, Installed(idx), TRUE) /\ Advance(idx)
            \/ /\ PutEntry(idx, Installed(idx), FALSE) \/ UNCHANGED storeVars
               /\ Failing(Rollback)
       ELSE UNCHANGED storeVars /\ Rollback

(***************************************************************************)
(* The committed journal.  After a failed write the journal is read back:  *)
(* if it is the committed one the outcome is uncertain and everything      *)
(* stays; otherwise, and also when it cannot be read, all is rolled back.  *)
(***************************************************************************)
Commit ==
    /\ pc = "commit"
    /\ LET m == [mem EXCEPT !.state = "Committed"]
           rollback == /\ pc' = "rbTarget" /\ idx' = N /\ errs' = "none"
                       /\ purpose' = "abort" /\ mem' = m
                       /\ UNCHANGED <<result, txns>>
       IN  \/ /\ WriteJournal(m)
              /\ pc' = "cleanStage" /\ idx' = 1 /\ errs' = "none"
              /\ purpose' = "commit" /\ mem' = m
              /\ UNCHANGED <<result, txns>>
           \/ WriteJournalNotRenamed /\ Failing(rollback)
           \/ WriteJournalNotSynced(m) /\ Failing(Return("uncertain"))
           \/ "reread" \in env /\ WriteJournalNotSynced(m) /\ rollback

SessionStep ==
    \/ Stage \/ Drop \/ Prepare \/ StageFile \/ RecordInstalled
    \/ CheckOriginal \/ MoveToBackup \/ VerifyBackup \/ Install \/ Commit
    \/ RecoveryStep

Next == SessionStep \/ Disturbance

Spec == Init /\ [][Next]_vars

-----------------------------------------------------------------------------
(***************************************************************************)
(* Recoverable: whatever has happened so far, what is on disk suffices to  *)
(* finish or to undo the transaction in the journal.  Under a prepared     *)
(* journal every original is still at its target or its backup, under a    *)
(* committed one every target is as the transaction wants it, and without  *)
(* a journal no sibling file is left that nobody would ever clean up.      *)
(* (recover_if_needed, rollback_operation, cleanup_committed)              *)
(***************************************************************************)
PreparedSound(m) ==
    \A t \in Planned(m) :
        \/ ent[t].target = m.orig[t] /\ ent[t].backup = NoFile
        \/ ent[t].backup = m.orig[t] /\ ent[t].target \in {NoFile, m.txn}

CommittedSound(m) ==
    \A t \in Planned(m) : ent[t].target = Desired(m, t)

Recoverable ==
    IF jent.journal = NoFile
    THEN \A t \in Target : ent[t].stage = NoFile /\ ent[t].backup = NoFile
    ELSE IF jent.journal.state = "Prepared" THEN PreparedSound(jent.journal)
                                            ELSE CommittedSound(jent.journal)

Clean(f) == [target |-> f, stage |-> NoFile, backup |-> NoFile]

(***************************************************************************)
(* NothingLost: of a file that a transaction replaces, the old or the new  *)
(* version is always there, at its target or its backup.                   *)
(***************************************************************************)
NothingLost ==
    jent.journal # NoFile =>
        \A t \in Target :
            jent.journal.plan[t] = "write" /\ jent.journal.orig[t] # NoFile =>
                \E f \in {ent[t].target, ent[t].backup} :
                    f \in {jent.journal.orig[t], jent.journal.txn}

(***************************************************************************)
(* OutcomeIsTrue: what commit returned is so.  Ok: every change is in      *)
(* place and neither journal nor siblings are left.  An error after a      *)
(* rollback: every original is back and nothing is left.  An error of the  *)
(* first journal write: no target was touched.  Uncertain: all is in place *)
(* and the committed journal is visible.                                   *)
(***************************************************************************)
OutcomeIsTrue ==
    LET m == result.mem
    IN  /\ result.kind = "ok" =>
              /\ jent.journal = NoFile
              /\ \A t \in Planned(m) : ent[t] = Clean(Desired(m, t))
        /\ result.kind = "rolledBack" =>
              /\ jent.journal = NoFile
              /\ \A t \in Planned(m) : ent[t] = Clean(m.orig[t])
        /\ result.kind = "error" =>
              \A t \in Planned(m) : ent[t] = Clean(m.orig[t])
        /\ result.kind = "uncertain" =>
              /\ jent.journal = [m EXCEPT !.state = "Committed"]
              /\ \A t \in Planned(m) : ent[t].target = Desired(m, t)

(***************************************************************************)
(* OutcomeIsDurable: a power loss right after commit returned Ok, or an    *)
(* error after a rollback, cannot take it back or bring the journal back.  *)
(***************************************************************************)
DurablyClean(t, f) == \A v \in disk[DirOf[t]] : v.ent[t] = Clean(f)

OutcomeIsDurable ==
    result.kind \in {"ok", "rolledBack"} =>
        /\ \A v \in disk[JournalDir] : v.jent.journal = NoFile
        /\ \A t \in Planned(result.mem) :
              DurablyClean(t, IF result.kind = "ok" THEN Desired(result.mem, t)
                                                    ELSE result.mem.orig[t])

(***************************************************************************)
(* GenerationBoundary: stage_commit_marker's promise.  Whoever sees the    *)
(* last target of a transaction with its new content finds every other     *)
(* change of the transaction in place, also while it is rolled back.       *)
(***************************************************************************)
GenerationBoundary ==
    jent.journal # NoFile /\ jent.journal.plan[N] = "write"
        /\ ent[N].target = jent.journal.txn
    => CommittedSound(jent.journal)

(***************************************************************************)
(* MarkerLast: GenerationBoundary, where no call fails: whoever sees the   *)
(* commit marker finds every other change of its transaction in place,     *)
(* whenever a process died or the power was lost.                          *)
(***************************************************************************)
MarkerLast == "fault" \notin env => GenerationBoundary

(***************************************************************************)
(* Atomic: the file set implements AtomicFileSet.  Its value is what the   *)
(* targets hold, except that under a prepared journal it is what rollback  *)
(* restores, and the transaction of that journal is under way.  So all     *)
(* changes of a transaction happen when the committed journal appears, and *)
(* a transaction that does not get there has changed nothing.              *)
(***************************************************************************)
Pending(j) == j # NoFile /\ j.state = "Prepared"

\* The state under journal j when the targets hold "files".
StateUnder(j, files) ==
    [value  |-> [t \in Target |-> IF Pending(j) /\ j.plan[t] # "keep" THEN j.orig[t] ELSE files[t]],
     intent |-> IF Pending(j) THEN [txn |-> j.txn, plan |-> j.plan]
                ELSE [txn |-> 0, plan |-> [t \in Target |-> "keep"]]]

Now == StateUnder(jent.journal, [t \in Target |-> ent[t].target])

\* A power loss changes the journal's directory, and the targets in it.
KeptState(v) ==
    StateUnder(v.jent.journal,
               [t \in Target |-> IF DirOf[t] = JournalDir THEN v.ent[t].target
                                                          ELSE ent[t].target])

AtomicSet == INSTANCE AtomicFileSet
                WITH Txn <- 1..MaxTxn, now <- Now, kept <- {KeptState(v) : v \in disk[JournalDir]}

Atomic == AtomicSet!Spec

(***************************************************************************)
(* ForeignKept: a file that another program put at a target after the      *)
(* transaction had taken its snapshot is never destroyed.  It stays there, *)
(* or is moved aside to the backup and stays.                              *)
(* (apply_operation's no-replace renames and re-checks, rollback's refusal *)
(* of unexpected files)                                                    *)
(***************************************************************************)
ForeignFiles(t) ==
    (IF ent[t].target = Foreign THEN 1 ELSE 0) + (IF ent[t].backup = Foreign THEN 1 ELSE 0)

ForeignKept ==
    [][\A t \in Target : mem.orig[t] # Foreign => ForeignFiles(t) <= ForeignFiles(t)']_vars

(***************************************************************************)
(* OriginalKept: no step of the code destroys the original of a            *)
(* transaction before the committed journal is there, whatever another     *)
(* program does in between.                                                *)
(***************************************************************************)
OriginalKept ==
    [][jent.journal # NoFile /\ jent.journal.state = "Prepared" =>
         \A t \in Planned(jent.journal) :
            jent.journal.orig[t] \in {ent[t].target, ent[t].backup} /\ ~ForeignWrite
              => \/ jent.journal.orig[t] \in {ent[t].target, ent[t].backup}'
                 \/ jent'.journal # NoFile /\ jent'.journal.state = "Committed"]_vars

-----------------------------------------------------------------------------
(***************************************************************************)
(* Liveness.  At some point faults, crashes and power losses end.  Then    *)
(* the session that holds the lock goes on, and some program opens the     *)
(* namespace again.                                                        *)
(***************************************************************************)
CalmDown == env # {} /\ env' = {} /\ UNCHANGED <<ent, jent, disk, sessionVars>>

LiveSpec ==
    /\ Init /\ [][Next \/ CalmDown]_vars
    /\ WF_vars(SessionStep)

(***************************************************************************)
(* RecoveryCompletes: whatever was interrupted, recovery gets rid of the   *)
(* journal once nothing disturbs it any more.                              *)
(***************************************************************************)
RecoveryCompletes == env = {} ~> jent.journal = NoFile
=============================================================================
