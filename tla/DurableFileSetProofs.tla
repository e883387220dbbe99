------------------------ MODULE DurableFileSetProofs ------------------------
(***************************************************************************)
(* Machine-checked proofs about DurableFileSet, for any number of targets, *)
(* any directories and any number of transactions: type correctness in any *)
(* environment; what holds when another program writes at every name at    *)
(* any time (ForeignKept, OriginalKept); and the lemmas on what a step     *)
(* does to the contents of the journal's directory, to the visible state   *)
(* and to the commit marker, from which DurableFileSetRefinement takes its *)
(* theorems.                                                               *)
(***************************************************************************)
EXTENDS DurableFileSetInv, TLAPS

-----------------------------------------------------------------------------
(***************************************************************************)
(* Type correctness.                                                       *)
(***************************************************************************)

\* The empty journal value a session starts with is a journal.
LEMMA NoChangesType == NoChanges \in Journal
  BY Zenon DEF NoChanges, Journal, Content

\* The contents of a directory have the type of that directory's contents.
LEMMA ViewHasType ==
    ASSUME NEW d \in Dir, NEW e \in [Target -> Entry], NEW j \in JournalEntry
    PROVE  View(d, e, j) \in ViewType(d)
  BY Zenon DEF View, ViewType, TargetsIn

\* A change of one name of a target keeps the store's type.
LEMMA PutEntryType ==
    ASSUME StoreTypeOK, NEW t \in Target, NEW e \in Entry, NEW synced \in BOOLEAN,
           PutEntry(t, e, synced)
    PROVE  StoreTypeOK'
<1> DEFINE new == [ent EXCEPT ![t] = e]
<1>1. new \in [Target -> Entry] /\ jent \in JournalEntry
  BY Zenon DEF StoreTypeOK
<1>2. DirOf[t] \in Dir
  BY StoreAssumption, Zenon
<1>3. View(DirOf[t], new, jent) \in ViewType(DirOf[t])
  BY <1>1, <1>2, ViewHasType, ZenonT(40)
<1>4. disk' = [disk EXCEPT ![DirOf[t]] = IF synced THEN {View(DirOf[t], new, jent)}
                                         ELSE @ \cup {View(DirOf[t], new, jent)}]
  BY Zenon DEF PutEntry, After
<1> HIDE DEF new
<1>5. disk' = [d \in Dir |-> disk'[d]]
  BY <1>2, <1>4, ZenonT(40) DEF StoreTypeOK
<1>6. \A d \in Dir : disk'[d] \subseteq ViewType(d)
  BY <1>2, <1>3, <1>4, Zenon DEF StoreTypeOK
<1>7. ent' = new /\ jent' = jent /\ env' = env
  BY Zenon DEF PutEntry, new
<1> QED
  BY <1>1, <1>5, <1>6, <1>7, Zenon DEF StoreTypeOK

\* A change of the journal's names keeps the store's type.
LEMMA PutJournalType ==
    ASSUME StoreTypeOK, NEW j \in JournalEntry, NEW synced \in BOOLEAN,
           PutJournal(j, synced)
    PROVE  StoreTypeOK'
<1>1. View(JournalDir, ent, j) \in ViewType(JournalDir)
  BY ViewHasType, StoreAssumption, Zenon DEF StoreTypeOK
<1>2. disk' = [disk EXCEPT ![JournalDir] = IF synced THEN {View(JournalDir, ent, j)}
                                           ELSE @ \cup {View(JournalDir, ent, j)}]
  BY Zenon DEF PutJournal, After
<1>3. disk' = [d \in Dir |-> disk'[d]]
  BY <1>2, StoreAssumption, Zenon DEF StoreTypeOK
<1>4. \A d \in Dir : disk'[d] \subseteq ViewType(d)
  BY <1>1, <1>2, StoreAssumption, Zenon DEF StoreTypeOK
<1> QED
  BY <1>3, <1>4, Zenon DEF PutJournal, StoreTypeOK

\* A power loss leaves contents that the directories had before.
LEMMA PowerLossType ==
    ASSUME StoreTypeOK, StorePowerLoss
    PROVE  StoreTypeOK'
<1>1. PICK kept \in [Dir -> UNION {disk[d] : d \in Dir}] :
          /\ \A d \in Dir : kept[d] \in disk[d]
          /\ ent' = [t \in Target |-> kept[DirOf[t]].ent[t]]
          /\ jent' = kept[JournalDir].jent
          /\ disk' = [d \in Dir |-> {kept[d]}]
          /\ env' = env
  BY Zenon DEF StorePowerLoss
<1>2. \A d \in Dir : kept[d] \in ViewType(d)
  BY <1>1, Zenon DEF StoreTypeOK
<1>3. jent' \in JournalEntry
  BY <1>1, <1>2, StoreAssumption, Zenon DEF ViewType
<1>4. ASSUME NEW t \in Target PROVE kept[DirOf[t]].ent[t] \in Entry
  BY <1>2, StoreAssumption, ZenonT(40) DEF ViewType, TargetsIn
<1>5. ent' \in [Target -> Entry]
  BY <1>1, <1>4, Zenon
<1>6. disk' = [d \in Dir |-> disk'[d]] /\ \A d \in Dir : disk'[d] \subseteq ViewType(d)
  BY <1>1, <1>2, Zenon
<1> QED
  BY <1>1, <1>3, <1>5, <1>6, Zenon DEF StoreTypeOK

\* The ways a session step ends keep the session's type.
LEMMA ReturnType ==
    ASSUME SessionTypeOK,
           NEW kind \in {"none", "ok", "rolledBack", "incomplete", "uncertain", "error"},
           Return(kind)
    PROVE  SessionTypeOK'
  BY NoChangesType, StoreAssumption DEF Return, SessionTypeOK, Steps, AtOperation

\* A process that dies leaves the session in its initial state.
LEMMA DieType == ASSUME SessionTypeOK, Die PROVE SessionTypeOK'
  BY NoChangesType, StoreAssumption DEF Die, SessionTypeOK, Steps, AtOperation, Target

\* Moving to another step, with or without an error to report.
LEMMA GotoErrType ==
    ASSUME SessionTypeOK, NEW step \in Steps, NEW i \in 0..N + 1,
           step \in AtOperation => i \in Target,
           NEW failed \in BOOLEAN, GotoErr(step, i, failed)
    PROVE  SessionTypeOK'
  BY Zenon DEF GotoErr, SessionTypeOK

\* Moving to another step.
LEMMA GotoType ==
    ASSUME SessionTypeOK, NEW step \in Steps, NEW i \in 0..N + 1,
           step \in AtOperation => i \in Target, Goto(step, i)
    PROVE  SessionTypeOK'
  BY Zenon DEF Goto, SessionTypeOK

\* Turning to the rollback.
LEMMA RollbackType == ASSUME SessionTypeOK, Rollback PROVE SessionTypeOK'
  BY StoreAssumption DEF Rollback, SessionTypeOK, Steps, RecoverySteps, AtOperation, Target

\* The store keeps its type when nothing is written.
LEMMA StoreUnchangedType == ASSUME StoreTypeOK, UNCHANGED storeVars PROVE StoreTypeOK'
  BY Zenon DEF StoreTypeOK, storeVars, ViewType

\* Removing one name of a target, or reporting, and going on with the next step.
LEMMA UnlinkType ==
    ASSUME TypeOK, NEW t \in Target, NEW name \in {"target", "stage", "backup"},
           NEW step \in Steps, NEW i \in 0..N + 1, step \in AtOperation => i \in Target,
           Unlink(t, name, step, i)
    PROVE  TypeOK'
<1> DEFINE gone == [ent[t] EXCEPT ![name] = NoFile]
<1>1. gone \in Entry
  BY Zenon DEF TypeOK, StoreTypeOK, Entry, Content
<1>2. \E synced \in BOOLEAN : PutEntry(t, gone, synced) \/ UNCHANGED storeVars
  BY ZenonT(40) DEF Unlink
<1>3. StoreTypeOK'
  BY <1>1, <1>2, PutEntryType, StoreUnchangedType, Zenon DEF TypeOK
<1>4. (\E failed \in BOOLEAN : GotoErr(step, i, failed)) \/ Die
  BY ZenonT(40) DEF Unlink, Failing
<1>5. SessionTypeOK'
  BY <1>4, GotoErrType, DieType, Zenon DEF TypeOK
<1> QED
  BY <1>3, <1>5, Zenon DEF TypeOK

\* A step that only reports.
LEMMA ReportType ==
    ASSUME TypeOK, NEW step \in Steps, NEW i \in 0..N + 1,
           step \in AtOperation => i \in Target, NEW failed \in BOOLEAN,
           Report(step, i, failed)
    PROVE  TypeOK'
  BY GotoErrType, StoreUnchangedType, ZenonT(40) DEF Report, TypeOK

\* Removing a stage file that the journal owns.
LEMMA RemoveOwnedStageType ==
    ASSUME TypeOK, NEW t \in Target, NEW step \in Steps, NEW i \in 0..N + 1,
           step \in AtOperation => i \in Target, RemoveOwnedStage(t, step, i)
    PROVE  TypeOK'
<1>1. \/ UNCHANGED storeVars /\ Goto(step, i)
      \/ \E failed \in BOOLEAN : Report(step, i, failed)
      \/ Unlink(t, "stage", step, i)
  BY ZenonT(40) DEF RemoveOwnedStage
<1> QED
  BY <1>1, ReportType, UnlinkType, GotoType, StoreUnchangedType, Zenon DEF TypeOK

\* Every outcome of write_journal leaves a well-typed store.
LEMMA WriteJournalType ==
    ASSUME StoreTypeOK, NEW m \in Journal,
           WriteJournal(m) \/ WriteJournalNotRenamed \/ WriteJournalNotSynced(m)
    PROVE  StoreTypeOK'
<1>1. \E j \in JournalEntry, synced \in BOOLEAN : PutJournal(j, synced)
  BY ZenonT(40) DEF StoreTypeOK, JournalEntry, WriteJournal, WriteJournalNotRenamed,
         WriteJournalNotSynced
<1> QED
  BY <1>1, PutJournalType, Zenon

\* The initial state is well typed.
LEMMA InitType == Init => TypeOK
<1> SUFFICES ASSUME Init PROVE TypeOK
  BY Zenon
<1>1. ent \in [Target -> Entry] /\ jent \in JournalEntry
  BY DEF Init, StoreInit, Entry, Content, JournalEntry
<1>2. disk = [d \in Dir |-> disk[d]] /\ \A d \in Dir : disk[d] \subseteq ViewType(d)
  BY <1>1, ViewHasType, Zenon DEF Init, StoreInit
<1>3. StoreTypeOK
  BY <1>1, <1>2, StoreAssumption, Zenon DEF Init, StoreInit, StoreTypeOK
<1>4. SessionTypeOK
  BY NoChangesType, StoreAssumption
     DEF Init, SessionInit, SessionTypeOK, Steps, AtOperation
<1> QED
  BY <1>3, <1>4, Zenon DEF TypeOK

\* Every step of the recovery and rollback code keeps the types.
LEMMA RecoveryStepType == TypeOK /\ RecoveryStep => TypeOK'
<1> SUFFICES ASSUME TypeOK, RecoveryStep PROVE TypeOK'
  BY Zenon
<1> USE StoreAssumption DEF TypeOK
<1>1. CASE Lock
  BY <1>1, StoreUnchangedType, NoChangesType, Zenon
     DEF Lock, SessionTypeOK, Steps, RecoverySteps, AtOperation, storeVars
<1>2. CASE StartRecovery
  <2>1. StoreTypeOK'
    <3>1. [jent EXCEPT !.stage = NoFile] \in JournalEntry
      BY Zenon DEF StoreTypeOK, JournalEntry
    <3> QED
      BY <1>2, <3>1, PutJournalType, StoreUnchangedType, ZenonT(40) DEF StartRecovery
  <2>2. SessionTypeOK'
    BY <1>2, NoChangesType
       DEF StartRecovery, StoreTypeOK, JournalEntry, SessionTypeOK, Steps, RecoverySteps,
           AtOperation, Target
  <2> QED BY <2>1, <2>2, Zenon
<1>3. CASE StartRecoveryFails
  <2>1. StoreTypeOK'
    <3>1. [jent EXCEPT !.stage = NoFile] \in JournalEntry
      BY Zenon DEF StoreTypeOK, JournalEntry
    <3> QED
      BY <1>3, <3>1, PutJournalType, StoreUnchangedType, ZenonT(40) DEF StartRecoveryFails
  <2>2. Return("error") \/ Die
    BY <1>3, Zenon DEF StartRecoveryFails, Failing
  <2> QED BY <2>1, <2>2, ReturnType, DieType, Zenon
<1>4. CASE RollbackTarget
  <2>1. idx \in Target /\ "rbBackup" \in Steps /\ "rbBackup" \in AtOperation /\ idx \in 0..N + 1
    BY <1>4, Zenon DEF RollbackTarget, SessionTypeOK, Steps, RecoverySteps, AtOperation
  <2>2. \/ Unlink(idx, "target", "rbBackup", idx)
        \/ \E failed \in BOOLEAN : Report("rbBackup", idx, failed)
    BY <1>4, ZenonT(40) DEF RollbackTarget
  <2> QED BY <2>1, <2>2, UnlinkType, ReportType, Zenon
<1>5. CASE RollbackBackup
  <2>1. idx \in Target /\ "rbStage" \in Steps /\ "rbStage" \in AtOperation /\ idx \in 0..N + 1
    BY <1>5, Zenon DEF RollbackBackup, SessionTypeOK, Steps, RecoverySteps, AtOperation
  <2>2. Restored(idx) \in Entry
    BY <2>1, ZenonT(40) DEF Restored, StoreTypeOK, Entry, Content
  <2>3. CASE \E failed \in BOOLEAN : Report("rbStage", idx, failed)
    BY <2>1, <2>3, ReportType, Zenon
  <2>4. CASE /\ UNCHANGED storeVars \/ \E synced \in BOOLEAN : PutEntry(idx, Restored(idx), synced)
             /\ Die \/ \E failed \in BOOLEAN : GotoErr("rbStage", idx, failed)
    <3>1. StoreTypeOK'
      BY <2>1, <2>2, <2>4, PutEntryType, StoreUnchangedType, Zenon
    <3>2. SessionTypeOK'
      BY <2>1, <2>4, DieType, GotoErrType, Zenon
    <3> QED BY <3>1, <3>2, Zenon
  <2> QED BY <1>5, <2>3, <2>4, ZenonT(40) DEF RollbackBackup, Failing
<1>6. CASE RollbackStage
  <2>1. idx \in Target /\ RollbackNext \in Steps /\ idx - 1 \in 0..N + 1
    BY <1>6 DEF RollbackStage, RollbackNext, SessionTypeOK, Steps, RecoverySteps, AtOperation,
                Target
  <2>2. RollbackNext \in AtOperation => idx - 1 \in Target
    BY <2>1 DEF RollbackNext, AtOperation, Target
  <2> QED BY <1>6, <2>1, <2>2, RemoveOwnedStageType, Zenon DEF RollbackStage
<1>7. CASE RollbackSkip
  <2>1. idx \in Target /\ RollbackNext \in Steps /\ idx - 1 \in 0..N + 1
    BY <1>7 DEF RollbackSkip, RollbackNext, SessionTypeOK, Steps, RecoverySteps, AtOperation, Target
  <2>2. RollbackNext \in AtOperation => idx - 1 \in Target
    BY <2>1 DEF RollbackNext, AtOperation, Target
  <2>3. Goto(RollbackNext, idx - 1) \/ GotoErr(RollbackNext, idx - 1, TRUE)
    BY <1>7, ZenonT(40) DEF RollbackSkip
  <2> QED BY <1>7, <2>1, <2>2, <2>3, GotoType, GotoErrType, StoreUnchangedType, ZenonT(40)
             DEF RollbackSkip
<1>8. CASE CleanStage
  <2> DEFINE step == IF idx = N THEN "cleanBackup" ELSE "cleanStage"
             i    == IF idx = N THEN 1 ELSE idx + 1
  <2>1. idx \in Target /\ step \in Steps /\ i \in Target /\ i \in 0..N + 1
    BY <1>8 DEF CleanStage, SessionTypeOK, Steps, RecoverySteps, AtOperation, Target
  <2>2. RemoveOwnedStage(idx, step, i)
    BY <1>8, Zenon DEF CleanStage
  <2> HIDE DEF step, i
  <2> QED BY <2>1, <2>2, RemoveOwnedStageType, Zenon
<1>9. CASE CleanBackup
  <2> DEFINE step == IF idx = N THEN "finish" ELSE "cleanBackup"
             i    == IF idx = N THEN 0 ELSE idx + 1
  <2>1. idx \in Target /\ step \in Steps /\ i \in 0..N + 1
    BY <1>9 DEF CleanBackup, SessionTypeOK, Steps, RecoverySteps, AtOperation, Target
  <2>2. step \in AtOperation => i \in Target
    BY <2>1 DEF AtOperation, Target
  <2>3. \/ UNCHANGED storeVars /\ Goto(step, i)
        \/ \E failed \in BOOLEAN : Report(step, i, failed)
        \/ Unlink(idx, "backup", step, i)
    BY <1>9, ZenonT(40) DEF CleanBackup
  <2> HIDE DEF step, i
  <2> QED BY <2>1, <2>2, <2>3, GotoType, StoreUnchangedType, ReportType, UnlinkType, Zenon
<1>10. CASE FinishWithErrors
  BY <1>10, StoreUnchangedType, ReturnType, Zenon DEF FinishWithErrors
<1>11. CASE RemoveJournal
  <2>1. StoreTypeOK'
    BY <1>11, PutJournalType, ZenonT(40) DEF RemoveJournal, JournalEntry
  <2>2. CASE purpose = "recovery"
    BY <1>11, <2>1, <2>2, NoChangesType DEF RemoveJournal, SessionTypeOK, Steps, AtOperation
  <2>3. CASE purpose # "recovery"
    <3>1. Return("ok") \/ Return("rolledBack")
      BY <1>11, <2>3, Zenon DEF RemoveJournal
    <3> QED BY <2>1, <3>1, ReturnType, Zenon
  <2> QED BY <2>2, <2>3, Zenon
<1>12. CASE RemoveJournalFails
  <2>1. StoreTypeOK'
    <3>1. \A j \in {jent.journal, NoFile} : [journal |-> j, stage |-> NoFile] \in JournalEntry
      BY Zenon DEF StoreTypeOK, JournalEntry
    <3> QED BY <1>12, <3>1, PutJournalType, StoreUnchangedType, ZenonT(40) DEF RemoveJournalFails
  <2>2. Return("incomplete") \/ Die
    BY <1>12, Zenon DEF RemoveJournalFails, Failing
  <2> QED BY <2>1, <2>2, ReturnType, DieType, Zenon
<1> QED
  BY <1>1, <1>2, <1>3, <1>4, <1>5, <1>6, <1>7, <1>8, <1>9, <1>10, <1>11, <1>12, Zenon
     DEF RecoveryStep

\* Going on with the next operation after the one at idx has been applied.
LEMMA AdvanceType ==
    ASSUME SessionTypeOK, idx \in Target, Advance(idx)
    PROVE  SessionTypeOK'
<1>1. CASE idx = N
  BY <1>1, GotoType, StoreAssumption, SMTT(60) DEF Advance, Steps, AtOperation
<1>2. CASE idx # N
  <2>1. idx + 1 \in Target /\ idx + 1 \in 0..N + 1 /\ "check" \in Steps
    BY <1>2, StoreAssumption DEF Target, Steps
  <2> QED BY <1>2, <2>1, GotoType, Zenon DEF Advance
<1> QED BY <1>1, <1>2, Zenon

\* Every step of staging and committing keeps the types.
LEMMA CommitStepType ==
    ASSUME TypeOK,
           \/ Stage \/ Drop \/ Prepare \/ StageFile \/ RecordInstalled
           \/ CheckOriginal \/ MoveToBackup \/ VerifyBackup \/ Install \/ Commit
    PROVE  TypeOK'
<1> USE StoreAssumption DEF TypeOK
<1>0. \A t \in Target : ent[t] \in Entry
  BY Zenon DEF StoreTypeOK
<1>1. CASE Stage
  <2>1. mem' \in Journal
    <3>1. PICK t \in Target, change \in {"write", "remove"} :
              mem' = [mem EXCEPT !.plan[t] = change, !.orig[t] = ent[t].target]
      BY <1>1, ZenonT(40) DEF Stage
    <3>2. ent[t].target \in Content
      BY <1>0, Zenon DEF Entry
    <3> QED BY <3>1, <3>2, ZenonT(40) DEF SessionTypeOK, Journal
  <2>2. StoreTypeOK'
    BY <1>1, StoreUnchangedType, ZenonT(40) DEF Stage
  <2> QED BY <1>1, <2>1, <2>2, ZenonT(40) DEF Stage, SessionTypeOK
<1>2. CASE Drop
  BY <1>2, StoreUnchangedType, ReturnType, Zenon DEF Drop
<1>3. CASE Prepare
  <2> DEFINE m == [mem EXCEPT !.txn = txns + 1]
  <2>1. m \in Journal
    BY DEF SessionTypeOK, Journal
  <2>2. StoreTypeOK'
    BY <1>3, <2>1, WriteJournalType, Zenon DEF Prepare
  <2>3. SessionTypeOK'
    <3>1. CASE pc' = "stage"
      BY <1>3, <2>1, <3>1, SMTT(60) DEF Prepare, SessionTypeOK, Steps, AtOperation, Target
    <3>2. CASE pc' # "stage"
      BY <1>3, <2>1, <3>2, NoChangesType DEF Prepare, SessionTypeOK, Steps, AtOperation
    <3> QED BY <3>1, <3>2, Zenon
  <2> QED BY <2>2, <2>3, Zenon
<1>4. CASE StageFile
  <2> DEFINE next == IF idx = N THEN "record" ELSE "stage"
             e(f) == [ent[idx] EXCEPT !.stage = f]
  <2>1. idx \in Target /\ next \in Steps /\ idx + 1 \in 0..N + 1
    BY <1>4 DEF StageFile, SessionTypeOK, Steps, AtOperation, Target
  <2>2. next \in AtOperation => idx + 1 \in Target
    BY <2>1 DEF AtOperation, Target
  <2>3. CASE mem.plan[idx] # "write"
    BY <1>4, <2>1, <2>2, <2>3, GotoType, StoreUnchangedType, Zenon DEF StageFile
  <2>4. CASE mem.plan[idx] = "write"
    <3>1. e(mem.txn) \in Entry /\ e(Torn) \in Entry
      BY <1>0, <2>1 DEF Entry, Content, SessionTypeOK, Journal
    <3>2. StoreTypeOK'
      <4>1. \/ UNCHANGED storeVars
            \/ \E f \in {Torn, mem.txn}, synced \in BOOLEAN : PutEntry(idx, e(f), synced)
        BY <1>4, <2>4, ZenonT(40) DEF StageFile
      <4> HIDE DEF e
      <4> QED BY <2>1, <3>1, <4>1, PutEntryType, StoreUnchangedType, Zenon
    <3>3. CASE Rollback \/ Die
      BY <3>2, <3>3, RollbackType, DieType, Zenon
    <3>4. CASE /\ mem' = [mem EXCEPT !.installed = @ \cup {idx}]
               /\ pc' = next /\ idx' = idx + 1
               /\ UNCHANGED <<errs, purpose, result, txns>>
      <4>1. mem' \in Journal
        BY <2>1, <3>4, Zenon DEF SessionTypeOK, Journal
      <4> HIDE DEF next
      <4> QED BY <2>1, <2>2, <3>2, <3>4, <4>1, Zenon DEF SessionTypeOK
    <3> QED BY <1>4, <2>4, <3>3, <3>4, ZenonT(40) DEF StageFile, Failing
  <2> QED BY <2>3, <2>4, Zenon
<1>5. CASE RecordInstalled
  <2>1. StoreTypeOK'
    BY <1>5, WriteJournalType, Zenon DEF RecordInstalled, SessionTypeOK
  <2>2. Goto("check", 1) \/ Rollback \/ Die
    BY <1>5, Zenon DEF RecordInstalled, Failing
  <2>3. "check" \in Steps /\ 1 \in Target /\ 1 \in 0..N + 1
    BY DEF Steps, Target
  <2> QED BY <2>1, <2>2, <2>3, GotoType, RollbackType, DieType, Zenon
<1>6. CASE CheckOriginal
  <2>1. idx \in Target /\ idx \in 0..N + 1 /\ {"install", "move"} \subseteq Steps
    BY <1>6, Zenon DEF CheckOriginal, SessionTypeOK, AtOperation, Steps
  <2>2. StoreTypeOK'
    BY <1>6, StoreUnchangedType, Zenon DEF CheckOriginal
  <2>3. Advance(idx) \/ Rollback \/ Goto("install", idx) \/ Goto("move", idx)
    BY <1>6, Zenon DEF CheckOriginal
  <2> QED BY <2>1, <2>2, <2>3, GotoType, RollbackType, AdvanceType, Zenon
<1>7. CASE MoveToBackup
  <2> DEFINE e == [ent[idx] EXCEPT !.backup = ent[idx].target, !.target = NoFile]
  <2>1. idx \in Target /\ idx \in 0..N + 1 /\ "verify" \in Steps
    BY <1>7, Zenon DEF MoveToBackup, SessionTypeOK, AtOperation, Steps
  <2>2. e \in Entry
    BY <1>0, <2>1, ZenonT(40) DEF Entry, Content
  <2>3. PutEntry(idx, e, FALSE) \/ UNCHANGED storeVars
    BY <1>7, ZenonT(40) DEF MoveToBackup
  <2> HIDE DEF e
  <2>4. StoreTypeOK'
    BY <2>1, <2>2, <2>3, PutEntryType, StoreUnchangedType, ZenonT(40)
  <2>5. Goto("verify", idx) \/ Rollback
    BY <1>7, ZenonT(40) DEF MoveToBackup
  <2> QED BY <2>1, <2>4, <2>5, GotoType, RollbackType, Zenon
<1>8. CASE VerifyBackup
  <2>1. idx \in Target /\ idx \in 0..N + 1 /\ "install" \in Steps
    BY <1>8, Zenon DEF VerifyBackup, SessionTypeOK, AtOperation, Steps
  <2>2. ent[idx] \in Entry /\ Restored(idx) \in Entry
    BY <1>0, <2>1, ZenonT(40) DEF Restored, Entry, Content
  <2>3. \/ PutEntry(idx, ent[idx], TRUE) \/ PutEntry(idx, Restored(idx), FALSE)
        \/ UNCHANGED storeVars
    BY <1>8, ZenonT(40) DEF VerifyBackup
  <2>4. StoreTypeOK'
    BY <2>1, <2>2, <2>3, PutEntryType, StoreUnchangedType, ZenonT(40)
  <2>5. Goto("install", idx) \/ Advance(idx) \/ Rollback
    BY <1>8, ZenonT(40) DEF VerifyBackup
  <2> QED BY <2>1, <2>4, <2>5, GotoType, AdvanceType, RollbackType, Zenon
<1>9. CASE Install
  <2>1. idx \in Target
    BY <1>9, Zenon DEF Install, SessionTypeOK, AtOperation
  <2>2. Installed(idx) \in Entry
    BY <1>0, <2>1, ZenonT(40) DEF Installed, Entry, Content
  <2>3. (\E synced \in BOOLEAN : PutEntry(idx, Installed(idx), synced)) \/ UNCHANGED storeVars
    BY <1>9, ZenonT(40) DEF Install
  <2>4. StoreTypeOK'
    BY <2>1, <2>2, <2>3, PutEntryType, StoreUnchangedType, Zenon
  <2>5. Advance(idx) \/ Rollback \/ Die
    BY <1>9, ZenonT(40) DEF Install, Failing
  <2> QED BY <2>1, <2>4, <2>5, AdvanceType, RollbackType, DieType, Zenon
<1>10. CASE Commit
  <2> DEFINE m == [mem EXCEPT !.state = "Committed"]
  <2>1. m \in Journal
    BY Zenon DEF SessionTypeOK, Journal
  <2>2. StoreTypeOK'
    BY <1>10, <2>1, WriteJournalType, Zenon DEF Commit, Failing
  <2>3. CASE Return("uncertain") \/ Die
    BY <2>2, <2>3, ReturnType, DieType, Zenon
  <2>4. CASE /\ \/ pc' = "cleanStage" /\ idx' = 1 /\ purpose' = "commit"
                \/ pc' = "rbTarget" /\ idx' = N /\ purpose' = "abort"
             /\ errs' = "none" /\ mem' = m /\ UNCHANGED <<result, txns>>
    BY <2>1, <2>2, <2>4 DEF SessionTypeOK, Steps, RecoverySteps, AtOperation, Target
  <2> QED BY <1>10, <2>3, <2>4, Zenon DEF Commit, Failing
<1> QED
  BY <1>1, <1>2, <1>3, <1>4, <1>5, <1>6, <1>7, <1>8, <1>9, <1>10, Zenon

\* A crash, a power loss and another program's write keep the types.
LEMMA DisturbanceType == TypeOK /\ Disturbance => TypeOK'
<1> SUFFICES ASSUME TypeOK, Disturbance PROVE TypeOK'
  BY Zenon
<1> USE DEF TypeOK
<1>1. CASE Crash
  BY <1>1, StoreUnchangedType, DieType, Zenon DEF Crash
<1>2. CASE PowerLoss
  BY <1>2, PowerLossType, DieType, Zenon DEF PowerLoss
<1>3. CASE Interfere
  <2>1. PICK t \in Target, name \in {"target", "stage", "backup"} :
            PutEntry(t, [ent[t] EXCEPT ![name] = Foreign], FALSE)
    BY <1>3, ZenonT(40) DEF Interfere, ForeignWrite
  <2>2. [ent[t] EXCEPT ![name] = Foreign] \in Entry
    BY Zenon DEF StoreTypeOK, Entry, Content
  <2>3. StoreTypeOK'
    BY <2>1, <2>2, PutEntryType, ZenonT(40)
  <2>4. SessionTypeOK'
    BY <1>3, Zenon DEF Interfere, SessionTypeOK, sessionVars
  <2> QED BY <2>3, <2>4, Zenon
<1> QED BY <1>1, <1>2, <1>3, Zenon DEF Disturbance

(***************************************************************************)
(* Types: whatever fails, dies or interferes, and in whatever order, every *)
(* variable keeps its type and no loop over the operations leaves its      *)
(* range.                                                                  *)
(***************************************************************************)
THEOREM Types == Spec => []TypeOK
<1>1. TypeOK /\ [Next]_vars => TypeOK'
  <2> SUFFICES ASSUME TypeOK, [Next]_vars PROVE TypeOK'
    BY Zenon
  <2>1. CASE SessionStep
    BY <2>1, CommitStepType, RecoveryStepType, Zenon DEF SessionStep
  <2>2. CASE Disturbance
    BY <2>2, DisturbanceType, Zenon
  <2>3. CASE UNCHANGED vars
    BY <2>3, Zenon DEF vars, TypeOK, StoreTypeOK, SessionTypeOK
  <2> QED BY <2>1, <2>2, <2>3, Zenon DEF Next
<1> QED
  BY InitType, <1>1, PTL DEF Spec

-----------------------------------------------------------------------------
(***************************************************************************)
(* Another program at every name.  What a step can do to the names of one  *)
(* target, whatever is there.                                              *)
(***************************************************************************)
SameTarget(t) == ent'[t].target = ent[t].target
SameBackup(t) == ent'[t].backup = ent[t].backup

LeftAlone(t) == SameTarget(t) /\ SameBackup(t)

PutAside(t) ==
    /\ pc = "move" /\ t = idx
    /\ ent[t].backup = NoFile /\ ent'[t].backup = ent[t].target /\ ent'[t].target = NoFile

PutBack(t) ==
    ent[t].target = NoFile /\ ent'[t].target = ent[t].backup /\ ent'[t].backup = NoFile

PutIn(t) ==
    /\ pc = "install" /\ t = idx
    /\ ent[t].target = NoFile /\ ent'[t].target = mem.txn /\ SameBackup(t)

TakenOut(t) ==
    /\ pc = "rbTarget" /\ t = idx /\ mem.plan[t] # "keep"
    /\ ent[t].target = mem.txn /\ ent'[t].target = NoFile /\ SameBackup(t)

BackupCleaned(t) ==
    /\ pc = "cleanBackup" /\ t = idx /\ mem.orig[t] # NoFile
    /\ ent[t].backup = mem.orig[t] /\ ent'[t].backup = NoFile /\ SameTarget(t)

WrittenBy(t) ==
    /\ ForeignWrite
    /\ \/ ent'[t].target = Foreign /\ SameBackup(t)
       \/ ent[t].backup # NoFile /\ ent'[t].backup = Foreign /\ SameTarget(t)

Touched(t) ==
    \/ LeftAlone(t) \/ PutAside(t) \/ PutBack(t) \/ PutIn(t) \/ TakenOut(t)
    \/ BackupCleaned(t) \/ WrittenBy(t)

\* Writing the entry of one target leaves the others alone.
LEMMA OthersAlone ==
    ASSUME TypeOK, NEW i \in Target, NEW e, NEW synced, PutEntry(i, e, synced)
    PROVE  /\ ent'[i] = e /\ jent' = jent /\ env' = env
           /\ \A t \in Target \ {i} : ent'[t] = ent[t]
           /\ \A t \in Target : t # i => LeftAlone(t)
<1>1. ent' = [ent EXCEPT ![i] = e] /\ jent' = jent /\ env' = env
  BY Zenon DEF PutEntry
<1>2. ent = [t \in Target |-> ent[t]]
  BY Zenon DEF TypeOK, StoreTypeOK
<1>3. ent'[i] = e /\ \A t \in Target : t # i => ent'[t] = ent[t]
  BY <1>1, <1>2, Zenon
<1> QED BY <1>1, <1>3, Zenon DEF LeftAlone, SameTarget, SameBackup

LEMMA EntryFields == TypeOK => \A t \in Target : ent[t] \in Entry
  BY Zenon DEF TypeOK, StoreTypeOK

\* A removal that fails leaves the names alone.
LEMMA UnlinkNames ==
    ASSUME TypeOK, NEW i \in Target, NEW name \in {"target", "stage", "backup"},
           NEW step, NEW k, Unlink(i, name, step, k)
    PROVE  /\ jent' = jent /\ env' = env
           /\ \A t \in Target : t # i => LeftAlone(t)
           /\ \/ ent'[i] = [ent[i] EXCEPT ![name] = NoFile]
              \/ LeftAlone(i)
<1>1. CASE UNCHANGED storeVars
  BY <1>1, Zenon DEF storeVars, LeftAlone, SameTarget, SameBackup
<1>2. CASE \E synced \in BOOLEAN : PutEntry(i, [ent[i] EXCEPT ![name] = NoFile], synced)
  BY <1>2, OthersAlone, Zenon
<1> QED BY <1>1, <1>2, Zenon DEF Unlink

LEMMA StageNames ==
    ASSUME TypeOK, NEW i \in Target, NEW step, NEW k, RemoveOwnedStage(i, step, k)
    PROVE  jent' = jent /\ env' = env /\ \A t \in Target : LeftAlone(t)
<1>1. CASE UNCHANGED storeVars
  BY <1>1, Zenon DEF storeVars, LeftAlone, SameTarget, SameBackup
<1>2. CASE Unlink(i, "stage", step, k)
  <2>1. /\ jent' = jent /\ env' = env
        /\ \A t \in Target : t # i => LeftAlone(t)
        /\ \/ ent'[i] = [ent[i] EXCEPT !.stage = NoFile]
           \/ LeftAlone(i)
    BY <1>2, UnlinkNames, Zenon
  <2>2. LeftAlone(i)
    <3>1. /\ [ent[i] EXCEPT !.stage = NoFile].target = ent[i].target
          /\ [ent[i] EXCEPT !.stage = NoFile].backup = ent[i].backup
      BY EntryFields, Zenon DEF Entry
    <3> QED BY <2>1, <3>1, Zenon DEF LeftAlone, SameTarget, SameBackup
  <2> QED BY <2>1, <2>2, Zenon
<1> QED BY <1>1, <1>2, Zenon DEF RemoveOwnedStage, Report

\* The steps of rollback, cleanup and recovery.
LEMMA RecoveryNames ==
    ASSUME TypeOK, RecoveryStep
    PROVE  env' = env /\ \A t \in Target : Touched(t)
<1>0. ASSUME UNCHANGED storeVars \/ \E j, synced : PutJournal(j, synced)
      PROVE  env' = env /\ \A t \in Target : Touched(t)
  BY <1>0, Zenon DEF storeVars, PutJournal, Touched, LeftAlone, SameTarget, SameBackup
<1>1. CASE Lock \/ StartRecovery \/ StartRecoveryFails \/ RollbackSkip
  BY <1>0, <1>1, Zenon DEF Lock, StartRecovery, StartRecoveryFails, RollbackSkip
<1>2. CASE FinishWithErrors \/ RemoveJournal \/ RemoveJournalFails
  BY <1>0, <1>2, Zenon DEF FinishWithErrors, RemoveJournal, RemoveJournalFails
<1>3. ASSUME RollbackTarget \/ RollbackBackup \/ RollbackStage \/ CleanStage \/ CleanBackup
      PROVE  idx \in Target
  BY <1>3, Zenon DEF RollbackTarget, RollbackBackup, RollbackStage, CleanStage, CleanBackup,
     TypeOK, SessionTypeOK, AtOperation
<1>4. CASE RollbackTarget
  <2>1. CASE Report("rbBackup", idx, \/ TargetMatchesInstalled(mem, idx)
                                    \/ ent[idx].target \notin {NoFile, mem.orig[idx]})
    BY <1>0, <2>1, Zenon DEF Report
  <2>2. CASE /\ TargetMatchesInstalled(mem, idx) /\ mem.plan[idx] = "write"
             /\ Unlink(idx, "target", "rbBackup", idx)
    <3>1. ent[idx].target = mem.txn /\ pc = "rbTarget"
      BY <1>4, <2>2, Zenon DEF TargetMatchesInstalled, RollbackTarget
    <3>2. /\ env' = env /\ \A t \in Target : t # idx => LeftAlone(t)
          /\ ent'[idx] = [ent[idx] EXCEPT !.target = NoFile] \/ LeftAlone(idx)
      BY <1>3, <1>4, <2>2, UnlinkNames, Zenon
    <3>3. /\ [ent[idx] EXCEPT !.target = NoFile].target = NoFile
          /\ [ent[idx] EXCEPT !.target = NoFile].backup = ent[idx].backup
      BY <1>3, <1>4, EntryFields, Zenon DEF Entry
    <3>4. Touched(idx)
      BY <2>2, <3>1, <3>2, <3>3, Zenon DEF Touched, TakenOut, SameBackup
    <3> QED BY <3>2, <3>4, Zenon DEF Touched
  <2> QED BY <1>4, <2>1, <2>2, Zenon DEF RollbackTarget
<1>5. CASE RollbackBackup
  <2>1. CASE UNCHANGED storeVars
    BY <1>0, <2>1, Zenon
  <2>2. CASE /\ ent[idx].target = NoFile
             /\ \E synced \in BOOLEAN : PutEntry(idx, Restored(idx), synced)
    <3>1. env' = env /\ ent'[idx] = Restored(idx) /\ \A t \in Target : t # idx => LeftAlone(t)
      BY <1>3, <1>5, <2>2, OthersAlone, Zenon
    <3>2. Restored(idx).target = ent[idx].backup /\ Restored(idx).backup = NoFile
      BY <1>3, <1>5, EntryFields, Zenon DEF Entry, Restored
    <3> QED BY <2>2, <3>1, <3>2, Zenon DEF Touched, PutBack
  <2> QED BY <1>5, <2>1, <2>2, Zenon DEF RollbackBackup, Report
<1>6. CASE RollbackStage \/ CleanStage
  BY <1>3, <1>6, StageNames, Zenon DEF RollbackStage, CleanStage, Touched
<1>7. CASE CleanBackup
  <2>1. CASE UNCHANGED storeVars
    BY <1>0, <2>1, Zenon
  <2>2. ASSUME ent[idx].backup = mem.orig[idx], mem.orig[idx] # NoFile,
               NEW step, NEW k, Unlink(idx, "backup", step, k)
        PROVE  env' = env /\ \A t \in Target : Touched(t)
    <3>1. /\ env' = env /\ \A t \in Target : t # idx => LeftAlone(t)
          /\ ent'[idx] = [ent[idx] EXCEPT !.backup = NoFile] \/ LeftAlone(idx)
      BY <1>3, <1>7, <2>2, UnlinkNames, Zenon
    <3>2. /\ [ent[idx] EXCEPT !.backup = NoFile].backup = NoFile
          /\ [ent[idx] EXCEPT !.backup = NoFile].target = ent[idx].target
      BY <1>3, <1>7, EntryFields, Zenon DEF Entry
    <3>3. Touched(idx)
      BY <1>7, <2>2, <3>1, <3>2, Zenon DEF Touched, BackupCleaned, SameTarget, CleanBackup
    <3> QED BY <3>1, <3>3, Zenon DEF Touched
  <2> QED BY <1>7, <2>1, <2>2, Zenon DEF CleanBackup, Report
<1> QED BY <1>1, <1>2, <1>4, <1>5, <1>6, <1>7, Zenon DEF RecoveryStep

\* The steps of a commit, the death of a process and the other program.
LEMMA NamesStep ==
    ASSUME TypeOK, [Next]_vars, ~ PowerLoss
    PROVE  env' = env /\ \A t \in Target : Touched(t)
<1>0. ASSUME UNCHANGED storeVars \/ \E j, synced : PutJournal(j, synced)
      PROVE  env' = env /\ \A t \in Target : Touched(t)
  BY <1>0, Zenon DEF storeVars, PutJournal, Touched, LeftAlone, SameTarget, SameBackup
<1>1. CASE UNCHANGED vars \/ Stage \/ Drop \/ CheckOriginal \/ Crash
  BY <1>0, <1>1, Zenon DEF vars, storeVars, Stage, Drop, CheckOriginal, Crash
<1>2. CASE Prepare \/ RecordInstalled \/ Commit
  BY <1>0, <1>2, Zenon DEF Prepare, RecordInstalled, Commit, WriteJournal, WriteJournalNotRenamed,
     WriteJournalNotSynced
<1>3. ASSUME StageFile \/ MoveToBackup \/ VerifyBackup \/ Install
      PROVE  idx \in Target
  BY <1>3, Zenon DEF StageFile, MoveToBackup, VerifyBackup, Install, TypeOK, SessionTypeOK, AtOperation
<1>4. ASSUME NEW e, NEW synced, PutEntry(idx, e, synced), idx \in Target
      PROVE  env' = env /\ ent'[idx] = e /\ \A t \in Target : t # idx => Touched(t)
  BY <1>4, OthersAlone, Zenon DEF Touched
<1>5. CASE StageFile
  <2>1. ASSUME NEW f, NEW synced, PutEntry(idx, [ent[idx] EXCEPT !.stage = f], synced)
        PROVE  env' = env /\ \A t \in Target : Touched(t)
    <3>1. /\ [ent[idx] EXCEPT !.stage = f].target = ent[idx].target
          /\ [ent[idx] EXCEPT !.stage = f].backup = ent[idx].backup
      BY <1>3, <1>5, EntryFields, Zenon DEF Entry
    <3> QED BY <1>3, <1>4, <1>5, <2>1, <3>1, Zenon DEF Touched, LeftAlone, SameTarget, SameBackup
  <2> QED BY <1>0, <1>5, <2>1, Zenon DEF StageFile
<1>6. CASE MoveToBackup
  <2>1. CASE UNCHANGED storeVars
    BY <1>0, <2>1, Zenon
  <2>2. CASE /\ ent[idx].backup = NoFile
             /\ PutEntry(idx, [ent[idx] EXCEPT !.backup = ent[idx].target, !.target = NoFile], FALSE)
    <3>1. PICK e : e = [ent[idx] EXCEPT !.backup = ent[idx].target, !.target = NoFile]
      BY Zenon
    <3>2. e.backup = ent[idx].target /\ e.target = NoFile
      BY <1>3, <1>6, <3>1, EntryFields, Zenon DEF Entry
    <3>3. Touched(idx)
      BY <1>3, <1>4, <1>6, <2>2, <3>1, <3>2, Zenon DEF Touched, PutAside, MoveToBackup
    <3> QED BY <1>3, <1>4, <1>6, <2>2, <3>3, Zenon
  <2> QED BY <1>6, <2>1, <2>2, Zenon DEF MoveToBackup
<1>7. CASE VerifyBackup
  <2>1. CASE UNCHANGED storeVars
    BY <1>0, <2>1, Zenon
  <2>2. CASE PutEntry(idx, ent[idx], TRUE)
    BY <1>3, <1>4, <1>7, <2>2, Zenon DEF Touched, LeftAlone, SameTarget, SameBackup
  <2>3. CASE ent[idx].target = NoFile /\ PutEntry(idx, Restored(idx), FALSE)
    <3>1. Restored(idx).target = ent[idx].backup /\ Restored(idx).backup = NoFile
      BY <1>3, <1>7, EntryFields, Zenon DEF Entry, Restored
    <3> QED BY <1>3, <1>4, <1>7, <2>3, <3>1, Zenon DEF Touched, PutBack
  <2> QED BY <1>7, <2>1, <2>2, <2>3, Zenon DEF VerifyBackup
<1>8. CASE Install
  <2>1. CASE UNCHANGED storeVars
    BY <1>0, <2>1, Zenon
  <2>2. CASE /\ ent[idx].stage = mem.txn /\ ent[idx].target = NoFile
             /\ \E synced \in BOOLEAN : PutEntry(idx, Installed(idx), synced)
    <3>1. Installed(idx).target = ent[idx].stage /\ Installed(idx).backup = ent[idx].backup
      BY <1>3, <1>8, EntryFields, Zenon DEF Entry, Installed
    <3>2. Touched(idx)
      BY <1>3, <1>4, <1>8, <2>2, <3>1, Zenon DEF Touched, PutIn, SameBackup, Install
    <3> QED BY <1>3, <1>4, <1>8, <2>2, <3>2, Zenon
  <2> QED BY <1>8, <2>1, <2>2, Zenon DEF Install
<1>9. CASE Interfere
  <2>1. PICK i \in Target, name \in {"target", "stage", "backup"} :
            /\ name # "target" => ent[i][name] # NoFile
            /\ PutEntry(i, [ent[i] EXCEPT ![name] = Foreign], FALSE)
    BY <1>9, Zenon DEF Interfere, ForeignWrite
  <2>2. /\ env' = env /\ ent'[i] = [ent[i] EXCEPT ![name] = Foreign]
        /\ \A t \in Target : t # i => LeftAlone(t)
    BY <2>1, OthersAlone, Zenon
  <2>3. CASE name = "target"
    <3>1. ent'[i].target = Foreign /\ ent'[i].backup = ent[i].backup
      BY <2>2, <2>3, EntryFields, Zenon DEF Entry
    <3> QED BY <1>9, <2>2, <3>1, Zenon DEF Touched, WrittenBy, SameBackup, Interfere
  <2>4. CASE name = "stage"
    <3>1. ent'[i].target = ent[i].target /\ ent'[i].backup = ent[i].backup
      BY <2>2, <2>4, EntryFields, Zenon DEF Entry
    <3> QED BY <2>2, <3>1, Zenon DEF Touched, LeftAlone, SameBackup, SameTarget
  <2>5. CASE name = "backup"
    <3>1. ent'[i].target = ent[i].target /\ ent'[i].backup = Foreign
      BY <2>2, <2>5, EntryFields, Zenon DEF Entry
    <3>2. ent[i].backup # NoFile
      BY <2>1, <2>5, Zenon
    <3> QED BY <1>9, <2>2, <3>1, <3>2, Zenon DEF Touched, WrittenBy, SameTarget, Interfere
  <2> QED BY <2>3, <2>4, <2>5, Zenon
<1> QED BY <1>1, <1>2, <1>5, <1>6, <1>7, <1>8, <1>9, RecoveryNames, Zenon
        DEF Next, SessionStep, Disturbance

-----------------------------------------------------------------------------
(***************************************************************************)
(* What a step does to the journal.                                        *)
(***************************************************************************)
JournalStays == jent'.journal = jent.journal /\ txns' \in {txns, txns + 1}

JournalRewritten ==
    /\ pc \in {"record", "commit"} /\ ent' = ent /\ txns' = txns
    /\ jent'.journal # NoFile
    /\ jent'.journal.txn = mem.txn /\ jent'.journal.plan = mem.plan /\ jent'.journal.orig = mem.orig

JournalBegun ==
    /\ pc = "open" /\ ent' = ent /\ txns' = txns + 1
    /\ jent'.journal = [mem EXCEPT !.txn = txns + 1]

JournalRemoved ==
    pc = "finish" /\ errs = "none" /\ ent' = ent /\ txns' = txns /\ jent'.journal = NoFile

LEMMA JournalPut ==
    ASSUME NEW m, NEW f, NEW synced, PutJournal([journal |-> m, stage |-> f], synced)
    PROVE  jent'.journal = m /\ ent' = ent
  BY Zenon DEF PutJournal

LEMMA JournalStagePut ==
    ASSUME TypeOK, NEW f, NEW synced, PutJournal([jent EXCEPT !.stage = f], synced)
    PROVE  jent'.journal = jent.journal /\ ent' = ent
  BY Zenon DEF PutJournal, TypeOK, StoreTypeOK, JournalEntry

LEMMA RecoveryJournals ==
    ASSUME TypeOK, RecoveryStep
    PROVE  JournalStays \/ JournalRemoved
<1>1. txns' = txns
  BY Zenon DEF RecoveryStep, Lock, StartRecovery, StartRecoveryFails, RollbackTarget, RollbackBackup,
     RollbackStage, RollbackSkip, CleanStage, CleanBackup, FinishWithErrors, RemoveJournal,
     RemoveJournalFails, Unlink, Report, RemoveOwnedStage, Goto, GotoErr, Failing, Die, Return
<1>2. CASE UNCHANGED storeVars \/ \E t, e, synced : PutEntry(t, e, synced)
  BY <1>1, <1>2, Zenon DEF storeVars, PutEntry, JournalStays
<1>3. CASE StartRecovery \/ StartRecoveryFails
  <2>1. CASE \E synced : PutJournal([jent EXCEPT !.stage = NoFile], synced)
    BY <1>1, <2>1, JournalStagePut, Zenon DEF JournalStays
  <2> QED BY <1>2, <1>3, <2>1, Zenon DEF StartRecovery, StartRecoveryFails
<1>4. CASE RemoveJournal
  <2>1. PutJournal([journal |-> NoFile, stage |-> NoFile], TRUE)
    BY <1>4, Zenon DEF RemoveJournal
  <2>2. jent'.journal = NoFile /\ ent' = ent
    BY <2>1, JournalPut, Zenon
  <2> QED BY <1>1, <1>4, <2>2, Zenon DEF RemoveJournal, JournalRemoved
<1>5. CASE RemoveJournalFails
  <2>1. CASE \E j \in {jent.journal, NoFile} : PutJournal([journal |-> j, stage |-> NoFile], FALSE)
    <3>1. PICK j \in {jent.journal, NoFile} : PutJournal([journal |-> j, stage |-> NoFile], FALSE)
      BY <2>1, Zenon
    <3>2. jent'.journal = j /\ ent' = ent
      BY <3>1, JournalPut, Zenon
    <3> QED BY <1>1, <1>5, <3>2, Zenon DEF RemoveJournalFails, JournalStays, JournalRemoved
  <2> QED BY <1>2, <1>5, <2>1, Zenon DEF RemoveJournalFails
<1> QED BY <1>2, <1>3, <1>4, <1>5, Zenon DEF RecoveryStep, Lock, RollbackTarget, RollbackBackup,
        RollbackStage, RollbackSkip, CleanStage, CleanBackup, FinishWithErrors, Unlink, Report,
        RemoveOwnedStage

LEMMA JournalsStep ==
    ASSUME TypeOK, [Next]_vars, ~ PowerLoss
    PROVE  JournalStays \/ JournalRewritten \/ JournalBegun \/ JournalRemoved
<1>1. CASE UNCHANGED vars \/ Stage \/ Drop \/ CheckOriginal \/ Crash \/ Interfere
  BY <1>1, Zenon DEF vars, storeVars, sessionVars, Stage, Drop, CheckOriginal, Crash, Interfere,
     ForeignWrite, PutEntry, Return, Die, Goto, Advance, Rollback, JournalStays
<1>2. CASE StageFile \/ MoveToBackup \/ VerifyBackup \/ Install
  BY <1>2, Zenon DEF storeVars, StageFile, MoveToBackup, VerifyBackup, Install, PutEntry, Failing, Die,
     Goto, Advance, Rollback, JournalStays
<1>3. ASSUME WriteJournalNotRenamed
      PROVE  jent'.journal = jent.journal /\ ent' = ent
  BY <1>3, JournalStagePut, Zenon DEF WriteJournalNotRenamed
<1>4. ASSUME NEW m, WriteJournal(m) \/ WriteJournalNotSynced(m)
      PROVE  jent'.journal = m /\ ent' = ent
  BY <1>4, JournalPut, Zenon DEF WriteJournal, WriteJournalNotSynced
<1>5. mem \in Journal /\ mem # NoFile
  BY NoFileIsNoJournal, Zenon DEF TypeOK, SessionTypeOK
<1>6. CASE Prepare
  <2>1. pc = "open" /\ txns' = txns + 1
    BY <1>6, Zenon DEF Prepare
  <2>2. \/ WriteJournalNotRenamed
        \/ WriteJournal([mem EXCEPT !.txn = txns + 1]) \/ WriteJournalNotSynced([mem EXCEPT !.txn = txns + 1])
    BY <1>6, Zenon DEF Prepare
  <2> QED BY <1>3, <1>4, <2>1, <2>2, Zenon DEF JournalStays, JournalBegun
<1>7. CASE RecordInstalled
  <2>1. pc = "record" /\ txns' = txns
    BY <1>7, Zenon DEF RecordInstalled, Goto, Failing, Rollback, Die
  <2>2. WriteJournalNotRenamed \/ WriteJournal(mem) \/ WriteJournalNotSynced(mem)
    BY <1>7, Zenon DEF RecordInstalled
  <2> QED BY <1>3, <1>4, <1>5, <2>1, <2>2, Zenon DEF JournalStays, JournalRewritten
<1>8. CASE Commit
  <2>1. PICK m : m = [mem EXCEPT !.state = "Committed"]
    BY Zenon
  <2>2. m # NoFile /\ m.txn = mem.txn /\ m.plan = mem.plan /\ m.orig = mem.orig
    BY <1>5, <2>1, NoFileIsNoJournal, Zenon DEF Journal
  <2>3. pc = "commit" /\ txns' = txns
    BY <1>8, Zenon DEF Commit, Return, Failing, Die
  <2>4. WriteJournalNotRenamed \/ WriteJournal(m) \/ WriteJournalNotSynced(m)
    BY <1>8, <2>1, Zenon DEF Commit
  <2> QED BY <1>3, <1>4, <2>2, <2>3, <2>4, Zenon DEF JournalStays, JournalRewritten
<1> QED BY <1>1, <1>2, <1>6, <1>7, <1>8, RecoveryJournals, Zenon DEF Next, SessionStep, Disturbance

-----------------------------------------------------------------------------
(***************************************************************************)
(* ForeignInv is kept.                                                     *)
(***************************************************************************)
LEMMA KindsOfContent == NoFile \notin Nat /\ Foreign \notin Nat /\ NoFile # Foreign
  BY StoreAssumption, Zenon

LEMMA MemFields ==
    ASSUME TypeOK
    PROVE  /\ mem \in Journal /\ mem.txn \in Nat
           /\ \A t \in Target : mem.orig[t] \in Content
           /\ txns \in Nat
           /\ jent.journal \in Journal \cup {NoFile}
           /\ jent.journal # NoFile => jent.journal.txn \in Nat
  BY Zenon DEF TypeOK, SessionTypeOK, StoreTypeOK, JournalEntry, Journal

\* What is settled stays so, unless the operation's own file is moved aside or taken out.
LEMMA SettledStays ==
    ASSUME TypeOK, NEW t \in Target, Touched(t), Settled(t), ~ PutAside(t), ~ TakenOut(t)
    PROVE  Settled(t)'
<1>1. mem.txn # NoFile
  BY MemFields, KindsOfContent, Zenon
<1> QED BY <1>1, KindsOfContent, Zenon DEF Touched, Settled, LeftAlone, PutBack, PutIn, BackupCleaned,
        WrittenBy, SameTarget, SameBackup

\* No file is newer than the transactions begun.
LEMMA AgesStep ==
    ASSUME TypeOK, ForeignInv, [Next]_vars, ~ PowerLoss, NEW t \in Target
    PROVE  UpTo(txns', ent'[t].target) /\ UpTo(txns', ent'[t].backup)
<1>1. txns \in Nat /\ (txns' = txns \/ txns' = txns + 1)
  BY JournalsStep, MemFields, Zenon DEF JournalStays, JournalRewritten, JournalBegun, JournalRemoved
<1>2. ASSUME NEW f, UpTo(txns, f) PROVE UpTo(txns', f)
  BY <1>1, <1>2 DEF UpTo
<1>3. UpTo(txns, ent[t].target) /\ UpTo(txns, ent[t].backup)
  BY Zenon DEF ForeignInv, KnownInv
<1>4. UpTo(txns, NoFile) /\ UpTo(txns, Foreign)
  BY KindsOfContent, Zenon DEF UpTo
<1>5. CASE PutIn(t)
  <2>1. UpTo(txns, mem.txn)
    BY <1>5, Zenon DEF PutIn, ForeignInv, KnownInv, WorkInv, SameWork, Begun, UpTo
  <2> QED BY <1>2, <1>3, <1>5, <2>1, Zenon DEF PutIn, SameBackup
<1>6. CASE ~ PutIn(t)
  <2>1. Touched(t)
    BY NamesStep, Zenon
  <2>2. ent'[t].target \in {ent[t].target, ent[t].backup, NoFile, Foreign}
    BY <1>6, <2>1, Zenon DEF Touched, LeftAlone, PutAside, PutBack, TakenOut, BackupCleaned, WrittenBy,
       SameTarget, SameBackup
  <2>3. ent'[t].backup \in {ent[t].target, ent[t].backup, NoFile, Foreign}
    BY <1>6, <2>1, Zenon DEF Touched, LeftAlone, PutAside, PutBack, TakenOut, BackupCleaned, WrittenBy,
       SameTarget, SameBackup
  <2> QED BY <1>2, <1>3, <1>4, <2>2, <2>3, Zenon
<1> QED BY <1>5, <1>6, Zenon

\* The journal's transaction has begun and its originals are older.
LEMMA BegunStep ==
    ASSUME TypeOK, ForeignInv, [Next]_vars, ~ PowerLoss
    PROVE  jent'.journal # NoFile => Begun(jent.journal)'
<1>0. /\ mem \in Journal /\ txns \in Nat /\ mem.txn \in Nat
      /\ jent.journal # NoFile => jent.journal.txn \in Nat
  BY MemFields, Zenon
<1>1. CASE JournalStays
  BY <1>0, <1>1 DEF JournalStays, ForeignInv, KnownInv, Begun
<1>2. CASE JournalRewritten
  <2>1. SameWork /\ Begun(jent.journal)
    BY <1>2, Zenon DEF JournalRewritten, ForeignInv, KnownInv, WorkInv, SameWork
  <2> QED BY <1>2, <2>1, Zenon DEF JournalRewritten, SameWork, Begun
<1>3. CASE JournalBegun
  <2>1. PICK m : m = [mem EXCEPT !.txn = txns + 1]
    BY Zenon
  <2>2. m.txn = txns + 1 /\ m.orig = mem.orig /\ jent'.journal = m /\ txns' = txns + 1
    BY <1>0, <1>3, <2>1, Zenon DEF Journal, JournalBegun
  <2>3. \A t \in Target : UpTo(txns, mem.orig[t])
    BY <1>3, Zenon DEF JournalBegun, ForeignInv, WorkInv
  <2>4. \A t \in Target : mem.orig[t] # txns + 1
    BY <1>0, <2>3 DEF UpTo
  <2>5. txns + 1 <= txns + 1
    BY <1>0
  <2> QED BY <2>2, <2>4, <2>5, Zenon DEF Begun
<1>4. CASE JournalRemoved
  BY <1>4, Zenon DEF JournalRemoved
<1> QED BY <1>1, <1>2, <1>3, <1>4, JournalsStep, Zenon

LEMMA OwnedStep ==
    ASSUME TypeOK, ForeignInv, [Next]_vars, ~ PowerLoss, NEW t \in Target
    PROVE  BackupOwned(t)'
<1>0. Touched(t) /\ BackupOwned(t)
  BY NamesStep, Zenon DEF ForeignInv, KnownInv
<1>1. CASE JournalStays
  <2>1. Operates(jent.journal, t)' = Operates(jent.journal, t)
    BY <1>1, Zenon DEF JournalStays, Operates
  <2>2. PutAside(t) \/ TakenOut(t) => Operates(jent.journal, t)
    BY Zenon DEF PutAside, TakenOut, ForeignInv, WorkInv, SameWork, Operates
  <2>3. PutAside(t) => jent.journal.orig[t] # NoFile
    BY Zenon DEF PutAside, ForeignInv, WorkInv, SameWork
  <2>4. CASE Operates(jent.journal, t)
    <3>1. ent'[t].backup # NoFile => ent[t].backup # NoFile \/ PutAside(t)
      BY <1>0, Zenon DEF Touched, LeftAlone, PutBack, PutIn, TakenOut, BackupCleaned, WrittenBy,
         SameTarget, SameBackup
    <3> QED BY <1>0, <1>1, <2>1, <2>3, <2>4, <3>1, Zenon DEF BackupOwned, JournalStays
  <2>5. CASE ~ Operates(jent.journal, t)
    BY <1>0, <2>1, <2>2, <2>5, SettledStays, Zenon DEF BackupOwned
  <2> QED BY <2>4, <2>5, Zenon
<1>2. CASE JournalRewritten
  <2>1. SameWork
    BY <1>2, Zenon DEF JournalRewritten, ForeignInv, WorkInv
  <2> QED BY <1>0, <1>2, <2>1, Zenon DEF JournalRewritten, SameWork, BackupOwned, Operates, Settled
<1>3. CASE JournalBegun
  <2>1. PICK m : m = [mem EXCEPT !.txn = txns + 1]
    BY Zenon
  <2>2. m # NoFile /\ m.plan = mem.plan /\ m.orig = mem.orig /\ jent'.journal = m /\ ent' = ent
    BY <1>3, <2>1, MemFields, NoFileIsNoJournal DEF Journal, JournalBegun
  <2>3. jent.journal = NoFile
    BY <1>3, Zenon DEF JournalBegun, ForeignInv, WorkInv
  <2>4. mem.plan[t] # "keep" /\ mem.orig[t] = NoFile => ent[t].backup = NoFile
    BY <1>3, Zenon DEF JournalBegun, ForeignInv, WorkInv
  <2> QED BY <1>0, <2>2, <2>3, <2>4, Zenon DEF BackupOwned, Operates, Settled
<1>4. CASE JournalRemoved
  <2>0. t > 0
    BY StoreAssumption DEF Target
  <2>1. idx = 0 /\ t > idx
    BY <1>4, <2>0, Zenon DEF JournalRemoved, ForeignInv, WorkInv
  <2>2. Settled(t)
    BY <1>4, <2>1, Zenon DEF JournalRemoved, ForeignInv, ProgressInv, Processed
  <2> QED BY <1>4, <2>2, Zenon DEF JournalRemoved, BackupOwned, Operates, Settled
<1> QED BY <1>1, <1>2, <1>3, <1>4, JournalsStep, Zenon

\* The session's journal value stands for the same work.
MemStays == mem'.txn = mem.txn /\ mem'.plan = mem.plan /\ mem'.orig = mem.orig

LEMMA SameWorkStays ==
    ASSUME SameWork, MemStays, JournalStays \/ JournalRewritten
    PROVE  SameWork'
  BY Zenon DEF SameWork, MemStays, JournalStays, JournalRewritten

\* The session is over, or a rollback begins: nothing is known, or processed yet.
LEMMA OverOrRollback ==
    ASSUME TypeOK, \/ pc' \in {"idle", "recover"}
                   \/ SameWork' /\ (pc' = "rbTarget" /\ idx' = N)
                   \/ SameWork' /\ (pc' = "cleanStage" /\ jent'.journal.state = "Committed")
                   \/ SameWork' /\ pc' \in {"stage", "record", "check", "commit"}
                   \/ SameWork' /\ (pc' \in {"verify", "install"} /\ mem'.plan[idx'] # "keep")
    PROVE  WorkInv' /\ ProgressInv'
<1>1. WorkInv'
  BY Zenon DEF WorkInv
<1>2. \A t \in Target : ~ t > N
  BY StoreAssumption DEF Target
<1>3. \A t \in Target : ~ Processed(t)'
  BY <1>2, Zenon DEF Processed
<1> QED BY <1>1, <1>3, Zenon DEF ProgressInv

\* The steps of a commit up to its committed journal.
LEMMA ApplyWork ==
    ASSUME TypeOK, ForeignInv, JournalStays \/ JournalRewritten,
           \/ StageFile \/ RecordInstalled \/ CheckOriginal \/ MoveToBackup
           \/ VerifyBackup \/ Install \/ Commit
    PROVE  WorkInv' /\ ProgressInv'
<1>0. SameWork
  BY Zenon DEF ForeignInv, WorkInv, StageFile, RecordInstalled, CheckOriginal, MoveToBackup, VerifyBackup,
     Install, Commit
<1>1. ASSUME Rollback PROVE WorkInv' /\ ProgressInv'
  BY <1>0, <1>1, SameWorkStays, OverOrRollback, Zenon DEF Rollback, MemStays
<1>2. ASSUME Failing(Rollback) PROVE WorkInv' /\ ProgressInv'
  BY <1>1, <1>2, OverOrRollback, Zenon DEF Failing, Die
<1>3. ASSUME NEW s \in {"stage", "record", "check", "commit"}, NEW i, Goto(s, i)
      PROVE  WorkInv' /\ ProgressInv'
  BY <1>0, <1>3, SameWorkStays, OverOrRollback, Zenon DEF Goto, MemStays
<1>4. ASSUME NEW i, Advance(i) PROVE WorkInv' /\ ProgressInv'
  BY <1>3, <1>4, Zenon DEF Advance
<1>5. ASSUME NEW s \in {"verify", "install"}, mem.plan[idx] # "keep", Goto(s, idx)
      PROVE  WorkInv' /\ ProgressInv'
  BY <1>0, <1>5, SameWorkStays, OverOrRollback, Zenon DEF Goto, MemStays
<1>6. CASE StageFile
  <2>1. CASE \E s \in {"stage", "record"} : Goto(s, idx + 1)
    BY <1>3, <2>1, Zenon
  <2>2. CASE mem' = [mem EXCEPT !.installed = @ \cup {idx}] /\ pc' \in {"stage", "record"}
    <3>1. MemStays
      BY <2>2, MemFields, Zenon DEF MemStays, Journal
    <3> QED BY <1>0, <2>2, <3>1, SameWorkStays, OverOrRollback, Zenon
  <2> QED BY <1>2, <1>6, <2>1, <2>2, Zenon DEF StageFile
<1>7. CASE RecordInstalled
  BY <1>2, <1>3, <1>7, Zenon DEF RecordInstalled
<1>8. CASE CheckOriginal
  <2>1. CASE Goto("move", idx) /\ mem.orig[idx] # NoFile /\ mem.plan[idx] # "keep"
    <3>1. SameWork' /\ pc' = "move" /\ mem' = mem /\ idx' = idx
      BY <1>0, <2>1, SameWorkStays, Zenon DEF Goto, MemStays
    <3> QED BY <2>1, <3>1, Zenon DEF WorkInv, ProgressInv, Processed
  <2>2. CASE Goto("install", idx) /\ mem.plan[idx] # "keep"
    BY <1>5, <2>2, Zenon
  <2> QED BY <1>1, <1>4, <1>8, <2>1, <2>2, Zenon DEF CheckOriginal
<1>9. CASE MoveToBackup
  <2>1. mem.plan[idx] # "keep"
    BY <1>9, Zenon DEF MoveToBackup, ForeignInv, WorkInv
  <2> QED BY <1>1, <1>5, <1>9, <2>1, Zenon DEF MoveToBackup
<1>10. CASE VerifyBackup
  <2>1. mem.plan[idx] # "keep"
    BY <1>10, Zenon DEF VerifyBackup, ForeignInv, WorkInv
  <2> QED BY <1>1, <1>4, <1>5, <1>10, <2>1, Zenon DEF VerifyBackup
<1>11. CASE Install
  BY <1>1, <1>2, <1>4, <1>11, Zenon DEF Install
<1>12. CASE Commit
  <2>1. PICK m : m = [mem EXCEPT !.state = "Committed"]
    BY Zenon
  <2>2. m.txn = mem.txn /\ m.plan = mem.plan /\ m.orig = mem.orig /\ m.state = "Committed"
    BY <2>1, MemFields, Zenon DEF Journal
  <2>3. CASE mem' = m /\ pc' = "rbTarget" /\ idx' = N
    BY <1>0, <2>2, <2>3, SameWorkStays, OverOrRollback, Zenon DEF MemStays
  <2>4. CASE WriteJournal(m) /\ mem' = m /\ pc' = "cleanStage"
    <3>1. jent'.journal = m
      BY <2>4, JournalPut, Zenon DEF WriteJournal
    <3> QED BY <1>0, <2>2, <2>4, <3>1, SameWorkStays, OverOrRollback, Zenon DEF MemStays
  <2>5. CASE pc' = "idle"
    BY <2>5, OverOrRollback, Zenon
  <2> QED BY <1>12, <2>1, <2>3, <2>4, <2>5, Zenon DEF Commit, Failing, Die, Return
<1> QED BY <1>6, <1>7, <1>8, <1>9, <1>10, <1>11, <1>12, Zenon

\* Opening the file set, and the first journal.
LEMMA OpenWork ==
    ASSUME TypeOK, ForeignInv, Stage \/ Drop \/ Prepare
    PROVE  WorkInv' /\ ProgressInv'
<1>1. CASE Stage
  <2>1. PICK t \in Target, change \in {"write", "remove"} :
            mem' = [mem EXCEPT !.plan[t] = change, !.orig[t] = ent[t].target]
    BY <1>1, Zenon DEF Stage
  <2>2. /\ mem'.plan = [mem.plan EXCEPT ![t] = change]
        /\ mem'.orig = [mem.orig EXCEPT ![t] = ent[t].target]
    BY <2>1, MemFields, Zenon DEF Journal
  <2>3. mem.plan \in [Target -> {"keep", "write", "remove"}] /\ mem.orig \in [Target -> Content]
    BY MemFields, Zenon DEF Journal
  <2>4. /\ mem'.orig[t] = ent[t].target
        /\ \A u \in Target : u # t => mem'.plan[u] = mem.plan[u] /\ mem'.orig[u] = mem.orig[u]
    BY <2>2, <2>3, Zenon
  <2>5. pc = "open" /\ pc' = pc /\ ent' = ent /\ jent' = jent /\ txns' = txns
    BY <1>1, Zenon DEF Stage, storeVars
  <2>6. jent.journal = NoFile
    BY <2>5, Zenon DEF ForeignInv, WorkInv
  <2>7. Settled(t) /\ UpTo(txns, ent[t].target)
    BY <2>6, Zenon DEF ForeignInv, KnownInv, BackupOwned, Operates
  <2>8. \A u \in Target : /\ UpTo(txns, mem'.orig[u])
                          /\ mem'.plan[u] # "keep" /\ mem'.orig[u] = NoFile => ent[u].backup = NoFile
    <3>1. ASSUME NEW u \in Target, u # t
          PROVE  /\ UpTo(txns, mem'.orig[u])
                 /\ mem'.plan[u] # "keep" /\ mem'.orig[u] = NoFile => ent[u].backup = NoFile
      BY <2>4, <2>5, <3>1, Zenon DEF ForeignInv, WorkInv
    <3> QED BY <2>4, <2>7, <3>1, Zenon DEF Settled
  <2> QED BY <2>5, <2>6, <2>8, Zenon DEF WorkInv, ProgressInv, Processed
<1>2. CASE Drop
  BY <1>2, OverOrRollback, Zenon DEF Drop, Return
<1>3. CASE Prepare
  <2>1. PICK m : m = [mem EXCEPT !.txn = txns + 1]
    BY Zenon
  <2>2. m # NoFile
    BY <2>1, MemFields, NoFileIsNoJournal DEF Journal
  <2>3. CASE WriteJournal(m) /\ mem' = m /\ pc' = "stage"
    <3>1. jent'.journal = m
      BY <2>3, JournalPut, Zenon DEF WriteJournal
    <3>2. SameWork'
      BY <2>2, <2>3, <3>1, Zenon DEF SameWork
    <3> QED BY <2>3, <3>2, OverOrRollback, Zenon
  <2>4. CASE pc' = "idle"
    BY <2>4, OverOrRollback, Zenon
  <2> QED BY <1>3, <2>1, <2>3, <2>4, Zenon DEF Prepare
<1> QED BY <1>1, <1>2, <1>3, Zenon

\* Beginning and ending a recovery.
LEMMA EndsWork ==
    ASSUME TypeOK, ForeignInv,
           \/ Lock \/ StartRecovery \/ StartRecoveryFails
           \/ FinishWithErrors \/ RemoveJournal \/ RemoveJournalFails
    PROVE  WorkInv' /\ ProgressInv'
<1>0. ASSUME pc' = "open", mem' = NoChanges, jent'.journal = NoFile
      PROVE  WorkInv' /\ ProgressInv'
  <2>1. \A t \in Target : NoChanges.plan[t] = "keep" /\ NoChanges.orig[t] = NoFile
    BY Zenon DEF NoChanges
  <2>2. UpTo(txns', NoFile)
    BY KindsOfContent, Zenon DEF UpTo
  <2> QED BY <1>0, <2>1, <2>2, Zenon DEF WorkInv, ProgressInv, Processed
<1>1. CASE Lock \/ StartRecoveryFails \/ FinishWithErrors \/ RemoveJournalFails
  BY <1>1, OverOrRollback, Zenon DEF Lock, StartRecoveryFails, FinishWithErrors, RemoveJournalFails,
     Failing, Return, Die
<1>2. CASE RemoveJournal
  <2>1. jent'.journal = NoFile
    BY <1>2, JournalPut, Zenon DEF RemoveJournal
  <2> QED BY <1>0, <1>2, <2>1, OverOrRollback, Zenon DEF RemoveJournal, Return
<1>3. CASE StartRecovery
  <2>1. jent'.journal = jent.journal
    BY <1>3, JournalStagePut, Zenon DEF StartRecovery, storeVars
  <2>2. CASE jent.journal = NoFile
    BY <1>0, <1>3, <2>1, <2>2, Zenon DEF StartRecovery
  <2>3. CASE jent.journal # NoFile
    <3>1. mem' = jent.journal /\ SameWork'
      BY <1>3, <2>1, <2>3, Zenon DEF StartRecovery, SameWork
    <3>2. jent.journal.state \in {"Prepared", "Committed"}
      BY <2>3, MemFields, Zenon DEF Journal
    <3> QED BY <1>3, <2>1, <2>3, <3>1, <3>2, OverOrRollback, Zenon DEF StartRecovery
  <2> QED BY <2>2, <2>3, Zenon
<1> QED BY <1>1, <1>2, <1>3, Zenon

\* A rollback or a cleanup goes on: what was processed stays settled.
LEMMA ProcessedStays ==
    ASSUME TypeOK, ForeignInv, errs = "none", NEW t \in Target, Touched(t), Processed(t),
           pc # "rbTarget" \/ t # idx
    PROVE  Settled(t)'
<1>1. Settled(t)
  BY Zenon DEF ForeignInv, ProgressInv
<1>2. ~ PutAside(t) /\ ~ TakenOut(t)
  BY Zenon DEF PutAside, TakenOut, Processed
<1> QED BY <1>1, <1>2, SettledStays, Zenon

\* The session dies, or goes to another step and reports what has failed.
Went(step, i, failed) ==
    \/ pc' = "idle"
    \/ pc' = step /\ idx' = i /\ mem' = mem /\ errs' = (IF failed THEN "some" ELSE errs)

LEMMA UnlinkWent ==
    ASSUME NEW t, NEW name, NEW step, NEW i, Unlink(t, name, step, i)
    PROVE  \/ Went(step, i, TRUE)
           \/ Went(step, i, FALSE) /\ \E synced \in BOOLEAN : PutEntry(t, [ent[t] EXCEPT ![name] = NoFile], synced)
  BY Zenon DEF Unlink, Failing, Die, GotoErr, Went

LEMMA ReportWent ==
    ASSUME NEW step, NEW i, NEW failed, Report(step, i, failed)
    PROVE  ent' = ent /\ (Went(step, i, failed) \/ Went(step, i, TRUE))
  BY Zenon DEF Report, GotoErr, Went, storeVars

LEMMA OwnedStageWent ==
    ASSUME NEW t, NEW step, NEW i, RemoveOwnedStage(t, step, i)
    PROVE  Went(step, i, TRUE) \/ Went(step, i, FALSE)
<1>1. CASE Goto(step, i)
  BY <1>1, Zenon DEF Goto, Went
<1>2. ASSUME NEW failed \in BOOLEAN, Report(step, i, failed)
      PROVE  Went(step, i, TRUE) \/ Went(step, i, FALSE)
  BY <1>2, ReportWent, Zenon
<1>3. CASE Unlink(t, "stage", step, i)
  BY <1>3, UnlinkWent, Zenon
<1> QED BY <1>1, <1>2, <1>3, Zenon DEF RemoveOwnedStage

LEMMA SkipWork ==
    ASSUME TypeOK, ForeignInv, RollbackSkip
    PROVE  WorkInv' /\ ProgressInv'
<1>0. idx \in Target /\ pc = "rbTarget" /\ ent' = ent /\ jent' = jent /\ mem' = mem
  BY Zenon DEF RollbackSkip, TypeOK, SessionTypeOK, AtOperation, storeVars, Goto, GotoErr
<1>1. SameWork /\ SameWork'
  BY <1>0, Zenon DEF ForeignInv, WorkInv, SameWork
<1>2. pc' = RollbackNext /\ idx' = idx - 1
  BY Zenon DEF RollbackSkip, Goto, GotoErr
<1>3. /\ idx \in Nat /\ pc' \in {"rbTarget", "finish"} /\ (pc' = "finish" => idx' = 0)
      /\ \A t \in Target : t > idx - 1 => t > idx \/ t = idx
  BY <1>0, <1>2, StoreAssumption DEF Target, RollbackNext
<1>4. WorkInv'
  BY <1>1, <1>3, Zenon DEF WorkInv
<1>5. ASSUME errs' = "none", NEW t \in Target, Processed(t)'
      PROVE  Settled(t)'
  <2>1. errs = "none" /\ mem.plan[idx] = "keep"
    BY <1>0, <1>5, Zenon DEF RollbackSkip, Goto, GotoErr, Planned
  <2>2. t > idx \/ t = idx
    BY <1>2, <1>3, <1>5, Zenon DEF Processed
  <2>3. CASE t = idx
    <3>1. Settled(t)
      BY <1>0, <1>1, <2>1, <2>3, Zenon DEF ForeignInv, KnownInv, BackupOwned, Operates, SameWork
    <3> QED BY <1>0, <3>1, Zenon DEF Settled
  <2>4. CASE t > idx
    <3>1. Settled(t)
      BY <1>0, <2>1, <2>4, Zenon DEF ForeignInv, ProgressInv, Processed
    <3> QED BY <1>0, <3>1, Zenon DEF Settled
  <2> QED BY <2>2, <2>3, <2>4, Zenon
<1> QED BY <1>4, <1>5, Zenon DEF ProgressInv

LEMMA TargetWork ==
    ASSUME TypeOK, ForeignInv, JournalStays, \A t \in Target : Touched(t), RollbackTarget
    PROVE  WorkInv' /\ ProgressInv'
<1>0. /\ idx \in Target /\ pc = "rbTarget" /\ mem.plan[idx] # "keep" /\ SameWork
      /\ ~ (idx > idx)
  BY DEF RollbackTarget, TypeOK, SessionTypeOK, AtOperation, Planned, ForeignInv, WorkInv, Target
<1>1. \E failed \in BOOLEAN : Went("rbBackup", idx, failed)
  <2>1. PICK failed \in BOOLEAN : \/ Report("rbBackup", idx, failed)
                                 \/ Unlink(idx, "target", "rbBackup", idx)
    BY Zenon DEF RollbackTarget
  <2> QED BY <2>1, ReportWent, UnlinkWent, Zenon
<1>2. CASE pc' = "idle"
  BY <1>2, OverOrRollback, Zenon
<1>3. CASE pc' # "idle"
  <2>1. pc' = "rbBackup" /\ idx' = idx /\ mem' = mem /\ (errs' = "none" => errs = "none")
    BY <1>1, <1>3, Zenon DEF Went
  <2>2. SameWork'
    BY <1>0, <2>1, SameWorkStays, Zenon DEF MemStays
  <2>3. WorkInv'
    BY <1>0, <2>1, <2>2, Zenon DEF WorkInv
  <2>4. ASSUME errs' = "none", NEW t \in Target, Processed(t)'
        PROVE  Settled(t)'
    BY <1>0, <2>1, <2>4, ProcessedStays, Zenon DEF Processed
  <2> QED BY <2>3, <2>4, Zenon DEF ProgressInv
<1> QED BY <1>2, <1>3, Zenon

LEMMA BackupWork ==
    ASSUME TypeOK, ForeignInv, JournalStays, \A t \in Target : Touched(t), RollbackBackup
    PROVE  WorkInv' /\ ProgressInv'
<1>0. idx \in Target /\ pc = "rbBackup" /\ mem.plan[idx] # "keep" /\ SameWork
  BY Zenon DEF RollbackBackup, TypeOK, SessionTypeOK, AtOperation, ForeignInv, WorkInv
<1>1. PICK bad \in BOOLEAN : bad <=> /\ mem.orig[idx] # NoFile
                                    /\ ~(/\ ent[idx].target = mem.orig[idx]
                                         /\ ent[idx].backup \in {NoFile, mem.orig[idx]})
  BY Zenon
<1>2. \/ Went("rbStage", idx, TRUE)
      \/ Went("rbStage", idx, bad) /\ ent' = ent
      \/ Went("rbStage", idx, FALSE) /\ ent'[idx].backup = NoFile
  <2>1. CASE PutEntry(idx, Restored(idx), TRUE) /\ GotoErr("rbStage", idx, FALSE)
    <3>1. ent'[idx] = Restored(idx)
      BY <1>0, <2>1, OthersAlone, Zenon
    <3>2. Restored(idx).backup = NoFile
      BY <1>0, EntryFields, Zenon DEF Entry, Restored
    <3> QED BY <2>1, <3>1, <3>2, Zenon DEF GotoErr, Went
  <2>2. CASE Failing(GotoErr("rbStage", idx, TRUE))
    BY <2>2, Zenon DEF Failing, Die, GotoErr, Went
  <2>3. CASE Report("rbStage", idx, bad)
    BY <2>3, ReportWent, Zenon
  <2> QED BY <1>1, <2>1, <2>2, <2>3, Zenon DEF RollbackBackup
<1>3. CASE pc' = "idle"
  BY <1>3, OverOrRollback, Zenon
<1>4. CASE pc' # "idle"
  <2>1. pc' = "rbStage" /\ idx' = idx /\ mem' = mem /\ (errs' = "none" => errs = "none")
    BY <1>2, <1>4, Zenon DEF Went
  <2>2. SameWork'
    BY <1>0, <2>1, SameWorkStays, Zenon DEF MemStays
  <2>3. WorkInv'
    BY <1>0, <2>1, <2>2, Zenon DEF WorkInv
  <2>4. ASSUME errs' = "none" PROVE Settled(idx)'
    <3>1. CASE ent'[idx].backup = NoFile
      BY <2>1, <3>1, Zenon DEF Settled
    <3>2. CASE ~ bad /\ ent' = ent
      <4>1. mem.orig[idx] = NoFile => ent[idx].backup = NoFile
        BY <1>0, Zenon DEF ForeignInv, KnownInv, BackupOwned, Operates, SameWork
      <4> QED BY <1>1, <2>1, <3>2, <4>1, Zenon DEF Settled
    <3> QED BY <1>2, <1>4, <2>4, <3>1, <3>2, Zenon DEF Went
  <2>5. ASSUME errs' = "none", NEW t \in Target, Processed(t)'
        PROVE  Settled(t)'
    <3>1. CASE t = idx
      BY <2>1, <2>4, <2>5, <3>1, Zenon DEF Settled
    <3>2. CASE t # idx
      BY <1>0, <2>1, <2>5, <3>2, ProcessedStays, Zenon DEF Processed
    <3> QED BY <3>1, <3>2, Zenon
  <2> QED BY <2>3, <2>5, Zenon DEF ProgressInv
<1> QED BY <1>3, <1>4, Zenon

LEMMA StageWork ==
    ASSUME TypeOK, ForeignInv, JournalStays, \A t \in Target : Touched(t), RollbackStage
    PROVE  WorkInv' /\ ProgressInv'
<1>0. idx \in Target /\ pc = "rbStage" /\ SameWork
  BY Zenon DEF RollbackStage, TypeOK, SessionTypeOK, AtOperation, ForeignInv, WorkInv
<1>1. Went(RollbackNext, idx - 1, TRUE) \/ Went(RollbackNext, idx - 1, FALSE)
  BY OwnedStageWent, Zenon DEF RollbackStage
<1>2. CASE pc' = "idle"
  BY <1>2, OverOrRollback, Zenon
<1>3. CASE pc' # "idle"
  <2>1. /\ pc' = RollbackNext /\ idx' = idx - 1 /\ mem' = mem
        /\ errs' = "none" => errs = "none"
    BY <1>1, <1>3, Zenon DEF Went
  <2>2. SameWork'
    BY <1>0, <2>1, SameWorkStays, Zenon DEF MemStays
  <2>3. /\ pc' \in {"rbTarget", "finish"} /\ (pc' = "finish" => idx' = 0)
        /\ \A t \in Target : t > idx - 1 => t > idx \/ t = idx
    BY <1>0, <2>1, StoreAssumption DEF Target, RollbackNext
  <2>4. WorkInv'
    BY <2>2, <2>3, Zenon DEF WorkInv
  <2>5. ASSUME errs' = "none", NEW t \in Target, Processed(t)'
        PROVE  Settled(t)'
    <3>1. Processed(t)
      BY <1>0, <2>1, <2>3, <2>5, Zenon DEF Processed
    <3> QED BY <1>0, <2>1, <2>5, <3>1, ProcessedStays, Zenon
  <2> QED BY <2>4, <2>5, Zenon DEF ProgressInv
<1> QED BY <1>2, <1>3, Zenon

LEMMA CleanStageWork ==
    ASSUME TypeOK, ForeignInv, JournalStays, CleanStage
    PROVE  WorkInv' /\ ProgressInv'
<1>0. idx \in Target /\ SameWork /\ jent.journal.state = "Committed"
  BY Zenon DEF CleanStage, TypeOK, SessionTypeOK, AtOperation, ForeignInv, WorkInv
<1>1. PICK step, i : /\ step = (IF idx = N THEN "cleanBackup" ELSE "cleanStage")
                     /\ i = IF idx = N THEN 1 ELSE idx + 1
                     /\ RemoveOwnedStage(idx, step, i)
  BY Zenon DEF CleanStage
<1>2. Went(step, i, TRUE) \/ Went(step, i, FALSE)
  BY <1>1, OwnedStageWent, Zenon
<1>3. CASE pc' = "idle"
  BY <1>3, OverOrRollback, Zenon
<1>4. CASE pc' # "idle"
  <2>1. pc' = step /\ idx' = i /\ mem' = mem
    BY <1>2, <1>4, Zenon DEF Went
  <2>2. SameWork' /\ jent'.journal.state = "Committed"
    BY <1>0, <2>1, SameWorkStays, Zenon DEF MemStays, JournalStays
  <2>3. WorkInv'
    BY <1>1, <2>1, <2>2, Zenon DEF WorkInv
  <2>4. \A t \in Target : ~ t < 1
    BY StoreAssumption DEF Target
  <2>5. \A t \in Target : ~ Processed(t)'
    BY <1>1, <2>1, <2>4, Zenon DEF Processed
  <2> QED BY <2>3, <2>5, Zenon DEF ProgressInv
<1> QED BY <1>3, <1>4, Zenon

LEMMA CleanBackupWork ==
    ASSUME TypeOK, ForeignInv, JournalStays, \A t \in Target : Touched(t), CleanBackup
    PROVE  WorkInv' /\ ProgressInv'
<1>0. /\ idx \in Target /\ pc = "cleanBackup" /\ SameWork /\ jent.journal.state = "Committed"
  BY Zenon DEF CleanBackup, TypeOK, SessionTypeOK, AtOperation, ForeignInv, WorkInv
<1>1. PICK step, i : /\ step = (IF idx = N THEN "finish" ELSE "cleanBackup")
                     /\ i = (IF idx = N THEN 0 ELSE idx + 1)
                     /\ \/ mem.orig[idx] = NoFile /\ UNCHANGED storeVars /\ Goto(step, i)
                        \/ ent[idx].backup = mem.orig[idx] /\ Unlink(idx, "backup", step, i)
                        \/ Report(step, i, ent[idx].backup # NoFile)
  BY Zenon DEF CleanBackup
<1>2. \/ Went(step, i, TRUE)
      \/ Went(step, i, FALSE) /\ mem.orig[idx] = NoFile /\ ent' = ent
      \/ Went(step, i, FALSE) /\ ent'[idx].backup = NoFile
  <2>1. CASE mem.orig[idx] = NoFile /\ UNCHANGED storeVars /\ Goto(step, i)
    BY <2>1, Zenon DEF storeVars, Goto, Went
  <2>2. CASE Unlink(idx, "backup", step, i)
    <3>1. ASSUME NEW synced, PutEntry(idx, [ent[idx] EXCEPT !.backup = NoFile], synced)
          PROVE  ent'[idx].backup = NoFile
      <4>1. ent'[idx] = [ent[idx] EXCEPT !.backup = NoFile]
        BY <1>0, <3>1, OthersAlone, Zenon
      <4> QED BY <1>0, <4>1, EntryFields, Zenon DEF Entry
    <3> QED BY <2>2, <3>1, UnlinkWent, Zenon
  <2>3. CASE Report(step, i, ent[idx].backup # NoFile)
    <3>1. ent' = ent /\ (Went(step, i, ent[idx].backup # NoFile) \/ Went(step, i, TRUE))
      BY <2>3, ReportWent, Zenon
    <3> QED BY <3>1, Zenon DEF Went
  <2> QED BY <1>1, <2>1, <2>2, <2>3, Zenon
<1>3. CASE pc' = "idle"
  BY <1>3, OverOrRollback, Zenon
<1>4. CASE pc' # "idle"
  <2>1. pc' = step /\ idx' = i /\ mem' = mem /\ (errs' = "none" => errs = "none")
    BY <1>2, <1>4, Zenon DEF Went
  <2>2. SameWork' /\ jent'.journal.state = "Committed"
    BY <1>0, <2>1, SameWorkStays, Zenon DEF MemStays, JournalStays
  <2>3. WorkInv'
    BY <1>1, <2>1, <2>2, Zenon DEF WorkInv
  <2>4. ASSUME errs' = "none", NEW t \in Target, t = idx PROVE Settled(t)'
    <3>1. CASE ent'[t].backup = NoFile
      BY <3>1, Zenon DEF Settled
    <3>2. CASE mem.orig[t] = NoFile /\ ent' = ent
      BY <1>0, <2>4, <3>2, Zenon DEF ForeignInv, KnownInv, BackupOwned, Operates, SameWork, Settled
    <3> QED BY <1>2, <1>4, <2>4, <3>1, <3>2, Zenon DEF Went
  <2>5. \A t \in Target : (step = "finish" \/ t < i) => t < idx \/ t = idx
    BY <1>0, <1>1, StoreAssumption DEF Target
  <2>6. ASSUME errs' = "none", NEW t \in Target, Processed(t)'
        PROVE  Settled(t)'
    <3>1. t < idx \/ t = idx
      BY <1>1, <2>1, <2>5, <2>6, Zenon DEF Processed
    <3>2. CASE t = idx
      BY <2>4, <2>6, <3>2, Zenon
    <3>3. CASE t < idx
      BY <1>0, <2>1, <2>6, <3>3, ProcessedStays, Zenon DEF Processed
    <3> QED BY <3>1, <3>2, <3>3, Zenon
  <2> QED BY <2>3, <2>6, Zenon DEF ProgressInv
<1> QED BY <1>3, <1>4, Zenon

\* The other program, and nothing at all.
LEMMA InterfereWork ==
    ASSUME TypeOK, ForeignInv, \A t \in Target : Touched(t), Interfere \/ UNCHANGED vars
    PROVE  WorkInv' /\ ProgressInv'
<1>0. UNCHANGED <<pc, mem, idx, errs, purpose, result, txns>> /\ jent' = jent
  BY Zenon DEF Interfere, ForeignWrite, PutEntry, sessionVars, vars
<1>1. \A t \in Target : ent[t].backup = NoFile => ent'[t].backup = NoFile \/ pc = "move"
  BY Zenon DEF Touched, LeftAlone, PutAside, PutBack, PutIn, TakenOut, BackupCleaned, WrittenBy,
     SameTarget, SameBackup
<1>2. WorkInv'
  BY <1>0, <1>1, Zenon DEF ForeignInv, WorkInv, SameWork
<1>3. ASSUME errs' = "none", NEW t \in Target, Processed(t)'
      PROVE  Settled(t)'
  <2>1. errs = "none" /\ Processed(t)
    BY <1>0, <1>3, Zenon DEF Processed
  <2>2. CASE pc = "rbTarget" /\ t = idx
    <3>1. ~ (idx > idx)
      BY DEF TypeOK, SessionTypeOK
    <3> QED BY <2>1, <2>2, <3>1, Zenon DEF Processed
  <2> QED BY <2>1, <2>2, ProcessedStays, Zenon
<1> QED BY <1>2, <1>3, Zenon DEF ProgressInv

LEMMA RecoveryWork ==
    ASSUME TypeOK, ForeignInv, RecoveryStep
    PROVE  WorkInv' /\ ProgressInv'
<1>1. \A t \in Target : Touched(t)
  BY RecoveryNames, Zenon
<1>2. ASSUME RollbackTarget \/ RollbackBackup \/ RollbackStage \/ CleanStage \/ CleanBackup
      PROVE  WorkInv' /\ ProgressInv'
  <2>1. pc # "finish"
    BY <1>2, Zenon DEF RollbackTarget, RollbackBackup, RollbackStage, CleanStage, CleanBackup, AtOperation
  <2>2. JournalStays
    BY <2>1, RecoveryJournals, Zenon DEF JournalRemoved
  <2> QED BY <1>1, <1>2, <2>2, TargetWork, BackupWork, StageWork, CleanStageWork, CleanBackupWork, Zenon
<1> QED BY <1>2, EndsWork, SkipWork, Zenon DEF RecoveryStep

LEMMA ForeignInvStep ==
    ASSUME TypeOK, ForeignInv, [Next]_vars, ~ PowerLoss
    PROVE  ForeignInv'
<1>0. env' = Env /\ \A t \in Target : Touched(t)
  BY NamesStep, Zenon DEF ForeignInv
<1>1. KnownInv'
  BY AgesStep, BegunStep, OwnedStep, Zenon DEF KnownInv, UpTo
<1>2. WorkInv' /\ ProgressInv'
  <2>1. CASE \/ StageFile \/ RecordInstalled \/ CheckOriginal \/ MoveToBackup
             \/ VerifyBackup \/ Install \/ Commit
    <3>1. pc \notin {"open", "finish"}
      BY <2>1, Zenon DEF StageFile, RecordInstalled, CheckOriginal, MoveToBackup, VerifyBackup, Install, Commit
    <3>2. JournalStays \/ JournalRewritten
      BY <3>1, JournalsStep, Zenon DEF JournalBegun, JournalRemoved
    <3> QED BY <2>1, <3>2, ApplyWork, Zenon
  <2>2. CASE Stage \/ Drop \/ Prepare
    BY <2>2, OpenWork, Zenon
  <2>3. CASE RecoveryStep
    BY <2>3, RecoveryWork, Zenon
  <2>4. CASE Crash
    BY <2>4, OverOrRollback, Zenon DEF Crash, Die
  <2>5. CASE Interfere \/ UNCHANGED vars
    BY <1>0, <2>5, InterfereWork, Zenon
  <2> QED BY <2>1, <2>2, <2>3, <2>4, <2>5, Zenon DEF Next, SessionStep, Disturbance
<1> QED BY <1>0, <1>1, <1>2, Zenon DEF ForeignInv

LEMMA ForeignInit == Init => ForeignInv
<1> SUFFICES ASSUME Init PROVE ForeignInv
  BY Zenon
<1>1. /\ \A t \in Target : ent[t].target \in {0, NoFile} /\ ent[t].backup = NoFile
      /\ jent.journal = NoFile /\ env = Env
  BY DEF Init, StoreInit
<1>2. pc = "idle" /\ txns = 0
  BY Zenon DEF Init, SessionInit
<1>3. UpTo(txns, 0) /\ UpTo(txns, NoFile)
  BY <1>2, KindsOfContent DEF UpTo
<1>4. KnownInv
  BY <1>1, <1>3, Zenon DEF KnownInv, BackupOwned, Operates, Settled
<1>5. WorkInv /\ ProgressInv
  BY <1>2, Zenon DEF WorkInv, ProgressInv, Processed
<1> QED BY <1>1, <1>4, <1>5, Zenon DEF ForeignInv

(***************************************************************************)
(* With another program writing at every name at any time, with faults and *)
(* crashes, and with the power staying on.                                 *)
(***************************************************************************)
THEOREM ForeignInductive ==
    ASSUME "powerloss" \notin Env
    PROVE  Spec => []ForeignInv
<1>1. TypeOK /\ ForeignInv /\ [Next]_vars => ForeignInv'
  <2>1. ForeignInv => ~ PowerLoss
    BY Zenon DEF ForeignInv, PowerLoss
  <2> QED BY <2>1, ForeignInvStep, Zenon
<1> QED BY <1>1, ForeignInit, Types, PTL DEF Spec

\* As many foreign files are at the two names of a target afterwards.
LEMMA ForeignStays ==
    ASSUME TypeOK, NEW t \in Target, Touched(t), mem.orig[t] # Foreign
    PROVE  ForeignFiles(t) <= ForeignFiles(t)'
<1>1. mem.txn # Foreign /\ NoFile # Foreign
  BY MemFields, KindsOfContent, Zenon
<1>2. \/ /\ ent[t].target = Foreign => ent'[t].target = Foreign
         /\ ent[t].backup = Foreign => ent'[t].backup = Foreign
      \/ /\ ent[t].target # Foreign /\ (ent[t].backup = Foreign => ent'[t].target = Foreign)
      \/ /\ ent[t].backup # Foreign /\ (ent[t].target = Foreign => ent'[t].backup = Foreign)
  BY <1>1, Zenon DEF Touched, LeftAlone, PutAside, PutBack, PutIn, TakenOut, BackupCleaned, WrittenBy,
     SameTarget, SameBackup
<1> QED BY <1>2 DEF ForeignFiles

(***************************************************************************)
(* No step but a power loss destroys a file that another program put at a  *)
(* target after the snapshot.  (ForeignKept)                               *)
(***************************************************************************)
THEOREM ForeignFilesKept ==
    ASSUME "powerloss" \notin Env
    PROVE  Spec => ForeignKept
<1>1. TypeOK /\ ForeignInv /\ [Next]_vars
        => [\A t \in Target : mem.orig[t] # Foreign => ForeignFiles(t) <= ForeignFiles(t)']_vars
  <2> SUFFICES ASSUME TypeOK, ForeignInv, [Next]_vars, NEW t \in Target, mem.orig[t] # Foreign
               PROVE  ForeignFiles(t) <= ForeignFiles(t)'
    BY Zenon
  <2>1. Touched(t)
    BY NamesStep, Zenon DEF ForeignInv, PowerLoss
  <2> QED BY <2>1, ForeignStays, Zenon
<1> QED BY <1>1, Types, ForeignInductive, PTL DEF Spec, ForeignKept

(***************************************************************************)
(* No step of the code destroys an original while the journal is prepared, *)
(* whatever another program has put at any name.  (OriginalKept)           *)
(***************************************************************************)
THEOREM OriginalsKept ==
    ASSUME "powerloss" \notin Env
    PROVE  Spec => OriginalKept
<1>1. ASSUME TypeOK, ForeignInv, [Next]_vars, jent.journal # NoFile, jent.journal.state = "Prepared",
             NEW t \in Planned(jent.journal),
             jent.journal.orig[t] \in {ent[t].target, ent[t].backup}, ~ForeignWrite
      PROVE  jent.journal.orig[t] \in {ent[t].target, ent[t].backup}'
  <2>1. t \in Target /\ Operates(jent.journal, t)
    BY <1>1, Zenon DEF Planned, Operates
  <2>2. Touched(t) /\ ~ WrittenBy(t)
    BY <1>1, <2>1, NamesStep, Zenon DEF ForeignInv, PowerLoss, WrittenBy
  <2>3. PICK o : o = jent.journal.orig[t]
    BY Zenon
  <2>4. /\ o \in {ent[t].target, ent[t].backup}
        /\ o = NoFile => ent[t].backup = NoFile
        /\ o # jent.journal.txn
    BY <1>1, <2>1, <2>3, Zenon DEF ForeignInv, KnownInv, BackupOwned, Begun
  <2>5. PutAside(t) => o # NoFile
    BY <1>1, <2>3, Zenon DEF PutAside, ForeignInv, WorkInv, SameWork
  <2>6. TakenOut(t) => mem.txn = jent.journal.txn
    BY <1>1, Zenon DEF TakenOut, ForeignInv, WorkInv, SameWork
  <2>7. ~ BackupCleaned(t)
    BY <1>1, Zenon DEF BackupCleaned, ForeignInv, WorkInv
  <2>8. o = ent'[t].target \/ o = ent'[t].backup
    BY <2>2, <2>4, <2>5, <2>6, <2>7, Zenon
    DEF Touched, LeftAlone, PutAside, PutBack, PutIn, TakenOut, SameTarget, SameBackup
  <2> QED BY <2>3, <2>8, Zenon
<1>2. TypeOK /\ ForeignInv /\ [Next]_vars
        => [jent.journal # NoFile /\ jent.journal.state = "Prepared" =>
              \A t \in Planned(jent.journal) :
                 jent.journal.orig[t] \in {ent[t].target, ent[t].backup} /\ ~ForeignWrite
                   => \/ jent.journal.orig[t] \in {ent[t].target, ent[t].backup}'
                      \/ jent'.journal # NoFile /\ jent'.journal.state = "Committed"]_vars
  BY <1>1, Zenon
<1> QED BY <1>2, Types, ForeignInductive, PTL DEF Spec, OriginalKept

-----------------------------------------------------------------------------
(***************************************************************************)
(* The contents of the journal's directory, step by step.                  *)
(***************************************************************************)

\* What the contents of the directory consist of.
LEMMA ViewParts ==
    ASSUME NEW e, NEW j
    PROVE  /\ View(JournalDir, e, j).jent = j
           /\ \A t \in Target : DirOf[t] = JournalDir => View(JournalDir, e, j).ent[t] = e[t]
  BY Zenon DEF View, TargetsIn

\* A target in another directory does not show.
LEMMA ViewElsewhere ==
    ASSUME StoreTypeOK, NEW t \in Target, NEW e, NEW j, DirOf[t] # JournalDir
    PROVE  View(JournalDir, [ent EXCEPT ![t] = e], j) = View(JournalDir, ent, j)
<1>1. \A u \in TargetsIn(JournalDir) : [ent EXCEPT ![t] = e][u] = ent[u]
  BY Zenon DEF TargetsIn, StoreTypeOK
<1> QED BY <1>1, Zenon DEF View

\* A step changes nothing in the store, the names of a target, or those of the journal.
StoreStep ==
    \/ UNCHANGED storeVars
    \/ \E t \in Target, synced \in BOOLEAN : \E e : PutEntry(t, e, synced)
    \/ \E j, synced : synced \in BOOLEAN /\ PutJournal(j, synced)

LEMMA UnlinkStore ==
    ASSUME NEW t \in Target, NEW name, NEW step, NEW i, Unlink(t, name, step, i)
    PROVE  StoreStep
  BY Zenon DEF Unlink, StoreStep

LEMMA StageStore ==
    ASSUME NEW t \in Target, NEW step, NEW i, RemoveOwnedStage(t, step, i)
    PROVE  StoreStep
  BY UnlinkStore, Zenon DEF RemoveOwnedStage, Report, StoreStep

LEMMA RecoveryStores ==
    ASSUME TypeOK, RecoveryStep
    PROVE  StoreStep
<1>1. CASE Lock \/ FinishWithErrors \/ RollbackSkip
  BY <1>1, Zenon DEF Lock, FinishWithErrors, RollbackSkip, StoreStep
<1>2. CASE StartRecovery \/ StartRecoveryFails
  BY <1>2, Zenon DEF StartRecovery, StartRecoveryFails, StoreStep
<1>3. CASE RemoveJournal \/ RemoveJournalFails
  BY <1>3, Zenon DEF RemoveJournal, RemoveJournalFails, StoreStep
<1>4. ASSUME RollbackTarget \/ RollbackBackup \/ RollbackStage \/ CleanStage \/ CleanBackup
      PROVE  idx \in Target
  BY <1>4, Zenon DEF RollbackTarget, RollbackBackup, RollbackStage, CleanStage, CleanBackup, TypeOK,
              SessionTypeOK, AtOperation
<1>5. CASE RollbackTarget
  BY <1>4, <1>5, UnlinkStore, Zenon DEF RollbackTarget, Report, StoreStep
<1>6. CASE RollbackBackup
  BY <1>4, <1>6, Zenon DEF RollbackBackup, Report, StoreStep
<1>7. CASE RollbackStage \/ CleanStage
  BY <1>4, <1>7, StageStore, Zenon DEF RollbackStage, CleanStage
<1>8. CASE CleanBackup
  BY <1>4, <1>8, UnlinkStore, Zenon DEF CleanBackup, Report, StoreStep
<1> QED BY <1>1, <1>2, <1>3, <1>5, <1>6, <1>7, <1>8, Zenon DEF RecoveryStep

LEMMA Stores ==
    ASSUME TypeOK, [Next]_vars, ~ PowerLoss
    PROVE  StoreStep
<1>1. CASE UNCHANGED vars \/ Stage \/ Drop \/ CheckOriginal \/ Crash
  BY <1>1, Zenon DEF vars, storeVars, Stage, Drop, CheckOriginal, Crash, StoreStep
<1>2. CASE Prepare \/ RecordInstalled \/ Commit
  <2>1. CASE \E m : WriteJournal(m) \/ WriteJournalNotSynced(m)
    BY <2>1, Zenon DEF WriteJournal, WriteJournalNotSynced, StoreStep
  <2>2. CASE WriteJournalNotRenamed
    BY <2>2, Zenon DEF WriteJournalNotRenamed, StoreStep
  <2> QED BY <1>2, <2>1, <2>2, Zenon DEF Prepare, RecordInstalled, Commit
<1>3. ASSUME StageFile \/ MoveToBackup \/ VerifyBackup \/ Install
      PROVE  idx \in Target
  BY <1>3, Zenon DEF StageFile, MoveToBackup, VerifyBackup, Install, TypeOK, SessionTypeOK, AtOperation
<1>4. CASE StageFile
  BY <1>3, <1>4, Zenon DEF StageFile, StoreStep
<1>5. CASE MoveToBackup
  BY <1>3, <1>5, Zenon DEF MoveToBackup, StoreStep
<1>6. CASE VerifyBackup
  BY <1>3, <1>6, Zenon DEF VerifyBackup, StoreStep
<1>7. CASE Install
  BY <1>3, <1>7, Zenon DEF Install, StoreStep
<1>8. CASE Interfere
  BY <1>8, Zenon DEF Interfere, ForeignWrite, StoreStep
<1> QED BY <1>1, <1>2, <1>4, <1>5, <1>6, <1>7, <1>8, RecoveryStores, Zenon
        DEF Next, SessionStep, Disturbance

\* What is visible in the directory becomes one of the contents that a power loss may leave: the only one
\* after a sync, and otherwise beside those there were.
LEMMA DiskStep ==
    ASSUME TypeOK, StoreStep
    PROVE  LET now == View(JournalDir, ent', jent')
           IN  \/ disk'[JournalDir] = {now}
               \/ disk'[JournalDir] = disk[JournalDir] \cup {now}
               \/ disk'[JournalDir] = disk[JournalDir] /\ now = View(JournalDir, ent, jent)
<1>1. CASE UNCHANGED storeVars
  BY <1>1, Zenon DEF storeVars
<1>2. disk = [d \in Dir |-> disk[d]] /\ JournalDir \in Dir
  BY StoreAssumption, Zenon DEF TypeOK, StoreTypeOK
<1>3. ASSUME NEW t \in Target, NEW synced \in BOOLEAN, NEW e, PutEntry(t, e, synced),
             DirOf[t] = JournalDir
      PROVE  \/ disk'[JournalDir] = {View(JournalDir, ent', jent')}
             \/ disk'[JournalDir] = disk[JournalDir] \cup {View(JournalDir, ent', jent')}
  BY <1>2, <1>3, Zenon DEF PutEntry, After
<1>4. ASSUME NEW t \in Target, NEW synced \in BOOLEAN, NEW e, PutEntry(t, e, synced),
             DirOf[t] # JournalDir
      PROVE  /\ disk'[JournalDir] = disk[JournalDir]
             /\ View(JournalDir, ent', jent') = View(JournalDir, ent, jent)
  <2>1. disk'[JournalDir] = disk[JournalDir]
    BY <1>2, <1>4, Zenon DEF PutEntry, After
  <2>2. ent' = [ent EXCEPT ![t] = e] /\ jent' = jent
    BY <1>4, Zenon DEF PutEntry
  <2> QED BY <1>4, <2>1, <2>2, ViewElsewhere, Zenon DEF TypeOK
<1>5. ASSUME NEW j, NEW synced \in BOOLEAN, PutJournal(j, synced)
      PROVE  \/ disk'[JournalDir] = {View(JournalDir, ent', jent')}
             \/ disk'[JournalDir] = disk[JournalDir] \cup {View(JournalDir, ent', jent')}
  BY <1>2, <1>5, Zenon DEF PutJournal, After
<1> QED BY <1>1, <1>3, <1>4, <1>5, Zenon DEF StoreStep

-----------------------------------------------------------------------------
(***************************************************************************)
(* The invariant DiskInv.                                                  *)
(***************************************************************************)
LEMMA LaterBound ==
    ASSUME NEW k \in Nat, NEW l \in Nat, k <= l, NEW f, UpTo(k, f)
    PROVE  UpTo(l, f)
  BY DEF UpTo

\* The visible contents are sound.
LEMMA StoreViews == Together /\ TypeOK /\ StoreInv => ViewSound(View(JournalDir, ent, jent))
<1> SUFFICES ASSUME Together, TypeOK, StoreInv
             PROVE  ViewSound(View(JournalDir, ent, jent))
  BY Zenon
<1>1. PICK v : v = View(JournalDir, ent, jent)
  BY Zenon
<1>2. v.jent = jent /\ \A t \in Target : v.ent[t] = ent[t]
  BY <1>1, ViewParts DEF Together
<1>3. \A t \in Target : UpTo(txns, v.ent[t].target)
  BY <1>2, Zenon DEF StoreInv, Fresh
<1>4. CASE jent.journal = NoFile
  <2>1. \A t \in Target : v.ent[t].stage = NoFile /\ v.ent[t].backup = NoFile
    BY <1>2, <1>4, Zenon DEF StoreInv, FilesInv, NoSiblings
  <2> QED BY <1>1, <1>2, <1>3, <1>4, <2>1, Zenon DEF ViewSound
<1>5. CASE jent.journal # NoFile
  <2>1. PICK m : m = jent.journal
    BY Zenon
  <2>2. /\ m # NoFile /\ WellFormed(m) /\ Begun(m) /\ SiblingsOwned(m)
        /\ m.state = "Prepared" => PreparedInv(m)
        /\ m.state = "Committed" => CommittedInv(m)
    BY <1>5, <2>1, Zenon DEF StoreInv, FilesInv
  <2>3. ASSUME NEW t \in Target
        PROVE  Fits(m, t, v.ent[t])
    <3>1. m.plan[t] # "keep" /\ m.state = "Prepared" =>
             /\ \/ ent[t].target = m.orig[t] /\ ent[t].backup = NoFile
                \/ ent[t].target = NoFile /\ ent[t].backup = m.orig[t]
                \/ ent[t].target = Desired(m, t) /\ ent[t].backup = m.orig[t]
             /\ m.plan[t] = "write" /\ ent[t].target = m.txn => t \in m.installed
      BY <2>2, Zenon DEF PreparedInv, Planned, Untouched, MovedAside, Applied
    <3>2. m.plan[t] # "keep" /\ m.state = "Committed" =>
             /\ ent[t].target = Desired(m, t) /\ ent[t].backup \in {NoFile, m.orig[t]}
             /\ ent[t].stage = NoFile
      BY <2>2, Zenon DEF CommittedInv, Planned
    <3>3. /\ m.plan[t] = "keep" => ent[t].stage = NoFile /\ ent[t].backup = NoFile
          /\ m.plan[t] = "remove" => ent[t].stage = NoFile
          /\ ent[t].stage \in {NoFile, Torn, m.txn}
          /\ t \in m.installed => ent[t].stage # Torn
      BY <2>2, Zenon DEF SiblingsOwned, NoSiblings
    <3> QED BY <1>2, <3>1, <3>2, <3>3, Zenon DEF Fits
  <2> QED BY <1>1, <1>2, <1>3, <2>1, <2>2, <2>3, Zenon DEF ViewSound
<1> QED BY <1>4, <1>5, Zenon

\* And contents that are sound stay so when further transactions begin.
LEMMA ViewSoundStays ==
    ASSUME TypeOK, TypeOK', txns <= txns', NEW v \in disk[JournalDir], ViewSound(v)
    PROVE  ViewSound(v)'
<1>1. txns \in Nat /\ txns' \in Nat
  BY Zenon DEF TypeOK, SessionTypeOK
<1>2. v.jent.journal # NoFile => v.jent.journal \in Journal
  BY StoreAssumption, Zenon DEF TypeOK, StoreTypeOK, ViewType, JournalEntry
<1>3. PICK m : m = v.jent.journal
  BY Zenon
<1>4. (\A t \in Target : UpTo(txns, v.ent[t].target))'
  <2>1. \A t \in Target : UpTo(txns, v.ent[t].target)
    BY Zenon DEF ViewSound
  <2>2. \A t \in Target : UpTo(txns', v.ent[t].target)
    BY <1>1, <2>1, LaterBound, Zenon
  <2> QED BY <2>2, Zenon
<1>5. CASE m # NoFile
  <2>1. m.txn \in Nat
    BY <1>2, <1>3, <1>5, Zenon DEF Journal
  <2>2. Begun(m)'
    <3>1. m.txn <= txns'
      BY <1>1, <1>3, <1>5, <2>1 DEF ViewSound, Begun
    <3> QED BY <1>3, <1>5, <3>1, Zenon DEF ViewSound, Begun
  <2>3. WellFormed(m)'
    BY <1>1, <1>3, <1>5, LaterBound, Zenon DEF ViewSound, WellFormed
  <2> QED BY <1>3, <1>4, <1>5, <2>2, <2>3, Zenon DEF ViewSound
<1> QED BY <1>3, <1>4, <1>5, Zenon DEF ViewSound

\* A step of a session that begins no transaction and reports no final outcome.
Final(kind) == kind \in {"ok", "rolledBack"}
Plain == txns' = txns /\ (result' = result \/ ~ Final(result'.kind))

LEMMA PlainSteps ==
    /\ \A step, i : Goto(step, i) => Plain
    /\ \A step, i, failed : GotoErr(step, i, failed) => Plain
    /\ \A kind : Return(kind) /\ ~ Final(kind) => Plain
    /\ Die => Plain
    /\ Rollback => Plain
  BY DEF Goto, GotoErr, Return, Die, Rollback, Plain, Final

LEMMA PlainParts ==
    /\ \A t, name, step, i : Unlink(t, name, step, i) => Plain
    /\ \A step, i, failed : Report(step, i, failed) => Plain
    /\ \A t, step, i : RemoveOwnedStage(t, step, i) => Plain
    /\ Failing(Rollback) => Plain
    /\ \A i : Advance(i) => Plain
<1>1. \A t, name, step, i : Unlink(t, name, step, i) => Plain
  BY PlainSteps, Zenon DEF Unlink, Failing
<1>2. \A step, i, failed : Report(step, i, failed) => Plain
  BY PlainSteps, Zenon DEF Report
<1>3. \A t, step, i : RemoveOwnedStage(t, step, i) => Plain
  BY <1>1, <1>2, PlainSteps, Zenon DEF RemoveOwnedStage
<1>4. Failing(Rollback) => Plain
  BY PlainSteps, Zenon DEF Failing
<1>5. \A i : Advance(i) => Plain
  BY PlainSteps, Zenon DEF Advance
<1> QED BY <1>1, <1>2, <1>3, <1>4, <1>5, Zenon

LEMMA PlainRecovery ==
    ASSUME RecoveryStep, ~ RemoveJournal
    PROVE  Plain
<1>1. CASE Lock
  BY <1>1, Zenon DEF Lock, Plain, Final
<1>2. CASE StartRecovery \/ StartRecoveryFails
  <2>1. Return("error") => Plain
    BY PlainSteps, Zenon DEF Final
  <2> QED BY <1>2, <2>1, PlainSteps, Zenon DEF StartRecovery, StartRecoveryFails, Failing, Plain
<1>3. CASE RollbackTarget \/ RollbackStage \/ RollbackSkip
  BY <1>3, PlainSteps, PlainParts, Zenon DEF RollbackTarget, RollbackStage, RollbackSkip
<1>4. CASE RollbackBackup
  BY <1>4, PlainSteps, PlainParts, Zenon DEF RollbackBackup, Failing
<1>5. CASE CleanStage \/ CleanBackup
  BY <1>5, PlainSteps, PlainParts, Zenon DEF CleanStage, CleanBackup
<1>6. CASE FinishWithErrors \/ RemoveJournalFails
  <2>1. Return("incomplete") => Plain
    BY PlainSteps, Zenon DEF Final
  <2> QED BY <1>6, <2>1, PlainSteps, Zenon DEF FinishWithErrors, RemoveJournalFails, Failing
<1> QED BY <1>1, <1>2, <1>3, <1>4, <1>5, <1>6, Zenon DEF RecoveryStep

LEMMA PlainNext ==
    ASSUME Next, ~ RemoveJournal, ~ Prepare
    PROVE  Plain
<1>1. CASE Stage \/ Drop
  <2>1. Return("none") => Plain
    BY PlainSteps, Zenon DEF Final
  <2> QED BY <1>1, <2>1, Zenon DEF Stage, Drop, Plain
<1>2. CASE StageFile \/ RecordInstalled
  BY <1>2, PlainSteps, PlainParts, Zenon DEF StageFile, RecordInstalled, Plain
<1>3. CASE CheckOriginal \/ MoveToBackup
  BY <1>3, PlainSteps, PlainParts, Zenon DEF CheckOriginal, MoveToBackup
<1>4. CASE VerifyBackup \/ Install
  BY <1>4, PlainSteps, PlainParts, Zenon DEF VerifyBackup, Install
<1>5. CASE Commit
  <2>1. Return("uncertain") => Plain
    BY PlainSteps, Zenon DEF Final
  <2> QED BY <1>5, <2>1, PlainSteps, Zenon DEF Commit, Failing, Plain
<1>6. CASE Disturbance
  BY <1>6, PlainSteps, Zenon DEF Disturbance, Crash, PowerLoss, Interfere, sessionVars, Plain
<1> QED BY <1>1, <1>2, <1>3, <1>4, <1>5, <1>6, PlainRecovery, Zenon DEF Next, SessionStep

\* The number of transactions only grows.
LEMMA TxnsGrow ==
    ASSUME TypeOK, [Next]_vars
    PROVE  txns <= txns'
<1>1. txns \in Nat
  BY Zenon DEF TypeOK, SessionTypeOK
<1>2. CASE UNCHANGED vars
  BY <1>1, <1>2 DEF vars
<1>5. CASE RemoveJournal
  <2>1. txns' = txns
    BY <1>5, Zenon DEF RemoveJournal, Return
  <2> QED BY <1>1, <2>1
<1>3. CASE Prepare
  BY <1>1, <1>3 DEF Prepare
<1>4. CASE Plain
  BY <1>1, <1>4 DEF Plain
<1> QED BY <1>2, <1>3, <1>4, <1>5, PlainNext, Zenon

\* Without a session, one may begin, or something comes from outside.
LEMMA IdleSteps ==
    ASSUME Next, pc = "idle"
    PROVE  Lock \/ PowerLoss \/ Interfere
<1>1. ~ (Stage \/ Drop \/ Prepare \/ StageFile \/ RecordInstalled)
  BY Zenon DEF Stage, Drop, Prepare, StageFile, RecordInstalled
<1>2. ~ (CheckOriginal \/ MoveToBackup \/ VerifyBackup \/ Install \/ Commit)
  BY Zenon DEF CheckOriginal, MoveToBackup, VerifyBackup, Install, Commit
<1>3. ~ (StartRecovery \/ StartRecoveryFails \/ FinishWithErrors \/ RemoveJournal \/ RemoveJournalFails)
  BY Zenon DEF StartRecovery, StartRecoveryFails, FinishWithErrors, RemoveJournal, RemoveJournalFails
<1>4. ~ (RollbackTarget \/ RollbackBackup \/ RollbackStage \/ RollbackSkip \/ CleanStage \/ CleanBackup)
  BY Zenon DEF RollbackTarget, RollbackBackup, RollbackStage, RollbackSkip, CleanStage, CleanBackup
<1>5. ~ Crash
  BY Zenon DEF Crash
<1> QED BY <1>1, <1>2, <1>3, <1>4, <1>5, Zenon DEF Next, SessionStep, RecoveryStep, Disturbance

\* A final outcome is told when the journal is removed.
LEMMA FinalStep ==
    ASSUME IndInv, [Next]_vars, Calm(Env), Final(result'.kind)
    PROVE  RemoveJournal \/ UNCHANGED vars
<1>1. pc # "idle" => ~ Final(result.kind)
  BY Zenon DEF IndInv, SessionInv, Final
<1>2. CASE Prepare
  <2>1. ~ Final(result.kind)
    BY <1>1, <1>2, Zenon DEF Prepare
  <2>2. result' = result \/ result'.kind = "error"
    BY <1>2 DEF Prepare
  <2> QED BY <2>1, <2>2, Zenon DEF Final
<1>3. CASE Next /\ Plain
  <2>1. result' = result /\ Final(result.kind) /\ pc = "idle"
    BY <1>1, <1>3, Zenon DEF Plain
  <2>2. ~ Interfere
    BY Zenon DEF Interfere, ForeignWrite, Calm, IndInv
  <2>3. result'.kind = "none"
    BY <1>3, <2>1, <2>2, IdleSteps DEF Lock, PowerLoss, Die
  <2> QED BY <2>3, Zenon DEF Final
<1> QED BY <1>2, <1>3, PlainNext, Zenon

\* The converse of StoreViews.
LEMMA ViewStores ==
    Together /\ TypeOK /\ env = Env /\ ViewSound(View(JournalDir, ent, jent)) => StoreInv
<1> SUFFICES ASSUME Together, TypeOK, env = Env, ViewSound(View(JournalDir, ent, jent))
             PROVE  StoreInv
  BY Zenon
<1>1. PICK v : v = View(JournalDir, ent, jent)
  BY Zenon
<1>2. v.jent = jent /\ \A t \in Target : v.ent[t] = ent[t]
  BY <1>1, ViewParts DEF Together
<1>3. ViewSound(v)
  BY <1>1, Zenon
<1>4. Fresh
  BY <1>2, <1>3, Zenon DEF ViewSound, Fresh
<1>5. CASE jent.journal = NoFile
  BY <1>2, <1>3, <1>4, <1>5, Zenon DEF ViewSound, StoreInv, FilesInv, NoSiblings
<1>6. CASE jent.journal # NoFile
  <2>1. PICK m : m = jent.journal
    BY Zenon
  <2>2. m # NoFile /\ WellFormed(m) /\ Begun(m) /\ \A t \in Target : Fits(m, t, ent[t])
    BY <1>2, <1>3, <1>6, <2>1, Zenon DEF ViewSound
  <2>3. SiblingsOwned(m)
    BY <2>2, Zenon DEF SiblingsOwned, NoSiblings, Fits
  <2>4. m.state = "Prepared" => PreparedInv(m)
    BY <2>2, Zenon DEF PreparedInv, Planned, Untouched, MovedAside, Applied, Fits
  <2>5. m.state = "Committed" => CommittedInv(m)
    BY <2>2, Zenon DEF CommittedInv, Planned, Fits
  <2> QED BY <1>4, <2>1, <2>2, <2>3, <2>4, <2>5, Zenon DEF StoreInv, FilesInv
<1> QED BY <1>5, <1>6, Zenon

\* Every step but a power loss.
LEMMA DiskInvStep ==
    ASSUME TypeOK, TypeOK', IndInv, IndInv', DiskInv, [Next]_vars, ~ PowerLoss,
           Calm(Env), "powerloss" \in Env => Together,
           ViewSound(View(JournalDir, ent, jent))' \/ "powerloss" \notin Env
    PROVE  DiskInv'
<1>1. PICK now : now = View(JournalDir, ent', jent')
  BY Zenon
<1>2. \/ disk'[JournalDir] = {now}
      \/ disk'[JournalDir] = disk[JournalDir] \cup {now}
      \/ disk'[JournalDir] = disk[JournalDir] /\ now = View(JournalDir, ent, jent)
  BY <1>1, Stores, DiskStep, Zenon
<1>3. now \in disk'[JournalDir]
  BY <1>2, Zenon DEF DiskInv
<1>4. ASSUME "powerloss" \in Env, NEW v \in disk'[JournalDir]
      PROVE  ViewSound(v)'
  <2>1. CASE v = now
    BY <1>1, <1>4, <2>1, Zenon
  <2>2. CASE v \in disk[JournalDir]
    BY <1>4, <2>2, TxnsGrow, ViewSoundStays, Zenon DEF DiskInv
  <2> QED BY <1>2, <1>4, <2>1, <2>2, Zenon
<1>5. ASSUME Final(result'.kind)
      PROVE  disk'[JournalDir] = {now}
  <2>1. CASE RemoveJournal
    <3>1. disk'[JournalDir] = {View(JournalDir, ent', jent')}
      <4>1. disk = [d \in Dir |-> disk[d]] /\ JournalDir \in Dir
        BY StoreAssumption, Zenon DEF TypeOK, StoreTypeOK
      <4> QED BY <2>1, <4>1, Zenon DEF RemoveJournal, PutJournal, After
    <3> QED BY <1>1, <3>1, Zenon
  <2>2. CASE UNCHANGED vars
    <3>1. UNCHANGED <<disk, ent, jent, result>>
      BY <2>2, Zenon DEF vars
    <3> QED BY <1>1, <1>5, <3>1, Zenon DEF DiskInv, Final
  <2> QED BY <1>5, <2>1, <2>2, FinalStep, Zenon
<1> QED BY <1>1, <1>3, <1>4, <1>5, Zenon DEF DiskInv, Final

\* A power loss leaves sound contents.
LEMMA PowerLossView ==
    ASSUME TypeOK, PowerLoss
    PROVE  \E v \in disk[JournalDir] :
              disk'[JournalDir] = {v} /\ View(JournalDir, ent', jent') = v /\ env' = env /\ Die
<1>1. PICK kept \in [Dir -> UNION {disk[d] : d \in Dir}] :
        /\ \A d \in Dir : kept[d] \in disk[d]
        /\ ent' = [t \in Target |-> kept[DirOf[t]].ent[t]]
        /\ jent' = kept[JournalDir].jent
        /\ disk' = [d \in Dir |-> {kept[d]}]
        /\ env' = env
  BY Zenon DEF PowerLoss, StorePowerLoss
<1>2. PICK v : v = kept[JournalDir]
  BY Zenon
<1>3. v \in disk[JournalDir] /\ disk'[JournalDir] = {v} /\ jent' = v.jent
  BY <1>1, <1>2, StoreAssumption, Zenon
<1>4. v \in ViewType(JournalDir)
  BY <1>3, StoreAssumption, Zenon DEF TypeOK, StoreTypeOK
<1>5. v = [ent |-> [t \in TargetsIn(JournalDir) |-> v.ent[t]], jent |-> v.jent]
  BY <1>4, Zenon DEF ViewType
<1>6. \A t \in TargetsIn(JournalDir) : ent'[t] = v.ent[t]
  BY <1>1, <1>2, Zenon DEF TargetsIn
<1>7. View(JournalDir, ent', jent') = v
  BY <1>3, <1>5, <1>6, Zenon DEF View
<1> QED BY <1>1, <1>3, <1>7, Zenon DEF PowerLoss

\* How a session comes to stage changes.
LEMMA OpenSteps ==
    ASSUME Next, pc' = "open"
    PROVE  Stage \/ mem' = NoChanges \/ UNCHANGED <<pc, mem, txns>>
<1>1. \A kind : ~ Return(kind)
  BY Zenon DEF Return
<1>2. ~ Die /\ ~ Rollback
  BY Zenon DEF Die, Rollback
<1>3. \A i : ~ Goto("commit", i) /\ ~ Goto("check", i) /\ ~ Goto("install", i) /\ ~ Goto("verify", i)
             /\ ~ Goto("move", i) /\ ~ Goto("record", i) /\ ~ Goto("stage", i) /\ ~ Goto("finish", i)
             /\ ~ Goto("rbTarget", i) /\ ~ Goto("cleanStage", i) /\ ~ Goto("cleanBackup", i)
  BY Zenon DEF Goto
<1>4. \A i, failed : ~ GotoErr("rbBackup", i, failed) /\ ~ GotoErr("rbStage", i, failed)
             /\ ~ GotoErr("finish", i, failed) /\ ~ GotoErr("rbTarget", i, failed)
             /\ ~ GotoErr("cleanStage", i, failed) /\ ~ GotoErr("cleanBackup", i, failed)
  BY Zenon DEF GotoErr
<1>5. ~ Lock /\ ~ FinishWithErrors /\ ~ RemoveJournalFails /\ ~ StartRecoveryFails
  BY <1>1, <1>2, Zenon DEF Lock, FinishWithErrors, RemoveJournalFails, StartRecoveryFails, Failing
<1>6. StartRecovery \/ RemoveJournal => mem' = NoChanges
  BY <1>1, Zenon DEF StartRecovery, RemoveJournal, Return
<1>7. \A i : ~ Advance(i)
  BY <1>3, Zenon DEF Advance
<1>8. ~ CheckOriginal /\ ~ MoveToBackup /\ ~ VerifyBackup /\ ~ Install
  <2>1. ~ CheckOriginal
    BY <1>2, <1>3, <1>7, Zenon DEF CheckOriginal
  <2>2. ~ MoveToBackup
    BY <1>2, <1>3, Zenon DEF MoveToBackup
  <2>3. ~ VerifyBackup
    BY <1>2, <1>3, <1>7, Zenon DEF VerifyBackup
  <2>4. ~ Install
    BY <1>2, <1>7, Zenon DEF Install, Failing
  <2> QED BY <2>1, <2>2, <2>3, <2>4, Zenon
<1>9. ~ Drop /\ ~ Prepare /\ ~ StageFile /\ ~ RecordInstalled /\ ~ Commit
  <2>1. ~ Drop /\ ~ Prepare
    BY <1>1, Zenon DEF Drop, Prepare
  <2>2. ~ StageFile
    BY <1>2, Zenon DEF StageFile, Failing, Goto
  <2>3. ~ RecordInstalled
    BY <1>2, <1>3, Zenon DEF RecordInstalled, Failing
  <2>4. ~ Commit
    BY <1>1, <1>2, Zenon DEF Commit, Failing
  <2> QED BY <2>1, <2>2, <2>3, <2>4, Zenon
<1>10. ~ RollbackTarget /\ ~ RollbackBackup /\ ~ RollbackSkip
  <2>1. ~ RollbackTarget
    BY <1>2, <1>4, Zenon DEF RollbackTarget, Unlink, Report, Failing
  <2>2. ~ RollbackBackup
    BY <1>2, <1>4, Zenon DEF RollbackBackup, Report, Failing
  <2>3. ~ RollbackSkip
    BY <1>3, <1>4, Zenon DEF RollbackSkip, RollbackNext
  <2> QED BY <2>1, <2>2, <2>3, Zenon
<1>11. ASSUME NEW t, NEW step \in RecoverySteps, NEW i, NEW name
       PROVE  ~ Unlink(t, name, step, i) /\ ~ RemoveOwnedStage(t, step, i)
  <2>1. \A failed : ~ GotoErr(step, i, failed)
    BY Zenon DEF GotoErr, RecoverySteps
  <2>2. ~ Goto(step, i)
    BY Zenon DEF Goto, RecoverySteps
  <2>3. \A any : ~ Unlink(t, any, step, i)
    BY <1>2, <2>1, Zenon DEF Unlink, Failing
  <2> QED BY <2>1, <2>2, <2>3, Zenon DEF RemoveOwnedStage, Report
<1>12. ~ RollbackStage /\ ~ CleanStage /\ ~ CleanBackup
  <2>1. RollbackNext \in RecoverySteps
    BY Zenon DEF RollbackNext, RecoverySteps
  <2>2. (IF idx = N THEN "cleanBackup" ELSE "cleanStage") \in RecoverySteps
    BY Zenon DEF RecoverySteps
  <2>3. (IF idx = N THEN "finish" ELSE "cleanBackup") \in RecoverySteps
    BY Zenon DEF RecoverySteps
  <2>4. ~ RollbackStage
    BY <1>11, <2>1, Zenon DEF RollbackStage
  <2>5. ~ CleanStage
    BY <1>11, <2>2, Zenon DEF CleanStage
  <2>6. ~ CleanBackup
    <3>1. PICK step : step = IF idx = N THEN "finish" ELSE "cleanBackup"
      BY Zenon
    <3>2. \A i, failed : ~ Goto(step, i) /\ ~ GotoErr(step, i, failed)
      BY <2>3, <3>1, Zenon DEF Goto, GotoErr, RecoverySteps
    <3>3. \A i : ~ Report(step, i, ent[idx].backup # NoFile)
      BY <3>2, Zenon DEF Report
    <3> QED BY <1>11, <2>3, <3>1, <3>2, <3>3, Zenon DEF CleanBackup
  <2> QED BY <2>4, <2>5, <2>6, Zenon
<1>13. Disturbance => mem' = NoChanges \/ UNCHANGED <<pc, mem, txns>>
  BY <1>2, Zenon DEF Disturbance, Crash, PowerLoss, Interfere, sessionVars
<1> QED BY <1>5, <1>6, <1>8, <1>9, <1>10, <1>12, <1>13, Zenon DEF Next, SessionStep, RecoveryStep

LEMMA OpenBoundStep ==
    ASSUME OpenBound, [Next]_vars
    PROVE  OpenBound'
<1> SUFFICES ASSUME pc' = "open", (Planned(mem) # {})'
             PROVE  txns' < MaxTxn
  BY Zenon DEF OpenBound
<1>1. CASE Stage
  BY <1>1, Zenon DEF Stage
<1>2. CASE mem' = NoChanges
  BY <1>2, Zenon DEF Planned, NoChanges
<1>3. CASE UNCHANGED <<pc, mem, txns>>
  BY <1>3, Zenon DEF OpenBound, Planned
<1>4. UNCHANGED vars => UNCHANGED <<pc, mem, txns>>
  BY Zenon DEF vars
<1> QED BY <1>1, <1>2, <1>3, <1>4, OpenSteps, Zenon

-----------------------------------------------------------------------------
(***************************************************************************)
(* The state of AtomicFileSet that a step leaves visible.                  *)
(***************************************************************************)
Kept == {KeptState(v) : v \in disk[JournalDir]}

NoTxn == [txn |-> 0, plan |-> [t \in Target |-> "keep"]]

\* What is visible is the state of the visible contents of the directory.
LEMMA NowIsKept == Together => Now = KeptState(View(JournalDir, ent, jent))
<1> SUFFICES ASSUME Together PROVE Now = KeptState(View(JournalDir, ent, jent))
  BY Zenon
<1>1. PICK v : v = View(JournalDir, ent, jent)
  BY Zenon
<1>2. v.jent = jent /\ \A t \in Target : v.ent[t] = ent[t]
  BY <1>1, ViewParts DEF Together
<1>3. [t \in Target |-> ent[t].target]
        = [t \in Target |-> IF DirOf[t] = JournalDir THEN v.ent[t].target ELSE ent[t].target]
  BY <1>2, Zenon DEF Together
<1>4. Now = KeptState(v)
  BY <1>2, <1>3, Zenon DEF Now, KeptState
<1> QED BY <1>1, <1>4, Zenon

\* The state of contents does not depend on what is visible.
LEMMA KeptStateStays ==
    ASSUME Together, NEW v
    PROVE  KeptState(v)' = KeptState(v)
<1>1. [t \in Target |-> IF DirOf[t] = JournalDir THEN v.ent[t].target ELSE ent'[t].target]
        = [t \in Target |-> IF DirOf[t] = JournalDir THEN v.ent[t].target ELSE ent[t].target]
  BY Zenon DEF Together
<1> QED BY <1>1, Zenon DEF KeptState, StateUnder, Pending

\* Every step but a power loss: the new state becomes the only one that is kept, or one of them.
LEMMA KeptStep ==
    ASSUME Together, TypeOK, [Next]_vars, ~ PowerLoss
    PROVE  Kept' = {Now'} \/ Kept' = Kept \cup {Now'} \/ (Kept' = Kept /\ Now' = Now)
<1>1. PICK now : now = View(JournalDir, ent', jent')
  BY Zenon
<1>2. \/ disk'[JournalDir] = {now}
      \/ disk'[JournalDir] = disk[JournalDir] \cup {now}
      \/ disk'[JournalDir] = disk[JournalDir] /\ now = View(JournalDir, ent, jent)
  BY <1>1, Stores, DiskStep, Zenon
<1>3. (Together => Now = KeptState(View(JournalDir, ent, jent)))'
  BY NowIsKept, PTL
<1>4. Now' = KeptState(now)
  <2>1. Now' = KeptState(View(JournalDir, ent, jent))'
    BY <1>3, Zenon DEF Together
  <2> QED BY <1>1, <2>1, KeptStateStays, Zenon
<1>5. Kept' = {KeptState(v) : v \in disk'[JournalDir]}
  BY KeptStateStays, Zenon DEF Kept
<1>6. Now = KeptState(View(JournalDir, ent, jent))
  BY NowIsKept, Zenon
<1> QED BY <1>2, <1>4, <1>5, <1>6, Zenon DEF Kept

LEMMA KeptPowerLoss ==
    ASSUME Together, TypeOK, PowerLoss
    PROVE  Now' \in Kept /\ Kept' = {Now'}
<1>1. PICK v \in disk[JournalDir] :
        disk'[JournalDir] = {v} /\ View(JournalDir, ent', jent') = v
  BY PowerLossView, Zenon
<1>2. (Together => Now = KeptState(View(JournalDir, ent, jent)))'
  BY NowIsKept, PTL
<1>3. Now' = KeptState(v)
  <2>1. Now' = KeptState(View(JournalDir, ent, jent))'
    BY <1>2, Zenon DEF Together
  <2> QED BY <1>1, <2>1, KeptStateStays, Zenon
<1>4. Kept' = {KeptState(u) : u \in disk'[JournalDir]}
  BY KeptStateStays, Zenon DEF Kept
<1> QED BY <1>1, <1>3, <1>4, Zenon DEF Kept

-----------------------------------------------------------------------------
(***************************************************************************)
(* What each step does to the visible state.                               *)
(***************************************************************************)

\* The state is the same as before ...
LEMMA SameOutside ==
    ASSUME ~ Pending(jent.journal), ~ Pending(jent'.journal),
           \A t \in Target : ent'[t].target = ent[t].target
    PROVE  Now' = Now
<1>1. [t \in Target |-> ent'[t].target] = [t \in Target |-> ent[t].target]
  BY Zenon
<1>2. PICK f : f = [t \in Target |-> ent[t].target]
  BY Zenon
<1>3. StateUnder(jent'.journal, f) = StateUnder(jent.journal, f)
  BY Zenon DEF StateUnder
<1> QED BY <1>1, <1>2, <1>3, Zenon DEF Now, StateUnder, Pending

LEMMA SameInside ==
    ASSUME Pending(jent.journal), Pending(jent'.journal),
           jent'.journal.txn = jent.journal.txn, jent'.journal.plan = jent.journal.plan,
           jent'.journal.orig = jent.journal.orig,
           \A t \in Target : jent.journal.plan[t] = "keep" => ent'[t].target = ent[t].target
    PROVE  Now' = Now
<1>1. PICK j : j = jent.journal
  BY Zenon
<1>2. PICK k : k = jent'.journal
  BY Zenon
<1>3. [t \in Target |-> IF k.plan[t] # "keep" THEN k.orig[t] ELSE ent'[t].target]
        = [t \in Target |-> IF j.plan[t] # "keep" THEN j.orig[t] ELSE ent[t].target]
  BY <1>1, <1>2, Zenon
<1>4. Now = [value |-> [t \in Target |-> IF j.plan[t] # "keep" THEN j.orig[t] ELSE ent[t].target],
             intent |-> [txn |-> j.txn, plan |-> j.plan]]
  BY <1>1, Zenon DEF Now, StateUnder
<1>5. Now' = [value |-> [t \in Target |-> IF k.plan[t] # "keep" THEN k.orig[t] ELSE ent'[t].target],
              intent |-> [txn |-> k.txn, plan |-> k.plan]]
  BY <1>2, Zenon DEF Now, StateUnder, Pending
<1> QED BY <1>1, <1>2, <1>3, <1>4, <1>5, Zenon

LEMMA SameStore ==
    ASSUME UNCHANGED storeVars
    PROVE  Now' = Now
<1>1. UNCHANGED <<ent, jent>>
  BY Zenon DEF storeVars
<1> QED BY <1>1, SameOutside, SameInside, Zenon DEF Pending

LEMMA SameJournalNow ==
    ASSUME ent' = ent, jent'.journal = jent.journal
    PROVE  Now' = Now
  BY SameOutside, SameInside, Zenon DEF Pending

\* ... when a sibling changes, or a target that the prepared journal says how to restore.
Restorable(t) == Pending(jent.journal) /\ jent.journal.plan[t] # "keep"

LEMMA SameEntry ==
    ASSUME TypeOK, NEW t \in Target, NEW e, NEW synced, PutEntry(t, e, synced),
           e.target = ent[t].target \/ Restorable(t)
    PROVE  Now' = Now
<1>1. /\ ent'[t] = e /\ jent' = jent
      /\ \A u \in Target : u # t => ent'[u].target = ent[u].target
  BY OthersAlone, Zenon DEF LeftAlone, SameTarget
<1>2. \A u \in Target : ent'[u].target = ent[u].target \/ (u = t /\ Restorable(t))
  BY <1>1, Zenon
<1>3. CASE Pending(jent.journal)
  <2>1. \A u \in Target : jent.journal.plan[u] = "keep" => ent'[u].target = ent[u].target
    BY <1>2, Zenon DEF Restorable
  <2> QED BY <1>1, <1>3, <2>1, SameInside, Zenon
<1>4. CASE ~ Pending(jent.journal)
  BY <1>1, <1>2, <1>4, SameOutside, Zenon DEF Restorable
<1> QED BY <1>3, <1>4, Zenon

LEMMA SameUnlink ==
    ASSUME TypeOK, NEW t \in Target, NEW name \in {"target", "stage", "backup"}, NEW step, NEW i,
           Unlink(t, name, step, i), name # "target" \/ Restorable(t)
    PROVE  Now' = Now
<1>1. PICK gone : gone = [ent[t] EXCEPT ![name] = NoFile]
  BY Zenon
<1>2. name # "target" => gone.target = ent[t].target
  BY <1>1, EntryFields, Zenon DEF Entry
<1>3. (\E synced : PutEntry(t, gone, synced)) \/ UNCHANGED storeVars
  BY <1>1, Zenon DEF Unlink
<1> QED BY <1>2, <1>3, SameStore, SameEntry, Zenon

LEMMA SameStage ==
    ASSUME TypeOK, NEW t \in Target, NEW step, NEW i, RemoveOwnedStage(t, step, i)
    PROVE  Now' = Now
  BY SameUnlink, SameStore, Zenon DEF RemoveOwnedStage, Report

-----------------------------------------------------------------------------
(***************************************************************************)
(* The commit marker.                                                      *)
(***************************************************************************)

\* What the session's position says.
LEMMA SessionKnows ==
    ASSUME TypeOK, IndInv
    PROVE  /\ StoreInv /\ mem \in Journal
           /\ pc \in {"rbTarget", "rbBackup", "rbStage"} =>
                 RollbackInv /\ idx \in Target /\ jent.journal \in Journal /\ jent.journal # NoFile
           /\ pc \in {"cleanStage", "cleanBackup"} => CleanupInv /\ idx \in Target
           /\ pc \in {"check", "move", "verify", "install", "commit"} => ApplyingInv
           /\ pc = "open" => OpenInv
           /\ pc \in {"stage", "record"} => StagingInv
<1>1. StoreInv /\ mem \in Journal
  BY MemFields, Zenon DEF IndInv, StoreInv
<1>2. /\ pc \in {"rbTarget", "rbBackup", "rbStage"} => RollbackInv
      /\ pc \in {"cleanStage", "cleanBackup"} => CleanupInv
      /\ pc \in {"check", "move", "verify", "install", "commit"} => ApplyingInv
      /\ pc = "open" => OpenInv
      /\ pc \in {"stage", "record"} => StagingInv
  BY Zenon DEF IndInv, SessionInv
<1>3. pc \in {"rbTarget", "rbBackup", "rbStage", "cleanStage", "cleanBackup"} => idx \in Target
  BY Zenon DEF TypeOK, SessionTypeOK, AtOperation
<1>4. pc \in {"rbTarget", "rbBackup", "rbStage"} => jent.journal \in Journal /\ jent.journal # NoFile
  BY <1>2, Zenon DEF RollbackInv, TypeOK, StoreTypeOK, JournalEntry
<1> QED BY <1>1, <1>2, <1>3, <1>4, Zenon

\* A journal is written with all that its sync may leave undone, or not renamed.
LEMMA JournalWritten ==
    ASSUME TypeOK, NEW m
    PROVE  /\ WriteJournal(m) \/ WriteJournalNotSynced(m) => jent'.journal = m /\ ent' = ent
           /\ WriteJournalNotRenamed => jent'.journal = jent.journal /\ ent' = ent
  BY JournalPut, JournalStagePut, Zenon DEF WriteJournal, WriteJournalNotSynced, WriteJournalNotRenamed

\* Targets and journal stay, and nothing new is rolled back.
LEMMA MarkerStays ==
    ASSUME MarkerSound, \A t \in Target : ent'[t].target = ent[t].target,
           Pending(jent'.journal) =>
               /\ Pending(jent.journal) /\ jent'.journal.txn = jent.journal.txn
               /\ jent'.journal.plan = jent.journal.plan,
           MarkerShown /\ ~ MarkerTaken => ~ MarkerTaken'
    PROVE  MarkerSound'
<1>1. N \in Target
  BY StoreAssumption DEF Target
<1> SUFFICES ASSUME MarkerShown'
             PROVE  CommittedSound(jent.journal)' /\ ~ MarkerTaken'
  BY Zenon DEF MarkerSound
<1>2. /\ Pending(jent.journal) /\ jent'.journal.txn = jent.journal.txn
      /\ jent'.journal.plan = jent.journal.plan
  BY Zenon DEF MarkerShown, Pending
<1>3. MarkerShown
  BY <1>1, <1>2, Zenon DEF MarkerShown
<1>4. CommittedSound(jent.journal) /\ ~ MarkerTaken
  BY <1>3, Zenon DEF MarkerSound
<1>5. CommittedSound(jent.journal)'
  BY <1>2, <1>4, Zenon DEF CommittedSound, Planned, Desired
<1> QED BY <1>3, <1>4, <1>5, Zenon

\* The session is at no step of a rollback, or at its first.
Early == pc' \notin {"rbTarget", "rbBackup", "rbStage", "finish"} \/ (pc' = "rbTarget" /\ idx' = N)

LEMMA MarkerEarly ==
    ASSUME MarkerSound, Early, \A t \in Target : ent'[t].target = ent[t].target,
           Pending(jent'.journal) =>
               /\ Pending(jent.journal) /\ jent'.journal.txn = jent.journal.txn
               /\ jent'.journal.plan = jent.journal.plan
    PROVE  MarkerSound'
<1>1. ~ MarkerTaken'
  BY StoreAssumption DEF Early, MarkerTaken
<1> QED BY <1>1, MarkerStays, Zenon

LEMMA EarlySteps ==
    /\ Die => Early
    /\ Rollback => Early
    /\ \A kind : Return(kind) => Early
  BY Zenon DEF Die, Rollback, Return, Early

\* Removing a sibling changes no target.
LEMMA SiblingGone ==
    ASSUME TypeOK, NEW t \in Target, NEW name \in {"stage", "backup"}, NEW step, NEW i,
           Unlink(t, name, step, i)
    PROVE  jent' = jent /\ \A u \in Target : ent'[u].target = ent[u].target
<1>1. PICK gone : gone = [ent[t] EXCEPT ![name] = NoFile]
  BY Zenon
<1>2. gone.target = ent[t].target
  BY <1>1, EntryFields, Zenon DEF Entry
<1>3. (\E synced : PutEntry(t, gone, synced)) \/ UNCHANGED storeVars
  BY <1>1, Zenon DEF Unlink
<1>4. CASE UNCHANGED storeVars
  BY <1>4, Zenon DEF storeVars
<1>5. ASSUME NEW synced, PutEntry(t, gone, synced)
      PROVE  jent' = jent /\ \A u \in Target : ent'[u].target = ent[u].target
  <2>1. ent'[t] = gone /\ jent' = jent /\ \A u \in Target \ {t} : ent'[u] = ent[u]
    BY <1>5, OthersAlone, Zenon
  <2> QED BY <1>2, <2>1, Zenon
<1> QED BY <1>3, <1>4, <1>5, Zenon

LEMMA StageGone ==
    ASSUME TypeOK, NEW t \in Target, NEW step, NEW i, RemoveOwnedStage(t, step, i)
    PROVE  jent' = jent /\ \A u \in Target : ent'[u].target = ent[u].target
<1>1. CASE UNCHANGED storeVars
  BY <1>1, Zenon DEF storeVars
<1> QED BY <1>1, SiblingGone, Zenon DEF RemoveOwnedStage, Report

LEMMA MarkerRecovery ==
    ASSUME TypeOK, IndInv, MarkerSound, RecoveryStep, "fault" \notin Env
    PROVE  MarkerSound'
<1>0. ~ Fault /\ N \in Target /\ N \in Nat
  BY StoreAssumption DEF Fault, IndInv, Target
<1>1. CASE Lock
  BY <1>1, MarkerEarly, Zenon DEF Lock, Early, storeVars
<1>2. CASE StartRecovery \/ StartRecoveryFails
  <2>1. ent' = ent /\ jent'.journal = jent.journal
    <3>1. \A synced : PutJournal([jent EXCEPT !.stage = NoFile], synced)
              => ent' = ent /\ jent' = [jent EXCEPT !.stage = NoFile]
      BY Zenon DEF PutJournal
    <3>2. [jent EXCEPT !.stage = NoFile].journal = jent.journal
      BY Zenon DEF TypeOK, StoreTypeOK, JournalEntry
    <3>3. CASE UNCHANGED storeVars
      BY <3>3, Zenon DEF storeVars
    <3> QED BY <1>2, <3>1, <3>2, <3>3, Zenon DEF StartRecovery, StartRecoveryFails
  <2>2. StartRecovery => Early
    BY Zenon DEF StartRecovery, Early
  <2>3. StartRecoveryFails => Early
    BY EarlySteps, Zenon DEF StartRecoveryFails, Failing
  <2> QED BY <1>2, <2>1, <2>2, <2>3, MarkerEarly, Zenon
<1>3. CASE FinishWithErrors
  BY <1>3, EarlySteps, MarkerEarly, Zenon DEF FinishWithErrors, storeVars
<1>4. CASE RemoveJournal
  BY <1>4, Zenon DEF RemoveJournal, PutJournal, MarkerSound, MarkerShown, Pending
<1>5. CASE RemoveJournalFails
  <2>1. Early
    BY <1>5, EarlySteps, Zenon DEF RemoveJournalFails, Failing
  <2>2. ASSUME NEW j, PutJournal([journal |-> j, stage |-> NoFile], FALSE)
        PROVE  ent' = ent /\ jent'.journal = j
    BY <2>2, Zenon DEF PutJournal
  <2>3. CASE UNCHANGED storeVars
    BY <2>1, <2>3, MarkerEarly, Zenon DEF storeVars
  <2>4. (ent' = ent /\ jent'.journal \in {jent.journal, NoFile}) \/ UNCHANGED storeVars
    BY <1>5, <2>2, Zenon DEF RemoveJournalFails
  <2> QED BY <2>1, <2>3, <2>4, MarkerEarly, Zenon DEF Pending
<1>6. CASE RollbackSkip
  <2>1. pc = "rbTarget" /\ UNCHANGED <<ent, jent>> /\ idx \notin Planned(mem)
    BY <1>0, <1>6, Zenon DEF RollbackSkip, storeVars
  <2>2. idx \in Target /\ mem.plan = jent.journal.plan
    BY <2>1, SessionKnows, Zenon DEF RollbackInv
  <2>3. ~ (MarkerShown /\ ~ MarkerTaken)
    BY <1>0, <2>1, <2>2 DEF MarkerShown, MarkerTaken, Planned, Target
  <2> QED BY <2>1, <2>3, MarkerStays, Zenon
<1>7. CASE RollbackTarget
  <2>1. pc = "rbTarget" /\ idx \in Planned(mem)
    BY <1>7, Zenon DEF RollbackTarget
  <2>2. /\ idx \in Target /\ mem.plan = jent.journal.plan /\ mem.txn = jent.journal.txn
        /\ jent.journal.installed \subseteq mem.installed
        /\ StoreInv /\ jent.journal # NoFile /\ jent.journal.state = "Prepared"
    BY <2>1, SessionKnows, Zenon DEF RollbackInv
  <2>3. CASE MarkerShown /\ ~ MarkerTaken
    <3>1. idx = N
      BY <1>0, <2>1, <2>2, <2>3 DEF MarkerTaken, Target
    <3>2. mem.plan[N] = "write" /\ ent[N].target = mem.txn
      BY <2>2, <2>3, Zenon DEF MarkerShown
    <3>3. N \in mem.installed
      <4>1. PreparedInv(jent.journal) /\ N \in Planned(jent.journal)
        BY <1>0, <2>2, <2>3, Zenon DEF StoreInv, FilesInv, MarkerShown, Planned
      <4> QED BY <2>2, <2>3, <4>1, Zenon DEF PreparedInv, MarkerShown
    <3>4. Unlink(N, "target", "rbBackup", N)
      BY <1>7, <3>1, <3>2, <3>3, Zenon DEF RollbackTarget, TargetMatchesInstalled
    <3>5. \/ \E synced : PutEntry(N, [ent[N] EXCEPT !["target"] = NoFile], synced)
          \/ UNCHANGED storeVars /\ Die
      BY <1>0, <3>4, Zenon DEF Unlink, Failing
    <3>6. CASE UNCHANGED storeVars /\ Die
      BY <3>6, EarlySteps, MarkerEarly, Zenon DEF storeVars
    <3>7. ASSUME NEW synced, PutEntry(N, [ent[N] EXCEPT !["target"] = NoFile], synced)
          PROVE  MarkerSound'
      <4>1. jent' = jent /\ ent'[N] = [ent[N] EXCEPT !["target"] = NoFile]
        BY <1>0, <3>7, OthersAlone, Zenon
      <4>2. ent'[N].target = NoFile
        BY <1>0, <4>1, EntryFields, Zenon DEF Entry
      <4>3. jent.journal.txn # NoFile
        BY <2>2, MemFields, KindsOfContent, Zenon
      <4> QED BY <4>1, <4>2, <4>3, Zenon DEF MarkerSound, MarkerShown
    <3> QED BY <3>5, <3>6, <3>7, Zenon
  <2>4. CASE ~ (MarkerShown /\ ~ MarkerTaken)
    <3>1. ~ MarkerShown
      BY <2>4, Zenon DEF MarkerSound
    <3>2. jent' = jent /\ (ent'[N].target = ent[N].target \/ ent'[N].target = NoFile)
      <4>1. CASE UNCHANGED storeVars
        BY <4>1, Zenon DEF storeVars
      <4>2. ASSUME NEW synced, PutEntry(idx, [ent[idx] EXCEPT !["target"] = NoFile], synced)
            PROVE  jent' = jent /\ (ent'[N].target = ent[N].target \/ ent'[N].target = NoFile)
        <5>1. /\ jent' = jent /\ ent'[idx] = [ent[idx] EXCEPT !["target"] = NoFile]
              /\ \A u \in Target \ {idx} : ent'[u] = ent[u]
          BY <2>2, <4>2, OthersAlone, Zenon
        <5>2. ent'[idx].target = NoFile
          BY <2>2, <5>1, EntryFields, Zenon DEF Entry
        <5> QED BY <1>0, <5>1, <5>2, Zenon
      <4> QED BY <1>7, <4>1, <4>2, Zenon DEF RollbackTarget, Unlink, Report
    <3>3. jent.journal.txn # NoFile
      BY <2>2, MemFields, KindsOfContent, Zenon
    <3> QED BY <3>1, <3>2, <3>3, Zenon DEF MarkerSound, MarkerShown
  <2> QED BY <2>3, <2>4, Zenon
<1>8. CASE RollbackBackup
  <2>1. pc = "rbBackup"
    BY <1>8, Zenon DEF RollbackBackup
  <2>2. ~ MarkerShown
    BY <2>1, Zenon DEF MarkerSound, MarkerTaken
  <2>3. /\ idx \in Target /\ StoreInv /\ jent.journal # NoFile /\ jent.journal \in Journal
        /\ mem.orig = jent.journal.orig
    BY <2>1, SessionKnows, Zenon DEF RollbackInv
  <2>4. \A t \in Target : jent.journal.orig[t] # jent.journal.txn
    BY <2>3, Zenon DEF StoreInv, FilesInv, Begun
  <2>5. CASE UNCHANGED storeVars
    BY <2>2, <2>5, Zenon DEF storeVars, MarkerSound, MarkerShown, Pending
  <2>6. ASSUME NEW synced, PutEntry(idx, Restored(idx), synced), ent[idx].backup = mem.orig[idx]
        PROVE  MarkerSound'
    <3>1. /\ jent' = jent /\ ent'[idx] = Restored(idx)
          /\ \A u \in Target \ {idx} : ent'[u] = ent[u]
      BY <2>3, <2>6, OthersAlone, Zenon
    <3>2. ent'[idx].target = ent[idx].backup
      BY <2>3, <3>1, EntryFields, Zenon DEF Entry, Restored
    <3>3. ent'[N].target = ent[N].target \/ ent'[N].target = jent.journal.orig[N]
      BY <1>0, <2>3, <2>6, <3>1, <3>2, Zenon
    <3> QED BY <1>0, <2>2, <2>4, <3>1, <3>3, Zenon DEF MarkerSound, MarkerShown
  <2> QED BY <1>8, <2>5, <2>6, Zenon DEF RollbackBackup, Report
<1>9. CASE RollbackStage
  <2>1. pc = "rbStage" /\ idx \in Target
    BY <1>9, SessionKnows, Zenon DEF RollbackStage
  <2>2. jent' = jent /\ \A u \in Target : ent'[u].target = ent[u].target
    BY <1>9, <2>1, StageGone, Zenon DEF RollbackStage
  <2>3. MarkerTaken
    BY <2>1, Zenon DEF MarkerTaken
  <2> QED BY <2>2, <2>3, MarkerStays, Zenon
<1>10. CASE CleanStage \/ CleanBackup
  <2>1. idx \in Target /\ CleanupInv
    BY <1>10, SessionKnows, Zenon DEF CleanStage, CleanBackup
  <2>2. ~ Pending(jent.journal)
    BY <2>1, Zenon DEF CleanupInv, Pending
  <2>3. UNCHANGED storeVars => jent' = jent
    BY Zenon DEF storeVars
  <2>4. jent' = jent
    BY <1>10, <2>1, <2>3, StageGone, SiblingGone, Zenon DEF CleanStage, CleanBackup, Report
  <2> QED BY <2>2, <2>4, Zenon DEF MarkerSound, MarkerShown, Pending
<1> QED BY <1>1, <1>2, <1>3, <1>4, <1>5, <1>6, <1>7, <1>8, <1>9, <1>10, Zenon DEF RecoveryStep

\* Between the operations of a transaction: the marker is its last one.
LEMMA MarkerWaits ==
    ASSUME TypeOK, IndInv, pc \in {"move", "verify", "install"}
    PROVE  /\ idx \in Target /\ N \in Target /\ idx <= N /\ jent.journal = mem /\ mem.txn # NoFile
           /\ idx # N /\ mem.plan[N] = "write" => ent[N].target # mem.txn
           /\ \A t \in Planned(mem) : t < idx => ent[t].target = Desired(mem, t)
           /\ idx \in Planned(mem)
<1>1. /\ ApplyingInv /\ StoreInv /\ mem \in Journal /\ mem # NoFile /\ jent.journal = mem
      /\ mem.txn \in Nat /\ NoFile \notin Nat
  BY SessionKnows, MemFields, KindsOfContent, NoFileIsNoJournal, Zenon DEF ApplyingInv
<1>2. idx \in Planned(mem)
  BY <1>1, Zenon DEF ApplyingInv
<1>3. idx \in Target /\ N \in Target /\ idx <= N
  BY <1>2, StoreAssumption DEF Planned, Target
<1>4. ASSUME idx # N, mem.plan[N] = "write"
      PROVE  ent[N].target # mem.txn
  <2>1. N > idx /\ N \in Planned(mem)
    BY <1>3, <1>4, StoreAssumption DEF Planned, Target
  <2>2. ent[N].target = mem.orig[N]
    BY <1>1, <2>1, Zenon DEF ApplyingInv, Untouched
  <2>3. mem.orig[N] # mem.txn
    BY <1>1, <1>3, Zenon DEF StoreInv, FilesInv, Begun
  <2> QED BY <2>2, <2>3, Zenon
<1>5. \A t \in Planned(mem) : t < idx => ent[t].target = Desired(mem, t)
  BY <1>1, Zenon DEF ApplyingInv, Applied
<1> QED BY <1>1, <1>2, <1>3, <1>4, <1>5, Zenon

LEMMA EarlyMoves ==
    /\ \A i : Goto("move", i) \/ Goto("verify", i) \/ Goto("install", i) => Early
    /\ \A i : Goto("check", i) \/ Goto("commit", i) \/ Goto("stage", i) \/ Goto("record", i) => Early
    /\ \A i : Advance(i) => Early
<1>1. /\ \A i : Goto("move", i) \/ Goto("verify", i) \/ Goto("install", i) => Early
      /\ \A i : Goto("check", i) \/ Goto("commit", i) \/ Goto("stage", i) \/ Goto("record", i) => Early
  BY Zenon DEF Goto, Early
<1> QED BY <1>1, Zenon DEF Advance

LEMMA MarkerSession ==
    ASSUME TypeOK, IndInv, MarkerSound, [Next]_vars, ~ RecoveryStep, ~ PowerLoss,
           Calm(Env), "fault" \notin Env
    PROVE  MarkerSound'
<1>0. ~ Fault /\ N \in Target /\ N \in Nat
  BY StoreAssumption DEF Fault, IndInv, Target
<1>1. CASE UNCHANGED vars
  BY <1>1, MarkerStays, Zenon DEF vars, MarkerTaken
<1>2. CASE Stage \/ Drop \/ Crash
  <2>1. UNCHANGED <<ent, jent>>
    BY <1>2, Zenon DEF Stage, Drop, Crash, storeVars
  <2>2. Stage => Early
    BY Zenon DEF Stage, Early
  <2> QED BY <1>2, <2>1, <2>2, EarlySteps, MarkerEarly, Zenon DEF Drop, Crash
<1>3. CASE Prepare
  <2>1. PICK m : m = [mem EXCEPT !.txn = txns + 1]
    BY Zenon
  <2>2. pc = "open"
    BY <1>3, Zenon DEF Prepare
  <2>3. StoreInv /\ mem \in Journal /\ jent.journal = NoFile
    BY <2>2, SessionKnows, Zenon DEF OpenInv
  <2>4. ent' = ent /\ jent'.journal \in {m, NoFile}
    <3>1. WriteJournal(m) \/ WriteJournalNotRenamed \/ WriteJournalNotSynced(m)
      BY <1>3, <2>1, Zenon DEF Prepare
    <3> QED BY <2>3, <3>1, JournalWritten, Zenon
  <2>5. m.txn = txns + 1
    BY <2>1, <2>3, Zenon DEF Journal
  <2>6. ent[N].target # txns + 1
    <3>1. UpTo(txns, ent[N].target)
      BY <1>0, <2>3, Zenon DEF StoreInv, Fresh
    <3> QED BY <3>1 DEF UpTo, TypeOK, SessionTypeOK
  <2> QED BY <2>4, <2>5, <2>6, Zenon DEF MarkerSound, MarkerShown, Pending
<1>4. CASE StageFile
  <2>1. idx \in Target
    BY <1>4, Zenon DEF StageFile, TypeOK, SessionTypeOK, AtOperation
  <2>2. ASSUME NEW f, NEW synced, PutEntry(idx, [ent[idx] EXCEPT !.stage = f], synced)
        PROVE  jent' = jent /\ \A u \in Target : ent'[u].target = ent[u].target
    <3>1. /\ jent' = jent /\ ent'[idx] = [ent[idx] EXCEPT !.stage = f]
          /\ \A u \in Target \ {idx} : ent'[u] = ent[u]
      BY <2>1, <2>2, OthersAlone, Zenon
    <3>2. ent'[idx].target = ent[idx].target
      BY <2>1, <3>1, EntryFields, Zenon DEF Entry
    <3> QED BY <3>1, <3>2, Zenon
  <2>3. UNCHANGED storeVars => jent' = jent /\ \A u \in Target : ent'[u].target = ent[u].target
    BY Zenon DEF storeVars
  <2>4. jent' = jent /\ \A u \in Target : ent'[u].target = ent[u].target
    BY <1>4, <2>2, <2>3, Zenon DEF StageFile
  <2>5. Early
    <3>1. pc' \in {"record", "stage"} \/ Die
      BY <1>0, <1>4, Zenon DEF StageFile, Failing, Goto
    <3> QED BY <3>1, EarlySteps, Zenon DEF Early
  <2> QED BY <2>4, <2>5, MarkerEarly, Zenon
<1>5. CASE RecordInstalled
  <2>1. pc = "record"
    BY <1>5, Zenon DEF RecordInstalled
  <2>2. /\ Pending(jent.journal)
        /\ mem.txn = jent.journal.txn /\ mem.plan = jent.journal.plan
    <3>1. jent.journal = [mem EXCEPT !.installed = {}] /\ mem.state = "Prepared" /\ mem \in Journal
      BY <2>1, SessionKnows, Zenon DEF StagingInv
    <3>2. jent.journal.state = "Prepared" /\ mem.txn = jent.journal.txn /\ mem.plan = jent.journal.plan
      BY <3>1, Zenon DEF Journal
    <3>3. jent.journal \in Journal
      BY <3>1, Zenon DEF Journal
    <3> QED BY <3>2, <3>3, NoFileIsNoJournal, Zenon DEF Pending
  <2>3. ent' = ent /\ jent'.journal \in {mem, jent.journal}
    BY <1>5, JournalWritten, Zenon DEF RecordInstalled
  <2>4. Early
    BY <1>0, <1>5, EarlySteps, EarlyMoves, Zenon DEF RecordInstalled, Failing
  <2> QED BY <2>2, <2>3, <2>4, MarkerEarly, Zenon
<1>6. CASE CheckOriginal
  <2>1. UNCHANGED <<ent, jent>>
    BY <1>6, Zenon DEF CheckOriginal, storeVars
  <2>2. Goto(IF mem.orig[idx] = NoFile THEN "install" ELSE "move", idx) => Early
    BY EarlyMoves, Zenon
  <2>3. Early
    BY <1>6, <2>2, EarlySteps, EarlyMoves, Zenon DEF CheckOriginal
  <2> QED BY <2>1, <2>3, MarkerEarly, Zenon
<1>7. CASE MoveToBackup
  <2>1. pc = "move"
    BY <1>7, Zenon DEF MoveToBackup
  <2>2. PICK e : e = [ent[idx] EXCEPT !.backup = ent[idx].target, !.target = NoFile]
    BY Zenon
  <2>3. PutEntry(idx, e, FALSE)
    <3>1. ent[idx].backup = NoFile
      BY <2>1, SessionKnows, MarkerWaits, Zenon DEF ApplyingInv, Untouched
    <3> QED BY <1>0, <1>7, <2>2, <3>1, Zenon DEF MoveToBackup
  <2>4. /\ jent' = jent /\ ent'[idx] = e /\ \A u \in Target \ {idx} : ent'[u] = ent[u]
    BY <2>1, <2>3, MarkerWaits, OthersAlone, Zenon
  <2>5. e.target = NoFile
    BY <2>1, <2>2, MarkerWaits, EntryFields, Zenon DEF Entry
  <2>6. mem.plan[N] = "write" => ent'[N].target # mem.txn
    BY <2>1, <2>4, <2>5, MarkerWaits, Zenon
  <2>7. jent'.journal = mem
    BY <2>1, <2>4, MarkerWaits, Zenon
  <2> QED BY <2>6, <2>7, Zenon DEF MarkerSound, MarkerShown
<1>8. CASE VerifyBackup
  <2>1. pc = "verify"
    BY <1>8, Zenon DEF VerifyBackup
  <2>2. ApplyingInv /\ idx \in Target
    BY <2>1, SessionKnows, MarkerWaits, Zenon
  <2>3. ent[idx].backup = mem.orig[idx]
    BY <2>1, <2>2, Zenon DEF ApplyingInv, MovedAside
  <2>4. PutEntry(idx, ent[idx], TRUE) /\ (Goto("install", idx) \/ Advance(idx))
    BY <1>0, <1>8, <2>3, Zenon DEF VerifyBackup
  <2>5. /\ jent' = jent /\ ent'[idx] = ent[idx] /\ \A u \in Target \ {idx} : ent'[u] = ent[u]
    BY <2>2, <2>4, OthersAlone, Zenon
  <2>6. Early
    BY <2>4, EarlyMoves, Zenon
  <2>7. \A u \in Target : ent'[u].target = ent[u].target
    BY <2>5, Zenon
  <2> QED BY <2>5, <2>6, <2>7, MarkerEarly, Zenon
<1>9. CASE Install
  <2>1. pc = "install"
    BY <1>9, Zenon DEF Install
  <2>2. jent.journal = mem /\ mem.plan[idx] = "write"
    BY <2>1, SessionKnows, Zenon DEF ApplyingInv
  <2>3. Early
    BY <1>0, <1>9, EarlySteps, EarlyMoves, Zenon DEF Install, Failing
  <2>4. CASE UNCHANGED storeVars
    BY <2>3, <2>4, MarkerEarly, Zenon DEF storeVars
  <2>5. ASSUME NEW synced, PutEntry(idx, Installed(idx), synced), ent[idx].stage = mem.txn
        PROVE  MarkerSound'
    <3>1. /\ jent' = jent /\ ent'[idx] = Installed(idx)
          /\ \A u \in Target \ {idx} : ent'[u] = ent[u]
      BY <2>1, <2>5, MarkerWaits, OthersAlone, Zenon
    <3>2. ent'[idx].target = mem.txn
      BY <2>1, <2>5, <3>1, MarkerWaits, EntryFields, Zenon DEF Entry, Installed
    <3>3. CASE idx # N
      <4>1. mem.plan[N] = "write" => ent'[N].target # mem.txn
        BY <2>1, <3>1, <3>3, MarkerWaits, Zenon
      <4> QED BY <2>2, <3>1, <4>1, Zenon DEF MarkerSound, MarkerShown
    <3>4. CASE idx = N
      <4>1. \A t \in Planned(mem) : t = N \/ t < N
        BY <1>0 DEF Planned, Target
      <4>2. \A t \in Planned(mem) : t # N => ent'[t].target = Desired(mem, t)
        BY <2>1, <3>1, <3>4, <4>1, MarkerWaits, Zenon DEF Planned
      <4>3. ent'[N].target = Desired(mem, N)
        BY <2>2, <3>2, <3>4, Zenon DEF Desired
      <4>4. CommittedSound(jent.journal)'
        <5>1. \A t \in Planned(mem) : ent'[t].target = Desired(mem, t)
          BY <4>2, <4>3, Zenon
        <5> QED BY <2>2, <3>1, <5>1, Zenon DEF CommittedSound, Planned, Desired
      <4>5. ~ MarkerTaken'
        BY <1>0, <2>3 DEF Early, MarkerTaken
      <4> QED BY <4>4, <4>5, Zenon DEF MarkerSound
    <3> QED BY <3>3, <3>4, Zenon
  <2> QED BY <1>9, <2>4, <2>5, Zenon DEF Install
<1>10. CASE Commit
  <2>1. PICK m : m = [mem EXCEPT !.state = "Committed"]
    BY Zenon
  <2>2. pc = "commit" /\ mem \in Journal
    BY <1>10, Zenon DEF Commit, TypeOK, SessionTypeOK
  <2>3. m.state = "Committed"
    BY <2>1, <2>2, Zenon DEF Journal
  <2>4. CASE WriteJournal(m) \/ WriteJournalNotSynced(m)
    <3>1. jent'.journal = m
      BY <2>4, JournalWritten, Zenon
    <3> QED BY <2>3, <3>1, Zenon DEF MarkerSound, MarkerShown, Pending
  <2>5. CASE WriteJournalNotRenamed /\ Die
    <3>1. ent' = ent /\ jent'.journal = jent.journal
      BY <2>5, JournalWritten, Zenon
    <3> QED BY <2>5, <3>1, EarlySteps, MarkerEarly, Zenon
  <2> QED BY <1>0, <1>10, <2>1, <2>4, <2>5, Zenon DEF Commit, Failing
<1>11. ~ Interfere
  BY Zenon DEF Interfere, ForeignWrite, Calm, IndInv
<1> QED BY <1>1, <1>2, <1>3, <1>4, <1>5, <1>6, <1>7, <1>8, <1>9, <1>10, <1>11, Zenon
        DEF Next, SessionStep, Disturbance

-----------------------------------------------------------------------------
\* Under a committed journal everything is in place anyway.
LEMMA SoundBoundary == TypeOK /\ IndInv /\ MarkerSound => GenerationBoundary
<1> SUFFICES ASSUME TypeOK, IndInv, MarkerSound, jent.journal # NoFile,
                    jent.journal.plan[N] = "write", ent[N].target = jent.journal.txn
             PROVE  CommittedSound(jent.journal)
  BY Zenon DEF GenerationBoundary
<1>1. jent.journal \in Journal
  BY Zenon DEF TypeOK, StoreTypeOK, JournalEntry
<1>2. CASE jent.journal.state = "Prepared"
  BY <1>2, Zenon DEF MarkerSound, MarkerShown, Pending
<1>3. CASE jent.journal.state = "Committed"
  BY <1>3, Zenon DEF IndInv, FilesInv, CommittedInv, CommittedSound
<1> QED BY <1>1, <1>2, <1>3, Zenon DEF Journal

LEMMA BoundaryView ==
    Together => (GenerationBoundary <=> ViewBoundary(View(JournalDir, ent, jent)))
<1> SUFFICES ASSUME Together
             PROVE  GenerationBoundary <=> ViewBoundary(View(JournalDir, ent, jent))
  BY Zenon
<1>1. PICK v : v = View(JournalDir, ent, jent)
  BY Zenon
<1>2. v.jent = jent /\ \A t \in Target : v.ent[t] = ent[t]
  BY <1>1, ViewParts DEF Together
<1>3. N \in Target /\ \A t \in Planned(jent.journal) : t \in Target
  BY StoreAssumption DEF Target, Planned
<1>4. GenerationBoundary <=> ViewBoundary(v)
  BY <1>2, <1>3, Zenon DEF GenerationBoundary, ViewBoundary, CommittedSound
<1> QED BY <1>1, <1>4, Zenon

LEMMA MarkerInvStep ==
    ASSUME TypeOK, TypeOK', IndInv, IndInv', DiskInv, MarkerInv, [Next]_vars,
           Calm(Env), "fault" \notin Env, "powerloss" \in Env => Together
    PROVE  MarkerInv'
<1>1. (Together => (GenerationBoundary <=> ViewBoundary(View(JournalDir, ent, jent))))'
  BY BoundaryView, PTL
<1>2. (TypeOK /\ IndInv /\ MarkerSound => GenerationBoundary)'
  BY SoundBoundary, PTL
<1>3. \A v : ViewBoundary(v)' <=> ViewBoundary(v)
  BY Zenon DEF ViewBoundary, Planned, Desired
<1>4. CASE PowerLoss
  <2>1. PICK v \in disk[JournalDir] :
          disk'[JournalDir] = {v} /\ View(JournalDir, ent', jent') = v /\ Die
    BY <1>4, PowerLossView, Zenon
  <2>2. "powerloss" \in Env /\ Together
    BY <1>4, Zenon DEF PowerLoss, IndInv
  <2>3. ViewBoundary(v)'
    BY <1>3, <2>2, Zenon DEF MarkerInv
  <2>4. GenerationBoundary'
    <3>1. ViewBoundary(View(JournalDir, ent, jent))'
      BY <2>1, <2>3, Zenon
    <3> QED BY <1>1, <2>2, <3>1, Zenon DEF Together
  <2>5. ~ MarkerTaken'
    BY <2>1, Zenon DEF Die, MarkerTaken
  <2>6. MarkerSound'
    BY <2>4, <2>5, Zenon DEF MarkerSound, MarkerShown, GenerationBoundary, Pending
  <2> QED BY <2>1, <2>3, <2>6, Zenon DEF MarkerInv
<1>5. CASE ~ PowerLoss
  <2>1. MarkerSound'
    BY <1>5, MarkerRecovery, MarkerSession, Zenon DEF MarkerInv
  <2>2. PICK now : now = View(JournalDir, ent', jent')
    BY Zenon
  <2>3. disk'[JournalDir] \subseteq disk[JournalDir] \cup {now}
    BY <1>5, <2>2, Stores, DiskStep, Zenon
  <2>4. ASSUME "powerloss" \in Env
        PROVE  ViewBoundary(now)
    <3>1. ViewBoundary(View(JournalDir, ent, jent))'
      BY <1>1, <1>2, <2>1, <2>4, Zenon DEF Together
    <3>2. ViewBoundary(now)'
      BY <2>2, <3>1, Zenon
    <3> QED BY <1>3, <3>2, Zenon
  <2> QED BY <1>3, <2>1, <2>3, <2>4, Zenon DEF MarkerInv
<1> QED BY <1>4, <1>5, Zenon
=============================================================================
