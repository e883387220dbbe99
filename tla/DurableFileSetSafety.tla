------------------------ MODULE DurableFileSetSafety ------------------------
(***************************************************************************)
(* The steps of DurableFileSet keep IndInv: those of recovery, the staging *)
(* of changes and the first journals, applying the operations and writing  *)
(* the committed journal, when processes die and system calls fail at any  *)
(* point.                                                                  *)
(***************************************************************************)
EXTENDS DurableFileSetInv, TLAPS

-----------------------------------------------------------------------------
\* The three names of a target.
LEMMA EntFacts ==
    ASSUME StoreTypeOK, NEW t \in Target
    PROVE  /\ ent[t] \in Entry
           /\ ent[t] = [target |-> ent[t].target, stage |-> ent[t].stage,
                        backup |-> ent[t].backup]
           /\ ent[t].target \in Content /\ ent[t].stage \in Content
           /\ ent[t].backup \in Content
  BY Zenon DEF StoreTypeOK, Entry

\* The fields of a journal.
LEMMA JournalFacts ==
    ASSUME NEW m \in Journal
    PROVE  /\ m # NoFile
           /\ m.state \in {"Prepared", "Committed"}
           /\ m.txn \in Nat
           /\ m.plan \in [Target -> {"keep", "write", "remove"}]
           /\ m.orig \in [Target -> Content]
           /\ m.installed \subseteq Target
           /\ \A t \in Target : Desired(m, t) = NoFile \/ Desired(m, t) = m.txn
  BY NoFileIsNoJournal, Zenon DEF Journal, Desired

\* What a change of one target's names leaves alone.
LEMMA PutEntryEffect ==
    ASSUME StoreTypeOK, NEW t \in Target, NEW e, NEW synced, PutEntry(t, e, synced)
    PROVE  /\ ent'[t] = e
           /\ \A u \in Target \ {t} : ent'[u] = ent[u]
           /\ jent' = jent /\ env' = env
  BY Zenon DEF PutEntry, StoreTypeOK

\* A step that changes no file keeps the facts about the files.
LEMMA SameFiles ==
    ASSUME StoreInv, UNCHANGED <<ent, jent, env, txns>>
    PROVE  StoreInv'
  BY Zenon DEF StoreInv, Fresh, FilesInv, UpTo, NoSiblings, WellFormed, Begun, SiblingsOwned,
         PreparedInv, CommittedInv, Untouched, MovedAside, Applied, Planned, Desired

\* Only the journal's staged sibling changes.
LEMMA SameJournal ==
    ASSUME StoreInv, UNCHANGED <<ent, env, txns>>, jent'.journal = jent.journal
    PROVE  StoreInv'
  BY DEF StoreInv, Fresh, FilesInv, UpTo, NoSiblings, WellFormed, Begun, SiblingsOwned,
         PreparedInv, CommittedInv, Untouched, MovedAside, Applied, Planned, Desired

\* A process may die wherever the facts about the files hold.
LEMMA DieInv ==
    ASSUME Die, StoreInv'
    PROVE  IndInv'
  BY Zenon DEF Die, StoreInv, IndInv, SessionInv, OutcomeIsTrue

\* A session may return a result that is so.
LEMMA ReturnInv ==
    ASSUME NEW kind, Return(kind), StoreInv', OutcomeIsTrue'
    PROVE  IndInv'
  BY Zenon DEF Return, StoreInv, IndInv, SessionInv

(***************************************************************************)
(* What the names of one operation may hold under a prepared journal, and  *)
(* that a change within these bounds keeps the facts about the files.      *)
(***************************************************************************)
EntrySound(m, t, e) ==
    /\ \/ e.target = m.orig[t] /\ e.backup = NoFile
       \/ e.target \in {NoFile, Desired(m, t)} /\ e.backup = m.orig[t]
    /\ m.plan[t] = "write" /\ e.target = m.txn => t \in m.installed
    /\ m.plan[t] = "remove" => e.stage = NoFile
    /\ e.stage \in {NoFile, Torn, m.txn}
    /\ t \in m.installed => e.stage # Torn

\* Under a prepared journal the names of every operation are within the bounds.
LEMMA PreparedSoundEntry ==
    ASSUME TypeOK, StoreInv, jent.journal # NoFile, jent.journal.state = "Prepared",
           NEW t \in Planned(jent.journal)
    PROVE  EntrySound(jent.journal, t, ent[t])
  BY Zenon DEF StoreInv, FilesInv, SiblingsOwned, PreparedInv, EntrySound, Untouched, MovedAside,
         Applied, Planned

\* Changing one operation within the bounds keeps the facts about the files.
LEMMA ChangePrepared ==
    ASSUME TypeOK, StoreInv, jent.journal # NoFile, jent.journal.state = "Prepared",
           NEW t \in Planned(jent.journal), NEW e, NEW synced, PutEntry(t, e, synced),
           EntrySound(jent.journal, t, e), txns' = txns
    PROVE  StoreInv'
<1> DEFINE m == jent.journal
<1>0. m \in Journal /\ t \in Target /\ m.plan[t] # "keep"
  BY Zenon DEF TypeOK, StoreTypeOK, JournalEntry, Planned
<1>1. /\ ent'[t] = e /\ \A u \in Target \ {t} : ent'[u] = ent[u]
      /\ jent' = jent /\ env' = env
  BY <1>0, PutEntryEffect, Zenon DEF TypeOK
<1>2. m.txn \in Nat /\ Desired(m, t) \in {NoFile, m.txn} /\ NoFile \notin Nat
  BY <1>0, JournalFacts, StoreAssumption, Zenon
<1>3. WellFormed(m) /\ Begun(m) /\ SiblingsOwned(m) /\ PreparedInv(m)
  BY Zenon DEF StoreInv, FilesInv
<1>4. WellFormed(m)' /\ Begun(m)'
  BY <1>1, <1>3, Zenon DEF WellFormed, Begun, UpTo
<1>5. SiblingsOwned(m)'
  BY <1>0, <1>1, <1>3, Zenon DEF SiblingsOwned, EntrySound, NoSiblings
<1>6. PreparedInv(m)'
  BY <1>0, <1>1, <1>3
     DEF PreparedInv, EntrySound, Untouched, MovedAside, Applied, Planned, Desired
<1>7. Fresh'
  <2>1. UpTo(txns, e.target)
    BY <1>0, <1>2, <1>3, Zenon DEF EntrySound, WellFormed, Begun, UpTo
  <2> QED BY <1>0, <1>1, <2>1, Zenon DEF Fresh, UpTo, StoreInv
<1> QED
  BY <1>1, <1>4, <1>5, <1>6, <1>7, Zenon DEF StoreInv, FilesInv

\* Under a committed journal a backup may go.
LEMMA ChangeCommitted ==
    ASSUME TypeOK, StoreInv, jent.journal # NoFile, jent.journal.state = "Committed",
           NEW t \in Planned(jent.journal), NEW synced,
           PutEntry(t, [ent[t] EXCEPT !.backup = NoFile], synced), txns' = txns
    PROVE  StoreInv'
<1> DEFINE m == jent.journal
           e == [ent[t] EXCEPT !.backup = NoFile]
<1>0. m \in Journal /\ t \in Target /\ m.plan[t] # "keep"
  BY Zenon DEF TypeOK, StoreTypeOK, JournalEntry, Planned
<1>1. /\ ent'[t] = e /\ \A u \in Target \ {t} : ent'[u] = ent[u]
      /\ jent' = jent /\ env' = env
  BY <1>0, PutEntryEffect, Zenon DEF TypeOK
<1>2. e.target = ent[t].target /\ e.stage = ent[t].stage /\ e.backup = NoFile
  BY <1>0, EntFacts, Zenon DEF TypeOK, Entry
<1> HIDE DEF e
<1>3. WellFormed(m) /\ Begun(m) /\ SiblingsOwned(m) /\ CommittedInv(m)
  BY Zenon DEF StoreInv, FilesInv
<1>4. WellFormed(m)' /\ Begun(m)'
  BY <1>1, <1>3, Zenon DEF WellFormed, Begun, UpTo
<1>5. SiblingsOwned(m)'
  BY <1>0, <1>1, <1>2, <1>3, Zenon DEF SiblingsOwned, NoSiblings
<1>6. CommittedInv(m)'
  BY <1>0, <1>1, <1>2, <1>3, Zenon DEF CommittedInv, Planned, Desired
<1>7. Fresh'
  BY <1>0, <1>1, <1>2, Zenon DEF Fresh, UpTo, StoreInv
<1> QED
  BY <1>1, <1>4, <1>5, <1>6, <1>7, Zenon DEF StoreInv, FilesInv

-----------------------------------------------------------------------------
(***************************************************************************)
(* Rolling back.                                                           *)
(***************************************************************************)

\* A step that stays within rollback has to keep the session's part only.
LEMMA StayInRollback ==
    ASSUME StoreInv', RollbackInv', result'.kind = "none",
           \/ pc' \in {"rbTarget", "rbBackup", "rbStage"}
           \/ pc' = "finish" /\ idx' = 0
    PROVE  IndInv'
  BY Zenon DEF IndInv, StoreInv, SessionInv, OutcomeIsTrue

\* What rollback starts from at any of its steps.
LEMMA RollbackFacts ==
    ASSUME TypeOK, IndInv, pc \in {"rbTarget", "rbBackup", "rbStage"}
    PROVE  /\ StoreInv /\ RollbackInv /\ result.kind = "none"
           /\ jent.journal \in Journal /\ jent.journal # NoFile /\ mem \in Journal
           /\ idx \in Target /\ NoFile \notin Nat /\ NoFile # Torn
           /\ Planned(mem) = Planned(jent.journal)
           /\ \A t \in Target : Desired(mem, t) = Desired(jent.journal, t)
           /\ \A t \in Target : jent.journal.orig[t] # jent.journal.txn
           /\ jent.journal.txn \in Nat /\ mem.txn \in Nat
           /\ \A t \in Planned(jent.journal) : t \in Target /\ EntrySound(jent.journal, t, ent[t])
<1>1. StoreInv /\ RollbackInv /\ result.kind = "none"
  BY Zenon DEF IndInv, StoreInv, SessionInv
<1>2. jent.journal \in Journal /\ jent.journal # NoFile /\ mem \in Journal /\ idx \in Target
  BY <1>1, JournalFacts, Zenon
     DEF RollbackInv, TypeOK, StoreTypeOK, JournalEntry, SessionTypeOK, AtOperation
<1>3. \A t \in Planned(jent.journal) : t \in Target /\ EntrySound(jent.journal, t, ent[t])
  BY <1>1, <1>2, PreparedSoundEntry, Zenon DEF RollbackInv, Planned
<1>4. \A t \in Target : jent.journal.orig[t] # jent.journal.txn
  BY <1>1, <1>2, Zenon DEF StoreInv, FilesInv, Begun
<1> QED
  BY <1>1, <1>2, <1>3, <1>4, JournalFacts, StoreAssumption, Zenon DEF RollbackInv, Planned, Desired

\* What a step within rollback has to establish: it touches the names of one
\* operation, and leaves them as the next step expects them unless it reports.
LEMMA RollbackGoesOn ==
    ASSUME RollbackInv, idx \in Target, mem \in Journal,
           UNCHANGED <<jent, mem, purpose>>, errs' \in {errs, "some"},
           \A u \in Target \ {idx} : ent'[u] = ent[u],
           ent'[idx].stage \in {NoFile, ent[idx].stage}, NoFile # Torn,
           \/ /\ idx' = idx /\ pc' \in {"rbBackup", "rbStage"} /\ idx \in Planned(mem)
              /\ pc' = "rbBackup" /\ errs' = "none" => ent'[idx].target # mem.txn
              /\ pc' = "rbStage" /\ errs' = "none" =>
                    ent'[idx].target = mem.orig[idx] /\ ent'[idx].backup = NoFile
           \/ /\ idx' = idx - 1 /\ pc' \in {"rbTarget", "finish"}
              /\ errs' = "none" /\ idx \in Planned(mem) => ent'[idx] = Clean(mem.orig[idx])
    PROVE  RollbackInv'
<1>1. /\ (jent.journal # NoFile)'
      /\ (mem.plan = jent.journal.plan)' /\ (mem.orig = jent.journal.orig)'
      /\ (mem.txn = jent.journal.txn)'
      /\ (jent.journal.state = "Prepared")'
      /\ (jent.journal.installed \subseteq mem.installed)'
      /\ (purpose # "commit")'
  BY Zenon DEF RollbackInv
<1>2. (\A t \in mem.installed : mem.plan[t] = "write" /\ ent[t].stage # Torn)'
  BY JournalFacts DEF RollbackInv
<1>3. (errs = "none" => \A t \in Planned(mem) : t > idx => RolledBack(t))'
  <2> SUFFICES ASSUME errs' = "none", NEW t \in Planned(mem), t > idx'
               PROVE  ent'[t] = Clean(mem.orig[t])
    BY Zenon DEF RolledBack, Planned, Clean
  <2>1. t \in Target /\ errs = "none"
    BY Zenon DEF Planned
  <2>2. CASE t = idx
    BY <2>1, <2>2, SMTT(60) DEF Target
  <2>3. CASE t # idx
    <3>1. t > idx
      BY <2>1, <2>3, StoreAssumption, SMTT(60) DEF Target
    <3> QED BY <2>1, <2>3, <3>1, Zenon DEF RollbackInv, RolledBack
  <2> QED BY <2>2, <2>3, Zenon
<1>4. /\ (pc \in {"rbBackup", "rbStage"} => idx \in Planned(mem))'
      /\ (pc = "rbBackup" /\ errs = "none" => ent[idx].target # mem.txn)'
      /\ (pc = "rbStage" /\ errs = "none" => Untouched(mem, idx))'
  BY Zenon DEF Planned, Untouched
<1> QED BY <1>1, <1>2, <1>3, <1>4, Zenon DEF RollbackInv

\* What removing a name can do.
LEMMA UnlinkEffect ==
    ASSUME NEW t \in Target, NEW name \in {"target", "stage", "backup"}, NEW step, NEW i,
           Unlink(t, name, step, i)
    PROVE  /\ \/ \E synced : PutEntry(t, [ent[t] EXCEPT ![name] = NoFile], synced)
              \/ UNCHANGED <<ent, jent, env>> /\ (Die \/ errs' = "some")
           /\ Die \/ GotoErr(step, i, FALSE) \/ GotoErr(step, i, TRUE)
           /\ txns' = txns
  BY ZenonT(40) DEF Unlink, Failing, GotoErr, Die, storeVars

\* A step that only reports leaves the files alone and never clears an error.
LEMMA ReportEffect ==
    ASSUME NEW step, NEW i, NEW failed \in BOOLEAN, Report(step, i, failed)
    PROVE  /\ UNCHANGED <<ent, jent, env, mem, purpose, result, txns>>
           /\ pc' = step /\ idx' = i
           /\ errs' = "none" => errs = "none" /\ ~failed
  BY Zenon DEF Report, GotoErr, storeVars

\* What the next step of rollback expects of the operation that this step leaves.
Expected(step, i, e) ==
    \/ step = "rbBackup" /\ i = idx /\ idx \in Planned(mem) /\ e.target # mem.txn
    \/ /\ step = "rbStage" /\ i = idx /\ idx \in Planned(mem)
       /\ e.target = mem.orig[idx] /\ e.backup = NoFile
    \/ /\ step = RollbackNext /\ i = idx - 1
       /\ idx \in Planned(mem) => e = Clean(mem.orig[idx])

\* Where rollback goes, whether it has reported an error or not.
Follows(step, i) ==
    \/ step \in {"rbBackup", "rbStage"} /\ i = idx /\ idx \in Planned(mem)
    \/ step = RollbackNext /\ i = idx - 1

\* A step of the rollback that leaves what the next step expects.
LEMMA RollbackMoves ==
    ASSUME TypeOK, IndInv, pc \in {"rbTarget", "rbBackup", "rbStage"},
           NEW step, NEW i, Follows(step, i), StoreInv',
           UNCHANGED <<jent, mem, purpose, result>>, pc' = step, idx' = i,
           \A u \in Target \ {idx} : ent'[u] = ent[u],
           ent'[idx].stage \in {NoFile, ent[idx].stage},
           errs' \in {errs, "some"}, errs' = "none" => Expected(step, i, ent'[idx])
    PROVE  IndInv'
<1> USE RollbackFacts
<1>1. idx \in Target /\ (i = idx \/ i = idx - 1)
  BY Zenon DEF Follows
<1>2. \/ pc' \in {"rbBackup", "rbStage"} /\ idx' = idx /\ idx \in Planned(mem)
      \/ pc' = "rbTarget" /\ idx' = idx - 1
      \/ pc' = "finish" /\ idx' = idx - 1 /\ idx' = 0
  <2>1. idx = 1 => idx - 1 = 0
    BY SMTT(60)
  <2> QED BY <2>1, Zenon DEF Follows, RollbackNext
<1>3. RollbackInv'
  BY <1>1, <1>2, RollbackGoesOn, Zenon DEF Expected, RollbackNext
<1> QED
  BY <1>2, <1>3, StayInRollback, Zenon

\* A step of the rollback that changes the names of its operation, or fails to.
LEMMA RollbackChange ==
    ASSUME TypeOK, IndInv, pc \in {"rbTarget", "rbBackup", "rbStage"},
           idx \in Planned(mem), NEW e, EntrySound(jent.journal, idx, e),
           e.stage \in {NoFile, ent[idx].stage},
           NEW step, NEW i, Follows(step, i), errs = "none" => Expected(step, i, e),
           \/ \E synced : PutEntry(idx, e, synced)
           \/ UNCHANGED <<ent, jent, env>> /\ (Die \/ errs' = "some"),
           Die \/ GotoErr(step, i, FALSE) \/ GotoErr(step, i, TRUE),
           txns' = txns
    PROVE  IndInv'
<1> USE RollbackFacts
<1>1. CASE \E synced : PutEntry(idx, e, synced)
  <2>1. StoreInv'
    BY <1>1, ChangePrepared, Zenon DEF RollbackInv
  <2>2. /\ ent'[idx] = e /\ \A u \in Target \ {idx} : ent'[u] = ent[u]
        /\ jent' = jent
    BY <1>1, PutEntryEffect, Zenon DEF TypeOK
  <2>3. CASE Die
    BY <2>1, <2>3, DieInv, Zenon
  <2>4. CASE ~Die
    <3>1. /\ pc' = step /\ idx' = i /\ errs' \in {errs, "some"}
          /\ UNCHANGED <<mem, purpose, result>>
      BY <2>4, Zenon DEF GotoErr
    <3> QED BY <2>1, <2>2, <3>1, RollbackMoves, Zenon
  <2> QED BY <2>3, <2>4, Zenon
<1>2. CASE UNCHANGED <<ent, jent, env>> /\ (Die \/ errs' = "some")
  <2>1. StoreInv'
    BY <1>2, SameFiles, Zenon
  <2>2. CASE Die
    BY <2>1, <2>2, DieInv, Zenon
  <2>3. CASE ~Die
    <3>1. /\ pc' = step /\ idx' = i /\ errs' = "some"
          /\ UNCHANGED <<mem, purpose, result>>
      BY <1>2, <2>3, Zenon DEF GotoErr
    <3> QED BY <1>2, <2>1, <3>1, RollbackMoves, Zenon
  <2> QED BY <2>2, <2>3, Zenon
<1> QED BY <1>1, <1>2, Zenon

\* A step of the rollback that only reports.
LEMMA RollbackReport ==
    ASSUME TypeOK, IndInv, pc \in {"rbTarget", "rbBackup", "rbStage"},
           NEW step, NEW i, Follows(step, i), NEW failed \in BOOLEAN,
           Report(step, i, failed),
           errs = "none" /\ ~failed => Expected(step, i, ent[idx])
    PROVE  IndInv'
<1>1. errs' \in {errs, "some"}
  BY Zenon DEF Report, GotoErr
<1>2. StoreInv'
  BY ReportEffect, SameFiles, RollbackFacts, Zenon
<1> QED BY <1>1, <1>2, ReportEffect, RollbackMoves

\* Removing the installed file from the target.
LEMMA RollbackTargetInv ==
    ASSUME TypeOK, IndInv, RollbackTarget
    PROVE  IndInv'
<1> USE RollbackFacts
<1> DEFINE j == jent.journal
           gone == [ent[idx] EXCEPT !["target"] = NoFile]
<1>1. pc = "rbTarget" /\ idx \in Planned(mem) /\ Follows("rbBackup", idx)
  BY Zenon DEF RollbackTarget, Follows
<1>2. CASE TargetMatchesInstalled(mem, idx) /\ mem.plan[idx] = "write"
  <2>1. Unlink(idx, "target", "rbBackup", idx)
    BY <1>2, Zenon DEF RollbackTarget
  <2>2. ent[idx].target = j.txn /\ ent[idx].backup = j.orig[idx]
    BY <1>1, <1>2, Zenon DEF TargetMatchesInstalled, RollbackInv, EntrySound
  <2>3. gone.target = NoFile /\ gone.stage = ent[idx].stage /\ gone.backup = ent[idx].backup
    BY <1>1, EntFacts, ZenonT(40) DEF TypeOK, Entry
  <2> HIDE DEF gone
  <2>4. EntrySound(j, idx, gone) /\ Expected("rbBackup", idx, gone)
    BY <1>1, <2>2, <2>3, Zenon DEF EntrySound, Expected
  <2> QED BY <1>1, <2>1, <2>3, <2>4, UnlinkEffect, RollbackChange, ZenonT(40) DEF gone
<1>3. CASE ~(TargetMatchesInstalled(mem, idx) /\ mem.plan[idx] = "write")
  <2> DEFINE failed == \/ TargetMatchesInstalled(mem, idx)
                       \/ ent[idx].target \notin {NoFile, mem.orig[idx]}
  <2>1. Report("rbBackup", idx, failed) /\ failed \in BOOLEAN
    BY <1>3, ZenonT(40) DEF RollbackTarget
  <2>2. ~failed => Expected("rbBackup", idx, ent[idx])
    BY <1>1, Zenon DEF Expected, RollbackInv
  <2> HIDE DEF failed
  <2> QED BY <1>1, <2>1, <2>2, RollbackReport, Zenon
<1> QED BY <1>2, <1>3, Zenon

\* Moving the backup back to the target.
LEMMA RollbackBackupInv ==
    ASSUME TypeOK, IndInv, RollbackBackup
    PROVE  IndInv'
<1> USE RollbackFacts
<1> DEFINE j == jent.journal
<1>1. pc = "rbBackup" /\ idx \in Planned(mem) /\ Follows("rbStage", idx)
  BY Zenon DEF RollbackBackup, Follows, RollbackInv
<1>2. CASE /\ mem.orig[idx] # NoFile /\ ent[idx].backup = mem.orig[idx]
           /\ ent[idx].target = NoFile
  <2>1. /\ Restored(idx).target = mem.orig[idx] /\ Restored(idx).backup = NoFile
        /\ Restored(idx).stage = ent[idx].stage
    BY <1>1, <1>2, EntFacts, Zenon DEF TypeOK, Entry, Restored
  <2>2. EntrySound(j, idx, Restored(idx)) /\ Expected("rbStage", idx, Restored(idx))
    BY <1>1, <2>1, Zenon DEF EntrySound, Expected, RollbackInv
  <2>3. /\ \/ \E synced : PutEntry(idx, Restored(idx), synced)
           \/ UNCHANGED <<ent, jent, env>> /\ (Die \/ errs' = "some")
        /\ Die \/ GotoErr("rbStage", idx, FALSE) \/ GotoErr("rbStage", idx, TRUE)
        /\ txns' = txns
    BY <1>2, ZenonT(40) DEF RollbackBackup, Failing, GotoErr, Die, storeVars
  <2> QED BY <1>1, <2>1, <2>2, <2>3, RollbackChange, ZenonT(40)
<1>3. CASE ~(/\ mem.orig[idx] # NoFile /\ ent[idx].backup = mem.orig[idx]
             /\ ent[idx].target = NoFile)
  <2> DEFINE failed == /\ mem.orig[idx] # NoFile
                       /\ ~(/\ ent[idx].target = mem.orig[idx]
                            /\ ent[idx].backup \in {NoFile, mem.orig[idx]})
  <2>1. Report("rbStage", idx, failed) /\ failed \in BOOLEAN
    BY <1>3, ZenonT(40) DEF RollbackBackup
  <2>2. errs = "none" /\ ~failed => Expected("rbStage", idx, ent[idx])
    BY <1>1, <1>3, Zenon DEF Expected, RollbackInv, EntrySound, Desired
  <2> HIDE DEF failed
  <2> QED BY <1>1, <2>1, <2>2, RollbackReport, Zenon
<1> QED BY <1>2, <1>3, Zenon

\* Removing the staged file and going on with the operation before.
LEMMA RollbackStageInv ==
    ASSUME TypeOK, IndInv, RollbackStage
    PROVE  IndInv'
<1> USE RollbackFacts
<1> DEFINE j == jent.journal
           gone == [ent[idx] EXCEPT !["stage"] = NoFile]
<1>1. pc = "rbStage" /\ idx \in Planned(mem) /\ Follows(RollbackNext, idx - 1)
  BY Zenon DEF RollbackStage, Follows, RollbackInv
<1>2. errs = "none" => ent[idx].target = mem.orig[idx] /\ ent[idx].backup = NoFile
  BY <1>1, Zenon DEF RollbackInv, Untouched
<1>3. CASE mem.plan[idx] # "write"
  <2>1. UNCHANGED storeVars /\ Goto(RollbackNext, idx - 1)
    BY <1>3, Zenon DEF RollbackStage, RemoveOwnedStage
  <2>2. ent[idx].stage = NoFile
    BY <1>1, <1>3, SMTT(60) DEF EntrySound, RollbackInv, Planned, Journal
  <2>3. errs = "none" => Expected(RollbackNext, idx - 1, ent[idx])
    BY <1>1, <1>2, <2>2, EntFacts, Zenon DEF Expected, Clean, TypeOK
  <2>4. StoreInv'
    BY <1>1, <2>1, SameFiles, Zenon DEF storeVars, Goto
  <2> QED BY <1>1, <2>1, <2>3, <2>4, RollbackMoves, Zenon DEF Goto, storeVars
<1>4. CASE /\ mem.plan[idx] = "write"
           /\ ent[idx].stage # NoFile /\ (idx \in mem.installed => ent[idx].stage = mem.txn)
  <2>1. Unlink(idx, "stage", RollbackNext, idx - 1)
    BY <1>4, Zenon DEF RollbackStage, RemoveOwnedStage
  <2>2. gone.target = ent[idx].target /\ gone.stage = NoFile /\ gone.backup = ent[idx].backup
    BY <1>1, EntFacts, ZenonT(40) DEF TypeOK, Entry
  <2>3. EntrySound(j, idx, gone)
    BY <1>1, <2>2, Zenon DEF EntrySound
  <2>4. errs = "none" => Expected(RollbackNext, idx - 1, gone)
    <3>1. gone = [target |-> ent[idx].target, stage |-> NoFile, backup |-> ent[idx].backup]
      <4>1. gone \in Entry
        BY <1>1, EntFacts, ZenonT(40) DEF TypeOK, Entry, Content
      <4> HIDE DEF gone
      <4> QED BY <2>2, <4>1, Zenon DEF Entry
    <3> QED BY <1>2, <3>1, Zenon DEF Expected, Clean
  <2> HIDE DEF gone
  <2> QED BY <1>1, <2>1, <2>2, <2>3, <2>4, UnlinkEffect, RollbackChange, ZenonT(40) DEF gone
<1>5. CASE /\ mem.plan[idx] = "write"
           /\ ~(/\ ent[idx].stage # NoFile
                /\ idx \in mem.installed => ent[idx].stage = mem.txn)
  <2> DEFINE failed == ent[idx].stage # NoFile
  <2>1. Report(RollbackNext, idx - 1, failed) /\ failed \in BOOLEAN
    BY <1>5, Zenon DEF RollbackStage, RemoveOwnedStage
  <2>2. errs = "none" /\ ~failed => Expected(RollbackNext, idx - 1, ent[idx])
    BY <1>1, <1>2, EntFacts, Zenon DEF Expected, Clean, TypeOK
  <2> HIDE DEF failed
  <2> QED BY <1>1, <2>1, <2>2, RollbackReport, Zenon
<1> QED BY <1>3, <1>4, <1>5, Zenon

\* An operation that is not part of the transaction, or cannot be examined.
LEMMA RollbackSkipInv ==
    ASSUME TypeOK, IndInv, RollbackSkip
    PROVE  IndInv'
<1> USE RollbackFacts
<1>1. pc = "rbTarget" /\ Follows(RollbackNext, idx - 1)
  BY Zenon DEF RollbackSkip, Follows
<1>2. /\ UNCHANGED <<ent, jent, env, mem, purpose, result, txns>>
      /\ pc' = RollbackNext /\ idx' = idx - 1
      /\ (errs' = errs /\ idx \notin Planned(mem)) \/ errs' = "some"
  BY Zenon DEF RollbackSkip, Goto, GotoErr, storeVars
<1>3. errs' = "none" => Expected(RollbackNext, idx - 1, ent'[idx])
  BY <1>2, Zenon DEF Expected
<1>4. StoreInv'
  BY <1>1, <1>2, SameFiles, Zenon
<1> QED BY <1>1, <1>2, <1>3, <1>4, RollbackMoves, Zenon

-----------------------------------------------------------------------------
(***************************************************************************)
(* Cleaning up after a commit.                                             *)
(***************************************************************************)
LEMMA StayInCleanup ==
    ASSUME StoreInv', CleanupInv', result'.kind = "none",
           pc' \in {"cleanStage", "cleanBackup"} \/ (pc' = "finish" /\ idx' = 0)
    PROVE  IndInv'
  BY Zenon DEF IndInv, StoreInv, SessionInv, OutcomeIsTrue

\* What holds while the stages and backups of a transaction are removed.
LEMMA CleanupFacts ==
    ASSUME TypeOK, IndInv, pc \in {"cleanStage", "cleanBackup"}
    PROVE  /\ StoreInv /\ CleanupInv /\ result.kind = "none"
           /\ mem \in Journal /\ mem # NoFile
           /\ idx \in Target
           /\ \A t \in Target : ent[t].stage = NoFile
<1>1. StoreInv /\ CleanupInv /\ result.kind = "none"
  BY Zenon DEF IndInv, StoreInv, SessionInv
<1>2. mem \in Journal /\ mem # NoFile /\ idx \in Target
  BY JournalFacts, Zenon DEF TypeOK, SessionTypeOK, AtOperation
<1>3. \A t \in Target : ent[t].stage = NoFile
  BY <1>1, <1>2, Zenon
     DEF CleanupInv, StoreInv, FilesInv, SiblingsOwned, CommittedInv, NoSiblings, Planned
<1> QED BY <1>1, <1>2, <1>3, Zenon

\* No staged file is left after a commit, so nothing is removed here.
LEMMA CleanStageInv ==
    ASSUME TypeOK, IndInv, CleanStage
    PROVE  IndInv'
<1> USE CleanupFacts
<1> DEFINE step == IF idx = N THEN "cleanBackup" ELSE "cleanStage"
           i    == IF idx = N THEN 1 ELSE idx + 1
<1>1. pc = "cleanStage"
  BY Zenon DEF CleanStage
<1>2. /\ UNCHANGED <<ent, jent, env, mem, purpose, result, txns>>
      /\ pc' = step /\ idx' = i
  <2>1. \/ UNCHANGED storeVars /\ Goto(step, i)
        \/ Report(step, i, FALSE)
    BY <1>1, ZenonT(40) DEF CleanStage, RemoveOwnedStage
  <2> HIDE DEF step, i
  <2> QED BY <2>1, ReportEffect, ZenonT(40) DEF Goto, storeVars
<1>3. StoreInv'
  BY <1>1, <1>2, SameFiles, Zenon
<1>4. CleanupInv'
  BY <1>1, <1>2, StoreAssumption, SMTT(60) DEF CleanupInv, Planned, Target
<1> QED BY <1>1, <1>2, <1>3, <1>4, StayInCleanup, Zenon

\* Removing the backups; without an error all of them are gone at the end.
LEMMA CleanBackupInv ==
    ASSUME TypeOK, IndInv, CleanBackup
    PROVE  IndInv'
<1> USE CleanupFacts
<1> DEFINE step == IF idx = N THEN "finish" ELSE "cleanBackup"
           i    == IF idx = N THEN 0 ELSE idx + 1
           gone == [ent[idx] EXCEPT !["backup"] = NoFile]
<1>1. pc = "cleanBackup"
  BY Zenon DEF CleanBackup
<1>3. ASSUME StoreInv', UNCHANGED <<jent, mem, purpose, result>>,
             pc' = step, idx' = i, errs' \in {errs, "some"},
             \A u \in Target \ {idx} : ent'[u] = ent[u],
             errs' = "none" /\ idx \in Planned(mem) => ent'[idx].backup = NoFile
      PROVE  IndInv'
  <2>1. CleanupInv'
    <3>1. ASSUME errs' = "none", NEW t \in Planned(mem),
                 pc' = "finish" \/ t < idx'
          PROVE  ent'[t].backup = NoFile
      <4>1. t \in Target /\ (t = idx \/ t < idx) /\ errs = "none"
        BY <1>1, <1>3, <3>1, StoreAssumption, SMTT(60) DEF Planned, Target
      <4> QED BY <1>1, <1>3, <3>1, <4>1, Zenon DEF CleanupInv
    <3> QED BY <1>1, <1>3, <3>1, Zenon DEF CleanupInv, Planned
  <2> QED BY <1>1, <1>3, <2>1, StayInCleanup, Zenon
<1>4. CASE mem.orig[idx] = NoFile
  <2>1. UNCHANGED storeVars /\ Goto(step, i)
    BY <1>4, Zenon DEF CleanBackup
  <2> HIDE DEF step, i
  <2>2. StoreInv' /\ UNCHANGED <<ent, jent, mem, purpose, result, errs>> /\ pc' = step /\ idx' = i
    BY <1>1, <2>1, SameFiles, Zenon DEF Goto, storeVars
  <2>3. idx \in Planned(mem) => ent[idx].backup = NoFile
    BY <1>1, <1>4, Zenon DEF CleanupInv, StoreInv, FilesInv, CommittedInv
  <2> QED BY <1>3, <2>2, <2>3, Zenon
<1>5. CASE mem.orig[idx] # NoFile /\ ent[idx].backup = mem.orig[idx]
  <2>1. Unlink(idx, "backup", step, i)
    BY <1>5, Zenon DEF CleanBackup
  <2>2. idx \in Planned(mem)
    BY <1>1, <1>5, Zenon DEF CleanupInv, StoreInv, FilesInv, WellFormed, Planned
  <2>3. gone = [ent[idx] EXCEPT !.backup = NoFile] /\ gone.backup = NoFile
    BY <1>1, EntFacts, ZenonT(40) DEF TypeOK, Entry
  <2> HIDE DEF step, i, gone
  <2>4. CASE \E synced : PutEntry(idx, gone, synced)
    <3>1. StoreInv'
      BY <1>1, <2>1, <2>2, <2>3, <2>4, UnlinkEffect, ChangeCommitted, ZenonT(40) DEF CleanupInv
    <3>2. /\ ent'[idx] = gone /\ \A u \in Target \ {idx} : ent'[u] = ent[u]
          /\ jent' = jent
      BY <1>1, <2>4, PutEntryEffect, Zenon DEF TypeOK
    <3> QED BY <1>1, <1>3, <2>1, <2>3, <3>1, <3>2, UnlinkEffect, DieInv, ZenonT(40) DEF GotoErr
  <2>5. CASE UNCHANGED <<ent, jent, env>> /\ (Die \/ errs' = "some")
    <3>1. StoreInv'
      BY <1>1, <2>1, <2>5, UnlinkEffect, SameFiles, ZenonT(40)
    <3> QED BY <1>1, <1>3, <2>1, <2>5, <3>1, UnlinkEffect, DieInv, ZenonT(40) DEF GotoErr
  <2> QED BY <1>1, <2>1, <2>4, <2>5, UnlinkEffect, ZenonT(40) DEF gone
<1>6. CASE mem.orig[idx] # NoFile /\ ent[idx].backup # mem.orig[idx]
  <2> DEFINE failed == ent[idx].backup # NoFile
  <2>1. Report(step, i, failed) /\ failed \in BOOLEAN
    BY <1>6, Zenon DEF CleanBackup
  <2> HIDE DEF step, i
  <2>2. errs' \in {errs, "some"}
    BY <2>1, Zenon DEF Report, GotoErr
  <2>3. errs' = "none" => ent[idx].backup = NoFile
    BY <2>1, ReportEffect, ZenonT(40)
  <2> HIDE DEF failed
  <2>4. StoreInv'
    BY <1>1, <2>1, ReportEffect, SameFiles, Zenon
  <2> QED BY <1>3, <2>1, <2>2, <2>3, <2>4, ReportEffect, Zenon
<1> QED BY <1>4, <1>5, <1>6, Zenon

-----------------------------------------------------------------------------
(***************************************************************************)
(* The end of rollback and cleanup, and the start of recovery.             *)
(***************************************************************************)

\* Without a reported error the files are as they should be at the end.
LEMMA FinishFacts ==
    ASSUME TypeOK, IndInv, pc = "finish"
    PROVE  /\ StoreInv /\ result.kind = "none" /\ mem \in Journal
           /\ jent.journal # NoFile
           /\ errs = "none" => \A t \in Target : NoSiblings(t)
           /\ errs = "none" /\ purpose = "commit" =>
                 \A t \in Planned(mem) : ent[t] = Clean(Desired(mem, t))
           /\ errs = "none" /\ purpose = "abort" =>
                 \A t \in Planned(mem) : ent[t] = Clean(mem.orig[t])
<1>1. StoreInv /\ result.kind = "none" /\ idx = 0 /\ (RollbackInv \/ CleanupInv)
  BY Zenon DEF IndInv, StoreInv, SessionInv
<1>2. mem \in Journal /\ mem # NoFile
  BY JournalFacts, Zenon DEF TypeOK, SessionTypeOK
<1>3. CASE RollbackInv
  <2>1. jent.journal # NoFile /\ purpose # "commit"
    BY <1>3, Zenon DEF RollbackInv
  <2>2. errs = "none" => \A t \in Planned(mem) : ent[t] = Clean(mem.orig[t])
    BY <1>1, <1>3, StoreAssumption, SMTT(60) DEF RollbackInv, RolledBack, Planned, Target
  <2>3. \A t \in Target : t \notin Planned(mem) => NoSiblings(t)
    BY <1>1, <1>3, Zenon DEF RollbackInv, StoreInv, FilesInv, SiblingsOwned, Planned
  <2>4. \A f : Clean(f).stage = NoFile /\ Clean(f).backup = NoFile
    BY Zenon DEF Clean
  <2>5. errs = "none" => \A t \in Planned(mem) : NoSiblings(t)
    BY <2>2, <2>4, Zenon DEF NoSiblings
  <2> QED BY <1>1, <1>2, <2>1, <2>2, <2>3, <2>5, Zenon
<1>4. CASE CleanupInv
  <2>1. jent.journal = mem /\ purpose # "abort"
    BY <1>4, Zenon DEF CleanupInv
  <2>2. \A t \in Target : t \notin Planned(mem) => NoSiblings(t)
    BY <1>1, <1>2, <1>4, Zenon DEF CleanupInv, StoreInv, FilesInv, SiblingsOwned, Planned
  <2>3. errs = "none" =>
           \A t \in Planned(mem) : /\ t \in Target /\ NoSiblings(t)
                                   /\ ent[t].target = Desired(mem, t)
    BY <1>1, <1>2, <1>4, Zenon DEF CleanupInv, StoreInv, FilesInv, CommittedInv, NoSiblings, Planned
  <2>4. errs = "none" => \A t \in Planned(mem) : ent[t] = Clean(Desired(mem, t))
    BY <2>3, EntFacts, Zenon DEF NoSiblings, Clean, TypeOK
  <2> QED BY <1>1, <1>2, <2>1, <2>2, <2>3, <2>4, Zenon
<1> QED BY <1>1, <1>3, <1>4, Zenon

\* Once no name of an operation is left, the journal may go.
LEMMA NoJournalStore ==
    ASSUME StoreInv, UNCHANGED <<ent, env, txns>>, jent'.journal = NoFile,
           \A t \in Target : NoSiblings(t)
    PROVE  StoreInv'
  BY Zenon DEF StoreInv, Fresh, FilesInv, NoSiblings, UpTo

\* A session that opens without a journal starts with nothing staged.
LEMMA OpenNoChanges ==
    ASSUME StoreInv', jent'.journal = NoFile, pc' = "open", mem' = NoChanges,
           result'.kind = "none"
    PROVE  IndInv'
<1>1. OpenInv'
  BY StoreAssumption, Zenon DEF OpenInv, NoChanges, WellFormed, UpTo, Planned
<1> QED BY <1>1, Zenon DEF IndInv, StoreInv, SessionInv, OutcomeIsTrue

\* Writing the journal's names leaves the targets alone.
LEMMA PutJournalEffect ==
    ASSUME NEW j, NEW synced, PutJournal(j, synced)
    PROVE  jent' = j /\ UNCHANGED <<ent, env>>
  BY Zenon DEF PutJournal

\* The end of a rollback or of a cleanup: the journal goes, or an error is returned.
LEMMA FinishInv ==
    ASSUME TypeOK, IndInv, FinishWithErrors \/ RemoveJournal \/ RemoveJournalFails
    PROVE  IndInv'
<1>0. pc = "finish"
  BY ZenonT(40) DEF FinishWithErrors, RemoveJournal, RemoveJournalFails
<1>1. CASE FinishWithErrors
  <2>1. StoreInv'
    BY <1>0, <1>1, FinishFacts, SameFiles, Zenon DEF FinishWithErrors, Return, storeVars
  <2> QED BY <1>1, <2>1, ReturnInv, Zenon DEF FinishWithErrors, Return, OutcomeIsTrue
<1>2. CASE RemoveJournal
  <2>1. jent'.journal = NoFile /\ UNCHANGED <<ent, env>> /\ errs = "none"
    <3>1. PutJournal([journal |-> NoFile, stage |-> NoFile], TRUE) /\ errs = "none"
      BY <1>2, ZenonT(40) DEF RemoveJournal
    <3> QED BY <3>1, Zenon DEF PutJournal
  <2>2. txns' = txns
    BY <1>2, Zenon DEF RemoveJournal, Return
  <2>3. StoreInv'
    BY <1>0, <2>1, <2>2, FinishFacts, NoJournalStore, Zenon
  <2>4. CASE purpose = "recovery"
    BY <1>0, <1>2, <2>1, <2>3, <2>4, FinishFacts, OpenNoChanges, Zenon DEF RemoveJournal
  <2>5. CASE purpose = "commit"
    <3>1. Return("ok")
      BY <1>2, <2>5, Zenon DEF RemoveJournal
    <3>2. OutcomeIsTrue'
      BY <1>0, <2>1, <2>5, <3>1, FinishFacts, Zenon DEF Return, OutcomeIsTrue, Planned, Clean, Desired
    <3> QED BY <2>3, <3>1, <3>2, ReturnInv, Zenon
  <2>6. CASE purpose = "abort"
    <3>1. Return("rolledBack")
      BY <1>2, <2>6, Zenon DEF RemoveJournal
    <3>2. OutcomeIsTrue'
      BY <1>0, <2>1, <2>6, <3>1, FinishFacts, Zenon DEF Return, OutcomeIsTrue, Planned, Clean
    <3> QED BY <2>3, <3>1, <3>2, ReturnInv, Zenon
  <2> QED BY <2>4, <2>5, <2>6, Zenon DEF TypeOK, SessionTypeOK
<1>3. CASE RemoveJournalFails
  <2>1. /\ jent'.journal \in {jent.journal, NoFile} /\ UNCHANGED <<ent, env>>
        /\ errs = "none"
    <3>1. errs = "none" /\ \/ UNCHANGED storeVars
                            \/ \E j \in {jent.journal, NoFile} :
                                  PutJournal([journal |-> j, stage |-> NoFile], FALSE)
      BY <1>3, ZenonT(40) DEF RemoveJournalFails
    <3>2. CASE UNCHANGED storeVars
      BY <3>1, <3>2, Zenon DEF storeVars
    <3>3. ASSUME NEW j \in {jent.journal, NoFile},
                 PutJournal([journal |-> j, stage |-> NoFile], FALSE)
          PROVE  jent'.journal = j /\ UNCHANGED <<ent, env>>
      BY <3>3, Zenon DEF PutJournal
    <3> QED BY <3>1, <3>2, <3>3, ZenonT(40)
  <2>2. Return("incomplete") \/ Die
    BY <1>3, Zenon DEF RemoveJournalFails, Failing
  <2>3. txns' = txns
    BY <2>2, Zenon DEF Return, Die
  <2>4. StoreInv'
    BY <1>0, <2>1, <2>3, FinishFacts, NoJournalStore, SameJournal, Zenon
  <2>5. Return("incomplete") => OutcomeIsTrue'
    BY DEF Return, OutcomeIsTrue
  <2> QED BY <2>2, <2>4, <2>5, ReturnInv, DieInv, Zenon
<1> QED BY <1>1, <1>2, <1>3, Zenon

\* Taking the lock, and looking at what the predecessor left.
LEMMA StartInv ==
    ASSUME TypeOK, IndInv, Lock \/ StartRecovery \/ StartRecoveryFails
    PROVE  IndInv'
<1>0. StoreInv
  BY Zenon DEF IndInv, StoreInv
<1>1. CASE Lock
  <2>1. StoreInv'
    BY <1>0, <1>1, SameFiles, Zenon DEF Lock, storeVars
  <2> QED BY <1>1, <2>1, Zenon DEF Lock, IndInv, StoreInv, SessionInv, OutcomeIsTrue
<1>2. CASE StartRecovery
  <2>1. /\ UNCHANGED <<ent, env, txns, result>> /\ jent'.journal = jent.journal
        /\ errs' = "none" /\ purpose' = "recovery" /\ result.kind = "none"
    BY <1>2, ZenonT(40) DEF StartRecovery, PutJournal, storeVars, TypeOK, StoreTypeOK, JournalEntry,
                IndInv, SessionInv
  <2>2. StoreInv'
    BY <1>0, <2>1, SameJournal, Zenon
  <2>3. CASE jent.journal = NoFile
    BY <1>2, <2>1, <2>2, <2>3, OpenNoChanges, Zenon DEF StartRecovery
  <2>4. CASE jent.journal # NoFile /\ jent.journal.state = "Prepared"
    <3>1. pc' = "rbTarget" /\ idx' = N /\ mem' = jent.journal
      BY <1>2, <2>4, Zenon DEF StartRecovery
    <3>2. RollbackInv'
      <4>1. \A t \in jent.journal.installed :
               jent.journal.plan[t] = "write" /\ ent[t].stage # Torn
        <5>1. jent.journal.installed \subseteq Target
          BY <2>4, Zenon DEF TypeOK, StoreTypeOK, JournalEntry, Journal
        <5> QED BY <1>0, <2>4, <5>1, Zenon DEF StoreInv, FilesInv, WellFormed, SiblingsOwned
      <4>2. \A t \in Planned(jent.journal) : ~(t > N)
        BY StoreAssumption, SMTT(60) DEF Planned, Target
      <4> QED BY <2>1, <2>4, <3>1, <4>1, <4>2, Zenon DEF RollbackInv, Planned
    <3> QED BY <2>1, <2>2, <3>1, <3>2, StayInRollback, Zenon
  <2>5. CASE jent.journal # NoFile /\ jent.journal.state = "Committed"
    <3>1. pc' = "cleanStage" /\ idx' = 1 /\ mem' = jent.journal
      BY <1>2, <2>5, Zenon DEF StartRecovery
    <3>2. CleanupInv'
      BY <2>1, <2>5, <3>1, Zenon DEF CleanupInv
    <3> QED BY <2>1, <2>2, <3>1, <3>2, StayInCleanup, Zenon
  <2> QED BY <2>3, <2>4, <2>5, Zenon DEF TypeOK, StoreTypeOK, JournalEntry, Journal
<1>3. CASE StartRecoveryFails
  <2>1. UNCHANGED <<ent, env>> /\ jent'.journal = jent.journal /\ mem = NoChanges
    BY <1>3, ZenonT(40) DEF StartRecoveryFails, PutJournal, storeVars, TypeOK, StoreTypeOK, JournalEntry,
                IndInv, SessionInv
  <2>2. Return("error") \/ Die
    BY <1>3, Zenon DEF StartRecoveryFails, Failing
  <2>3. StoreInv'
    BY <1>0, <2>1, <2>2, SameJournal, Zenon DEF Return, Die
  <2>4. Return("error") => OutcomeIsTrue'
    BY <2>1 DEF Return, OutcomeIsTrue, NoChanges, Planned
  <2> QED BY <2>2, <2>3, <2>4, ReturnInv, DieInv, Zenon
<1> QED BY <1>1, <1>2, <1>3, Zenon

-----------------------------------------------------------------------------
(***************************************************************************)
(* Staging changes in memory, and the first journal.                       *)
(***************************************************************************)
LEMMA OpenFacts ==
    ASSUME TypeOK, IndInv, pc = "open"
    PROVE  /\ StoreInv /\ OpenInv /\ result.kind = "none" /\ mem \in Journal
           /\ \A t \in Target : NoSiblings(t)
<1>1. StoreInv /\ OpenInv /\ result.kind = "none"
  BY Zenon DEF IndInv, StoreInv, SessionInv
<1> QED BY <1>1, Zenon DEF OpenInv, StoreInv, FilesInv, TypeOK, SessionTypeOK

\* Staging a change in memory.
LEMMA StageInv ==
    ASSUME TypeOK, IndInv, Stage
    PROVE  IndInv'
<1>1. pc = "open" /\ UNCHANGED <<ent, jent, env, pc, result, txns>>
  BY Zenon DEF Stage, storeVars
<1>2. PICK t \in Target, change \in {"write", "remove"} :
         /\ mem.plan[t] = "keep"
         /\ change = "remove" => ent[t].target # NoFile
         /\ mem' = [mem EXCEPT !.plan[t] = change, !.orig[t] = ent[t].target]
  BY ZenonT(40) DEF Stage
<1>3. /\ mem'.state = mem.state /\ mem'.installed = mem.installed
      /\ mem'.plan[t] = change /\ mem'.orig[t] = ent[t].target
      /\ \A u \in Target \ {t} : mem'.plan[u] = mem.plan[u] /\ mem'.orig[u] = mem.orig[u]
  BY <1>1, <1>2, OpenFacts, Zenon DEF Journal
<1>4. StoreInv'
  BY <1>1, OpenFacts, SameFiles, Zenon
<1>5. WellFormed(mem)'
  BY <1>1, <1>2, <1>3, OpenFacts, SMTT(60) DEF OpenInv, WellFormed, StoreInv, Fresh, UpTo
<1>6. OpenInv'
  BY <1>1, <1>2, <1>3, <1>5, OpenFacts, Zenon DEF OpenInv, Planned
<1> QED BY <1>1, <1>4, <1>6, OpenFacts, Zenon DEF IndInv, StoreInv, SessionInv, OutcomeIsTrue

\* Dropping a session that has not committed.
LEMMA DropInv ==
    ASSUME TypeOK, IndInv, Drop
    PROVE  IndInv'
<1>1. StoreInv'
  BY OpenFacts, SameFiles, Zenon DEF Drop, Return, storeVars
<1> QED BY <1>1, ReturnInv, Zenon DEF Drop, Return, OutcomeIsTrue

\* The journal with the number of the new transaction fits the files.
LEMMA PrepareStore ==
    ASSUME TypeOK, IndInv, pc = "open", UNCHANGED <<ent, env>>, txns' = txns + 1,
           NEW m, m = [mem EXCEPT !.txn = txns + 1], jent'.journal \in {NoFile, m}
    PROVE  StoreInv'
<1>1. /\ m.txn = txns + 1 /\ m.state = "Prepared" /\ m.installed = {}
      /\ m.plan = mem.plan /\ m.orig = mem.orig
  BY OpenFacts, Zenon DEF OpenInv, Journal
<1>2. txns \in Nat /\ NoFile \notin Nat
  BY StoreAssumption, Zenon DEF TypeOK, SessionTypeOK
<1>3. jent'.journal = NoFile \/ jent'.journal = m
  BY Zenon
<1>4. \A t \in Target : /\ UpTo(txns, mem.orig[t])
                        /\ mem.plan[t] = "keep" => mem.orig[t] = NoFile
                        /\ mem.plan[t] = "remove" => mem.orig[t] # NoFile
  BY OpenFacts, Zenon DEF OpenInv, WellFormed
<1>5. Fresh'
  BY <1>2, OpenFacts DEF StoreInv, Fresh, UpTo
<1>6. WellFormed(m)'
  BY <1>1, <1>2, <1>4 DEF WellFormed, UpTo
<1>7. Begun(m)'
  BY <1>1, <1>2, <1>4, SMTT(60) DEF Begun, UpTo
<1>8. SiblingsOwned(m)'
  BY <1>1, OpenFacts, Zenon DEF SiblingsOwned, NoSiblings
<1>9. \A t \in Planned(m) : ent[t].target = m.orig[t] /\ NoSiblings(t) /\ m.orig[t] # m.txn
  BY <1>1, <1>7, OpenFacts, Zenon DEF OpenInv, Planned, Begun
<1>10. PreparedInv(m)'
  BY <1>9, Zenon DEF PreparedInv, Untouched, Planned, NoSiblings
<1> QED
  BY <1>1, <1>3, <1>5, <1>6, <1>7, <1>8, <1>10, OpenFacts, ZenonT(40) DEF StoreInv, FilesInv, NoSiblings

\* Writing the prepared journal, in every outcome.
LEMMA PrepareInv ==
    ASSUME TypeOK, IndInv, Prepare
    PROVE  IndInv'
<1>0. PICK m : m = [mem EXCEPT !.txn = txns + 1]
  BY ZenonT(40)
<1>1. pc = "open" /\ txns' = txns + 1 /\ txns \in Nat
  BY Zenon DEF Prepare, TypeOK, SessionTypeOK
<1>2. /\ m.txn = txns + 1 /\ m.state = "Prepared" /\ m.installed = {} /\ m \in Journal
      /\ m.plan = mem.plan /\ m.orig = mem.orig
  BY <1>0, <1>1, OpenFacts DEF OpenInv, Journal
<1>3. \/ WriteJournal(m) /\ pc' = "stage" /\ mem' = m /\ idx' = 1 /\ result' = result
      \/ /\ WriteJournalNotRenamed \/ WriteJournalNotSynced(m)
         /\ pc' = "idle" /\ mem' = NoChanges
         /\ result' = result \/ result' = [kind |-> "error", mem |-> m]
  BY <1>0, Zenon DEF Prepare
<1>4. /\ UNCHANGED <<ent, env>>
      /\ WriteJournal(m) => jent'.journal = m
      /\ jent'.journal \in {NoFile, m}
  <2>1. jent.journal = NoFile /\ jent \in JournalEntry
    BY <1>1, OpenFacts, Zenon DEF OpenInv, TypeOK, StoreTypeOK
  <2>2. WriteJournal(m) => jent'.journal = m /\ UNCHANGED <<ent, env>>
    BY DEF WriteJournal, PutJournal
  <2>3. WriteJournalNotSynced(m) => jent'.journal = m /\ UNCHANGED <<ent, env>>
    BY DEF WriteJournalNotSynced, PutJournal
  <2>4. WriteJournalNotRenamed => jent'.journal = NoFile /\ UNCHANGED <<ent, env>>
    BY <2>1, Zenon DEF WriteJournalNotRenamed, PutJournal, JournalEntry
  <2> QED BY <1>3, <2>2, <2>3, <2>4, Zenon
<1>5. StoreInv'
  BY <1>0, <1>1, <1>4, PrepareStore, Zenon
<1>6. \A t \in Planned(m) : ent[t] = Clean(m.orig[t])
  BY <1>1, <1>2, OpenFacts, EntFacts, Zenon DEF OpenInv, NoSiblings, Planned, Clean, TypeOK
<1>7. CASE WriteJournal(m) /\ pc' = "stage" /\ mem' = m /\ idx' = 1 /\ result' = result
  <2>1. WellFormed(m)'
    BY <1>4, <1>5, <1>2, <1>7, JournalFacts, Zenon DEF StoreInv, FilesInv
  <2>2. m = [m EXCEPT !.installed = {}]
    BY <1>2, Zenon DEF Journal
  <2>3. \A t \in Planned(m) : t \in Target /\ ~(t < 1) /\ ent'[t] = Clean(m.orig[t])
    BY <1>4, <1>6 DEF Planned, Target
  <2>4. (jent.journal = [mem EXCEPT !.installed = {}])'
    BY <1>4, <1>7, <2>2, Zenon
  <2>5. \A f : Clean(f).target = f /\ Clean(f).stage = NoFile /\ Clean(f).backup = NoFile
    BY Zenon DEF Clean
  <2>6. (\A t \in Planned(mem) :
           /\ Untouched(mem, t)
           /\ ent[t].stage = IF t < idx THEN Desired(mem, t) ELSE NoFile
           /\ t \in mem.installed <=> (t < idx /\ mem.plan[t] = "write"))'
    BY <1>2, <1>7, <2>3, <2>5, SMTT(60) DEF Planned, Untouched
  <2>7. StagingInv'
    BY <1>2, <1>7, <2>1, <2>4, <2>6, Zenon DEF StagingInv
  <2> QED BY <1>1, <1>5, <1>7, <2>7, OpenFacts, Zenon DEF IndInv, StoreInv, SessionInv, OutcomeIsTrue
<1>8. CASE /\ pc' = "idle" /\ mem' = NoChanges
           /\ result' = result \/ result' = [kind |-> "error", mem |-> m]
  <2>1. OutcomeIsTrue'
    BY <1>1, <1>4, <1>6, <1>8, OpenFacts, SMTT(60) DEF OutcomeIsTrue, Planned, Clean
  <2> QED BY <1>5, <1>8, <2>1, Zenon DEF IndInv, StoreInv, SessionInv
<1> QED BY <1>3, <1>7, <1>8, Zenon

-----------------------------------------------------------------------------
(***************************************************************************)
(* Writing the staged files and recording them.                            *)
(***************************************************************************)

\* A commit that fails while it stages or applies begins to roll back.
LEMMA BeginRollback ==
    ASSUME StoreInv', jent'.journal # NoFile, jent'.journal.state = "Prepared",
           mem'.plan = jent'.journal.plan, mem'.orig = jent'.journal.orig,
           mem'.txn = jent'.journal.txn, jent'.journal.installed \subseteq mem'.installed,
           \A t \in mem'.installed : mem'.plan[t] = "write" /\ ent'[t].stage # Torn,
           pc' = "rbTarget", idx' = N, purpose' = "abort", result'.kind = "none"
    PROVE  IndInv'
<1>1. \A t \in Planned(mem)' : ~(t > N)
  BY StoreAssumption DEF Planned, Target
<1>2. RollbackInv'
  BY <1>1, Zenon DEF RollbackInv
<1> QED BY <1>2, StayInRollback, Zenon

\* What staging starts from.  The journal does not name the staged files yet.
LEMMA StagingFacts ==
    ASSUME TypeOK, IndInv, pc \in {"stage", "record"}
    PROVE  /\ StoreInv /\ StagingInv /\ result.kind = "none"
           /\ mem \in Journal /\ jent.journal \in Journal /\ jent.journal # NoFile
           /\ jent.journal.state = "Prepared" /\ jent.journal.plan = mem.plan
           /\ jent.journal.orig = mem.orig /\ jent.journal.txn = mem.txn
           /\ jent.journal.installed = {}
           /\ Planned(jent.journal) = Planned(mem)
           /\ mem.txn \in Nat /\ NoFile \notin Nat /\ Torn \notin Nat
           /\ \A t \in Target : mem.orig[t] # mem.txn
           /\ pc = "stage" => idx \in Target
           /\ \A t \in mem.installed : /\ t \in Planned(mem) /\ mem.plan[t] = "write"
                                       /\ t < idx /\ ent[t].stage = mem.txn
<1>1. StoreInv /\ StagingInv /\ result.kind = "none"
  BY Zenon DEF IndInv, StoreInv, SessionInv
<1>2. mem \in Journal /\ mem.txn \in Nat /\ mem.installed \subseteq Target
  BY JournalFacts, Zenon DEF TypeOK, SessionTypeOK
<1>3. /\ jent.journal.state = "Prepared" /\ jent.journal.plan = mem.plan
      /\ jent.journal.orig = mem.orig /\ jent.journal.txn = mem.txn
      /\ jent.journal.installed = {} /\ jent.journal \in Journal
  BY <1>1, <1>2, Zenon DEF StagingInv, Journal
<1>4. jent.journal # NoFile
  BY <1>3, JournalFacts, Zenon
<1>5. \A t \in Target : mem.orig[t] # mem.txn
  BY <1>1, <1>3, <1>4, Zenon DEF StoreInv, FilesInv, Begun
<1>6. \A t \in mem.installed : /\ t \in Planned(mem) /\ mem.plan[t] = "write"
                               /\ t < idx /\ ent[t].stage = mem.txn
  BY <1>1, <1>2, Zenon DEF StagingInv, WellFormed, Planned, Desired
<1> QED BY <1>1, <1>2, <1>3, <1>4, <1>5, <1>6, StoreAssumption, Zenon
        DEF Planned, TypeOK, SessionTypeOK, AtOperation

\* A staged file, complete or not, is covered by the journal.
LEMMA StagePut ==
    ASSUME TypeOK, IndInv, pc = "stage", mem.plan[idx] = "write", txns' = txns,
           NEW f \in {Torn, mem.txn}, NEW synced,
           PutEntry(idx, [ent[idx] EXCEPT !.stage = f], synced)
    PROVE  /\ StoreInv' /\ jent' = jent
           /\ \A u \in Target \ {idx} : ent'[u] = ent[u]
           /\ ent'[idx].target = ent[idx].target /\ ent'[idx].backup = ent[idx].backup
           /\ ent'[idx].stage = f
<1> DEFINE e == [ent[idx] EXCEPT !.stage = f]
<1>1. idx \in Target /\ idx \in Planned(mem)
  BY StagingFacts, Zenon DEF Planned
<1>2. e.target = ent[idx].target /\ e.stage = f /\ e.backup = ent[idx].backup
  BY <1>1, EntFacts, Zenon DEF TypeOK, Entry
<1>3. PutEntry(idx, e, synced)
  BY Zenon
<1> HIDE DEF e
<1>4. ent'[idx] = e /\ jent' = jent /\ \A u \in Target \ {idx} : ent'[u] = ent[u]
  BY <1>1, <1>3, PutEntryEffect, Zenon DEF TypeOK
<1>5. Untouched(mem, idx)
  BY <1>1, StagingFacts, Zenon DEF StagingInv
<1>6. EntrySound(jent.journal, idx, e)
  BY <1>1, <1>2, <1>5, StagingFacts, Zenon DEF EntrySound, Untouched
<1>7. StoreInv'
  BY <1>1, <1>3, <1>6, StagingFacts, ChangePrepared, Zenon
<1> QED BY <1>2, <1>4, <1>7, Zenon

\* What write_journal leaves of the journal, whether it fails or not.
LEMMA WriteJournalEffect ==
    ASSUME TypeOK, NEW m
    PROVE  /\ WriteJournal(m) => jent'.journal = m /\ UNCHANGED <<ent, env>>
           /\ WriteJournalNotSynced(m) => jent'.journal = m /\ UNCHANGED <<ent, env>>
           /\ WriteJournalNotRenamed => jent'.journal = jent.journal /\ UNCHANGED <<ent, env>>
<1>1. WriteJournal(m) => jent'.journal = m /\ UNCHANGED <<ent, env>>
  BY DEF WriteJournal, PutJournal
<1>2. WriteJournalNotSynced(m) => jent'.journal = m /\ UNCHANGED <<ent, env>>
  BY DEF WriteJournalNotSynced, PutJournal
<1>3. WriteJournalNotRenamed => jent'.journal = jent.journal /\ UNCHANGED <<ent, env>>
  BY Zenon DEF WriteJournalNotRenamed, PutJournal, TypeOK, StoreTypeOK, JournalEntry
<1> QED BY <1>1, <1>2, <1>3, Zenon

\* One staged file: none is needed, it is written, or the commit fails.
LEMMA StageFileInv ==
    ASSUME TypeOK, IndInv, StageFile
    PROVE  IndInv'
<1> DEFINE next == IF idx = N THEN "record" ELSE "stage"
           put(f, synced) == PutEntry(idx, [ent[idx] EXCEPT !.stage = f], synced)
<1>1. pc = "stage" /\ idx \in Target
  BY StagingFacts, Zenon DEF StageFile
<1>2. ASSUME StoreInv', StagingInv', pc' = next, idx' = idx + 1, result' = result
      PROVE  IndInv'
  BY <1>1, <1>2, StagingFacts, StoreAssumption, Zenon
     DEF IndInv, StoreInv, SessionInv, OutcomeIsTrue, Target
<1>3. \A t \in Planned(mem) : t \in Target /\ (t < idx + 1 <=> t < idx \/ t = idx)
  BY <1>1, StoreAssumption DEF Planned, Target
<1>4. CASE mem.plan[idx] # "write"
  <2>1. /\ UNCHANGED <<ent, jent, env, mem, result, txns>> /\ pc' = next /\ idx' = idx + 1
    BY <1>4, Zenon DEF StageFile, Goto, storeVars
  <2>2. StoreInv'
    BY <1>1, <2>1, StagingFacts, SameFiles, Zenon
  <2>3. StagingInv'
    <3>1. WellFormed(mem)' /\ mem.state = "Prepared"
      BY <1>1, <2>1, StagingFacts, Zenon DEF StagingInv, WellFormed
    <3>2. \A t \in Planned(mem) :
             /\ Untouched(mem, t)
             /\ ent[t].stage = IF t < idx + 1 THEN Desired(mem, t) ELSE NoFile
             /\ t \in mem.installed <=> (t < idx + 1 /\ mem.plan[t] = "write")
      BY <1>1, <1>3, <1>4, StagingFacts, Zenon DEF StagingInv, Desired, Target
    <3> QED BY <1>1, <2>1, <3>1, <3>2, StagingFacts, Zenon DEF StagingInv, Planned, Untouched, Desired
  <2> QED BY <1>2, <2>1, <2>2, <2>3, Zenon
<1>5. CASE /\ mem.plan[idx] = "write" /\ put(mem.txn, TRUE)
           /\ mem' = [mem EXCEPT !.installed = @ \cup {idx}]
           /\ pc' = next /\ idx' = idx + 1 /\ UNCHANGED <<result, txns>>
  <2>1. /\ StoreInv' /\ jent' = jent
        /\ \A u \in Target \ {idx} : ent'[u] = ent[u]
        /\ ent'[idx].target = ent[idx].target /\ ent'[idx].backup = ent[idx].backup
        /\ ent'[idx].stage = mem.txn
    BY <1>1, <1>5, StagePut, ZenonT(40)
  <2>2. /\ mem'.state = mem.state /\ mem'.txn = mem.txn /\ mem'.plan = mem.plan
        /\ mem'.orig = mem.orig /\ mem'.installed = mem.installed \cup {idx}
        /\ [mem' EXCEPT !.installed = {}] = [mem EXCEPT !.installed = {}]
    BY <1>1, <1>5, StagingFacts, ZenonT(40) DEF Journal
  <2>3. WellFormed(mem)'
    BY <1>1, <1>5, <2>2, StagingFacts, SMTT(60) DEF StagingInv, WellFormed
  <2>4. (\A t \in Planned(mem) :
           /\ Untouched(mem, t)
           /\ ent[t].stage = IF t < idx THEN Desired(mem, t) ELSE NoFile
           /\ t \in mem.installed <=> (t < idx /\ mem.plan[t] = "write"))'
    <3> SUFFICES ASSUME NEW t \in Planned(mem)
                 PROVE  /\ ent'[t].target = mem.orig[t] /\ ent'[t].backup = NoFile
                        /\ ent'[t].stage = IF t < idx + 1 THEN Desired(mem, t) ELSE NoFile
                        /\ t \in mem'.installed <=> (t < idx + 1 /\ mem.plan[t] = "write")
      BY <1>5, <2>2, Zenon DEF Planned, Untouched, Desired
    <3>1. /\ Untouched(mem, t) /\ t \in Target
          /\ ent[t].stage = IF t < idx THEN Desired(mem, t) ELSE NoFile
          /\ t \in mem.installed <=> (t < idx /\ mem.plan[t] = "write")
          /\ t < idx + 1 <=> t < idx \/ t = idx
      BY <1>1, <1>3, StagingFacts, Zenon DEF StagingInv
    <3>2. CASE t = idx
      BY <1>1, <1>5, <2>1, <2>2, <3>1, <3>2, Zenon DEF Untouched, Desired, Target
    <3>3. CASE t # idx
      BY <1>1, <2>1, <2>2, <3>1, <3>3, Zenon DEF Untouched
    <3> QED BY <3>2, <3>3, Zenon
  <2>5. StagingInv'
    BY <1>1, <2>1, <2>2, <2>3, <2>4, StagingFacts, Zenon DEF StagingInv
  <2> QED BY <1>2, <1>5, <2>1, <2>5, Zenon
<1>6. CASE /\ mem.plan[idx] = "write"
           /\ UNCHANGED storeVars \/ \E f \in {Torn, mem.txn} : put(f, FALSE)
           /\ Failing(Rollback)
  <2>1. txns' = txns /\ (Die \/ Rollback)
    BY <1>6, Zenon DEF Failing, Die, Rollback
  <2>2. /\ StoreInv' /\ jent'.journal = jent.journal
        /\ \A u \in Target \ {idx} : ent'[u] = ent[u]
    <3>1. CASE UNCHANGED storeVars
      BY <1>1, <2>1, <3>1, StagingFacts, SameFiles, Zenon DEF storeVars
    <3>2. CASE \E f \in {Torn, mem.txn} : put(f, FALSE)
      BY <1>1, <1>6, <2>1, <3>2, StagePut, ZenonT(40)
    <3> QED BY <1>6, <3>1, <3>2, ZenonT(40)
  <2>3. CASE Rollback
    <3>1. \A t \in mem.installed : mem.plan[t] = "write" /\ ent'[t].stage # Torn
      BY <1>1, <2>2, StagingFacts, SMTT(60) DEF Planned, Target
    <3> QED BY <1>1, <2>2, <2>3, <3>1, StagingFacts, BeginRollback, Zenon DEF Rollback
  <2> QED BY <2>1, <2>2, <2>3, DieInv, Zenon
<1> QED BY <1>4, <1>5, <1>6, ZenonT(40) DEF StageFile

\* A new journal value that fits the files as they are.
LEMMA ReplacedJournal ==
    ASSUME NEW m, m # NoFile, env = Env, Fresh, WellFormed(m), Begun(m), SiblingsOwned(m),
           m.state = "Prepared" => PreparedInv(m), m.state = "Committed" => CommittedInv(m),
           UNCHANGED <<ent, env, txns>>, jent'.journal = m
    PROVE  StoreInv'
<1>1. Fresh' /\ WellFormed(m)' /\ Begun(m)'
  BY Zenon DEF Fresh, WellFormed, Begun, UpTo
<1>2. SiblingsOwned(m)'
  BY Zenon DEF SiblingsOwned, NoSiblings
<1>3. m.state = "Prepared" => PreparedInv(m)'
  BY Zenon DEF PreparedInv, Untouched, MovedAside, Applied, Planned, Desired
<1>4. m.state = "Committed" => CommittedInv(m)'
  BY Zenon DEF CommittedInv, Planned, Desired
<1> QED BY <1>1, <1>2, <1>3, <1>4, Zenon DEF StoreInv, FilesInv

\* The journal now names the staged files.
LEMMA RecordStore ==
    ASSUME TypeOK, IndInv, pc = "record", UNCHANGED <<ent, env, txns>>, jent'.journal = mem
    PROVE  StoreInv'
<1>1. idx = N + 1 /\ mem # NoFile /\ mem.state = "Prepared" /\ WellFormed(mem)
  BY StagingFacts, JournalFacts, Zenon DEF IndInv, SessionInv, StagingInv
<1>2. \A t \in Planned(mem) : t \in Target /\ t < idx
  BY <1>1, StoreAssumption, SMTT(60) DEF Planned, Target
<1>3. Begun(mem) /\ SiblingsOwned(jent.journal)
  BY StagingFacts, Zenon DEF StoreInv, FilesInv, Begun
<1>4. \A t \in Planned(mem) : Untouched(mem, t) /\ ent[t].stage = Desired(mem, t)
  BY <1>2, StagingFacts, Zenon DEF StagingInv
<1>5. SiblingsOwned(mem)
  <2> SUFFICES ASSUME NEW t \in Target
               PROVE  /\ mem.plan[t] = "keep" => NoSiblings(t)
                      /\ mem.plan[t] = "remove" => ent[t].stage = NoFile
                      /\ ent[t].stage \in {NoFile, Torn, mem.txn}
                      /\ t \in mem.installed => ent[t].stage # Torn
    BY Zenon DEF SiblingsOwned
  <2> QED BY <1>3, StagingFacts, Zenon DEF SiblingsOwned
<1>6. PreparedInv(mem)
  BY <1>2, <1>4, StagingFacts, SMTT(60) DEF PreparedInv, Untouched
<1> QED BY <1>1, <1>3, <1>5, <1>6, StagingFacts, ReplacedJournal, Zenon DEF StoreInv

\* Recording the staged files, after which the operations are applied.
LEMMA RecordInstalledInv ==
    ASSUME TypeOK, IndInv, RecordInstalled
    PROVE  IndInv'
<1>1. pc = "record"
  BY Zenon DEF RecordInstalled
<1>2. idx = N + 1
  BY <1>1, Zenon DEF IndInv, SessionInv
<1>3. CASE WriteJournal(mem) /\ Goto("check", 1)
  <2>1. /\ UNCHANGED <<ent, env, txns, mem, result>> /\ jent'.journal = mem
        /\ pc' = "check" /\ idx' = 1
    BY <1>3, WriteJournalEffect, Zenon DEF Goto
  <2>2. StoreInv'
    BY <1>1, <2>1, RecordStore, Zenon
  <2>3. \A t \in Planned(mem) :
           /\ t \in Target /\ ~(t < 1) /\ Untouched(mem, t)
           /\ ent[t].stage = Desired(mem, t)
           /\ mem.plan[t] = "write" => t \in mem.installed
    BY <1>1, <1>2, StagingFacts, StoreAssumption, SMTT(60) DEF StagingInv, Planned, Target
  <2>4. mem.state = "Prepared"
    BY <1>1, StagingFacts, Zenon DEF StagingInv
  <2>5. ApplyingInv'
    BY <2>1, <2>3, <2>4, Zenon DEF ApplyingInv, Planned, Untouched, Desired
  <2> QED BY <1>1, <2>1, <2>2, <2>5, StagingFacts, Zenon DEF IndInv, StoreInv, SessionInv, OutcomeIsTrue
<1>4. CASE /\ WriteJournalNotRenamed \/ WriteJournalNotSynced(mem)
           /\ Failing(Rollback)
  <2>1. txns' = txns /\ (Die \/ Rollback)
    BY <1>4, Zenon DEF Failing, Die, Rollback
  <2>2. UNCHANGED <<ent, env>> /\ jent'.journal \in {jent.journal, mem}
    BY <1>4, WriteJournalEffect, Zenon
  <2>3. StoreInv'
    BY <1>1, <2>1, <2>2, StagingFacts, SameJournal, RecordStore, Zenon
  <2>4. CASE Rollback
    <3>1. \A t \in mem.installed : mem.plan[t] = "write" /\ ent[t].stage # Torn
      BY <1>1, StagingFacts, Zenon
    <3>2. mem # NoFile /\ mem.state = "Prepared"
      BY <1>1, StagingFacts, JournalFacts, Zenon DEF StagingInv
    <3> QED BY <1>1, <2>2, <2>3, <2>4, <3>1, <3>2, StagingFacts, BeginRollback, Zenon DEF Rollback
  <2> QED BY <2>1, <2>3, <2>4, DieInv, Zenon
<1> QED BY <1>3, <1>4, Zenon DEF RecordInstalled

-----------------------------------------------------------------------------
(***************************************************************************)
(* Applying the operations in order.                                       *)
(***************************************************************************)
LEMMA ApplyingFacts ==
    ASSUME TypeOK, IndInv, pc \in {"check", "move", "verify", "install", "commit"}
    PROVE  /\ StoreInv /\ ApplyingInv /\ result.kind = "none"
           /\ mem \in Journal /\ mem # NoFile /\ jent.journal = mem
           /\ mem.state = "Prepared" /\ mem.txn \in Nat /\ NoFile \notin Nat
           /\ WellFormed(mem) /\ Begun(mem) /\ SiblingsOwned(mem)
           /\ \A t \in mem.installed : mem.plan[t] = "write" /\ ent[t].stage # Torn
           /\ \A t \in Planned(mem) : t \in Target /\ EntrySound(mem, t, ent[t])
           /\ pc # "commit" => idx \in Target
<1>1. StoreInv /\ ApplyingInv /\ result.kind = "none"
  BY Zenon DEF IndInv, StoreInv, SessionInv
<1>2. mem \in Journal /\ mem # NoFile /\ mem.txn \in Nat /\ mem.installed \subseteq Target
  BY JournalFacts, Zenon DEF TypeOK, SessionTypeOK
<1>3. jent.journal = mem /\ mem.state = "Prepared"
  BY <1>1, Zenon DEF ApplyingInv
<1>4. WellFormed(mem) /\ Begun(mem) /\ SiblingsOwned(mem)
  BY <1>1, <1>2, <1>3, Zenon DEF StoreInv, FilesInv
<1>5. \A t \in mem.installed : mem.plan[t] = "write" /\ ent[t].stage # Torn
  BY <1>2, <1>4, Zenon DEF WellFormed, SiblingsOwned
<1>6. \A t \in Planned(mem) : t \in Target /\ EntrySound(mem, t, ent[t])
  BY <1>1, <1>2, <1>3, PreparedSoundEntry, Zenon DEF Planned
<1> QED BY <1>1, <1>2, <1>3, <1>4, <1>5, <1>6, StoreAssumption, Zenon
        DEF TypeOK, SessionTypeOK, AtOperation, Steps, RecoverySteps

\* The commit fails and the names of at most one operation have changed.
LEMMA ApplyingFails ==
    ASSUME TypeOK, IndInv, pc \in {"check", "move", "verify", "install"},
           Die \/ Rollback,
           \/ UNCHANGED <<ent, jent, env>>
           \/ /\ idx \in Planned(mem)
              /\ \E e, synced : /\ EntrySound(mem, idx, e)
                                /\ PutEntry(idx, e, synced)
    PROVE  IndInv'
<1> USE ApplyingFacts
<1>1. txns' = txns
  BY Zenon DEF Die, Rollback
<1>2. CASE UNCHANGED <<ent, jent, env>>
  <2>1. StoreInv'
    BY <1>1, <1>2, SameFiles, Zenon
  <2>2. CASE Rollback
    BY <1>2, <2>1, <2>2, BeginRollback, Zenon DEF Rollback
  <2> QED BY <2>1, <2>2, DieInv, Zenon
<1>3. CASE /\ idx \in Planned(mem)
           /\ \E e, synced : EntrySound(mem, idx, e) /\ PutEntry(idx, e, synced)
  <2>1. PICK e, synced : EntrySound(mem, idx, e) /\ PutEntry(idx, e, synced)
    BY <1>3, Zenon
  <2>2. StoreInv'
    BY <1>1, <1>3, <2>1, ChangePrepared, Zenon
  <2>3. /\ ent'[idx] = e /\ \A u \in Target \ {idx} : ent'[u] = ent[u]
        /\ jent' = jent
    BY <2>1, PutEntryEffect, Zenon DEF TypeOK
  <2>4. CASE Rollback
    <3>1. \A t \in mem.installed : mem.plan[t] = "write" /\ ent'[t].stage # Torn
      BY <2>1, <2>3, JournalFacts, SMTT(60) DEF EntrySound
    <3> QED BY <2>2, <2>3, <2>4, <3>1, BeginRollback, Zenon DEF Rollback
  <2> QED BY <2>2, <2>4, DieInv, Zenon
<1> QED BY <1>2, <1>3, Zenon

\* What one operation must look like at each step of apply_operation.
AtStep(step, e) ==
    /\ step \in {"check", "move"} => e.target = mem.orig[idx] /\ e.backup = NoFile
    /\ step = "move" => mem.orig[idx] # NoFile
    /\ step \in {"verify", "install"} => e.target = NoFile /\ e.backup = mem.orig[idx]
    /\ step = "install" => mem.plan[idx] = "write"
    /\ e.stage = Desired(mem, idx)

\* The next step of the same operation.
LEMMA ApplyingGoesOn ==
    ASSUME TypeOK, IndInv, pc \in {"check", "move", "verify"}, idx \in Planned(mem),
           NEW step \in {"move", "verify", "install"}, Goto(step, idx), StoreInv', jent' = jent,
           \A u \in Target \ {idx} : ent'[u] = ent[u], AtStep(step, ent'[idx])
    PROVE  IndInv'
<1> USE ApplyingFacts
<1>1. UNCHANGED <<mem, idx, result>> /\ pc' = step
  BY Zenon DEF Goto
<1>2. \A t \in Planned(mem) : t \in Target /\ (t < idx \/ t > idx => t # idx)
  BY SMTT(60) DEF Target
<1>3. (\A t \in Planned(mem) :
         /\ mem.plan[t] = "write" => t \in mem.installed
         /\ t < idx => Applied(mem, t) /\ ent[t].stage = NoFile
         /\ t > idx => Untouched(mem, t)
         /\ t >= idx => ent[t].stage = Desired(mem, t))'
  <2> SUFFICES ASSUME NEW t \in Planned(mem)
               PROVE  /\ mem.plan[t] = "write" => t \in mem.installed
                      /\ t < idx => /\ ent'[t].target = Desired(mem, t)
                                    /\ ent'[t].backup = mem.orig[t] /\ ent'[t].stage = NoFile
                      /\ t > idx => ent'[t].target = mem.orig[t] /\ ent'[t].backup = NoFile
                      /\ t >= idx => ent'[t].stage = Desired(mem, t)
    BY <1>1, Zenon DEF Planned, Applied, Untouched, Desired
  <2>1. CASE t = idx
    BY <1>2, <2>1, Zenon DEF AtStep, ApplyingInv
  <2>2. CASE t # idx
    BY <1>2, <2>2, SMTT(60) DEF ApplyingInv, Applied, Untouched
  <2> QED BY <2>1, <2>2, Zenon
<1>4. ApplyingInv'
  BY <1>1, <1>3, Zenon DEF AtStep, ApplyingInv, Planned, Untouched, MovedAside
<1> QED BY <1>1, <1>4, Zenon DEF IndInv, StoreInv, SessionInv, OutcomeIsTrue

\* The operation is done and the next one is begun, or the last was reached.
LEMMA AdvanceInv ==
    ASSUME TypeOK, IndInv, pc \in {"check", "verify", "install"}, Advance(idx), StoreInv',
           jent' = jent, \A u \in Target \ {idx} : ent'[u] = ent[u],
           idx \in Planned(mem) =>
               ent'[idx].target = Desired(mem, idx) /\ ent'[idx].backup = mem.orig[idx]
               /\ ent'[idx].stage = NoFile
    PROVE  IndInv'
<1> USE ApplyingFacts
<1>1. /\ UNCHANGED <<mem, result>> /\ idx' = idx + 1
      /\ pc' = IF idx = N THEN "commit" ELSE "check"
  BY Zenon DEF Advance, Goto
<1>2. /\ \A t \in Planned(mem) : /\ t \in Target
                                 /\ t < idx + 1 <=> t < idx \/ t = idx
                                 /\ t >= idx + 1 <=> t > idx
                                 /\ t > idx + 1 => t > idx
      /\ idx + 1 > idx
  BY SMTT(60) DEF Target
<1>3. (\A t \in Planned(mem) :
         /\ mem.plan[t] = "write" => t \in mem.installed
         /\ t < idx => Applied(mem, t) /\ ent[t].stage = NoFile
         /\ t > idx => Untouched(mem, t)
         /\ t >= idx => ent[t].stage = Desired(mem, t))'
  <2> SUFFICES ASSUME NEW t \in Planned(mem)
               PROVE  /\ mem.plan[t] = "write" => t \in mem.installed
                      /\ t < idx + 1 => /\ ent'[t].target = Desired(mem, t)
                                        /\ ent'[t].backup = mem.orig[t] /\ ent'[t].stage = NoFile
                      /\ t > idx + 1 => ent'[t].target = mem.orig[t] /\ ent'[t].backup = NoFile
                      /\ t >= idx + 1 => ent'[t].stage = Desired(mem, t)
    BY <1>1, Zenon DEF Planned, Applied, Untouched, Desired
  <2>1. CASE t = idx
    BY <1>2, <2>1, SMTT(60) DEF ApplyingInv, Target
  <2>2. CASE t # idx
    BY <1>2, <2>2, SMTT(60) DEF ApplyingInv, Applied, Untouched, Target
  <2> QED BY <2>1, <2>2, Zenon
<1>4. idx + 1 \in Planned(mem) => ent'[idx + 1].target = mem.orig[idx + 1]
                                  /\ ent'[idx + 1].backup = NoFile
  BY <1>2, SMTT(60) DEF ApplyingInv, Untouched, Target
<1>5. ApplyingInv'
  BY <1>1, <1>3, <1>4, ZenonT(40) DEF ApplyingInv, Planned, Untouched
<1> QED BY <1>1, <1>5, Zenon DEF IndInv, StoreInv, SessionInv, OutcomeIsTrue

\* Comparing the target with the original.
LEMMA CheckOriginalInv ==
    ASSUME TypeOK, IndInv, CheckOriginal
    PROVE  IndInv'
<1>1. pc = "check" /\ UNCHANGED <<ent, jent, env>>
  BY Zenon DEF CheckOriginal, storeVars
<1>2. CASE mem.plan[idx] = "keep"
  <2>1. Advance(idx) /\ idx \notin Planned(mem)
    BY <1>2, Zenon DEF CheckOriginal, Planned
  <2>2. StoreInv'
    BY <1>1, <2>1, ApplyingFacts, SameFiles, Zenon DEF Advance, Goto
  <2> QED BY <1>1, <2>1, <2>2, AdvanceInv, Zenon
<1>3. CASE mem.plan[idx] # "keep"
  <2> DEFINE step == IF mem.orig[idx] = NoFile THEN "install" ELSE "move"
  <2>1. idx \in Planned(mem)
    BY <1>1, <1>3, ApplyingFacts, Zenon DEF Planned
  <2>2. CASE ent[idx].target = mem.orig[idx] /\ Goto(step, idx)
    <3>1. StoreInv'
      BY <1>1, <2>2, ApplyingFacts, SameFiles, Zenon DEF Goto
    <3>2. mem.orig[idx] = NoFile => mem.plan[idx] = "write"
      BY <1>1, <1>3, ApplyingFacts, Zenon DEF WellFormed, Journal
    <3>3. AtStep(step, ent'[idx])
      BY <1>1, <2>1, <3>2, ApplyingFacts, SMTT(60) DEF AtStep, ApplyingInv, Untouched, Target
    <3>4. step \in {"move", "verify", "install"}
      BY Zenon
    <3> HIDE DEF step
    <3> QED BY <1>1, <2>1, <2>2, <3>1, <3>3, <3>4, ApplyingGoesOn, Zenon
  <2>3. CASE Rollback
    BY <1>1, <2>3, ApplyingFails, Zenon
  <2> QED BY <1>3, <2>2, <2>3, Zenon DEF CheckOriginal
<1> QED BY <1>2, <1>3, Zenon

\* Moving the original aside.
LEMMA MoveToBackupInv ==
    ASSUME TypeOK, IndInv, MoveToBackup
    PROVE  IndInv'
<1> DEFINE e == [ent[idx] EXCEPT !.backup = ent[idx].target, !.target = NoFile]
<1>1. pc = "move"
  BY Zenon DEF MoveToBackup
<1>2. /\ idx \in Target /\ idx \in Planned(mem) /\ Untouched(mem, idx)
      /\ ent[idx].stage = Desired(mem, idx)
  BY <1>1, ApplyingFacts, SMTT(60) DEF ApplyingInv, Target
<1>3. e.target = NoFile /\ e.backup = mem.orig[idx] /\ e.stage = ent[idx].stage
  BY <1>2, EntFacts, Zenon DEF TypeOK, Entry, Untouched
<1>4. CASE PutEntry(idx, e, FALSE) /\ Goto("verify", idx)
  <2> HIDE DEF e
  <2>1. EntrySound(mem, idx, e)
    BY <1>1, <1>2, <1>3, ApplyingFacts, Zenon DEF EntrySound
  <2>2. StoreInv'
    BY <1>1, <1>2, <1>4, <2>1, ApplyingFacts, ChangePrepared, ZenonT(40) DEF Goto
  <2>3. ent'[idx] = e /\ jent' = jent /\ \A u \in Target \ {idx} : ent'[u] = ent[u]
    BY <1>2, <1>4, PutEntryEffect, ZenonT(40) DEF TypeOK
  <2>4. AtStep("verify", e)
    BY <1>2, <1>3, Zenon DEF AtStep
  <2> QED BY <1>1, <1>2, <1>4, <2>2, <2>3, <2>4, ApplyingGoesOn, Zenon
<1>5. CASE UNCHANGED storeVars /\ Rollback
  BY <1>1, <1>5, ApplyingFails, Zenon DEF storeVars
<1> QED BY <1>4, <1>5, ZenonT(40) DEF MoveToBackup

\* Looking at the backup; nobody else writes, so it is the original.
LEMMA VerifyBackupInv ==
    ASSUME TypeOK, IndInv, VerifyBackup
    PROVE  IndInv'
<1>1. pc = "verify"
  BY Zenon DEF VerifyBackup
<1>2. /\ idx \in Target /\ idx \in Planned(mem) /\ MovedAside(mem, idx)
      /\ ent[idx].stage = Desired(mem, idx) /\ EntrySound(mem, idx, ent[idx])
  BY <1>1, ApplyingFacts DEF ApplyingInv, Target
<1>3. \/ /\ PutEntry(idx, ent[idx], TRUE)
         /\ IF mem.plan[idx] = "write" THEN Goto("install", idx) ELSE Advance(idx)
      \/ UNCHANGED storeVars /\ Rollback
  BY <1>2, ZenonT(40) DEF VerifyBackup, MovedAside
<1>4. CASE PutEntry(idx, ent[idx], TRUE)
           /\ (IF mem.plan[idx] = "write" THEN Goto("install", idx) ELSE Advance(idx))
  <2>1. txns' = txns
    BY <1>4, Zenon DEF Goto, Advance
  <2>2. StoreInv'
    BY <1>1, <1>2, <1>4, <2>1, ApplyingFacts, ChangePrepared, ZenonT(40)
  <2>3. ent'[idx] = ent[idx] /\ jent' = jent /\ \A u \in Target \ {idx} : ent'[u] = ent[u]
    BY <1>2, <1>4, PutEntryEffect, ZenonT(40) DEF TypeOK
  <2>4. CASE mem.plan[idx] = "write"
    <3>1. AtStep("install", ent'[idx])
      BY <1>2, <2>3, <2>4, Zenon DEF AtStep, MovedAside
    <3> QED BY <1>1, <1>2, <1>4, <2>2, <2>3, <2>4, <3>1, ApplyingGoesOn, Zenon
  <2>5. CASE mem.plan[idx] # "write"
    BY <1>1, <1>2, <1>4, <2>2, <2>3, <2>5, AdvanceInv, Zenon DEF MovedAside, Desired
  <2> QED BY <2>4, <2>5, Zenon
<1>5. CASE UNCHANGED storeVars /\ Rollback
  BY <1>1, <1>5, ApplyingFails, Zenon DEF storeVars
<1> QED BY <1>3, <1>4, <1>5, ZenonT(40)

\* Installing the staged file.
LEMMA InstallInv ==
    ASSUME TypeOK, IndInv, Install
    PROVE  IndInv'
<1>1. pc = "install"
  BY Zenon DEF Install
<1>2. /\ idx \in Target /\ idx \in Planned(mem) /\ MovedAside(mem, idx)
      /\ ent[idx].stage = mem.txn /\ mem.plan[idx] = "write" /\ idx \in mem.installed
  BY <1>1, ApplyingFacts DEF ApplyingInv, Target, Desired
<1>3. /\ Installed(idx).target = mem.txn /\ Installed(idx).stage = NoFile
      /\ Installed(idx).backup = mem.orig[idx]
  BY <1>2, EntFacts, Zenon DEF Installed, TypeOK, Entry, MovedAside
<1>4. EntrySound(mem, idx, Installed(idx))
  BY <1>1, <1>2, <1>3, ApplyingFacts, StoreAssumption, Zenon DEF EntrySound, Desired
<1>5. CASE PutEntry(idx, Installed(idx), TRUE) /\ Advance(idx)
  <2>1. txns' = txns
    BY <1>5, Zenon DEF Advance, Goto
  <2>2. StoreInv'
    BY <1>1, <1>2, <1>4, <1>5, <2>1, ApplyingFacts, ChangePrepared, ZenonT(40)
  <2>3. ent'[idx] = Installed(idx) /\ jent' = jent /\ \A u \in Target \ {idx} : ent'[u] = ent[u]
    BY <1>2, <1>5, PutEntryEffect, ZenonT(40) DEF TypeOK
  <2> QED BY <1>1, <1>2, <1>3, <1>5, <2>2, <2>3, AdvanceInv, Zenon DEF Desired
<1>6. CASE /\ PutEntry(idx, Installed(idx), FALSE) \/ UNCHANGED storeVars
           /\ Failing(Rollback)
  <2>1. Die \/ Rollback
    BY <1>6, Zenon DEF Failing
  <2> QED BY <1>1, <1>2, <1>4, <1>6, <2>1, ApplyingFails, ZenonT(40) DEF storeVars
<1> QED BY <1>2, <1>5, <1>6, ZenonT(40) DEF Install, MovedAside

-----------------------------------------------------------------------------
(***************************************************************************)
(* The committed journal, and what ends a session from outside.            *)
(***************************************************************************)

\* Every operation is applied, so the committed journal fits the files.
LEMMA CommittedStore ==
    ASSUME TypeOK, IndInv, pc = "commit", UNCHANGED <<ent, env, txns>>,
           NEW m, m = [mem EXCEPT !.state = "Committed"], jent'.journal = m
    PROVE  StoreInv'
<1>1. /\ m \in Journal /\ m.state = "Committed" /\ m.plan = mem.plan /\ m.orig = mem.orig
      /\ m.txn = mem.txn /\ m.installed = mem.installed
  BY ApplyingFacts, Zenon DEF Journal
<1>2. m # NoFile /\ m.state # "Prepared"
  BY <1>1, JournalFacts, Zenon
<1>3. WellFormed(m) /\ Begun(m) /\ SiblingsOwned(m)
  BY <1>1, ApplyingFacts, Zenon DEF WellFormed, Begun, SiblingsOwned
<1>4. \A t \in Planned(m) : t \in Planned(mem) /\ t \in Target /\ t < idx
  BY <1>1, StoreAssumption, SMTT(60) DEF IndInv, SessionInv, Planned, Target
<1>5. CommittedInv(m)
  BY <1>1, <1>4, ApplyingFacts, SMTT(60) DEF CommittedInv, ApplyingInv, Applied, Desired
<1> QED BY <1>2, <1>3, <1>5, ApplyingFacts, ReplacedJournal, ZenonT(40) DEF StoreInv

\* Writing the committed journal, in every outcome.
LEMMA CommitInv ==
    ASSUME TypeOK, IndInv, Commit, Calm(Env)
    PROVE  IndInv'
<1>0. PICK m : m = [mem EXCEPT !.state = "Committed"]
  BY ZenonT(40)
<1>1. pc = "commit" /\ "reread" \notin env
  BY Zenon DEF Commit, Calm, IndInv
<1>2. /\ m \in Journal /\ m # NoFile /\ m.state = "Committed" /\ m.plan = mem.plan
      /\ m.orig = mem.orig /\ m.txn = mem.txn /\ m.installed = mem.installed
  BY <1>0, <1>1, ApplyingFacts, JournalFacts, SMTT(60) DEF Journal
<1>3. CASE /\ WriteJournal(m) /\ pc' = "cleanStage" /\ idx' = 1 /\ errs' = "none"
           /\ purpose' = "commit" /\ mem' = m /\ UNCHANGED <<result, txns>>
  <2>1. StoreInv'
    BY <1>0, <1>1, <1>3, WriteJournalEffect, CommittedStore, Zenon
  <2>2. CleanupInv'
    BY <1>2, <1>3, WriteJournalEffect, Zenon DEF CleanupInv
  <2> QED BY <1>1, <1>3, <2>1, <2>2, ApplyingFacts, StayInCleanup, Zenon
<1>4. CASE /\ WriteJournalNotRenamed
           /\ \/ Die
              \/ /\ pc' = "rbTarget" /\ idx' = N /\ errs' = "none"
                 /\ purpose' = "abort" /\ mem' = m /\ UNCHANGED <<result, txns>>
  <2>1. jent'.journal = mem /\ UNCHANGED <<ent, env, txns>>
    BY <1>1, <1>4, ApplyingFacts, WriteJournalEffect, Zenon DEF Die
  <2>2. StoreInv'
    BY <1>1, <2>1, ApplyingFacts, SameJournal, Zenon
  <2> QED BY <1>1, <1>2, <1>4, <2>1, <2>2, ApplyingFacts, BeginRollback, DieInv, SMTT(60)
<1>5. CASE WriteJournalNotSynced(m) /\ (Die \/ Return("uncertain"))
  <2>1. jent'.journal = m /\ UNCHANGED <<ent, env, txns>>
    BY <1>5, WriteJournalEffect, Zenon DEF Die, Return
  <2>2. StoreInv'
    BY <1>0, <1>1, <2>1, CommittedStore, Zenon
  <2>3. \A t \in Planned(mem) : ent'[t].target = Desired(mem, t)
    <3>1. CommittedInv(m)'
      BY <1>2, <2>1, <2>2, Zenon DEF StoreInv, FilesInv
    <3> QED BY <1>2, <3>1, Zenon DEF CommittedInv, Planned, Desired
  <2>4. Return("uncertain") => OutcomeIsTrue'
    BY <1>0, <2>1, <2>3, SMTT(60) DEF Return, OutcomeIsTrue, Planned, Desired
  <2> QED BY <1>5, <2>2, <2>4, DieInv, ReturnInv, Zenon
<1> QED BY <1>0, <1>1, <1>3, <1>4, <1>5, Zenon DEF Commit, Failing

\* The process dies between two steps.
LEMMA CrashInv ==
    ASSUME TypeOK, IndInv, Crash
    PROVE  IndInv'
<1>1. StoreInv'
  BY SameFiles, Zenon DEF IndInv, StoreInv, Crash, Die, storeVars
<1> QED BY <1>1, DieInv, Zenon DEF Crash

\* The initial state satisfies IndInv.
LEMMA InitInv ==
    ASSUME Init
    PROVE  IndInv
<1>1. \A t \in Target : /\ ent[t].stage = NoFile /\ ent[t].backup = NoFile
                        /\ ent[t].target \in {0, NoFile}
  BY SMTT(60) DEF Init, StoreInit
<1>2. Fresh /\ FilesInv
  BY <1>1, StoreAssumption, SMTT(60) DEF Init, StoreInit, SessionInit, Fresh, FilesInv, UpTo, NoSiblings
<1> QED BY <1>2, Zenon DEF Init, StoreInit, SessionInit, IndInv, SessionInv, OutcomeIsTrue

\* Every step but a power loss keeps IndInv: the cases are the actions.
LEMMA NextInv ==
    ASSUME TypeOK, IndInv, [Next]_vars, Calm(Env), ~ PowerLoss
    PROVE  IndInv'
<1>1. CASE UNCHANGED vars
  <2>1. StoreInv'
    BY <1>1, SameFiles, Zenon DEF IndInv, StoreInv, vars
  <2>2. SessionInv'
    <3>1. /\ ent' = ent /\ jent' = jent /\ pc' = pc /\ mem' = mem /\ idx' = idx /\ errs' = errs
          /\ purpose' = purpose /\ result' = result /\ txns' = txns
      BY <1>1, ZenonT(40) DEF vars
    <3>2. (OpenInv => OpenInv') /\ (StagingInv => StagingInv')
      BY <3>1, ZenonT(40) DEF OpenInv, StagingInv, Untouched, Desired, UpTo, WellFormed, Planned
    <3>3. (ApplyingInv => ApplyingInv') /\ (RollbackInv => RollbackInv')
      BY <3>1, ZenonT(40) DEF ApplyingInv, RollbackInv, RolledBack, Planned, Untouched, MovedAside,
                              Applied, Desired, WellFormed
    <3>4. CleanupInv => CleanupInv'
      BY <3>1, ZenonT(40) DEF CleanupInv, Planned, Desired, WellFormed
    <3> QED BY <3>1, <3>2, <3>3, <3>4, Zenon DEF IndInv, SessionInv
  <2>3. OutcomeIsTrue'
    BY <1>1, ZenonT(40) DEF vars, IndInv, OutcomeIsTrue, Planned, Desired
  <2> QED BY <2>1, <2>2, <2>3, ZenonT(40) DEF IndInv, StoreInv
<1>2. CASE Stage \/ Drop \/ Prepare
  BY <1>2, StageInv, DropInv, PrepareInv, Zenon
<1>3. CASE StageFile \/ RecordInstalled
  BY <1>3, StageFileInv, RecordInstalledInv, Zenon
<1>4. CASE CheckOriginal \/ MoveToBackup \/ VerifyBackup \/ Install
  BY <1>4, CheckOriginalInv, MoveToBackupInv, VerifyBackupInv, InstallInv, Zenon
<1>5. CASE Commit
  BY <1>5, CommitInv, Zenon
<1>6. CASE RecoveryStep
  <2>1. CASE Lock \/ StartRecovery \/ StartRecoveryFails
    BY <2>1, StartInv, Zenon
  <2>2. CASE RollbackTarget \/ RollbackBackup \/ RollbackStage \/ RollbackSkip
    BY <2>2, RollbackTargetInv, RollbackBackupInv, RollbackStageInv, RollbackSkipInv, Zenon
  <2>3. CASE CleanStage \/ CleanBackup
    BY <2>3, CleanStageInv, CleanBackupInv, Zenon
  <2>4. CASE FinishWithErrors \/ RemoveJournal \/ RemoveJournalFails
    BY <2>4, FinishInv, Zenon
  <2> QED BY <1>6, <2>1, <2>2, <2>3, <2>4, Zenon DEF RecoveryStep
<1>7. CASE Disturbance
  <2>1. Crash
    BY <1>7, ZenonT(40) DEF Disturbance, Interfere, ForeignWrite, Calm, IndInv
  <2> QED BY <2>1, CrashInv, Zenon
<1> QED BY <1>1, <1>2, <1>3, <1>4, <1>5, <1>6, <1>7, Zenon DEF Next, SessionStep
=============================================================================
