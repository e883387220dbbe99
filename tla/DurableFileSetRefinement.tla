---------------------- MODULE DurableFileSetRefinement ----------------------
(***************************************************************************)
(* The theorems about DurableFileSet when processes die and system calls   *)
(* fail at any point, and when the power is lost if the targets are beside *)
(* the journal: IndInv and DiskInv are invariants, and what they imply of  *)
(* recovery and of the outcomes of commit. DurableFileSet then implements  *)
(* AtomicFileSet: writing the first journal announces the transaction,     *)
(* writing the committed one publishes all of its changes at once,         *)
(* removing the prepared one withdraws it, and every other step changes    *)
(* nothing. And the commit marker of a transaction, its last target,       *)
(* appears last and goes first when no call fails.                         *)
(***************************************************************************)
EXTENDS DurableFileSetProofs, DurableFileSetSafety

-----------------------------------------------------------------------------
(***************************************************************************)
(* DiskInv, at the start and after a power loss.                           *)
(***************************************************************************)
LEMMA DiskInvInit ==
    ASSUME Init, TypeOK, "powerloss" \in Env => Together
    PROVE  DiskInv
<1>1. disk[JournalDir] = {View(JournalDir, ent, jent)}
  BY StoreAssumption, Zenon DEF Init, StoreInit
<1>2. StoreInv
  BY InitInv, Zenon DEF IndInv, StoreInv
<1> QED BY <1>1, <1>2, StoreViews, Zenon DEF DiskInv

LEMMA PowerLossInv ==
    ASSUME TypeOK, TypeOK', IndInv, DiskInv, PowerLoss, Together
    PROVE  IndInv' /\ DiskInv'
<1>1. PICK v \in disk[JournalDir] :
        disk'[JournalDir] = {v} /\ View(JournalDir, ent', jent') = v /\ env' = env /\ Die
  BY PowerLossView, Zenon
<1>2. env = Env /\ "powerloss" \in Env /\ env' = Env
  BY <1>1, Zenon DEF PowerLoss, IndInv
<1>3. txns \in Nat /\ txns <= txns'
  BY <1>1 DEF Die, TypeOK, SessionTypeOK
<1>4. ViewSound(v)'
  BY <1>2, <1>3, ViewSoundStays, Zenon DEF DiskInv
<1>5. (Together /\ TypeOK /\ env = Env /\ ViewSound(View(JournalDir, ent, jent)) => StoreInv)'
  BY ViewStores, PTL
<1>6. ViewSound(View(JournalDir, ent, jent))'
  BY <1>1, <1>4, Zenon
<1>7. StoreInv'
  BY <1>2, <1>5, <1>6, Zenon DEF Together
<1>8. IndInv'
  BY <1>1, <1>7, DieInv, Zenon
<1>9. DiskInv'
  BY <1>1, <1>4, Zenon DEF DiskInv
<1> QED BY <1>8, <1>9, Zenon

-----------------------------------------------------------------------------
(***************************************************************************)
(* IndInv and DiskInv are invariants of every behaviour in which system    *)
(* calls fail and processes die, for any number of targets, any assignment *)
(* of them to directories and any number of transactions, and of those in  *)
(* which the power is lost too when the targets are beside the journal.    *)
(***************************************************************************)
THEOREM Inductive ==
    ASSUME Calm(Env), "powerloss" \in Env => Together
    PROVE  Spec => [](IndInv /\ DiskInv /\ OpenBound)
<1>1. Init /\ TypeOK => IndInv /\ DiskInv /\ OpenBound
  <2>1. Init => OpenBound
    BY Zenon DEF Init, SessionInit, OpenBound
  <2> QED BY <2>1, InitInv, DiskInvInit, Zenon
<1>2. TypeOK /\ TypeOK' /\ (IndInv /\ DiskInv /\ OpenBound) /\ [Next]_vars
      => (IndInv /\ DiskInv /\ OpenBound)'
  <2> SUFFICES ASSUME TypeOK, TypeOK', IndInv, DiskInv, OpenBound, [Next]_vars
               PROVE  (IndInv /\ DiskInv)'
    BY OpenBoundStep, Zenon
  <2>1. CASE PowerLoss
    <3>1. "powerloss" \in Env
      BY <2>1, Zenon DEF PowerLoss, IndInv
    <3> QED BY <2>1, <3>1, PowerLossInv, Zenon
  <2>2. CASE ~ PowerLoss
    <3>1. IndInv'
      BY <2>2, NextInv, Zenon
    <3>2. (Together /\ TypeOK /\ StoreInv => ViewSound(View(JournalDir, ent, jent)))'
      BY StoreViews, PTL
    <3>3. StoreInv'
      BY <3>1, Zenon DEF IndInv, StoreInv
    <3>4. "powerloss" \in Env => ViewSound(View(JournalDir, ent, jent))'
      BY <3>2, <3>3, Zenon DEF Together
    <3> QED BY <2>2, <3>1, <3>4, DiskInvStep, Zenon
  <2> QED BY <2>1, <2>2, Zenon
<1> QED BY <1>1, <1>2, Types, PTL DEF Spec

(***************************************************************************)
(* Whatever has happened, what is on disk suffices to finish or to undo    *)
(* the transaction in the journal.                                         *)
(***************************************************************************)
THEOREM AlwaysRecoverable ==
    ASSUME Calm(Env), "powerloss" \in Env => Together
    PROVE  Spec => []Recoverable
<1>1. TypeOK /\ IndInv => Recoverable
  <2> SUFFICES ASSUME TypeOK, IndInv PROVE Recoverable
    BY Zenon
  <2>1. CASE jent.journal = NoFile
    BY <2>1, Zenon DEF IndInv, FilesInv, NoSiblings, Recoverable
  <2>2. CASE jent.journal # NoFile
    <3>1. jent.journal \in Journal
      BY <2>2, Zenon DEF TypeOK, StoreTypeOK, JournalEntry
    <3>2. jent.journal.state = "Prepared" => PreparedSound(jent.journal)
      BY <2>2, <3>1, Zenon DEF IndInv, FilesInv, PreparedInv, PreparedSound, Untouched, MovedAside,
                        Applied, Desired
    <3>3. jent.journal.state = "Committed" => CommittedSound(jent.journal)
      BY <2>2, <3>1, Zenon DEF IndInv, FilesInv, CommittedInv, CommittedSound
    <3> QED BY <2>2, <3>1, <3>2, <3>3, JournalFacts, Zenon DEF Recoverable
  <2> QED BY <2>1, <2>2, Zenon
<1> QED BY <1>1, Types, Inductive, PTL

(***************************************************************************)
(* What commit returns is so: Ok means all is in place, an error after a   *)
(* rollback that all is as before, and uncertain that the committed        *)
(* journal is visible over a complete set.                                 *)
(***************************************************************************)
THEOREM OutcomesAreTrue ==
    ASSUME Calm(Env), "powerloss" \in Env => Together
    PROVE  Spec => []OutcomeIsTrue
<1>1. IndInv => OutcomeIsTrue
  BY Zenon DEF IndInv
<1> QED BY <1>1, Inductive, PTL

(***************************************************************************)
(* And when the targets are beside the journal, no power loss takes an     *)
(* outcome back: the journal's directory is synced after the last change.  *)
(***************************************************************************)
THEOREM OutcomesAreDurable ==
    ASSUME Calm(Env), Together
    PROVE  Spec => []OutcomeIsDurable
<1>1. TypeOK /\ IndInv /\ DiskInv => OutcomeIsDurable
  <2> SUFFICES ASSUME TypeOK, IndInv, DiskInv, result.kind \in {"ok", "rolledBack"}
               PROVE  /\ \A v \in disk[JournalDir] : v.jent.journal = NoFile
                      /\ \A t \in Planned(result.mem) :
                            DurablyClean(t, IF result.kind = "ok" THEN Desired(result.mem, t)
                                                                  ELSE result.mem.orig[t])
    BY Zenon DEF OutcomeIsDurable
  <2>1. disk[JournalDir] = {View(JournalDir, ent, jent)}
    BY Zenon DEF DiskInv
  <2>2. jent.journal = NoFile
    BY Zenon DEF IndInv, OutcomeIsTrue
  <2>3. \A v \in disk[JournalDir] : v.jent = jent /\ \A t \in Target : v.ent[t] = ent[t]
    BY <2>1, ViewParts DEF Together
  <2>4. ASSUME NEW t \in Planned(result.mem)
        PROVE  DurablyClean(t, IF result.kind = "ok" THEN Desired(result.mem, t)
                                                     ELSE result.mem.orig[t])
    <3>1. ent[t] = Clean(IF result.kind = "ok" THEN Desired(result.mem, t) ELSE result.mem.orig[t])
      BY Zenon DEF IndInv, OutcomeIsTrue
    <3>2. t \in Target
      BY Zenon DEF Planned
    <3> QED BY <2>3, <3>1, <3>2, Zenon DEF DurablyClean, Together
  <2> QED BY <2>2, <2>3, <2>4, Zenon
<1> QED BY <1>1, Types, Inductive, PTL

-----------------------------------------------------------------------------
(***************************************************************************)
(* What each step does to the visible state.                               *)
(***************************************************************************)

\* Where a session rolls back, the journal is still the prepared one.
LEMMA RollbackRestores ==
    ASSUME TypeOK, IndInv, pc \in {"rbTarget", "rbBackup", "rbStage"}
    PROVE  /\ idx \in Target
           /\ idx \in Planned(mem) => Restorable(idx)
           /\ pc \in {"rbBackup", "rbStage"} => Restorable(idx)
<1>1. RollbackInv /\ idx \in Target
  BY RollbackFacts, Zenon
<1>2. Pending(jent.journal) /\ mem.plan = jent.journal.plan
  BY <1>1, Zenon DEF RollbackInv, Pending
<1>3. idx \in Planned(mem) => Restorable(idx)
  BY <1>2, Zenon DEF Restorable, Planned
<1>4. pc \in {"rbBackup", "rbStage"} => idx \in Planned(mem)
  BY <1>1, Zenon DEF RollbackInv
<1> QED BY <1>1, <1>3, <1>4, Zenon

\* And where it applies the operations.
LEMMA ApplyRestores ==
    ASSUME TypeOK, IndInv, pc \in {"move", "verify", "install"}
    PROVE  idx \in Target /\ Restorable(idx)
<1>1. ApplyingInv /\ jent.journal = mem /\ mem # NoFile /\ mem.state = "Prepared"
  BY ApplyingFacts, Zenon
<1>2. idx \in Planned(mem)
  BY <1>1, Zenon DEF ApplyingInv
<1> QED BY <1>1, <1>2, Zenon DEF Restorable, Pending, Planned

LEMMA QuietRecovery ==
    ASSUME TypeOK, IndInv, RecoveryStep, ~ RemoveJournal, ~ RemoveJournalFails
    PROVE  Now' = Now
<1>1. CASE Lock \/ FinishWithErrors \/ RollbackSkip
  BY <1>1, SameStore, Zenon DEF Lock, FinishWithErrors, RollbackSkip
<1>2. CASE StartRecovery \/ StartRecoveryFails
  <2>1. CASE UNCHANGED storeVars
    BY <2>1, SameStore, Zenon
  <2>2. ASSUME NEW synced, PutJournal([jent EXCEPT !.stage = NoFile], synced)
        PROVE  Now' = Now
    <3>1. ent' = ent /\ jent' = [jent EXCEPT !.stage = NoFile]
      BY <2>2, Zenon DEF PutJournal
    <3>2. jent'.journal = jent.journal
      BY <3>1, Zenon DEF TypeOK, StoreTypeOK, JournalEntry
    <3> QED BY <3>1, <3>2, SameJournalNow, Zenon
  <2> QED BY <1>2, <2>1, <2>2, Zenon DEF StartRecovery, StartRecoveryFails
<1>3. CASE RollbackTarget
  <2>1. idx \in Target /\ Restorable(idx)
    BY <1>3, RollbackRestores, Zenon DEF RollbackTarget
  <2> QED BY <1>3, <2>1, SameUnlink, SameStore, Zenon DEF RollbackTarget, Report
<1>4. CASE RollbackBackup
  <2>1. idx \in Target /\ Restorable(idx)
    BY <1>4, RollbackRestores, Zenon DEF RollbackBackup
  <2>2. (\E synced : PutEntry(idx, Restored(idx), synced)) \/ UNCHANGED storeVars
    BY <1>4, Zenon DEF RollbackBackup, Report
  <2> QED BY <2>1, <2>2, SameEntry, SameStore, Zenon
<1>5. CASE RollbackStage
  <2>1. idx \in Target
    BY <1>5, RollbackRestores, Zenon DEF RollbackStage
  <2> QED BY <1>5, <2>1, SameStage, Zenon DEF RollbackStage
<1>6. CASE CleanStage \/ CleanBackup
  <2>1. idx \in Target
    BY <1>6, CleanupFacts, Zenon DEF CleanStage, CleanBackup
  <2> QED BY <1>6, <2>1, SameStage, SameUnlink, SameStore, Zenon DEF CleanStage, CleanBackup, Report
<1> QED BY <1>1, <1>2, <1>3, <1>4, <1>5, <1>6, Zenon DEF RecoveryStep

LEMMA QuietNext ==
    ASSUME TypeOK, IndInv, [Next]_vars, Calm(Env),
           ~ Prepare, ~ Commit, ~ RemoveJournal, ~ RemoveJournalFails, ~ PowerLoss
    PROVE  Now' = Now
<1>1. CASE Stage \/ Drop \/ CheckOriginal \/ Crash \/ UNCHANGED vars
  BY <1>1, SameStore, Zenon DEF Stage, Drop, CheckOriginal, Crash, vars, storeVars
<1>2. CASE StageFile
  <2>1. idx \in Target
    BY <1>2, Zenon DEF StageFile, TypeOK, SessionTypeOK, AtOperation
  <2>2. ASSUME NEW f
        PROVE  [ent[idx] EXCEPT !.stage = f].target = ent[idx].target
    BY <2>1, EntFacts, Zenon DEF TypeOK, Entry
  <2>3. \/ \E f, synced : PutEntry(idx, [ent[idx] EXCEPT !.stage = f], synced)
        \/ UNCHANGED storeVars
    BY <1>2, Zenon DEF StageFile
  <2> QED BY <2>1, <2>2, <2>3, SameEntry, SameStore, Zenon
<1>3. CASE RecordInstalled
  <2>1. pc = "record"
    BY <1>3, Zenon DEF RecordInstalled
  <2>2. /\ Pending(jent.journal)
        /\ mem.txn = jent.journal.txn /\ mem.plan = jent.journal.plan /\ mem.orig = jent.journal.orig
        /\ mem # NoFile /\ mem.state = "Prepared"
    BY <2>1, StagingFacts, JournalFacts, Zenon DEF Pending, StagingInv
  <2>3. ent' = ent /\ jent'.journal \in {mem, jent.journal}
    BY <1>3, WriteJournalEffect, Zenon DEF RecordInstalled
  <2>4. CASE jent'.journal = mem
    BY <2>2, <2>3, <2>4, SameInside, Zenon DEF Pending
  <2> QED BY <2>3, <2>4, SameJournalNow, Zenon
<1>4. CASE MoveToBackup
  <2>1. idx \in Target /\ Restorable(idx)
    BY <1>4, ApplyRestores, Zenon DEF MoveToBackup
  <2> QED BY <1>4, <2>1, SameEntry, SameStore, Zenon DEF MoveToBackup
<1>5. CASE VerifyBackup
  <2>1. idx \in Target /\ Restorable(idx)
    BY <1>5, ApplyRestores, Zenon DEF VerifyBackup
  <2> QED BY <1>5, <2>1, SameEntry, SameStore, Zenon DEF VerifyBackup
<1>6. CASE Install
  <2>1. idx \in Target /\ Restorable(idx)
    BY <1>6, ApplyRestores, Zenon DEF Install
  <2> QED BY <1>6, <2>1, SameEntry, SameStore, Zenon DEF Install
<1>7. ~ Interfere
  BY Zenon DEF Interfere, ForeignWrite, Calm, IndInv
<1> QED BY <1>1, <1>2, <1>3, <1>4, <1>5, <1>6, <1>7, QuietRecovery, Zenon
        DEF Next, SessionStep, Disturbance

\* The visible state under a prepared journal, and under another or none.
LEMMA NowPending ==
    ASSUME NEW j, j = jent.journal, Pending(j)
    PROVE  Now = [value  |-> [t \in Target |-> IF j.plan[t] # "keep" THEN j.orig[t] ELSE ent[t].target],
                  intent |-> [txn |-> j.txn, plan |-> j.plan]]
  BY Zenon DEF Now, StateUnder

LEMMA NowSettled ==
    ~ Pending(jent.journal) => Now = [value |-> [t \in Target |-> ent[t].target], intent |-> NoTxn]
  BY Zenon DEF Now, StateUnder, NoTxn

\* The first journal, once it is in its place, announces the transaction.
Announced ==
    /\ Now.intent = NoTxn
    /\ \E k \in 1..MaxTxn, plan \in [Target -> {"keep", "write", "remove"}] :
          /\ plan # NoTxn.plan
          /\ \A t \in Target : Now.value[t] # k
          /\ Now' = [Now EXCEPT !.intent = [txn |-> k, plan |-> plan]]

LEMMA PrepareNow ==
    ASSUME TypeOK, IndInv, OpenBound, Prepare
    PROVE  Now' = Now \/ Announced
<1>1. PICK m : m = [mem EXCEPT !.txn = txns + 1]
  BY Zenon
<1>2. pc = "open" /\ Planned(mem) # {} /\ txns' = txns + 1
  BY Zenon DEF Prepare
<1>3. StoreInv /\ OpenInv /\ mem \in Journal /\ jent.journal = NoFile
  BY <1>2, OpenFacts, Zenon DEF OpenInv
<1>4. ent' = ent /\ jent'.journal \in {m, jent.journal}
  <2>1. WriteJournal(m) \/ WriteJournalNotRenamed \/ WriteJournalNotSynced(m)
    BY <1>1, Zenon DEF Prepare
  <2> QED BY <2>1, WriteJournalEffect, Zenon
<1>5. CASE jent'.journal = jent.journal
  BY <1>4, <1>5, SameJournalNow, Zenon
<1>6. CASE jent'.journal = m
  <2>1. /\ m \in Journal /\ m.txn = txns + 1 /\ m.plan = mem.plan /\ m.orig = mem.orig
        /\ m.state = "Prepared"
    BY <1>1, <1>3, <1>2 DEF Journal, OpenInv, TypeOK, SessionTypeOK
  <2>2. m # NoFile /\ m.plan \in [Target -> {"keep", "write", "remove"}]
    BY <2>1, JournalFacts, Zenon DEF Journal
  <2>3. Now = [value |-> [t \in Target |-> ent[t].target], intent |-> NoTxn]
    BY <1>3, NowSettled, Zenon DEF Pending
  <2>4. Pending(m)
    BY <2>1, <2>2, Zenon DEF Pending
  <2>5. Now' = [value  |-> [t \in Target |-> IF m.plan[t] # "keep" THEN m.orig[t] ELSE ent[t].target],
                intent |-> [txn |-> m.txn, plan |-> m.plan]]
    BY <1>4, <1>6, <2>4, Zenon DEF Now, StateUnder, Pending
  <2>6. \A t \in Target : m.plan[t] # "keep" => m.orig[t] = ent[t].target
    BY <1>3, <2>1, Zenon DEF OpenInv, Planned
  <2>7. Now' = [Now EXCEPT !.intent = [txn |-> txns + 1, plan |-> m.plan]]
    <3>1. [t \in Target |-> IF m.plan[t] # "keep" THEN m.orig[t] ELSE ent[t].target]
            = [t \in Target |-> ent[t].target]
      BY <2>6, Zenon
    <3> QED BY <2>1, <2>3, <2>5, <3>1
  <2>8. txns + 1 \in 1..MaxTxn
    BY <1>2, MaxTxnAssumption DEF OpenBound, TypeOK, SessionTypeOK
  <2>9. m.plan # NoTxn.plan
    BY <1>2, <2>1, Zenon DEF NoTxn, Planned
  <2>10. \A t \in Target : Now.value[t] # txns + 1
    <3>1. \A t \in Target : UpTo(txns, ent[t].target)
      BY <1>3, Zenon DEF StoreInv, Fresh
    <3>2. \A t \in Target : ent[t].target # txns + 1
      BY <3>1 DEF UpTo, TypeOK, SessionTypeOK
    <3> QED BY <2>3, <3>2, Zenon
  <2>11. Now.intent = NoTxn
    BY <2>3, Zenon
  <2> QED BY <2>2, <2>7, <2>8, <2>9, <2>10, <2>11, Zenon DEF Announced
<1> QED BY <1>4, <1>5, <1>6, Zenon

\* The committed journal publishes it.
Published ==
    /\ Now.intent # NoTxn
    /\ Now' = [value  |-> [t \in Target |-> IF Now.intent.plan[t] = "write" THEN Now.intent.txn
                                            ELSE IF Now.intent.plan[t] = "remove" THEN NoFile
                                            ELSE Now.value[t]],
               intent |-> NoTxn]

LEMMA CommitNow ==
    ASSUME TypeOK, IndInv, Commit
    PROVE  Now' = Now \/ Published
<1>1. PICK m : m = [mem EXCEPT !.state = "Committed"]
  BY Zenon
<1>2. pc = "commit"
  BY Zenon DEF Commit
<1>3. /\ ApplyingInv /\ mem \in Journal /\ mem # NoFile /\ jent.journal = mem
      /\ mem.state = "Prepared"
  BY <1>2, ApplyingFacts, Zenon
<1>4. ent' = ent /\ jent'.journal \in {m, jent.journal}
  <2>1. WriteJournal(m) \/ WriteJournalNotRenamed \/ WriteJournalNotSynced(m)
    BY <1>1, Zenon DEF Commit
  <2> QED BY <2>1, WriteJournalEffect, Zenon
<1>5. CASE jent'.journal = jent.journal
  BY <1>4, <1>5, SameJournalNow, Zenon
<1>6. CASE jent'.journal = m
  <2>1. m.state = "Committed"
    BY <1>1, <1>3, Zenon DEF Journal
  <2>2. Now' = [value |-> [t \in Target |-> ent[t].target], intent |-> NoTxn]
    BY <1>4, <1>6, <2>1, Zenon DEF Now, StateUnder, Pending, NoTxn
  <2>3. Now = [value  |-> [t \in Target |-> IF mem.plan[t] # "keep" THEN mem.orig[t] ELSE ent[t].target],
               intent |-> [txn |-> mem.txn, plan |-> mem.plan]]
    BY <1>3, NowPending, Zenon DEF Pending
  <2>4. \A t \in Planned(mem) : ent[t].target = Desired(mem, t)
    <3>1. \A t \in Planned(mem) : t < idx
      BY <1>2, StoreAssumption DEF IndInv, SessionInv, Planned, Target
    <3> QED BY <1>3, <3>1, Zenon DEF ApplyingInv, Applied
  <2>5. mem.plan \in [Target -> {"keep", "write", "remove"}]
    BY <1>3, Zenon DEF Journal
  <2>6. \A t \in Target :
           ent[t].target = IF mem.plan[t] = "write" THEN mem.txn
                           ELSE IF mem.plan[t] = "remove" THEN NoFile
                           ELSE Now.value[t]
    BY <2>3, <2>4, <2>5, Zenon DEF Planned, Desired
  <2>7. CASE Now.intent = NoTxn
    <3>1. \A t \in Target : mem.plan[t] = "keep"
      BY <2>3, <2>7, Zenon DEF NoTxn
    <3>2. [t \in Target |-> IF mem.plan[t] # "keep" THEN mem.orig[t] ELSE ent[t].target]
            = [t \in Target |-> ent[t].target]
      BY <3>1, Zenon
    <3> QED BY <2>2, <2>3, <2>7, <3>2, Zenon
  <2>8. CASE Now.intent # NoTxn
    <3>1. Now.intent.plan = mem.plan /\ Now.intent.txn = mem.txn
      BY <2>3, Zenon
    <3>2. [t \in Target |-> ent[t].target]
            = [t \in Target |-> IF Now.intent.plan[t] = "write" THEN Now.intent.txn
                                ELSE IF Now.intent.plan[t] = "remove" THEN NoFile
                                ELSE Now.value[t]]
      BY <2>6, <3>1, Zenon
    <3> QED BY <2>2, <2>8, <3>2, Zenon DEF Published
  <2> QED BY <2>7, <2>8, Zenon
<1> QED BY <1>4, <1>5, <1>6, Zenon

\* Removing a prepared journal withdraws it.
Withdrawn == Now.intent # NoTxn /\ Now' = [Now EXCEPT !.intent = NoTxn]

LEMMA FinishNow ==
    ASSUME TypeOK, IndInv, RemoveJournal \/ RemoveJournalFails
    PROVE  Now' = Now \/ Withdrawn
<1>1. pc = "finish" /\ errs = "none"
  BY Zenon DEF RemoveJournal, RemoveJournalFails
<1>2. ent' = ent /\ jent'.journal \in {NoFile, jent.journal}
  <2>1. ASSUME NEW j, NEW synced, PutJournal([journal |-> j, stage |-> NoFile], synced)
        PROVE  ent' = ent /\ jent'.journal = j
    BY <2>1, Zenon DEF PutJournal
  <2>2. CASE RemoveJournal
    BY <2>1, <2>2, Zenon DEF RemoveJournal
  <2>3. CASE RemoveJournalFails
    <3>1. CASE UNCHANGED storeVars
      BY <3>1, Zenon DEF storeVars
    <3> QED BY <2>1, <2>3, <3>1, Zenon DEF RemoveJournalFails
  <2> QED BY <2>2, <2>3, Zenon
<1>3. CASE jent'.journal = jent.journal
  BY <1>2, <1>3, SameJournalNow, Zenon
<1>4. CASE jent'.journal = NoFile
  <2>1. idx = 0 /\ (RollbackInv \/ CleanupInv)
    BY <1>1, Zenon DEF IndInv, SessionInv
  <2>2. ~ Pending(jent'.journal)
    BY <1>4, Zenon DEF Pending
  <2>3. CASE CleanupInv
    <3>1. ~ Pending(jent.journal)
      BY <2>3, Zenon DEF CleanupInv, Pending
    <3> QED BY <1>2, <2>2, <3>1, SameOutside, Zenon
  <2>4. CASE RollbackInv
    <3>1. PICK j : j = jent.journal
      BY Zenon
    <3>2. Pending(j) /\ mem.plan = j.plan /\ mem.orig = j.orig
      BY <2>4, <3>1, Zenon DEF RollbackInv, Pending
    <3>3. Now = [value  |-> [t \in Target |-> IF j.plan[t] # "keep" THEN j.orig[t] ELSE ent[t].target],
                 intent |-> [txn |-> j.txn, plan |-> j.plan]]
      BY <3>1, <3>2, NowPending, Zenon
    <3>4. Now' = [value |-> [t \in Target |-> ent[t].target], intent |-> NoTxn]
      BY <1>2, <2>2, Zenon DEF Now, StateUnder, Pending, NoTxn
    <3>5. \A t \in Planned(mem) : ent[t].target = mem.orig[t]
      <4>1. \A t \in Planned(mem) : t > idx
        BY <2>1, StoreAssumption DEF Planned, Target
      <4>2. \A t \in Planned(mem) : ent[t] = Clean(mem.orig[t])
        BY <1>1, <2>4, <4>1, Zenon DEF RollbackInv, RolledBack
      <4>3. \A f : Clean(f).target = f
        BY Zenon DEF Clean
      <4> QED BY <4>2, <4>3, Zenon
    <3>6. [t \in Target |-> IF j.plan[t] # "keep" THEN j.orig[t] ELSE ent[t].target]
            = [t \in Target |-> ent[t].target]
      BY <3>2, <3>5, Zenon DEF Planned
    <3>7. Now' = [Now EXCEPT !.intent = NoTxn]
      BY <3>3, <3>4, <3>6
    <3>8. Now.intent = NoTxn => Now' = Now
      BY <3>3, <3>4, <3>6, Zenon
    <3> QED BY <3>7, <3>8, Zenon DEF Withdrawn
  <2> QED BY <2>1, <2>3, <2>4, Zenon
<1> QED BY <1>2, <1>3, <1>4, Zenon

-----------------------------------------------------------------------------
LEMMA AtomicInit ==
    ASSUME Init, Together
    PROVE  AtomicSet!Init
<1>1. disk[JournalDir] = {View(JournalDir, ent, jent)} /\ jent.journal = NoFile
  BY StoreAssumption, Zenon DEF Init, StoreInit
<1>2. Kept = {Now}
  BY <1>1, NowIsKept, Zenon DEF Kept
<1>3. Now.intent = NoTxn
  BY <1>1, NowSettled DEF Pending
<1> QED BY <1>2, <1>3, Zenon DEF AtomicSet!Init, AtomicSet!NoTxn, NoTxn, Kept

LEMMA AtomicStep ==
    ASSUME Together, Calm(Env), TypeOK, IndInv, DiskInv, OpenBound, [Next]_vars
    PROVE  [AtomicSet!Next]_(AtomicSet!vars)
<1>1. Now \in Kept
  BY NowIsKept, Zenon DEF Kept, DiskInv
<1>2. CASE PowerLoss
  <2>1. Now' \in Kept /\ Kept' = {Now'}
    BY <1>2, KeptPowerLoss, Zenon
  <2> QED BY <2>1, Zenon DEF AtomicSet!Next, AtomicSet!PowerLoss, Kept
<1>3. CASE ~ PowerLoss
  <2>1. Kept' = {Now'} \/ Kept' = Kept \cup {Now'} \/ (Kept' = Kept /\ Now' = Now)
    BY <1>3, KeptStep, Zenon
  <2>2. CASE Now' = Now
    <3>1. Kept' = {Now} \/ Kept' = Kept
      BY <1>1, <2>1, <2>2, Zenon
    <3> QED BY <2>2, <3>1, Zenon DEF AtomicSet!Next, AtomicSet!Settle, AtomicSet!vars, Kept
  <2>3. CASE Now' # Now
    <3>1. Announced \/ Published \/ Withdrawn
      BY <1>3, <2>3, QuietNext, PrepareNow, CommitNow, FinishNow, Zenon
    <3>2. Kept' \in {{Now'}, Kept \cup {Now'}}
      BY <2>1, <2>3, Zenon
    <3>3. Announced => AtomicSet!Announce
      BY <3>2, Zenon DEF Announced, AtomicSet!Announce, AtomicSet!Becomes, AtomicSet!NoTxn, NoTxn, Kept
    <3>4. Published => AtomicSet!Publish
      BY <3>2, Zenon DEF Published, AtomicSet!Publish, AtomicSet!Becomes, AtomicSet!NoTxn, NoTxn, Kept
    <3>5. Withdrawn => AtomicSet!Withdraw
      BY <3>2, Zenon DEF Withdrawn, AtomicSet!Withdraw, AtomicSet!Becomes, AtomicSet!NoTxn, NoTxn, Kept
    <3> QED BY <3>1, <3>3, <3>4, <3>5, Zenon DEF AtomicSet!Next
  <2> QED BY <2>2, <2>3, Zenon
<1> QED BY <1>2, <1>3, Zenon

(***************************************************************************)
(* A durable file set whose targets are beside its journal is atomic.  All *)
(* changes of a transaction happen at once, or none, also for whoever      *)
(* looks after processes died, calls failed or the power was lost.         *)
(***************************************************************************)
THEOREM FileSetIsAtomic ==
    ASSUME Calm(Env), Together
    PROVE  Spec => Atomic
<1>1. Init => AtomicSet!Init
  BY AtomicInit, Zenon
<1>2. TypeOK /\ (IndInv /\ DiskInv /\ OpenBound) /\ [Next]_vars => [AtomicSet!Next]_(AtomicSet!vars)
  BY AtomicStep, Zenon
<1> QED BY <1>1, <1>2, Types, Inductive, PTL DEF Spec, Atomic, AtomicSet!Spec

(***************************************************************************)
(* Where no call fails, whoever sees the commit marker finds every other   *)
(* change of its transaction in place, whenever processes died, and, when  *)
(* the targets are beside the journal, whenever the power was lost.        *)
(***************************************************************************)
THEOREM MarkersLast ==
    ASSUME Calm(Env), "powerloss" \in Env => Together
    PROVE  Spec => []MarkerLast
<1>1. CASE "fault" \in Env
  <2>1. IndInv => MarkerLast
    BY <1>1, Zenon DEF IndInv, MarkerLast
  <2> QED BY <2>1, Inductive, PTL
<1>2. CASE "fault" \notin Env
  <2>1. Init /\ TypeOK => MarkerInv
    <3> SUFFICES ASSUME Init, TypeOK PROVE MarkerInv
      BY Zenon
    <3>1. jent.journal = NoFile /\ disk[JournalDir] = {View(JournalDir, ent, jent)}
      BY StoreAssumption, Zenon DEF Init, StoreInit
    <3>2. MarkerSound /\ GenerationBoundary
      BY <3>1, Zenon DEF MarkerSound, MarkerShown, Pending, GenerationBoundary
    <3> QED BY <3>1, <3>2, BoundaryView, Zenon DEF MarkerInv
  <2>2. TypeOK /\ TypeOK' /\ (IndInv /\ DiskInv /\ OpenBound) /\ (IndInv /\ DiskInv /\ OpenBound)'
        => (MarkerInv /\ [Next]_vars => MarkerInv')
    BY <1>2, MarkerInvStep, Zenon
  <2>3. TypeOK /\ IndInv /\ MarkerInv => MarkerLast
    BY SoundBoundary, Zenon DEF MarkerInv, MarkerLast
  <2> QED BY <2>1, <2>2, <2>3, Types, Inductive, PTL DEF Spec
<1> QED BY <1>1, <1>2, Zenon
=============================================================================
