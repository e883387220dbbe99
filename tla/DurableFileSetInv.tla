-------------------------- MODULE DurableFileSetInv --------------------------
(***************************************************************************)
(* Why DurableFileSet is recoverable: the inductive invariant behind       *)
(* Recoverable and OutcomeIsTrue, for faults and deaths of processes.      *)
(* It has one part about the files under the visible journal, whoever      *)
(* looks at them, and one about what the session that holds the lock       *)
(* knows.  DiskInv adds what a power loss may leave, when the targets are  *)
(* beside the journal, and MarkerInv when the commit marker is there.      *)
(***************************************************************************)
EXTENDS DurableFileSet

NoSiblings(t) == ent[t].stage = NoFile /\ ent[t].backup = NoFile

Untouched(m, t) == ent[t].target = m.orig[t] /\ ent[t].backup = NoFile

MovedAside(m, t) == ent[t].target = NoFile /\ ent[t].backup = m.orig[t]

Applied(m, t) == ent[t].target = Desired(m, t) /\ ent[t].backup = m.orig[t]

\* No file is newer than the transactions begun.
UpTo(k, f) == f \in Nat => f <= k

Fresh == \A t \in Target : UpTo(txns, ent[t].target)

(***************************************************************************)
(* A journal value is well formed: its originals are older than itself, a  *)
(* removal has an original, only written files are installed.              *)
(***************************************************************************)
WellFormed(m) ==
    \A t \in Target :
        /\ UpTo(txns, m.orig[t])
        /\ m.plan[t] = "keep" => m.orig[t] = NoFile
        /\ m.plan[t] = "remove" => m.orig[t] # NoFile
        /\ t \in m.installed => m.plan[t] = "write"

Begun(m) == m.txn <= txns /\ \A t \in Target : m.orig[t] # m.txn

SiblingsOwned(m) ==
    \A t \in Target :
        /\ m.plan[t] = "keep" => NoSiblings(t)
        /\ m.plan[t] = "remove" => ent[t].stage = NoFile
        /\ ent[t].stage \in {NoFile, Torn, m.txn}
        /\ t \in m.installed => ent[t].stage # Torn

PreparedInv(m) ==
    \A t \in Planned(m) :
        /\ Untouched(m, t) \/ MovedAside(m, t) \/ Applied(m, t)
        /\ m.plan[t] = "write" /\ ent[t].target = m.txn => t \in m.installed

CommittedInv(m) ==
    \A t \in Planned(m) :
        /\ ent[t].target = Desired(m, t)
        /\ ent[t].backup \in {NoFile, m.orig[t]}
        /\ ent[t].stage = NoFile

FilesInv ==
    LET m == jent.journal
    IN  IF m = NoFile THEN \A t \in Target : NoSiblings(t)
        ELSE /\ WellFormed(m) /\ Begun(m) /\ SiblingsOwned(m)
             /\ m.state = "Prepared" => PreparedInv(m)
             /\ m.state = "Committed" => CommittedInv(m)

\* The facts about the store that no session variable is part of.
StoreInv == env = Env /\ Fresh /\ FilesInv

\* Nobody else writes, and the journal can be read back.
Calm(e) == e \subseteq {"fault", "crash", "powerloss"}

\* Every target is in the directory of the journal.
Together == \A t \in Target : DirOf[t] = JournalDir

-----------------------------------------------------------------------------
(***************************************************************************)
(* What the session knows.  It has changed nothing and holds snapshots     *)
(* ("open"); it writes staged files; it applies the operations in order;   *)
(* it rolls them back from the last to the first; it cleans up.            *)
(***************************************************************************)
OpenInv ==
    /\ jent.journal = NoFile
    /\ mem.state = "Prepared" /\ mem.installed = {}
    /\ WellFormed(mem)
    /\ \A t \in Planned(mem) : ent[t].target = mem.orig[t]

StagingInv ==
    /\ mem.state = "Prepared"
    /\ WellFormed(mem)
    /\ jent.journal = [mem EXCEPT !.installed = {}]
    /\ \A t \in Planned(mem) :
          /\ Untouched(mem, t)
          /\ ent[t].stage = IF t < idx THEN Desired(mem, t) ELSE NoFile
          /\ t \in mem.installed <=> (t < idx /\ mem.plan[t] = "write")

ApplyingInv ==
    /\ mem.state = "Prepared"
    /\ jent.journal = mem
    /\ \A t \in Planned(mem) :
          /\ mem.plan[t] = "write" => t \in mem.installed
          /\ t < idx => Applied(mem, t) /\ ent[t].stage = NoFile
          /\ t > idx => Untouched(mem, t)
          /\ t >= idx => ent[t].stage = Desired(mem, t)
    /\ pc \in {"check", "move"} /\ idx \in Planned(mem) => Untouched(mem, idx)
    /\ pc \in {"move", "verify", "install"} => idx \in Planned(mem)
    /\ pc = "move" => mem.orig[idx] # NoFile
    /\ pc \in {"verify", "install"} => MovedAside(mem, idx)
    /\ pc = "install" => mem.plan[idx] = "write"

\* Rollback works with a journal value that may know more staged files than
\* the visible journal, and whose state no longer matters.
RolledBack(t) == ent[t] = Clean(mem.orig[t])

RollbackInv ==
    /\ jent.journal # NoFile
    /\ mem.plan = jent.journal.plan /\ mem.orig = jent.journal.orig
    /\ mem.txn = jent.journal.txn
    /\ jent.journal.state = "Prepared"
    /\ jent.journal.installed \subseteq mem.installed
    /\ purpose # "commit"
    /\ \A t \in mem.installed : mem.plan[t] = "write" /\ ent[t].stage # Torn
    /\ errs = "none" => \A t \in Planned(mem) : t > idx => RolledBack(t)
    /\ pc \in {"rbBackup", "rbStage"} => idx \in Planned(mem)
    /\ pc = "rbBackup" /\ errs = "none" =>
          ent[idx].target # mem.txn
    /\ pc = "rbStage" /\ errs = "none" => Untouched(mem, idx)

CleanupInv ==
    /\ jent.journal = mem
    /\ mem.state = "Committed"
    /\ purpose # "abort"
    /\ pc = "cleanBackup" /\ errs = "none" =>
          \A t \in Planned(mem) : t < idx => ent[t].backup = NoFile
    /\ pc = "finish" /\ errs = "none" =>
          \A t \in Planned(mem) : ent[t].backup = NoFile

SessionInv ==
    /\ pc \in {"idle", "recover"} => mem = NoChanges
    /\ pc = "open" => OpenInv
    /\ pc \in {"stage", "record"} => StagingInv
    /\ pc = "record" => idx = N + 1
    /\ pc \in {"check", "move", "verify", "install", "commit"} => ApplyingInv
    /\ pc = "commit" => idx = N + 1
    /\ pc \in {"rbTarget", "rbBackup", "rbStage"} => RollbackInv
    /\ pc \in {"cleanStage", "cleanBackup"} => CleanupInv
    /\ pc = "finish" => idx = 0 /\ (RollbackInv \/ CleanupInv)
    /\ pc # "idle" => result.kind = "none"

(***************************************************************************)
(* IndInv: the inductive invariant.  It implies Recoverable and, with the  *)
(* last conjunct, OutcomeIsTrue.                                           *)
(***************************************************************************)
IndInv == env = Env /\ Fresh /\ FilesInv /\ SessionInv /\ OutcomeIsTrue

-----------------------------------------------------------------------------
(***************************************************************************)
(* What a power loss may leave of the directory of the journal, when all   *)
(* of the targets are in it: files that fit the journal that is left with  *)
(* them, as the visible ones fit the visible journal.                      *)
(***************************************************************************)
Fits(m, t, e) ==
    /\ m.plan[t] = "keep" => e.stage = NoFile /\ e.backup = NoFile
    /\ m.plan[t] = "remove" => e.stage = NoFile
    /\ e.stage \in {NoFile, Torn, m.txn}
    /\ t \in m.installed => e.stage # Torn
    /\ m.plan[t] # "keep" /\ m.state = "Prepared" =>
          /\ \/ e.target = m.orig[t] /\ e.backup = NoFile
             \/ e.target = NoFile /\ e.backup = m.orig[t]
             \/ e.target = Desired(m, t) /\ e.backup = m.orig[t]
          /\ m.plan[t] = "write" /\ e.target = m.txn => t \in m.installed
    /\ m.plan[t] # "keep" /\ m.state = "Committed" =>
          e.target = Desired(m, t) /\ e.backup \in {NoFile, m.orig[t]} /\ e.stage = NoFile

ViewSound(v) ==
    LET m == v.jent.journal
    IN  /\ \A t \in Target : UpTo(txns, v.ent[t].target)
        /\ m = NoFile => \A t \in Target : v.ent[t].stage = NoFile /\ v.ent[t].backup = NoFile
        /\ m # NoFile => WellFormed(m) /\ Begun(m) /\ \A t \in Target : Fits(m, t, v.ent[t])

(***************************************************************************)
(* DiskInv: the visible contents of the journal's directory are among      *)
(* those that a power loss may leave, and are the only ones when commit    *)
(* has returned a final outcome.                                           *)
(***************************************************************************)
DiskInv ==
    /\ View(JournalDir, ent, jent) \in disk[JournalDir]
    /\ "powerloss" \in Env => \A v \in disk[JournalDir] : ViewSound(v)
    /\ result.kind \in {"ok", "rolledBack"} => disk[JournalDir] = {View(JournalDir, ent, jent)}

\* Changes are staged only for a transaction that may still be begun.
OpenBound == pc = "open" /\ Planned(mem) # {} => txns < MaxTxn

(***************************************************************************)
(* MarkerInv: while a transaction is pending, its commit marker is there   *)
(* only when all of its other changes are, and a rollback takes it away    *)
(* before anything else.  A power loss leaves no other contents either.    *)
(***************************************************************************)
MarkerTaken ==
    pc \in {"rbBackup", "rbStage", "finish"} \/ (pc = "rbTarget" /\ idx < N)

MarkerShown ==
    /\ Pending(jent.journal) /\ jent.journal.plan[N] = "write"
    /\ ent[N].target = jent.journal.txn

MarkerSound == MarkerShown => CommittedSound(jent.journal) /\ ~MarkerTaken

ViewBoundary(v) ==
    LET m == v.jent.journal
    IN  m # NoFile /\ m.plan[N] = "write" /\ v.ent[N].target = m.txn
        => \A t \in Planned(m) : v.ent[t].target = Desired(m, t)

MarkerInv ==
    /\ MarkerSound
    /\ "powerloss" \in Env => \A v \in disk[JournalDir] : ViewBoundary(v)

-----------------------------------------------------------------------------
(***************************************************************************)
(* Another program at every name destroys FilesInv: what is at a target or *)
(* a sibling may be anything.  What the code has written stays known: the  *)
(* session works on the visible journal, whose originals are older than    *)
(* its transaction, and a backup belongs to an operation of the journal    *)
(* that has an original, or is a copy of what is at the target again.      *)
(***************************************************************************)
Operates(j, t) == j # NoFile /\ j.plan[t] # "keep"

Settled(t) == ent[t].backup = NoFile \/ ent[t].target # NoFile

BackupOwned(t) ==
    IF Operates(jent.journal, t) THEN ent[t].backup # NoFile => jent.journal.orig[t] # NoFile
                                 ELSE Settled(t)

SameWork ==
    /\ jent.journal # NoFile
    /\ mem.txn = jent.journal.txn /\ mem.plan = jent.journal.plan /\ mem.orig = jent.journal.orig

KnownInv ==
    /\ \A t \in Target : UpTo(txns, ent[t].target) /\ UpTo(txns, ent[t].backup) /\ BackupOwned(t)
    /\ jent.journal # NoFile => Begun(jent.journal)

WorkInv ==
    /\ pc \notin {"idle", "recover", "open"} => SameWork
    /\ pc = "open" =>
          /\ jent.journal = NoFile
          /\ \A t \in Target : /\ UpTo(txns, mem.orig[t])
                               /\ mem.plan[t] # "keep" /\ mem.orig[t] = NoFile => ent[t].backup = NoFile
    /\ pc \in {"cleanStage", "cleanBackup"} => jent.journal.state = "Committed"
    /\ pc \in {"move", "verify", "install", "rbBackup", "rbStage"} => mem.plan[idx] # "keep"
    /\ pc = "move" => mem.orig[idx] # NoFile
    /\ pc = "finish" => idx = 0

\* How far rollback and cleanup have come, if nothing was reported.
Processed(t) ==
    \/ pc \in {"rbTarget", "rbBackup", "rbStage", "finish"} /\ t > idx
    \/ pc = "rbStage" /\ t = idx
    \/ pc = "cleanBackup" /\ t < idx

ProgressInv == errs = "none" => \A t \in Target : Processed(t) => Settled(t)

ForeignInv == env = Env /\ KnownInv /\ WorkInv /\ ProgressInv
=============================================================================
