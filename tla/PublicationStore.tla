-------------------------- MODULE PublicationStore --------------------------
(***************************************************************************)
(* The part of a filesystem that aros-common's publication code works on,  *)
(* and what a power loss does to it.                                       *)
(*                                                                         *)
(* A transaction namespace has one journal and N targets.  A target has    *)
(* two private siblings in its own directory, the staged new file and the  *)
(* backup of the original; the journal has one, the staged new journal.    *)
(* Every rename and unlink of the code therefore changes one directory.    *)
(*                                                                         *)
(* The code compares files by (device, inode), SHA-256 and mode.  The      *)
(* model keeps of a file only who wrote it, which is what these three tell *)
(* apart: a transaction number (0 is the state before the first one),      *)
(* Foreign for an uncoordinated program, or Torn for a staged file whose   *)
(* write was cut short.                                                    *)
(***************************************************************************)
EXTENDS Naturals, FiniteSets

CONSTANTS
    N,              \* number of targets, in the order commit applies them
    Dir,            \* directories
    JournalDir,     \* the directory of the journal
    DirOf,          \* the directory of each target
    NoFile,         \* the name is absent
    Foreign,        \* a file that another program wrote
    Torn,           \* a staged file that was not completely written
    Env             \* which of EnvEvents may happen at the start

Target == 1..N

(***************************************************************************)
(* "fault": a system call fails.  "reread": the journal cannot be read     *)
(* back after its directory sync failed.  "crash": the process dies, the   *)
(* kernel lives on.  "powerloss": directory changes that were not synced   *)
(* may be undone.  "foreign": another program writes a target or a sibling *)
(***************************************************************************)
EnvEvents == {"fault", "reread", "crash", "powerloss", "foreign"}

ASSUME StoreAssumption ==
    /\ N \in Nat \ {0}
    /\ JournalDir \in Dir
    /\ DirOf \in [Target -> Dir]
    /\ NoFile \notin Nat /\ Foreign \notin Nat /\ Torn \notin Nat
    /\ NoFile # Foreign /\ NoFile # Torn /\ Foreign # Torn
    /\ Env \subseteq EnvEvents

VARIABLES
    ent,    \* what the names of each target hold
    jent,   \* what the names of the journal hold
    disk,   \* for each directory, the contents a power loss may leave in it
    env     \* which of EnvEvents may still happen

storeVars == <<ent, jent, disk, env>>

Content == Nat \cup {NoFile, Foreign, Torn}

Entry == [target : Content, stage : Content, backup : Content]

(***************************************************************************)
(* struct Journal with its JournalOperations.  A target without operation  *)
(* has plan "keep".  "installed" holds the operations whose staged file's  *)
(* identity is recorded.                                                   *)
(***************************************************************************)
Journal ==
    [state     : {"Prepared", "Committed"},
     txn       : Nat,
     plan      : [Target -> {"keep", "write", "remove"}],
     orig      : [Target -> Content],
     installed : SUBSET Target]

ASSUME NoFileIsNoJournal == NoFile \notin Journal

JournalEntry == [journal : Journal \cup {NoFile}, stage : {NoFile, Torn}]

TargetsIn(d) == {t \in Target : DirOf[t] = d}

\* The contents of directory d when the names hold e and j.
View(d, e, j) ==
    [ent  |-> [t \in TargetsIn(d) |-> e[t]],
     jent |-> IF d = JournalDir THEN j ELSE NoFile]

ViewType(d) ==
    [ent  : [TargetsIn(d) -> Entry],
     jent : IF d = JournalDir THEN JournalEntry ELSE {NoFile}]

StoreTypeOK ==
    /\ ent \in [Target -> Entry]
    /\ jent \in JournalEntry
    /\ disk = [d \in Dir |-> disk[d]]
    /\ \A d \in Dir : disk[d] \subseteq ViewType(d)
    /\ env \subseteq EnvEvents

StoreInit ==
    /\ ent \in [Target -> {[target |-> f, stage |-> NoFile, backup |-> NoFile] :
                              f \in {0, NoFile}}]
    /\ jent = [journal |-> NoFile, stage |-> NoFile]
    /\ disk = [d \in Dir |-> {View(d, ent, jent)}]
    /\ env = Env

(***************************************************************************)
(* A change of one directory.  Until the directory is synced, a power loss *)
(* may leave it as it was before any of the changes since the last sync    *)
(* that succeeded.                                                         *)
(***************************************************************************)
After(d, e, j, synced) ==
    [disk EXCEPT ![d] = IF synced THEN {View(d, e, j)} ELSE @ \cup {View(d, e, j)}]

PutEntry(t, e, synced) ==
    LET new == [ent EXCEPT ![t] = e]
    IN  /\ ent' = new
        /\ jent' = jent
        /\ disk' = After(DirOf[t], new, jent, synced)
        /\ env' = env

PutJournal(j, synced) ==
    /\ jent' = j
    /\ ent' = ent
    /\ disk' = After(JournalDir, ent, j, synced)
    /\ env' = env

Fault == "fault" \in env

(***************************************************************************)
(* A power loss.  Each directory keeps its changes up to some point since  *)
(* its last sync.                                                          *)
(***************************************************************************)
StorePowerLoss ==
    \E kept \in [Dir -> UNION {disk[d] : d \in Dir}] :
        /\ \A d \in Dir : kept[d] \in disk[d]
        /\ ent' = [t \in Target |-> kept[DirOf[t]].ent[t]]
        /\ jent' = kept[JournalDir].jent
        /\ disk' = [d \in Dir |-> {kept[d]}]
        /\ env' = env

(***************************************************************************)
(* Another program replaces or creates a target, or rewrites an existing   *)
(* sibling in place.  It holds no lock and does not sync.                  *)
(***************************************************************************)
ForeignWrite ==
    /\ "foreign" \in env
    /\ \E t \in Target, name \in {"target", "stage", "backup"} :
          /\ ent[t][name] # Foreign
          /\ name # "target" => ent[t][name] # NoFile
          /\ PutEntry(t, [ent[t] EXCEPT ![name] = Foreign], FALSE)
=============================================================================
