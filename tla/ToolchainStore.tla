--------------------------- MODULE ToolchainStore ---------------------------
(***************************************************************************)
(* The managed store of toolchains (aros-cli): prefixes are imported into  *)
(* envelopes or registered, projects select a release, builds take leases, *)
(* and `remove` and `gc` take out imports that nobody uses.                *)
(*                                                                         *)
(* All of them are commands of their own.  Each looks at the store without *)
(* a lock first; a second call with the token of that look applies it.     *)
(* The locks are advisory and never waited for: a command that does not    *)
(* get one ends.  Commands may die or fail at every step; the operating    *)
(* system then frees their locks.  People edit lock files of projects and  *)
(* imported trees.                                                         *)
(***************************************************************************)
EXTENDS FiniteSets, Naturals, Sequences

CONSTANTS
    Imports,     \* what import publishes envelopes of: managed ids
    Release,     \* the release that the manifest of an import claims
    Projects,
    Releases,
    Scenes       \* what the commands do ([op, project, target]), the imports that are there, and a bound
                 \* on how often people edit something: [does, stock, edits]

\* Imports, projects and the store name their locks.
StoreAssumption ==
    /\ Imports \cap Projects = {} /\ "store" \notin Imports \cup Projects
    /\ Release \in [Imports -> Releases]

VARIABLES
    does,        \* what each command does
    pc, seen,    \* where it is, and what the preview that it applies has seen
    holds,       \* the locks that it holds
    there, tree, \* per import: the entries of the envelope, and which tree they are
    stray,       \* an interrupted import has left its staging directory
    lockFile,    \* per project: the lock file, which selects a release
    reference,   \* per project: the lock that the store's reference receipt records
    guards,      \* the projects that have a lock in the store, held or not
    registered,  \* the registrations: payloads of imports, and which tree they were
    leases,      \* the builds that have published a lease; nobody removes one
    journals,    \* the removal journals: an import and what of it was to be removed
    todo, at,    \* what the cleanup that holds the store lock has to remove, and removes
    edits        \* how often people may still edit something

vars == <<does, pc, seen, holds, there, tree, stray, lockFile, reference, guards, registered, leases,
          journals, todo, at, edits>>

Commands == DOMAIN does
Op(c) == does[c].op
Cleanup == {"remove", "gc"}
None == "none"

\* A lock file or a receipt of it: its release, and whether people wrote it.
NoLock == [release |-> None, edited |-> FALSE]
Selected(r) == [release |-> r, edited |-> FALSE]
Edited(r) == [release |-> r, edited |-> TRUE]

\* The entries of an envelope, in the order of their names, which is the order of removal: the marker
\* and the receipt, the tools of the payload and its manifest, and the directory itself.
OrderOfCreation == <<"tools", "manifest", "receipt", "marker", "directory">>
Order == <<"marker", "receipt", "tools", "manifest", "directory">>
Whole == {"marker", "receipt", "manifest", "tools", "directory"}

ToolchainTypeOK ==
    /\ does \in {s.does : s \in Scenes}
    /\ holds \in [Commands -> SUBSET (Imports \cup Projects \cup {"store"})]
    /\ there \in [Imports -> SUBSET Whole]
    /\ tree \in [Imports -> Nat]
    /\ \A p \in Projects : {lockFile[p].release, reference[p].release} \subseteq Releases \cup {None}
    /\ stray \in BOOLEAN /\ guards \subseteq Projects /\ leases \subseteq Commands
    /\ todo \subseteq Imports /\ at \in Imports \cup {None} /\ edits \in Nat

StoreInit ==
    /\ \E s \in Scenes :
          /\ does = s.does /\ edits = s.edits
          /\ there = [i \in Imports |-> IF i \in s.stock THEN Whole ELSE {}]
    /\ pc = [c \in Commands |-> "start"] /\ seen = [c \in Commands |-> None]
    /\ holds = [c \in Commands |-> {}]
    /\ tree = [i \in Imports |-> 0] /\ stray = FALSE
    /\ lockFile \in [Projects -> {NoLock} \cup {Edited(r) : r \in Releases}]
    /\ reference \in {f \in [Projects -> {NoLock} \cup {Edited(r) : r \in Releases}] :
                        \A p \in Projects : f[p] \in {NoLock, lockFile[p]}}
    /\ guards = {p \in Projects : reference[p] # NoLock}
    /\ registered = {} /\ leases = {} /\ journals = {}
    /\ todo = {} /\ at = None

-----------------------------------------------------------------------------
(***************************************************************************)
(* What a cleanup reads.                                                   *)
(***************************************************************************)
Free(l, c) == \A d \in Commands \ {c} : l \notin holds[d]
Live(c) == pc[c] = "building"
Present == {i \in Imports : there[i] # {}}
Known == {p \in Projects : reference[p] # NoLock}
Snapshot(i) == [entries |-> there[i], tree |-> tree[i]]

\* managed_import_envelope_for_payload: the marker, the receipt and the manifest; not the tree.
Owned(i) == {"marker", "receipt", "manifest"} \subseteq there[i]

\* A guard without a reference is let through if any lease names its project.
GuardsExplained == guards \subseteq Known \cup {does[c].project : c \in leases}

\* A journal is a finished one only if its import is not there.
ControlsReadable ==
    /\ \A j \in journals : there[j.import] = {}
    /\ \A p \in Known : reference[p] = lockFile[p]
    /\ GuardsExplained

\* inspect_owned_imports: whatever is unknown or incomplete blocks all cleanup.
ImportsReadable ==
    /\ ~stray /\ \A c \in Commands : pc[c] # "staged"
    /\ \A i \in Present : Owned(i)

Inspectable == ControlsReadable /\ ImportsReadable

Controls ==
    [references |-> reference, registrations |-> registered, leases |-> leases,
     live |-> {c \in leases : Live(c)}]

\* What the apply token of a cleanup is made of.
Plan == [imports |-> [i \in Imports |-> Snapshot(i)], controls |-> Controls]

BlockedByUse(i) ==
    \/ \E p \in Known : reference[p].release = Release[i]
    \/ \E c \in leases : Live(c) /\ does[c].target = i

Blocked(i) ==
    \/ \E p \in Known : reference[p].release = Release[i]
    \/ \E r \in registered : r.import = i
    \/ \E c \in leases : Live(c) /\ does[c].target = i

\* inspect_selection: the lock differs from the candidate in its release, and from the reference not at all.
Selectable(c) ==
    LET p == does[c].project IN
    /\ lockFile[p].release # does[c].target
    /\ reference[p] # NoLock => reference[p] = lockFile[p]

\* Whether what a command looks at first lets it go on, and what it sees there.
Acceptable(c) ==
    CASE Op(c) = "import" -> TRUE
      [] Op(c) \in {"register", "build"} -> there[does[c].target] = Whole
      [] Op(c) = "select" -> Selectable(c)
      [] Op(c) = "locked" -> lockFile[does[c].project] # NoLock
      [] Op(c) = "remove" -> Inspectable /\ does[c].target \in Present
      [] Op(c) = "gc" -> Inspectable

View(c) ==
    CASE Op(c) \in {"import", "build"} -> None
      [] Op(c) = "register" -> tree[does[c].target]
      [] Op(c) = "select" -> [lock |-> lockFile[does[c].project], reference |-> reference[does[c].project]]
      [] Op(c) = "locked" -> lockFile[does[c].project].release
      [] OTHER -> Plan

-----------------------------------------------------------------------------
(***************************************************************************)
(* The commands.                                                           *)
(***************************************************************************)
To(c, p) == pc' = [pc EXCEPT ![c] = p]
Take(c, locks) == holds' = [holds EXCEPT ![c] = @ \cup locks]
End(c, p) == To(c, p) /\ holds' = [holds EXCEPT ![c] = {}]

store == <<there, tree, stray, lockFile, reference, guards, registered, leases, journals>>
work == <<todo, at>>

\* The preview, or the resolution of the toolchain of a build.
Look(c) ==
    /\ pc[c] = "start"
    /\ \/ Acceptable(c) /\ seen' = [seen EXCEPT ![c] = View(c)] /\ To(c, "looked") /\ UNCHANGED holds
       \/ ~Acceptable(c) /\ End(c, "refused") /\ UNCHANGED seen
    /\ UNCHANGED <<store, work>>

\* The command that applies a token looks again.
Confirm(c) ==
    /\ pc[c] = "looked"
    /\ \/ Op(c) \in {"build", "locked"} /\ To(c, "confirmed") /\ UNCHANGED holds
       \/ /\ Op(c) \notin {"build", "locked"}
          /\ IF Acceptable(c) /\ View(c) = seen[c]
             THEN To(c, "confirmed") /\ UNCHANGED holds
             ELSE End(c, "refused")
    /\ UNCHANGED <<seen, store, work>>

LockStore(c) ==
    /\ pc[c] = "confirmed"
    /\ \/ Free("store", c) /\ Take(c, {"store"}) /\ To(c, "locked")
       \/ ~Free("store", c) /\ End(c, "refused")
    /\ UNCHANGED <<seen, store, work>>

Stage(c) ==
    /\ pc[c] = "locked" /\ Op(c) = "import" /\ To(c, "staged")
    /\ UNCHANGED <<seen, holds, store, work>>

\* The publication of the staged envelope replaces nothing.
Publish(c) ==
    LET i == does[c].target IN
    /\ pc[c] = "staged"
    /\ \/ /\ there[i] = {}
          /\ there' = [there EXCEPT ![i] = Whole] /\ tree' = [tree EXCEPT ![i] = @ + 1]
          /\ End(c, "done")
       \/ there[i] # {} /\ End(c, "failed") /\ UNCHANGED <<there, tree>>
    /\ UNCHANGED <<seen, stray, lockFile, reference, guards, registered, leases, journals, work>>

\* The receipt tells what was seen; whether the source is still there is not asked.
Register(c) ==
    LET r == [import |-> does[c].target, tree |-> seen[c]] IN
    /\ pc[c] = "locked" /\ Op(c) = "register"
    /\ \/ r \notin registered /\ registered' = registered \cup {r} /\ End(c, "done")
       \/ r \in registered /\ End(c, "failed") /\ UNCHANGED registered
    /\ UNCHANGED <<seen, there, tree, stray, lockFile, reference, guards, leases, journals, work>>

\* A selection or a build with the locked release; the file of the guard stays.
LockProject(c) ==
    LET p == does[c].project IN
    /\ pc[c] = "locked" /\ Op(c) \in {"select", "locked"}
    /\ guards' = guards \cup {p}
    /\ \/ Free(p, c) /\ Take(c, {p}) /\ To(c, "guarded")
       \/ ~Free(p, c) /\ End(c, "refused")
    /\ UNCHANGED <<seen, there, tree, stray, lockFile, reference, registered, leases, journals, work>>

ConfirmSelection(c) ==
    /\ pc[c] = "guarded" /\ Op(c) = "select"
    /\ IF Selectable(c) /\ View(c) = seen[c] THEN To(c, "selecting") /\ UNCHANGED holds ELSE End(c, "refused")
    /\ UNCHANGED <<seen, store, work>>

\* commit_plan: the lock file is replaced if it is the one that was seen ...
PublishLock(c) ==
    LET p == does[c].project IN
    /\ pc[c] = "selecting"
    /\ \/ /\ lockFile[p] = seen[c].lock
          /\ lockFile' = [lockFile EXCEPT ![p] = Selected(does[c].target)]
          /\ To(c, "selected") /\ UNCHANGED holds
       \/ lockFile[p] # seen[c].lock /\ End(c, "failed") /\ UNCHANGED lockFile
    /\ UNCHANGED <<seen, there, tree, stray, reference, guards, registered, leases, journals, work>>

\* ... and the reference follows if the lock file can be read back.
PublishReference(c) ==
    LET p == does[c].project IN
    /\ pc[c] = "selected"
    /\ \/ /\ lockFile[p] = Selected(does[c].target)
          /\ reference' = [reference EXCEPT ![p] = lockFile[p]]
          /\ End(c, "done")
       \/ lockFile[p] # Selected(does[c].target) /\ End(c, "failed") /\ UNCHANGED reference
    /\ UNCHANGED <<seen, there, tree, stray, lockFile, guards, registered, leases, journals, work>>

\* A build keeps its other locks when it gives the lock of the store back.
Build(c, locks) == To(c, "building") /\ holds' = [holds EXCEPT ![c] = locks]

\* ensure_project_reference_for_locked_build: a reference is added, and never replaced.
EnsureReference(c) ==
    LET p == does[c].project IN
    /\ pc[c] = "guarded" /\ Op(c) = "locked"
    /\ \/ /\ lockFile[p].release = seen[c] /\ reference[p] \in {NoLock, lockFile[p]}
          /\ reference' = [reference EXCEPT ![p] = lockFile[p]]
          /\ Build(c, {p})
       \/ /\ lockFile[p].release # seen[c] \/ reference[p] \notin {NoLock, lockFile[p]}
          /\ End(c, "refused") /\ UNCHANGED reference
    /\ UNCHANGED <<seen, there, tree, stray, lockFile, guards, registered, leases, journals, work>>

\* A build with an import takes the lock of its envelope and the one of a new lease.
LockEnvelope(c) ==
    LET i == does[c].target IN
    /\ pc[c] = "locked" /\ Op(c) = "build"
    /\ IF Owned(i) /\ Free(i, c) THEN Take(c, {i}) /\ To(c, "leasing") ELSE End(c, "refused")
    /\ UNCHANGED <<seen, store, work>>

PublishLease(c) ==
    /\ pc[c] = "leasing"
    /\ leases' = leases \cup {c} /\ Build(c, {does[c].target})
    /\ UNCHANGED <<seen, there, tree, stray, lockFile, reference, guards, registered, journals, work>>

EndBuild(c) == pc[c] = "building" /\ End(c, "done") /\ UNCHANGED <<seen, store, work>>

-----------------------------------------------------------------------------
(***************************************************************************)
(* remove and gc.                                                          *)
(***************************************************************************)
\* apply_lifecycle: with the locks of all known projects, the store must be as the token says.
Approve(c) ==
    /\ pc[c] = "locked" /\ Op(c) \in Cleanup
    /\ IF /\ \A p \in Known : Free(p, c)
          /\ Acceptable(c) /\ Plan = seen[c]
          /\ Op(c) = "remove" => ~Blocked(does[c].target)
       THEN /\ Take(c, Known) /\ To(c, "removing")
            /\ todo' = IF Op(c) = "remove" THEN {does[c].target} ELSE {i \in Present : ~Blocked(i)}
       ELSE End(c, "refused") /\ UNCHANGED todo
    /\ UNCHANGED <<seen, store, at>>

\* With the lock of the envelope, validate_controls_unchanged reads all but the imports again.
Check(c) ==
    /\ pc[c] = "removing"
    /\ \E i \in todo :
          IF Free(i, c) /\ ControlsReadable /\ Controls = seen[c].controls
          THEN Take(c, {i}) /\ To(c, "checked") /\ at' = i
          ELSE End(c, "failed") /\ UNCHANGED at
    /\ UNCHANGED <<seen, store, todo>>

\* remove_candidate: the tree must be the previewed one, and its journal is new.
Journal(c) ==
    LET j == [import |-> at, snapshot |-> Snapshot(at)] IN
    /\ pc[c] = "checked"
    /\ IF Snapshot(at) = seen[c].imports[at] /\ j \notin journals
       THEN journals' = journals \cup {j} /\ To(c, "journaled") /\ UNCHANGED holds
       ELSE End(c, "failed") /\ UNCHANGED journals
    /\ UNCHANGED <<seen, there, tree, stray, lockFile, reference, guards, registered, leases, work>>

\* remove_tree_from_snapshot_nofollow: compares the whole tree first, and each entry when it removes it.
Delete(c) ==
    LET k == CHOOSE n \in DOMAIN Order :
                Order[n] \in there[at] /\ \A m \in 1..(n - 1) : Order[m] \notin there[at]
        changed == tree[at] # seen[c].imports[at].tree
    IN /\ pc[c] \in {"journaled", "deleting"}
       /\ IF changed /\ (pc[c] = "journaled" \/ Order[k] = "tools")
          THEN End(c, "failed") /\ UNCHANGED <<there, work>>
          ELSE /\ there' = [there EXCEPT ![at] = @ \ {Order[k]}]
               /\ IF there'[at] = {}
                  THEN /\ holds' = [holds EXCEPT ![c] = @ \ {at}] /\ To(c, "removing")
                       /\ todo' = todo \ {at} /\ at' = None
                  ELSE To(c, "deleting") /\ UNCHANGED <<holds, work>>
       /\ UNCHANGED <<seen, tree, stray, lockFile, reference, guards, registered, leases, journals>>

Finish(c) ==
    /\ pc[c] = "removing" /\ todo = {} /\ End(c, "done")
    /\ UNCHANGED <<seen, store, work>>

-----------------------------------------------------------------------------
\* A call fails, or the command dies; an import that dies leaves what it has staged.
Stop(c) ==
    /\ pc[c] \notin {"start", "done", "refused", "failed", "crashed"}
    /\ \/ End(c, "failed") /\ UNCHANGED stray
       \/ End(c, "crashed") /\ stray' = (stray \/ pc[c] = "staged")
    /\ UNCHANGED <<seen, there, tree, lockFile, reference, guards, registered, leases, journals, work>>

Command(c) ==
    \/ Look(c) \/ Confirm(c) \/ LockStore(c) \/ Stage(c) \/ Publish(c) \/ Register(c)
    \/ LockProject(c) \/ ConfirmSelection(c) \/ PublishLock(c) \/ PublishReference(c)
    \/ EnsureReference(c) \/ LockEnvelope(c) \/ PublishLease(c) \/ EndBuild(c)
    \/ Approve(c) \/ Check(c) \/ Journal(c) \/ Delete(c) \/ Finish(c) \/ Stop(c)

\* Somebody writes another lock file, as a checkout of another branch does.
EditLock(p) ==
    /\ edits > 0 /\ edits' = edits - 1
    /\ \E r \in Releases : Edited(r) # lockFile[p] /\ lockFile' = [lockFile EXCEPT ![p] = Edited(r)]
    /\ UNCHANGED <<pc, seen, holds, there, tree, stray, reference, guards, registered, leases, journals, work>>

\* Somebody changes a file of an imported tree.
Touch(i) ==
    /\ edits > 0 /\ edits' = edits - 1
    /\ "tools" \in there[i] /\ tree' = [tree EXCEPT ![i] = @ + 1]
    /\ UNCHANGED <<pc, seen, holds, there, stray, lockFile, reference, guards, registered, leases, journals,
                   work>>

StoreNext ==
    /\ UNCHANGED does
    /\ \/ \E c \in Commands : Command(c) /\ UNCHANGED edits
       \/ \E p \in Projects : EditLock(p)
       \/ \E i \in Imports : Touch(i)

StoreSpec == StoreInit /\ [][StoreNext]_vars

-----------------------------------------------------------------------------
Begins(i) == there[i] = Whole /\ there'[i] # Whole

(***************************************************************************)
(* RemovesUnused: when remove or gc begins to remove an import, it is the  *)
(* tree that the preview has shown, and at that time no build works with   *)
(* it under a lease, nobody has registered it, and no project whose        *)
(* reference is up to date selects its release, whatever was built,        *)
(* registered, selected, imported or edited since the preview.             *)
(***************************************************************************)
RemovesUnused ==
    [][\A i \in Imports : Begins(i) =>
          /\ \E c \in Commands : pc[c] = "journaled" /\ seen[c].imports[i] = Snapshot(i)
          /\ ~\E c \in Commands : Op(c) = "build" /\ Live(c) /\ does[c].target = i
          /\ ~\E r \in registered : r.import = i
          /\ \A p \in Projects : reference[p] = lockFile[p] => lockFile[p].release # Release[i]]_vars

(***************************************************************************)
(* LeasedWhole: a build that has its lease works with a whole import, even *)
(* if a removal has begun and stopped between the resolution of the        *)
(* toolchain and the lease: acquire_for_build does not measure the tree    *)
(* again, but the completion marker is the first entry that a removal      *)
(* takes away.                                                             *)
(***************************************************************************)
LeasedWhole == \A c \in Commands : Op(c) = "build" /\ Live(c) => there[does[c].target] = Whole

(***************************************************************************)
(* SelectRepairs: a selection of another release is not refused because of *)
(* what an earlier one has left, once that has ended, as                   *)
(* ensure_project_reference_for_locked_build tells its user.               *)
(***************************************************************************)
SelectRepairs ==
    [][\A c \in Commands :
          /\ Op(c) = "select" /\ pc[c] = "start" /\ pc'[c] = "refused"
          /\ ~lockFile[does[c].project].edited /\ Free(does[c].project, c)
          => lockFile[does[c].project].release = does[c].target]_vars

(***************************************************************************)
(* JournalsOfTheStopped: the journal of an import that is there is the     *)
(* journal of a removal that is under way or has not ended well; a         *)
(* finished one is evidence only.                                          *)
(***************************************************************************)
JournalsOfTheStopped ==
    (\E j \in journals : there[j.import] # {}) =>
        \E c \in Commands : Op(c) \in Cleanup /\ pc[c] \in {"journaled", "deleting", "failed", "crashed"}
=============================================================================
