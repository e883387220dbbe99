------------------------------- MODULE FlatTree -------------------------------
(***************************************************************************)
(* publish_flat_tree_noclobber: a directory of plain files appears under   *)
(* its name completely or not at all.  The files are written to            *)
(* <stage root>/payload beside an owner marker, and payload is renamed to  *)
(* the destination.  Whoever publishes next first recovers what an earlier *)
(* call has left (recover_flat_tree_stage).                                *)
(*                                                                         *)
(* The file system is assumed to order its metadata: a power loss takes    *)
(* back the latest changes since the last fsync, and a rename between two  *)
(* directories is one change.                                              *)
(***************************************************************************)
EXTENDS Naturals, FiniteSets

CONSTANTS
    M,          \* number of members, in the order they are written
    Gens,       \* the different contents that callers publish
    NoDir,      \* the directory is absent
    ForeignTree, \* a directory that somebody else made
    Envs        \* which of "fault", "crash", "powerloss", "foreign" may happen together

Member == 1..M
Absent == 0
Torn == 1

Directory == [Member -> Gens \cup {Absent, Torn}]

ASSUME FlatTreeAssumption ==
    /\ M \in Nat \ {0}
    /\ Gens \subseteq Nat \ {0, 1}
    /\ UNION Envs \subseteq {"fault", "crash", "powerloss", "foreign"}
    /\ NoDir # ForeignTree /\ NoDir \notin Directory /\ ForeignTree \notin Directory

VARIABLES
    fs,         \* the destination, and the stage root with its marker and payload
    survivors,  \* what a power loss may leave of fs
    env,        \* what may still happen
    phase,      \* where the call is that holds the lock; "idle": nobody has it
    gen,        \* what the call publishes
    idx,        \* the member that it writes next
    cont,       \* what the removal of the stage root serves
    returned    \* what the last call returned, and the contents it published

treeVars == <<fs, survivors, env, phase, gen, idx, cont, returned>>

\* Every member of the payload has its name in the directory.
HasMembers(f) == f.payload # NoDir /\ \A n \in Member : f.payload[n] # Absent

EmptyTree == [n \in Member |-> Absent]

Whole(g) == [n \in Member |-> g]

\* struct TreeStageMarker: of its fields the contents of the members matter.
FileSystem ==
    [dest    : Directory \cup {NoDir, ForeignTree},
     root    : {"absent", "there"},
     marker  : Gens \cup {Absent, Torn},
     payload : Directory \cup {NoDir}]

Purposes == {"entry", "abort", "finish"}

(***************************************************************************)
(* TreeTypeOK: every variable has its type.                                *)
(***************************************************************************)
TreeTypeOK ==
    /\ fs \in FileSystem
    /\ survivors \subseteq FileSystem /\ fs \in survivors
    /\ env \subseteq UNION Envs
    /\ phase \in {"idle", "recover", "check", "marker", "payload", "member", "rename", "sync",
               "completed", "rmMembers", "rmPayload", "rmMarker", "rmRoot"}
    /\ gen \in Gens /\ idx \in 1..M + 1 /\ cont \in Purposes
    /\ returned \in [kind : {"none", "ok", "exists", "failed", "incomplete", "uncertain"},
                   gen : Gens]

Fresh ==
    [dest |-> NoDir, root |-> "absent", marker |-> Absent, payload |-> NoDir]

TreeInit ==
    /\ fs = Fresh /\ survivors = {Fresh} /\ env \in Envs
    /\ phase = "idle" /\ gen \in Gens /\ idx = 1 /\ cont = "entry"
    /\ returned = [kind |-> "none", gen |-> gen]

-----------------------------------------------------------------------------
Put(f, synced) ==
    /\ fs' = f
    /\ survivors' = IF synced THEN {f} ELSE survivors \cup {f}
    /\ env' = env

Keep == UNCHANGED <<fs, survivors, env>>

Faulty == "fault" \in env

Proceed(step) == phase' = step /\ UNCHANGED <<gen, idx, cont, returned>>

Return(kind) ==
    /\ phase' = "idle" /\ idx' = 1 /\ cont' = "entry"
    /\ returned' = [kind |-> kind, gen |-> gen]
    /\ UNCHANGED gen

\* A call fails and "onError" follows, or the process dies here.
Failing(onError) ==
    \/ Faulty /\ onError
    \/ "crash" \in env /\ Return("none")

\* A change and its fsync: done and synced, or not done or not synced.
Change(f, onOk, onError) ==
    \/ Put(f, TRUE) /\ onOk
    \/ (Keep \/ Put(f, FALSE)) /\ Failing(onError)

\* publish_flat_tree_noclobber takes the lock of the destination's journal.
PublishTree ==
    /\ phase = "idle"
    /\ gen' \in Gens
    /\ phase' = "recover" /\ cont' = "entry" /\ idx' = 1
    /\ returned' = [kind |-> "none", gen |-> gen']
    /\ Keep

-----------------------------------------------------------------------------
(***************************************************************************)
(* recover_flat_tree_stage.  An error ends the call: on entry as the error *)
(* of the recovery, and after a failed publication together with it.       *)
(***************************************************************************)
RecoveryFails == Return(IF cont = "entry" THEN "failed" ELSE "incomplete")

Recovered ==
    \/ cont = "entry" /\ Proceed("check")
    \/ cont = "abort" /\ Return("failed")
    \/ cont = "finish" /\ Return("ok")

Recover ==
    /\ phase = "recover" /\ Keep
    /\ \/ fs.root = "absent" /\ Recovered
       \/ fs.root = "there" /\ fs.marker = Absent /\ fs.payload = NoDir /\ Proceed("rmRoot")
       \/ fs.root = "there" /\ fs.marker = Torn /\ fs.payload = NoDir /\ Proceed("rmMarker")
       \/ /\ fs.root = "there" /\ fs.marker \in Gens
          /\ \/ fs.payload # NoDir /\ fs.dest = NoDir /\ Proceed("rmMembers")
             \/ fs.payload # NoDir /\ fs.dest # NoDir /\ Return("incomplete")
             \/ fs.payload = NoDir /\ fs.dest \in {NoDir, Whole(fs.marker)} /\ Proceed("rmMarker")
             \/ /\ fs.payload = NoDir /\ fs.dest \notin {NoDir, Whole(fs.marker)}
                /\ Return("incomplete")
       \/ Faulty /\ RecoveryFails

\* remove_owned_flat_payload
RemoveMember ==
    /\ phase = "rmMembers"
    /\ \E n \in Member :
          /\ fs.payload[n] # Absent
          /\ Change([fs EXCEPT !.payload[n] = Absent], Proceed("rmMembers"), RecoveryFails)

RemovePayload ==
    /\ phase = "rmMembers" /\ fs.payload = EmptyTree
    /\ \/ Put([fs EXCEPT !.payload = NoDir], FALSE) /\ Proceed("rmMarker")
       \/ Keep /\ Failing(RecoveryFails)

RemoveMarker ==
    /\ phase = "rmMarker"
    /\ Change([fs EXCEPT !.marker = Absent], Proceed("rmRoot"), RecoveryFails)

\* remove_empty_directory_exact
RemoveStageRoot ==
    /\ phase = "rmRoot"
    /\ Change([fs EXCEPT !.root = "absent"], Recovered, RecoveryFails)

-----------------------------------------------------------------------------
\* The destination must not exist; then the stage root is made.
Check ==
    /\ phase = "check"
    /\ \/ fs.dest # NoDir /\ Keep /\ Return("exists")
       \/ fs.dest = NoDir /\ Change([fs EXCEPT !.root = "there"], Proceed("marker"), Return("failed"))

(***************************************************************************)
(* write_new_file of owner.json removes what it could not complete; then   *)
(* cleanup_empty_tree_root removes the root, and refuses if it is not      *)
(* empty.                                                                  *)
(***************************************************************************)
WriteMarker ==
    /\ phase = "marker"
    /\ \/ Put([fs EXCEPT !.marker = gen], TRUE) /\ Proceed("payload")
       \/ /\ Faulty /\ Keep
          /\ phase' = "rmRoot" /\ cont' = "abort" /\ UNCHANGED <<gen, idx, returned>>
       \/ /\ \E w \in {Torn, gen} : Put([fs EXCEPT !.marker = w], FALSE)
          /\ Failing(Return("incomplete"))

MakePayload ==
    /\ phase = "payload"
    /\ Change([fs EXCEPT !.payload = EmptyTree], Proceed("member"), Return("failed"))

(***************************************************************************)
(* Errors from here on: if the destination is the payload after all, the   *)
(* outcome is uncertain and everything stays; otherwise the stage is       *)
(* recovered at once.                                                      *)
(***************************************************************************)
Abort ==
    /\ phase' = "recover" /\ cont' = "abort" /\ UNCHANGED <<gen, idx, returned>>

\* A bug: the member is not synced.
WriteMemberUnsynced ==
    LET f(w) == [fs EXCEPT !.payload[idx] = w]
    IN  /\ phase = "member" /\ idx \in Member
        /\ fs' = f(gen) /\ survivors' = {f(Torn), f(gen)} /\ env' = env
        /\ idx' = idx + 1 /\ UNCHANGED <<phase, gen, cont, returned>>

\* A member is created, written and synced before the next one.
WriteMember ==
    LET f(w) == [fs EXCEPT !.payload[idx] = w]
    IN  /\ phase = "member" /\ idx \in Member
        /\ \/ Put(f(gen), TRUE) /\ idx' = idx + 1 /\ UNCHANGED <<phase, gen, cont, returned>>
           \/ /\ Keep \/ \E w \in {Torn, gen} : Put(f(w), FALSE)
              /\ Failing(Abort)

\* verify_flat_tree_members, and the sync of the payload directory, which makes
\* the names durable and not the contents.
VerifyMembers ==
    /\ phase = "member" /\ idx = M + 1
    /\ \/ /\ fs.payload = Whole(gen) /\ Proceed("rename")
          /\ survivors' = {f \in survivors : HasMembers(f)} /\ UNCHANGED <<fs, env>>
       \/ Keep /\ Failing(Abort)

Moved(f) == [f EXCEPT !.dest = f.payload, !.payload = NoDir]

MovePayload ==
    /\ fs' = Moved(fs)
    /\ survivors' = survivors \cup {Moved(f) : f \in {d \in survivors : HasMembers(d)}}
    /\ env' = env

\* renameat_with NOREPLACE
Rename ==
    /\ phase = "rename"
    /\ \/ fs.dest = NoDir /\ MovePayload /\ Proceed("sync")
       \/ Keep /\ (fs.dest # NoDir \/ Faulty) /\ Abort

\* A bug: a failed sync is taken for a failed rename.
SyncOrAbort ==
    /\ phase = "sync"
    /\ \/ fs.dest = Whole(gen) /\ Put(fs, TRUE) /\ Proceed("completed")
       \/ Keep /\ Faulty /\ Abort

\* The parent is synced, and the destination must be the payload.
Sync ==
    /\ phase = "sync"
    /\ \/ fs.dest = Whole(gen) /\ Put(fs, TRUE) /\ Proceed("completed")
       \/ fs.dest = Whole(gen) /\ Keep /\ Faulty /\ Return("uncertain")
       \/ fs.dest # Whole(gen) /\ Keep /\ Abort

\* cleanup_completed_tree_root
CleanCompleted ==
    /\ phase = "completed" /\ Keep
    /\ \/ phase' = "rmMarker" /\ cont' = "finish" /\ UNCHANGED <<gen, idx, returned>>
       \/ Faulty /\ Return("incomplete")

-----------------------------------------------------------------------------
TreeCrash == "crash" \in env /\ phase # "idle" /\ Keep /\ Return("none")

TreePowerLoss ==
    /\ "powerloss" \in env
    /\ \E f \in survivors : fs' = f /\ survivors' = {f}
    /\ UNCHANGED env /\ Return("none")

\* Somebody makes or deletes the destination directory.
SomebodyElse ==
    /\ "foreign" \in env
    /\ Put([fs EXCEPT !.dest = IF @ = NoDir THEN ForeignTree ELSE NoDir], FALSE)
    /\ UNCHANGED <<phase, gen, idx, cont, returned>>

CallStep ==
    \/ PublishTree \/ Recover \/ RemoveMember \/ RemovePayload \/ RemoveMarker \/ RemoveStageRoot
    \/ Check \/ WriteMarker \/ MakePayload \/ WriteMember \/ VerifyMembers
    \/ Rename \/ Sync \/ CleanCompleted

TreeNext == CallStep \/ TreeCrash \/ TreePowerLoss \/ SomebodyElse

TreeSpec == TreeInit /\ [][TreeNext]_treeVars

-----------------------------------------------------------------------------
(***************************************************************************)
(* NeverPartial: "a crash can expose either no destination or the complete *)
(* tree, never a partially extracted package" (publish_flat_tree_noclobber)*)
(* at every moment and whatever a power loss leaves.                       *)
(***************************************************************************)
NeverPartial ==
    \A f \in survivors : f.dest \in {NoDir, ForeignTree} \cup {Whole(g) : g \in Gens}

(***************************************************************************)
(* TreeOutcome: what the call returned is so.  Ok: its tree is there, also *)
(* after a power loss, and the stage is gone (unless somebody deleted the  *)
(* destination meanwhile).  Existing: the stage is gone.  A plain failure  *)
(* leaves no destination of this call.                                     *)
(***************************************************************************)
TreeOutcome ==
    [][phase # "idle" /\ phase' = "idle" =>
        /\ returned'.kind = "ok" =>
              \A f \in survivors' : /\ f.dest = Whole(gen) \/ "foreign" \in env
                                    /\ f.root = "absent"
        /\ returned'.kind = "exists" => fs'.root = "absent" /\ fs'.dest # NoDir
        /\ returned'.kind = "uncertain" => fs'.dest = Whole(gen) /\ fs'.marker = gen
        /\ returned'.kind = "failed" /\ fs'.dest = Whole(gen) => cont = "entry"]_treeVars

-----------------------------------------------------------------------------
CalmDown ==
    /\ env \ {"foreign"} # {} /\ env' = env \cap {"foreign"}
    /\ UNCHANGED <<fs, survivors, phase, gen, idx, cont, returned>>

TreeLiveSpec ==
    /\ TreeInit /\ [][TreeNext \/ CalmDown]_treeVars
    /\ WF_treeVars(CallStep)

(***************************************************************************)
(* TreeAppears: whatever was interrupted, further calls publish a complete *)
(* tree and clean the stage once nothing disturbs them any more.           *)
(***************************************************************************)
TreeAppears == env = {} ~> fs.root = "absent" /\ \E g \in Gens : fs.dest = Whole(g)
=============================================================================
