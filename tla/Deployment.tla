------------------------------ MODULE Deployment ------------------------------
(***************************************************************************)
(* aros board deploy (publish in aros-board/src/deploy.rs): copies the     *)
(* artifacts to a stage directory beside the destination, publishes them   *)
(* there or exchanges them with the previous deployment, and removes the   *)
(* stage or the previous deployment.  Composed with PreparedTree, where    *)
(* the publication itself is.                                              *)
(***************************************************************************)
EXTENDS PreparedTree

DeploySteps ==
    Locked \cup {"idle", "copy", "measure", "managed", "publish", "exchange", "published", "exchanged",
                 "uncertain", "plain", "unread", "cleanup", "rmStage", "rmPrevious"}

(***************************************************************************)
(* DeployTypeOK: every variable has its type.                              *)
(***************************************************************************)
DeployTypeOK ==
    /\ bind \in [Name -> Tree \cup {NoTree}]
    /\ bind \in disk /\ disk \subseteq [Name -> Tree \cup {NoTree}]
    /\ content \in [Tree -> 0..MaxVersion]
    /\ synced \subseteq Tree
    /\ moves \in 0..MaxMoves /\ calls \in 0..MaxCalls
    /\ pc \in [Proc -> DeploySteps]
    /\ my \in [Proc -> 0..MaxCalls]
    /\ snap \in [Proc -> Measurement] /\ stage \in [Proc -> Measurement]
    /\ seen \in [Proc -> 0..MaxVersion]
    /\ result \in [Proc -> {"none", "Committed", "RolledBack", "Indeterminate"}]

DeployInit ==
    /\ bind \in {[n \in Name |-> IF n = Dest THEN t ELSE NoTree] : t \in {NoTree, 0, Stranger}}
    /\ disk = {bind}
    /\ content = [t \in Tree |-> IF t \in Call THEN Gone ELSE Built]
    /\ synced = {0, Stranger} /\ moves = 0 /\ calls = 0
    /\ pc = [p \in Proc |-> "idle"] /\ my = [p \in Proc |-> 0]
    /\ snap = [p \in Proc |-> Nothing] /\ stage = [p \in Proc |-> Nothing]
    /\ seen = [p \in Proc |-> Gone] /\ result = [p \in Proc |-> "none"]

-----------------------------------------------------------------------------
\* The call ends; what it knew is forgotten.
Finish(p, kind) ==
    /\ pc' = [pc EXCEPT ![p] = "idle"]
    /\ my' = [my EXCEPT ![p] = 0]
    /\ snap' = [snap EXCEPT ![p] = Nothing]
    /\ stage' = [stage EXCEPT ![p] = Nothing]
    /\ seen' = [seen EXCEPT ![p] = Gone]
    /\ result' = [result EXCEPT ![p] = kind]
    /\ UNCHANGED calls

\* create_unique_directory_nofollow(parent, ".aros-board-stage")
Begin(p) ==
    LET c == calls + 1
    IN  /\ At(p, "idle") /\ c \in Call
        /\ calls' = c /\ my' = [my EXCEPT ![p] = c]
        /\ Bind([bind EXCEPT ![c] = c], FALSE)
        /\ content' = [content EXCEPT ![c] = Partial]
        /\ result' = [result EXCEPT ![p] = "none"]
        /\ Goto(p, "copy")
        /\ UNCHANGED <<synced, moves, snap, stage, seen>>

\* copy_tree_from_snapshot_nofollow and the deployment marker.
Copy(p) ==
    /\ At(p, "copy")
    /\ \/ content' = [content EXCEPT ![my[p]] = Built] /\ Goto(p, "measure")
       \/ Fault /\ UNCHANGED content /\ Goto(p, "plain")
    /\ UNCHANGED <<bind, disk, synced, moves, calls, my, snap, stage, seen, result>>

MeasureDestination(p) ==
    /\ At(p, "measure")
    /\ \/ /\ snap' = [snap EXCEPT ![p] = Version(bind[Dest])]
          /\ Goto(p, IF bind[Dest] = NoTree THEN "publish" ELSE "managed")
       \/ Fault /\ Goto(p, "plain") /\ UNCHANGED snap
    /\ UNCHANGED <<fsVars, calls, my, stage, seen, result>>

\* ensure_managed_destination: the tree that is there now has our marker.
EnsureManaged(p) ==
    /\ At(p, "managed")
    /\ \/ bind[Dest] \notin {NoTree, Stranger} /\ Goto(p, "exchange")
       \/ (bind[Dest] \in {NoTree, Stranger} \/ Fault) /\ Goto(p, "plain")
    /\ UNCHANGED <<fsVars, calls, my, snap, stage, seen, result>>

Published(p) == At(p, "published") /\ UNCHANGED fsVars /\ Finish(p, "Committed")

\* A bug: an uncertain outcome is cleaned up like any other error.
UncertainCleanedUp(p) ==
    /\ At(p, "uncertain") /\ Goto(p, "plain")
    /\ UNCHANGED <<fsVars, calls, my, snap, stage, seen, result>>

\* must_retain_stage
Uncertain(p) == At(p, "uncertain") /\ UNCHANGED fsVars /\ Finish(p, "Indeterminate")

\* A bug: the removal does not compare the tree with the snapshot.
RemoveAnyPrevious(p) ==
    /\ At(p, "exchanged")
    /\ content' = [content EXCEPT ![bind[my[p]]] = Partial] /\ Goto(p, "rmPrevious")
    /\ UNCHANGED <<bind, disk, synced, moves, calls, my, snap, stage, seen, result>>

(***************************************************************************)
(* remove_tree_from_snapshot_nofollow of the previous deployment, if it is *)
(* what was measured before the exchange.  Any error leaves the rest there.*)
(***************************************************************************)
RemovePrevious(p) ==
    /\ At(p, "exchanged")
    /\ \/ /\ Version(bind[my[p]]) = snap[p]
          /\ content' = [content EXCEPT ![snap[p].tree] = Partial] /\ Goto(p, "rmPrevious")
          /\ UNCHANGED <<calls, my, snap, stage, seen, result>>
       \/ /\ Version(bind[my[p]]) # snap[p] \/ Fault
          /\ UNCHANGED content /\ Finish(p, "Committed")
    /\ UNCHANGED <<bind, disk, synced, moves>>

\* The last part of the removal of a tree, with its fsync.
RemoveRoot(p) ==
    /\ pc[p] \in {"rmPrevious", "rmStage"}
    /\ \/ /\ Bind([bind EXCEPT ![my[p]] = NoTree], TRUE)
          /\ content' = [content EXCEPT ![bind[my[p]]] = Gone]
       \/ Fault /\ UNCHANGED <<bind, disk, content>>
    /\ Finish(p, IF At(p, "rmStage") THEN "RolledBack" ELSE "Committed")
    /\ UNCHANGED <<synced, moves>>

\* remove_staging_tree: measures what is there and removes it.
CleanUp(p) ==
    /\ At(p, "plain") \/ At(p, "unread")
    /\ UNCHANGED fsVars
    /\ \/ /\ bind[my[p]] # NoTree
          /\ stage' = [stage EXCEPT ![p] = Version(bind[my[p]])] /\ Goto(p, "cleanup")
          /\ UNCHANGED <<calls, my, snap, seen, result>>
       \/ (bind[my[p]] = NoTree \/ Fault) /\ Finish(p, "RolledBack")

RemoveStage(p) ==
    /\ At(p, "cleanup")
    /\ \/ /\ Version(bind[my[p]]) = stage[p]
          /\ content' = [content EXCEPT ![stage[p].tree] = Partial] /\ Goto(p, "rmStage")
          /\ UNCHANGED <<calls, my, snap, stage, seen, result>>
       \/ /\ Version(bind[my[p]]) # stage[p] \/ Fault
          /\ UNCHANGED content /\ Finish(p, "RolledBack")
    /\ UNCHANGED <<bind, disk, synced, moves>>

-----------------------------------------------------------------------------
Die(p) ==
    /\ "crash" \in Env /\ pc[p] # "idle"
    /\ UNCHANGED fsVars /\ Finish(p, "none")

\* The names as of some moment since the last sync, and no tree that was not synced.
DeployPowerLoss ==
    /\ "powerloss" \in Env
    /\ \E b \in disk : bind' = b /\ disk' = {b}
    /\ content' = [t \in Tree |-> IF t \in synced \/ content[t] = Gone THEN content[t] ELSE Partial]
    /\ pc' = [p \in Proc |-> "idle"] /\ my' = [p \in Proc |-> 0]
    /\ snap' = [p \in Proc |-> Nothing] /\ stage' = [p \in Proc |-> Nothing]
    /\ seen' = [p \in Proc |-> Gone] /\ result' = [p \in Proc |-> "none"]
    /\ UNCHANGED <<synced, moves, calls>>

Continue(p) ==
    \/ Copy(p) \/ MeasureDestination(p) \/ EnsureManaged(p)
    \/ PublicationStep(p)
    \/ Published(p) \/ Uncertain(p)
    \/ RemovePrevious(p) \/ RemoveRoot(p) \/ CleanUp(p) \/ RemoveStage(p)

DeployNext ==
    \/ \E p \in Proc : Begin(p) \/ Continue(p) \/ Die(p)
    \/ Edit \/ Move \/ DeployPowerLoss

DeploySpec == DeployInit /\ [][DeployNext]_vars

-----------------------------------------------------------------------------
(***************************************************************************)
(* DestinationWhole: whatever deployment is at the destination, now or     *)
(* after a power loss at this moment, is complete and on disk.             *)
(* (sync_prepared_tree before the rename, removal after its fsync)         *)
(***************************************************************************)
DestinationWhole ==
    \A b \in disk :
        b[Dest] # NoTree => content[b[Dest]] >= Built /\ b[Dest] \in synced

(***************************************************************************)
(* RemovesOwn: a tree is removed only by the call that built it, before it *)
(* was published, or by the one that replaced it, in the version that this *)
(* call measured before, never one that somebody edited in between; and a  *)
(* tree without the deployment marker only if somebody moved the           *)
(* destination away and back while the marker was looked for.              *)
(* (must_retain_stage, remove_tree_from_snapshot_nofollow)                 *)
(***************************************************************************)
RemovesOwn ==
    [][\A t \in Tree :
          content[t] >= Built /\ content'[t] = Partial /\ ~DeployPowerLoss =>
             /\ t = Stranger => moves > 1
             /\ \E p \in Proc :
                   \/ t = my[p] /\ \A b \in disk : b[Dest] # t
                   \/ Version(t) = snap[p] /\ At(p, "exchanged")]_vars

(***************************************************************************)
(* DeployOutcome: what publish reports is so.  RolledBack: "The operation  *)
(* did not cross its publication boundary, or rollback was proven          *)
(* complete", so no power loss brings its tree to the destination (unless  *)
(* the look at the published tree itself failed, which is reported so too).*)
(* Committed: when the lock is released its tree is there for good.        *)
(***************************************************************************)
Done == {p \in Proc : pc[p] \in {"published", "exchanged"}}

DeployOutcome ==
    [][\A p \in Proc :
          /\ result[p] = "none" /\ result'[p] = "RolledBack" /\ pc[p] # "unread" =>
                \A b \in disk : b[Dest] # my[p]
          /\ p \notin Done /\ pc'[p] \in {"published", "exchanged"} =>
                \A b \in disk : b[Dest] = my[p] \/ moves > 0]_vars
=============================================================================
