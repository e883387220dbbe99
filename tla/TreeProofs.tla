------------------------------ MODULE TreeProofs ------------------------------
(***************************************************************************)
(* The two ways in which a directory tree is published, for every number   *)
(* of members, processes, calls and moves: publish_flat_tree_noclobber     *)
(* (FlatTree) never leaves part of a tree at its name, and a deployment    *)
(* (Deployment, with PreparedTree) never leaves the destination with       *)
(* anything but a whole tree, removes only what is its own and reports     *)
(* what is so.                                                             *)
(***************************************************************************)
EXTENDS FlatTree, Deployment, TLAPS

(***************************************************************************)
(* FlatTree: what a call that builds or has published its tree can rely    *)
(* on, whatever a power loss would leave and whoever else is about.        *)
(***************************************************************************)

\* From the look for the destination to the rename.
Building == {"marker", "payload", "member", "rename"}

StageInv ==
    /\ phase = "check" => fs.root = "absent"
    /\ phase \in Building => fs.dest \in {NoDir, ForeignTree}
    /\ phase \in {"payload", "member", "rename", "sync"} => fs.marker = gen
    /\ phase \in {"member", "rename"} => fs.payload # NoDir /\ \A f \in survivors : f.payload = fs.payload
    /\ phase = "rename" => fs.payload = Whole(gen)
    /\ phase = "rmMembers" => fs.payload # NoDir

ReturnsInv ==
    /\ phase \in Building \cup {"check", "sync", "completed"} => cont = "entry"
    /\ phase = "recover" => cont # "finish"
    /\ cont = "abort" => fs.dest # Whole(gen)
    /\ phase \in {"sync", "completed"} \/ cont = "finish" => fs.dest = Whole(gen) \/ "foreign" \in env

TreeInv == TreeTypeOK /\ StageInv /\ ReturnsInv /\ NeverPartial

\* Complete trees and empty ones are trees.
LEMMA TreeFacts ==
    /\ EmptyTree \in Directory /\ \A g \in Gens : Whole(g) \in Directory
    /\ \A g \in Gens : Whole(g) \notin {NoDir, ForeignTree}
  BY FlatTreeAssumption, Zenon DEF EmptyTree, Whole, Directory

\* One member of the payload written or removed.
LEMMA MemberPut ==
    ASSUME fs \in FileSystem, fs.payload # NoDir, NEW n \in Member, NEW w \in Gens \cup {Absent, Torn}
    PROVE  LET f == [fs EXCEPT !.payload[n] = w]
           IN  /\ f \in FileSystem /\ f.payload = [fs.payload EXCEPT ![n] = w] /\ f.payload # NoDir
               /\ f.dest = fs.dest /\ f.root = fs.root /\ f.marker = fs.marker
<1>1. fs.payload \in Directory
  BY Zenon DEF FileSystem
<1>2. [fs.payload EXCEPT ![n] = w] \in Directory
  BY <1>1, Zenon DEF Directory
<1> QED
  BY <1>1, <1>2, FlatTreeAssumption, Zenon DEF FileSystem

\* The payload moved to the destination.
LEMMA MovedFacts ==
    ASSUME NEW f \in FileSystem
    PROVE  /\ Moved(f) \in FileSystem /\ Moved(f).dest = f.payload /\ Moved(f).payload = NoDir
           /\ Moved(f).root = f.root /\ Moved(f).marker = f.marker
  BY Zenon DEF Moved, FileSystem

\* Every step keeps the types.
LEMMA TreeTypes ==
    ASSUME TreeInv, TreeNext
    PROVE  TreeTypeOK'
<1> USE DEF TreeTypeOK, FileSystem, Purposes, Put, Keep, Faulty, Proceed, Return, Failing, Change, RecoveryFails, Recovered, Abort
<1>0. TreeTypeOK /\ StageInv /\ gen \in Gens /\ EmptyTree \in Directory /\ M \in Nat \ {0} /\ Gens \subseteq Nat
  BY TreeFacts, FlatTreeAssumption, Zenon DEF TreeInv, TreeTypeOK
<1>1. CASE PublishTree
  BY <1>1, <1>0 DEF PublishTree
<1>2. CASE Recover
  BY <1>2, <1>0 DEF Recover
<1>3. CASE RemoveMember
  <2>1. PICK n \in Member : Change([fs EXCEPT !.payload[n] = Absent], Proceed("rmMembers"), RecoveryFails)
    BY <1>3, Zenon DEF RemoveMember
  <2> DEFINE f == [fs EXCEPT !.payload[n] = Absent]
  <2>2. /\ f \in FileSystem /\ f.payload # NoDir
        /\ f.dest = fs.dest /\ f.root = fs.root /\ f.marker = fs.marker
    BY <1>0, <1>3, MemberPut DEF RemoveMember, StageInv
  <2>3. Change(f, Proceed("rmMembers"), RecoveryFails)
    BY <2>1, Zenon
  <2> HIDE DEF f
  <2> QED
    BY <1>0, <1>3, <2>2, <2>3 DEF RemoveMember
<1>4. CASE RemovePayload
  BY <1>4, <1>0 DEF RemovePayload
<1>5. CASE RemoveMarker
  BY <1>5, <1>0 DEF RemoveMarker
<1>6. CASE RemoveStageRoot
  BY <1>6, <1>0 DEF RemoveStageRoot
<1>7. CASE Check
  BY <1>7, <1>0 DEF Check
<1>8. CASE WriteMarker
  BY <1>8, <1>0 DEF WriteMarker
<1>9. CASE MakePayload
  BY <1>9, <1>0 DEF MakePayload
<1>10. CASE WriteMember
  <2> DEFINE f(w) == [fs EXCEPT !.payload[idx] = w]
  <2>1. ASSUME NEW w \in Gens \cup {Absent, Torn}
        PROVE  /\ f(w) \in FileSystem /\ f(w).payload # NoDir
               /\ f(w).dest = fs.dest /\ f(w).root = fs.root /\ f(w).marker = fs.marker
    BY <1>0, <1>10, MemberPut DEF WriteMember, StageInv
  <2>2. \/ Put(f(gen), TRUE) /\ idx' = idx + 1 /\ UNCHANGED <<phase, gen, cont, returned>>
        \/ (Keep \/ \E w \in {Torn, gen} : Put(f(w), FALSE)) /\ Failing(Abort)
    BY <1>10, Zenon DEF WriteMember
  <2>3. phase = "member" /\ idx \in Member
    BY <1>10, Zenon DEF WriteMember
  <2> HIDE DEF f
  <2> QED
    <3>1. CASE Put(f(gen), TRUE) /\ idx' = idx + 1 /\ UNCHANGED <<phase, gen, cont, returned>>
      <4>1. idx + 1 \in 1..M + 1
        BY <1>0, <2>3 DEF Member
      <4> QED
        BY <1>0, <2>1, <3>1, <4>1
    <3>2. CASE (Keep \/ \E w \in {Torn, gen} : Put(f(w), FALSE)) /\ Failing(Abort)
      <4>1. fs' \in FileSystem /\ survivors' \subseteq FileSystem /\ fs' \in survivors' /\ env' = env
        <5>1. CASE Keep
          BY <1>0, <5>1, Zenon
        <5>2. ASSUME NEW w \in {Torn, gen}, Put(f(w), FALSE)
              PROVE  fs' \in FileSystem /\ survivors' \subseteq FileSystem /\ fs' \in survivors' /\ env' = env
          <6>1. f(w) \in FileSystem
            BY <1>0, <2>1, Zenon
          <6> QED
            BY <1>0, <5>2, <6>1, Zenon
        <5> QED
          BY <3>2, <5>1, <5>2, Zenon
      <4>2. /\ phase' \in {"recover", "idle"} /\ gen' = gen /\ idx' \in {1, idx} /\ cont' \in Purposes
            /\ returned' = returned \/ returned' = [kind |-> "none", gen |-> gen]
        BY <3>2, Zenon
      <4> QED
        BY <1>0, <4>1, <4>2
    <3> QED
      BY <2>2, <3>1, <3>2, Zenon
<1>11. CASE VerifyMembers
  BY <1>11, <1>0, TreeFacts, FlatTreeAssumption DEF VerifyMembers, HasMembers, Whole, Absent
<1>12. CASE Rename
  <2>1. CASE MovePayload /\ Proceed("sync") /\ fs.dest = NoDir /\ phase = "rename"
    BY <1>0, <2>1, MovedFacts, FlatTreeAssumption DEF MovePayload, HasMembers, Whole, Absent, StageInv
  <2>2. CASE Keep /\ Abort /\ phase = "rename"
    BY <1>0, <2>2, Zenon
  <2> QED
    BY <1>12, <2>1, <2>2, Zenon DEF Rename
<1>13. CASE Sync
  BY <1>13, <1>0 DEF Sync
<1>14. CASE CleanCompleted
  BY <1>14, <1>0 DEF CleanCompleted
<1>15. CASE TreeCrash
  BY <1>15, <1>0 DEF TreeCrash
<1>16. CASE TreePowerLoss
  BY <1>16, <1>0 DEF TreePowerLoss
<1>17. CASE SomebodyElse
  BY <1>17, <1>0 DEF SomebodyElse
<1> QED
  BY <1>1, <1>2, <1>3, <1>4, <1>5, <1>6, <1>7, <1>8, <1>9, <1>10, <1>11, <1>12, <1>13, <1>14, <1>15, <1>16, <1>17, Zenon DEF TreeNext, CallStep

\* Every step keeps what the stage is known to be.
LEMMA StageStep ==
    ASSUME TreeInv, TreeNext
    PROVE  StageInv'
<1> USE DEF TreeTypeOK, FileSystem, StageInv, Building, Put, Keep, Faulty, Proceed, Return, Failing, Change, RecoveryFails, Recovered, Abort
<1>0. TreeTypeOK /\ StageInv /\ ReturnsInv /\ EmptyTree \in Directory /\ NoDir \notin Directory
  BY TreeFacts, FlatTreeAssumption, Zenon DEF TreeInv
<1>1. CASE PublishTree
  BY <1>1, <1>0, Zenon DEF PublishTree
<1>2. CASE Recover
  BY <1>2, <1>0, Zenon DEF Recover
<1>3. CASE RemoveMember
  <2>1. PICK n \in Member : Change([fs EXCEPT !.payload[n] = Absent], Proceed("rmMembers"), RecoveryFails)
    BY <1>3, Zenon DEF RemoveMember
  <2> DEFINE f == [fs EXCEPT !.payload[n] = Absent]
  <2>2. /\ f \in FileSystem /\ f.payload # NoDir
        /\ f.dest = fs.dest /\ f.root = fs.root /\ f.marker = fs.marker
    BY <1>0, <1>3, MemberPut DEF RemoveMember
  <2>3. Change(f, Proceed("rmMembers"), RecoveryFails)
    BY <2>1, Zenon
  <2> HIDE DEF f
  <2> QED
    BY <1>0, <1>3, <2>2, <2>3, Zenon DEF RemoveMember
<1>4. CASE RemovePayload
  BY <1>4, <1>0, Zenon DEF RemovePayload
<1>5. CASE RemoveMarker
  BY <1>5, <1>0, Zenon DEF RemoveMarker
<1>6. CASE RemoveStageRoot
  BY <1>6, <1>0, Zenon DEF RemoveStageRoot
<1>7. CASE Check
  BY <1>7, <1>0, Zenon DEF Check
<1>8. CASE WriteMarker
  BY <1>8, <1>0, Zenon DEF WriteMarker
<1>9. CASE MakePayload
  BY <1>9, <1>0, Zenon DEF MakePayload
<1>10. CASE WriteMember
  <2> DEFINE f(w) == [fs EXCEPT !.payload[idx] = w]
  <2>1. ASSUME NEW w \in Gens \cup {Absent, Torn}
        PROVE  /\ f(w) \in FileSystem /\ f(w).payload # NoDir
               /\ f(w).dest = fs.dest /\ f(w).root = fs.root /\ f(w).marker = fs.marker
    BY <1>0, <1>10, MemberPut DEF WriteMember
  <2>2. \/ Put(f(gen), TRUE) /\ idx' = idx + 1 /\ UNCHANGED <<phase, gen, cont, returned>>
        \/ (Keep \/ \E w \in {Torn, gen} : Put(f(w), FALSE)) /\ Failing(Abort)
    BY <1>10, Zenon DEF WriteMember
  <2>3. phase = "member" /\ idx \in Member
    BY <1>10, Zenon DEF WriteMember
  <2> HIDE DEF f
  <2> QED
    BY <1>0, <2>1, <2>2, <2>3 DEF Member
<1>11. CASE VerifyMembers
  BY <1>11, <1>0, Zenon DEF VerifyMembers
<1>12. CASE Rename
  <2>1. CASE MovePayload /\ Proceed("sync") /\ fs.dest = NoDir /\ phase = "rename"
    BY <1>0, <2>1, MovedFacts, FlatTreeAssumption, Zenon DEF MovePayload, HasMembers, Whole
  <2>2. CASE Keep /\ Abort /\ phase = "rename"
    BY <1>0, <2>2, Zenon
  <2> QED
    BY <1>12, <2>1, <2>2, Zenon DEF Rename
<1>13. CASE Sync
  BY <1>13, <1>0, Zenon DEF Sync
<1>14. CASE CleanCompleted
  BY <1>14, <1>0, Zenon DEF CleanCompleted
<1>15. CASE TreeCrash
  BY <1>15, <1>0, Zenon DEF TreeCrash
<1>16. CASE TreePowerLoss
  BY <1>16, <1>0, Zenon DEF TreePowerLoss
<1>17. CASE SomebodyElse
  BY <1>17, <1>0, Zenon DEF SomebodyElse
<1> QED
  BY <1>1, <1>2, <1>3, <1>4, <1>5, <1>6, <1>7, <1>8, <1>9, <1>10, <1>11, <1>12, <1>13, <1>14, <1>15, <1>16, <1>17, Zenon DEF TreeNext, CallStep

\* Every step keeps what a call will return.
LEMMA ReturnsStep ==
    ASSUME TreeInv, TreeNext
    PROVE  ReturnsInv'
<1> USE DEF TreeTypeOK, FileSystem, StageInv, ReturnsInv, Building, Put, Keep, Faulty, Proceed, Return, Failing, Change, RecoveryFails, Recovered, Abort
<1>0. /\ TreeTypeOK /\ StageInv /\ ReturnsInv /\ EmptyTree \in Directory /\ NoDir \notin Directory
      /\ \A g \in Gens : Whole(g) \notin {NoDir, ForeignTree}
  BY TreeFacts, FlatTreeAssumption, Zenon DEF TreeInv
<1>1. CASE PublishTree
  BY <1>1, <1>0, Zenon DEF PublishTree
<1>2. CASE Recover
  BY <1>2, <1>0, Zenon DEF Recover
<1>3. CASE RemoveMember
  <2>1. PICK n \in Member : Change([fs EXCEPT !.payload[n] = Absent], Proceed("rmMembers"), RecoveryFails)
    BY <1>3, Zenon DEF RemoveMember
  <2> DEFINE f == [fs EXCEPT !.payload[n] = Absent]
  <2>2. /\ f \in FileSystem /\ f.payload # NoDir
        /\ f.dest = fs.dest /\ f.root = fs.root /\ f.marker = fs.marker
    BY <1>0, <1>3, MemberPut DEF RemoveMember
  <2>3. Change(f, Proceed("rmMembers"), RecoveryFails)
    BY <2>1, Zenon
  <2> HIDE DEF f
  <2> QED
    BY <1>0, <1>3, <2>2, <2>3, Zenon DEF RemoveMember
<1>4. CASE RemovePayload
  BY <1>4, <1>0, Zenon DEF RemovePayload
<1>5. CASE RemoveMarker
  BY <1>5, <1>0, Zenon DEF RemoveMarker
<1>6. CASE RemoveStageRoot
  BY <1>6, <1>0, Zenon DEF RemoveStageRoot
<1>7. CASE Check
  BY <1>7, <1>0, Zenon DEF Check
<1>8. CASE WriteMarker
  BY <1>8, <1>0, Zenon DEF WriteMarker
<1>9. CASE MakePayload
  BY <1>9, <1>0, Zenon DEF MakePayload
<1>10. CASE WriteMember
  <2> DEFINE f(w) == [fs EXCEPT !.payload[idx] = w]
  <2>1. ASSUME NEW w \in Gens \cup {Absent, Torn}
        PROVE  /\ f(w) \in FileSystem /\ f(w).payload # NoDir
               /\ f(w).dest = fs.dest /\ f(w).root = fs.root /\ f(w).marker = fs.marker
    BY <1>0, <1>10, MemberPut DEF WriteMember
  <2>2. \/ Put(f(gen), TRUE) /\ idx' = idx + 1 /\ UNCHANGED <<phase, gen, cont, returned>>
        \/ (Keep \/ \E w \in {Torn, gen} : Put(f(w), FALSE)) /\ Failing(Abort)
    BY <1>10, Zenon DEF WriteMember
  <2>3. phase = "member" /\ idx \in Member
    BY <1>10, Zenon DEF WriteMember
  <2> HIDE DEF f
  <2> QED
    BY <1>0, <2>1, <2>2, <2>3 DEF Member
<1>11. CASE VerifyMembers
  BY <1>11, <1>0, Zenon DEF VerifyMembers
<1>12. CASE Rename
  <2>1. CASE MovePayload /\ Proceed("sync") /\ fs.dest = NoDir /\ phase = "rename"
    BY <1>0, <2>1, MovedFacts, FlatTreeAssumption DEF MovePayload, HasMembers, Whole
  <2>2. CASE Keep /\ Abort /\ phase = "rename"
    BY <1>0, <2>2, Zenon
  <2> QED
    BY <1>12, <2>1, <2>2, Zenon DEF Rename
<1>13. CASE Sync
  BY <1>13, <1>0, Zenon DEF Sync
<1>14. CASE CleanCompleted
  BY <1>14, <1>0, Zenon DEF CleanCompleted
<1>15. CASE TreeCrash
  BY <1>15, <1>0, Zenon DEF TreeCrash
<1>16. CASE TreePowerLoss
  BY <1>16, <1>0, Zenon DEF TreePowerLoss
<1>17. CASE SomebodyElse
  BY <1>17, <1>0, Zenon DEF SomebodyElse
<1> QED
  BY <1>1, <1>2, <1>3, <1>4, <1>5, <1>6, <1>7, <1>8, <1>9, <1>10, <1>11, <1>12, <1>13, <1>14, <1>15, <1>16, <1>17, Zenon DEF TreeNext, CallStep

\* No step leaves a partial tree at the destination.
LEMMA PartialStep ==
    ASSUME TreeInv, TreeNext
    PROVE  NeverPartial'
<1> USE DEF TreeTypeOK, FileSystem, StageInv, NeverPartial, Put, Keep, Faulty, Proceed, Return, Failing, Change, RecoveryFails, Recovered, Abort
<1>0. /\ TreeTypeOK /\ StageInv /\ NeverPartial /\ EmptyTree \in Directory /\ NoDir \notin Directory
      /\ \A g \in Gens : Whole(g) \notin {NoDir, ForeignTree}
  BY TreeFacts, FlatTreeAssumption, Zenon DEF TreeInv
<1>1. CASE PublishTree
  BY <1>1, <1>0, Zenon DEF PublishTree
<1>2. CASE Recover
  BY <1>2, <1>0, Zenon DEF Recover
<1>3. CASE RemoveMember
  <2>1. PICK n \in Member : Change([fs EXCEPT !.payload[n] = Absent], Proceed("rmMembers"), RecoveryFails)
    BY <1>3, Zenon DEF RemoveMember
  <2> DEFINE f == [fs EXCEPT !.payload[n] = Absent]
  <2>2. /\ f \in FileSystem /\ f.payload # NoDir
        /\ f.dest = fs.dest /\ f.root = fs.root /\ f.marker = fs.marker
    BY <1>0, <1>3, MemberPut DEF RemoveMember
  <2>3. Change(f, Proceed("rmMembers"), RecoveryFails)
    BY <2>1, Zenon
  <2> HIDE DEF f
  <2> QED
    BY <1>0, <1>3, <2>2, <2>3 DEF RemoveMember
<1>4. CASE RemovePayload
  BY <1>4, <1>0 DEF RemovePayload
<1>5. CASE RemoveMarker
  BY <1>5, <1>0 DEF RemoveMarker
<1>6. CASE RemoveStageRoot
  BY <1>6, <1>0 DEF RemoveStageRoot
<1>7. CASE Check
  BY <1>7, <1>0 DEF Check
<1>8. CASE WriteMarker
  BY <1>8, <1>0 DEF WriteMarker
<1>9. CASE MakePayload
  BY <1>9, <1>0 DEF MakePayload
<1>10. CASE WriteMember
  <2> DEFINE f(w) == [fs EXCEPT !.payload[idx] = w]
  <2>1. ASSUME NEW w \in Gens \cup {Absent, Torn}
        PROVE  /\ f(w) \in FileSystem /\ f(w).payload # NoDir
               /\ f(w).dest = fs.dest /\ f(w).root = fs.root /\ f(w).marker = fs.marker
    BY <1>0, <1>10, MemberPut DEF WriteMember
  <2>2. \/ Put(f(gen), TRUE) /\ idx' = idx + 1 /\ UNCHANGED <<phase, gen, cont, returned>>
        \/ (Keep \/ \E w \in {Torn, gen} : Put(f(w), FALSE)) /\ Failing(Abort)
    BY <1>10, Zenon DEF WriteMember
  <2>3. phase = "member" /\ idx \in Member
    BY <1>10, Zenon DEF WriteMember
  <2> HIDE DEF f
  <2> QED
    BY <1>0, <2>1, <2>2, <2>3 DEF Member
<1>11. CASE VerifyMembers
  BY <1>11, <1>0, Zenon DEF VerifyMembers
<1>12. CASE Rename
  <2>1. CASE MovePayload /\ Proceed("sync") /\ fs.dest = NoDir /\ phase = "rename"
    BY <1>0, <2>1, MovedFacts, FlatTreeAssumption DEF MovePayload, HasMembers, Whole
  <2>2. CASE Keep /\ Abort /\ phase = "rename"
    BY <1>0, <2>2, Zenon
  <2> QED
    BY <1>12, <2>1, <2>2, Zenon DEF Rename
<1>13. CASE Sync
  BY <1>13, <1>0, Zenon DEF Sync
<1>14. CASE CleanCompleted
  BY <1>14, <1>0, Zenon DEF CleanCompleted
<1>15. CASE TreeCrash
  BY <1>15, <1>0, Zenon DEF TreeCrash
<1>16. CASE TreePowerLoss
  BY <1>16, <1>0, Zenon DEF TreePowerLoss
<1>17. CASE SomebodyElse
  BY <1>17, <1>0, Zenon DEF SomebodyElse
<1> QED
  BY <1>1, <1>2, <1>3, <1>4, <1>5, <1>6, <1>7, <1>8, <1>9, <1>10, <1>11, <1>12, <1>13, <1>14, <1>15, <1>16, <1>17, Zenon DEF TreeNext, CallStep

\* A step of a call, of a power loss or of somebody else keeps all of it.
LEMMA TreeStep == TreeInv /\ [TreeNext]_treeVars => TreeInv'
<1>1. ASSUME TreeInv, TreeNext PROVE TreeInv'
  BY <1>1, TreeTypes, StageStep, ReturnsStep, PartialStep, Zenon DEF TreeInv
<1>2. ASSUME TreeInv, UNCHANGED treeVars PROVE TreeInv'
  BY <1>2 DEF treeVars, TreeInv, TreeTypeOK, StageInv, ReturnsInv, NeverPartial
<1> QED
  BY <1>1, <1>2, Zenon

LEMMA TreeStart == TreeInit => TreeInv
<1> SUFFICES ASSUME TreeInit PROVE TreeInv
  BY Zenon
<1>1. TreeTypeOK
  BY FlatTreeAssumption DEF TreeInit, TreeTypeOK, FileSystem, Fresh, Purposes
<1>2. StageInv /\ ReturnsInv /\ NeverPartial
  BY DEF TreeInit, StageInv, ReturnsInv, NeverPartial, Fresh, Building
<1> QED
  BY <1>1, <1>2, Zenon DEF TreeInv

(***************************************************************************)
(* TreesNeverPartial: of any number of members, through any number of      *)
(* calls, failures, deaths and power losses and with somebody else making  *)
(* and deleting the destination, no partial tree is ever at the            *)
(* destination or left there by a power loss (publish_flat_tree_noclobber).*)
(***************************************************************************)
THEOREM TreesNeverPartial == TreeSpec => []NeverPartial
<1>1. TreeInv => NeverPartial
  BY Zenon DEF TreeInv
<1> QED
  BY <1>1, TreeStart, TreeStep, PTL DEF TreeSpec

(***************************************************************************)
(* TreeOutcomesTrue: what publish_flat_tree_noclobber returns is so.       *)
(***************************************************************************)
THEOREM TreeOutcomesTrue == TreeSpec => TreeOutcome
<1> DEFINE Returned ==
        phase # "idle" /\ phase' = "idle" =>
            /\ returned'.kind = "ok" =>
                  \A f \in survivors' : /\ f.dest = Whole(gen) \/ "foreign" \in env
                                        /\ f.root = "absent"
            /\ returned'.kind = "exists" => fs'.root = "absent" /\ fs'.dest # NoDir
            /\ returned'.kind = "uncertain" => fs'.dest = Whole(gen) /\ fs'.marker = gen
            /\ returned'.kind = "failed" /\ fs'.dest = Whole(gen) => cont = "entry"
<1>1. ASSUME TreeInv, TreeNext PROVE Returned
  <2> USE DEF TreeTypeOK, FileSystem, StageInv, ReturnsInv, Building, Put, Keep, Faulty, Proceed, Return, Failing, Change, RecoveryFails, Recovered, Abort
  <2>0. /\ TreeTypeOK /\ StageInv /\ ReturnsInv
        /\ \A g \in Gens : Whole(g) \notin {NoDir, ForeignTree}
    BY <1>1, TreeFacts, Zenon DEF TreeInv
  <2>1. CASE PublishTree
    BY <2>0, <2>1, Zenon DEF PublishTree
  <2>2. CASE Recover
    BY <2>0, <2>2 DEF Recover
  <2>3. CASE RemoveMember
    BY <2>0, <2>3 DEF RemoveMember
  <2>4. CASE RemovePayload
    BY <2>0, <2>4 DEF RemovePayload
  <2>5. CASE RemoveMarker
    BY <2>0, <2>5 DEF RemoveMarker
  <2>6. CASE RemoveStageRoot
    BY <2>0, <2>6 DEF RemoveStageRoot
  <2>7. CASE Check
    BY <2>0, <2>7 DEF Check
  <2>8. CASE WriteMarker
    BY <2>0, <2>8 DEF WriteMarker
  <2>9. CASE MakePayload
    BY <2>0, <2>9 DEF MakePayload
  <2>10. CASE WriteMember
    BY <2>0, <2>10 DEF WriteMember
  <2>11. CASE VerifyMembers
    BY <2>0, <2>11 DEF VerifyMembers
  <2>12. CASE Rename
    BY <2>0, <2>12, Zenon DEF Rename
  <2>13. CASE Sync
    BY <2>0, <2>13 DEF Sync
  <2>14. CASE CleanCompleted
    BY <2>0, <2>14 DEF CleanCompleted
  <2>15. CASE TreeCrash
    BY <2>0, <2>15, Zenon DEF TreeCrash
  <2>16. CASE TreePowerLoss
    BY <2>0, <2>16, Zenon DEF TreePowerLoss
  <2>17. CASE SomebodyElse
    BY <2>0, <2>17, Zenon DEF SomebodyElse
  <2> QED
    BY <1>1, <2>1, <2>2, <2>3, <2>4, <2>5, <2>6, <2>7, <2>8, <2>9, <2>10, <2>11, <2>12, <2>13, <2>14, <2>15, <2>16, <2>17, Zenon DEF TreeNext, CallStep
<1>2. ASSUME UNCHANGED treeVars PROVE Returned
  BY <1>2, Zenon DEF treeVars
<1>3. TreeInv /\ [TreeNext]_treeVars => [Returned]_treeVars
  BY <1>1, <1>2, Zenon
<1> QED
  BY <1>3, TreeStart, TreeStep, PTL DEF TreeSpec, TreeOutcome

-----------------------------------------------------------------------------
(***************************************************************************)
(* Deployment: what a process knows of its tree.                           *)
(***************************************************************************)

\* Its tree is at its stage name and was never at the destination,
Staged == {"copy", "measure", "managed", "publish", "exchange", "pCheck", "pBinding", "pRename",
           "xOpen", "xSync", "xCompare", "xBinding", "xExchange", "xRestored",
           "plain", "cleanup", "rmStage"}

\* it is complete,
Complete == {"measure", "managed", "publish", "exchange", "pCheck", "pBinding", "pRename",
             "xOpen", "xSync", "xCompare", "xBinding", "xExchange"}

\* it is on disk,
OnDisk == {"pBinding", "pRename", "xCompare", "xBinding", "xExchange"}

\* it is what was opened or measured at the stage name.
Opened == OnDisk \cup {"pSync", "pVerify", "xSync", "xMeasure", "xSwapBack", "xRestored", "xDurable",
                       "xVerify", "cleanup", "rmStage"}

\* After the exchange the previous deployment is at the stage name, whole until it is removed.
OwnInv(p) ==
    /\ pc[p] = "idle" => my[p] = 0
    /\ pc[p] # "idle" => my[p] \in 1..calls
    /\ pc[p] \in Staged => bind[my[p]] = my[p] /\ \A b \in disk : b[Dest] # my[p]
    /\ pc[p] \in Complete => content[my[p]] >= Built
    /\ pc[p] \in OnDisk => my[p] \in synced
    /\ pc[p] \in Opened => stage[p].tree = my[p]
    /\ pc[p] \in {"pSync", "pVerify", "unread"} => bind[my[p]] = NoTree
    /\ pc[p] \in {"xMeasure", "xSwapBack", "xDurable"} =>
          bind[my[p]] # NoTree /\ content[bind[my[p]]] >= Built /\ bind[my[p]] \in synced
    /\ pc[p] \in {"xVerify", "exchanged", "rmPrevious"} =>
          bind[my[p]] # NoTree /\ \A b \in disk : b[my[p]] = bind[my[p]]

\* Unless somebody else moves it, its tree stays where it was published.
StaysInv(p) ==
    /\ pc[p] \in {"pSync", "xMeasure", "xSwapBack", "xDurable"} /\ moves = 0 => bind[Dest] = my[p]
    /\ pc[p] \in {"pVerify", "xVerify"} /\ moves = 0 => \A b \in disk : b[Dest] = my[p]

\* How often the destination was moved before a tree without the marker is exchanged.
StrangerInv(p) ==
    /\ pc[p] \in {"managed", "exchange", "xOpen"} /\ snap[p].tree = Stranger /\ bind[Dest] # Stranger =>
          moves > 0
    /\ pc[p] \in {"exchange", "xOpen"} /\ snap[p].tree = Stranger /\ bind[Dest] = Stranger => moves > 1
    /\ pc[p] \in (Locked \ {"xOpen", "pCheck", "pBinding", "pRename", "pSync", "pVerify"}) \cup {"exchanged"}
          /\ snap[p].tree = Stranger => moves > 1
    /\ pc[p] \in {"xSync", "xCompare", "xBinding", "xExchange"} /\ snap[p].tree # Stranger
          /\ bind[Dest] = Stranger => moves > 0

\* A tree has at most one name, and the trees of later calls have none.
NamesInv ==
    /\ \A b \in disk : \A m, n \in Name : b[m] = b[n] /\ b[m] # NoTree => m = n
    /\ \A b \in disk : \A n \in Name : b[n] \in Call => b[n] <= calls
    /\ \A c \in Call : c > calls => content[c] = Gone

\* One process has the lock, and every call is the call of one process.
ApartInv ==
    \A p, q \in Proc : p # q => /\ pc[p] \notin Locked \/ pc[q] \notin Locked
                                /\ my[p] # my[q] \/ my[p] = 0

DeployInv ==
    /\ DeployTypeOK /\ NamesInv /\ ApartInv /\ DestinationWhole /\ Stranger \in synced
    /\ \A p \in Proc : OwnInv(p) /\ StaysInv(p) /\ StrangerInv(p)

\* Measurements are measurements.
LEMMA VersionType ==
    ASSUME DeployTypeOK, NEW t \in Tree \cup {NoTree}
    PROVE  Version(t) \in Measurement /\ Version(t).tree = t
  BY PreparedTreeAssumption DEF DeployTypeOK, Version, Measurement, Gone

LEMMA NothingType == Nothing \in Measurement /\ Gone \in 0..MaxVersion
  BY PreparedTreeAssumption DEF Measurement, Nothing, Gone

LEMMA StepNames ==
    /\ "idle" \in DeploySteps /\ "copy" \in DeploySteps /\ "measure" \in DeploySteps
    /\ "managed" \in DeploySteps /\ "publish" \in DeploySteps /\ "exchange" \in DeploySteps
    /\ "published" \in DeploySteps /\ "exchanged" \in DeploySteps /\ "uncertain" \in DeploySteps
    /\ "plain" \in DeploySteps /\ "unread" \in DeploySteps /\ "cleanup" \in DeploySteps
    /\ "rmStage" \in DeploySteps /\ "rmPrevious" \in DeploySteps /\ "pCheck" \in DeploySteps
    /\ "pBinding" \in DeploySteps /\ "pRename" \in DeploySteps /\ "pSync" \in DeploySteps
    /\ "pVerify" \in DeploySteps /\ "xOpen" \in DeploySteps /\ "xSync" \in DeploySteps
    /\ "xCompare" \in DeploySteps /\ "xBinding" \in DeploySteps /\ "xExchange" \in DeploySteps
    /\ "xMeasure" \in DeploySteps /\ "xSwapBack" \in DeploySteps /\ "xRestored" \in DeploySteps
    /\ "xDurable" \in DeploySteps /\ "xVerify" \in DeploySteps
  BY DEF DeploySteps, Locked

\* What is left of a process when its call is over.
LEMMA FinishTypes ==
    ASSUME DeployTypeOK, NEW p \in Proc, NEW kind \in {"none", "Committed", "RolledBack", "Indeterminate"},
           Finish(p, kind)
    PROVE  /\ calls' \in 0..MaxCalls /\ pc' \in [Proc -> DeploySteps] /\ my' \in [Proc -> 0..MaxCalls]
           /\ snap' \in [Proc -> Measurement] /\ stage' \in [Proc -> Measurement]
           /\ seen' \in [Proc -> 0..MaxVersion]
           /\ result' \in [Proc -> {"none", "Committed", "RolledBack", "Indeterminate"}]
<1>1. "idle" \in DeploySteps /\ 0 \in 0..MaxCalls /\ Nothing \in Measurement /\ Gone \in 0..MaxVersion
  BY StepNames, NothingType, PreparedTreeAssumption
<1>2. calls' \in 0..MaxCalls /\ pc' \in [Proc -> DeploySteps] /\ my' \in [Proc -> 0..MaxCalls]
  BY <1>1, Zenon DEF DeployTypeOK, Finish
<1>3. snap' \in [Proc -> Measurement] /\ stage' \in [Proc -> Measurement]
  BY <1>1, Zenon DEF DeployTypeOK, Finish
<1>4. seen' \in [Proc -> 0..MaxVersion]
  BY <1>1, Zenon DEF DeployTypeOK, Finish
<1>5. result' \in [Proc -> {"none", "Committed", "RolledBack", "Indeterminate"}]
  BY Zenon DEF DeployTypeOK, Finish
<1> QED
  BY <1>2, <1>3, <1>4, <1>5, Zenon

\* Every step of a process keeps the types.
LEMMA DeployTypes ==
    ASSUME DeployTypeOK, NEW p \in Proc, OwnInv(p), Begin(p) \/ Continue(p) \/ Die(p)
    PROVE  DeployTypeOK'
<1> USE DEF DeployTypeOK, Bind, Goto, At, Acquire, fsVars, Swapped
<1>0. /\ DeployTypeOK /\ my[p] \in Name /\ Dest \in Name /\ bind[my[p]] \in Tree \cup {NoTree}
      /\ bind[Dest] \in Tree \cup {NoTree} /\ snap[p] \in Measurement /\ stage[p] \in Measurement
      /\ Gone \in 0..MaxVersion /\ Partial \in 0..MaxVersion /\ Built \in 0..MaxVersion
      /\ snap[p].tree \in Tree \cup {NoTree} /\ stage[p].tree \in Tree \cup {NoTree}
  BY PreparedTreeAssumption DEF Name, Dest, Gone, Partial, Built, Measurement
<1>1. CASE Begin(p)
  <2>1. calls + 1 \in Name /\ calls + 1 \in Tree /\ calls + 1 \in 0..MaxCalls /\ "copy" \in DeploySteps
    BY <1>0, <1>1, StepNames DEF Begin, Call, Name, Tree
  <2>2. bind' \in [Name -> Tree \cup {NoTree}] /\ content' \in [Tree -> 0..MaxVersion]
    BY <1>0, <1>1, <2>1, Zenon DEF Begin
  <2>3. bind' \in disk' /\ disk' \subseteq [Name -> Tree \cup {NoTree}]
    BY <1>0, <1>1, <2>2, Zenon DEF Begin
  <2>4. calls' \in 0..MaxCalls /\ my' \in [Proc -> 0..MaxCalls] /\ pc' \in [Proc -> DeploySteps]
    BY <1>0, <1>1, <2>1, Zenon DEF Begin
  <2>5. result' \in [Proc -> {"none", "Committed", "RolledBack", "Indeterminate"}]
    BY <1>0, <1>1, Zenon DEF Begin
  <2> QED
    BY <1>0, <1>1, <2>2, <2>3, <2>4, <2>5, Zenon DEF Begin
<1>2. CASE Copy(p)
  BY <1>0, <1>2, VersionType, StepNames DEF Copy
<1>3. CASE MeasureDestination(p)
  BY <1>0, <1>3, VersionType, StepNames DEF MeasureDestination
<1>4. CASE EnsureManaged(p)
  BY <1>0, <1>4, VersionType, StepNames, ZenonT(30) DEF EnsureManaged
<1>5. CASE PublishLock(p)
  BY <1>0, <1>5, VersionType, StepNames, Zenon DEF PublishLock
<1>6. CASE PublishCheck(p)
  BY <1>0, <1>6, VersionType, StepNames DEF PublishCheck
<1>7. CASE PublishBinding(p)
  BY <1>0, <1>7, VersionType, StepNames, ZenonT(30) DEF PublishBinding
<1>8. CASE PublishRename(p)
  BY <1>0, <1>8, VersionType, StepNames DEF PublishRename
<1>9. CASE PublishSync(p)
  BY <1>0, <1>9, VersionType, StepNames, ZenonT(30) DEF PublishSync
<1>10. CASE PublishVerify(p)
  BY <1>0, <1>10, VersionType, StepNames, ZenonT(30) DEF PublishVerify
<1>11. CASE ExchangeLock(p)
  BY <1>0, <1>11, VersionType, StepNames, Zenon DEF ExchangeLock
<1>12. CASE ExchangeOpen(p)
  BY <1>0, <1>12, VersionType, StepNames, ZenonT(30) DEF ExchangeOpen
<1>13. CASE ExchangeSync(p)
  <2>1. stage[p].tree \in Tree
    BY <1>0, <1>13, Zenon DEF OwnInv, Opened, OnDisk, ExchangeSync, Tree, Name
  <2> QED
    BY <1>0, <1>13, <2>1, StepNames, ZenonT(30) DEF ExchangeSync
<1>14. CASE ExchangeCompare(p)
  BY <1>0, <1>14, VersionType, StepNames, Zenon DEF ExchangeCompare
<1>15. CASE ExchangeBinding(p)
  BY <1>0, <1>15, VersionType, StepNames, ZenonT(30) DEF ExchangeBinding
<1>16. CASE Exchange(p)
  <2>1. Swapped(p) \in [Name -> Tree \cup {NoTree}]
    BY <1>0, Zenon
  <2> QED
    BY <1>0, <1>16, <2>1, StepNames DEF Exchange
<1>17. CASE ExchangeMeasure(p)
  <2>1. stage[p].tree \in Tree
    BY <1>0, <1>17, Zenon DEF OwnInv, Opened, OnDisk, ExchangeMeasure, Tree, Name
  <2> QED
    BY <1>0, <1>17, <2>1, StepNames DEF ExchangeMeasure
<1>18. CASE SwapBack(p)
  BY <1>0, <1>18, VersionType, StepNames DEF SwapBack
<1>19. CASE Restored(p)
  BY <1>0, <1>19, VersionType, StepNames, Zenon DEF Restored
<1>20. CASE ExchangeDurable(p)
  BY <1>0, <1>20, VersionType, StepNames, ZenonT(30) DEF ExchangeDurable
<1>21. CASE ExchangeVerify(p)
  BY <1>0, <1>21, VersionType, StepNames, ZenonT(30) DEF ExchangeVerify
<1>22. CASE Published(p)
  BY <1>0, <1>22, VersionType, StepNames, FinishTypes, Zenon DEF Published
<1>23. CASE Uncertain(p)
  BY <1>0, <1>23, VersionType, StepNames, FinishTypes, Zenon DEF Uncertain
<1>24. CASE RemovePrevious(p)
  BY <1>0, <1>24, VersionType, StepNames, FinishTypes DEF RemovePrevious
<1>25. CASE RemoveRoot(p)
  <2>1. \E kind \in {"none", "Committed", "RolledBack", "Indeterminate"} : Finish(p, kind)
    BY <1>25, Zenon DEF RemoveRoot
  <2>2. /\ bind' \in [Name -> Tree \cup {NoTree}] /\ bind' \in disk'
        /\ disk' \subseteq [Name -> Tree \cup {NoTree}]
        /\ content' \in [Tree -> 0..MaxVersion] /\ synced' = synced /\ moves' = moves
    <3>1. CASE bind' = bind /\ disk' = disk /\ content' = content
      BY <1>0, <1>25, <3>1, Zenon DEF RemoveRoot
    <3>2. CASE /\ Bind([bind EXCEPT ![my[p]] = NoTree], TRUE)
               /\ content' = [content EXCEPT ![bind[my[p]]] = Gone]
      BY <1>0, <1>25, <3>2, Zenon DEF RemoveRoot
    <3> QED
      BY <1>25, <3>1, <3>2, Zenon DEF RemoveRoot
  <2> QED
    BY <1>0, <2>1, <2>2, FinishTypes, Zenon
<1>26. CASE CleanUp(p)
  <2>1. CASE Finish(p, "RolledBack")
    BY <1>0, <1>26, <2>1, FinishTypes, Zenon DEF CleanUp
  <2>2. CASE ~ Finish(p, "RolledBack")
    BY <1>0, <1>26, <2>2, VersionType, StepNames, ZenonT(30) DEF CleanUp
  <2> QED
    BY <2>1, <2>2, Zenon
<1>27. CASE RemoveStage(p)
  BY <1>0, <1>27, VersionType, StepNames, FinishTypes DEF RemoveStage
<1>28. CASE Die(p)
  BY <1>0, <1>28, VersionType, StepNames, FinishTypes, Zenon DEF Die
<1> QED
  BY <1>1, <1>2, <1>3, <1>4, <1>5, <1>6, <1>7, <1>8, <1>9, <1>10, <1>11, <1>12, <1>13, <1>14, <1>15, <1>16, <1>17, <1>18, <1>19, <1>20, <1>21, <1>22, <1>23, <1>24, <1>25, <1>26, <1>27, <1>28, Zenon DEF Continue, PublicationStep

-----------------------------------------------------------------------------
(***************************************************************************)
(* What a step of one process may do, and what the others keep.            *)
(***************************************************************************)
LeavesOthers(p) ==
    \A q \in Proc \ {p} : pc'[q] = pc[q] /\ my'[q] = my[q] /\ snap'[q] = snap[q] /\ stage'[q] = stage[q]

\* It takes the lock only if nobody has it; its call is its own.
InTurn(p) ==
    /\ pc'[p] \in Locked => pc[p] \in Locked \/ \A q \in Proc : Free(q)
    /\ my'[p] \in {my[p], 0} \/ my'[p] > calls

\* It binds only its stage name, and the destination with the lock, to a tree that is whole.
Binds(p) ==
    /\ bind' \in disk' /\ \A b \in disk' : b \in disk \/ b = bind'
    /\ \A n \in Name : n \in 1..calls /\ n # my[p] => bind'[n] = bind[n]
    /\ \A m, n \in Name : bind'[m] = bind'[n] /\ bind'[m] # NoTree => m = n
    /\ \A n \in Name : bind'[n] \in Call => bind'[n] <= calls'

BindsDest(p) ==
    \/ bind'[Dest] = bind[Dest]
    \/ /\ pc[p] \in Locked /\ bind'[Dest] \in {bind[my[p]], NoTree}
       /\ bind'[Dest] = Stranger => moves > 1
       /\ bind[Dest] = Stranger => moves > 0
       /\ bind'[Dest] # NoTree => content'[bind'[Dest]] >= Built /\ bind'[Dest] \in synced'

\* It takes only from the tree at its stage name, if that is not at the destination.
Takes(p) ==
    \A t \in Tree : \/ content'[t] = content[t]
                    \/ content'[t] >= Built /\ (t \in Call => t <= calls)
                    \/ t = bind[my[p]] /\ \A b \in disk : b[Dest] # t
                    \/ t \in Call /\ t > calls /\ t <= calls'

Contained(p) ==
    /\ moves' = moves /\ calls' \in Nat /\ calls <= calls' /\ synced \subseteq synced'
    /\ Binds(p) /\ BindsDest(p) /\ Takes(p)

\* Types of what the invariant speaks of.
LEMMA ProcessTypes ==
    ASSUME DeployTypeOK, NEW p \in Proc
    PROVE  /\ my[p] \in Name /\ pc[p] \in DeploySteps /\ calls \in Nat /\ moves \in Nat
           /\ bind[my[p]] \in Tree \cup {NoTree} /\ bind[Dest] \in Tree \cup {NoTree} /\ Dest \in Name
           /\ bind \in disk /\ \A t \in Tree : content[t] \in Nat
           /\ \A b \in disk : \A n \in Name : b[n] \in Tree \cup {NoTree}
           /\ NoTree \notin Tree /\ NoTree \notin Call /\ Stranger \in Tree /\ Stranger \notin Call
           /\ 1..calls \subseteq Name /\ 1..calls \subseteq Tree /\ 1..calls \subseteq Call
<1>1. my[p] \in Name /\ pc[p] \in DeploySteps /\ calls \in Nat /\ moves \in Nat /\ Dest \in Name
  BY PreparedTreeAssumption DEF DeployTypeOK, Name, Dest
<1>2. /\ bind[my[p]] \in Tree \cup {NoTree} /\ bind[Dest] \in Tree \cup {NoTree} /\ bind \in disk
      /\ \A b \in disk : \A n \in Name : b[n] \in Tree \cup {NoTree}
  BY <1>1, Zenon DEF DeployTypeOK
<1>3. \A t \in Tree : content[t] \in Nat
  BY PreparedTreeAssumption DEF DeployTypeOK
<1>4. NoTree \notin Tree /\ NoTree \notin Call /\ Stranger \in Tree /\ Stranger \notin Call
  BY PreparedTreeAssumption DEF Tree, Call
<1>5. 1..calls \subseteq Name /\ 1..calls \subseteq Tree /\ 1..calls \subseteq Call
  BY PreparedTreeAssumption DEF DeployTypeOK, Name, Tree, Call
<1> QED
  BY <1>1, <1>2, <1>3, <1>4, <1>5, Zenon

LEMMA NoZero == 0 \notin 1..calls
  OBVIOUS

LEMMA UpTo == \A n \in Nat : \A c \in 1..n : c <= n
  OBVIOUS

LEMMA MoreThanOne == \A m \in Nat : m > 1 => m > 0
  OBVIOUS

LEMMA DestApart == Dest \notin 1..calls
  BY DEF Dest

\* The destination stays whole.
LEMMA StaysWhole ==
    ASSUME DeployInv, NEW p \in Proc, Contained(p)
    PROVE  DestinationWhole'
<1>1. DestinationWhole /\ NamesInv
  BY Zenon DEF DeployInv
<1>2. ASSUME NEW b \in disk, b[Dest] # NoTree PROVE content'[b[Dest]] >= Built /\ b[Dest] \in synced'
  <2>1. b[Dest] \in Tree /\ content[b[Dest]] >= Built /\ b[Dest] \in synced /\ (b[Dest] \in Call => b[Dest] <= calls)
    BY <1>1, <1>2, ProcessTypes, Zenon DEF DestinationWhole, NamesInv, DeployInv
  <2>2. ~ (b[Dest] \in Call /\ b[Dest] > calls)
    BY <2>1, ProcessTypes DEF Call, DeployInv
  <2> QED
    BY <2>1, <2>2, Zenon DEF Contained, Binds, BindsDest, Takes
<1>3. bind \in disk
  BY ProcessTypes, Zenon DEF DeployInv
<1>4. bind'[Dest] # NoTree => content'[bind'[Dest]] >= Built /\ bind'[Dest] \in synced'
  BY <1>2, <1>3, Zenon DEF Contained, Binds, BindsDest, Takes
<1> QED
  BY <1>2, <1>4, Zenon DEF Contained, Binds, BindsDest, Takes, DestinationWhole

\* Names stay unique and trees new.
LEMMA NamesStay ==
    ASSUME DeployInv, NEW p \in Proc, Contained(p)
    PROVE  NamesInv'
<1>1. \A b \in disk' : \A m, n \in Name : b[m] = b[n] /\ b[m] # NoTree => m = n
  BY Zenon DEF Contained, Binds, BindsDest, Takes, DeployInv, NamesInv
<1>2. \A b \in disk' : \A n \in Name : b[n] \in Call => b[n] <= calls'
  BY ProcessTypes DEF Contained, Binds, BindsDest, Takes, DeployInv, NamesInv, Call
<1>3. ASSUME NEW c \in Call, c > calls' PROVE content'[c] = Gone
  <2>1. c \in Tree /\ c > calls /\ ~ (c <= calls) /\ ~ (c <= calls') /\ content[c] = Gone
    BY <1>3, ProcessTypes DEF Contained, Binds, BindsDest, Takes, DeployInv, NamesInv, Call, Tree
  <2>2. c # bind[my[p]]
    BY <2>1, ProcessTypes DEF DeployInv, NamesInv
  <2> QED
    BY <1>3, <2>1, <2>2, Zenon DEF Contained, Binds, BindsDest, Takes
<1> QED
  BY <1>1, <1>2, <1>3, Zenon DEF NamesInv

LEMMA ApartStays ==
    ASSUME DeployInv, NEW p \in Proc, LeavesOthers(p), InTurn(p)
    PROVE  ApartInv'
<1>1. ASSUME NEW q \in Proc \ {p} PROVE pc'[p] \notin Locked \/ pc'[q] \notin Locked
  BY Zenon DEF LeavesOthers, InTurn, Free, DeployInv, ApartInv
<1>2. ASSUME NEW q \in Proc \ {p} PROVE my'[p] # my'[q] \/ my'[p] = 0
  <2>1. calls \in Nat /\ (my[p] # my[q] \/ my[p] = 0)
    BY ProcessTypes, Zenon DEF DeployInv, ApartInv
  <2>2. my[q] = 0 \/ my[q] \in 1..calls
    BY Zenon DEF DeployInv, OwnInv
  <2>3. ~ (0 > calls) /\ \A n \in 1..calls : ~ (n > calls)
    BY <2>1
  <2> QED
    BY <2>1, <2>2, <2>3, Zenon DEF LeavesOthers, InTurn
<1>3. ASSUME NEW q \in Proc \ {p}, NEW r \in Proc \ {p}, q # r
      PROVE  /\ pc'[q] \notin Locked \/ pc'[r] \notin Locked
             /\ my'[q] # my'[r] \/ my'[q] = 0
  BY <1>3, Zenon DEF LeavesOthers, DeployInv, ApartInv
<1> QED
  BY <1>1, <1>2, <1>3, Zenon DEF ApartInv

\* What another process knows stays true.
LEMMA OthersKnow ==
    ASSUME DeployInv, NEW p \in Proc, NEW q \in Proc \ {p}, LeavesOthers(p), Contained(p)
    PROVE  OwnInv(q)' /\ StaysInv(q)' /\ StrangerInv(q)'
<1>1. /\ pc'[q] = pc[q] /\ my'[q] = my[q] /\ snap'[q] = snap[q] /\ stage'[q] = stage[q]
      /\ moves' = moves /\ calls <= calls' /\ calls' \in Nat /\ calls \in Nat
  BY ProcessTypes, Zenon DEF LeavesOthers, Contained, Binds, BindsDest, Takes, DeployInv
<1>2. OwnInv(q) /\ StaysInv(q) /\ StrangerInv(q) /\ bind \in disk
  BY ProcessTypes, Zenon DEF DeployInv
<1>3. CASE pc[q] = "idle"
  BY <1>1, <1>2, <1>3, Zenon DEF OwnInv, StaysInv, StrangerInv, Staged, Complete, OnDisk, Opened, Locked
<1>4. CASE pc[q] # "idle"
  <2>1. my[q] \in 1..calls /\ my[q] \in Name /\ my[q] \in Tree /\ my[q] # NoTree /\ my[q] # Dest /\ my[q] # my[p]
    BY <1>2, <1>4, ProcessTypes, DestApart, NoZero, Zenon DEF OwnInv, DeployInv, ApartInv
  <2>2. bind'[my[q]] = bind[my[q]] /\ \A b \in disk' : b \in disk \/ b = bind'
    BY <2>1, Zenon DEF Contained, Binds, BindsDest, Takes
  <2>3. bind[my[q]] # NoTree => bind[my[q]] # bind[my[p]]
    BY <1>2, <2>1, ProcessTypes DEF DeployInv, NamesInv
  <2>4. ASSUME NEW t \in Tree, t \in {my[q], bind[my[q]]}, t = my[q] => bind[my[q]] = my[q], content[t] >= Built
        PROVE  content'[t] >= Built
    <3>1. t # bind[my[p]]
      BY <2>1, <2>3, <2>4, ProcessTypes, Zenon DEF DeployInv
    <3>2. t \in Call => t <= calls /\ ~ (t > calls)
      BY <1>1, <1>2, <2>1, <2>4, ProcessTypes DEF DeployInv, NamesInv, Call
    <3> QED
      BY <2>4, <3>1, <3>2, Zenon DEF Contained, Binds, BindsDest, Takes
  <2>5. bind[my[q]] = my[q] /\ (\A b \in disk : b[Dest] # my[q]) => \A b \in disk' : b[Dest] # my[q]
    BY <1>2, <2>1, <2>2, <2>3, Zenon DEF Contained, Binds, BindsDest, Takes
  <2>6. OwnInv(q)'
    <3>1. my[q] \in 1..calls'
      BY <1>1, <2>1
    <3>2. /\ bind[my[q]] = my[q] /\ content[my[q]] >= Built => content'[my[q]] >= Built
          /\ bind[my[q]] # NoTree /\ content[bind[my[q]]] >= Built => content'[bind[my[q]]] >= Built
      BY <2>1, <2>4, ProcessTypes, Zenon DEF DeployInv
    <3>3. Complete \subseteq Staged
      BY Zenon DEF Complete, Staged
    <3>4. synced \subseteq synced'
      BY Zenon DEF Contained
    <3> QED
      BY <1>1, <1>2, <1>4, <2>2, <2>5, <3>1, <3>2, <3>3, <3>4, Zenon DEF OwnInv
  <2>7. StaysInv(q)'
    <3>1. pc[q] \in Locked => bind'[Dest] = bind[Dest]
      BY Zenon DEF Contained, BindsDest, DeployInv, ApartInv
    <3> QED
      BY <1>1, <1>2, <2>2, <3>1, Zenon DEF StaysInv, Locked
  <2>8. StrangerInv(q)'
    <3>1. bind'[Dest] # bind[Dest] => (bind'[Dest] = Stranger => moves > 1) /\ (bind[Dest] = Stranger => moves > 0)
      BY Zenon DEF Contained, BindsDest
    <3>2. moves > 1 => moves > 0
      BY ProcessTypes DEF DeployInv
    <3> QED
      BY <1>1, <1>2, <3>1, <3>2, Zenon DEF StrangerInv
  <2> QED
    BY <2>6, <2>7, <2>8, Zenon
<1> QED
  BY <1>3, <1>4, Zenon

\* So all of it is kept.
LEMMA AllKeep ==
    ASSUME DeployInv, NEW p \in Proc, LeavesOthers(p), InTurn(p), Contained(p), DeployTypeOK',
           OwnInv(p)', StaysInv(p)', StrangerInv(p)'
    PROVE  DeployInv'
<1>1. ASSUME NEW q \in Proc PROVE OwnInv(q)' /\ StaysInv(q)' /\ StrangerInv(q)'
  BY OthersKnow, Zenon
<1> QED
  BY <1>1, StaysWhole, NamesStay, ApartStays, Zenon DEF DeployInv, Contained

\* A step that leaves the directory alone.
LEMMA QuietStep ==
    ASSUME DeployInv, NEW p \in Proc, UNCHANGED <<fsVars, calls>>
    PROVE  Contained(p)
<1>1. bind' = bind /\ disk' = disk /\ content' = content /\ synced' = synced /\ moves' = moves /\ calls' = calls
  BY Zenon DEF fsVars
<1>2. bind \in disk /\ calls \in Nat /\ NamesInv
  BY ProcessTypes, Zenon DEF DeployInv
<1> QED
  BY <1>1, <1>2 DEF Contained, Binds, BindsDest, Takes, NamesInv

\* The end of a call.
LEMMA FinishStep ==
    ASSUME DeployTypeOK, NEW p \in Proc, NEW kind, Finish(p, kind)
    PROVE  LeavesOthers(p) /\ InTurn(p) /\ OwnInv(p)' /\ StaysInv(p)' /\ StrangerInv(p)'
<1>1. pc'[p] = "idle" /\ my'[p] = 0 /\ LeavesOthers(p)
  BY Zenon DEF DeployTypeOK, Finish, LeavesOthers
<1> QED
  BY <1>1, Zenon DEF InTurn, OwnInv, StaysInv, StrangerInv, Staged, Complete, OnDisk, Opened, Locked

\* The steps that look at the directory and go on.
LEMMA LookStep ==
    ASSUME DeployInv, NEW p \in Proc,
           \/ MeasureDestination(p) \/ EnsureManaged(p) \/ PublishLock(p) \/ PublishBinding(p)
           \/ PublishVerify(p) \/ ExchangeLock(p) \/ ExchangeOpen(p) \/ ExchangeCompare(p)
           \/ ExchangeBinding(p) \/ ExchangeMeasure(p) \/ Restored(p) \/ ExchangeVerify(p)
    PROVE  LeavesOthers(p) /\ InTurn(p) /\ Contained(p) /\ OwnInv(p)' /\ StaysInv(p)' /\ StrangerInv(p)'
<1>0. /\ OwnInv(p) /\ StaysInv(p) /\ StrangerInv(p)
      /\ bind[Dest] \in Tree \cup {NoTree} /\ bind[my[p]] \in Tree \cup {NoTree}
  BY ProcessTypes, Zenon DEF DeployInv
<1>t. /\ pc \in [Proc -> DeploySteps] /\ my \in [Proc -> 0..MaxCalls]
      /\ snap \in [Proc -> Measurement] /\ stage \in [Proc -> Measurement]
      /\ \A t \in Tree \cup {NoTree} : Version(t).tree = t
  BY VersionType, Zenon DEF DeployInv, DeployTypeOK
<1>a. Contained(p)
  BY QuietStep, Zenon
     DEF MeasureDestination, EnsureManaged, PublishLock, PublishBinding, PublishVerify,
     ExchangeLock, ExchangeOpen, ExchangeCompare, ExchangeBinding, ExchangeMeasure, Restored, ExchangeVerify
<1>b. bind' = bind /\ disk' = disk /\ content' = content /\ synced' = synced /\ moves' = moves /\ calls' = calls
  BY Zenon
     DEF MeasureDestination, EnsureManaged, PublishLock, PublishBinding, PublishVerify,
     ExchangeLock, ExchangeOpen, ExchangeCompare, ExchangeBinding, ExchangeMeasure, Restored, ExchangeVerify, fsVars
<1> USE DEF At, Goto, LeavesOthers
<1>1. CASE MeasureDestination(p)
  <2>1. /\ LeavesOthers(p) /\ my'[p] = my[p]
        /\ pc[p] = "measure" /\ pc'[p] \in {"publish", "managed", "plain"}
        /\ stage'[p] = stage[p]
        /\ pc'[p] = "managed" => snap'[p].tree = bind[Dest]
    BY <1>0, <1>t, <1>1, Zenon DEF MeasureDestination
  <2> QED
    BY <1>0, <1>a, <1>b, <2>1, Zenon DEF OwnInv, StaysInv, StrangerInv, InTurn, Staged, Complete, OnDisk, Opened, Locked
<1>2. CASE EnsureManaged(p)
  <2>1. /\ LeavesOthers(p) /\ my'[p] = my[p] /\ snap'[p] = snap[p] /\ stage'[p] = stage[p]
        /\ pc[p] = "managed" /\ pc'[p] \in {"exchange", "plain"}
        /\ pc'[p] = "exchange" => bind[Dest] # Stranger
    BY <1>0, <1>t, <1>2, Zenon DEF EnsureManaged
  <2> QED
    BY <1>0, <1>a, <1>b, <2>1, Zenon DEF OwnInv, StaysInv, StrangerInv, InTurn, Staged, Complete, OnDisk, Opened, Locked
<1>3. CASE PublishLock(p)
  <2>1. /\ LeavesOthers(p) /\ my'[p] = my[p] /\ snap'[p] = snap[p] /\ stage'[p] = stage[p]
        /\ pc[p] = "publish" /\ pc'[p] = "pCheck"
        /\ \A q \in Proc : Free(q)
    BY <1>0, <1>t, <1>3, Zenon DEF PublishLock, Acquire
  <2> QED
    BY <1>0, <1>a, <1>b, <2>1, Zenon DEF OwnInv, StaysInv, StrangerInv, InTurn, Staged, Complete, OnDisk, Opened, Locked
<1>4. CASE PublishBinding(p)
  <2>1. /\ LeavesOthers(p) /\ my'[p] = my[p] /\ snap'[p] = snap[p] /\ stage'[p] = stage[p]
        /\ pc[p] = "pBinding" /\ pc'[p] \in {"pRename", "plain"}
    BY <1>0, <1>t, <1>4, Zenon DEF PublishBinding
  <2> QED
    BY <1>0, <1>a, <1>b, <2>1, Zenon DEF OwnInv, StaysInv, StrangerInv, InTurn, Staged, Complete, OnDisk, Opened, Locked
<1>5. CASE PublishVerify(p)
  <2>1. /\ LeavesOthers(p) /\ my'[p] = my[p] /\ snap'[p] = snap[p] /\ stage'[p] = stage[p]
        /\ pc[p] = "pVerify" /\ pc'[p] \in {"published", "uncertain", "unread"}
    BY <1>0, <1>t, <1>5, Zenon DEF PublishVerify
  <2> QED
    BY <1>0, <1>a, <1>b, <2>1, Zenon DEF OwnInv, StaysInv, StrangerInv, InTurn, Staged, Complete, OnDisk, Opened, Locked
<1>6. CASE ExchangeLock(p)
  <2>1. /\ LeavesOthers(p) /\ my'[p] = my[p] /\ snap'[p] = snap[p] /\ stage'[p] = stage[p]
        /\ pc[p] = "exchange" /\ pc'[p] = "xOpen"
        /\ \A q \in Proc : Free(q)
    BY <1>0, <1>t, <1>6, Zenon DEF ExchangeLock, Acquire
  <2> QED
    BY <1>0, <1>a, <1>b, <2>1, Zenon DEF OwnInv, StaysInv, StrangerInv, InTurn, Staged, Complete, OnDisk, Opened, Locked
<1>7. CASE ExchangeOpen(p)
  <2>1. /\ LeavesOthers(p) /\ my'[p] = my[p]
        /\ pc[p] = "xOpen" /\ pc'[p] \in {"xSync", "plain"}
        /\ snap'[p] = snap[p]
        /\ pc'[p] = "xSync" => bind[Dest] = snap[p].tree /\ stage'[p].tree = bind[my[p]]
    BY <1>0, <1>t, <1>7, Zenon DEF ExchangeOpen
  <2> QED
    BY <1>0, <1>a, <1>b, <2>1, Zenon DEF OwnInv, StaysInv, StrangerInv, InTurn, Staged, Complete, OnDisk, Opened, Locked
<1>8. CASE ExchangeCompare(p)
  <2>1. /\ LeavesOthers(p) /\ my'[p] = my[p] /\ snap'[p] = snap[p] /\ stage'[p] = stage[p]
        /\ pc[p] = "xCompare" /\ pc'[p] \in {"xBinding", "plain"}
    BY <1>0, <1>t, <1>8, Zenon DEF ExchangeCompare
  <2> QED
    BY <1>0, <1>a, <1>b, <2>1, Zenon DEF OwnInv, StaysInv, StrangerInv, InTurn, Staged, Complete, OnDisk, Opened, Locked
<1>9. CASE ExchangeBinding(p)
  <2>1. /\ LeavesOthers(p) /\ my'[p] = my[p] /\ snap'[p] = snap[p] /\ stage'[p] = stage[p]
        /\ pc[p] = "xBinding" /\ pc'[p] \in {"xExchange", "plain"}
    BY <1>0, <1>t, <1>9, Zenon DEF ExchangeBinding
  <2> QED
    BY <1>0, <1>a, <1>b, <2>1, Zenon DEF OwnInv, StaysInv, StrangerInv, InTurn, Staged, Complete, OnDisk, Opened, Locked
<1>10. CASE ExchangeMeasure(p)
  <2>1. /\ LeavesOthers(p) /\ my'[p] = my[p] /\ snap'[p] = snap[p] /\ stage'[p] = stage[p]
        /\ pc[p] = "xMeasure" /\ pc'[p] \in {"xDurable", "xSwapBack"}
    BY <1>0, <1>t, <1>10, Zenon DEF ExchangeMeasure
  <2> QED
    BY <1>0, <1>a, <1>b, <2>1, Zenon DEF OwnInv, StaysInv, StrangerInv, InTurn, Staged, Complete, OnDisk, Opened, Locked
<1>11. CASE Restored(p)
  <2>1. /\ LeavesOthers(p) /\ my'[p] = my[p] /\ snap'[p] = snap[p] /\ stage'[p] = stage[p]
        /\ pc[p] = "xRestored" /\ pc'[p] \in {"plain", "uncertain"}
    BY <1>0, <1>t, <1>11, Zenon DEF Restored
  <2> QED
    BY <1>0, <1>a, <1>b, <2>1, Zenon DEF OwnInv, StaysInv, StrangerInv, InTurn, Staged, Complete, OnDisk, Opened, Locked
<1>12. CASE ExchangeVerify(p)
  <2>1. /\ LeavesOthers(p) /\ my'[p] = my[p] /\ snap'[p] = snap[p] /\ stage'[p] = stage[p]
        /\ pc[p] = "xVerify" /\ pc'[p] \in {"exchanged", "uncertain"}
    BY <1>0, <1>t, <1>12, Zenon DEF ExchangeVerify
  <2> QED
    BY <1>0, <1>a, <1>b, <2>1, Zenon DEF OwnInv, StaysInv, StrangerInv, InTurn, Staged, Complete, OnDisk, Opened, Locked
<1> QED
  BY <1>a, <1>1, <1>2, <1>3, <1>4, <1>5, <1>6, <1>7, <1>8, <1>9, <1>10, <1>11, <1>12, Zenon

\* The binding after an exchange.
LEMMA SwappedFacts ==
    ASSUME DeployInv, NEW p \in Proc, pc[p] # "idle"
    PROVE  /\ my[p] # Dest /\ my[p] \in 1..calls
           /\ Swapped(p)[Dest] = bind[my[p]] /\ Swapped(p)[my[p]] = bind[Dest]
           /\ \A n \in Name \ {Dest, my[p]} : Swapped(p)[n] = bind[n]
           /\ \A m, n \in Name : Swapped(p)[m] = Swapped(p)[n] /\ Swapped(p)[m] # NoTree => m = n
           /\ \A n \in Name : Swapped(p)[n] \in Call => Swapped(p)[n] <= calls
<1>1. my[p] \in 1..calls /\ my[p] # Dest /\ my[p] \in Name /\ Dest \in Name /\ bind \in disk
  BY ProcessTypes, DestApart, ZenonT(30) DEF DeployInv, OwnInv
<1>2. bind \in [Name -> Tree \cup {NoTree}]
  BY Zenon DEF DeployInv, DeployTypeOK
<1>3. /\ Swapped(p)[Dest] = bind[my[p]] /\ Swapped(p)[my[p]] = bind[Dest]
      /\ \A n \in Name \ {Dest, my[p]} : Swapped(p)[n] = bind[n]
  BY <1>1, <1>2, Zenon DEF Swapped
<1>4. /\ \A m, n \in Name : bind[m] = bind[n] /\ bind[m] # NoTree => m = n
      /\ \A n \in Name : bind[n] \in Call => bind[n] <= calls
  BY <1>1, Zenon DEF DeployInv, NamesInv
<1> QED
  BY <1>1, <1>3, <1>4

\* The binding at the beginning of a call.
LEMMA BeginFacts ==
    ASSUME DeployInv, NEW p \in Proc, Begin(p)
    PROVE  /\ calls' = calls + 1 /\ calls + 1 \in Call /\ calls + 1 \in Name /\ calls + 1 # Dest
           /\ bind'[calls + 1] = calls + 1 /\ \A n \in Name \ {calls + 1} : bind'[n] = bind[n]
           /\ \A b \in disk : \A n \in Name : b[n] # calls + 1
           /\ disk' = disk \cup {bind'} /\ my'[p] = calls + 1 /\ pc'[p] = "copy" /\ moves' = moves
<1>1. calls \in Nat /\ calls + 1 \in Call /\ calls + 1 \in Name /\ calls + 1 # Dest /\ ~ (calls + 1 <= calls)
  BY ProcessTypes DEF Begin, Call, Name, Dest, DeployInv
<1>2. /\ bind'[calls + 1] = calls + 1 /\ \A n \in Name \ {calls + 1} : bind'[n] = bind[n]
      /\ disk' = disk \cup {bind'} /\ my'[p] = calls + 1 /\ pc'[p] = "copy" /\ moves' = moves /\ calls' = calls + 1
  BY <1>1, Zenon DEF Begin, Bind, Goto, DeployInv, DeployTypeOK
<1> QED
  BY <1>1, <1>2, Zenon DEF DeployInv, NamesInv

\* The steps that build, publish or exchange the tree.
LEMMA BuildStep ==
    ASSUME DeployInv, NEW p \in Proc,
           \/ Begin(p) \/ Copy(p) \/ PublishCheck(p) \/ PublishRename(p) \/ PublishSync(p)
           \/ ExchangeSync(p) \/ Exchange(p) \/ SwapBack(p) \/ ExchangeDurable(p)
    PROVE  LeavesOthers(p) /\ InTurn(p) /\ OwnInv(p)' /\ StaysInv(p)' /\ StrangerInv(p)'
<1>0. /\ OwnInv(p) /\ StaysInv(p) /\ StrangerInv(p)
      /\ bind[Dest] \in Tree \cup {NoTree} /\ bind[my[p]] \in Tree \cup {NoTree} /\ bind \in disk /\ calls \in Nat
      /\ bind[Dest] # NoTree => content[bind[Dest]] >= Built /\ bind[Dest] \in synced
  BY ProcessTypes, Zenon DEF DeployInv, DestinationWhole
<1>t. /\ pc \in [Proc -> DeploySteps] /\ my \in [Proc -> 0..MaxCalls]
      /\ snap \in [Proc -> Measurement] /\ stage \in [Proc -> Measurement]
      /\ \A t \in Tree \cup {NoTree} : Version(t).tree = t
  BY VersionType, Zenon DEF DeployInv, DeployTypeOK
<1>a. /\ my[p] \in Name /\ Dest \in Name /\ 1..calls \subseteq Tree
      /\ bind \in [Name -> Tree \cup {NoTree}] /\ content \in [Tree -> 0..MaxVersion]
  BY ProcessTypes, Zenon DEF DeployInv, DeployTypeOK
<1> USE DEF At, Goto, Bind, LeavesOthers
<1>1. CASE Begin(p)
  <2>1. LeavesOthers(p) /\ snap'[p] = snap[p] /\ stage'[p] = stage[p] /\ pc[p] = "idle"
    BY <1>0, <1>t, <1>1, Zenon DEF Begin
  <2>2. calls + 1 > calls /\ calls + 1 \in 1..(calls + 1)
    BY <1>0
  <2>3. /\ my'[p] = calls + 1 /\ bind'[my'[p]] = my'[p] /\ my'[p] # Dest
        /\ \A b \in disk' : b[Dest] # my'[p]
    BY <1>0, <1>1, <1>a, BeginFacts
  <2> QED
    BY <1>1, <2>1, <2>2, <2>3, BeginFacts, Zenon DEF OwnInv, StaysInv, StrangerInv, InTurn, Staged, Complete, OnDisk, Opened, Locked
<1>2. CASE Copy(p)
  <2>1. /\ LeavesOthers(p) /\ my'[p] = my[p] /\ snap'[p] = snap[p] /\ stage'[p] = stage[p]
        /\ pc[p] = "copy" /\ pc'[p] \in {"measure", "plain"}
        /\ bind' = bind /\ disk' = disk /\ synced' = synced /\ moves' = moves /\ calls' = calls
        /\ pc'[p] = "measure" => content'[my[p]] = Built
    BY <1>0, <1>t, <1>2, <1>a, ZenonT(30) DEF Copy, OwnInv
  <2>2. Built >= Built
    BY DEF Built
  <2> QED
    BY <1>0, <2>1, <2>2, Zenon DEF OwnInv, StaysInv, StrangerInv, InTurn, Staged, Complete, OnDisk, Opened, Locked
<1>3. CASE PublishCheck(p)
  <2>1. /\ LeavesOthers(p) /\ my'[p] = my[p]
        /\ pc[p] = "pCheck" /\ pc'[p] \in {"pBinding", "plain"}
        /\ snap'[p] = snap[p]
        /\ bind' = bind /\ disk' = disk /\ content' = content /\ moves' = moves /\ calls' = calls
        /\ pc'[p] = "pBinding" => bind[my[p]] \in synced' /\ stage'[p].tree = bind[my[p]]
    BY <1>0, <1>t, <1>3, <1>a, ZenonT(30) DEF PublishCheck
  <2> QED
    BY <1>0, <2>1, Zenon DEF OwnInv, StaysInv, StrangerInv, InTurn, Staged, Complete, OnDisk, Opened, Locked
<1>4. CASE PublishRename(p)
  <2>1. /\ LeavesOthers(p) /\ my'[p] = my[p] /\ snap'[p] = snap[p] /\ stage'[p] = stage[p]
        /\ pc[p] = "pRename" /\ pc'[p] \in {"pSync", "plain"}
        /\ content' = content /\ synced' = synced /\ moves' = moves /\ calls' = calls
        /\ pc'[p] = "pSync" => bind'[Dest] = bind[my[p]] /\ bind'[my[p]] = NoTree
        /\ pc'[p] = "plain" => bind' = bind /\ disk' = disk
    BY <1>0, <1>t, <1>4, <1>a, ZenonT(30) DEF PublishRename, OwnInv, Dest
  <2> QED
    BY <1>0, <2>1, Zenon DEF OwnInv, StaysInv, StrangerInv, InTurn, Staged, Complete, OnDisk, Opened, Locked
<1>5. CASE PublishSync(p)
  <2>1. /\ LeavesOthers(p) /\ my'[p] = my[p] /\ snap'[p] = snap[p] /\ stage'[p] = stage[p]
        /\ pc[p] = "pSync" /\ pc'[p] \in {"pVerify", "uncertain"}
        /\ bind' = bind /\ content' = content /\ synced' = synced /\ moves' = moves /\ calls' = calls
        /\ pc'[p] = "pVerify" => disk' = {bind}
    BY <1>0, <1>t, <1>5, <1>a, Zenon DEF PublishSync
  <2> QED
    BY <1>0, <2>1, Zenon DEF OwnInv, StaysInv, StrangerInv, InTurn, Staged, Complete, OnDisk, Opened, Locked
<1>6. CASE ExchangeSync(p)
  <2>1. /\ LeavesOthers(p) /\ my'[p] = my[p] /\ snap'[p] = snap[p] /\ stage'[p] = stage[p]
        /\ pc[p] = "xSync" /\ pc'[p] \in {"xCompare", "plain"}
        /\ bind' = bind /\ disk' = disk /\ content' = content /\ moves' = moves /\ calls' = calls
        /\ pc'[p] = "xCompare" => stage[p].tree \in synced'
    BY <1>0, <1>t, <1>6, <1>a, Zenon DEF ExchangeSync
  <2> QED
    BY <1>0, <2>1, Zenon DEF OwnInv, StaysInv, StrangerInv, InTurn, Staged, Complete, OnDisk, Opened, Locked
<1>7. CASE Exchange(p)
  <2>0. Swapped(p)[Dest] = bind[my[p]] /\ Swapped(p)[my[p]] = bind[Dest]
    BY <1>7, SwappedFacts, Zenon DEF Exchange
  <2>1. /\ LeavesOthers(p) /\ my'[p] = my[p] /\ snap'[p] = snap[p] /\ stage'[p] = stage[p]
        /\ pc[p] = "xExchange" /\ pc'[p] \in {"xMeasure", "plain"}
        /\ content' = content /\ synced' = synced /\ moves' = moves /\ calls' = calls
        /\ pc'[p] = "xMeasure" => bind[Dest] # NoTree /\ bind'[Dest] = bind[my[p]] /\ bind'[my[p]] = bind[Dest]
        /\ pc'[p] = "plain" => bind' = bind /\ disk' = disk
    BY <1>0, <1>t, <1>7, <2>0, Zenon DEF Exchange
  <2> QED
    BY <1>0, <2>1, Zenon DEF OwnInv, StaysInv, StrangerInv, InTurn, Staged, Complete, OnDisk, Opened, Locked
<1>8. CASE SwapBack(p)
  <2>0. Swapped(p)[Dest] = bind[my[p]] /\ Swapped(p)[my[p]] = bind[Dest] /\ my[p] # Dest
    BY <1>8, SwappedFacts, Zenon DEF SwapBack
  <2>2. bind[my[p]] # NoTree => bind[my[p]] # bind[Dest]
    BY <1>0, <1>a, <2>0, Zenon DEF DeployInv, NamesInv
  <2>3. bind[my[p]] # NoTree
    BY <1>0, <1>8, Zenon DEF SwapBack, OwnInv
  <2>1. /\ LeavesOthers(p) /\ my'[p] = my[p] /\ snap'[p] = snap[p] /\ stage'[p] = stage[p]
        /\ pc[p] = "xSwapBack" /\ pc'[p] \in {"xRestored", "uncertain"}
        /\ content' = content /\ synced' = synced /\ moves' = moves /\ calls' = calls
        /\ pc'[p] = "xRestored" => /\ bind[Dest] = stage[p].tree /\ bind'[Dest] = bind[my[p]] /\ bind'[my[p]] = bind[Dest]
                               /\ disk' = {bind'} /\ bind[my[p]] # bind[Dest]
    BY <1>0, <1>t, <1>8, <2>0, <2>2, <2>3, Zenon DEF SwapBack
  <2> QED
    BY <1>0, <2>1, ZenonT(30) DEF OwnInv, StaysInv, StrangerInv, InTurn, Staged, Complete, OnDisk, Opened, Locked
<1>9. CASE ExchangeDurable(p)
  <2>1. /\ LeavesOthers(p) /\ my'[p] = my[p] /\ snap'[p] = snap[p] /\ stage'[p] = stage[p]
        /\ pc[p] = "xDurable" /\ pc'[p] \in {"xVerify", "uncertain"}
        /\ bind' = bind /\ content' = content /\ synced' = synced /\ moves' = moves /\ calls' = calls
        /\ pc'[p] = "xVerify" => disk' = {bind}
    BY <1>0, <1>t, <1>9, <1>a, Zenon DEF ExchangeDurable
  <2> QED
    BY <1>0, <2>1, Zenon DEF OwnInv, StaysInv, StrangerInv, InTurn, Staged, Complete, OnDisk, Opened, Locked
<1> QED
  BY <1>1, <1>2, <1>3, <1>4, <1>5, <1>6, <1>7, <1>8, <1>9, Zenon

\* A step that binds nothing, and perhaps syncs the directory.
LEMMA SameBinding ==
    ASSUME DeployInv, NEW p \in Proc, bind' = bind, disk' = disk \/ disk' = {bind}, calls' = calls
    PROVE  Binds(p) /\ BindsDest(p)
<1>1. bind \in disk /\ NamesInv
  BY ProcessTypes, Zenon DEF DeployInv
<1> QED
  BY <1>1, Zenon DEF Binds, BindsDest, NamesInv

\* A step that changes no more than the names, the content and what is synced.
LEMMA KeepsRest ==
    ASSUME DeployInv, NEW p \in Proc, Binds(p), BindsDest(p), Takes(p),
           moves' = moves, calls' = calls, synced' = synced \/ synced \subseteq synced'
    PROVE  Contained(p)
  BY ProcessTypes DEF DeployInv, Contained

LEMMA SameContent ==
    ASSUME NEW p \in Proc, content' = content
    PROVE  Takes(p)
  BY Zenon DEF Takes

\* What they do to the directory.
LEMMA BuildContained ==
    ASSUME DeployInv, NEW p \in Proc,
           \/ Begin(p) \/ Copy(p) \/ PublishCheck(p) \/ PublishRename(p) \/ PublishSync(p)
           \/ ExchangeSync(p) \/ Exchange(p) \/ SwapBack(p) \/ ExchangeDurable(p)
    PROVE  Contained(p)
<1>0. /\ OwnInv(p) /\ my[p] \in Name /\ Dest \in Name /\ calls \in Nat /\ moves \in Nat /\ bind \in disk
      /\ pc \in [Proc -> DeploySteps]
  BY ProcessTypes, Zenon DEF DeployInv, DeployTypeOK
<1>a. /\ bind \in [Name -> Tree \cup {NoTree}] /\ content \in [Tree -> 0..MaxVersion]
      /\ bind[Dest] \in Tree \cup {NoTree} /\ bind[my[p]] \in Tree \cup {NoTree} /\ 1..calls \subseteq Tree
  BY ProcessTypes, Zenon DEF DeployInv, DeployTypeOK
<1>b. /\ \A m, n \in Name : bind[m] = bind[n] /\ bind[m] # NoTree => m = n
      /\ \A n \in Name : bind[n] \in Call => bind[n] <= calls
      /\ NoTree \notin Call
  BY ProcessTypes, Zenon DEF DeployInv, NamesInv
<1>c. /\ bind[Dest] # NoTree => content[bind[Dest]] >= Built /\ bind[Dest] \in synced
      /\ Stranger \notin 1..calls /\ StrangerInv(p)
  BY ProcessTypes, Zenon DEF DeployInv, DestinationWhole
<1> USE DEF At, Goto, Bind, Contained
<1>1. CASE Begin(p)
  <2>1. Binds(p)
    <3>0. calls + 1 \notin 1..calls /\ \A c \in Call : c <= calls => c <= calls + 1
      BY <1>0 DEF Call
    <3>1. /\ bind'[calls + 1] = calls + 1 /\ \A n \in Name \ {calls + 1} : bind'[n] = bind[n]
          /\ \A n \in Name : bind[n] # calls + 1
          /\ disk' = disk \cup {bind'} /\ calls' = calls + 1
      BY <1>0, <1>1, BeginFacts, Zenon
    <3>2. \A n \in Name : n \in 1..calls /\ n # my[p] => bind'[n] = bind[n]
      BY <3>0, <3>1, Zenon
    <3>3. \A m, n \in Name : bind'[m] = bind'[n] /\ bind'[m] # NoTree => m = n
      BY <1>b, <3>1, Zenon
    <3>4. \A n \in Name : bind'[n] \in Call => bind'[n] <= calls'
      <4>1. calls + 1 <= calls + 1
        BY <1>0
      <4> QED
        BY <1>b, <3>0, <3>1, <4>1, Zenon
    <3> QED
      BY <3>1, <3>2, <3>3, <3>4, Zenon DEF Binds
  <2>2. BindsDest(p)
    BY <1>0, <1>1, BeginFacts, Zenon DEF BindsDest
  <2>3. \A t \in Tree : t = calls + 1 \/ content'[t] = content[t]
    BY <1>0, <1>b, <1>1, <1>a, ZenonT(30) DEF Begin
  <2>4. Takes(p)
    BY <1>0, <1>1, <2>3, BeginFacts DEF Takes
  <2> QED
    BY <1>0, <1>1, <2>1, <2>2, <2>4, BeginFacts DEF Begin
<1>2. CASE Copy(p)
  <2>1. my[p] \in 1..calls
    BY <1>0, <1>2, Zenon DEF OwnInv, Copy
  <2>2. Takes(p)
    <3>1. Built >= Built
      BY DEF Built
    <3>2. \A t \in Tree : content'[t] = content[t] \/ (t = my[p] /\ content'[t] = Built)
      <4>1. CASE content' = content
        BY <4>1, Zenon
      <4>2. CASE content' = [content EXCEPT ![my[p]] = Built]
        BY <1>a, <4>2, Zenon
      <4> QED
        BY <1>2, <4>1, <4>2, Zenon DEF Copy
    <3>3. my[p] \in Tree /\ my[p] <= calls
      BY <1>0, <1>a, <2>1, UpTo, Zenon
    <3> QED
      BY <3>1, <3>2, <3>3, Zenon DEF Takes
  <2> QED
    BY <1>2, <2>2, SameBinding, KeepsRest, Zenon DEF Copy
<1>3. CASE PublishCheck(p)
  BY <1>3, SameBinding, SameContent, KeepsRest, Zenon DEF PublishCheck
<1>4. CASE PublishRename(p)
  <2>1. CASE bind' = bind /\ disk' = disk
    BY <1>4, <2>1, SameBinding, SameContent, KeepsRest, Zenon DEF PublishRename
  <2>2. CASE bind[Dest] = NoTree /\ Bind([bind EXCEPT ![Dest] = bind[my[p]], ![my[p]] = NoTree], FALSE)
    <3>1. my[p] # Dest /\ my[p] \in 1..calls /\ bind[my[p]] = my[p] /\ content[my[p]] >= Built /\ my[p] \in synced
      BY <1>0, <1>4, DestApart, Zenon DEF PublishRename, OwnInv, Staged, Complete, OnDisk
    <3>2. /\ bind'[Dest] = my[p] /\ bind'[my[p]] = NoTree /\ \A n \in Name \ {Dest, my[p]} : bind'[n] = bind[n]
          /\ disk' = disk \cup {bind'}
      BY <1>0, <1>a, <2>2, <3>1, Zenon
    <3>3. Binds(p)
      <4>1. disk' = disk \cup {bind'} /\ calls' = calls /\ Dest \notin 1..calls
        BY <1>4, <3>2, DestApart, Zenon DEF PublishRename
      <4>2. \A n \in Name : n \in 1..calls /\ n # my[p] => bind'[n] = bind[n]
        BY <1>0, <1>b, <4>1, <3>1, <3>2, Zenon
      <4>3. \A m, n \in Name : bind'[m] = bind'[n] /\ bind'[m] # NoTree => m = n
        BY <1>0, <1>b, <4>1, <3>1, <3>2
      <4>4. \A n \in Name : bind'[n] \in Call => bind'[n] <= calls'
        BY <1>0, <1>b, <4>1, <3>1, <3>2, Zenon
      <4> QED
        BY <4>1, <4>2, <4>3, <4>4, Zenon DEF Binds
    <3>4. BindsDest(p)
      <4>1. pc[p] \in Locked /\ my[p] # Stranger /\ bind[Dest] # Stranger
        BY <1>4, <1>c, <2>2, <3>1, ProcessTypes, Zenon DEF PublishRename, Locked, DeployInv
      <4> QED
        BY <1>4, <3>1, <3>2, <4>1, Zenon DEF PublishRename, BindsDest
    <3> QED
      BY <1>4, <3>3, <3>4, SameContent, KeepsRest, Zenon DEF PublishRename
  <2> QED
    BY <1>4, <2>1, <2>2, Zenon DEF PublishRename
<1>5. CASE PublishSync(p)
  BY <1>5, SameBinding, SameContent, KeepsRest, Zenon DEF PublishSync
<1>6. CASE ExchangeSync(p)
  BY <1>6, SameBinding, SameContent, KeepsRest, Zenon DEF ExchangeSync
<1>7. CASE Exchange(p)
  <2>1. CASE bind' = bind /\ disk' = disk
    BY <1>7, <2>1, SameBinding, SameContent, KeepsRest, Zenon DEF Exchange
  <2>2. CASE bind[Dest] # NoTree /\ Bind(Swapped(p), FALSE)
    <3>1. pc[p] = "xExchange" /\ bind[my[p]] = my[p] /\ content[my[p]] >= Built /\ my[p] \in synced
      BY <1>0, <1>7, Zenon DEF Exchange, OwnInv, Staged, Complete, OnDisk
    <3>2. Binds(p)
      <4>1. disk' = disk \cup {bind'} /\ bind' = Swapped(p) /\ calls' = calls /\ Dest \notin 1..calls
        BY <1>7, <2>2, DestApart, Zenon DEF Exchange
      <4>2. \A n \in Name : n \in 1..calls /\ n # my[p] => bind'[n] = bind[n]
        BY <1>0, <1>b, <4>1, <3>1, SwappedFacts, Zenon
      <4>3. \A m, n \in Name : bind'[m] = bind'[n] /\ bind'[m] # NoTree => m = n
        BY <1>0, <1>b, <4>1, <3>1, SwappedFacts
      <4>4. \A n \in Name : bind'[n] \in Call => bind'[n] <= calls'
        BY <1>0, <1>b, <4>1, <3>1, SwappedFacts, Zenon
      <4> QED
        BY <4>1, <4>2, <4>3, <4>4, Zenon DEF Binds
    <3>3. BindsDest(p)
      <4>1. bind' = Swapped(p) /\ bind'[Dest] = my[p] /\ pc[p] \in Locked /\ my[p] # Stranger
        BY <1>c, <2>2, <3>1, SwappedFacts, Zenon DEF Locked
      <4>2. bind[Dest] = Stranger => moves > 0
        <5>1. bind[Dest] = Stranger => moves > 0 \/ moves > 1
          BY <1>c, <3>1, Zenon DEF StrangerInv, Locked
        <5> QED
          BY <1>0, <5>1, MoreThanOne, Zenon
      <4> QED
        BY <1>7, <3>1, <4>1, <4>2, Zenon DEF Exchange, BindsDest
    <3> QED
      BY <1>7, <3>2, <3>3, SameContent, KeepsRest, Zenon DEF Exchange
  <2> QED
    BY <1>7, <2>1, <2>2, Zenon DEF Exchange
<1>8. CASE SwapBack(p)
  <2>1. CASE bind' = bind /\ disk' = disk
    BY <1>8, <2>1, SameBinding, SameContent, KeepsRest, Zenon DEF SwapBack
  <2>2. CASE /\ bind[my[p]] = snap[p].tree /\ bind[Dest] = stage[p].tree
             /\ Bind(Swapped(p), FALSE) \/ Bind(Swapped(p), TRUE)
    <3>1. /\ pc[p] = "xSwapBack" /\ bind[Dest] = my[p] /\ my[p] \in 1..calls
          /\ bind[my[p]] # NoTree /\ content[bind[my[p]]] >= Built /\ bind[my[p]] \in synced
      BY <1>0, <1>8, <2>2, Zenon DEF SwapBack, OwnInv, Opened
    <3>2. Binds(p)
      <4>1. disk' \subseteq disk \cup {bind'} /\ bind' \in disk' /\ bind' = Swapped(p) /\ calls' = calls /\ Dest \notin 1..calls
        BY <1>8, <2>2, DestApart, Zenon DEF SwapBack
      <4>2. \A n \in Name : n \in 1..calls /\ n # my[p] => bind'[n] = bind[n]
        BY <1>0, <1>b, <4>1, <3>1, SwappedFacts, Zenon
      <4>3. \A m, n \in Name : bind'[m] = bind'[n] /\ bind'[m] # NoTree => m = n
        BY <1>0, <1>b, <4>1, <3>1, SwappedFacts
      <4>4. \A n \in Name : bind'[n] \in Call => bind'[n] <= calls'
        BY <1>0, <1>b, <4>1, <3>1, SwappedFacts, Zenon
      <4> QED
        BY <4>1, <4>2, <4>3, <4>4, Zenon DEF Binds
    <3>3. BindsDest(p)
      <4>1. bind' = Swapped(p) /\ bind'[Dest] = bind[my[p]] /\ pc[p] \in Locked /\ bind[Dest] # Stranger
        BY <1>c, <2>2, <3>1, SwappedFacts, Zenon DEF Locked
      <4>2. bind[my[p]] = Stranger => moves > 1
        BY <1>c, <2>2, <3>1, Zenon DEF StrangerInv, Locked
      <4> QED
        BY <1>8, <3>1, <4>1, <4>2, Zenon DEF SwapBack, BindsDest
    <3> QED
      BY <1>8, <3>2, <3>3, SameContent, KeepsRest, Zenon DEF SwapBack
  <2> QED
    BY <1>8, <2>1, <2>2, Zenon DEF SwapBack
<1>9. CASE ExchangeDurable(p)
  BY <1>9, SameBinding, SameContent, KeepsRest, Zenon DEF ExchangeDurable
<1> QED
  BY <1>1, <1>2, <1>3, <1>4, <1>5, <1>6, <1>7, <1>8, <1>9, Zenon

\* The ends of a call, and the removal of a stage or of the previous deployment.
LEMMA EndStep ==
    ASSUME DeployInv, NEW p \in Proc,
           \/ Published(p) \/ Uncertain(p) \/ RemovePrevious(p) \/ RemoveRoot(p) \/ CleanUp(p)
           \/ RemoveStage(p) \/ Die(p)
    PROVE  LeavesOthers(p) /\ InTurn(p) /\ OwnInv(p)' /\ StaysInv(p)' /\ StrangerInv(p)'
<1>0. DeployTypeOK /\ OwnInv(p) /\ StaysInv(p) /\ StrangerInv(p) /\ bind[my[p]] \in Tree \cup {NoTree}
  BY ProcessTypes, Zenon DEF DeployInv
<1>1. CASE \E kind : Finish(p, kind)
  BY <1>0, <1>1, FinishStep, Zenon
<1>2. CASE ~ \E kind : Finish(p, kind)
  <2> USE DEF At, Goto, OwnInv, StaysInv, StrangerInv, LeavesOthers, InTurn, DeployTypeOK
  <2>1. CASE RemovePrevious(p)
    BY <1>0, <1>2, <2>1, ZenonT(30) DEF RemovePrevious, Staged, Complete, OnDisk, Opened, Locked
  <2>2. CASE RemoveStage(p)
    BY <1>0, <1>2, <2>2, Zenon DEF RemoveStage, Staged, Complete, OnDisk, Opened, Locked
  <2>3. CASE CleanUp(p)
    <3>1. /\ pc[p] = "plain" /\ pc'[p] = "cleanup" /\ bind[my[p]] = my[p] /\ LeavesOthers(p)
          /\ bind' = bind /\ disk' = disk /\ calls' = calls /\ my' = my
      BY <1>0, <1>2, <2>3, Zenon DEF CleanUp, fsVars, Staged
    <3>2. stage'[p].tree = my[p]
      <4>1. stage' = [stage EXCEPT ![p] = Version(my[p])] /\ stage \in [Proc -> Measurement]
        BY <1>0, <1>2, <2>3, <3>1, Zenon DEF CleanUp
      <4>2. Version(my[p]).tree = my[p]
        BY <1>0, <3>1, VersionType, Zenon
      <4> QED
        BY <4>1, <4>2, Zenon
    <3> QED
      BY <1>0, <3>1, <3>2, Zenon DEF Staged, Complete, OnDisk, Opened, Locked
  <2> QED
    BY <1>2, <2>1, <2>2, <2>3, Zenon DEF Published, Uncertain, RemoveRoot, Die
<1> QED
  BY <1>1, <1>2, Zenon

LEMMA EndContained ==
    ASSUME DeployInv, NEW p \in Proc,
           \/ Published(p) \/ Uncertain(p) \/ RemovePrevious(p) \/ RemoveRoot(p) \/ CleanUp(p)
           \/ RemoveStage(p) \/ Die(p)
    PROVE  Contained(p)
<1>0. /\ OwnInv(p) /\ bind \in [Name -> Tree \cup {NoTree}] /\ content \in [Tree -> 0..MaxVersion]
      /\ bind[my[p]] \in Tree \cup {NoTree} /\ my[p] \in Name /\ Dest \in Name
      /\ calls \in Nat /\ 1..calls \subseteq Tree /\ bind \in disk
      /\ \A b \in disk : \A m, n \in Name : b[m] = b[n] /\ b[m] # NoTree => m = n
      /\ \A n \in Name : bind[n] \in Call => bind[n] <= calls
      /\ NoTree \notin Call
  BY ProcessTypes, Zenon DEF DeployInv, DeployTypeOK, NamesInv
<1>1. CASE UNCHANGED <<fsVars, calls>>
  BY <1>1, QuietStep, Zenon
<1>2. ASSUME pc[p] \in {"exchanged", "rmPrevious", "cleanup", "rmStage"}, bind[my[p]] # NoTree
      PROVE  my[p] \in 1..calls /\ my[p] # Dest /\ \A b \in disk : b[Dest] # bind[my[p]]
  <2>1. my[p] \in 1..calls /\ my[p] # Dest
    BY <1>0, <1>2, DestApart, Zenon DEF OwnInv
  <2>2. CASE pc[p] \in {"exchanged", "rmPrevious"}
    <3>1. \A b \in disk : b[my[p]] = bind[my[p]]
      BY <1>0, <2>2, Zenon DEF OwnInv
    <3> QED
      BY <1>0, <1>2, <2>1, <3>1, ZenonT(30)
  <2>3. CASE pc[p] \in {"cleanup", "rmStage"}
    BY <1>0, <1>2, <2>1, <2>3, Zenon DEF OwnInv, Staged
  <2> QED
    BY <1>2, <2>1, <2>2, <2>3, Zenon
<1>3. CASE RemovePrevious(p) \/ RemoveStage(p)
  <2>1. CASE content' = content
    BY <1>1, <1>3, <2>1, Zenon DEF RemovePrevious, RemoveStage, Finish, fsVars
  <2>2. CASE content' # content
    <3>1. /\ content' = [content EXCEPT ![bind[my[p]]] = Partial] /\ UNCHANGED <<bind, disk, synced, moves, calls>>
          /\ pc[p] \in {"exchanged", "cleanup"}
      BY <1>0, <1>3, <2>2, VersionType, Zenon DEF RemovePrevious, RemoveStage, At, DeployInv
    <3>2. Takes(p)
      <4>1. \A t \in Tree : t # bind[my[p]] => content'[t] = content[t]
        BY <1>0, <3>1, Zenon
      <4>2. bind[my[p]] \in Tree => bind[my[p]] # NoTree
        BY ProcessTypes, Zenon DEF DeployInv
      <4> QED
        BY <1>2, <3>1, <4>1, <4>2, Zenon DEF Takes
    <3> QED
      BY <3>1, <3>2, SameBinding, KeepsRest, Zenon
  <2> QED
    BY <2>1, <2>2, Zenon
<1>4. CASE RemoveRoot(p)
  <2>1. CASE bind' = bind /\ disk' = disk /\ content' = content
    BY <1>1, <1>4, <2>1, Zenon DEF RemoveRoot, Finish, fsVars
  <2>2. CASE /\ Bind([bind EXCEPT ![my[p]] = NoTree], TRUE)
             /\ content' = [content EXCEPT ![bind[my[p]]] = Gone]
    <3>1. pc[p] \in {"rmPrevious", "rmStage"} /\ calls' = calls /\ synced' = synced /\ moves' = moves
      BY <1>4, Zenon DEF RemoveRoot, Finish
    <3>2. my[p] \in 1..calls /\ my[p] # Dest
      BY <1>0, <3>1, DestApart, Zenon DEF OwnInv
    <3>3. bind'[my[p]] = NoTree /\ (\A n \in Name \ {my[p]} : bind'[n] = bind[n]) /\ disk' = {bind'}
      BY <1>0, <2>2, Zenon DEF Bind
    <3>4. Binds(p)
      <4>1. disk' = {bind'} /\ calls' = calls
        BY <3>1, <3>3, Zenon
      <4>2. \A n \in Name : n \in 1..calls /\ n # my[p] => bind'[n] = bind[n]
        BY <1>0, <4>1, <3>2, <3>3, Zenon
      <4>3. \A m, n \in Name : bind'[m] = bind'[n] /\ bind'[m] # NoTree => m = n
        BY <1>0, <4>1, <3>2, <3>3, Zenon
      <4>4. \A n \in Name : bind'[n] \in Call => bind'[n] <= calls'
        BY <1>0, <4>1, <3>2, <3>3, Zenon
      <4> QED
        BY <4>1, <4>2, <4>3, <4>4, Zenon DEF Binds
    <3>6. BindsDest(p)
      BY <1>0, <3>2, <3>3, Zenon DEF BindsDest
    <3>5. Takes(p)
      <4>1. \A t \in Tree : t # bind[my[p]] => content'[t] = content[t]
        BY <1>0, <2>2, Zenon
      <4>2. bind[my[p]] \in Tree => bind[my[p]] # NoTree
        BY ProcessTypes, Zenon DEF DeployInv
      <4> QED
        BY <1>2, <3>1, <4>1, <4>2, Zenon DEF Takes
    <3> QED
      BY <3>1, <3>4, <3>5, <3>6, KeepsRest, Zenon
  <2> QED
    BY <1>4, <2>1, <2>2, Zenon DEF RemoveRoot
<1>5. CASE Published(p) \/ Uncertain(p) \/ CleanUp(p) \/ Die(p)
  BY <1>1, <1>5, Zenon DEF Published, Uncertain, CleanUp, Die, Finish
<1> QED
  BY <1>3, <1>4, <1>5, Zenon

-----------------------------------------------------------------------------
(***************************************************************************)
(* What somebody else does, and a power loss.                              *)
(***************************************************************************)

\* An edit makes a newer version of a whole tree.
LEMMA EditStep ==
    ASSUME DeployInv, Edit
    PROVE  DeployInv'
<1>1. PICK t \in Tree : /\ content[t] \in Built..MaxVersion - 1
                        /\ content' = [content EXCEPT ![t] = content[t] + 1]
  BY Zenon DEF Edit
<1>2. /\ bind' = bind /\ disk' = disk /\ synced' = synced /\ moves' = moves /\ calls' = calls
      /\ pc' = pc /\ my' = my /\ snap' = snap /\ stage' = stage /\ seen' = seen /\ result' = result
  BY Zenon DEF Edit, procVars
<1>3. content \in [Tree -> 0..MaxVersion] /\ MaxVersion \in Nat
  BY PreparedTreeAssumption, Zenon DEF DeployInv, DeployTypeOK
<1>4. content' \in [Tree -> 0..MaxVersion] /\ (\A u \in Tree : content[u] >= Built => content'[u] >= Built)
      /\ \A u \in Tree : content[u] = Gone => content'[u] = Gone
  BY <1>1, <1>3 DEF Built, Gone
<1>5. DeployTypeOK'
  BY <1>2, <1>4, Zenon DEF DeployInv, DeployTypeOK
<1>6. NamesInv' /\ ApartInv'
  BY <1>2, <1>4, PreparedTreeAssumption DEF DeployInv, NamesInv, ApartInv, Call, Tree
<1>7. DestinationWhole'
  <2>1. \A b \in disk : b[Dest] \in Tree \cup {NoTree}
    BY PreparedTreeAssumption DEF DeployInv, DeployTypeOK, Dest, Name
  <2> QED
    BY <1>2, <1>4, <2>1, Zenon DEF DeployInv, DestinationWhole
<1>8. ASSUME NEW p \in Proc PROVE OwnInv(p)' /\ StaysInv(p)' /\ StrangerInv(p)'
  <2>1. OwnInv(p) /\ StaysInv(p) /\ StrangerInv(p) /\ bind[my[p]] \in Tree \cup {NoTree} /\ 1..calls \subseteq Tree
    BY ProcessTypes, Zenon DEF DeployInv
  <2>2. OwnInv(p)'
    BY <1>2, <1>4, <2>1, Zenon DEF OwnInv, Complete
  <2> QED
    BY <1>2, <2>1, <2>2, Zenon DEF StaysInv, StrangerInv
<1> QED
  BY <1>2, <1>5, <1>6, <1>7, <1>8, Zenon DEF DeployInv

\* What is put at the destination is whole, and nobody's stage.
LEMMA MoveStep ==
    ASSUME DeployInv, Move
    PROVE  DeployInv'
<1>1. PICK t \in {NoTree, Stranger} :
          /\ bind[Dest] # t /\ t = Stranger => content[t] >= Built /\ \A n \in Name : bind[n] # Stranger
          /\ Bind([bind EXCEPT ![Dest] = t], FALSE)
  BY Zenon DEF Move
<1>2. /\ moves' = moves + 1 /\ content' = content /\ synced' = synced /\ calls' = calls
      /\ pc' = pc /\ my' = my /\ snap' = snap /\ stage' = stage /\ seen' = seen /\ result' = result
  BY Zenon DEF Move, procVars
<1>3. /\ Dest \in Name /\ bind \in disk /\ bind \in [Name -> Tree \cup {NoTree}] /\ t \in Tree \cup {NoTree}
      /\ t \notin Call /\ moves \in Nat /\ Stranger \in synced /\ moves < MaxMoves
  BY PreparedTreeAssumption DEF DeployInv, DeployTypeOK, Dest, Name, Tree, Call, Move
<1>4. bind'[Dest] = t /\ (\A n \in Name \ {Dest} : bind'[n] = bind[n]) /\ disk' = disk \cup {bind'}
  BY <1>1, <1>3, Zenon DEF Bind
<1>5. DeployTypeOK'
  <2>1. bind' \in [Name -> Tree \cup {NoTree}]
    BY <1>1, <1>3, Zenon DEF Bind
  <2>2. moves' \in 0..MaxMoves
    BY <1>2, <1>3, PreparedTreeAssumption
  <2> QED
    BY <1>2, <1>4, <2>1, <2>2, Zenon DEF DeployInv, DeployTypeOK
<1>6. NamesInv'
  <2>1. \A m, n \in Name : bind[m] = bind[n] /\ bind[m] # NoTree => m = n
    BY <1>3, Zenon DEF DeployInv, NamesInv
  <2>2. \A m, n \in Name : bind'[m] = bind'[n] /\ bind'[m] # NoTree => m = n
    BY <1>1, <1>3, <1>4, <2>1, Zenon
  <2>3. \A n \in Name : bind'[n] \in Call => bind'[n] <= calls
    BY <1>3, <1>4, Zenon DEF DeployInv, NamesInv
  <2> QED
    BY <1>2, <1>4, <2>2, <2>3, ZenonT(30) DEF DeployInv, NamesInv
<1>7. DestinationWhole'
  BY <1>1, <1>2, <1>3, <1>4, Zenon DEF DeployInv, DestinationWhole
<1>8. ApartInv'
  BY <1>2, Zenon DEF DeployInv, ApartInv
<1>9. ASSUME NEW p \in Proc PROVE OwnInv(p)' /\ StaysInv(p)' /\ StrangerInv(p)'
  <2>1. OwnInv(p) /\ StrangerInv(p) /\ my[p] \in Name /\ 1..calls \subseteq Call
    BY ProcessTypes, Zenon DEF DeployInv
  <2>2. CASE pc[p] = "idle"
    BY <1>2, <2>1, <2>2, Zenon DEF OwnInv, StaysInv, StrangerInv, Staged, Complete, OnDisk, Opened, Locked
  <2>3. CASE pc[p] # "idle"
    <3>1. my[p] # Dest /\ my[p] \in Call /\ my[p] # t /\ bind'[my[p]] = bind[my[p]]
      BY <1>3, <1>4, <2>1, <2>3, DestApart, Zenon DEF OwnInv
    <3>2. OwnInv(p)'
      BY <1>2, <1>4, <2>1, <3>1, Zenon DEF OwnInv
    <3>3. StaysInv(p)'
      BY <1>2, <1>3 DEF StaysInv
    <3>4. StrangerInv(p)'
      BY <1>1, <1>2, <1>3, <1>4, <2>1, SMTT(30) DEF StrangerInv
    <3> QED
      BY <3>2, <3>3, <3>4, Zenon
  <2> QED
    BY <2>2, <2>3, Zenon
<1> QED
  BY <1>2, <1>5, <1>6, <1>7, <1>8, <1>9, Zenon DEF DeployInv

\* A power loss ends every call, and leaves what was synced.
LEMMA PowerLossStep ==
    ASSUME DeployInv, DeployPowerLoss
    PROVE  DeployInv'
<1>1. PICK b \in disk : bind' = b /\ disk' = {b}
  BY Zenon DEF DeployPowerLoss
<1>2. /\ content' = [t \in Tree |-> IF t \in synced \/ content[t] = Gone THEN content[t] ELSE Partial]
      /\ pc' = [p \in Proc |-> "idle"] /\ my' = [p \in Proc |-> 0]
      /\ synced' = synced /\ moves' = moves /\ calls' = calls
  BY Zenon DEF DeployPowerLoss
<1>3. DeployTypeOK'
  <2>1. content' \in [Tree -> 0..MaxVersion]
    BY <1>2, PreparedTreeAssumption DEF DeployInv, DeployTypeOK, Partial
  <2>2. /\ pc' \in [Proc -> DeploySteps] /\ my' \in [Proc -> 0..MaxCalls]
        /\ result' \in [Proc -> {"none", "Committed", "RolledBack", "Indeterminate"}]
    BY <1>2, StepNames, PreparedTreeAssumption DEF DeployPowerLoss
  <2>3. /\ snap' \in [Proc -> Measurement] /\ stage' \in [Proc -> Measurement] /\ seen' \in [Proc -> 0..MaxVersion]
    BY NothingType, Zenon DEF DeployPowerLoss
  <2>4. /\ bind' \in [Name -> Tree \cup {NoTree}] /\ bind' \in disk' /\ disk' \subseteq [Name -> Tree \cup {NoTree}]
        /\ synced' \subseteq Tree /\ moves' \in 0..MaxMoves /\ calls' \in 0..MaxCalls
    BY <1>1, <1>2, Zenon DEF DeployInv, DeployTypeOK
  <2> QED
    BY <2>1, <2>2, <2>3, <2>4, Zenon DEF DeployTypeOK
<1>4. NamesInv'
  <2>1. \A c \in Call : c > calls => content'[c] = Gone
    BY <1>2, PreparedTreeAssumption DEF DeployInv, NamesInv, Call, Tree
  <2> QED
    BY <1>1, <1>2, <2>1, Zenon DEF DeployInv, NamesInv
<1>5. DestinationWhole'
  <2>1. b[Dest] # NoTree => content[b[Dest]] >= Built /\ b[Dest] \in synced
    BY Zenon DEF DeployInv, DestinationWhole
  <2>2. b[Dest] # NoTree => content'[b[Dest]] = content[b[Dest]]
    BY <1>2, <2>1, Zenon DEF DeployInv, DeployTypeOK
  <2> QED
    BY <1>1, <1>2, <2>1, <2>2, Zenon DEF DestinationWhole
<1>6. ApartInv'
  BY <1>2, Zenon DEF ApartInv, Locked
<1>7. ASSUME NEW p \in Proc PROVE OwnInv(p)' /\ StaysInv(p)' /\ StrangerInv(p)'
  BY <1>2, Zenon DEF OwnInv, StaysInv, StrangerInv, Staged, Complete, OnDisk, Opened, Locked
<1> QED
  BY <1>2, <1>3, <1>4, <1>5, <1>6, <1>7, Zenon DEF DeployInv

LEMMA DeployStep ==
    ASSUME DeployInv, [DeployNext]_vars
    PROVE  DeployInv'
<1>1. ASSUME NEW p \in Proc, Begin(p) \/ Continue(p) \/ Die(p) PROVE DeployInv'
  <2>1. DeployTypeOK'
    BY <1>1, DeployTypes, Zenon DEF DeployInv
  <2> QED
    BY <1>1, <2>1, AllKeep, LookStep, BuildStep, BuildContained, EndStep, EndContained, Zenon
       DEF Continue, PublicationStep
<1>2. CASE UNCHANGED vars
  <2>1. /\ bind' = bind /\ disk' = disk /\ content' = content /\ synced' = synced /\ moves' = moves /\ calls' = calls
        /\ pc' = pc /\ my' = my /\ snap' = snap /\ stage' = stage /\ seen' = seen /\ result' = result
    BY <1>2, Zenon DEF vars
  <2>2. DeployTypeOK' /\ NamesInv' /\ ApartInv' /\ DestinationWhole'
    BY <2>1, Zenon DEF DeployInv, DeployTypeOK, NamesInv, ApartInv, DestinationWhole
  <2>3. ASSUME NEW p \in Proc PROVE OwnInv(p)' /\ StaysInv(p)' /\ StrangerInv(p)'
    BY <2>1, Zenon DEF DeployInv, OwnInv, StaysInv, StrangerInv
  <2> QED
    BY <2>1, <2>2, <2>3, Zenon DEF DeployInv
<1> QED
  BY <1>1, <1>2, EditStep, MoveStep, PowerLossStep, Zenon DEF DeployNext

LEMMA DeployStart ==
    ASSUME DeployInit
    PROVE  DeployInv
<1>0. /\ disk = {bind} /\ calls = 0 /\ moves = 0 /\ synced = {0, Stranger}
      /\ pc = [p \in Proc |-> "idle"] /\ my = [p \in Proc |-> 0]
      /\ content = [t \in Tree |-> IF t \in Call THEN Gone ELSE Built]
  BY Zenon DEF DeployInit
<1>1. PICK t \in {NoTree, 0, Stranger} : bind = [n \in Name |-> IF n = Dest THEN t ELSE NoTree]
  BY Zenon DEF DeployInit
<1>2. t \in Tree \cup {NoTree} /\ t \notin Call /\ Dest \in Name /\ 0 \in Tree /\ Stranger \in Tree
  BY <1>1, PreparedTreeAssumption DEF Tree, Call, Dest, Name
<1>3. DeployTypeOK
  <2>1. content \in [Tree -> 0..MaxVersion] /\ bind \in [Name -> Tree \cup {NoTree}]
    BY <1>0, <1>1, <1>2, PreparedTreeAssumption DEF Gone, Built
  <2>2. pc \in [Proc -> DeploySteps] /\ my \in [Proc -> 0..MaxCalls]
    BY <1>0, StepNames, PreparedTreeAssumption
  <2>3. /\ snap \in [Proc -> Measurement] /\ stage \in [Proc -> Measurement] /\ seen \in [Proc -> 0..MaxVersion]
        /\ result \in [Proc -> {"none", "Committed", "RolledBack", "Indeterminate"}]
    BY NothingType, Zenon DEF DeployInit
  <2> QED
    BY <1>0, <1>2, <2>1, <2>2, <2>3, PreparedTreeAssumption DEF DeployTypeOK
<1>4. NamesInv
  BY <1>0, <1>1, <1>2, PreparedTreeAssumption DEF NamesInv, Call, Tree
<1>5. DestinationWhole
  BY <1>0, <1>1, <1>2 DEF DestinationWhole, Call, Built
<1>6. ApartInv
  BY <1>0, Zenon DEF ApartInv, Locked
<1>7. ASSUME NEW p \in Proc PROVE OwnInv(p) /\ StaysInv(p) /\ StrangerInv(p)
  BY <1>0, Zenon DEF OwnInv, StaysInv, StrangerInv, Staged, Complete, OnDisk, Opened, Locked
<1> QED
  BY <1>0, <1>3, <1>4, <1>5, <1>6, <1>7, Zenon DEF DeployInv

(***************************************************************************)
(* DestinationsWhole: for any number of processes, calls and moves, what   *)
(* is at the destination, now or after a power loss, is whole and on disk. *)
(***************************************************************************)
THEOREM DestinationsWhole == DeploySpec => []DestinationWhole
<1>1. DeployInit => DeployInv
  BY DeployStart, Zenon
<1>2. DeployInv /\ [DeployNext]_vars => DeployInv'
  BY DeployStep, Zenon
<1>3. DeployInv => DestinationWhole
  BY Zenon DEF DeployInv
<1> QED
  BY <1>1, <1>2, <1>3, PTL DEF DeploySpec

(***************************************************************************)
(* What a step does to the trees, and what a call reports.                 *)
(***************************************************************************)

\* Only the two removals take from a whole tree.
LEMMA RemovalStep ==
    ASSUME DeployInv, [DeployNext]_vars, ~DeployPowerLoss,
           NEW t \in Tree, content[t] >= Built, content'[t] = Partial
    PROVE  \E p \in Proc : \/ RemovePrevious(p) /\ t = snap[p].tree /\ Version(bind[my[p]]) = snap[p]
                           \/ RemoveStage(p) /\ t = stage[p].tree
<1>1. content'[t] # content[t] /\ content \in [Tree -> 0..MaxVersion]
  BY DEF DeployInv, DeployTypeOK, Built, Partial
<1>2. ~ Edit
  <2>1. SUFFICES ASSUME Edit PROVE FALSE
    BY Zenon
  <2>2. PICK u \in Tree : content[u] \in Built..MaxVersion - 1 /\ content' = [content EXCEPT ![u] = content[u] + 1]
    BY <2>1, Zenon DEF Edit
  <2>3. u = t /\ content'[t] = content[t] + 1 /\ content[t] \in Nat
    BY <1>1, <2>2, PreparedTreeAssumption
  <2> QED
    BY <2>3 DEF Built, Partial
<1>3. ~ Move /\ ~ UNCHANGED vars
  BY <1>1, Zenon DEF Move, vars
<1>4. PICK p \in Proc : Begin(p) \/ Continue(p) \/ Die(p)
  BY <1>2, <1>3, Zenon DEF DeployNext
<1>5. ~ Begin(p)
  <2>1. SUFFICES ASSUME Begin(p) PROVE FALSE
    BY Zenon
  <2>2. calls + 1 \in Call /\ content[calls + 1] = Gone /\ calls + 1 \in Tree
    BY <2>1, BeginFacts, ProcessTypes DEF DeployInv, NamesInv, Call, Tree
  <2>3. t = calls + 1
    BY <1>1, <2>1, <2>2, Zenon DEF Begin
  <2> QED
    BY <2>2, <2>3 DEF Gone, Built
<1>6. ~ Copy(p) /\ ~ RemoveRoot(p)
  <2>1. Copy(p) => content'[t] \in {content[t], Built}
    BY <1>1, Zenon DEF Copy
  <2>2. RemoveRoot(p) => content'[t] \in {content[t], Gone}
    BY <1>1, Zenon DEF RemoveRoot
  <2> QED
    BY <1>1, <2>1, <2>2 DEF Built, Partial, Gone
<1>7. RemovePrevious(p) \/ RemoveStage(p)
  BY <1>1, <1>4, <1>5, <1>6, Zenon DEF Continue, PublicationStep, Die, fsVars,
     MeasureDestination, EnsureManaged, PublishLock, PublishCheck, PublishBinding, PublishRename, PublishSync,
     PublishVerify, ExchangeLock, ExchangeOpen, ExchangeSync, ExchangeCompare, ExchangeBinding, Exchange,
     ExchangeMeasure, SwapBack, Restored, ExchangeDurable, ExchangeVerify, Published, Uncertain, CleanUp
<1> QED
  BY <1>1, <1>7, Zenon DEF RemovePrevious, RemoveStage

(***************************************************************************)
(* RemovalsOwn: a deployed tree is removed only by the call that built it  *)
(* or that replaced it in the version it measured, and a tree without our  *)
(* marker only if the destination was moved twice meanwhile.               *)
(***************************************************************************)
THEOREM RemovalsOwn == DeploySpec => RemovesOwn
<1>1. ASSUME DeployInv, [DeployNext]_vars,
             NEW t \in Tree, content[t] >= Built, content'[t] = Partial, ~DeployPowerLoss
      PROVE  /\ t = Stranger => moves > 1
             /\ \E p \in Proc :
                   \/ t = my[p] /\ \A b \in disk : b[Dest] # t
                   \/ Version(t) = snap[p] /\ At(p, "exchanged")
  <2>1. PICK p \in Proc : \/ RemovePrevious(p) /\ t = snap[p].tree /\ Version(bind[my[p]]) = snap[p]
                          \/ RemoveStage(p) /\ t = stage[p].tree
    BY <1>1, RemovalStep, Zenon
  <2>2. OwnInv(p) /\ StrangerInv(p) /\ Stranger \notin 1..calls /\ bind[my[p]] \in Tree \cup {NoTree} /\ DeployTypeOK
    BY <1>1, ProcessTypes, Zenon DEF DeployInv
  <2>3. CASE RemovePrevious(p) /\ t = snap[p].tree /\ Version(bind[my[p]]) = snap[p]
    BY <2>2, <2>3, VersionType, Zenon DEF RemovePrevious, At, StrangerInv
  <2>4. CASE RemoveStage(p) /\ t = stage[p].tree
    BY <2>2, <2>4, Zenon DEF RemoveStage, At, OwnInv, Staged, Opened
  <2> QED
    BY <2>1, <2>3, <2>4, Zenon
<1>2. DeployInv /\ [DeployNext]_vars =>
      \A t \in Tree :
          content[t] >= Built /\ content'[t] = Partial /\ ~DeployPowerLoss =>
             /\ t = Stranger => moves > 1
             /\ \E p \in Proc :
                   \/ t = my[p] /\ \A b \in disk : b[Dest] # t
                   \/ Version(t) = snap[p] /\ At(p, "exchanged")
  BY <1>1, Zenon
<1>3. DeployInit => DeployInv
  BY DeployStart, Zenon
<1>4. DeployInv /\ [DeployNext]_vars => DeployInv'
  BY DeployStep, Zenon
<1> QED
  BY <1>2, <1>3, <1>4, PTL DEF DeploySpec, RemovesOwn

\* A process whose call ends as rolled back never had its tree at the destination; one that lets the lock
\* go after a publication has it there.
LEMMA ReportStep ==
    ASSUME DeployInv, [DeployNext]_vars, NEW p \in Proc
    PROVE  /\ result[p] = "none" /\ result'[p] = "RolledBack" /\ pc[p] # "unread" =>
                \A b \in disk : b[Dest] # my[p]
           /\ p \notin Done /\ pc'[p] \in {"published", "exchanged"} =>
                \A b \in disk : b[Dest] = my[p] \/ moves > 0
<1>0. /\ OwnInv(p) /\ StaysInv(p) /\ moves \in Nat /\ pc \in [Proc -> DeploySteps]
      /\ result \in [Proc -> {"none", "Committed", "RolledBack", "Indeterminate"}]
  BY ProcessTypes, Zenon DEF DeployInv, DeployTypeOK
<1>1. CASE result'[p] = result[p] /\ pc'[p] = pc[p]
  BY <1>1, Zenon DEF Done
<1>2. CASE ~ (result'[p] = result[p] /\ pc'[p] = pc[p])
  <2>1. CASE DeployPowerLoss
    BY <2>1, Zenon DEF DeployPowerLoss
  <2>2. CASE \E q \in Proc : Begin(q) \/ Continue(q) \/ Die(q)
    <3>1. PICK q \in Proc : Begin(q) \/ Continue(q) \/ Die(q)
      BY <2>2, Zenon
    <3>2. q = p
      <4>1. CASE \E kind : Finish(q, kind)
        BY <1>0, <1>2, <4>1, Zenon DEF Finish
      <4>2. CASE (\E step : Goto(q, step)) /\ \E r : result' = [result EXCEPT ![q] = r]
        BY <1>0, <1>2, <4>2, Zenon DEF Goto
      <4>3. CASE (\E step : Goto(q, step)) /\ result' = result
        BY <1>0, <1>2, <4>3, Zenon DEF Goto
      <4> QED
        BY <3>1, <4>1, <4>2, <4>3, ZenonT(30) DEF Begin, Continue, PublicationStep, Die, Copy, Acquire,
           MeasureDestination, EnsureManaged, PublishLock, PublishCheck, PublishBinding, PublishRename, PublishSync,
           PublishVerify, ExchangeLock, ExchangeOpen, ExchangeSync, ExchangeCompare, ExchangeBinding, Exchange,
           ExchangeMeasure, SwapBack, Restored, ExchangeDurable, ExchangeVerify, Published, Uncertain, CleanUp,
           RemovePrevious, RemoveRoot, RemoveStage
    <3>3. ASSUME result[p] = "none", result'[p] = "RolledBack", pc[p] # "unread"
          PROVE  \A b \in disk : b[Dest] # my[p]
      <4>1. pc[p] \in {"rmStage", "plain", "cleanup"}
        BY <1>0, <3>1, <3>2, <3>3, ZenonT(30) DEF Begin, Continue, PublicationStep, Die, Copy, At, Finish,
           MeasureDestination, EnsureManaged, PublishLock, PublishCheck, PublishBinding, PublishRename, PublishSync,
           PublishVerify, ExchangeLock, ExchangeOpen, ExchangeSync, ExchangeCompare, ExchangeBinding, Exchange,
           ExchangeMeasure, SwapBack, Restored, ExchangeDurable, ExchangeVerify, Published, Uncertain, CleanUp,
           RemovePrevious, RemoveRoot, RemoveStage
      <4> QED
        BY <1>0, <4>1, Zenon DEF OwnInv, Staged
    <3>4. ASSUME p \notin Done, pc'[p] \in {"published", "exchanged"}
          PROVE  \A b \in disk : b[Dest] = my[p] \/ moves > 0
      <4>1. pc[p] \in {"pVerify", "xVerify"}
        BY <1>0, <3>1, <3>2, <3>4, ZenonT(30) DEF Begin, Continue, PublicationStep, Die, Copy, At, Finish, Goto, Acquire,
           MeasureDestination, EnsureManaged, PublishLock, PublishCheck, PublishBinding, PublishRename, PublishSync,
           PublishVerify, ExchangeLock, ExchangeOpen, ExchangeSync, ExchangeCompare, ExchangeBinding, Exchange,
           ExchangeMeasure, SwapBack, Restored, ExchangeDurable, ExchangeVerify, Published, Uncertain, CleanUp,
           RemovePrevious, RemoveRoot, RemoveStage
      <4> QED
        BY <1>0, <4>1 DEF StaysInv
    <3> QED
      BY <3>3, <3>4, Zenon
  <2> QED
    BY <1>2, <2>1, <2>2, Zenon DEF DeployNext, Edit, Move, procVars, vars
<1> QED
  BY <1>1, <1>2, Zenon

(***************************************************************************)
(* ReportsTrue: what publish reports of a deployment is so, now and after  *)
(* a power loss.                                                           *)
(***************************************************************************)
THEOREM ReportsTrue == DeploySpec => DeployOutcome
<1>1. DeployInv /\ [DeployNext]_vars =>
      \A p \in Proc :
          /\ result[p] = "none" /\ result'[p] = "RolledBack" /\ pc[p] # "unread" =>
                \A b \in disk : b[Dest] # my[p]
          /\ p \notin Done /\ pc'[p] \in {"published", "exchanged"} =>
                \A b \in disk : b[Dest] = my[p] \/ moves > 0
  BY ReportStep, Zenon
<1>2. DeployInit => DeployInv
  BY DeployStart, Zenon
<1>3. DeployInv /\ [DeployNext]_vars => DeployInv'
  BY DeployStep, Zenon
<1> QED
  BY <1>1, <1>2, <1>3, PTL DEF DeploySpec, DeployOutcome
=============================================================================
