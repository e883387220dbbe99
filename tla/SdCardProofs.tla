---------------------------- MODULE SdCardProofs ----------------------------
(***************************************************************************)
(* Proofs about SdCard, for any number of disks, nodes, mount points and   *)
(* buffers, and for any sequence of disks pulled out and plugged in.       *)
(***************************************************************************)
EXTENDS SdCard, SequenceTheorems, FiniteSetTheorems, WellFoundedInduction, TLAPS

-----------------------------------------------------------------------------
(***************************************************************************)
(* The inductive invariants                                                *)
(***************************************************************************)
SdTypes ==
    /\ scene \in Scenes
    /\ where \in [Nodes -> Disks \cup {NoDisk}] /\ mounts \in [Points -> Disks \cup {NoDisk}]
    /\ card = [d \in Disks |-> card[d]] /\ fd \in Disks \cup {NoDisk}
    /\ events \in Nat /\ looked \in Nat /\ looked <= events

BeforeCopy == {"idle", "verify", "plan", "reverify", "select", "claim", "open", "check"}
AfterPlan == {"reverify", "select", "claim", "open", "check", "copy", "compare", "sync", "readback", "finish"}
Opened == {"check", "copy", "compare", "sync", "readback", "finish"}

\* The open device is that of the confirmed node, for as long as it works.
OpensNode ==
    /\ pc # "idle" => token.sel.node \in Nodes
    /\ pc \in Opened /\ fd # NoDisk => where[token.sel.node] = fd

\* What the scan after the open has seen stays true of the disk while it is written to.
CopiesSafely ==
    pc = "copy" /\ fd # NoDisk =>
        /\ Identity[fd] = token.sel.id
        /\ MountedOf(fd) = {} \/ (platform = "macos" /\ claim # fd)

Written ==
    /\ pc \in BeforeCopy => \A d \in Disks, i \in 1..Chunks : card[d][i] = 0
    /\ pc \in AfterPlan => token.image = artifact
    /\ pc = "finish" /\ fd # NoDisk => \A i \in 1..Chunks : card[fd][i] = artifact

\* What the unmounting command has still to take off, and what it knows while nothing has happened.
TakesOff ==
    /\ upc = "select" => chosen.points # {} /\ chosen.points \subseteq Points
    /\ upc \in {"look", "unmount"} => /\ chosen.points \subseteq Points
                                      /\ left \subseteq chosen.points /\ left # {}
    /\ upc = "unmount" /\ looked = events =>
          Listed(chosen.sel) /\ MountedOf(where[chosen.sel.node]) = left

SdInv == SdTypes /\ OpensNode /\ CopiesSafely /\ Written /\ TakesOff

-----------------------------------------------------------------------------
(***************************************************************************)
(* A nonempty set of mount points has an innermost one.                    *)
(***************************************************************************)
LEMMA MaxInSet ==
    ASSUME NEW S, S \subseteq Points, S # {}
    PROVE  Max(S) \in S
<1>1. PICK n \in Nat : Points = 1..n
  <2>1. Cardinality(Points) \in Nat
    BY SdAssumption, FS_CardinalityType, Zenon
  <2> QED BY SdAssumption, <2>1
<1> DEFINE T == {n - x : x \in S}
<1>2. T \subseteq Nat /\ T # {}
  <2>1. \A x \in S : n - x \in Nat
    BY <1>1
  <2> QED BY <2>1
<1>3. PICK t \in T : \A y \in T : ~ (<<y, t>> \in OpToRel(<, Nat))
  BY <1>2, NatLessThanWellFounded, WFMin, Zenon
<1>4. \A y \in T : ~ (y < t)
  <2>1. ASSUME NEW y \in T, y < t PROVE <<y, t>> \in OpToRel(<, Nat)
    BY <1>2, <2>1, Zenon DEF OpToRel
  <2> QED BY <1>3, <2>1
<1>5. PICK x \in S : t = n - x
  BY <1>3, Zenon
<1>6. \A y \in S : x >= y
  <2>1. ASSUME NEW y \in S PROVE x >= y
    <3>1. ~ (n - y < n - x)
      BY <1>4, <1>5, Zenon
    <3>2. x \in Int /\ y \in Int
      BY <1>1
    <3> QED BY <3>1, <3>2
  <2> QED BY <2>1
<1> QED BY <1>6, Zenon DEF Max

-----------------------------------------------------------------------------
(***************************************************************************)
(* The writing command                                                     *)
(***************************************************************************)
LEMMA SdInvInit ==
    ASSUME SdInit
    PROVE  SdInv
<1>1. SdTypes
  <2>1. Attached \subseteq Disks \cup {NoDisk}
    BY Zenon DEF SdInit, Attached
  <2> QED BY <2>1 DEF SdInit, SdTypes
<1>2. OpensNode /\ CopiesSafely /\ TakesOff
  BY Zenon DEF SdInit, OpensNode, CopiesSafely, TakesOff, Opened
<1>3. Written
  BY Zenon DEF SdInit, Written, BeforeCopy, AfterPlan
<1> QED BY <1>1, <1>2, <1>3 DEF SdInv

LEMMA SameView ==
    ASSUME UNCHANGED <<world, unmounter>>, SdInv
    PROVE  TakesOff'
<1>1. UNCHANGED <<where, mounts, events, upc, chosen, left, looked>>
  BY Zenon DEF world, unmounter
<1>2. MountedOf(where[chosen.sel.node])' = MountedOf(where[chosen.sel.node])
  BY <1>1, Zenon DEF MountedOf
<1>3. Listed(chosen.sel)' = Listed(chosen.sel)
  BY <1>1, Zenon DEF Listed, Inventory, Unambiguous, Fingerprint
<1> QED BY <1>1, <1>2, <1>3 DEF SdInv, TakesOff

LEMMA SameTypes ==
    ASSUME UNCHANGED <<scene, world, unmounter, card>>, fd' \in Disks \cup {NoDisk}, SdInv
    PROVE  SdTypes'
BY Zenon DEF SdInv, SdTypes, world, unmounter

\* A command that has ended, whichever way.
LEMMA WriterEnds ==
    ASSUME SdInv, UNCHANGED <<scene, world, unmounter, card, token>>, pc # "idle", pc' = "done",
           fd' \in {fd, NoDisk}
    PROVE  SdInv'
<1>1. SdTypes' /\ TakesOff'
  BY SameTypes, SameView, Zenon DEF SdInv, SdTypes
<1>2. OpensNode' /\ CopiesSafely' /\ Written'
  BY Zenon DEF SdInv, OpensNode, CopiesSafely, Written, Opened, BeforeCopy, AfterPlan
<1> QED BY <1>1, <1>2 DEF SdInv

LEMMA PreviewStep ==
    ASSUME SdInv, NEW n \in Nodes, Preview(n)
    PROVE  SdInv'
<1>1. /\ UNCHANGED <<scene, world, unmounter, card, artifact, claim, fd>> /\ pc' = "verify" /\ pc = "idle"
      /\ token' = [image |-> image, sel |-> Fingerprint(n)]
  BY Zenon DEF Preview, Only, Goto
<1>2. SdTypes' /\ TakesOff'
  BY <1>1, SameTypes, SameView, Zenon DEF SdInv, SdTypes
<1>3. token'.sel.node = n
  BY <1>1, Zenon DEF Fingerprint
<1>4. OpensNode' /\ CopiesSafely' /\ Written'
  BY <1>1, <1>3, Zenon DEF SdInv, OpensNode, CopiesSafely, Written, Opened, BeforeCopy, AfterPlan
<1> QED BY <1>2, <1>4 DEF SdInv

LEMMA VerifyStep ==
    ASSUME SdInv, Verify
    PROVE  SdInv'
<1>1. CASE image = 0
  BY <1>1, WriterEnds, Zenon DEF Verify, Only, Refuse, Goto
<1>2. CASE image # 0
  <2>1. UNCHANGED <<scene, world, unmounter, card, token, claim, fd>> /\ pc' = "plan" /\ pc = "verify"
    BY <1>2, Zenon DEF Verify, Only, Goto
  <2>2. SdTypes' /\ TakesOff'
    BY <2>1, SameTypes, SameView, Zenon DEF SdInv, SdTypes
  <2>3. OpensNode' /\ CopiesSafely' /\ Written'
    BY <2>1, Zenon DEF SdInv, OpensNode, CopiesSafely, Written, Opened, BeforeCopy, AfterPlan
  <2> QED BY <2>2, <2>3 DEF SdInv
<1> QED BY <1>1, <1>2

\* Steps that only look, until the device is opened.
LEMMA EarlyStep ==
    ASSUME SdInv, UNCHANGED <<scene, world, unmounter, card, token, artifact, fd>>,
           pc \in {"plan", "reverify", "select", "claim"},
           pc' \in {"reverify", "select", "claim", "open"},
           pc = "plan" => token.image = artifact
    PROVE  SdInv'
<1>1. SdTypes' /\ TakesOff'
  BY SameTypes, SameView, Zenon DEF SdInv, SdTypes
<1>2. OpensNode' /\ CopiesSafely'
  BY Zenon DEF SdInv, OpensNode, CopiesSafely, Opened
<1>3. Written'
  BY Zenon DEF SdInv, Written, BeforeCopy, AfterPlan
<1> QED BY <1>1, <1>2, <1>3 DEF SdInv

LEMMA SelectedStep ==
    ASSUME SdInv, Plan \/ Reverify \/ Select
    PROVE  SdInv'
<1>1. CASE Refuse /\ UNCHANGED <<scene, world, unmounter>>
  BY <1>1, WriterEnds, Zenon DEF Refuse, Goto, Plan, Reverify, Select
<1>2. CASE ~ Refuse
  <2>1. UNCHANGED <<scene, world, unmounter, card, token, artifact, fd>>
    BY <1>2, Zenon DEF Plan, Reverify, Select, Selected, Only, Continue
  <2>2. /\ pc \in {"plan", "reverify", "select"} /\ pc' \in {"reverify", "select", "claim", "open"}
        /\ pc = "plan" => token.image = artifact
    BY <1>2, Zenon DEF Plan, Reverify, Select, Selected, Only, Continue, Goto
  <2> QED BY <2>1, <2>2, EarlyStep
<1> QED BY <1>1, <1>2 DEF Plan, Reverify, Select, Selected, Only

LEMMA ClaimStep ==
    ASSUME SdInv, Claim
    PROVE  SdInv'
<1>1. CASE Refuse
  BY <1>1, WriterEnds, Zenon DEF Claim, Only, Refuse, Goto
<1>2. CASE ~ Refuse
  BY <1>2, EarlyStep, Zenon DEF Claim, Only, Goto
<1> QED BY <1>1, <1>2

LEMMA OpenStep ==
    ASSUME SdInv, Open
    PROVE  SdInv'
<1>1. CASE Refuse
  BY <1>1, WriterEnds, Zenon DEF Open, Only, Refuse, Goto
<1>2. CASE ~ Refuse
  <2>1. /\ UNCHANGED <<scene, world, unmounter, card, token, artifact, claim>>
        /\ pc' = "check" /\ pc = "open" /\ fd' = where[token.sel.node]
    BY <1>2, Zenon DEF Open, Only, Goto
  <2>2. token.sel.node \in Nodes
    BY <2>1, Zenon DEF SdInv, OpensNode
  <2>3. fd' \in Disks \cup {NoDisk} /\ where' = where
    BY <2>1, <2>2, Zenon DEF SdInv, SdTypes, world
  <2>4. SdTypes' /\ TakesOff'
    BY <2>1, <2>3, SameTypes, SameView, Zenon
  <2>5. OpensNode' /\ CopiesSafely'
    BY <2>1, <2>2, <2>3, Zenon DEF OpensNode, CopiesSafely, Opened
  <2>6. Written'
    BY <2>1, Zenon DEF SdInv, Written, BeforeCopy, AfterPlan
  <2> QED BY <2>4, <2>5, <2>6 DEF SdInv
<1> QED BY <1>1, <1>2

\* The scan after the open is of the open disk.
LEMMA CheckStep ==
    ASSUME SdInv, Check
    PROVE  SdInv'
<1>1. CASE ~ Offered(token.sel)
  BY <1>1, WriterEnds, Zenon DEF Check, Only, Fail, Goto
<1>2. CASE Offered(token.sel)
  <2>1. /\ UNCHANGED <<scene, world, unmounter, card, token, artifact, claim, fd>>
        /\ pc' = "copy" /\ pc = "check"
    BY <1>2, Zenon DEF Check, Only, Continue, Goto
  <2>2. SdTypes' /\ TakesOff'
    BY <2>1, SameTypes, SameView, Zenon DEF SdInv, SdTypes
  <2>3. UNCHANGED <<where, mounts>>
    BY <2>1, Zenon DEF world
  <2>4. OpensNode' /\ Written'
    BY <2>1, <2>3, Zenon DEF SdInv, OpensNode, Opened, Written, BeforeCopy, AfterPlan
  <2>5. fd # NoDisk => Identity[fd] = token.sel.id /\ MountedOf(fd) = {}
    <3>1. SUFFICES ASSUME fd # NoDisk PROVE Identity[fd] = token.sel.id /\ MountedOf(fd) = {}
      BY Zenon
    <3>2. where[token.sel.node] = fd
      BY <2>1, <3>1, Zenon DEF SdInv, OpensNode, Opened
    <3>3. token.sel = [node |-> token.sel.node, id |-> Identity[fd]]
      BY <1>2, <3>2, Zenon DEF Offered, Fingerprint
    <3>4. token.sel.id = Identity[fd]
      BY <3>3
    <3>5. MountedOf(fd) = {}
      BY <1>2, <3>2, Zenon DEF Offered, Candidates, Unambiguous
    <3> QED BY <3>4, <3>5
  <2>6. MountedOf(fd)' = MountedOf(fd)
    BY <2>1, <2>3, Zenon DEF MountedOf
  <2>7. CopiesSafely'
    BY <2>1, <2>5, <2>6, Zenon DEF CopiesSafely
  <2> QED BY <2>2, <2>4, <2>7 DEF SdInv
<1> QED BY <1>1, <1>2

LEMMA CopyStep ==
    ASSUME SdInv, Copy
    PROVE  SdInv'
<1>1. CASE ~ Alive
  BY <1>1, WriterEnds, Zenon DEF Copy, Only, Fail, Goto
<1>2. CASE Alive
  <2>1. /\ UNCHANGED <<scene, world, unmounter, token, artifact, claim, fd>>
        /\ pc' \in {"copy", "compare"} /\ pc = "copy"
    BY <1>2, Zenon DEF Copy, Only, Goto
  <2>2. PICK i : card' \in {card, [card EXCEPT ![fd][i] = image]}
    BY <1>2, Zenon DEF Copy, Only
  <2>3. SdTypes'
    BY <2>1, <2>2, Zenon DEF SdInv, SdTypes, world, unmounter
  <2>4. TakesOff'
    BY <2>1, SameView, Zenon
  <2>5. UNCHANGED <<where, mounts, platform>>
    BY <2>1, Zenon DEF world, platform
  <2>6. OpensNode' /\ Written'
    BY <2>1, <2>5, Zenon DEF SdInv, OpensNode, Opened, Written, BeforeCopy, AfterPlan
  <2>7. MountedOf(fd)' = MountedOf(fd)
    BY <2>1, <2>5, Zenon DEF MountedOf
  <2>8. CopiesSafely'
    BY <2>1, <2>5, <2>7, Zenon DEF SdInv, CopiesSafely
  <2> QED BY <2>3, <2>4, <2>6, <2>8 DEF SdInv
<1> QED BY <1>1, <1>2

LEMMA LateStep ==
    ASSUME SdInv, Compare \/ Sync \/ Readback \/ Finish
    PROVE  SdInv'
<1>1. UNCHANGED <<scene, world, unmounter, card, token>>
  BY Zenon DEF Compare, Sync, Readback, Finish, Only, Continue, Fail
<1>2. CASE pc' = "done"
  <2>1. fd' \in {fd, NoDisk} /\ pc # "idle"
    BY Zenon DEF Compare, Sync, Readback, Finish, Only, Continue, Fail
  <2> QED BY <1>1, <1>2, <2>1, WriterEnds
<1>3. CASE pc' # "done"
  <2>1. /\ UNCHANGED <<artifact, fd>> /\ pc' \in {"sync", "readback", "finish"}
        /\ pc \in {"compare", "sync", "readback"}
        /\ pc' = "finish" => \A i \in 1..Chunks : card[fd][i] = artifact
    BY <1>3, Zenon DEF Compare, Sync, Readback, Finish, Only, Continue, Fail, Goto
  <2>2. SdTypes' /\ TakesOff'
    BY <1>1, <2>1, SameTypes, SameView, Zenon DEF SdInv, SdTypes
  <2>3. OpensNode' /\ CopiesSafely'
    BY <1>1, <2>1, Zenon DEF SdInv, OpensNode, CopiesSafely, Opened, world
  <2>4. Written'
    BY <1>1, <2>1, Zenon DEF SdInv, Written, BeforeCopy, AfterPlan
  <2> QED BY <2>2, <2>3, <2>4 DEF SdInv
<1> QED BY <1>2, <1>3

LEMMA WriterInv ==
    ASSUME SdInv, WriterStep
    PROVE  SdInv'
BY PreviewStep, VerifyStep, SelectedStep, ClaimStep, OpenStep, CheckStep, CopyStep, LateStep, Zenon
   DEF WriterStep

-----------------------------------------------------------------------------
(***************************************************************************)
(* The unmounting command and everybody else                               *)
(***************************************************************************)

\* A volume that is taken off takes nothing from the writer.
LEMMA FewerMounts ==
    ASSUME SdInv, UNCHANGED <<scene, card, writer, where>>,
           \A m \in Points : mounts'[m] \in {mounts[m], NoDisk}
    PROVE  OpensNode' /\ CopiesSafely' /\ Written'
<1>1. UNCHANGED <<pc, token, artifact, claim, fd, platform>>
  BY Zenon DEF writer, platform
<1>2. OpensNode' /\ Written'
  BY <1>1, Zenon DEF SdInv, OpensNode, Written
<1>3. fd # NoDisk => (MountedOf(fd) = {} => MountedOf(fd)' = {})
  BY <1>1, Zenon DEF MountedOf
<1>4. CopiesSafely'
  BY <1>1, <1>3, Zenon DEF SdInv, CopiesSafely
<1> QED BY <1>2, <1>4

\* A step of the unmounting command that takes nothing off.
LEMMA LooksOnly ==
    ASSUME SdInv, UNCHANGED <<scene, card, writer, world>>, looked' \in {looked, events}, TakesOff'
    PROVE  SdInv'
<1>1. UNCHANGED <<where, mounts, events, fd>>
  BY Zenon DEF world, writer
<1>2. SdTypes'
  BY <1>1 DEF SdInv, SdTypes
<1>3. OpensNode' /\ CopiesSafely' /\ Written'
  BY <1>1, FewerMounts, Zenon DEF SdInv, SdTypes
<1> QED BY <1>2, <1>3 DEF SdInv

LEMMA ChooseStep ==
    ASSUME SdInv, NEW n \in Nodes, Choose(n)
    PROVE  SdInv'
<1>1. /\ UNCHANGED <<scene, card, writer, world, looked>> /\ upc' = "select"
      /\ chosen' = [sel |-> Fingerprint(n), points |-> MountedOf(where[n])]
      /\ MountedOf(where[n]) # {}
  BY Zenon DEF Choose, OnlyUnmounter
<1>2. chosen'.points = MountedOf(where[n]) /\ MountedOf(where[n]) \subseteq Points
  BY <1>1, Zenon DEF MountedOf
<1>3. TakesOff'
  BY <1>1, <1>2, Zenon DEF TakesOff
<1> QED BY <1>1, <1>3, LooksOnly

LEMMA SelectMountedStep ==
    ASSUME SdInv, SelectMounted
    PROVE  SdInv'
<1>1. /\ UNCHANGED <<scene, card, writer, world, chosen, looked>> /\ upc = "select"
      /\ (upc' = "look" /\ left' = chosen.points) \/ upc' = "failed"
  BY Zenon DEF SelectMounted, OnlyUnmounter
<1>2. TakesOff'
  BY <1>1, Zenon DEF SdInv, TakesOff
<1> QED BY <1>1, <1>2, LooksOnly

LEMMA LookStep ==
    ASSUME SdInv, Look
    PROVE  SdInv'
<1>1. /\ UNCHANGED <<scene, card, writer, world, chosen, left>> /\ upc = "look" /\ looked' = events
      /\ \/ upc' = "unmount" /\ Listed(chosen.sel) /\ MountedOf(where[chosen.sel.node]) = left
         \/ upc' = "failed"
  BY Zenon DEF Look, OnlyUnmounter
<1>2. UNCHANGED <<where, mounts>>
  BY <1>1, Zenon DEF world
<1>3. MountedOf(where[chosen.sel.node])' = MountedOf(where[chosen.sel.node])
  BY <1>1, <1>2, Zenon DEF MountedOf
<1>4. Listed(chosen.sel)' = Listed(chosen.sel)
  BY <1>1, <1>2, Zenon DEF Listed, Inventory, Unambiguous, Fingerprint
<1>5. TakesOff'
  BY <1>1, <1>3, <1>4, Zenon DEF SdInv, TakesOff
<1> QED BY <1>1, <1>5, LooksOnly

\* What Unmount takes off is the innermost of what is left.
LEMMA UnmountOne ==
    ASSUME SdInv, Unmount
    PROVE  /\ Innermost \in left /\ left \subseteq chosen.points /\ chosen.points \subseteq Points
           /\ \A m \in Points : /\ mounts'[m] \in {mounts[m], NoDisk}
                                /\ mounts'[m] # mounts[m] => m = Innermost
           /\ mounts' \in [Points -> Disks \cup {NoDisk}]
           /\ UNCHANGED <<scene, card, writer, where, events, chosen, looked>>
           /\ (upc' = "look" /\ left' = left \ {Innermost} /\ left' # {}) \/ upc' \in {"verify", "failed"}
<1>1. upc = "unmount" /\ UNCHANGED <<scene, card, writer, where, events, chosen, looked>>
  BY Zenon DEF Unmount, OnlyUnmounter
<1>2. left # {} /\ left \subseteq chosen.points /\ chosen.points \subseteq Points
  BY <1>1, Zenon DEF SdInv, TakesOff
<1>3. Innermost \in left
  BY <1>2, MaxInSet, Zenon DEF Innermost
<1>4. mounts' \in {mounts, [mounts EXCEPT ![Innermost] = NoDisk]}
  BY Zenon DEF Unmount
<1>5. /\ \A m \in Points : /\ mounts'[m] \in {mounts[m], NoDisk}
                           /\ mounts'[m] # mounts[m] => m = Innermost
      /\ mounts' \in [Points -> Disks \cup {NoDisk}]
  BY <1>4, Zenon DEF SdInv, SdTypes
<1>6. (upc' = "look" /\ left' = left \ {Innermost} /\ left' # {}) \/ upc' \in {"verify", "failed"}
  BY Zenon DEF Unmount, OnlyUnmounter
<1> QED BY <1>1, <1>2, <1>3, <1>5, <1>6

LEMMA UnmountStep ==
    ASSUME SdInv, Unmount
    PROVE  SdInv'
<1>1. fd' = fd
  BY UnmountOne, Zenon DEF writer
<1>2. SdTypes'
  BY <1>1, UnmountOne, Zenon DEF SdInv, SdTypes
<1>3. OpensNode' /\ CopiesSafely' /\ Written'
  BY UnmountOne, FewerMounts, Zenon
<1>4. TakesOff'
  BY UnmountOne, Zenon DEF TakesOff
<1> QED BY <1>2, <1>3, <1>4 DEF SdInv

LEMMA VerifyUnmountedStep ==
    ASSUME SdInv, VerifyUnmounted
    PROVE  SdInv'
<1>1. /\ UNCHANGED <<scene, card, writer, world, chosen, left>> /\ looked' = events
      /\ upc' \in {"unmounted", "failed"}
  BY Zenon DEF VerifyUnmounted, OnlyUnmounter
<1>2. TakesOff'
  BY <1>1, Zenon DEF TakesOff
<1> QED BY <1>1, <1>2, LooksOnly

\* Whatever happens around them makes the last look an old one.
LEMMA EventKeeps ==
    ASSUME SdInv, Event
    PROVE  /\ TakesOff' /\ events' \in Nat /\ looked' \in Nat /\ looked' <= events'
           /\ card' = [d \in Disks |-> card'[d]]
           /\ UNCHANGED <<scene, card, pc, token, artifact, platform>>
<1>1. UNCHANGED <<scene, card, pc, token, artifact, upc, chosen, left, looked, platform>> /\ events' = events + 1
  BY Zenon DEF Event, unmounter, platform
<1>2. events' \in Nat /\ looked' \in Nat /\ looked' <= events' /\ looked' # events'
  BY <1>1 DEF SdInv, SdTypes
<1>3. TakesOff'
  BY <1>1, <1>2, Zenon DEF SdInv, TakesOff
<1> QED BY <1>1, <1>2, <1>3 DEF SdInv, SdTypes

\* A disk that is pulled out takes the open device and the claim with it.
LEMMA UnplugStep ==
    ASSUME SdInv, NEW n \in Nodes, Unplug(n)
    PROVE  SdInv'
<1>1. /\ Event /\ where' = [where EXCEPT ![n] = NoDisk] /\ where[n] # NoDisk
      /\ fd' = IF fd = where[n] THEN NoDisk ELSE fd
      /\ claim' = IF claim = where[n] THEN NoDisk ELSE claim
      /\ mounts' = [m \in Points |-> IF mounts[m] = where[n] THEN NoDisk ELSE mounts[m]]
  BY Zenon DEF Unplug
<1>2. SdTypes'
  BY <1>1, EventKeeps, Zenon DEF SdInv, SdTypes
<1>3. OpensNode'
  BY <1>1, EventKeeps DEF SdInv, SdTypes, OpensNode
<1>4. Written'
  BY <1>1, EventKeeps, Zenon DEF SdInv, Written
<1>5. fd' # NoDisk => fd' = fd /\ (MountedOf(fd) = {} => MountedOf(fd)' = {}) /\ (claim # fd => claim' # fd')
  BY <1>1, Zenon DEF MountedOf, SdInv, SdTypes
<1>6. CopiesSafely'
  BY <1>1, <1>5, EventKeeps, Zenon DEF SdInv, CopiesSafely
<1> QED BY <1>1, <1>2, <1>3, <1>4, <1>6, EventKeeps DEF SdInv

LEMMA PlugStep ==
    ASSUME SdInv, NEW n \in Nodes, NEW d \in Disks, Plug(n, d)
    PROVE  SdInv'
<1>1. Event /\ where' = [where EXCEPT ![n] = d] /\ where[n] = NoDisk /\ UNCHANGED <<mounts, fd, claim>>
  BY Zenon DEF Plug
<1>2. SdTypes'
  BY <1>1, EventKeeps, Zenon DEF SdInv, SdTypes
<1>3. OpensNode'
  BY <1>1, EventKeeps DEF SdInv, SdTypes, OpensNode
<1>4. Written'
  BY <1>1, EventKeeps, Zenon DEF SdInv, Written
<1>5. CopiesSafely'
  BY <1>1, EventKeeps, Zenon DEF SdInv, CopiesSafely, MountedOf
<1> QED BY <1>1, <1>2, <1>3, <1>4, <1>5, EventKeeps DEF SdInv

\* Nobody mounts a volume of a disk that is held.
LEMMA MountStep ==
    ASSUME SdInv, NEW m \in Points, NEW d \in Disks, Mount(m, d)
    PROVE  SdInv'
<1>1. Event /\ mounts' = [mounts EXCEPT ![m] = d] /\ ~ Held(d) /\ UNCHANGED <<where, fd, claim>>
  BY Zenon DEF Mount
<1>2. SdTypes'
  BY <1>1, EventKeeps, Zenon DEF SdInv, SdTypes
<1>3. OpensNode'
  BY <1>1, EventKeeps, Zenon DEF SdInv, OpensNode
<1>4. Written'
  BY <1>1, EventKeeps, Zenon DEF SdInv, Written
<1>6. CASE d # fd
  <2>1. fd # NoDisk => MountedOf(fd)' = MountedOf(fd)
    BY <1>1, <1>6, Zenon DEF Mount, MountedOf, SdInv, SdTypes
  <2>2. CopiesSafely'
    BY <1>1, <2>1, EventKeeps, Zenon DEF SdInv, CopiesSafely
  <2> QED BY <1>1, <1>2, <1>3, <1>4, <2>2, EventKeeps DEF SdInv
<1>7. CASE d = fd
  <2>1. platform # "linux" /\ claim # fd
    BY <1>1, <1>7, Zenon DEF Held
  <2>2. platform = "macos"
    BY <2>1, SdAssumption, Zenon DEF SdInv, SdTypes, platform
  <2>3. CopiesSafely'
    BY <1>1, <2>1, <2>2, EventKeeps, Zenon DEF SdInv, CopiesSafely
  <2> QED BY <1>1, <1>2, <1>3, <1>4, <2>3, EventKeeps DEF SdInv
<1> QED BY <1>6, <1>7

LEMMA EditStep ==
    ASSUME SdInv, NEW v, Edit(v)
    PROVE  SdInv'
<1>1. Event /\ UNCHANGED <<where, mounts, fd, claim>>
  BY Zenon DEF Edit
<1>2. SdTypes'
  BY <1>1, EventKeeps, Zenon DEF SdInv, SdTypes
<1>3. OpensNode' /\ Written'
  BY <1>1, EventKeeps, Zenon DEF SdInv, OpensNode, Written
<1>4. CopiesSafely'
  BY <1>1, EventKeeps, Zenon DEF SdInv, CopiesSafely, MountedOf
<1> QED BY <1>1, <1>2, <1>3, <1>4, EventKeeps DEF SdInv

LEMMA SdInvStep ==
    ASSUME SdInv, [SdNext]_vars
    PROVE  SdInv'
<1>1. CASE WriterStep
  BY <1>1, WriterInv, Zenon
<1>2. CASE UnmounterStep
  BY <1>2, ChooseStep, SelectMountedStep, LookStep, UnmountStep, VerifyUnmountedStep, Zenon DEF UnmounterStep
<1>3. CASE Surroundings
  BY <1>3, UnplugStep, PlugStep, MountStep, EditStep, Zenon DEF Surroundings
<1>4. CASE UNCHANGED vars
  <2>1. UNCHANGED <<scene, card, writer, world, unmounter>>
    BY <1>4, Zenon DEF vars
  <2>2. UNCHANGED looked
    BY <2>1, Zenon DEF unmounter
  <2> QED BY <2>1, <2>2, SameView, LooksOnly
<1> QED BY <1>1, <1>2, <1>3, <1>4 DEF SdNext

(***************************************************************************)
(* SdInductive: the open device is that of the confirmed node as long as   *)
(* it works, what the scan after the open has seen stays true while bytes  *)
(* are written, and what the unmounting command has seen is there until    *)
(* something happens (sd_disk.rs, sd_unmount.rs).                          *)
(***************************************************************************)
THEOREM SdInductive == SdSpec => []SdInv
<1>1. SdInit => SdInv
  BY SdInvInit, Zenon
<1>2. SdInv /\ [SdNext]_vars => SdInv'
  BY SdInvStep
<1> QED BY <1>1, <1>2, PTL DEF SdSpec

-----------------------------------------------------------------------------
(***************************************************************************)
(* What is written, reported and taken off                                 *)
(***************************************************************************)
LEMMA OnlyCopyWrites ==
    ASSUME SdInv, [SdNext]_vars, NEW d \in Disks, card'[d] # card[d]
    PROVE  pc = "copy" /\ fd = d
<1>1. Copy
  <2>1. CASE WriterStep
    <3>1. CASE \E n \in Nodes : Preview(n)
      BY <3>1, Zenon DEF Preview, Only
    <3>2. CASE Verify \/ Plan \/ Reverify \/ Select \/ Claim \/ Open
      BY <3>2, Zenon DEF Verify, Plan, Reverify, Select, Selected, Claim, Open, Only, Continue, Refuse
    <3>3. CASE Check \/ Compare \/ Sync \/ Readback \/ Finish
      BY <3>3, Zenon DEF Check, Compare, Sync, Readback, Finish, Only, Continue, Fail
    <3> QED BY <2>1, <3>1, <3>2, <3>3 DEF WriterStep
  <2>2. CASE UnmounterStep
    BY <2>2, Zenon DEF UnmounterStep, Choose, SelectMounted, Look, Unmount, VerifyUnmounted, OnlyUnmounter
  <2>3. CASE Surroundings
    BY <2>3, Zenon DEF Surroundings, Unplug, Plug, Mount, Edit, Event
  <2> QED BY <2>1, <2>2, <2>3 DEF SdNext, vars
<1>2. pc = "copy" /\ Alive
  BY <1>1, Zenon DEF Copy, Only, Fail
<1>3. PICK i : card' \in {card, [card EXCEPT ![fd][i] = image]}
  BY <1>1, <1>2, Zenon DEF Copy, Only
<1> QED BY <1>2, <1>3 DEF SdInv, SdTypes

LEMMA ReportStep ==
    ASSUME SdInv, [SdNext]_vars, report' # report
    PROVE  /\ report' = "written" => pc = "finish"
           /\ report' = "refused" => pc \in BeforeCopy
<1>1. CASE WriterStep
  <2>1. CASE \E n \in Nodes : Preview(n)
    BY <2>1, Zenon DEF Preview, Only
  <2>2. CASE Verify \/ Plan \/ Reverify \/ Select \/ Claim \/ Open
    BY <2>2, Zenon DEF Verify, Plan, Reverify, Select, Selected, Claim, Open, Only, Continue, Refuse, BeforeCopy
  <2>3. CASE Check \/ Copy \/ Compare \/ Sync \/ Readback
    BY <2>3, Zenon DEF Check, Copy, Compare, Sync, Readback, Only, Continue, Fail
  <2>4. CASE Finish
    BY <2>4, Zenon DEF Finish, Only, Fail
  <2> QED BY <1>1, <2>1, <2>2, <2>3, <2>4 DEF WriterStep
<1>2. CASE UnmounterStep
  BY <1>2, Zenon DEF UnmounterStep, Choose, SelectMounted, Look, Unmount, VerifyUnmounted, OnlyUnmounter, writer
<1>3. CASE Surroundings
  BY <1>3, Zenon DEF Surroundings, Unplug, Plug, Mount, Edit, Event
<1> QED BY <1>1, <1>2, <1>3 DEF SdNext, vars, writer

(***************************************************************************)
(* SelectedOnly: bytes are written only to the disk that the user has      *)
(* confirmed, at its node and with none of its volumes mounted (on macOS   *)
(* as long as the claim holds), and the unmounting command takes off only  *)
(* what it has shown of the selected disk unless something happens after   *)
(* its look (TouchesSelected), however many disks are pulled out, plugged  *)
(* in and mounted (verify_system_target_safe_after_open,                   *)
(* execute_linux_unmount, execute_macos_unmount).                          *)
(***************************************************************************)
THEOREM SelectedOnly == SdSpec => TouchesSelected
<1> DEFINE Confirmed ==
              \A d \in Disks : card'[d] # card[d] =>
                  /\ token.sel.node \in Nodes /\ where[token.sel.node] = d /\ Identity[d] = token.sel.id
                  /\ MountedOf(d) = {} \/ (platform = "macos" /\ claim # d)
           Shown ==
              \A m \in Points : Unmount /\ mounts'[m] # mounts[m] =>
                  \/ looked # events
                  \/ /\ m \in chosen.points /\ mounts[m] = where[chosen.sel.node]
                     /\ Identity[mounts[m]] = chosen.sel.id
<1>1. SdInv /\ [SdNext]_vars => [Confirmed]_vars
  <2>1. ASSUME SdInv, [SdNext]_vars, NEW d \in Disks, card'[d] # card[d]
        PROVE  /\ token.sel.node \in Nodes /\ where[token.sel.node] = d /\ Identity[d] = token.sel.id
               /\ MountedOf(d) = {} \/ (platform = "macos" /\ claim # d)
    <3>1. pc = "copy" /\ fd = d /\ fd # NoDisk
      BY <2>1, OnlyCopyWrites, SdAssumption, Zenon
    <3> QED BY <2>1, <3>1 DEF SdInv, OpensNode, CopiesSafely, Opened
  <2> QED BY <2>1
<1>2. SdInv /\ [SdNext]_vars => [Shown]_vars
  <2>1. ASSUME SdInv, NEW m \in Points, Unmount, mounts'[m] # mounts[m], looked = events
        PROVE  /\ m \in chosen.points /\ mounts[m] = where[chosen.sel.node]
               /\ Identity[mounts[m]] = chosen.sel.id
    <3>1. m \in left /\ m \in chosen.points
      BY <2>1, UnmountOne, Zenon
    <3>2. Listed(chosen.sel) /\ MountedOf(where[chosen.sel.node]) = left
      BY <2>1, Zenon DEF SdInv, TakesOff, Unmount
    <3>3. mounts[m] = where[chosen.sel.node]
      BY <3>1, <3>2, Zenon DEF MountedOf
    <3>4. chosen.sel = [node |-> chosen.sel.node, id |-> Identity[where[chosen.sel.node]]]
      BY <3>2, Zenon DEF Listed, Fingerprint
    <3>5. chosen.sel.id = Identity[where[chosen.sel.node]]
      BY <3>4
    <3> QED BY <3>1, <3>3, <3>5
  <2> QED BY <2>1
<1> QED BY <1>1, <1>2, SdInductive, PTL DEF SdSpec, TouchesSelected, WritesConfirmed, UnmountsSelected

(***************************************************************************)
(* SdReportsTrue: a report of success means that the confirmed image is on *)
(* the disk if that is still there, and a refusal that no disk was touched *)
(* (ReportIsTrue): hash_target_prefix reads back what was written, and     *)
(* every refusal comes before the first byte.                              *)
(***************************************************************************)
THEOREM SdReportsTrue == SdSpec => ReportIsTrue
<1> DEFINE True ==
              report' # report =>
                  /\ report' = "written" =>
                        fd = NoDisk \/ \A i \in 1..Chunks : card[fd][i] = token.image
                  /\ report' = "refused" => \A d \in Disks, i \in 1..Chunks : card[d][i] = 0
<1>1. SdInv /\ [SdNext]_vars => [True]_vars
  <2>1. ASSUME SdInv, [SdNext]_vars, report' # report, report' = "written", fd # NoDisk
        PROVE  \A i \in 1..Chunks : card[fd][i] = token.image
    BY <2>1, ReportStep, Zenon DEF SdInv, Written, AfterPlan
  <2>2. ASSUME SdInv, [SdNext]_vars, report' # report, report' = "refused"
        PROVE  \A d \in Disks, i \in 1..Chunks : card[d][i] = 0
    BY <2>2, ReportStep DEF SdInv, Written
  <2> QED BY <2>1, <2>2
<1> QED BY <1>1, SdInductive, PTL DEF SdSpec, ReportIsTrue
=============================================================================
