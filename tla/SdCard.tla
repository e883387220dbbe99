------------------------------- MODULE SdCard -------------------------------
(***************************************************************************)
(* Writing a verified image to a removable disk (sd_disk.rs) and taking    *)
(* its volumes off before (sd_unmount.rs), while somebody pulls disks out  *)
(* and plugs others in, an automounter mounts what it finds, and somebody  *)
(* edits the image.                                                        *)
(*                                                                         *)
(* A device node and its device number say nothing about the disk behind   *)
(* it: both are used again for the next one.  An open device stays with    *)
(* the disk that it was opened on, and fails when that is pulled out.      *)
(* What tells disks apart is the identity that they report (serial number, *)
(* model, size); two disks may report the same.                            *)
(***************************************************************************)
EXTENDS Integers, Sequences, FiniteSets, FiniteSetsExt

CONSTANTS
    Disks, Nodes, NoDisk,
    Identity,      \* what a disk says that it is
    TooSmall,      \* the disks that are smaller than the image asks for
    Points,        \* mount points, 1..n; a larger one is inside of a smaller one
    Chunks,        \* the number of buffers of the image
    Scenes         \* the platform, the commands, and a bound on what happens around them

ASSUME SdAssumption ==
    /\ NoDisk \notin Disks /\ DOMAIN Identity = Disks /\ TooSmall \subseteq Disks
    /\ IsFiniteSet(Points) /\ Points = 1..Cardinality(Points)
    /\ Chunks \in Nat \ {0}
    /\ \A s \in Scenes : /\ s.platform \in {"linux", "macos"} /\ s.commands \subseteq {"write", "unmount"}
                         /\ s.events \in Nat

VARIABLES
    scene,
    where,         \* the disk at each node
    mounts,        \* the disk whose volume is mounted at each point
    card,          \* the version of the image in each buffer of a disk, 0 for what was there
    image,         \* the version of the artifact; 0 if its digests do not fit
    events,
    pc,            \* the writing command: what it does next,
    token,         \* the confirmation that it was given,
    artifact,      \* the version that it has verified,
    claim,         \* the disk whose claim it holds (macOS), until that is pulled out,
    fd,            \* the disk that it has opened, until that is pulled out,
    copied,        \* what it has copied so far,
    report,
    upc,           \* the unmounting command: what it does next,
    chosen,        \* the scan ID that it was given,
    left,          \* the mount points that it has still to take off,
    looked         \* when it looked last

world == <<where, mounts, image, events>>
writer == <<pc, token, artifact, claim, fd, copied, report>>
unmounter == <<upc, chosen, left, looked>>
vars == <<scene, world, card, writer, unmounter>>

platform == scene.platform
Versions == 1..2
NoSelection == [node |-> "none", id |-> "none"]

Attached == {where[n] : n \in Nodes} \ {NoDisk}
MountedOf(d) == {m \in Points : mounts[m] = d}

Selections == [node : Nodes, id : {Identity[d] : d \in Disks}] \cup {NoSelection}

SdTypeOK ==
    /\ scene \in Scenes /\ image \in Versions \cup {0} /\ events \in 0..scene.events
    /\ where \in [Nodes -> Disks \cup {NoDisk}]
    /\ mounts \in [Points -> Disks \cup {NoDisk}]
    /\ card \in [Disks -> [1..Chunks -> Versions \cup {0}]]
    /\ pc \in {"idle", "verify", "plan", "reverify", "select", "claim", "open", "check", "copy",
               "compare", "sync", "readback", "finish", "done"}
    /\ token \in [image : Versions \cup {0}, sel : Selections]
    /\ artifact \in Versions \cup {0} /\ claim \in Disks \cup {NoDisk} /\ fd \in Disks \cup {NoDisk}
    /\ copied \in Seq(Versions \cup {0}) /\ report \in {"none", "refused", "failed", "written"}
    /\ upc \in {"idle", "select", "look", "unmount", "verify", "unmounted", "failed"}
    /\ chosen \in [sel : Selections, points : SUBSET Points] /\ left \subseteq Points
    /\ looked \in 0..scene.events

SdInit ==
    /\ scene \in Scenes /\ image = 1 /\ events = 0
    /\ where \in [Nodes -> Disks \cup {NoDisk}]
    /\ \A n, k \in Nodes : n # k /\ where[n] = where[k] => where[n] = NoDisk
    /\ mounts \in [Points -> Attached \cup {NoDisk}]
    /\ card = [d \in Disks |-> [i \in 1..Chunks |-> 0]]
    /\ pc = "idle" /\ token = [image |-> 0, sel |-> NoSelection] /\ artifact = 0
    /\ claim = NoDisk /\ fd = NoDisk /\ copied = <<>> /\ report = "none"
    /\ upc = "idle" /\ chosen = [sel |-> NoSelection, points |-> {}] /\ left = {} /\ looked = 0

-----------------------------------------------------------------------------
(***************************************************************************)
(* What the scanners report.  make_candidate and make_state hash the node  *)
(* and the identity to a fingerprint; the scan ID is made of it, and that  *)
(* of sd_unmount of the mounted volumes, too.                              *)
(***************************************************************************)

Fingerprint(n) == [node |-> n, id |-> Identity[where[n]]]

\* retain_unambiguous_physical_candidates, normalized_inventory
Unambiguous(nodes) ==
    {n \in nodes : \A k \in nodes \ {n} : Identity[where[k]] # Identity[where[n]]}

\* scan_linux, scan_macos of sd_disk: only disks without a mounted volume are candidates.
Candidates == Unambiguous({n \in Nodes : where[n] # NoDisk /\ MountedOf(where[n]) = {}})

\* scan_linux_inventory, scan_macos_inventory of sd_unmount
Inventory == Unambiguous({n \in Nodes : where[n] # NoDisk})

\* The current candidate with the scan ID, as every scan of the writer looks for it.
Offered(sel) == sel.node \in Candidates /\ Fingerprint(sel.node) = sel

-----------------------------------------------------------------------------
(***************************************************************************)
(* The writing command                                                     *)
(***************************************************************************)

Goto(step) == pc' = step
Only(changes) == UNCHANGED <<scene, world, unmounter>> /\ changes

\* Before the disk is opened: "no disk was opened".
Refuse ==
    /\ Goto("done") /\ report' = "refused" /\ claim' = NoDisk
    /\ UNCHANGED <<card, token, artifact, fd, copied>>

\* Dropping the target closes it and gives the claim back.
Fail ==
    /\ Goto("done") /\ report' = "failed" /\ claim' = NoDisk /\ fd' = NoDisk
    /\ UNCHANGED <<token, artifact, copied>>

Continue(step) == Goto(step) /\ UNCHANGED <<card, token, artifact, claim, fd, copied, report>>

\* A preview (prepare_write_for_board) prints the token that the user passes to the command.
Preview(n) ==
    /\ pc = "idle" /\ image # 0 /\ n \in Candidates /\ where[n] \notin TooSmall
    /\ Only(/\ token' = [image |-> image, sel |-> Fingerprint(n)] /\ Goto("verify")
            /\ UNCHANGED <<card, artifact, claim, fd, copied, report>>)

\* verify_image_artifact_for_board of the plan
Verify ==
    /\ pc = "verify"
    /\ Only(IF image = 0 THEN Refuse
            ELSE /\ artifact' = image /\ Goto("plan")
                 /\ UNCHANGED <<card, token, claim, fd, copied, report>>)

\* prepare_verified_write_with_backend, and the comparison of the token
Selected(step) ==
    Only(IF /\ Offered(token.sel) /\ where[token.sel.node] \notin TooSmall
            /\ token.image = artifact
         THEN Continue(step) ELSE Refuse)

Plan == pc = "plan" /\ Selected("reverify")

\* write_verified_image_with_backend_and_expectation: the same artifact, and the same plan again
Reverify == pc = "reverify" /\ Only(IF image = artifact THEN Continue("select") ELSE Refuse)

Select == pc = "select" /\ Selected(IF platform = "macos" THEN "claim" ELSE "open")

\* open_macos_raw_device_with_claim, up to the claim of the node's present disk
Claim ==
    /\ pc = "claim"
    /\ Only(\/ Refuse
            \/ /\ where[token.sel.node] # NoDisk /\ claim' = where[token.sel.node] /\ Goto("open")
               /\ UNCHANGED <<card, token, artifact, fd, copied, report>>)

\* The open: the device number is that of the node, so only a missing node is noticed.
Open ==
    /\ pc = "open"
    /\ Only(\/ Refuse
            \/ /\ where[token.sel.node] # NoDisk /\ fd' = where[token.sel.node] /\ Goto("check")
               /\ UNCHANGED <<card, token, artifact, claim, copied, report>>)

\* A bug: what the scan before has seen is relied on.
CheckNothing == pc = "check" /\ Only(Continue("copy"))

\* verify_system_target_safe_after_open: the scan after the open must find the same candidate.
Check ==
    /\ pc = "check"
    /\ Only(IF Offered(token.sel) THEN Continue("copy") ELSE Fail /\ UNCHANGED card)

\* An open device works as long as its disk has not been pulled out.
Alive == fd # NoDisk

\* copy_image_to_target, one buffer; the image may have been edited since it was verified, and a
\* bad card may forget what it was given.
Copy ==
    /\ pc = "copy"
    /\ Only(IF ~ Alive THEN Fail /\ UNCHANGED card
            ELSE LET i == Len(copied) + 1 IN
                 /\ card' \in {card, [card EXCEPT ![fd][i] = image]} /\ copied' = Append(copied, image)
                 /\ Goto(IF i = Chunks THEN "compare" ELSE "copy")
                 /\ UNCHANGED <<token, artifact, claim, fd, report>>)

Compare ==
    /\ pc = "compare"
    /\ Only(IF \A i \in 1..Chunks : copied[i] = artifact THEN Continue("sync") ELSE Fail /\ UNCHANGED card)

\* sync_all
Sync ==
    /\ pc = "sync"
    /\ Only(\/ Alive /\ Continue("readback")
            \/ Fail /\ UNCHANGED card)

\* A bug: what a successful write has left on the disk is not read back.
ReadbackNothing == pc = "readback" /\ Only(IF Alive THEN Continue("finish") ELSE Fail /\ UNCHANGED card)

\* hash_target_prefix
Readback ==
    /\ pc = "readback"
    /\ Only(IF Alive /\ \A i \in 1..Chunks : card[fd][i] = artifact THEN Continue("finish")
            ELSE Fail /\ UNCHANGED card)

\* OpenedTarget::finish: the release of the claim may fail, and is reported then.
Finish ==
    /\ pc = "finish"
    /\ Only(\/ /\ Goto("done") /\ report' = "written" /\ claim' = NoDisk /\ fd' = NoDisk
               /\ UNCHANGED <<card, token, artifact, copied>>
            \/ platform = "macos" /\ Fail /\ UNCHANGED card)

WriterStep ==
    \/ "write" \in scene.commands /\ \E n \in Nodes : Preview(n)
    \/ Verify \/ Plan \/ Reverify \/ Select \/ Claim \/ Open \/ Check
    \/ Copy \/ Compare \/ Sync \/ Readback \/ Finish

-----------------------------------------------------------------------------
(***************************************************************************)
(* The unmounting command                                                  *)
(***************************************************************************)

OnlyUnmounter(step) == UNCHANGED <<scene, card, writer>> /\ upc' = step

\* sd_unmount::scan prints the scan IDs of the disks that have mounted volumes.
Choose(n) ==
    /\ upc = "idle" /\ n \in Inventory /\ MountedOf(where[n]) # {}
    /\ chosen' = [sel |-> Fingerprint(n), points |-> MountedOf(where[n])]
    /\ OnlyUnmounter("select") /\ UNCHANGED <<world, left, looked>>

Listed(sel) == sel.node \in Inventory /\ Fingerprint(sel.node) = sel

\* unmount_with_backend, up to the execution
SelectMounted ==
    /\ upc = "select"
    /\ IF Listed(chosen.sel) /\ MountedOf(where[chosen.sel.node]) = chosen.points
       THEN OnlyUnmounter("look") /\ left' = chosen.points
       ELSE OnlyUnmounter("failed") /\ left' = {}
    /\ UNCHANGED <<world, chosen, looked>>

\* execute_linux_unmount, execute_macos_unmount: the disk and exactly the volumes that are left,
\* before each of them; on Linux the mount table as well (verify_linux_mount_source).
Look ==
    /\ upc = "look"
    /\ IF Listed(chosen.sel) /\ MountedOf(where[chosen.sel.node]) = left
       THEN OnlyUnmounter("unmount") ELSE OnlyUnmounter("failed")
    /\ looked' = events /\ UNCHANGED <<world, chosen, left>>

\* ordered_volumes: the innermost first
Innermost == Max(left)

Busy(m) == \E k \in Points : k > m /\ mounts[k] # NoDisk

\* The kernel takes off what is at the mount point; diskutil what belongs to the node.
Unmount ==
    /\ upc = "unmount"
    /\ \/ /\ mounts[Innermost] # NoDisk /\ ~ Busy(Innermost)
          /\ platform = "macos" => mounts[Innermost] = where[chosen.sel.node]
          /\ mounts' = [mounts EXCEPT ![Innermost] = NoDisk]
          /\ left' = left \ {Innermost}
          /\ OnlyUnmounter(IF left' = {} THEN "verify" ELSE "look")
       \/ OnlyUnmounter("failed") /\ UNCHANGED <<mounts, left>>
    /\ UNCHANGED <<where, image, events, chosen, looked>>

\* The inventory after the command must show the same disk without a mounted volume.
VerifyUnmounted ==
    /\ upc = "verify"
    /\ IF Listed(chosen.sel) /\ MountedOf(where[chosen.sel.node]) = {}
       THEN OnlyUnmounter("unmounted") ELSE OnlyUnmounter("failed")
    /\ looked' = events /\ UNCHANGED <<world, chosen, left>>

UnmounterStep ==
    \/ "unmount" \in scene.commands /\ \E n \in Nodes : Choose(n)
    \/ SelectMounted \/ Look \/ Unmount \/ VerifyUnmounted

-----------------------------------------------------------------------------
(***************************************************************************)
(* Everybody else                                                          *)
(***************************************************************************)

Event ==
    /\ events < scene.events /\ events' = events + 1
    /\ UNCHANGED <<scene, card, unmounter, pc, token, artifact, copied, report>>

Unplug(n) ==
    /\ where[n] # NoDisk /\ Event /\ UNCHANGED image
    /\ where' = [where EXCEPT ![n] = NoDisk]
    /\ fd' = IF fd = where[n] THEN NoDisk ELSE fd
    /\ claim' = IF claim = where[n] THEN NoDisk ELSE claim
    /\ mounts' = [m \in Points |-> IF mounts[m] = where[n] THEN NoDisk ELSE mounts[m]]

Plug(n, d) ==
    /\ where[n] = NoDisk /\ d \notin Attached /\ Event /\ UNCHANGED <<mounts, image, fd, claim>>
    /\ where' = [where EXCEPT ![n] = d]

\* O_EXCL on Linux and the claim on macOS keep others from mounting.
Held(d) == IF platform = "linux" THEN fd = d ELSE claim = d

Mount(m, d) ==
    /\ mounts[m] = NoDisk /\ d \in Attached /\ ~ Held(d) /\ Event /\ UNCHANGED <<where, image, fd, claim>>
    /\ mounts' = [mounts EXCEPT ![m] = d]

\* A new artifact, or one whose image does not fit its manifest
Edit(v) == v # image /\ Event /\ image' = v /\ UNCHANGED <<where, mounts, fd, claim>>

Surroundings ==
    \/ \E n \in Nodes : Unplug(n) \/ \E d \in Disks : Plug(n, d)
    \/ \E m \in Points, d \in Disks : Mount(m, d)
    \/ \E v \in Versions \cup {0} : Edit(v)

SdNext == WriterStep \/ UnmounterStep \/ Surroundings

SdSpec == SdInit /\ [][SdNext]_vars

-----------------------------------------------------------------------------
(***************************************************************************)
(* WritesConfirmed: a byte is written only to the disk that the user has   *)
(* confirmed, at the node that the confirmation names, and never while a   *)
(* volume of it is mounted, whatever was plugged in or mounted in between; *)
(* except on macOS, if the disk was pulled out and plugged in again after  *)
(* it was claimed, as the new one is not.  (verify_target_safe_after_open) *)
(***************************************************************************)
WritesConfirmed ==
    [][\A d \in Disks : card'[d] # card[d] =>
          /\ token.sel.node \in Nodes /\ where[token.sel.node] = d /\ Identity[d] = token.sel.id
          /\ MountedOf(d) = {} \/ (platform = "macos" /\ claim # d)]_vars

(***************************************************************************)
(* ReportIsTrue: a report of success means that the confirmed image is on  *)
(* the disk, unless that was pulled out after it was read back, though the *)
(* image was edited while it was copied; a refusal means that no disk was  *)
(* touched.                                                                *)
(***************************************************************************)
ReportIsTrue ==
    [][report' # report =>
        /\ report' = "written" =>
              fd = NoDisk \/ \A i \in 1..Chunks : card[fd][i] = token.image
        /\ report' = "refused" => \A d \in Disks, i \in 1..Chunks : card[d][i] = 0]_vars

(***************************************************************************)
(* UnmountsSelected: the command takes off no volume but those of the disk *)
(* that was selected, and only those it has shown, unless something        *)
(* happens between the look at a mount point and the unmount.              *)
(***************************************************************************)
UnmountsSelected ==
    [][\A m \in Points : Unmount /\ mounts'[m] # mounts[m] =>
          \/ looked # events
          \/ /\ m \in chosen.points /\ mounts[m] = where[chosen.sel.node]
             /\ Identity[mounts[m]] = chosen.sel.id]_vars

(***************************************************************************)
(* TouchesSelected: bytes are written only to the disk that the user has   *)
(* confirmed, and not over mounted volumes (WritesConfirmed), and the      *)
(* unmounting command takes off only what it has shown of the disk that    *)
(* was selected (UnmountsSelected).                                        *)
(***************************************************************************)
TouchesSelected == WritesConfirmed /\ UnmountsSelected
=============================================================================
