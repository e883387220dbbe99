----------------------------- MODULE NativeBuild -----------------------------
(***************************************************************************)
(* The native toolchain build (native_lifecycle.rs): two directories that  *)
(* are reserved for one recipe (workspace.rs), six phases that leave a     *)
(* receipt each, a resume that may only continue after the compiler, and   *)
(* the packaging of a finished candidate (native_candidate.rs,             *)
(* package.rs).  A command may die anywhere; between two commands the      *)
(* machine may lose power and anybody may edit what was left behind.       *)
(***************************************************************************)
EXTENDS Integers, Sequences, FiniteSets

CONSTANTS
    Commands,      \* the commands, each started once
    Kind,          \* what each of them is: build, resume or package
    RecipeOf,      \* and for which recipe
    Hosts,         \* what the host, the caches and the resource limits may amount to
    MaxEdits       \* how often something changes outside of the commands

Recipes == {RecipeOf[p] : p \in Commands}
Builders == {p \in Commands : Kind[p] # "package"}

Roots == {"work", "output"}
Phases == <<"preflight", "environment", "configure", "compiler", "collector", "publish">>
PhaseSet == {Phases[i] : i \in 1..Len(Phases)}
Prev(phase) == Phases[(CHOOSE i \in 2..Len(Phases) : Phases[i] = phase) - 1]

None == [is |-> "none"]
Torn == [is |-> "torn"]

\* What a tool makes of a snapshot on a host; an edited file is none of these.
Made(s, h) == [is |-> "made", from |-> s, on |-> h]
Edited == [is |-> "edited"]
Snapshots == {None, Edited} \cup [is : {"recipe"}, recipe : Recipes]

VARIABLES
    marker,        \* the recipe in the ownership marker of each root; None or Torn
    lock,          \* the command that has locked the root
    host,
    snapshot,      \* the three snapshots in the work root
    build,         \* the files that configure has left
    staging,       \* the candidate: what the compiler and what the collector phase have installed
    published,
    receipts,      \* of each phase, and of the finished candidate
    package,
    edits,
    npc,           \* what each command does next
    ctx            \* what it remembers: snapshot, host, and the last receipt, or the tree it has read

nativeDisk == <<marker, snapshot, build, staging, published, receipts, package>>
nativeVars == <<nativeDisk, lock, host, edits, npc, ctx>>

NoCtx == [snap |-> None, host |-> None, last |-> None, tree |-> None]

Trees == {None, Torn, Edited} \cup [is : {"made"}, from : Snapshots, on : Hosts]
Candidate == {None} \cup [compiler : Trees, collector : Trees]

NativeTypeOK ==
    /\ marker \in [Roots -> {None, Torn} \cup [is : {"owner"}, recipe : Recipes]]
    /\ lock \in [Roots -> Commands \cup {"nobody"}] /\ host \in Hosts /\ edits \in 0..MaxEdits
    /\ snapshot \in Snapshots /\ build \in Trees
    /\ staging \in Candidate /\ published \in Candidate /\ package \in Candidate
    /\ DOMAIN receipts = PhaseSet \cup {"finished"}
    /\ \A ph \in DOMAIN receipts : receipts[ph].is \in {"none", "torn", "receipt"}
    /\ DOMAIN npc = Commands /\ DOMAIN ctx = Commands

NativeInit ==
    /\ marker = [r \in Roots |-> None] /\ lock = [r \in Roots |-> "nobody"]
    /\ host \in Hosts /\ edits = 0
    /\ snapshot = None /\ build = None /\ staging = None /\ published = None /\ package = None
    /\ receipts = [ph \in PhaseSet \cup {"finished"} |-> None]
    /\ npc = [p \in Commands |-> "idle"] /\ ctx = [p \in Commands |-> NoCtx]

Goto(p, step) == npc' = [npc EXCEPT ![p] = step]
Remember(p, field, value) == ctx' = [ctx EXCEPT ![p][field] = value]
Running(p) == npc[p] \notin {"idle", "failed", "done"}

\* Every error, the deadline, a cancellation and a crash: everything is retained, the locks are not.
Fail(p) == Goto(p, "failed") /\ lock' = [r \in Roots |-> IF lock[r] = p THEN "nobody" ELSE lock[r]]

Die(p) == Running(p) /\ Fail(p) /\ UNCHANGED <<nativeDisk, host, edits, ctx>>

-----------------------------------------------------------------------------
(***************************************************************************)
(* RunDirectories                                                          *)
(***************************************************************************)

Start(p) ==
    /\ npc[p] = "idle"
    /\ Goto(p, CASE Kind[p] = "build" -> "reserve" [] Kind[p] = "resume" -> "relock" [] OTHER -> "readback")
    /\ UNCHANGED <<nativeDisk, lock, host, edits, ctx>>

NextRoot(p) == IF lock["work"] = p THEN "output" ELSE "work"

\* Parent::reserve of both roots: neither may exist; a failure leaves a root without its marker.
Reserve(p) ==
    /\ npc[p] = "reserve"
    /\ LET r == NextRoot(p) IN
       /\ marker[r] = None /\ (r = "work" => marker["output"] = None)
       /\ \/ /\ marker' = [marker EXCEPT ![r] = [is |-> "owner", recipe |-> RecipeOf[p]]]
             /\ lock' = [lock EXCEPT ![r] = p]
             /\ Goto(p, IF r = "work" THEN "reserve" ELSE "snapshot")
          \/ marker' = [marker EXCEPT ![r] = Torn] /\ Fail(p)
    /\ UNCHANGED <<snapshot, build, staging, published, receipts, package, host, edits, ctx>>

\* Parent::resume: the marker must name the recipe of the request.
Relock(p) ==
    /\ npc[p] = "relock"
    /\ LET r == NextRoot(p) IN
       /\ lock[r] = "nobody" /\ marker[r] = [is |-> "owner", recipe |-> RecipeOf[p]]
       /\ lock' = [lock EXCEPT ![r] = p] /\ Goto(p, IF r = "work" THEN "relock" ELSE "open")
    /\ UNCHANGED <<nativeDisk, host, edits, ctx>>

-----------------------------------------------------------------------------
(***************************************************************************)
(* Receipts: each names its inputs, its measured outputs and the one       *)
(* before it by their digests.                                             *)
(***************************************************************************)

Receipt(phase, c, outputs) ==
    [is |-> "receipt", phase |-> phase, snap |-> c.snap, host |-> c.host, out |-> outputs, prev |-> c.last]

\* persist_receipt creates the file, and may die before it is written.
Persist(p, phase, outputs, next) ==
    /\ receipts[phase] = None
    /\ LET r == Receipt(phase, ctx[p], outputs) IN
       \/ /\ receipts' = [receipts EXCEPT ![phase] = r] /\ Remember(p, "last", r)
          /\ Goto(p, next) /\ UNCHANGED lock
       \/ receipts' = [receipts EXCEPT ![phase] = Torn] /\ Fail(p) /\ UNCHANGED ctx
    /\ UNCHANGED <<marker, snapshot, build, staging, published, package, host, edits>>

\* revalidate_receipt: every field must be what this command would write.
Revalidate(p, phase, outputs, next) ==
    /\ LET r == Receipt(phase, ctx[p], outputs) IN
       IF receipts[phase] = r THEN Remember(p, "last", r) /\ Goto(p, next) /\ UNCHANGED lock
       ELSE Fail(p) /\ UNCHANGED ctx
    /\ UNCHANGED <<nativeDisk, host, edits>>

-----------------------------------------------------------------------------
(***************************************************************************)
(* A fresh build, up to the compiler                                       *)
(***************************************************************************)

\* SourceSnapshot::prepare checks out what the recipe names; then host, caches and limits.
PrepareSnapshot(p) ==
    /\ npc[p] = "snapshot" /\ Goto(p, "preflight")
    /\ snapshot' = [is |-> "recipe", recipe |-> RecipeOf[p]]
    /\ ctx' = [ctx EXCEPT ![p].snap = snapshot', ![p].host = host]
    /\ UNCHANGED <<marker, build, staging, published, receipts, package, lock, host, edits>>

Preflight(p) == npc[p] = "preflight" /\ Persist(p, "preflight", None, "environment")
Environment(p) == npc[p] = "environment" /\ Persist(p, "environment", None, "configure")

Configure(p) ==
    /\ npc[p] = "configure" /\ Goto(p, "configured")
    /\ build' = Made(snapshot, host) /\ staging' = [compiler |-> None, collector |-> None]
    /\ UNCHANGED <<marker, snapshot, published, receipts, package, lock, host, edits, ctx>>

Configured(p) == npc[p] = "configured" /\ Persist(p, "configure", build, "compiler")

\* make, and SourceUseLedger::verify_complete; a compiler that fails may leave anything.
Compiler(p) ==
    /\ npc[p] = "compiler"
    /\ \/ staging' = [staging EXCEPT !.compiler = Made(snapshot, host)] /\ Goto(p, "compiled") /\ UNCHANGED lock
       \/ staging' = [staging EXCEPT !.compiler = Torn] /\ Fail(p)
    /\ UNCHANGED <<marker, snapshot, build, published, receipts, package, host, edits, ctx>>

Compiled(p) == npc[p] = "compiled" /\ Persist(p, "compiler", staging, "collector")

-----------------------------------------------------------------------------
(***************************************************************************)
(* resume_after_compiler                                                   *)
(***************************************************************************)

\* LifecyclePaths::open, SnapshotDigests::measure, preflight::inspect, verify_prepared_cache
OpenRetained(p) ==
    /\ npc[p] = "open" /\ staging # None /\ published = None /\ snapshot # None
    /\ Goto(p, "recheck preflight")
    /\ ctx' = [ctx EXCEPT ![p].snap = snapshot, ![p].host = host]
    /\ UNCHANGED <<nativeDisk, lock, host, edits>>

RecheckPreflight(p) ==
    npc[p] = "recheck preflight" /\ Revalidate(p, "preflight", None, "recheck environment")
RecheckEnvironment(p) ==
    npc[p] = "recheck environment" /\ Revalidate(p, "environment", None, "recheck configure")

\* remeasure_receipt_outputs: the files that the receipt names, as they are now
RecheckConfigure(p) ==
    npc[p] = "recheck configure" /\ Revalidate(p, "configure", build, "recheck compiler")

\* A bug: the receipt is believed, the staged files are not measured.
RecheckCompilerUnmeasured(p) ==
    /\ npc[p] = "recheck compiler"
    /\ IF receipts["compiler"].is = "receipt" THEN Revalidate(p, "compiler", receipts["compiler"].out, "recheck later")
       ELSE Fail(p) /\ UNCHANGED <<nativeDisk, host, edits, ctx>>

RecheckCompiler(p) ==
    npc[p] = "recheck compiler" /\ Revalidate(p, "compiler", staging, "recheck later")

\* require_absent_receipt; CargoVendorEnvironment::open_existing
RecheckLater(p) ==
    /\ npc[p] = "recheck later"
    /\ receipts["collector"] = None /\ receipts["finished"] = None
    /\ Goto(p, "collector") /\ UNCHANGED <<nativeDisk, lock, host, edits, ctx>>

-----------------------------------------------------------------------------
(***************************************************************************)
(* The collector and the publication, of both                              *)
(***************************************************************************)

\* cargo build in a fresh target directory, install_family_collector
Collector(p) ==
    /\ npc[p] = "collector"
    /\ \/ staging' = [staging EXCEPT !.collector = Made(snapshot, host)] /\ Goto(p, "collected") /\ UNCHANGED lock
       \/ staging' = [staging EXCEPT !.collector = Torn] /\ Fail(p)
    /\ UNCHANGED <<marker, snapshot, build, published, receipts, package, host, edits, ctx>>

Collected(p) == npc[p] = "collected" /\ Persist(p, "collector", staging.collector, "publish")

\* publish_candidate; the rename may have happened though the commit is reported uncertain.
Publish(p) ==
    /\ npc[p] = "publish" /\ published' = staging /\ staging' = None
    /\ \/ Goto(p, "published") /\ UNCHANGED lock
       \/ Fail(p)
    /\ UNCHANGED <<marker, snapshot, build, receipts, package, host, edits, ctx>>

Published(p) == npc[p] = "published" /\ Persist(p, "publish", published.collector, "finish")

\* The receipts that a receipt stands on, itself included: phase_receipt_digests
Chain(last) ==
    LET at[i \in 1..Len(Phases)] == IF i = Len(Phases) THEN last ELSE at[i + 1].prev
    IN  [ph \in PhaseSet |-> at[CHOOSE i \in 1..Len(Phases) : Phases[i] = ph]]

ChainOnDisk(last) == \A ph \in PhaseSet : receipts[ph] = Chain(last)[ph]

\* persist_finished_candidate: the chain and the collectors again, then the whole tree
Finish(p) ==
    /\ npc[p] = "finish" /\ receipts["finished"] = None
    /\ ChainOnDisk(ctx[p].last) /\ published.collector = ctx[p].last.out
    /\ \/ /\ receipts' = [receipts EXCEPT !["finished"] = Receipt("finished", ctx[p], published)]
          /\ Goto(p, "done") /\ lock' = [r \in Roots |-> "nobody"]
       \/ receipts' = [receipts EXCEPT !["finished"] = Torn] /\ Fail(p)
    /\ UNCHANGED <<marker, snapshot, build, staging, published, package, host, edits, ctx>>

-----------------------------------------------------------------------------
(***************************************************************************)
(* Packaging                                                               *)
(***************************************************************************)

\* FinishedCandidateReadback: the receipts, and the tree that they describe
Intact == /\ receipts["finished"].is = "receipt" /\ ChainOnDisk(receipts["finished"].prev)
          /\ published = receipts["finished"].out

\* readback_finished_candidate, require_package_request
Readback(p) ==
    /\ npc[p] = "readback" /\ Intact
    /\ receipts["finished"].snap = [is |-> "recipe", recipe |-> RecipeOf[p]]
    /\ ctx' = [ctx EXCEPT ![p].last = receipts["finished"]] /\ Goto(p, "copy")
    /\ UNCHANGED <<nativeDisk, lock, host, edits>>

\* A bug: the tree is copied as it is now.
CopyLive(p) ==
    /\ npc[p] = "copy" /\ Remember(p, "tree", published) /\ Goto(p, "commit")
    /\ UNCHANGED <<nativeDisk, lock, host, edits>>

\* copy_tree_from_snapshot_nofollow compares each entry with the measured one.
CopyCandidate(p) ==
    /\ npc[p] = "copy" /\ published = ctx[p].last.out
    /\ Remember(p, "tree", published) /\ Goto(p, "commit")
    /\ UNCHANGED <<nativeDisk, lock, host, edits>>

\* The proof is revalidated after the archive was verified; then the package appears at once.
CommitPackage(p) ==
    /\ npc[p] = "commit" /\ Intact /\ receipts["finished"] = ctx[p].last
    /\ package = None /\ package' = ctx[p].tree /\ Goto(p, "done")
    /\ UNCHANGED <<marker, snapshot, build, staging, published, receipts, lock, host, edits, ctx>>

-----------------------------------------------------------------------------
(***************************************************************************)
(* Everybody else.  While a build has the roots, they are its own; a       *)
(* package is made from roots that nobody has locked.                      *)
(***************************************************************************)

Edit ==
    /\ edits < MaxEdits /\ edits' = edits + 1
    /\ \A p \in Builders : ~ Running(p)
    /\ UNCHANGED <<marker, package, lock, npc, ctx>>

EditSnapshot ==
    Edit /\ snapshot # None /\ snapshot' = Edited /\ UNCHANGED <<build, staging, published, receipts, host>>
EditBuild ==
    Edit /\ build # None /\ build' = Edited /\ UNCHANGED <<snapshot, staging, published, receipts, host>>

\* Power fails: a tree that was not synced may be damaged, or lose what was put there last.
EditStaging ==
    /\ Edit /\ staging # None
    /\ staging' \in {[staging EXCEPT !.compiler = Edited], [staging EXCEPT !.collector = None]}
    /\ UNCHANGED <<snapshot, build, published, receipts, host>>

EditPublished ==
    /\ Edit /\ published # None
    /\ published' \in {[published EXCEPT !.compiler = v] : v \in {Edited, Made(snapshot, host)}}
    /\ UNCHANGED <<snapshot, build, staging, receipts, host>>

\* The directory of the receipts is synced with the finished one.
LoseReceipt(phase) ==
    /\ Edit /\ receipts[phase] # None /\ receipts["finished"].is # "receipt"
    /\ receipts' = [receipts EXCEPT ![phase] = None]
    /\ UNCHANGED <<snapshot, build, staging, published, host>>

ChangeHost(h) ==
    Edit /\ h # host /\ host' = h /\ UNCHANGED <<snapshot, build, staging, published, receipts>>

Elsewhere ==
    \/ EditSnapshot \/ EditBuild \/ EditStaging \/ EditPublished
    \/ \E ph \in PhaseSet : LoseReceipt(ph)
    \/ \E h \in Hosts : ChangeHost(h)

Command(p) ==
    \/ Start(p) \/ Die(p) \/ Reserve(p) \/ Relock(p)
    \/ PrepareSnapshot(p) \/ Preflight(p) \/ Environment(p)
    \/ Configure(p) \/ Configured(p) \/ Compiler(p) \/ Compiled(p)
    \/ OpenRetained(p) \/ RecheckPreflight(p) \/ RecheckEnvironment(p) \/ RecheckConfigure(p)
    \/ RecheckCompiler(p) \/ RecheckLater(p)
    \/ Collector(p) \/ Collected(p) \/ Publish(p) \/ Published(p) \/ Finish(p)
    \/ Readback(p) \/ CopyCandidate(p) \/ CommitPackage(p)

NativeNext == (\E p \in Commands : Command(p)) \/ Elsewhere

NativeSpec == NativeInit /\ [][NativeNext]_nativeVars

-----------------------------------------------------------------------------
(***************************************************************************)
(* PublishesWhatWasBuilt: a candidate appears only if its compiler and its *)
(* collector were both made from the unchanged snapshots of the recipe     *)
(* that owns the roots, on the host that the first receipt names, however  *)
(* many commands it took and whatever happened between them.               *)
(***************************************************************************)
PublishesWhatWasBuilt ==
    [][published' # published /\ published = None =>
        LET tree == Made([is |-> "recipe", recipe |-> marker["output"].recipe],
                         receipts["preflight"].host)
        IN  published' = [compiler |-> tree, collector |-> tree]]_nativeVars

(***************************************************************************)
(* PackagesWhatWasFinished: a package holds the tree that was published,   *)
(* with all its receipts still there, though the candidate may be edited   *)
(* before, and while, it is packaged.                                      *)
(***************************************************************************)
PackagesWhatWasFinished ==
    [][package' # package =>
        /\ package' = receipts["finished"].out
        /\ package'.compiler = package'.collector
        /\ \A ph \in PhaseSet : receipts[ph].is = "receipt"]_nativeVars
=============================================================================
