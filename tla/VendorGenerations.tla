-------------------------- MODULE VendorGenerations --------------------------
(***************************************************************************)
(* The Cargo vendor generations (cargo_vendor_generation.rs): commands     *)
(* that fetch, open and keep the generation that a checkout selects, while *)
(* somebody edits and commits in the checkout.                             *)
(*                                                                         *)
(* The name of a generation is the digest of what was read when it was     *)
(* selected, the lock file and the tree of the checkout among it.  Cargo   *)
(* reads the lock file again, and so does every validation.                *)
(***************************************************************************)
EXTENDS Naturals, FiniteSets

CONSTANTS
    Users,         \* the commands, each run once
    Does,          \* fetch, read or keep
    Locks,         \* versions of the lock file; a commit holds one each
    Nobody,
    MaxChanges       \* how often the checkout changes

Selections == [lock : Locks, tree : Locks]
NoPackages == 0

VARIABLES
    lockFile, head,  \* the checkout: its lock file, and the lock file of its commit
    generation,      \* the packages of each generation that is in the cache
    kept,            \* the generations that have a retention receipt
    readers, holder, \* the leases of each generation
    vpc,             \* what each user does next
    sel,             \* what it has selected
    staged,          \* the packages in its staging directory
    fresh,           \* nothing has changed in the checkout since it began to select
    changes

cache == <<generation, kept, readers, holder>>
vendorVars == <<lockFile, head, cache, vpc, sel, staged, fresh, changes>>

VendorTypeOK ==
    /\ lockFile \in Locks /\ head \in Locks /\ changes \in 0..MaxChanges
    /\ generation \in [Selections -> Locks \cup {NoPackages}] /\ kept \subseteq Selections
    /\ readers \in [Selections -> SUBSET Users] /\ holder \in [Selections -> Users \cup {Nobody}]
    /\ vpc \in [Users -> {"lock", "tree", "lease", "relock", "retree", "exists", "cargo", "validate",
                          "publish", "verify", "served", "failed"}]
    /\ sel \in [Users -> Selections] /\ staged \in [Users -> Locks \cup {NoPackages}]
    /\ fresh \in [Users -> BOOLEAN]

VendorInit ==
    /\ lockFile \in Locks /\ head = lockFile /\ changes = 0
    /\ generation = [s \in Selections |-> NoPackages] /\ kept = {}
    /\ readers = [s \in Selections |-> {}] /\ holder = [s \in Selections |-> Nobody]
    /\ vpc = [u \in Users |-> "lock"] /\ sel = [u \in Users |-> [lock |-> lockFile, tree |-> head]]
    /\ staged = [u \in Users |-> NoPackages] /\ fresh = [u \in Users |-> FALSE]

Step(u, step) == vpc' = [vpc EXCEPT ![u] = step]
Checkout == UNCHANGED <<lockFile, head, changes>>

\* A lease is a guard: it is given back on every way out.  An opened generation stays leased.
GiveBack(u) ==
    /\ readers' = [s \in Selections |-> readers[s] \ {u}]
    /\ holder' = [s \in Selections |-> IF holder[s] = u THEN Nobody ELSE holder[s]]

Fail(u) ==
    /\ Step(u, "failed") /\ GiveBack(u)
    /\ UNCHANGED <<generation, kept, sel, staged, fresh>> /\ Checkout

-----------------------------------------------------------------------------
\* select_vendor_generation reads the lock file first,
ReadLock(u) ==
    /\ vpc[u] = "lock" /\ Step(u, "tree") /\ sel' = [sel EXCEPT ![u].lock = lockFile]
    /\ fresh' = [fresh EXCEPT ![u] = TRUE] /\ UNCHANGED <<cache, staged>> /\ Checkout

\* and asks git for the tree last (selected_clean_tools_tree); a checkout with edits is refused.
ReadTree(u) ==
    /\ vpc[u] = "tree"
    /\ IF lockFile # head THEN Fail(u)
       ELSE /\ Step(u, "lease") /\ sel' = [sel EXCEPT ![u].tree = head]
            /\ UNCHANGED <<cache, staged, fresh>> /\ Checkout

\* acquire_read_lease fails at once if there is a writer;
LeaseRead(u) ==
    /\ vpc[u] = "lease" /\ Does[u] = "read"
    /\ IF holder[sel[u]] # Nobody THEN Fail(u)
       ELSE /\ readers' = [readers EXCEPT ![sel[u]] = @ \cup {u}] /\ Step(u, "verify")
            /\ UNCHANGED <<generation, kept, holder, sel, staged, fresh>> /\ Checkout

\* acquire_vendor_write_lease polls, and may be cancelled or run out of time; keep does not wait.
LeaseWrite(u) ==
    /\ vpc[u] = "lease" /\ Does[u] \in {"fetch", "keep"}
    /\ \/ /\ holder[sel[u]] = Nobody /\ readers[sel[u]] = {}
          /\ holder' = [holder EXCEPT ![sel[u]] = u]
          /\ Step(u, IF Does[u] = "fetch" THEN "exists" ELSE "relock")
          /\ UNCHANGED <<generation, kept, readers, sel, staged, fresh>> /\ Checkout
       \/ Fail(u)

\* retain_vendor_generation selects again under the lock, and compares.
RereadLock(u) ==
    /\ vpc[u] = "relock"
    /\ IF lockFile # sel[u].lock THEN Fail(u)
       ELSE Step(u, "retree") /\ fresh' = [fresh EXCEPT ![u] = TRUE]
            /\ UNCHANGED <<cache, sel, staged>> /\ Checkout

RereadTree(u) ==
    /\ vpc[u] = "retree"
    /\ IF lockFile # head \/ head # sel[u].tree THEN Fail(u)
       ELSE Step(u, "verify") /\ UNCHANGED <<cache, sel, staged, fresh>> /\ Checkout

-----------------------------------------------------------------------------
\* fetch_vendor_generation, with the lease
Exists(u) ==
    /\ vpc[u] = "exists" /\ Step(u, IF generation[sel[u]] # NoPackages THEN "verify" ELSE "cargo")
    /\ UNCHANGED <<cache, sel, staged, fresh>> /\ Checkout

\* populate_vendor_generation: cargo vendor --locked takes the lock file as it is now,
Cargo(u) ==
    /\ vpc[u] = "cargo"
    /\ \/ /\ staged' = [staged EXCEPT ![u] = lockFile] /\ Step(u, "validate")
          /\ UNCHANGED <<cache, sel, fresh>> /\ Checkout
       \/ Fail(u)

\* validate_cargo_lock: exactly the packages of the lock file
ValidateStaged(u) ==
    /\ vpc[u] = "validate"
    /\ IF staged[u] # lockFile THEN Fail(u)
       ELSE Step(u, "publish") /\ UNCHANGED <<cache, sel, staged, fresh>> /\ Checkout

\* publish_prepared_tree_noclobber
PublishGeneration(u) ==
    /\ vpc[u] = "publish" /\ generation[sel[u]] = NoPackages
    /\ generation' = [generation EXCEPT ![sel[u]] = staged[u]] /\ Step(u, "verify")
    /\ UNCHANGED <<kept, readers, holder, sel, staged, fresh>> /\ Checkout

\* An offline fetch and a verification give the lease back, open_verified_vendor_generation does not.
Serve(u) ==
    /\ Step(u, "served")
    /\ kept' = IF Does[u] = "keep" THEN kept \cup {sel[u]} ELSE kept
    /\ GiveBack(u) \/ (Does[u] = "read" /\ UNCHANGED <<readers, holder>>)
    /\ UNCHANGED <<generation, sel, staged, fresh>> /\ Checkout

\* A bug: the receipt names the selection, so its packages are believed.
VerifyReceipt(u) ==
    /\ vpc[u] = "verify"
    /\ IF generation[sel[u]] = NoPackages THEN Fail(u) ELSE Serve(u)

\* verify_vendor_generation_at: the receipt binds the selection by its name; the packages must
\* be those of the lock file, which is read again.
Verify(u) ==
    /\ vpc[u] = "verify"
    /\ IF generation[sel[u]] # lockFile THEN Fail(u) ELSE Serve(u)

\* The lease of an opened generation ends when it has been copied.
Drop(u) ==
    /\ vpc[u] = "served" /\ u \in readers[sel[u]] /\ GiveBack(u)
    /\ UNCHANGED <<generation, kept, vpc, sel, staged, fresh>> /\ Checkout

-----------------------------------------------------------------------------
Change ==
    /\ changes < MaxChanges /\ changes' = changes + 1
    /\ fresh' = [u \in Users |-> FALSE] /\ UNCHANGED <<cache, vpc, sel, staged>>

\* Edit, commit, and git switch
EditLock(l) == Change /\ l # lockFile /\ lockFile' = l /\ UNCHANGED head
Commit == Change /\ head # lockFile /\ head' = lockFile /\ UNCHANGED lockFile
Switch(l) == Change /\ l # head /\ head = lockFile /\ head' = l /\ lockFile' = l

\* cache cargo remove: under the same locks, and never what is kept
Remove(s) ==
    /\ generation[s] # NoPackages /\ readers[s] = {} /\ holder[s] = Nobody /\ s \notin kept
    /\ generation' = [generation EXCEPT ![s] = NoPackages]
    /\ UNCHANGED <<kept, readers, holder, vpc, sel, staged, fresh>> /\ Checkout

User(u) ==
    \/ ReadLock(u) \/ ReadTree(u) \/ LeaseRead(u) \/ LeaseWrite(u) \/ RereadLock(u) \/ RereadTree(u)
    \/ Exists(u) \/ Cargo(u) \/ ValidateStaged(u) \/ PublishGeneration(u) \/ Verify(u) \/ Drop(u)

VendorNext ==
    \/ \E u \in Users : User(u)
    \/ \E l \in Locks : EditLock(l) \/ Switch(l)
    \/ Commit
    \/ \E s \in Selections : Remove(s)

VendorSpec == VendorInit /\ [][VendorNext]_vendorVars

-----------------------------------------------------------------------------
(***************************************************************************)
(* ServesSelectedLock: what a command reports as verified, or keeps, holds *)
(* exactly the packages of the lock file that it has selected, unless the  *)
(* checkout changed while it ran (for keep: since it had the lock).  The   *)
(* generation may come from another fetch, during which the checkout did   *)
(* change, and whose packages then are not those of its name.              *)
(***************************************************************************)
ServesSelectedLock ==
    [][\A u \in Users : vpc[u] # "served" /\ vpc'[u] = "served" /\ fresh[u] =>
          /\ generation'[sel[u]] = sel[u].lock
          /\ sel[u].lock = sel[u].tree]_vendorVars
=============================================================================
