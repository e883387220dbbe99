------------------------------ MODULE FetchEngine ------------------------------
(***************************************************************************)
(* aros-fetch/src/engine.rs: processes that fetch a declared archive and   *)
(* its patches through a shared download cache and publish the unpacked,   *)
(* patched source tree.                                                    *)
(*                                                                         *)
(* A process takes the locks of its destination and of its patch base,     *)
(* fetches one item after another under the lock of the item's candidate,  *)
(* prepares a copy of the destination beside it and exchanges the two.     *)
(* The bytes of a payload are one of a few contents, and a tree is what    *)
(* was unpacked and applied in it, in order, and how often somebody has    *)
(* edited it.  The exchange itself is the subject of PreparedTree.         *)
(***************************************************************************)
EXTENDS Naturals, Sequences, FiniteSets

CONSTANTS
    Procs,
    Keys,        \* the paths in the download cache
    Retries,     \* RETRIES
    MaxCrashes, MaxEdits,
    Scenes       \* what the processes want, what a source may answer, and what happens meanwhile:
                 \* of "crash", "timeout", "fault", "edit" (of a destination), "touch" (of the cache)

Contents == {"good", "other", "foreign", "patch"}

(***************************************************************************)
(* A request has its destination, its patch base and its items: the        *)
(* archive, then the patches.  An item has candidates in the cache, each   *)
(* with a declared digest or "none", and origins.                          *)
(***************************************************************************)
ASSUME FetchAssumption ==
    /\ Retries \in Nat \ {0} /\ MaxCrashes \in Nat /\ MaxEdits \in Nat
    /\ \A s \in Scenes : s.answers \subseteq Contents
    /\ \A s \in Scenes, p \in Procs :
        /\ DOMAIN s.request[p] = {"dest", "base", "items", "extracts", "force", "offline"}
        /\ \A i \in DOMAIN s.request[p].items :
            LET item == s.request[p].items[i] IN
            /\ DOMAIN item = {"cands", "sum", "origins", "refresh"}
            /\ \A c \in DOMAIN item.cands : item.cands[c] \in Keys /\ item.sum[item.cands[c]] \in Contents \cup {"none"}
            /\ \A o \in DOMAIN item.origins : item.origins[o] \in {"remote", "local"}

VARIABLES
    scene,     \* one of Scenes
    pc,        \* where each process is
    job,       \* what it is about: [item, cand, origin, attempt, integrity, temp]
    got,       \* the payloads it has imported: [key, content, id]; id 0: not from the cache
    before,    \* the destination as it was measured
    staged,    \* the tree that it has prepared
    outcome,   \* how its run has ended
    lock,      \* the holder of each lock
    cache,     \* the download cache: [content, id]
    fresh,     \* the identity of the next file
    dest,      \* the destinations: [tree, receipts]
    crashes, edits

Request == scene.request
Answers == scene.answers
Env == scene.env

Wanted == {k \in Keys : \E p \in Procs : \E i \in DOMAIN Request[p].items :
              k \in DOMAIN Request[p].items[i].sum}
Dests == {Request[p].dest : p \in Procs}
Locks == [kind : {"destination"}, of : Dests] \cup [kind : {"base"}, of : {Request[p].base : p \in Procs}]
         \cup [kind : {"candidate"}, of : Keys]

work == <<pc, job, got, before, staged, outcome>>
vars == <<scene, work, lock, cache, fresh, dest, crashes, edits>>

NoFile == [content |-> "none", id |-> 0]
NoLock == "free"
NoTree == [top |-> "none", patched |-> <<>>, edited |-> 0]
Empty == [tree |-> NoTree, receipts |-> {}]
Start == [item |-> 1, cand |-> 1, origin |-> 1, attempt |-> 0, integrity |-> FALSE, temp |-> "none"]

Item(p) == Request[p].items[job[p].item]
Key(p) == Item(p).cands[job[p].cand]
Has(item, kind) == \E o \in DOMAIN item.origins : item.origins[o] = kind

The(kind, what) == [kind |-> kind, of |-> what]
DestLock(p) == The("destination", Request[p].dest)
BaseLock(p) == The("base", Request[p].base)
CandLock(p) == The("candidate", Key(p))

\* verify: a payload without a declared digest is taken as it is.
Verified(item, key, content) == item.sum[key] \in {"none", content}

(***************************************************************************)
(* FetchTypeOK: every variable has its type.                               *)
(***************************************************************************)
FetchTypeOK ==
    /\ scene \in Scenes
    /\ pc \in [Procs -> {"destination", "base", "candidate", "refresh", "cached", "origins",
                         "transfer", "publish", "import", "reject", "measure", "stage",
                         "revalidate", "exchange", "cleanup", "done", "crashed"}]
    /\ \A p \in Procs :
        /\ job[p].item \in 1..(Len(Request[p].items) + 1) /\ job[p].attempt \in 0..Retries
        /\ job[p].integrity \in BOOLEAN /\ job[p].temp \in Contents \cup {"none"}
        /\ outcome[p] \in {"none", "committed", "current", "failed", "mismatch", "indeterminate"}
        /\ \A i \in DOMAIN got[p] : got[p][i].key \in Keys /\ got[p][i].content \in Contents
    /\ lock \in [Locks -> Procs \cup {NoLock}]
    /\ \A k \in Keys : cache[k].content \in Contents \cup {"none"} /\ cache[k].id \in 0..(fresh - 1)
    /\ \A d \in Dests : dest[d].tree.top \in Contents \cup {"none"} /\ dest[d].tree.edited \in 0..MaxEdits
    /\ crashes \in 0..MaxCrashes /\ edits \in 0..MaxEdits

FetchInit ==
    /\ scene \in Scenes
    /\ pc = [p \in Procs |-> "destination"] /\ job = [p \in Procs |-> Start]
    /\ got = [p \in Procs |-> <<>>] /\ before = [p \in Procs |-> Empty]
    /\ staged = [p \in Procs |-> Empty] /\ outcome = [p \in Procs |-> "none"]
    /\ lock = [l \in Locks |-> NoLock]
    /\ cache = [k \in Keys |-> NoFile] /\ fresh = 1
    /\ dest = [d \in Dests |-> Empty] /\ crashes = 0 /\ edits = 0

Goto(p, step) == pc' = [pc EXCEPT ![p] = step]

\* What a process gives back when it ends, whichever way.
Released(p) == [l \in Locks |-> IF lock[l] = p THEN NoLock ELSE lock[l]]

Ends(p, how) ==
    /\ Goto(p, "done") /\ outcome' = [outcome EXCEPT ![p] = how] /\ lock' = Released(p)

Fails(p) == Ends(p, "failed") /\ UNCHANGED <<job, got, before, staged, cache, fresh, dest, crashes, edits>>

OnlyJob(p, new) ==
    /\ job' = [job EXCEPT ![p] = new]
    /\ UNCHANGED <<got, before, staged, outcome, fresh, dest, crashes, edits>>

-----------------------------------------------------------------------------
(***************************************************************************)
(* The locks.                                                              *)
(***************************************************************************)

\* FetchLock::acquire_path: a lock that stays busy is given up after LOCK_TIMEOUT.
Acquire(p, l, at, then) ==
    /\ pc[p] = at
    /\ \/ /\ lock[l] = NoLock /\ lock' = [lock EXCEPT ![l] = p] /\ Goto(p, then)
          /\ OnlyJob(p, job[p]) /\ UNCHANGED cache
       \/ "timeout" \in Env /\ lock[l] \notin {NoLock, p} /\ Fails(p)

AcquireDestination(p) == Acquire(p, DestLock(p), "destination", "base")

AcquirePatchBase(p) == Acquire(p, BaseLock(p), "base", "candidate")

AcquireCandidate(p) ==
    /\ pc[p] = "candidate" /\ job[p].item <= Len(Request[p].items)
    /\ job[p].cand <= Len(Item(p).cands)
    /\ Acquire(p, CandLock(p), "candidate",
               IF Item(p).refresh /\ Has(Item(p), "local") THEN "refresh" ELSE "cached")

\* All candidates are exhausted; a wrong digest outranks the other failures.
NoCandidate(p) ==
    /\ pc[p] = "candidate" /\ job[p].item <= Len(Request[p].items)
    /\ job[p].cand > Len(Item(p).cands)
    /\ Ends(p, IF job[p].integrity THEN "mismatch" ELSE "failed")
    /\ UNCHANGED <<job, got, before, staged, cache, fresh, dest, crashes, edits>>

ItemsComplete(p) ==
    /\ pc[p] = "candidate" /\ job[p].item > Len(Request[p].items)
    /\ Goto(p, "measure") /\ OnlyJob(p, job[p]) /\ UNCHANGED <<lock, cache>>

-----------------------------------------------------------------------------
(***************************************************************************)
(* fetch_candidates                                                        *)
(***************************************************************************)

\* PreparedPayload::import keeps a private copy and the identity of its source.
Takes(p, content, id) ==
    /\ got' = [got EXCEPT ![p] = Append(@, [key |-> Key(p), content |-> content, id |-> id])]
    /\ job' = [job EXCEPT ![p] = [Start EXCEPT !.item = job[p].item + 1]]
    /\ lock' = [lock EXCEPT ![CandLock(p)] = NoLock] /\ Goto(p, "candidate")
    /\ UNCHANGED <<before, staged, outcome, cache, fresh, dest, crashes, edits>>

\* Patches are read from the local origins first.
RefreshLocal(p) ==
    /\ pc[p] = "refresh"
    /\ \/ \E c \in Answers :
            \/ Verified(Item(p), Key(p), c) /\ Takes(p, c, 0)
            \/ ~ Verified(Item(p), Key(p), c) /\ Fails(p)
       \/ /\ Goto(p, IF Has(Item(p), "remote") THEN "cached" ELSE "origins")
          /\ OnlyJob(p, job[p]) /\ UNCHANGED <<lock, cache>>

Cached(p) ==
    /\ pc[p] = "cached"
    /\ LET file == cache[Key(p)] IN
       \/ file # NoFile /\ Verified(Item(p), Key(p), file.content) /\ Takes(p, file.content, file.id)
       \/ file # NoFile /\ ~ Verified(Item(p), Key(p), file.content) /\ Fails(p)
       \/ file = NoFile /\ Goto(p, "origins") /\ OnlyJob(p, job[p]) /\ UNCHANGED <<lock, cache>>

NextOrigin(p) == [job[p] EXCEPT !.origin = @ + 1, !.attempt = 0, !.temp = "none"]

\* The next origin that may be asked, or the next candidate.
Origins(p) ==
    /\ pc[p] = "origins" /\ UNCHANGED cache
    /\ LET item == Item(p)
           kind == item.origins[job[p].origin]
           skipped == (item.refresh /\ kind = "local") \/ (Request[p].offline /\ kind = "remote") IN
       \/ /\ job[p].origin > Len(item.origins) /\ Goto(p, "candidate")
          /\ lock' = [lock EXCEPT ![CandLock(p)] = NoLock]
          /\ OnlyJob(p, [job[p] EXCEPT !.cand = @ + 1, !.origin = 1])
       \/ /\ job[p].origin <= Len(item.origins) /\ skipped
          /\ OnlyJob(p, NextOrigin(p)) /\ UNCHANGED <<pc, lock>>
       \/ /\ job[p].origin <= Len(item.origins) /\ ~ skipped
          /\ Goto(p, "transfer") /\ OnlyJob(p, job[p]) /\ UNCHANGED lock

\* A bug: a transient failure is always worth another attempt.
TransferForever(p) ==
    /\ pc[p] = "transfer" /\ UNCHANGED <<lock, cache>>
    /\ \/ \E c \in Answers : Goto(p, "publish") /\ OnlyJob(p, [job[p] EXCEPT !.temp = c])
       \/ OnlyJob(p, [job[p] EXCEPT !.attempt = (@ + 1) % Retries]) /\ UNCHANGED pc
       \/ Goto(p, "origins") /\ OnlyJob(p, NextOrigin(p))

\* transfer: download_http asks again only after a failure that may pass; the
\* others, and a definitive answer, end with this origin.
Transfer(p) ==
    /\ pc[p] = "transfer" /\ UNCHANGED <<lock, cache>>
    /\ \/ \E c \in Answers : Goto(p, "publish") /\ OnlyJob(p, [job[p] EXCEPT !.temp = c])
       \/ /\ Item(p).origins[job[p].origin] = "remote" /\ job[p].attempt + 1 < Retries
          /\ OnlyJob(p, [job[p] EXCEPT !.attempt = @ + 1]) /\ UNCHANGED pc
       \/ Goto(p, "origins") /\ OnlyJob(p, NextOrigin(p))

\* publish_download_noclobber
Publish(p) ==
    /\ pc[p] = "publish" /\ UNCHANGED lock
    /\ LET file == cache[Key(p)] IN
       \/ /\ file = NoFile /\ Goto(p, "import")
          /\ cache' = [cache EXCEPT ![Key(p)] = [content |-> job[p].temp, id |-> fresh]]
          /\ fresh' = fresh + 1 /\ job' = [job EXCEPT ![p].temp = "none"]
          /\ UNCHANGED <<got, before, staged, outcome, dest, crashes, edits>>
       \/ /\ file # NoFile /\ file.content = job[p].temp /\ Goto(p, "import")
          /\ OnlyJob(p, [job[p] EXCEPT !.temp = "none"]) /\ UNCHANGED cache
       \/ /\ file # NoFile /\ file.content # job[p].temp /\ Goto(p, "origins")
          /\ OnlyJob(p, NextOrigin(p)) /\ UNCHANGED cache

\* foreign_archive_payload judges archives, and patches are none.
Foreign(p, content) == job[p].item = 1 /\ content = "foreign"

\* The installed file is imported, judged and verified.
Import(p) ==
    /\ pc[p] = "import"
    /\ LET file == cache[Key(p)]
           right == Verified(Item(p), Key(p), file.content) IN
       \/ file # NoFile /\ ~ Foreign(p, file.content) /\ right /\ Takes(p, file.content, file.id)
       \/ /\ file # NoFile /\ (Foreign(p, file.content) \/ ~ right)
          /\ Goto(p, "reject") /\ UNCHANGED <<lock, cache>>
          /\ OnlyJob(p, [job[p] EXCEPT !.integrity = @ \/ (~ Foreign(p, file.content) /\ ~ right)])
       \/ (file = NoFile \/ "fault" \in Env) /\ Fails(p)

Reject(p) ==
    /\ pc[p] = "reject" /\ Goto(p, "origins") /\ OnlyJob(p, NextOrigin(p)) /\ UNCHANGED lock
    /\ cache' = [cache EXCEPT ![Key(p)] = NoFile]

-----------------------------------------------------------------------------
(***************************************************************************)
(* publish_source_transaction                                              *)
(***************************************************************************)

\* The declaration of a receipt: what was fetched, by digest.
Patches(p) == [i \in 1..(Len(got[p]) - 1) |-> got[p][i + 1].content]
Declaration(p) == [archive |-> got[p][1].content, patches |-> Patches(p)]

\* source_receipt_matches
Matches(p, state) == [decl |-> Declaration(p), tree |-> state.tree] \in state.receipts

ThisDest(p) == dest[Request[p].dest]

Measure(p) ==
    /\ pc[p] = "measure" /\ UNCHANGED <<job, got, staged, cache, fresh, dest, crashes, edits>>
    /\ before' = [before EXCEPT ![p] = ThisDest(p)]
    /\ LET nothing == ~ Request[p].extracts /\ Patches(p) = <<>>
           current == ~ Request[p].force /\ Matches(p, ThisDest(p)) IN
       \/ (nothing \/ current) /\ Ends(p, "current")
       \/ ~ nothing /\ ~ current /\ Goto(p, "stage") /\ UNCHANGED <<outcome, lock>>

\* unpack_archive and merge_staged_archive into a tree, then apply_patch_to.  A
\* page that is no archive does not unpack; entries that are there are replaced
\* only by force; a patch does not apply twice.
Unpackable(p, tree) ==
    Request[p].extracts => got[p][1].content # "foreign" /\ (tree.top = "none" \/ Request[p].force)

\* A bug: what is there already is kept.
UnpackedBeside(p, tree) ==
    IF Request[p].extracts /\ tree.top = "none"
    THEN [tree EXCEPT !.top = got[p][1].content, !.patched = <<>>] ELSE tree

Unpacked(p, tree) ==
    IF Request[p].extracts THEN [tree EXCEPT !.top = got[p][1].content, !.patched = <<>>] ELSE tree

Applies(tree, patches) == tree.patched = <<>> \/ patches = <<>>

Patched(tree, patches) == [tree EXCEPT !.patched = @ \o patches]

\* copy_tree_contents, the archive, the patches, and the receipt of the result.
Stage(p) ==
    /\ pc[p] = "stage"
    /\ LET copy == ThisDest(p)
           tree == Unpacked(p, copy.tree)
           new == Patched(tree, Patches(p))
           others == {r \in copy.receipts : r.decl # Declaration(p)} IN
       \/ /\ Unpackable(p, copy.tree) /\ Applies(tree, Patches(p))
          /\ staged' = [staged EXCEPT ![p] = [tree |-> new,
                            receipts |-> others \cup {[decl |-> Declaration(p), tree |-> new]}]]
          /\ Goto(p, "revalidate")
          /\ UNCHANGED <<job, got, before, outcome, lock, cache, fresh, dest, crashes, edits>>
       \/ ~ (Unpackable(p, copy.tree) /\ Applies(tree, Patches(p))) /\ Fails(p)

\* PreparedPayload::revalidate for every payload
Revalidate(p) ==
    /\ pc[p] = "revalidate"
    /\ LET same == \A i \in DOMAIN got[p] :
                      got[p][i].id # 0 => cache[got[p][i].key].id = got[p][i].id IN
       \/ same /\ Goto(p, "exchange") /\ OnlyJob(p, job[p]) /\ UNCHANGED <<lock, cache>>
       \/ ~ same /\ Fails(p)

\* A bug: the exchange compares with the tree as it is at the time.
ExchangeAnything(p) ==
    /\ pc[p] = "exchange" /\ dest' = [dest EXCEPT ![Request[p].dest] = staged[p]] /\ Goto(p, "cleanup")
    /\ UNCHANGED <<job, got, before, staged, outcome, lock, cache, fresh, crashes, edits>>

\* exchange_prepared_source_tree_if_unchanged; its failures keep the staged tree.
Exchange(p) ==
    /\ pc[p] = "exchange"
    /\ \/ /\ ThisDest(p) = before[p]
          /\ dest' = [dest EXCEPT ![Request[p].dest] = staged[p]] /\ Goto(p, "cleanup")
          /\ UNCHANGED <<job, got, before, staged, outcome, lock, cache, fresh, crashes, edits>>
       \/ ThisDest(p) # before[p] /\ Fails(p)
       \/ /\ "fault" \in Env /\ ThisDest(p) = before[p]
          /\ \/ UNCHANGED dest
             \/ dest' = [dest EXCEPT ![Request[p].dest] = staged[p]]
          /\ Ends(p, "indeterminate")
          /\ UNCHANGED <<job, got, before, staged, cache, fresh, crashes, edits>>

\* The previous tree is removed, and the markers are written; no error counts.
Cleanup(p) ==
    /\ pc[p] = "cleanup" /\ Ends(p, "committed")
    /\ UNCHANGED <<job, got, before, staged, cache, fresh, dest, crashes, edits>>

-----------------------------------------------------------------------------
\* The locks and the private copies of a process end with it.
Crash(p) ==
    /\ "crash" \in Env /\ crashes < MaxCrashes /\ crashes' = crashes + 1
    /\ pc[p] \notin {"done", "crashed"} /\ Goto(p, "crashed") /\ lock' = Released(p)
    /\ UNCHANGED <<job, got, before, staged, outcome, cache, fresh, dest, edits>>

\* The same command is run again, after a crash or after an error.
Restart(p) ==
    /\ pc[p] = "crashed" /\ Goto(p, "destination")
    /\ job' = [job EXCEPT ![p] = Start] /\ got' = [got EXCEPT ![p] = <<>>]
    /\ before' = [before EXCEPT ![p] = Empty] /\ staged' = [staged EXCEPT ![p] = Empty]
    /\ UNCHANGED <<outcome, lock, cache, fresh, dest, crashes, edits>>

\* Somebody changes what does not come from the archive.
Edit(d) ==
    /\ "edit" \in Env /\ edits < MaxEdits /\ edits' = edits + 1
    /\ dest' = [dest EXCEPT ![d].tree.edited = @ + 1]
    /\ UNCHANGED <<work, lock, cache, fresh, crashes>>

\* An operator removes a payload from the cache, or seeds it, as the hints say.
Touch(k) ==
    /\ "touch" \in Env /\ edits < MaxEdits /\ edits' = edits + 1 /\ fresh' = fresh + 1
    /\ \/ cache' = [cache EXCEPT ![k] = NoFile]
       \/ \E c \in Answers : cache' = [cache EXCEPT ![k] = [content |-> c, id |-> fresh]]
    /\ UNCHANGED <<work, lock, dest, crashes>>

Step(p) ==
    \/ AcquireDestination(p) \/ AcquirePatchBase(p) \/ AcquireCandidate(p) \/ NoCandidate(p)
    \/ ItemsComplete(p) \/ RefreshLocal(p) \/ Cached(p) \/ Origins(p) \/ Transfer(p)
    \/ Publish(p) \/ Import(p) \/ Reject(p) \/ Measure(p) \/ Stage(p) \/ Revalidate(p)
    \/ Exchange(p) \/ Cleanup(p)

FetchNext ==
    /\ \/ \E p \in Procs : Step(p) \/ Crash(p) \/ Restart(p)
       \/ \E d \in Dests : Edit(d)
       \/ \E k \in Wanted : Touch(k)
       \/ (\A p \in Procs : pc[p] = "done") /\ UNCHANGED vars
    /\ UNCHANGED scene

FetchSpec == FetchInit /\ [][FetchNext]_vars

\* A process goes on, and one that has crashed is run again.
FetchLiveSpec == FetchSpec /\ \A p \in Procs : WF_vars(Step(p)) /\ WF_vars(Restart(p))

-----------------------------------------------------------------------------
(***************************************************************************)
(* UsesDeclared: what a process has imported for a candidate with a        *)
(* declared digest has that digest, whoever has put it into the cache and  *)
(* whatever that process had to compare it with.                           *)
(***************************************************************************)
UsesDeclared ==
    \A p \in Procs : \A i \in DOMAIN got[p] :
        Verified(Request[p].items[i], got[p][i].key, got[p][i].content)

(***************************************************************************)
(* ReceiptTellsTruth: a receipt that matches the tree beside it, which     *)
(* makes the next run do nothing, tells what is unpacked and applied       *)
(* there, also after a run that replaced only part of the tree.            *)
(***************************************************************************)
ReceiptTellsTruth ==
    \A p \in Procs : Request[p].extracts =>
        \A r \in dest[Request[p].dest].receipts :
            r.tree = dest[Request[p].dest].tree =>
                r.tree.top = r.decl.archive /\ r.tree.patched = r.decl.patches

(***************************************************************************)
(* EditsKept: no publication loses what somebody has changed in the        *)
(* destination while the tree was being prepared.                          *)
(***************************************************************************)
EditsKept == [][\A d \in Dests : dest'[d].tree.edited >= dest[d].tree.edited]_vars

(***************************************************************************)
(* RejectedStaysOut: "A mirror can answer 200 with an HTML page, or serve  *)
(* other bytes than the declared digest. Neither may reach the cache": no  *)
(* such page is in the cache for the next process to find.                 *)
(***************************************************************************)
RejectedStaysOut ==
    \A k \in Keys : lock[The("candidate", k)] = NoLock => cache[k].content # "foreign"

(***************************************************************************)
(* FetchEnds: every run ends.  The locks are taken in an order in which    *)
(* nobody waits for ever, also without giving up after LOCK_TIMEOUT, and   *)
(* the attempts at a transfer are finite.                                  *)
(***************************************************************************)
FetchEnds == \A p \in Procs : <>(pc[p] = "done")
=============================================================================
