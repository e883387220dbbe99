----------------------------- MODULE FetchProofs -----------------------------
(***************************************************************************)
(* Proofs about FetchEngine, for any number of processes, requests, paths  *)
(* in the cache, crashes and edits: what was imported has the declared     *)
(* digest, no publication loses an edit, and receipts tell the truth.      *)
(***************************************************************************)
EXTENDS FetchEngine, SequenceTheorems, TLAPS

-----------------------------------------------------------------------------
(***************************************************************************)
(* Shapes: of the values, only what the proofs need.                       *)
(***************************************************************************)
IsSeq(s) == s \in Seq({s[i] : i \in DOMAIN s})

IsTree(t) ==
    /\ t = [top |-> t.top, patched |-> t.patched, edited |-> t.edited]
    /\ t.edited \in Nat

IsState(s) == s = [tree |-> s.tree, receipts |-> s.receipts] /\ IsTree(s.tree)

JobType ==
    [item : Nat, cand : Nat, origin : Nat, attempt : Nat, integrity : BOOLEAN,
     temp : Contents \cup {"none"}]

Shapes ==
    /\ scene \in Scenes
    /\ pc = [p \in Procs |-> pc[p]] /\ job \in [Procs -> JobType]
    /\ got = [p \in Procs |-> got[p]] /\ \A p \in Procs : IsSeq(got[p])
    /\ before = [p \in Procs |-> before[p]] /\ staged = [p \in Procs |-> staged[p]]
    /\ \A p \in Procs : IsState(before[p]) /\ IsState(staged[p])
    /\ dest = [d \in Dests |-> dest[d]] /\ \A d \in Dests : IsState(dest[d])

\* The items are imported one after the other.
InOrder == \A p \in Procs : job[p].item = Len(got[p]) + 1

(***************************************************************************)
(* Of the destination, the tree that a process has prepared knows all that *)
(* was there when it measured the destination.                             *)
(***************************************************************************)
Keeps(p) ==
    /\ pc[p] = "stage" => before[p].tree.edited <= ThisDest(p).tree.edited
    /\ pc[p] \in {"revalidate", "exchange"} => before[p].tree.edited <= staged[p].tree.edited

FetchInv == Shapes /\ InOrder /\ UsesDeclared /\ \A p \in Procs : Keeps(p)

\* Everything that is written down of a tree is true.
Truthful(state) ==
    \A r \in state.receipts : r.tree.top = r.decl.archive /\ r.tree.patched = r.decl.patches

TruthInv ==
    \A p \in Procs : Request[p].extracts => Truthful(ThisDest(p)) /\ Truthful(staged[p])

-----------------------------------------------------------------------------
(***************************************************************************)
(* Sequences and records                                                   *)
(***************************************************************************)
LEMMA SeqIsSeq ==
    ASSUME NEW S, NEW s \in Seq(S)
    PROVE  IsSeq(s) /\ Len(s) \in Nat /\ DOMAIN s = 1..Len(s)
<1>1. Len(s) \in Nat /\ DOMAIN s = 1..Len(s) /\ s = [i \in 1..Len(s) |-> s[i]]
  OBVIOUS
<1>2. s \in [1..Len(s) -> {s[i] : i \in DOMAIN s}]
  BY <1>1, Zenon
<1>3. \A T : \A n \in Nat : s \in [1..n -> T] => s \in Seq(T)
  OBVIOUS
<1> QED BY <1>1, <1>2, <1>3, Zenon DEF IsSeq

LEMMA AppendIsSeq ==
    ASSUME NEW s, IsSeq(s), NEW e
    PROVE  /\ IsSeq(Append(s, e)) /\ Len(s) \in Nat
           /\ Len(Append(s, e)) = Len(s) + 1
           /\ DOMAIN s = 1..Len(s) /\ DOMAIN Append(s, e) = 1..Len(s) + 1
           /\ \A i \in 1..Len(s) : Append(s, e)[i] = s[i]
           /\ Append(s, e)[Len(s) + 1] = e
<1>1. PICK S : s \in Seq(S) /\ e \in S
  <2>1. {s[i] : i \in DOMAIN s} \subseteq {s[i] : i \in DOMAIN s} \cup {e}
    BY Zenon
  <2>2. s \in Seq({s[i] : i \in DOMAIN s} \cup {e})
    BY <2>1 DEF IsSeq
  <2> QED BY <2>2, Zenon
<1>2. Append(s, e) \in Seq(S)
  BY <1>1
<1>3. IsSeq(Append(s, e)) /\ DOMAIN s = 1..Len(s)
  BY <1>1, <1>2, SeqIsSeq, Zenon
<1>4. /\ Len(s) \in Nat /\ Len(Append(s, e)) = Len(s) + 1
      /\ \A i \in 1..Len(s) : Append(s, e)[i] = s[i]
      /\ Append(s, e)[Len(s) + 1] = e
  BY <1>1, AppendProperties
<1>5. DOMAIN Append(s, e) = 1..Len(s) + 1
  BY <1>2, <1>4
<1> QED BY <1>3, <1>4, <1>5, Zenon

LEMMA EmptyIsSeq == IsSeq(<<>>) /\ Len(<<>>) = 0 /\ DOMAIN <<>> = {}
<1>1. <<>> \in Seq({})
  OBVIOUS
<1>2. Len(<<>>) = 0 /\ DOMAIN <<>> = {}
  OBVIOUS
<1> QED BY <1>1, <1>2, SeqIsSeq, Zenon

LEMMA TreeFields ==
    ASSUME NEW t, IsTree(t), NEW x, NEW y
    PROVE  /\ [t EXCEPT !.top = x, !.patched = y]
                = [top |-> x, patched |-> y, edited |-> t.edited]
           /\ [t EXCEPT !.patched = y] = [top |-> t.top, patched |-> y, edited |-> t.edited]
           /\ [t EXCEPT !.edited = x] = [top |-> t.top, patched |-> t.patched, edited |-> x]
<1>1. t = [top |-> t.top, patched |-> t.patched, edited |-> t.edited]
  BY Zenon DEF IsTree
<1>2. [t EXCEPT !.top = x, !.patched = y] = [top |-> x, patched |-> y, edited |-> t.edited]
  <2>1. PICK u : u = [t EXCEPT !.top = x]
    BY Zenon
  <2>2. u = [top |-> x, patched |-> t.patched, edited |-> t.edited]
    BY <1>1, <2>1, Zenon
  <2>3. [u EXCEPT !.patched = y] = [top |-> x, patched |-> y, edited |-> t.edited]
    BY <2>2
  <2> QED BY <2>1, <2>3, Zenon
<1>3. [t EXCEPT !.patched = y] = [top |-> t.top, patched |-> y, edited |-> t.edited]
  BY <1>1
<1>4. [t EXCEPT !.edited = x] = [top |-> t.top, patched |-> t.patched, edited |-> x]
  BY <1>1
<1> QED BY <1>2, <1>3, <1>4, Zenon

-----------------------------------------------------------------------------
(***************************************************************************)
(* The kinds of steps.  Most change neither a tree nor what was imported.  *)
(***************************************************************************)
SameItem(p, new) == new \in JobType /\ new.item = job[p].item

Quiet(p) ==
    /\ UNCHANGED <<got, before, staged, dest>>
    /\ \E new : SameItem(p, new) /\ job' = [job EXCEPT ![p] = new]
    /\ \E s : s \notin {"stage", "revalidate", "exchange"} /\ Goto(p, s)

Imports(p) == \E c, id : Verified(Item(p), Key(p), c) /\ Takes(p, c, id)

LEMMA JobFields ==
    ASSUME Shapes, NEW p \in Procs
    PROVE  /\ job[p] \in JobType /\ job = [q \in Procs |-> job[q]]
           /\ SameItem(p, job[p])
           /\ SameItem(p, NextOrigin(p))
           /\ SameItem(p, [job[p] EXCEPT !.cand = @ + 1, !.origin = 1])
           /\ SameItem(p, [job[p] EXCEPT !.attempt = @ + 1])
           /\ SameItem(p, [job[p] EXCEPT !.temp = "none"])
           /\ \A c \in Answers : SameItem(p, [job[p] EXCEPT !.temp = c])
           /\ \A b \in BOOLEAN : SameItem(p, [job[p] EXCEPT !.integrity = @ \/ b])
<1>1. job[p] \in JobType /\ job = [q \in Procs |-> job[q]]
  BY Zenon DEF Shapes
<1>2. Answers \subseteq Contents
  BY FetchAssumption, Zenon DEF Shapes, Answers
<1>3. SameItem(p, [job[p] EXCEPT !.attempt = @ + 1])
  BY <1>1 DEF SameItem, JobType
<1>4. \A c \in Contents \cup {"none"} : SameItem(p, [job[p] EXCEPT !.temp = c])
  BY <1>1, Zenon DEF SameItem, JobType
<1>5. \A b \in BOOLEAN : SameItem(p, [job[p] EXCEPT !.integrity = @ \/ b])
  BY <1>1, Zenon DEF SameItem, JobType
<1>a. \A j \in JobType : /\ [j EXCEPT !.cand = @ + 1] \in JobType
                         /\ [j EXCEPT !.cand = @ + 1].item = j.item
  BY DEF JobType
<1>b. \A j \in JobType : \A n \in Nat : /\ [j EXCEPT !.origin = n] \in JobType
                                        /\ [j EXCEPT !.origin = n].item = j.item
  BY Zenon DEF JobType
<1>c. \A j \in JobType : /\ [j EXCEPT !.attempt = 0] \in JobType
                         /\ [j EXCEPT !.attempt = 0].item = j.item
  BY Zenon DEF JobType
<1>d. \A j \in JobType : /\ [j EXCEPT !.temp = "none"] \in JobType
                         /\ [j EXCEPT !.temp = "none"].item = j.item
  BY Zenon DEF JobType
<1>6. SameItem(p, [job[p] EXCEPT !.cand = @ + 1, !.origin = 1])
  <2>1. PICK j : j = [job[p] EXCEPT !.cand = @ + 1]
    BY Zenon
  <2>2. j \in JobType /\ j.item = job[p].item
    BY <1>1, <1>a, <2>1, Zenon
  <2>3. SameItem(p, [j EXCEPT !.origin = 1])
    BY <1>b, <2>2, Zenon DEF SameItem
  <2> QED BY <2>1, <2>3, Zenon
<1>7. SameItem(p, NextOrigin(p))
  <2>0. job[p].origin + 1 \in Nat
    BY <1>1 DEF JobType
  <2>1. PICK j : j = [job[p] EXCEPT !.origin = @ + 1]
    BY Zenon
  <2>2. j \in JobType /\ j.item = job[p].item
    BY <1>1, <1>b, <2>0, <2>1, Zenon
  <2>3. PICK k : k = [j EXCEPT !.attempt = 0]
    BY Zenon
  <2>4. k \in JobType /\ k.item = job[p].item
    BY <1>c, <2>2, <2>3, Zenon
  <2>5. SameItem(p, [k EXCEPT !.temp = "none"])
    BY <1>d, <2>4, Zenon DEF SameItem
  <2> QED BY <2>1, <2>3, <2>5, Zenon DEF NextOrigin
<1> QED BY <1>1, <1>2, <1>3, <1>4, <1>5, <1>6, <1>7, Zenon DEF SameItem

LEMMA QuietSteps ==
    ASSUME Shapes, NEW p \in Procs
    PROVE  /\ \A new, s : OnlyJob(p, new) /\ SameItem(p, new) /\ Goto(p, s)
                          /\ s \notin {"stage", "revalidate", "exchange"} => Quiet(p)
           /\ \A new : OnlyJob(p, new) /\ SameItem(p, new) /\ UNCHANGED pc
                       /\ pc[p] \notin {"stage", "revalidate", "exchange"} => Quiet(p)
           /\ \A how : Ends(p, how) /\ UNCHANGED <<job, got, before, staged, dest>> => Quiet(p)
           /\ Fails(p) => Quiet(p)
<1>1. job = [job EXCEPT ![p] = job[p]] /\ SameItem(p, job[p])
  BY JobFields, Zenon
<1>2. pc = [pc EXCEPT ![p] = pc[p]]
  BY Zenon DEF Shapes
<1>3. ASSUME NEW new, NEW s, OnlyJob(p, new), SameItem(p, new), Goto(p, s),
             s \notin {"stage", "revalidate", "exchange"}
      PROVE  Quiet(p)
  BY <1>3, Zenon DEF OnlyJob, Quiet
<1>4. ASSUME NEW new, OnlyJob(p, new), SameItem(p, new), UNCHANGED pc,
             pc[p] \notin {"stage", "revalidate", "exchange"}
      PROVE  Quiet(p)
  <2>1. Goto(p, pc[p])
    BY <1>2, <1>4, Zenon DEF Goto
  <2> QED BY <1>3, <1>4, <2>1, Zenon
<1>5. ASSUME NEW how, Ends(p, how), UNCHANGED <<job, got, before, staged, dest>>
      PROVE  Quiet(p)
  <2>1. Goto(p, "done") /\ "done" \notin {"stage", "revalidate", "exchange"}
    BY <1>5, Zenon DEF Ends
  <2>2. job' = [job EXCEPT ![p] = job[p]]
    BY <1>1, <1>5, Zenon
  <2> QED BY <1>1, <1>5, <2>1, <2>2, Zenon DEF Quiet
<1>6. ASSUME Fails(p) PROVE Quiet(p)
  <2>1. Ends(p, "failed") /\ UNCHANGED <<job, got, before, staged, dest>>
    BY <1>6, Zenon DEF Fails
  <2> QED BY <1>5, <2>1, Zenon
<1> QED BY <1>3, <1>4, <1>5, <1>6, Zenon

LEMMA StepKinds ==
    ASSUME Shapes, NEW p \in Procs, Step(p)
    PROVE  Quiet(p) \/ Imports(p) \/ Measure(p) \/ Stage(p) \/ Revalidate(p) \/ Exchange(p)
<1> USE JobFields, QuietSteps
<1>1. CASE AcquireDestination(p) \/ AcquirePatchBase(p)
  BY <1>1, Zenon DEF AcquireDestination, AcquirePatchBase, Acquire
<1>2. CASE AcquireCandidate(p)
  BY <1>2, Zenon DEF AcquireCandidate, Acquire
<1>3. CASE NoCandidate(p) \/ ItemsComplete(p) \/ Cleanup(p)
  BY <1>3, Zenon DEF NoCandidate, ItemsComplete, Cleanup
<1>4. CASE RefreshLocal(p)
  BY <1>4, Zenon DEF RefreshLocal, Imports
<1>5. CASE Cached(p)
  BY <1>5, Zenon DEF Cached, Imports
<1>6. CASE Origins(p)
  BY <1>6, Zenon DEF Origins
<1>7. CASE Transfer(p)
  BY <1>7, Zenon DEF Transfer
<1>8. CASE Publish(p)
  <2>1. [job EXCEPT ![p].temp = "none"] = [job EXCEPT ![p] = [job[p] EXCEPT !.temp = "none"]]
    BY Zenon DEF Shapes
  <2>2. CASE /\ job' = [job EXCEPT ![p].temp = "none"] /\ Goto(p, "import")
             /\ UNCHANGED <<got, before, staged, dest>>
    BY <2>1, <2>2, Zenon DEF Quiet
  <2> QED BY <1>8, <2>2, Zenon DEF Publish
<1>9. CASE Import(p)
  BY <1>9, Zenon DEF Import, Imports
<1>10. CASE Reject(p)
  BY <1>10, Zenon DEF Reject
<1> QED BY <1>1, <1>2, <1>3, <1>4, <1>5, <1>6, <1>7, <1>8, <1>9, <1>10, Zenon DEF Step

-----------------------------------------------------------------------------
(***************************************************************************)
(* What a step leaves alone, and the edits that it keeps.                  *)
(***************************************************************************)
Grows == \A d \in Dests : dest[d].tree.edited <= dest'[d].tree.edited

Counts ==
    /\ \A p \in Procs : before[p].tree.edited \in Nat /\ staged[p].tree.edited \in Nat
    /\ \A d \in Dests : dest[d].tree.edited \in Nat

LEMMA EditCounts == Shapes => Counts
BY Zenon DEF Shapes, IsState, IsTree, Counts

LEMMA EditCountsNext == Shapes' => Counts'
<1>1. Shapes => Counts
  BY EditCounts, Zenon
<1> QED BY <1>1, PTL

LEMMA SameGrows ==
    ASSUME FetchInv, UNCHANGED dest
    PROVE  Grows
<1>1. \A d \in Dests : dest[d].tree.edited \in Nat /\ dest'[d].tree.edited = dest[d].tree.edited
  BY EditCounts, Zenon DEF FetchInv, Counts
<1>2. \A n \in Nat : n <= n
  OBVIOUS
<1> QED BY <1>1, <1>2, Zenon DEF Grows

LEMMA OthersKeep ==
    ASSUME Shapes, Shapes', UNCHANGED scene, Grows, NEW q \in Procs, Keeps(q),
           pc'[q] = pc[q], before'[q] = before[q], staged'[q] = staged[q]
    PROVE  Keeps(q)'
<1>1. Request[q].dest \in Dests /\ Request' = Request
  BY Zenon DEF Dests, Request
<1>2. ThisDest(q).tree.edited <= ThisDest(q)'.tree.edited
  BY <1>1, Zenon DEF Grows, ThisDest
<1>3. /\ before[q].tree.edited \in Nat /\ ThisDest(q).tree.edited \in Nat
      /\ ThisDest(q)'.tree.edited \in Nat
  <2>1. dest'[Request[q].dest].tree.edited \in Nat
    BY <1>1, EditCountsNext, Zenon DEF Counts, Dests, Request
  <2> QED BY <1>1, <2>1, EditCounts, Zenon DEF Counts, ThisDest
<1> QED BY <1>2, <1>3 DEF Keeps

LEMMA QuietKeeps ==
    ASSUME FetchInv, NEW p \in Procs, Quiet(p), UNCHANGED scene
    PROVE  FetchInv' /\ Grows
<1>1. PICK new, s : /\ SameItem(p, new) /\ job' = [job EXCEPT ![p] = new]
                    /\ s \notin {"stage", "revalidate", "exchange"} /\ pc' = [pc EXCEPT ![p] = s]
  BY Zenon DEF Quiet, Goto
<1>2. UNCHANGED <<got, before, staged, dest, Dests>>
  BY Zenon DEF Quiet, Dests, Request
<1>3. Shapes'
  BY <1>1, <1>2, Zenon DEF FetchInv, Shapes, SameItem
<1>4. InOrder'
  BY <1>1, <1>2, Zenon DEF FetchInv, Shapes, SameItem, InOrder
<1>5. UsesDeclared'
  BY <1>2, Zenon DEF FetchInv, UsesDeclared, Request
<1>6. Grows
  BY <1>2, SameGrows, Zenon
<1>7. ASSUME NEW q \in Procs PROVE Keeps(q)'
  <2>1. CASE q = p
    BY <1>1, <2>1, Zenon DEF FetchInv, Shapes, Keeps
  <2>2. CASE q # p
    BY <1>1, <1>2, <1>3, <1>6, <2>2, OthersKeep, Zenon DEF FetchInv, Shapes
  <2> QED BY <2>1, <2>2, Zenon
<1> QED BY <1>3, <1>4, <1>5, <1>6, <1>7, Zenon DEF FetchInv

LEMMA ImportsKeep ==
    ASSUME FetchInv, NEW p \in Procs, Imports(p), UNCHANGED scene
    PROVE  FetchInv' /\ Grows
<1>1. PICK c, id : Verified(Item(p), Key(p), c) /\ Takes(p, c, id)
  BY Zenon DEF Imports
<1>2. UNCHANGED <<before, staged, dest, Dests, Request>> /\ pc' = [pc EXCEPT ![p] = "candidate"]
  BY <1>1, Zenon DEF Takes, Goto, Dests, Request
<1>3. PICK e : e = [key |-> Key(p), content |-> c, id |-> id]
  BY Zenon
<1>4. got' = [got EXCEPT ![p] = Append(got[p], e)]
  BY <1>1, <1>3, Zenon DEF Takes
<1>5. /\ IsSeq(Append(got[p], e)) /\ Len(got[p]) \in Nat
      /\ Len(Append(got[p], e)) = Len(got[p]) + 1
      /\ DOMAIN got[p] = 1..Len(got[p]) /\ DOMAIN Append(got[p], e) = 1..Len(got[p]) + 1
      /\ \A i \in 1..Len(got[p]) : Append(got[p], e)[i] = got[p][i]
      /\ Append(got[p], e)[Len(got[p]) + 1] = e
  BY AppendIsSeq, Zenon DEF FetchInv, Shapes
<1>6. PICK j : j = [Start EXCEPT !.item = job[p].item + 1]
  BY Zenon
<1>7. job' = [job EXCEPT ![p] = j] /\ j \in JobType /\ j.item = job[p].item + 1
  <2>1. job[p].item \in Nat
    BY Zenon DEF FetchInv, Shapes, JobType
  <2>2. job' = [job EXCEPT ![p] = j]
    BY <1>1, <1>6, Zenon DEF Takes
  <2>3. job[p].item + 1 \in Nat /\ Start \in JobType
    BY <2>1 DEF Start, JobType
  <2>4. \A n \in Nat : /\ [Start EXCEPT !.item = n] \in JobType
                       /\ [Start EXCEPT !.item = n].item = n
    BY <2>3, Zenon DEF JobType
  <2> QED BY <1>6, <2>2, <2>3, <2>4, Zenon
<1>8. Shapes'
  BY <1>2, <1>4, <1>5, <1>7, Zenon DEF FetchInv, Shapes
<1>9. InOrder'
  BY <1>4, <1>5, <1>7, Zenon DEF FetchInv, Shapes, InOrder
<1>10. UsesDeclared'
  <2>1. SUFFICES ASSUME NEW q \in Procs, NEW i \in DOMAIN got'[q]
                 PROVE  Verified(Request[q].items[i], got'[q][i].key, got'[q][i].content)
    BY <1>2, Zenon DEF UsesDeclared
  <2>2. CASE q # p \/ i # Len(got[p]) + 1
    <3>1. i \in DOMAIN got[q] /\ got'[q][i] = got[q][i]
      BY <1>4, <1>5, <2>2 DEF FetchInv, Shapes
    <3> QED BY <3>1, Zenon DEF FetchInv, UsesDeclared
  <2>3. CASE q = p /\ i = Len(got[p]) + 1
    <3>1. got'[q][i] = e /\ i = job[p].item
      BY <1>4, <1>5, <2>3, Zenon DEF FetchInv, Shapes, InOrder
    <3>2. e.key = Key(p) /\ e.content = c
      BY <1>3, Zenon
    <3> QED BY <1>1, <2>3, <3>1, <3>2, Zenon DEF Item
  <2> QED BY <2>2, <2>3, Zenon
<1>11. Grows
  BY <1>2, SameGrows, Zenon
<1>12. ASSUME NEW q \in Procs PROVE Keeps(q)'
  <2>1. CASE q = p
    BY <1>2, <2>1, Zenon DEF FetchInv, Shapes, Keeps
  <2>2. CASE q # p
    BY <1>2, <1>8, <1>11, <2>2, OthersKeep, Zenon DEF FetchInv, Shapes
  <2> QED BY <2>1, <2>2, Zenon
<1> QED BY <1>8, <1>9, <1>10, <1>11, <1>12, Zenon DEF FetchInv

LEMMA SameImports ==
    ASSUME FetchInv, UNCHANGED <<scene, got>>, \A q \in Procs : job'[q].item = job[q].item
    PROVE  InOrder' /\ UsesDeclared' /\ Dests' = Dests /\ Request' = Request
BY Zenon DEF FetchInv, InOrder, UsesDeclared, Dests, Request

LEMMA MeasureKeeps ==
    ASSUME FetchInv, NEW p \in Procs, Measure(p), UNCHANGED scene
    PROVE  FetchInv' /\ Grows
<1>1. UNCHANGED <<job, got, staged, dest>> /\ before' = [before EXCEPT ![p] = ThisDest(p)]
  BY Zenon DEF Measure
<1>2. PICK s : s \in {"done", "stage"} /\ pc' = [pc EXCEPT ![p] = s]
  BY Zenon DEF Measure, Ends, Goto
<1>3. InOrder' /\ UsesDeclared' /\ Dests' = Dests /\ Request' = Request
  BY <1>1, SameImports, Zenon
<1>4. Request[p].dest \in Dests /\ IsState(ThisDest(p))
  BY Zenon DEF FetchInv, Shapes, ThisDest, Dests
<1>5. Shapes'
  BY <1>1, <1>2, <1>3, <1>4, Zenon DEF FetchInv, Shapes
<1>6. Grows
  BY <1>1, SameGrows, Zenon
<1>7. ASSUME NEW q \in Procs PROVE Keeps(q)'
  <2>1. CASE q = p
    <3>1. before'[q] = ThisDest(q)' /\ pc'[q] \in {"done", "stage"}
      BY <1>1, <1>2, <1>3, <2>1, Zenon DEF FetchInv, Shapes, ThisDest
    <3>2. ThisDest(q)'.tree.edited \in Nat
      BY <1>1, <1>3, <1>4, <2>1, EditCounts, Zenon DEF FetchInv, Counts, ThisDest
    <3> QED BY <3>1, <3>2 DEF Keeps
  <2>2. CASE q # p
    BY <1>1, <1>2, <1>5, <1>6, <2>2, OthersKeep, Zenon DEF FetchInv, Shapes
  <2> QED BY <2>1, <2>2, Zenon
<1> QED BY <1>3, <1>5, <1>6, <1>7, Zenon DEF FetchInv

\* What Stage prepares is the destination's tree, edits included.
LEMMA StagedTree ==
    ASSUME NEW p, NEW tree, IsTree(tree), NEW patches
    PROVE  /\ IsTree(Patched(Unpacked(p, tree), patches))
           /\ Patched(Unpacked(p, tree), patches).edited = tree.edited
           /\ Request[p].extracts =>
                /\ Patched(Unpacked(p, tree), patches).top = got[p][1].content
                /\ Patched(Unpacked(p, tree), patches).patched = <<>> \o patches
<1>1. PICK u : u = Unpacked(p, tree)
  BY Zenon
<1>2. /\ u = [top |-> u.top, patched |-> u.patched, edited |-> tree.edited]
      /\ Request[p].extracts => u.top = got[p][1].content /\ u.patched = <<>>
  <2>1. CASE Request[p].extracts
    <3>1. u = [top |-> got[p][1].content, patched |-> <<>>, edited |-> tree.edited]
      BY <1>1, <2>1, TreeFields, Zenon DEF Unpacked
    <3> QED BY <3>1, Zenon
  <2>2. CASE ~ Request[p].extracts
    BY <1>1, <2>2, Zenon DEF Unpacked, IsTree
  <2> QED BY <2>1, <2>2, Zenon
<1>3. tree.edited \in Nat /\ u.edited = tree.edited
  BY <1>2 DEF IsTree
<1>4. IsTree(u)
  BY <1>2, <1>3, Zenon DEF IsTree
<1>5. PICK n : n = Patched(u, patches)
  BY Zenon
<1>6. n = [top |-> u.top, patched |-> u.patched \o patches, edited |-> u.edited]
  BY <1>4, <1>5, TreeFields, Zenon DEF Patched
<1>7. n.top = u.top /\ n.patched = u.patched \o patches /\ n.edited = u.edited
  BY <1>6, Zenon
<1>8. IsTree(n)
  BY <1>3, <1>6, <1>7, Zenon DEF IsTree
<1> QED BY <1>1, <1>2, <1>3, <1>5, <1>7, <1>8, Zenon

LEMMA StageKeeps ==
    ASSUME FetchInv, NEW p \in Procs, Stage(p), UNCHANGED scene
    PROVE  FetchInv' /\ Grows
<1>1. CASE Fails(p)
  BY <1>1, QuietSteps, QuietKeeps, Zenon DEF FetchInv
<1>2. CASE ~ Fails(p)
  <2> DEFINE new == Patched(Unpacked(p, ThisDest(p).tree), Patches(p))
  <2>1. PICK r : staged' = [staged EXCEPT ![p] = [tree |-> new, receipts |-> r]]
    BY <1>2, Zenon DEF Stage
  <2>2. /\ UNCHANGED <<job, got, before, dest>> /\ pc' = [pc EXCEPT ![p] = "revalidate"]
        /\ pc[p] = "stage"
    BY <1>2, Zenon DEF Stage, Goto
  <2>3. InOrder' /\ UsesDeclared' /\ Dests' = Dests /\ Request' = Request
    BY <2>2, SameImports, Zenon
  <2>4. Request[p].dest \in Dests /\ IsTree(ThisDest(p).tree)
    BY Zenon DEF FetchInv, Shapes, ThisDest, Dests, IsState
  <2>5. IsTree(new) /\ new.edited = ThisDest(p).tree.edited
    <3>1. \A patches : /\ IsTree(Patched(Unpacked(p, ThisDest(p).tree), patches))
                       /\ Patched(Unpacked(p, ThisDest(p).tree), patches).edited
                            = ThisDest(p).tree.edited
      BY <2>4, StagedTree
    <3> QED BY <3>1, Zenon
  <2> HIDE DEF new
  <2>6. IsState([tree |-> new, receipts |-> r])
    BY <2>5, Zenon DEF IsState
  <2>7. Shapes'
    BY <2>1, <2>2, <2>3, <2>6, Zenon DEF FetchInv, Shapes
  <2>8. Grows
    BY <2>2, SameGrows, Zenon
  <2>9. ASSUME NEW q \in Procs PROVE Keeps(q)'
    <3>1. CASE q = p
      <4>1. before'[q] = before[p] /\ staged'[q].tree = new /\ pc'[q] = "revalidate"
        BY <2>1, <2>2, <3>1, Zenon DEF FetchInv, Shapes
      <4>2. before[p].tree.edited <= new.edited
        BY <2>2, <2>5, Zenon DEF FetchInv, Keeps
      <4> QED BY <4>1, <4>2, Zenon DEF Keeps
    <3>2. CASE q # p
      BY <2>1, <2>2, <2>7, <2>8, <3>2, OthersKeep, Zenon DEF FetchInv, Shapes
    <3> QED BY <3>1, <3>2, Zenon
  <2> QED BY <2>3, <2>7, <2>8, <2>9, Zenon DEF FetchInv
<1> QED BY <1>1, <1>2, Zenon

LEMMA RevalidateKeeps ==
    ASSUME FetchInv, NEW p \in Procs, Revalidate(p), UNCHANGED scene
    PROVE  FetchInv' /\ Grows
<1>1. CASE Fails(p)
  BY <1>1, QuietSteps, QuietKeeps, Zenon DEF FetchInv
<1>2. CASE ~ Fails(p)
  <2>1. /\ OnlyJob(p, job[p]) /\ pc' = [pc EXCEPT ![p] = "exchange"] /\ pc[p] = "revalidate"
    BY <1>2, Zenon DEF Revalidate, Goto
  <2>2. UNCHANGED <<job, got, before, staged, dest>>
    BY <2>1, Zenon DEF OnlyJob, FetchInv, Shapes
  <2>3. InOrder' /\ UsesDeclared' /\ Dests' = Dests /\ Request' = Request
    BY <2>2, SameImports, Zenon
  <2>4. Shapes'
    BY <2>1, <2>2, <2>3, Zenon DEF FetchInv, Shapes
  <2>5. Grows
    BY <2>2, SameGrows, Zenon
  <2>6. ASSUME NEW q \in Procs PROVE Keeps(q)'
    <3>1. CASE q = p
      BY <2>1, <2>2, <3>1, Zenon DEF FetchInv, Shapes, Keeps
    <3>2. CASE q # p
      BY <2>1, <2>2, <2>4, <2>5, <3>2, OthersKeep, Zenon DEF FetchInv, Shapes
    <3> QED BY <3>1, <3>2, Zenon
  <2> QED BY <2>3, <2>4, <2>5, <2>6, Zenon DEF FetchInv
<1> QED BY <1>1, <1>2, Zenon

\* The only step of a process that changes a destination finds it as it was measured.
LEMMA ExchangeKinds ==
    ASSUME FetchInv, NEW p \in Procs, Exchange(p)
    PROVE  \/ Quiet(p)
           \/ /\ ThisDest(p) = before[p] /\ pc[p] = "exchange"
              /\ dest' = [dest EXCEPT ![Request[p].dest] = staged[p]]
              /\ UNCHANGED <<job, got, before, staged>>
              /\ \E s : s \in {"cleanup", "done"} /\ pc' = [pc EXCEPT ![p] = s]
<1>1. pc[p] = "exchange"
  BY Zenon DEF Exchange
<1>2. CASE Fails(p)
  BY <1>2, QuietSteps, Zenon DEF FetchInv
<1>3. CASE /\ ThisDest(p) = before[p] /\ Goto(p, "cleanup")
           /\ dest' = [dest EXCEPT ![Request[p].dest] = staged[p]]
           /\ UNCHANGED <<job, got, before, staged>>
  BY <1>1, <1>3, Zenon DEF Goto
<1>4. CASE /\ ThisDest(p) = before[p] /\ Ends(p, "indeterminate")
           /\ UNCHANGED <<job, got, before, staged>>
           /\ (UNCHANGED dest \/ dest' = [dest EXCEPT ![Request[p].dest] = staged[p]])
  <2>1. CASE UNCHANGED dest
    BY <1>4, <2>1, QuietSteps, Zenon DEF FetchInv
  <2>2. CASE dest' = [dest EXCEPT ![Request[p].dest] = staged[p]]
    BY <1>1, <1>4, <2>2, Zenon DEF Ends, Goto
  <2> QED BY <1>4, <2>1, <2>2, Zenon
<1> QED BY <1>2, <1>3, <1>4, Zenon DEF Exchange

LEMMA ExchangeKeeps ==
    ASSUME FetchInv, NEW p \in Procs, Exchange(p), UNCHANGED scene
    PROVE  FetchInv' /\ Grows
<1>1. CASE Quiet(p)
  BY <1>1, QuietKeeps, Zenon
<1>2. CASE /\ ThisDest(p) = before[p] /\ pc[p] = "exchange"
           /\ dest' = [dest EXCEPT ![Request[p].dest] = staged[p]]
           /\ UNCHANGED <<job, got, before, staged>>
           /\ \E s : s \in {"cleanup", "done"} /\ pc' = [pc EXCEPT ![p] = s]
  <2>1. PICK s : s \in {"cleanup", "done"} /\ pc' = [pc EXCEPT ![p] = s]
    BY <1>2, Zenon
  <2>2. InOrder' /\ UsesDeclared' /\ Dests' = Dests /\ Request' = Request
    BY <1>2, SameImports, Zenon
  <2>3. Shapes'
    BY <1>2, <2>1, <2>2, Zenon DEF FetchInv, Shapes
  <2>4. Grows
    <3>1. before[p].tree.edited <= staged[p].tree.edited
      BY <1>2, Zenon DEF FetchInv, Keeps
    <3>2. ASSUME NEW d \in Dests PROVE dest[d].tree.edited <= dest'[d].tree.edited
      <4>1. CASE d = Request[p].dest
        BY <1>2, <3>1, <4>1, Zenon DEF FetchInv, Shapes, ThisDest
      <4>2. CASE d # Request[p].dest
        <5>1. dest'[d] = dest[d] /\ dest[d].tree.edited \in Nat
          BY <1>2, <4>2, EditCounts, Zenon DEF FetchInv, Shapes, Counts
        <5> QED BY <5>1
      <4> QED BY <4>1, <4>2, Zenon
    <3> QED BY <3>2, Zenon DEF Grows
  <2>5. ASSUME NEW q \in Procs PROVE Keeps(q)'
    <3>1. CASE q = p
      BY <2>1, <3>1, Zenon DEF FetchInv, Shapes, Keeps
    <3>2. CASE q # p
      BY <1>2, <2>1, <2>3, <2>4, <3>2, OthersKeep, Zenon DEF FetchInv, Shapes
    <3> QED BY <3>1, <3>2, Zenon
  <2> QED BY <2>2, <2>3, <2>4, <2>5, Zenon DEF FetchInv
<1> QED BY <1>1, <1>2, ExchangeKinds, Zenon

LEMMA CrashKeeps ==
    ASSUME FetchInv, NEW p \in Procs, Crash(p), UNCHANGED scene
    PROVE  FetchInv' /\ Grows /\ Quiet(p)
<1>1. Goto(p, "crashed") /\ UNCHANGED <<job, got, before, staged, dest>>
  BY Zenon DEF Crash
<1>2. job' = [job EXCEPT ![p] = job[p]] /\ SameItem(p, job[p])
  BY <1>1, JobFields, Zenon DEF FetchInv
<1>3. Quiet(p)
  BY <1>1, <1>2, Zenon DEF Quiet
<1> QED BY <1>3, QuietKeeps, Zenon

LEMMA StartShapes == IsState(Empty) /\ Start \in JobType /\ Start.item = 1
<1>1. IsTree(NoTree)
  BY Zenon DEF IsTree, NoTree
<1> QED BY <1>1, Zenon DEF IsState, Empty, Start, JobType

LEMMA RestartKeeps ==
    ASSUME FetchInv, NEW p \in Procs, Restart(p), UNCHANGED scene
    PROVE  FetchInv' /\ Grows
<1>1. /\ pc' = [pc EXCEPT ![p] = "destination"] /\ job' = [job EXCEPT ![p] = Start]
      /\ got' = [got EXCEPT ![p] = <<>>] /\ before' = [before EXCEPT ![p] = Empty]
      /\ staged' = [staged EXCEPT ![p] = Empty] /\ UNCHANGED <<dest, Dests, Request>>
  BY Zenon DEF Restart, Goto, Dests, Request
<1>2. Shapes'
  BY <1>1, StartShapes, EmptyIsSeq, Zenon DEF FetchInv, Shapes
<1>3. InOrder'
  <2>1. ASSUME NEW q \in Procs PROVE job'[q].item = Len(got'[q]) + 1
    <3>1. CASE q = p
      <4>1. job'[q] = Start /\ got'[q] = <<>>
        BY <1>1, <3>1, Zenon DEF FetchInv, Shapes
      <4> QED BY <4>1, StartShapes, EmptyIsSeq
    <3>2. CASE q # p
      BY <1>1, <3>2, Zenon DEF FetchInv, Shapes, InOrder
    <3> QED BY <3>1, <3>2, Zenon
  <2> QED BY <2>1, Zenon DEF InOrder
<1>4. UsesDeclared'
  BY <1>1, EmptyIsSeq, Zenon DEF FetchInv, Shapes, UsesDeclared
<1>5. Grows
  BY <1>1, SameGrows, Zenon
<1>6. ASSUME NEW q \in Procs PROVE Keeps(q)'
  <2>1. CASE q = p
    BY <1>1, <2>1, Zenon DEF FetchInv, Shapes, Keeps
  <2>2. CASE q # p
    BY <1>1, <1>2, <1>5, <2>2, OthersKeep, Zenon DEF FetchInv, Shapes
  <2> QED BY <2>1, <2>2, Zenon
<1> QED BY <1>2, <1>3, <1>4, <1>5, <1>6, Zenon DEF FetchInv

\* An edit is of one destination, and of its tree only.
LEMMA EditOne ==
    ASSUME FetchInv, NEW d \in Dests, Edit(d)
    PROVE  \E tree : /\ IsTree(tree) /\ tree.edited = dest[d].tree.edited + 1
                     /\ dest' = [dest EXCEPT ![d] = [tree |-> tree, receipts |-> dest[d].receipts]]
<1>1. IsState(dest[d])
  BY Zenon DEF FetchInv, Shapes
<1>2. /\ dest[d] = [tree |-> dest[d].tree, receipts |-> dest[d].receipts]
      /\ IsTree(dest[d].tree) /\ dest[d].tree.edited \in Nat
  BY <1>1, Zenon DEF IsState, IsTree
<1>3. PICK t : t = dest[d].tree
  BY Zenon
<1>4. PICK n : n = [t EXCEPT !.edited = t.edited + 1]
  BY Zenon
<1>5. n = [top |-> t.top, patched |-> t.patched, edited |-> t.edited + 1]
  BY <1>2, <1>3, <1>4, TreeFields, Zenon
<1>6. IsTree(n) /\ n.edited = dest[d].tree.edited + 1
  <2>1. t.edited + 1 \in Nat
    BY <1>2, <1>3
  <2> QED BY <1>3, <1>5, <2>1, Zenon DEF IsTree
<1>7. [dest[d] EXCEPT !.tree = n] = [tree |-> n, receipts |-> dest[d].receipts]
  BY <1>2
<1>8. dest' = [dest EXCEPT ![d] = [dest[d] EXCEPT !.tree = n]]
  BY <1>3, <1>4, Zenon DEF Edit, FetchInv, Shapes
<1> QED BY <1>6, <1>7, <1>8, Zenon

LEMMA EditKeeps ==
    ASSUME FetchInv, NEW d \in Dests, Edit(d), UNCHANGED scene
    PROVE  FetchInv' /\ Grows
<1>1. PICK tree : /\ IsTree(tree) /\ tree.edited = dest[d].tree.edited + 1
                  /\ dest' = [dest EXCEPT ![d] = [tree |-> tree, receipts |-> dest[d].receipts]]
  BY EditOne, Zenon
<1>2. UNCHANGED <<pc, job, got, before, staged>>
  BY Zenon DEF Edit, work
<1>3. InOrder' /\ UsesDeclared' /\ Dests' = Dests /\ Request' = Request
  BY <1>2, SameImports, Zenon
<1>4. IsState([tree |-> tree, receipts |-> dest[d].receipts])
  BY <1>1, Zenon DEF IsState
<1>5. Shapes'
  BY <1>1, <1>2, <1>3, <1>4, Zenon DEF FetchInv, Shapes
<1>6. Grows
  <2>1. ASSUME NEW e \in Dests PROVE dest[e].tree.edited <= dest'[e].tree.edited
    <3>1. dest[e].tree.edited \in Nat
      BY EditCounts, Zenon DEF FetchInv, Counts
    <3>2. CASE e = d
      <4>1. dest'[e].tree = tree
        BY <1>1, <3>2, Zenon DEF FetchInv, Shapes
      <4> QED BY <1>1, <3>1, <3>2, <4>1
    <3>3. CASE e # d
      <4>1. dest'[e] = dest[e]
        BY <1>1, <3>3, Zenon DEF FetchInv, Shapes
      <4> QED BY <3>1, <4>1
    <3> QED BY <3>2, <3>3, Zenon
  <2> QED BY <2>1, Zenon DEF Grows
<1>7. ASSUME NEW q \in Procs PROVE Keeps(q)'
  BY <1>2, <1>5, <1>6, OthersKeep, Zenon DEF FetchInv
<1> QED BY <1>3, <1>5, <1>6, <1>7, Zenon DEF FetchInv

LEMMA FetchInvInit ==
    ASSUME FetchInit
    PROVE  FetchInv
<1>1. Shapes
  BY StartShapes, EmptyIsSeq, Zenon DEF FetchInit, Shapes
<1>2. InOrder
  BY StartShapes, EmptyIsSeq DEF FetchInit, InOrder
<1>3. UsesDeclared
  BY EmptyIsSeq, Zenon DEF FetchInit, UsesDeclared
<1>4. \A p \in Procs : Keeps(p)
  BY Zenon DEF FetchInit, Keeps
<1> QED BY <1>1, <1>2, <1>3, <1>4, Zenon DEF FetchInv

LEMMA FetchInvStep ==
    ASSUME FetchInv, [FetchNext]_vars
    PROVE  FetchInv' /\ Grows
<1>1. CASE \E p \in Procs : Step(p) /\ UNCHANGED scene
  <2>1. PICK p \in Procs : Step(p) /\ UNCHANGED scene
    BY <1>1, Zenon
  <2>2. Shapes
    BY Zenon DEF FetchInv
  <2> QED BY <2>1, <2>2, StepKinds, QuietKeeps, ImportsKeep, MeasureKeeps, StageKeeps,
             RevalidateKeeps, ExchangeKeeps, Zenon
<1>2. CASE \E p \in Procs : Crash(p) /\ UNCHANGED scene
  BY <1>2, CrashKeeps, Zenon
<1>3. CASE \E p \in Procs : Restart(p) /\ UNCHANGED scene
  BY <1>3, RestartKeeps, Zenon
<1>4. CASE \E d \in Dests : Edit(d) /\ UNCHANGED scene
  BY <1>4, EditKeeps, Zenon
<1>5. CASE UNCHANGED <<scene, pc, job, got, before, staged, dest>>
  <2>1. InOrder' /\ UsesDeclared' /\ Dests' = Dests /\ Request' = Request
    BY <1>5, SameImports, Zenon
  <2>2. Shapes'
    BY <1>5, <2>1, Zenon DEF FetchInv, Shapes
  <2>3. Grows
    BY <1>5, SameGrows, Zenon
  <2>4. \A q \in Procs : Keeps(q)'
    BY <1>5, <2>2, <2>3, OthersKeep, Zenon DEF FetchInv
  <2> QED BY <2>1, <2>2, <2>3, <2>4, Zenon DEF FetchInv
<1>6. CASE \E k \in Wanted : Touch(k) /\ UNCHANGED scene
  BY <1>5, <1>6, Zenon DEF Touch, work
<1>7. CASE UNCHANGED vars
  BY <1>5, <1>7, Zenon DEF vars, work
<1> QED BY <1>1, <1>2, <1>3, <1>4, <1>6, <1>7, Zenon DEF FetchNext

(***************************************************************************)
(* FetchInductive: the items are imported in order and each with its       *)
(* declared digest, and a prepared tree has the edits that its process     *)
(* found, whatever the other processes, crashes and edits do (engine.rs,   *)
(* fetch_candidates and publish_source_transaction).                       *)
(***************************************************************************)
THEOREM FetchInductive == FetchSpec => []FetchInv
<1>1. FetchInit => FetchInv
  BY FetchInvInit, Zenon
<1>2. FetchInv /\ [FetchNext]_vars => FetchInv'
  BY FetchInvStep, Zenon
<1> QED BY <1>1, <1>2, PTL DEF FetchSpec

(***************************************************************************)
(* ImportsDeclared: whatever a process has imported for a candidate with a *)
(* declared digest has that digest (UsesDeclared), for every number of     *)
(* processes, requests and contents of the cache.                          *)
(***************************************************************************)
THEOREM ImportsDeclared == FetchSpec => []UsesDeclared
<1>1. FetchInv => UsesDeclared
  BY Zenon DEF FetchInv
<1> QED BY <1>1, FetchInductive, PTL

(***************************************************************************)
(* EditsSurvive: no publication of a source tree loses an edit that        *)
(* somebody made while the tree was being prepared (EditsKept):            *)
(* exchange_prepared_source_tree_if_unchanged compares with what was there *)
(* before the copy was taken.                                              *)
(***************************************************************************)
THEOREM EditsSurvive == FetchSpec => EditsKept
<1> DEFINE Kept == \A d \in Dests : dest'[d].tree.edited >= dest[d].tree.edited
<1>1. FetchInv /\ [FetchNext]_vars => [Kept]_vars
  <2>1. ASSUME FetchInv, [FetchNext]_vars PROVE Kept
    <3>1. Counts /\ Counts' /\ Grows /\ Shapes'
      BY <2>1, FetchInvStep, EditCounts, EditCountsNext, Zenon DEF FetchInv
    <3>2. UNCHANGED Dests
      BY <2>1, Zenon DEF FetchNext, vars, Dests, Request
    <3>3. \A d \in Dests : dest[d].tree.edited \in Nat /\ dest'[d].tree.edited \in Nat
      BY <3>1, <3>2, Zenon DEF Counts
    <3> QED BY <3>1, <3>3, Zenon DEF Grows
  <2> QED BY <2>1, Zenon
<1> QED BY <1>1, FetchInductive, PTL DEF FetchSpec, EditsKept

-----------------------------------------------------------------------------
(***************************************************************************)
(* Receipts.  A command that does not unpack writes a receipt that names   *)
(* the archive all the same, so the commands for one destination are taken *)
(* to agree on whether they unpack.                                        *)
(***************************************************************************)
OnePurpose ==
    \A s \in Scenes : \A p, q \in Procs :
        s.request[p].dest = s.request[q].dest => s.request[p].extracts = s.request[q].extracts

LEMMA PatchesAreSeq ==
    ASSUME FetchInv, NEW p \in Procs
    PROVE  <<>> \o Patches(p) = Patches(p)
<1>1. PICK g : g = got[p]
  BY Zenon
<1>2. Len(g) \in Nat
  BY <1>1, SeqIsSeq, Zenon DEF FetchInv, Shapes, IsSeq
<1>3. PICK n \in Nat : 1..(Len(g) - 1) = 1..n
  <2>1. CASE Len(g) = 0
    <3>1. 1..(Len(g) - 1) = 1..0
      BY <2>1
    <3> QED BY <3>1, Zenon
  <2>2. CASE Len(g) # 0
    <3>1. Len(g) - 1 \in Nat
      BY <1>2, <2>2
    <3> QED BY <3>1, Zenon
  <2> QED BY <2>1, <2>2, Zenon
<1>4. PICK f : f = [i \in 1..n |-> got[p][i + 1].content]
  BY Zenon
<1>5. f \in Seq({f[i] : i \in 1..n})
  <2>1. f \in [1..n -> {f[i] : i \in 1..n}]
    BY <1>4, Zenon
  <2>2. \A T : \A k \in Nat : f \in [1..k -> T] => f \in Seq(T)
    OBVIOUS
  <2> QED BY <1>3, <2>1, <2>2, Zenon
<1>6. Patches(p) = f
  BY <1>1, <1>3, <1>4, Zenon DEF Patches
<1> QED BY <1>5, <1>6, ConcatEmptySeq, Zenon

LEMMA TruthInit ==
    ASSUME FetchInit
    PROVE  TruthInv
<1>1. Truthful(Empty)
  BY Zenon DEF Truthful, Empty
<1>2. \A p \in Procs : ThisDest(p) = Empty /\ staged[p] = Empty
  BY Zenon DEF FetchInit, ThisDest, Dests
<1> QED BY <1>1, <1>2, Zenon DEF TruthInv

LEMMA TruthKept ==
    ASSUME TruthInv, UNCHANGED <<scene, staged, dest>>
    PROVE  TruthInv'
BY Zenon DEF TruthInv, ThisDest, Request, Truthful

\* The receipt of a staged tree, and the receipts copied with it.
LEMMA TruthStage ==
    ASSUME FetchInv, TruthInv, NEW p \in Procs, Stage(p), UNCHANGED scene
    PROVE  TruthInv'
<1>1. CASE Fails(p)
  BY <1>1, TruthKept, Zenon DEF Fails
<1>2. CASE ~ Fails(p)
  <2> DEFINE new == Patched(Unpacked(p, ThisDest(p).tree), Patches(p))
             mine == [decl |-> Declaration(p), tree |-> new]
             others == {r \in ThisDest(p).receipts : r.decl # Declaration(p)}
             state == [tree |-> new, receipts |-> others \cup {mine}]
  <2>1. staged' = [staged EXCEPT ![p] = state] /\ UNCHANGED dest
    BY <1>2, Zenon DEF Stage
  <2>2. Request' = Request
    BY Zenon DEF Request
  <2>3. IsTree(ThisDest(p).tree)
    BY Zenon DEF FetchInv, Shapes, ThisDest, Dests, IsState
  <2>4. Request[p].extracts => new.top = got[p][1].content /\ new.patched = Patches(p)
    <3>1. \A patches : Request[p].extracts =>
             /\ Patched(Unpacked(p, ThisDest(p).tree), patches).top = got[p][1].content
             /\ Patched(Unpacked(p, ThisDest(p).tree), patches).patched = <<>> \o patches
      BY <2>3, StagedTree
    <3> QED BY <3>1, PatchesAreSeq, Zenon
  <2>5. Declaration(p).archive = got[p][1].content /\ Declaration(p).patches = Patches(p)
    BY Zenon DEF Declaration
  <2> HIDE DEF new
  <2>6. mine.tree = new /\ mine.decl = Declaration(p)
    BY Zenon
  <2> HIDE DEF mine
  <2>7. state.receipts = others \cup {mine}
    BY Zenon
  <2> HIDE DEF state
  <2>8. Request[p].extracts => Truthful(state)
    BY <2>4, <2>5, <2>6, <2>7, Zenon DEF TruthInv, Truthful
  <2>9. ASSUME NEW q \in Procs, Request[q].extracts
        PROVE  Truthful(ThisDest(q)') /\ Truthful(staged'[q])
    <3>1. ThisDest(q)' = ThisDest(q) /\ Truthful(ThisDest(q)) /\ Truthful(staged[q])
      BY <2>1, <2>2, <2>9, Zenon DEF ThisDest, TruthInv
    <3>2. staged'[q] = IF q = p THEN state ELSE staged[q]
      BY <2>1, Zenon DEF FetchInv, Shapes
    <3> QED BY <2>8, <2>9, <3>1, <3>2, Zenon
  <2> QED BY <2>2, <2>9, Zenon DEF TruthInv, Truthful
<1> QED BY <1>1, <1>2, Zenon

LEMMA TruthExchange ==
    ASSUME OnePurpose, FetchInv, TruthInv, NEW p \in Procs, Exchange(p), UNCHANGED scene
    PROVE  TruthInv'
<1>1. CASE Quiet(p)
  BY <1>1, TruthKept, Zenon DEF Quiet
<1>2. CASE /\ dest' = [dest EXCEPT ![Request[p].dest] = staged[p]] /\ UNCHANGED staged
  <2>1. Request' = Request
    BY Zenon DEF Request
  <2>2. ASSUME NEW q \in Procs, Request[q].extracts
        PROVE  Truthful(ThisDest(q)') /\ Truthful(staged'[q])
    <3>1. Truthful(ThisDest(q)) /\ Truthful(staged'[q])
      BY <1>2, <2>2, Zenon DEF TruthInv
    <3>2. CASE Request[q].dest = Request[p].dest
      <4>1. Request[p].extracts
        BY <2>2, <3>2, Zenon DEF OnePurpose, FetchInv, Shapes, Request
      <4>2. ThisDest(q)' = staged[p]
        BY <1>2, <2>1, <3>2, Zenon DEF ThisDest, FetchInv, Shapes, Dests
      <4> QED BY <3>1, <4>1, <4>2, Zenon DEF TruthInv
    <3>3. CASE Request[q].dest # Request[p].dest
      <4>1. ThisDest(q)' = ThisDest(q)
        BY <1>2, <2>1, <3>3, Zenon DEF ThisDest, FetchInv, Shapes, Dests
      <4> QED BY <3>1, <4>1, Zenon
    <3> QED BY <3>2, <3>3, Zenon
  <2> QED BY <2>1, <2>2, Zenon DEF TruthInv, Truthful
<1> QED BY <1>1, <1>2, ExchangeKinds, Zenon

LEMMA TruthRestart ==
    ASSUME FetchInv, TruthInv, NEW p \in Procs, Restart(p), UNCHANGED scene
    PROVE  TruthInv'
<1>1. Truthful(Empty)
  BY Zenon DEF Truthful, Empty
<1>2. \A q \in Procs : staged'[q] \in {staged[q], Empty}
  BY Zenon DEF Restart, FetchInv, Shapes
<1>3. UNCHANGED <<dest, Request>>
  BY Zenon DEF Restart, Request
<1> QED BY <1>1, <1>2, <1>3, Zenon DEF TruthInv, ThisDest, Truthful

LEMMA TruthEdit ==
    ASSUME FetchInv, TruthInv, NEW d \in Dests, Edit(d), UNCHANGED scene
    PROVE  TruthInv'
<1>1. PICK tree : dest' = [dest EXCEPT ![d] = [tree |-> tree, receipts |-> dest[d].receipts]]
  BY EditOne, Zenon
<1>2. UNCHANGED <<staged, Request>>
  BY Zenon DEF Edit, work, Request
<1>3. \A q \in Procs : ThisDest(q)'.receipts = ThisDest(q).receipts
  BY <1>1, <1>2, Zenon DEF FetchInv, Shapes, ThisDest, Dests
<1> QED BY <1>2, <1>3, Zenon DEF TruthInv, Truthful

LEMMA TruthStep ==
    ASSUME OnePurpose, FetchInv, TruthInv, [FetchNext]_vars
    PROVE  TruthInv'
<1>1. CASE \E p \in Procs : Step(p) /\ UNCHANGED scene
  <2>1. PICK p \in Procs : Step(p) /\ UNCHANGED scene
    BY <1>1, Zenon
  <2>2. Shapes
    BY Zenon DEF FetchInv
  <2>3. CASE Quiet(p) \/ Imports(p) \/ Measure(p) \/ Revalidate(p)
    BY <2>1, <2>3, TruthKept, Zenon DEF Quiet, Imports, Takes, Measure, Revalidate, OnlyJob, Fails
  <2> QED BY <2>1, <2>2, <2>3, StepKinds, TruthStage, TruthExchange, Zenon
<1>2. CASE \E p \in Procs : Restart(p) /\ UNCHANGED scene
  BY <1>2, TruthRestart, Zenon
<1>3. CASE \E d \in Dests : Edit(d) /\ UNCHANGED scene
  BY <1>3, TruthEdit, Zenon
<1>4. CASE UNCHANGED <<scene, staged, dest>>
  BY <1>4, TruthKept, Zenon
<1>5. CASE \E p \in Procs : Crash(p) /\ UNCHANGED scene
  BY <1>4, <1>5, Zenon DEF Crash
<1>6. CASE \E k \in Wanted : Touch(k) /\ UNCHANGED scene
  BY <1>4, <1>6, Zenon DEF Touch, work
<1>7. CASE UNCHANGED vars
  BY <1>4, <1>7, Zenon DEF vars, work
<1> QED BY <1>1, <1>2, <1>3, <1>5, <1>6, <1>7, Zenon DEF FetchNext

(***************************************************************************)
(* ReceiptsTrue: where the commands for a destination agree on whether     *)
(* they unpack, a receipt that matches the tree beside it tells what is    *)
(* unpacked and applied there (ReceiptTellsTruth): the command that        *)
(* source_receipt_matches lets do nothing had nothing to do.               *)
(***************************************************************************)
THEOREM ReceiptsTrue ==
    ASSUME OnePurpose
    PROVE  FetchSpec => []ReceiptTellsTruth
<1>1. FetchInit => TruthInv
  BY TruthInit, Zenon
<1>2. FetchInv /\ TruthInv /\ [FetchNext]_vars => TruthInv'
  BY TruthStep, Zenon
<1>3. TruthInv => ReceiptTellsTruth
  BY Zenon DEF TruthInv, Truthful, ReceiptTellsTruth, ThisDest
<1> QED BY <1>1, <1>2, <1>3, FetchInductive, PTL DEF FetchSpec
=============================================================================
