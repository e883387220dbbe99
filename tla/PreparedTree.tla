----------------------------- MODULE PreparedTree -----------------------------
(***************************************************************************)
(* Publishing a prepared tree: publish_prepared_tree_noclobber renames it  *)
(* to a free name, exchange_prepared_tree_if_unchanged swaps it with the   *)
(* tree that the caller has measured, looks at both trees afterwards and   *)
(* swaps them back if one is not as it was.                                *)
(*                                                                         *)
(* Several processes publish to one destination, each from a stage name of *)
(* its own, in one directory and under one lock.  Somebody else, who takes *)
(* no lock, may edit a tree that is or was the destination, and may put    *)
(* another tree at the destination or move it away.                        *)
(***************************************************************************)
EXTENDS Naturals, FiniteSets

CONSTANTS
    Proc,        \* processes
    NoTree,      \* the name is free, or nothing measured yet
    Stranger,    \* the tree that somebody else puts at the destination
    MaxCalls,    \* bound: calls, each with a stage name and a tree of its own
    MaxVersion,  \* bound: versions of a tree's content
    MaxMoves,    \* bound: how often somebody else changes the destination
    Env          \* which of "fault", "reread", "crash", "powerloss" may happen

ASSUME PreparedTreeAssumption ==
    /\ MaxCalls \in Nat \ {0} /\ MaxVersion \in Nat \ {0, 1} /\ MaxMoves \in Nat
    /\ Env \subseteq {"fault", "reread", "crash", "powerloss"}
    /\ Stranger \notin 0..MaxCalls /\ NoTree \notin 0..MaxCalls /\ NoTree # Stranger

Call == 1..MaxCalls
Tree == (0..MaxCalls) \cup {Stranger}   \* 0: deployed before; c: prepared by call c
Dest == 0                               \* the destination's name; c: the stage name of call c
Name == 0..MaxCalls

Gone == 0       \* versions of a content: no such tree,
Partial == 1    \* being built or being removed,
Built == 2      \* as built; every edit makes a new version

VARIABLES
    bind,       \* the tree at each name
    disk,       \* the bindings that a power loss may leave
    content,    \* the version of each tree's content
    synced,     \* trees whose content is on disk
    moves,      \* changes that somebody else has made to the destination
    calls,      \* calls begun
    pc, my,     \* each process: where it is, its call
    snap,       \* the tree at the destination that it has measured, with its version
    stage,      \* the tree that it opened at its stage name, with its version
    seen,       \* the version of that tree after the exchange
    result      \* what its last call reported

fsVars == <<bind, disk, content, synced, moves>>
procVars == <<pc, my, snap, stage, seen, result>>
vars == <<bind, disk, content, synced, moves, calls, pc, my, snap, stage, seen, result>>

Version(t) == [tree |-> t, version |-> IF t = NoTree THEN Gone ELSE content[t]]

Nothing == [tree |-> NoTree, version |-> Gone]

Measurement == [tree : Tree \cup {NoTree}, version : 0..MaxVersion]

Locked ==
    {"pCheck", "pBinding", "pRename", "pSync", "pVerify",
     "xOpen", "xSync", "xCompare", "xBinding", "xExchange", "xMeasure",
     "xSwapBack", "xRestored", "xDurable", "xVerify"}

-----------------------------------------------------------------------------
(***************************************************************************)
(* The directory.  All names are in it, so one fsync covers them all.      *)
(***************************************************************************)
Bind(b, isSynced) ==
    /\ bind' = b
    /\ disk' = IF isSynced THEN {b} ELSE disk \cup {b}

Swapped(p) == [bind EXCEPT ![Dest] = bind[my[p]], ![my[p]] = bind[Dest]]

Fault == "fault" \in Env

At(p, step) == pc[p] = step

Goto(p, step) == pc' = [pc EXCEPT ![p] = step]

Free(q) == pc[q] \notin Locked

\* lock_for_journal(destination, "prepared-tree"); the kernel drops it with the process.
Acquire(p, step) ==
    /\ \A q \in Proc : Free(q)
    /\ Goto(p, step)

-----------------------------------------------------------------------------
(***************************************************************************)
(* publish_prepared_tree_noclobber.  "pPlain" is an error without a class, *)
(* "pUncertain" the class CommitStateUncertain.                            *)
(***************************************************************************)
PublishLock(p) ==
    /\ At(p, "publish") /\ Acquire(p, "pCheck")
    /\ UNCHANGED <<fsVars, calls, my, snap, stage, seen, result>>

\* The destination is free; the stage is opened and synced.
PublishCheck(p) ==
    /\ At(p, "pCheck")
    /\ \/ /\ bind[Dest] = NoTree /\ bind[my[p]] # NoTree
          /\ stage' = [stage EXCEPT ![p] = Version(bind[my[p]])]
          /\ synced' = synced \cup {bind[my[p]]}
          /\ Goto(p, "pBinding")
       \/ /\ bind[Dest] # NoTree \/ Fault
          /\ Goto(p, "plain") /\ UNCHANGED <<stage, synced>>
    /\ UNCHANGED <<bind, disk, content, moves, calls, my, snap, seen, result>>

PublishBinding(p) ==
    /\ At(p, "pBinding")
    /\ \/ bind[my[p]] = stage[p].tree /\ Goto(p, "pRename")
       \/ (bind[my[p]] # stage[p].tree \/ Fault) /\ Goto(p, "plain")
    /\ UNCHANGED <<fsVars, calls, my, snap, stage, seen, result>>

\* renameat_with NOREPLACE
PublishRename(p) ==
    /\ At(p, "pRename")
    /\ \/ /\ bind[Dest] = NoTree
          /\ Bind([bind EXCEPT ![Dest] = bind[my[p]], ![my[p]] = NoTree], FALSE)
          /\ Goto(p, "pSync")
       \/ (bind[Dest] # NoTree \/ Fault) /\ Goto(p, "plain") /\ UNCHANGED <<bind, disk>>
    /\ UNCHANGED <<content, synced, moves, calls, my, snap, stage, seen, result>>

PublishSync(p) ==
    /\ At(p, "pSync")
    /\ \/ Bind(bind, TRUE) /\ Goto(p, "pVerify")
       \/ Fault /\ Goto(p, "uncertain") /\ UNCHANGED <<bind, disk>>
    /\ UNCHANGED <<content, synced, moves, calls, my, snap, stage, seen, result>>

\* The look at the result has a "?" of its own ("reread").
PublishVerify(p) ==
    /\ At(p, "pVerify")
    /\ \/ bind[Dest] = stage[p].tree /\ Goto(p, "published")
       \/ bind[Dest] # stage[p].tree /\ Goto(p, "uncertain")
       \/ "reread" \in Env /\ Goto(p, "unread")
    /\ UNCHANGED <<fsVars, calls, my, snap, stage, seen, result>>

-----------------------------------------------------------------------------
(***************************************************************************)
(* exchange_prepared_tree_if_unchanged                                     *)
(***************************************************************************)
ExchangeLock(p) ==
    /\ At(p, "exchange") /\ Acquire(p, "xOpen")
    /\ UNCHANGED <<fsVars, calls, my, snap, stage, seen, result>>

\* Both trees are opened; the destination must be the measured one.
ExchangeOpen(p) ==
    /\ At(p, "xOpen")
    /\ \/ /\ bind[Dest] = snap[p].tree /\ bind[my[p]] # NoTree
          /\ stage' = [stage EXCEPT ![p] = Version(bind[my[p]])]
          /\ Goto(p, "xSync")
       \/ (bind[Dest] # snap[p].tree \/ Fault) /\ Goto(p, "plain") /\ UNCHANGED stage
    /\ UNCHANGED <<fsVars, calls, my, snap, seen, result>>

\* sync_prepared_tree, after which the content must be what it was before.
ExchangeSync(p) ==
    /\ At(p, "xSync")
    /\ \/ /\ Version(stage[p].tree) = stage[p]
          /\ synced' = synced \cup {stage[p].tree}
          /\ Goto(p, "xCompare")
       \/ Fault /\ Goto(p, "plain") /\ UNCHANGED synced
    /\ UNCHANGED <<bind, disk, content, moves, calls, my, snap, stage, seen, result>>

ExchangeCompare(p) ==
    /\ At(p, "xCompare")
    /\ \/ Version(snap[p].tree) = snap[p] /\ Goto(p, "xBinding")
       \/ (Version(snap[p].tree) # snap[p] \/ Fault) /\ Goto(p, "plain")
    /\ UNCHANGED <<fsVars, calls, my, snap, stage, seen, result>>

ExchangeBinding(p) ==
    /\ At(p, "xBinding")
    /\ \/ /\ bind[my[p]] = stage[p].tree /\ bind[Dest] = snap[p].tree
          /\ Goto(p, "xExchange")
       \/ (bind[Dest] # snap[p].tree \/ Fault) /\ Goto(p, "plain")
    /\ UNCHANGED <<fsVars, calls, my, snap, stage, seen, result>>

\* renameat_with EXCHANGE
Exchange(p) ==
    /\ At(p, "xExchange")
    /\ \/ bind[Dest] # NoTree /\ Bind(Swapped(p), FALSE) /\ Goto(p, "xMeasure")
       \/ (bind[Dest] = NoTree \/ Fault) /\ Goto(p, "plain") /\ UNCHANGED <<bind, disk>>
    /\ UNCHANGED <<content, synced, moves, calls, my, snap, stage, seen, result>>

(***************************************************************************)
(* Both trees are measured through the descriptors.  A tree that cannot be *)
(* measured counts as changed.                                             *)
(***************************************************************************)
ExchangeMeasure(p) ==
    /\ At(p, "xMeasure")
    /\ \/ /\ seen' = [seen EXCEPT ![p] = content[stage[p].tree]]
          /\ Goto(p, IF /\ Version(stage[p].tree) = stage[p]
                        /\ Version(snap[p].tree) = snap[p]
                     THEN "xDurable" ELSE "xSwapBack")
       \/ /\ Fault /\ Goto(p, "xSwapBack")
          /\ \/ seen' = [seen EXCEPT ![p] = Gone]                      \* installed unread
             \/ seen' = [seen EXCEPT ![p] = content[stage[p].tree]]    \* previous unread
    /\ UNCHANGED <<fsVars, calls, my, snap, stage, result>>

(***************************************************************************)
(* The compensating exchange, unless the names no longer hold the swapped  *)
(* trees; and its fsync.                                                   *)
(***************************************************************************)
SwapBack(p) ==
    /\ At(p, "xSwapBack")
    /\ \/ /\ bind[my[p]] = snap[p].tree /\ bind[Dest] = stage[p].tree
          /\ \/ Bind(Swapped(p), TRUE) /\ Goto(p, "xRestored")
             \/ /\ Fault /\ Goto(p, "uncertain")
                /\ Bind(Swapped(p), FALSE) \/ UNCHANGED <<bind, disk>>
       \/ /\ bind[my[p]] # snap[p].tree \/ bind[Dest] # stage[p].tree
          /\ Goto(p, "uncertain") /\ UNCHANGED <<bind, disk>>
    /\ UNCHANGED <<content, synced, moves, calls, my, snap, stage, seen, result>>

\* The destination must be the measured tree again and the stage what was seen.
Restored(p) ==
    /\ At(p, "xRestored")
    /\ LET restored ==
             /\ bind[Dest] = snap[p].tree /\ Version(snap[p].tree) = snap[p]
             /\ bind[my[p]] = stage[p].tree /\ content[stage[p].tree] = seen[p]
       IN  \/ restored /\ Goto(p, "plain")
           \/ (~restored \/ Fault) /\ Goto(p, "uncertain")
    /\ UNCHANGED <<fsVars, calls, my, snap, stage, seen, result>>

\* A bug: a failed sync of the directory goes unnoticed.
ExchangeDurableIgnored(p) ==
    /\ At(p, "xDurable") /\ Goto(p, "xVerify")
    /\ UNCHANGED <<fsVars, calls, my, snap, stage, seen, result>>

ExchangeDurable(p) ==
    /\ At(p, "xDurable")
    /\ \/ Bind(bind, TRUE) /\ Goto(p, "xVerify")
       \/ Fault /\ Goto(p, "uncertain") /\ UNCHANGED <<bind, disk>>
    /\ UNCHANGED <<content, synced, moves, calls, my, snap, stage, seen, result>>

ExchangeVerify(p) ==
    /\ At(p, "xVerify")
    /\ LET swapped == bind[Dest] = stage[p].tree /\ bind[my[p]] = snap[p].tree
       IN  \/ swapped /\ Goto(p, "exchanged")
           \/ (~swapped \/ Fault) /\ Goto(p, "uncertain")
    /\ UNCHANGED <<fsVars, calls, my, snap, stage, seen, result>>

PublicationStep(p) ==
    \/ PublishLock(p) \/ PublishCheck(p) \/ PublishBinding(p) \/ PublishRename(p)
    \/ PublishSync(p) \/ PublishVerify(p)
    \/ ExchangeLock(p) \/ ExchangeOpen(p) \/ ExchangeSync(p) \/ ExchangeCompare(p)
    \/ ExchangeBinding(p) \/ Exchange(p) \/ ExchangeMeasure(p) \/ SwapBack(p)
    \/ Restored(p) \/ ExchangeDurable(p) \/ ExchangeVerify(p)

-----------------------------------------------------------------------------
\* Somebody edits a tree that is or was the destination.
Edit ==
    /\ \E t \in Tree :
          /\ content[t] \in Built..MaxVersion - 1
          /\ t = bind[Dest] \/ \E p \in Proc : t = snap[p].tree
          /\ content' = [content EXCEPT ![t] = @ + 1]
    /\ UNCHANGED <<bind, disk, synced, moves, calls, procVars>>

\* Somebody puts a tree of their own at the destination, or moves it away.
Move ==
    /\ moves < MaxMoves /\ moves' = moves + 1
    /\ \E t \in {NoTree, Stranger} :
          /\ bind[Dest] # t
          /\ t = Stranger => content[t] >= Built /\ \A n \in Name : bind[n] # Stranger
          /\ Bind([bind EXCEPT ![Dest] = t], FALSE)
    /\ UNCHANGED <<content, synced, calls, procVars>>
=============================================================================
