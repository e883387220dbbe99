---------------------------- MODULE ProcessProofs ----------------------------
(***************************************************************************)
(* Proofs about the three parts of process control: the supervision of a   *)
(* child and its group (ProcessSupervision), the capture of its output     *)
(* (BoundedCapture) and the claim on a disk (DiskClaim).                   *)
(***************************************************************************)
EXTENDS Integers, ProcessSupervision, BoundedCapture, DiskClaim, TLAPS

-----------------------------------------------------------------------------
(***************************************************************************)
(* Why the properties hold.                                                *)
(***************************************************************************)

\* The steps of a call whose threads have been started.
Started ==
    {"observe", "decide", "cancelKill", "cancelTry", "cancelWait", "recheck", "kill", "killFailed",
     "killWait", "sweep", "reap", "join"}

\* Nothing of the child's process group runs, or will run again.
GroupEnded == leader \notin {"none", "running"} /\ helper # "group"

\* The number of the child is free only after its group has ended; the status is
\* taken only after the group was signalled or found to be empty.
GroupInv ==
    /\ leader = "none" => pc \in {"spawn", "done"} /\ helper = "none"
    /\ pc = "spawn" => leader = "none"
    /\ pid = "stranger" => GroupEnded /\ leader # "zombie"
    /\ pc = "sweep" => leader = "zombie"
    /\ pc \in {"killWait", "cancelWait", "reap"} => GroupEnded
    /\ completion # "none" => GroupEnded /\ leader = "reaped"

\* Where the kernel keeps zombies and never refuses a signal to one, the
\* cleanup that may come after a wait is not reached.
OwnGroupInv ==
    Env \cap {"darwin", "autoreap"} = {} =>
        /\ ~ hit /\ leader # "vanished"
        /\ pc \notin {"killFailed", "cancelTry", "cleanTry"}
        /\ leader = "reaped" => pc \in {"join", "done"}

\* A thread that has drained its stream has seen the end of all writers.
ThreadInv ==
    /\ leader = "none" => \A w \in Workers : worker[w] = "none"
    /\ pc \in Started => \A w \in Workers : worker[w] = "none" => w = StdIn /\ Input = 0
    /\ \A s \in Streams : worker[s] # "broken" /\ (worker[s] = "ok" => ~ Alive /\ pipe[s] = 0)
    /\ worker[StdIn] = "ok" => inleft = 0

\* What is decided is so from then on.
DecisionInv ==
    /\ pc \in {"spawn", "setup", "observe", "decide", "recheck", "kill", "killFailed", "cancelKill",
               "sweep", "reap"} => ~ killed
    /\ completion = "exited" => ~ killed
    /\ pc \in {"recheck", "kill", "killFailed", "killWait"} \/ completion = "timedOut" => late
    /\ pc \in {"cancelKill", "cancelTry", "cancelWait"} \/ completion = "cancelled" => cancelled

ReturnInv ==
    /\ pc = "join" => completion # "none"
    /\ pc # "done" => result = "none"
    /\ result \in {"exited", "timedOut", "cancelled"} =>
          /\ completion = result
          /\ \A s \in Streams : worker[s] = "ok"
          /\ result = "exited" => inleft = 0

CallInv == GroupInv /\ OwnGroupInv /\ ThreadInv /\ DecisionInv /\ ReturnInv

\* What the assumption says of the call that is made.
LEMMA TheCall ==
    ASSUME call \in Calls
    PROVE  /\ Input \in Nat /\ Capacity \in Nat /\ Capacity > 0
           /\ Streams \subseteq AllStreams /\ StdIn \notin Streams
           /\ \A s \in Streams : Output[s] \in Nat
  BY SupervisionAssumption DEF Input, Output, Streams, AllStreams, StdIn

\* A signal keeps the types.
LEMMA SignalTypes ==
    ASSUME SupervisionTypeOK, Signalled \/ Refused
    PROVE  /\ leader' \in {"none", "running", "zombie", "reaped", "vanished"}
           /\ helper' \in {"none", "group", "escaped", "dead"}
           /\ killed' \in BOOLEAN /\ hit' \in BOOLEAN /\ pid' \in {"ours", "stranger"} /\ todo' = todo
<1>1. leader' \in {"none", "running", "zombie", "reaped", "vanished"}
  BY Zenon DEF SupervisionTypeOK, Signalled, Refused, Remains, childVars
<1>2. helper' \in {"none", "group", "escaped", "dead"}
  BY Zenon DEF SupervisionTypeOK, Signalled, Refused, childVars
<1>3. killed' \in BOOLEAN
  BY Zenon DEF SupervisionTypeOK, Signalled, Refused, childVars
<1>4. hit' \in BOOLEAN
  BY Zenon DEF SupervisionTypeOK, Signalled, Refused, childVars
<1>5. pid' \in {"ours", "stranger"} /\ todo' = todo
  BY Zenon DEF SupervisionTypeOK, Signalled, Refused, childVars
<1> QED
  BY <1>1, <1>2, <1>3, <1>4, <1>5, Zenon

\* Every step keeps the types.
LEMMA TypesStep ==
    ASSUME SupervisionTypeOK, SupervisionNext
    PROVE  SupervisionTypeOK'
<1> USE DEF SupervisionTypeOK, Streams, Workers, Output, Input, Env, Timed,
            AllStreams, StdIn, callVars, childVars, pipeVars, threadVars, flags
<1>1. CASE Spawn
  BY <1>1, Zenon DEF Spawn, Return, Goto
<1>2. CASE Setup
  BY <1>2 DEF Setup, Goto
<1>3. CASE Observe
  BY <1>3 DEF Observe, Observed, Goto
<1>4. CASE Decide
  BY <1>4 DEF Decide, Goto
<1>5. CASE Recheck
  BY <1>5 DEF Recheck, Observed, Goto
<1>6. CASE KillAtDeadline
<2>1. Signalled \/ Refused
  BY <1>6, Zenon DEF KillAtDeadline, Kill
<2> QED
  BY <1>6, <2>1, SignalTypes, Zenon DEF KillAtDeadline, Kill, Goto
<1>7. CASE KillFailed
  BY <1>7 DEF KillFailed, Observed, Goto
<1>8. CASE TerminateCancelled
<2>1. Signalled \/ Refused
  BY <1>8, Zenon DEF TerminateCancelled, Kill
<2> QED
  BY <1>8, <2>1, SignalTypes, Zenon DEF TerminateCancelled, Kill, Goto
<1>9. CASE TryCancelled
  BY <1>9 DEF TryCancelled, TryWait, Wait, Goto
<1>10. CASE ReapCancelled
  BY <1>10, Zenon DEF ReapCancelled, Wait, WaitFails, Completed, Goto
<1>11. CASE ReapKilled
  BY <1>11, Zenon DEF ReapKilled, Wait, WaitFails, Completed, Goto
<1>12. CASE Sweep
<2>1. Signalled \/ Refused
  BY <1>12, Zenon DEF Sweep, Kill
<2> QED
  BY <1>12, <2>1, SignalTypes, Zenon DEF Sweep, Kill, Goto
<1>13. CASE Reap
  BY <1>13 DEF Reap, Wait, Completed
<1>14. CASE Terminate
<2>1. Signalled \/ Refused
  BY <1>14, Zenon DEF Terminate, Kill
<2> QED
  BY <1>14, <2>1, SignalTypes, Zenon DEF Terminate, Kill, Goto
<1>15. CASE GiveUp
  BY <1>15 DEF GiveUp, Wait, WaitFails, TryWait, Return
<1>16. CASE FinishFlag
  BY <1>16 DEF FinishFlag
<1>17. CASE JoinWorkers
  BY <1>17 DEF JoinWorkers, Return, Ended
<1>18. ASSUME NEW s \in Streams, Drain(s) PROVE SupervisionTypeOK'
  BY <1>18, TheCall DEF Drain, ThreadOnly, Moves
<1>19. ASSUME NEW s \in Streams, CheckDeadline(s) PROVE SupervisionTypeOK'
  BY <1>19 DEF CheckDeadline, ThreadOnly, Noticed, Moves
<1>20. CASE WriteInput
  BY <1>20, TheCall DEF WriteInput, ThreadOnly, Noticed, Moves
<1>21. ASSUME NEW w \in Workers, GraceEnds(w) PROVE SupervisionTypeOK'
  BY <1>21 DEF GraceEnds
<1>22. ASSUME NEW s \in Streams, LeaderWrites(s) PROVE SupervisionTypeOK'
  BY <1>22, TheCall DEF LeaderWrites, ChildOnly
<1>23. ASSUME NEW s \in Streams, HelperWrites(s) PROVE SupervisionTypeOK'
  BY <1>23, TheCall DEF HelperWrites, ChildOnly
<1>24. CASE LeaderReads
  BY <1>24, TheCall DEF LeaderReads, ChildOnly
<1>25. CASE LeaderExits
  BY <1>25 DEF LeaderExits, Remains, ChildOnly
<1>26. CASE LeaderForks
  BY <1>26 DEF LeaderForks, ChildOnly
<1>27. CASE HelperMoves
  BY <1>27 DEF HelperMoves, ChildOnly
<1>28. CASE Recycle
  BY <1>28 DEF Recycle
<1>29. CASE DeadlinePasses
  BY <1>29, TheCall DEF DeadlinePasses
<1>30. CASE Cancel
  BY <1>30, TheCall DEF Cancel
<1>31. CASE UNCHANGED vars
  BY <1>31, SMTT(30) DEF vars
<1> QED
  BY <1>1, <1>2, <1>3, <1>4, <1>5, <1>6, <1>7, <1>8, <1>9, <1>10, <1>11, <1>12, <1>13, <1>14, <1>15, <1>16, <1>17, <1>18, <1>19, <1>20, <1>21, <1>22, <1>23, <1>24, <1>25, <1>26, <1>27, <1>28, <1>29, <1>30, <1>31, ZenonT(30) DEF SupervisionNext, CallStep, Thread

\* Every step keeps the invariant.
LEMMA InvStep ==
    ASSUME SupervisionTypeOK, CallInv, SupervisionNext
    PROVE  CallInv'
<1> USE DEF SupervisionTypeOK, CallInv, GroupInv, GroupEnded, OwnGroupInv, ThreadInv,
            DecisionInv, ReturnInv, Started, Alive, Streams, Workers, Output, Input, Env, Timed,
            AllStreams, StdIn, callVars, childVars, pipeVars, threadVars, flags
<1>1. CASE Spawn
  BY <1>1 DEF Spawn, Return, Goto
<1>2. CASE Setup
  BY <1>2, Zenon DEF Setup, Goto
<1>3. CASE Observe
  BY <1>3, Zenon DEF Observe, Observed, Goto
<1>4. CASE Decide
  BY <1>4, Zenon DEF Decide, Goto
<1>5. CASE Recheck
  BY <1>5, Zenon DEF Recheck, Observed, Goto
<1>6. CASE KillAtDeadline
  BY <1>6 DEF KillAtDeadline, Kill, Signalled, Refused, Remains, Goto
<1>7. CASE KillFailed
  BY <1>7, Zenon DEF KillFailed, Observed, Goto
<1>8. CASE TerminateCancelled
  BY <1>8, Zenon DEF TerminateCancelled, Kill, Signalled, Refused, Remains, Goto
<1>9. CASE TryCancelled
  BY <1>9, Zenon DEF TryCancelled, TryWait, Wait, Goto
<1>10. CASE ReapCancelled
  BY <1>10 DEF ReapCancelled, Wait, WaitFails, Completed, Goto
<1>11. CASE ReapKilled
  BY <1>11 DEF ReapKilled, Wait, WaitFails, Completed, Goto
<1>12. CASE Sweep
  BY <1>12 DEF Sweep, Kill, Signalled, Refused, Remains, Goto
<1>13. CASE Reap
  BY <1>13, Zenon DEF Reap, Wait, Completed
<1>14. CASE Terminate
  BY <1>14, Zenon DEF Terminate, Kill, Signalled, Refused, Remains, Goto
<1>15. CASE GiveUp
  BY <1>15 DEF GiveUp, Wait, WaitFails, TryWait, Return
<1>16. CASE FinishFlag
  BY <1>16, Zenon DEF FinishFlag
<1>17. CASE JoinWorkers
  BY <1>17, TheCall, SMTT(30) DEF JoinWorkers, Return, Ended
<1>18. ASSUME NEW s \in Streams, Drain(s) PROVE CallInv'
  BY <1>18, TheCall DEF Drain, ThreadOnly, Moves
<1>19. ASSUME NEW s \in Streams, CheckDeadline(s) PROVE CallInv'
  BY <1>19 DEF CheckDeadline, ThreadOnly, Noticed, Moves
<1>20. CASE WriteInput
  BY <1>20, TheCall DEF WriteInput, ThreadOnly, Noticed, Moves
<1>21. ASSUME NEW w \in Workers, GraceEnds(w) PROVE CallInv'
  BY <1>21 DEF GraceEnds
<1>22. ASSUME NEW s \in Streams, LeaderWrites(s) PROVE CallInv'
  BY <1>22, Zenon DEF LeaderWrites, ChildOnly
<1>23. ASSUME NEW s \in Streams, HelperWrites(s) PROVE CallInv'
  BY <1>23 DEF HelperWrites, ChildOnly
<1>24. CASE LeaderReads
  BY <1>24 DEF LeaderReads, ChildOnly
<1>25. CASE LeaderExits
  BY <1>25 DEF LeaderExits, Remains, ChildOnly
<1>26. CASE LeaderForks
  BY <1>26 DEF LeaderForks, ChildOnly
<1>27. CASE HelperMoves
  BY <1>27 DEF HelperMoves, ChildOnly
<1>28. CASE Recycle
  BY <1>28 DEF Recycle
<1>29. CASE DeadlinePasses
  BY <1>29 DEF DeadlinePasses
<1>30. CASE Cancel
  BY <1>30 DEF Cancel
<1>31. CASE UNCHANGED vars
  BY <1>31 DEF vars
<1> QED
  BY <1>1, <1>2, <1>3, <1>4, <1>5, <1>6, <1>7, <1>8, <1>9, <1>10, <1>11, <1>12, <1>13, <1>14, <1>15, <1>16, <1>17, <1>18, <1>19, <1>20, <1>21, <1>22, <1>23, <1>24, <1>25, <1>26, <1>27, <1>28, <1>29, <1>30, <1>31, ZenonT(30) DEF SupervisionNext, CallStep, Thread
\* It holds when the call begins.
LEMMA InitInv == SupervisionInit => SupervisionTypeOK /\ CallInv
<1> SUFFICES ASSUME SupervisionInit PROVE SupervisionTypeOK /\ CallInv
  BY Zenon
<1> USE DEF SupervisionInit, Streams, Workers, Output, Input
<1>1. SupervisionTypeOK
  <2>1. todo \in [Streams -> Nat] /\ \A s \in Streams : todo[s] <= Output[s]
    BY SupervisionAssumption
  <2>2. pipe \in [Streams -> 0..Capacity] /\ inleft \in 0..Input /\ inpipe \in 0..Capacity
    BY TheCall
  <2>3. call \in Calls /\ killed \in BOOLEAN /\ hit \in BOOLEAN /\ finished \in BOOLEAN
        /\ cancelled \in BOOLEAN /\ late \in BOOLEAN
    BY Zenon
  <2> QED
    BY <2>1, <2>2, <2>3, Zenon DEF SupervisionTypeOK
<1>2. CallInv
  BY Zenon DEF CallInv, GroupInv, GroupEnded, OwnGroupInv, ThreadInv, DecisionInv, ReturnInv, Started
<1> QED
  BY <1>1, <1>2, Zenon

(***************************************************************************)
(* SupervisionInductive: the types and the invariant hold throughout.      *)
(***************************************************************************)
THEOREM SupervisionInductive == SupervisionSpec => [](SupervisionTypeOK /\ CallInv)
<1>1. SupervisionTypeOK /\ CallInv /\ [SupervisionNext]_vars => (SupervisionTypeOK /\ CallInv)'
  <2> SUFFICES ASSUME SupervisionTypeOK, CallInv, [SupervisionNext]_vars
               PROVE  (SupervisionTypeOK /\ CallInv)'
    BY Zenon
  <2>1. CASE SupervisionNext
    BY <2>1, TypesStep, InvStep, Zenon
  <2>2. CASE UNCHANGED vars
    BY <2>2 DEF vars, callVars, childVars, pipeVars, threadVars, flags, SupervisionTypeOK, CallInv,
                GroupInv, GroupEnded, OwnGroupInv, ThreadInv, DecisionInv, ReturnInv, Alive,
                Streams, Workers, Output, Input, Env
  <2> QED
    BY <2>1, <2>2, Zenon
<1> QED
  BY <1>1, InitInv, PTL DEF SupervisionSpec

(***************************************************************************)
(* SignalsStayInGroup: no signal reaches a group that has got the child's  *)
(* number after it (terminate_and_reap, sweep_exited_process_group).       *)
(***************************************************************************)
THEOREM SignalsStayInGroup == SupervisionSpec => []SignalsOwnGroup
<1>1. CallInv => SignalsOwnGroup
  BY Zenon DEF CallInv, OwnGroupInv, SignalsOwnGroup
<1> QED
  BY <1>1, SupervisionInductive, PTL

(***************************************************************************)
(* NothingSurvives: a call that returns a status has reaped the child and  *)
(* ended its group, and has read its output to the end (finish_unix_exit,  *)
(* join_workers).                                                          *)
(***************************************************************************)
THEOREM NothingSurvives == SupervisionSpec => []NobodyLeft
<1>1. CallInv => NobodyLeft
  BY Zenon DEF CallInv, GroupInv, GroupEnded, ThreadInv, ReturnInv, NobodyLeft
<1> QED
  BY <1>1, SupervisionInductive, PTL

(***************************************************************************)
(* OutcomesOfChild: an exit is the child's own and its input delivered, a  *)
(* time-out comes after the deadline, a cancellation was asked for.        *)
(***************************************************************************)
THEOREM OutcomesOfChild == SupervisionSpec => []OutcomeOfChild
<1>1. CallInv => OutcomeOfChild
  BY Zenon DEF CallInv, DecisionInv, ReturnInv, OutcomeOfChild
<1> QED
  BY <1>1, SupervisionInductive, PTL

-----------------------------------------------------------------------------
(***************************************************************************)
(* BoundedCapture: the head is the beginning of the stream and the tail    *)
(* its end, each as long as it can be.                                     *)
(***************************************************************************)
Piece(s, first) == \A i \in 1..Len(s) : s[i] = first + i

CaptureInv ==
    /\ CaptureTypeOK
    /\ Len(head) = Least(total, HeadCapacity) /\ Piece(head, 0)
    /\ Len(tail) = Least(total - Len(head), TailCapacity) /\ Piece(tail, total - Len(tail))

\* The two halves make up the limit.
LEMMA Halves ==
    ASSUME limit \in Limits
    PROVE  /\ HeadCapacity \in Nat \ {0} /\ TailCapacity \in Nat
           /\ HeadCapacity + TailCapacity = limit
  BY CaptureAssumption DEF HeadCapacity, TailCapacity

\* A part of a piece of the stream.
LEMMA PartOfPiece ==
    ASSUME NEW S \in SUBSET Int, NEW s \in Seq(S), NEW first \in Int, Piece(s, first),
           NEW from \in 1..(Len(s) + 1)
    PROVE  /\ SubSeq(s, from, Len(s)) \in Seq(S)
           /\ Len(SubSeq(s, from, Len(s))) = Len(s) - from + 1
           /\ Piece(SubSeq(s, from, Len(s)), first + from - 1)
<1>2. /\ SubSeq(s, from, Len(s)) \in Seq(S)
      /\ Len(SubSeq(s, from, Len(s))) = Len(s) - from + 1
      /\ \A i \in 1..(Len(s) - from + 1) : SubSeq(s, from, Len(s))[i] = s[from + i - 1]
  OBVIOUS
<1> QED
  BY <1>2 DEF Piece

\* A piece and the one that follows it.
LEMMA JoinedPieces ==
    ASSUME NEW S \in SUBSET Int, NEW s \in Seq(S), NEW t \in Seq(S), NEW first \in Int,
           Piece(s, first), Piece(t, first + Len(s))
    PROVE  s \o t \in Seq(S) /\ Len(s \o t) = Len(s) + Len(t) /\ Piece(s \o t, first)
<1>1. /\ s \o t \in Seq(S) /\ Len(s \o t) = Len(s) + Len(t)
      /\ \A i \in 1..(Len(s) + Len(t)) : (s \o t)[i] = IF i <= Len(s) THEN s[i] ELSE t[i - Len(s)]
  OBVIOUS
<1>2. SUFFICES ASSUME NEW i \in 1..(Len(s) + Len(t)) PROVE (s \o t)[i] = first + i
  BY <1>1, Zenon DEF Piece
<1>3. CASE i <= Len(s)
  BY <1>1, <1>3 DEF Piece
<1>4. CASE ~ (i <= Len(s))
  <2>1. i - Len(s) \in 1..Len(t) /\ first + Len(s) + (i - Len(s)) = first + i
    BY <1>4
  <2>2. t[i - Len(s)] = first + Len(s) + (i - Len(s))
    BY <2>1, Zenon DEF Piece
  <2> QED
    BY <1>1, <1>4, <2>1, <2>2, Zenon
<1> QED
  BY <1>3, <1>4, Zenon

\* KeepTail keeps the last bytes.
LEMMA KeptTail ==
    ASSUME limit \in Limits, NEW S \in SUBSET Int, NEW old \in Seq(S), NEW new \in Seq(S), NEW first \in Int,
           Piece(old, first), Piece(new, first + Len(old)), Len(old) <= TailCapacity
    PROVE  /\ KeepTail(old, new) \in Seq(S)
           /\ Len(KeepTail(old, new)) = Least(Len(old) + Len(new), TailCapacity)
           /\ Piece(KeepTail(old, new), first + Len(old) + Len(new) - Len(KeepTail(old, new)))
<1>0. TailCapacity \in Nat /\ Len(old) \in Nat /\ Len(new) \in Nat
  BY Halves
<1>1. CASE Len(new) >= TailCapacity
  <2> DEFINE from == Len(new) - TailCapacity + 1
  <2>1. from \in 1..(Len(new) + 1)
    BY <1>0, <1>1
  <2>2. KeepTail(old, new) = SubSeq(new, from, Len(new))
    BY <1>1, Zenon DEF KeepTail
  <2> HIDE DEF from
  <2>3. /\ SubSeq(new, from, Len(new)) \in Seq(S)
        /\ Len(SubSeq(new, from, Len(new))) = Len(new) - from + 1
        /\ Piece(SubSeq(new, from, Len(new)), first + Len(old) + from - 1)
    BY <2>1, <1>0, PartOfPiece
  <2>4. /\ Len(new) - from + 1 = TailCapacity
        /\ Least(Len(old) + Len(new), TailCapacity) = TailCapacity
        /\ first + Len(old) + from - 1 = first + Len(old) + Len(new) - TailCapacity
    BY <1>0, <1>1 DEF from, Least
  <2> QED
    BY <2>2, <2>3, <2>4, Zenon
<1>2. CASE ~ (Len(new) >= TailCapacity)
  <2> DEFINE from == Minus(Len(old) + Len(new), TailCapacity) + 1
             rest == SubSeq(old, from, Len(old))
  <2>1. from \in 1..(Len(old) + 1)
    BY <1>0, <1>2 DEF Minus
  <2>2. KeepTail(old, new) = rest \o new
    BY <1>2, Zenon DEF KeepTail
  <2>3. rest \in Seq(S) /\ Len(rest) = Len(old) - from + 1 /\ Piece(rest, first + from - 1)
    BY <2>1, PartOfPiece, Zenon
  <2> HIDE DEF rest
  <2>4. first + from - 1 \in Int /\ first + from - 1 + Len(rest) = first + Len(old)
    BY <2>1, <2>3, <1>0
  <2>5. /\ rest \o new \in Seq(S) /\ Len(rest \o new) = Len(rest) + Len(new)
        /\ Piece(rest \o new, first + from - 1)
    BY <2>3, <2>4, JoinedPieces, Zenon
  <2>6. /\ Len(rest) + Len(new) = Least(Len(old) + Len(new), TailCapacity)
        /\ first + from - 1 = first + Len(old) + Len(new) - (Len(rest) + Len(new))
    <3>1. Len(rest) = Len(old) - Minus(Len(old) + Len(new), TailCapacity)
      BY <1>0, <2>1, <2>3 DEF Minus
    <3>2. CASE Len(old) + Len(new) > TailCapacity
      <4>1. Minus(Len(old) + Len(new), TailCapacity) = Len(old) + Len(new) - TailCapacity
        BY <1>0, <3>2 DEF Minus
      <4>2. Least(Len(old) + Len(new), TailCapacity) = TailCapacity
        BY <1>0, <3>2 DEF Least
      <4> QED
        BY <1>0, <3>1, <4>1, <4>2
    <3>3. CASE ~ (Len(old) + Len(new) > TailCapacity)
      BY <1>0, <2>3, <3>1, <3>3, SMTT(30) DEF Least, Minus
    <3> QED
      BY <3>2, <3>3, Zenon
  <2> QED
    BY <2>2, <2>5, <2>6, Zenon
<1> QED
  BY <1>1, <1>2, Zenon

\* The beginning and the rest of a piece.
LEMMA SplitPiece ==
    ASSUME NEW S \in SUBSET Int, NEW s \in Seq(S), NEW first \in Int, Piece(s, first),
           NEW r \in Nat, r <= Len(s)
    PROVE  /\ SubSeq(s, 1, r) \in Seq(S) /\ Len(SubSeq(s, 1, r)) = r
           /\ Piece(SubSeq(s, 1, r), first)
           /\ SubSeq(s, r + 1, Len(s)) \in Seq(S) /\ Len(SubSeq(s, r + 1, Len(s))) = Len(s) - r
           /\ Piece(SubSeq(s, r + 1, Len(s)), first + r)
<1>2. /\ SubSeq(s, 1, r) \in Seq(S) /\ Len(SubSeq(s, 1, r)) = r
      /\ \A i \in 1..r : SubSeq(s, 1, r)[i] = s[i]
  OBVIOUS
<1>3. Piece(SubSeq(s, 1, r), first)
  BY <1>2 DEF Piece
<1>4. r + 1 \in 1..(Len(s) + 1) /\ Len(s) - (r + 1) + 1 = Len(s) - r /\ first + (r + 1) - 1 = first + r
  BY SMTT(30)
<1>5. /\ SubSeq(s, r + 1, Len(s)) \in Seq(S)
      /\ Len(SubSeq(s, r + 1, Len(s))) = Len(s) - (r + 1) + 1
      /\ Piece(SubSeq(s, r + 1, Len(s)), first + (r + 1) - 1)
  BY <1>4, PartOfPiece, Zenon
<1> QED
  BY <1>2, <1>3, <1>4, <1>5, Zenon

\* A read keeps the head and the tail as they should be.
LEMMA ReadKeeps ==
    ASSUME CaptureInv, NEW n \in 1..MaxRead, total + n <= MaxTotal, Read(n)
    PROVE  CaptureInv'
<1> DEFINE buffer    == [i \in 1..n |-> total + i]
           retained  == Least(Minus(HeadCapacity, Len(head)), n)
           first     == SubSeq(buffer, 1, retained)
           remaining == SubSeq(buffer, retained + 1, n)
           S         == 1..MaxTotal
<1>0. /\ S \in SUBSET Int /\ n \in Nat \ {0} /\ total \in Nat /\ MaxTotal \in Nat /\ limit \in Limits
      /\ HeadCapacity \in Nat \ {0} /\ TailCapacity \in Nat
      /\ head \in Seq(S) /\ tail \in Seq(S) /\ Len(head) \in Nat /\ Len(tail) \in Nat
  BY Halves, CaptureAssumption DEF CaptureInv, CaptureTypeOK
<1>1. buffer \in Seq(S) /\ Len(buffer) = n /\ Piece(buffer, total)
  BY <1>0 DEF Piece
<1>2. Len(head) = Least(total, HeadCapacity) /\ Len(tail) = Least(total - Len(head), TailCapacity)
  BY Zenon DEF CaptureInv
<1> HIDE DEF buffer, retained, S
<1>3. /\ retained \in Nat /\ retained <= n /\ Len(head) + retained = Least(total + n, HeadCapacity)
      /\ retained > 0 => Len(head) = total /\ Len(tail) = 0
      /\ Least(Len(tail) + (n - retained), TailCapacity) = Least(total + n - (Len(head) + retained), TailCapacity)
      /\ TailCapacity = 0 \/ n = retained => Len(tail) = Least(total + n - (Len(head) + retained), TailCapacity)
  BY <1>0, <1>2 DEF Least, Minus, retained
<1>4. /\ first \in Seq(S) /\ Len(first) = retained /\ Piece(first, total)
      /\ remaining \in Seq(S) /\ Len(remaining) = n - retained /\ Piece(remaining, total + retained)
  BY <1>0, <1>1, <1>3, SplitPiece, SMTT(30)
<1> HIDE DEF first, remaining
<1>6. /\ head' = head \o first /\ total' = total + n /\ limit' = limit /\ open' = open
      /\ tail' = IF TailCapacity = 0 \/ remaining = <<>> THEN tail ELSE KeepTail(tail, remaining)
  BY Zenon DEF Read, buffer, retained, first, remaining
<1>7. HeadCapacity' = HeadCapacity /\ TailCapacity' = TailCapacity
  BY <1>6, Zenon DEF HeadCapacity, TailCapacity
<1>8. head' \in Seq(S) /\ Len(head') = Len(head) + retained /\ Piece(head', 0)
  <2>1. Piece(first, 0 + Len(head))
    <3>1. CASE retained = 0
      BY <1>4, <3>1 DEF Piece
    <3>2. CASE retained > 0
      BY <1>0, <1>3, <1>4, <3>2
    <3> QED
      BY <1>3, <3>1, <3>2
  <2> QED
    BY <1>0, <1>4, <1>6, <2>1, JoinedPieces, SMTT(30) DEF CaptureInv
<1>9. /\ tail' \in Seq(S) /\ Len(tail') = Least(total' - Len(head'), TailCapacity)
      /\ Piece(tail', total' - Len(tail'))
  <2>0. total' - Len(head') = total + n - (Len(head) + retained)
    BY <1>0, <1>3, <1>6, <1>8
  <2>1. CASE TailCapacity = 0 \/ remaining = <<>>
    <3>1. TailCapacity = 0 \/ n = retained
      BY <1>0, <1>3, <1>4, <2>1
    <3>2. tail' = tail /\ Len(tail) = Least(total' - Len(head'), TailCapacity)
      BY <1>3, <1>6, <2>0, <2>1, <3>1, Zenon
    <3>3. Len(tail) = 0 \/ total' - Len(tail) = total - Len(tail)
      BY <1>0, <1>3, <1>6, <3>1 DEF Least
    <3> QED
      BY <1>0, <3>2, <3>3 DEF Piece, CaptureInv
  <2>2. CASE ~ (TailCapacity = 0 \/ remaining = <<>>)
    <3> DEFINE from == total + retained - Len(tail)
    <3>1. Piece(tail, total - Len(tail)) /\ Len(tail) <= TailCapacity
      BY Zenon DEF CaptureInv, CaptureTypeOK
    <3>2. Piece(tail, from)
      <4>1. CASE retained = 0
        BY <1>0, <3>1, <4>1
      <4>2. CASE retained > 0
        BY <1>3, <4>2 DEF Piece
      <4> QED
        BY <1>3, <4>1, <4>2
    <3>3. from \in Int /\ from + Len(tail) = total + retained
      BY <1>0, <1>3
    <3> HIDE DEF from
    <3>4. /\ KeepTail(tail, remaining) \in Seq(S)
          /\ Len(KeepTail(tail, remaining)) = Least(Len(tail) + Len(remaining), TailCapacity)
          /\ Piece(KeepTail(tail, remaining), from + Len(tail) + Len(remaining) - Len(KeepTail(tail, remaining)))
      BY <1>0, <1>4, <3>1, <3>2, <3>3, KeptTail, Zenon
    <3>5. from + Len(tail) + Len(remaining) = total'
      <4>1. total' = total + n /\ Len(remaining) = n - retained
        BY <1>4, <1>6, Zenon
      <4> QED
        BY <1>0, <1>3, <3>3, <4>1, SMTT(30)
    <3>6. tail' = KeepTail(tail, remaining)
      BY <1>6, <2>2, Zenon
    <3>7. Least(Len(tail) + Len(remaining), TailCapacity) = Least(total' - Len(head'), TailCapacity)
      BY <1>3, <1>4, <2>0, Zenon
    <3>8. Piece(KeepTail(tail, remaining), total' - Len(KeepTail(tail, remaining)))
      <4>1. from + Len(tail) + Len(remaining) - Len(KeepTail(tail, remaining))
              = total' - Len(KeepTail(tail, remaining))
        <5>1. Len(tail) \in Nat /\ Len(remaining) \in Nat /\ Len(KeepTail(tail, remaining)) \in Nat
          BY <1>0, <1>4, <3>4
        <5> QED
          BY <3>3, <3>5, <5>1
      <4> QED
        BY <3>4, <4>1, Zenon
    <3>9. Len(KeepTail(tail, remaining)) = Least(total' - Len(head'), TailCapacity)
      BY <3>4, <3>7, Zenon
    <3> QED
      BY <3>4, <3>6, <3>8, <3>9, Zenon
  <2> QED
    BY <2>1, <2>2, Zenon
<1>10. /\ Len(head') = Least(total', HeadCapacity') /\ Len(head') <= HeadCapacity'
       /\ Len(tail') = Least(total' - Len(head'), TailCapacity') /\ Len(tail') <= TailCapacity'
  <2>1. Len(head') = Least(total', HeadCapacity')
    BY <1>3, <1>6, <1>7, <1>8, Zenon
  <2>2. Len(tail') = Least(total' - Len(head'), TailCapacity')
    BY <1>7, <1>9, Zenon
  <2>3. HeadCapacity' \in Nat /\ TailCapacity' \in Nat /\ total' \in Nat /\ Len(head') \in Nat
    BY <1>0, <1>6, <1>7, <1>8
  <2>4. \A m, k \in Int : Least(m, k) <= k
    BY DEF Least
  <2> QED
    BY <2>1, <2>2, <2>3, <2>4
<1>11. limit' \in Limits /\ open' \in BOOLEAN /\ total' \in 0..MaxTotal
  BY <1>0, <1>6 DEF CaptureInv, CaptureTypeOK
<1> QED
  BY <1>8, <1>9, <1>10, <1>11, Zenon DEF CaptureInv, CaptureTypeOK, S

\* What is kept, byte by byte.
LEMMA BytesKept ==
    ASSUME CaptureInv
    PROVE  /\ Bytes \in Seq(Nat) /\ Len(Bytes) = Len(head) + Len(tail)
           /\ \A i \in 1..Len(Bytes) :
                 Bytes[i] = IF i <= Len(head) THEN i ELSE total - Len(tail) + (i - Len(head))
           /\ Len(Bytes) = Least(total, limit)
<1> DEFINE S == Nat
<1>1. head \in Seq(S) /\ tail \in Seq(S) /\ total \in Nat /\ limit \in Limits
  BY CaptureAssumption DEF CaptureInv, CaptureTypeOK
<1>2. Piece(head, 0) /\ Piece(tail, total - Len(tail))
  BY Zenon DEF CaptureInv
<1> HIDE DEF S
<1>3. /\ Bytes \in Seq(S) /\ Len(Bytes) = Len(head) + Len(tail)
      /\ \A i \in 1..Len(Bytes) : Bytes[i] = IF i <= Len(head) THEN head[i] ELSE tail[i - Len(head)]
  BY <1>1 DEF Bytes
<1>4. Len(Bytes) = Least(total, limit)
  <2>1. Len(head) = Least(total, HeadCapacity) /\ Len(tail) = Least(total - Len(head), TailCapacity)
    BY Zenon DEF CaptureInv
  <2> QED
    BY <1>1, <1>3, <2>1, Halves DEF Least
<1>5. ASSUME NEW i \in 1..Len(Bytes)
      PROVE  Bytes[i] = IF i <= Len(head) THEN i ELSE total - Len(tail) + (i - Len(head))
  <2>1. CASE i <= Len(head)
    BY <1>1, <1>2, <1>3, <2>1 DEF Piece
  <2>2. CASE ~ (i <= Len(head))
    <3>1. i - Len(head) \in 1..Len(tail)
      BY <1>1, <1>3, <2>2
    <3> QED
      BY <1>2, <1>3, <2>2, <3>1, Zenon DEF Piece
  <2> QED
    BY <2>1, <2>2, Zenon
<1> QED
  BY <1>3, <1>4, <1>5, Zenon DEF S

\* Parts of a sequence, and sequences that are the same.
LEMMA Part ==
    ASSUME NEW s \in Seq(Nat), NEW m \in 1..(Len(s) + 1), NEW n \in (m - 1)..Len(s)
    PROVE  /\ SubSeq(s, m, n) \in Seq(Nat) /\ Len(SubSeq(s, m, n)) = n - m + 1
           /\ \A i \in 1..(n - m + 1) : SubSeq(s, m, n)[i] = s[m + i - 1]
  OBVIOUS

LEMMA Joined ==
    ASSUME NEW s \in Seq(Nat), NEW t \in Seq(Nat)
    PROVE  /\ s \o t \in Seq(Nat) /\ Len(s \o t) = Len(s) + Len(t)
           /\ \A i \in 1..(Len(s) + Len(t)) : (s \o t)[i] = IF i <= Len(s) THEN s[i] ELSE t[i - Len(s)]
  OBVIOUS

LEMMA SameSequence ==
    ASSUME NEW s \in Seq(Nat), NEW t \in Seq(Nat), Len(s) = Len(t), \A i \in 1..Len(s) : s[i] = t[i]
    PROVE  s = t
  OBVIOUS

\* The rendering, with a mark where bytes are missing.
LEMMA MarkedRendering ==
    ASSUME CaptureInv, Len(Bytes) < total
    PROVE  /\ Len(Rendered) = Len(Bytes) + 1
           /\ \A i \in 1..Len(Rendered) :
                 Rendered[i] = IF i <= Len(head) THEN i
                               ELSE IF i = Len(head) + 1 THEN 0
                               ELSE total - Len(tail) + (i - 1 - Len(head))
<1> DEFINE h == Len(head)
           b == Len(Bytes)
           left == SubSeq(Bytes, 1, h)
           right == SubSeq(Bytes, h + 1, b)
<1>1. h \in Nat /\ Len(tail) \in Nat /\ total \in Nat /\ b = h + Len(tail) /\ Bytes \in Seq(Nat)
  <2>1. head \in Seq(1..MaxTotal) /\ tail \in Seq(1..MaxTotal) /\ total \in Nat
    BY DEF CaptureInv, CaptureTypeOK
  <2> QED
    BY <2>1, BytesKept
<1>2. Rendered = left \o <<0>> \o right
  <2>1. Omitted # 0
    BY <1>1 DEF Omitted, Minus
  <2> QED
    BY <2>1, Zenon DEF Rendered
<1>3. left \in Seq(Nat) /\ Len(left) = h /\ \A i \in 1..h : left[i] = Bytes[i]
  BY <1>1, Part
<1>4. right \in Seq(Nat) /\ Len(right) = b - h /\ \A i \in 1..(b - h) : right[i] = Bytes[h + i]
  BY <1>1, Part, SMTT(30)
<1>5. \A i \in 1..b : Bytes[i] = IF i <= h THEN i ELSE total - Len(tail) + (i - h)
  BY BytesKept, Zenon
<1> HIDE DEF left, right, h, b
<1>6. /\ left \o <<0>> \in Seq(Nat) /\ Len(left \o <<0>>) = h + 1
      /\ \A i \in 1..h : (left \o <<0>>)[i] = left[i]
      /\ (left \o <<0>>)[h + 1] = 0
  BY <1>1, <1>3
<1> DEFINE marked == left \o <<0>>
<1> HIDE DEF marked
<1>7a. marked \in Seq(Nat) /\ Len(marked) = h + 1 /\ Rendered = marked \o right
  BY <1>2, <1>6, Zenon DEF marked
<1>7b. Len(marked) + Len(right) = b + 1
  BY <1>1, <1>4, <1>7a
<1>7. /\ Len(Rendered) = b + 1
      /\ \A i \in 1..(b + 1) :
            Rendered[i] = IF i <= h + 1 THEN marked[i] ELSE right[i - (h + 1)]
  <2>1. right \in Seq(Nat)
    BY <1>4, Zenon
  <2>2. /\ Len(marked \o right) = Len(marked) + Len(right)
        /\ \A i \in 1..(Len(marked) + Len(right)) :
              (marked \o right)[i] = IF i <= Len(marked) THEN marked[i] ELSE right[i - Len(marked)]
    BY <1>7a, <2>1, Joined, Zenon
  <2> QED
    BY <1>7a, <1>7b, <2>2, Zenon
<1>8. ASSUME NEW i \in 1..(b + 1)
      PROVE  Rendered[i] = IF i <= h THEN i ELSE IF i = h + 1 THEN 0 ELSE total - Len(tail) + (i - 1 - h)
  <2>1. CASE i <= h
    <3>1. i \in 1..h /\ i \in 1..b /\ i <= h + 1
      BY <1>1, <2>1
    <3>2. Rendered[i] = marked[i]
      BY <1>7, <3>1, Zenon
    <3> QED
      BY <1>3, <1>5, <1>6, <2>1, <3>1, <3>2, Zenon DEF marked
  <2>2. CASE i = h + 1
    BY <1>1, <1>6, <1>7, <2>2 DEF marked
  <2>3. CASE i > h + 1
    <3>1. i - (h + 1) \in 1..(b - h) /\ h + (i - (h + 1)) = i - 1 /\ i - 1 \in 1..b /\ ~ (i - 1 <= h)
      BY <1>1, <2>3
    <3>2. Rendered[i] = right[i - (h + 1)]
      BY <1>1, <1>7, <2>3
    <3>3. right[i - (h + 1)] = Bytes[i - 1]
      BY <1>4, <3>1, Zenon
    <3>4. Bytes[i - 1] = total - Len(tail) + (i - 1 - h)
      BY <1>5, <3>1, Zenon
    <3>5. ~ (i <= h) /\ i # h + 1
      BY <1>1, <2>3
    <3> QED
      BY <3>2, <3>3, <3>4, <3>5, Zenon
  <2> QED
    BY <1>1, <2>1, <2>2, <2>3
<1> QED
  BY <1>7, <1>8, Zenon DEF h, b

\* The invariant is what the property says.
LEMMA CapturedRight == CaptureInv => KeepsBothEnds
<1> SUFFICES ASSUME CaptureInv PROVE KeepsBothEnds
  BY Zenon
<1>1. /\ Len(head) \in Nat /\ Len(tail) \in Nat /\ total \in Nat /\ limit \in Nat
      /\ head \in Seq(Nat) /\ tail \in Seq(Nat)
  BY CaptureAssumption DEF CaptureInv, CaptureTypeOK
<1>2. /\ Bytes \in Seq(Nat) /\ Len(Bytes) = Len(head) + Len(tail) /\ Len(Bytes) = Least(total, limit)
      /\ \A i \in 1..Len(Bytes) :
            Bytes[i] = IF i <= Len(head) THEN i ELSE total - Len(tail) + (i - Len(head))
  BY BytesKept, Zenon
<1>3. Len(Bytes) <= total /\ (total <= limit => Len(Bytes) = total) /\ Len(Bytes) \in Nat
  BY <1>1, <1>2 DEF Least
<1>4. Stream \in Seq(Nat) /\ Len(Stream) = total /\ \A i \in 1..total : Stream[i] = i
  BY <1>1 DEF Stream
<1>5. head = SubSeq(Stream, 1, Len(head))
  BY <1>1, <1>2, <1>3, <1>4, SMTT(30) DEF CaptureInv, Piece
<1>6. tail = SubSeq(Stream, total - Len(tail) + 1, total)
  <2> DEFINE last == SubSeq(Stream, total - Len(tail) + 1, total)
  <2>1. total - Len(tail) + 1 \in 1..(total + 1) /\ total \in (total - Len(tail))..total
    BY <1>1, <1>2, <1>3
  <2>2. /\ last \in Seq(Nat) /\ Len(last) = Len(tail)
        /\ \A i \in 1..Len(tail) : last[i] = Stream[total - Len(tail) + i]
    BY <1>1, <1>4, <2>1
  <2>3. \A i \in 1..Len(tail) : total - Len(tail) + i \in 1..total /\ tail[i] = total - Len(tail) + i
    <3>1. Piece(tail, total - Len(tail))
      BY Zenon DEF CaptureInv
    <3>2. \A i \in 1..Len(tail) : total - Len(tail) + i \in 1..total
      BY <1>1, <2>1
    <3> QED
      BY <3>1, <3>2, Zenon DEF Piece
  <2> HIDE DEF last
  <2>4. \A i \in 1..Len(tail) : tail[i] = last[i]
    BY <1>4, <2>2, <2>3, Zenon
  <2>5. tail = last
    BY <1>1, <2>2, <2>4, SameSequence, Zenon
  <2> QED
    BY <2>5, Zenon DEF last
<1>7. total <= limit => Bytes = Stream
  <2> SUFFICES ASSUME total <= limit PROVE Bytes = Stream
    BY Zenon
  <2>1. Len(Bytes) = total /\ \A i \in 1..Len(Bytes) : Bytes[i] = i
    BY <1>1, <1>2, <1>3
  <2> QED
    BY <1>2, <1>4, <2>1, SameSequence, Zenon
<1>8. Omitted + Len(Bytes) = total
  BY <1>1, <1>3 DEF Omitted, Minus
<1>9. CASE Len(Bytes) < total
  <2>0. Len(Rendered) = Len(Bytes) + 1 /\ Len(Bytes) \in Nat
    BY <1>3, <1>9, MarkedRendering, Zenon
  <2>1. ASSUME NEW i \in 1..Len(Rendered) - 1
        PROVE  Rendered[i + 1] = Rendered[i] + 1 \/ 0 \in {Rendered[i], Rendered[i + 1]}
    <3>1. i \in 1..Len(Rendered) /\ i + 1 \in 1..Len(Rendered) /\ i \in Nat
      BY <2>0
    <3> QED
      BY <1>1, <1>9, <3>1, MarkedRendering, SMTT(30)
  <2>2. \E i \in 1..Len(Rendered) : Rendered[i] = 0
    <3>1. Len(head) + 1 \in 1..Len(Rendered)
      BY <1>1, <1>2, <2>0
    <3> QED
      BY <1>1, <1>9, <3>1, MarkedRendering
  <2> QED
    BY <1>2, <1>5, <1>6, <1>7, <1>8, <1>9, <2>1, <2>2, Zenon DEF KeepsBothEnds
<1>10. CASE Len(Bytes) = total
  <2>1. Rendered = Bytes
    BY <1>1, <1>10 DEF Rendered, Omitted, Minus
  <2>2. \A i \in 1..Len(Bytes) : Bytes[i] = i
    BY <1>1, <1>2, <1>10
  <2>3. \A i \in 1..Len(Rendered) - 1 :
            Rendered[i + 1] = Rendered[i] + 1 \/ 0 \in {Rendered[i], Rendered[i + 1]}
    BY <1>3, <2>1, <2>2
  <2>4. ~ \E i \in 1..Len(Rendered) : Rendered[i] = 0
    BY <1>3, <2>1, <2>2
  <2> QED
    <3>1. ~ (Len(Bytes) < total)
      BY <1>1, <1>10
    <3> QED
      BY <1>2, <1>5, <1>6, <1>7, <1>8, <2>3, <2>4, <3>1, Zenon DEF KeepsBothEnds
<1> QED
  BY <1>1, <1>3, <1>9, <1>10

(***************************************************************************)
(* CaptureKeepsBothEnds: of a stream of any length, read in pieces of any  *)
(* size, the beginning and the end are kept, and the rendering has a mark  *)
(* where bytes are missing (drain_bounded, CapturedStream).                *)
(***************************************************************************)
THEOREM CaptureKeepsBothEnds == CaptureSpec => []KeepsBothEnds
<1>1. CaptureInit => CaptureInv
  <2> SUFFICES ASSUME CaptureInit PROVE CaptureInv
    BY Zenon
  <2>1. HeadCapacity \in Nat \ {0} /\ TailCapacity \in Nat
    BY Halves, Zenon DEF CaptureInit
  <2>2. head = <<>> /\ tail = <<>> /\ Len(head) = 0 /\ Len(tail) = 0 /\ total = 0
    BY Zenon DEF CaptureInit
  <2>3. CaptureTypeOK
    BY <2>1, <2>2, CaptureAssumption DEF CaptureInit, CaptureTypeOK
  <2>4. Least(total, HeadCapacity) = 0 /\ Least(total - Len(head), TailCapacity) = 0
    <3>1. \A c \in Nat : Least(0, c) = 0 /\ Least(0 - 0, c) = 0
      BY DEF Least
    <3>2. Len(head) = 0 /\ total = 0
      BY <2>2, Zenon
    <3> QED
      BY <2>1, <3>1, <3>2, Zenon
  <2>5. Piece(head, 0) /\ Piece(tail, total - Len(tail))
    BY <2>2 DEF Piece
  <2> QED
    BY <2>2, <2>3, <2>4, <2>5, Zenon DEF CaptureInv
<1>2. CaptureInv /\ [CaptureNext]_capture => CaptureInv'
  <2> SUFFICES ASSUME CaptureInv, [CaptureNext]_capture PROVE CaptureInv'
    BY Zenon
  <2>1. ASSUME NEW n \in 1..MaxRead, total + n <= MaxTotal, Read(n) PROVE CaptureInv'
    BY <2>1, ReadKeeps, Zenon
  <2>2. CASE EndOfStream
    BY <2>2, Zenon DEF EndOfStream, CaptureInv, CaptureTypeOK, HeadCapacity, TailCapacity
  <2>3. CASE UNCHANGED capture
    BY <2>3, Zenon DEF capture, CaptureInv, CaptureTypeOK, HeadCapacity, TailCapacity
  <2> QED
    BY <2>1, <2>2, <2>3, Zenon DEF CaptureNext
<1> QED
  BY <1>1, <1>2, CapturedRight, PTL DEF CaptureSpec

-----------------------------------------------------------------------------
(***************************************************************************)
(* DiskClaim: what the worker knows of the claim, and what its messages    *)
(* and its caller can rely on.                                             *)
(***************************************************************************)
ClaimInv ==
    /\ thread = "setup" => daemon = "idle"
    /\ thread \in {"setup", "poll", "pump"} => daemon # "answered"
    /\ thread # "take" => callback = "pending"
    /\ thread = "take" => (callback = "pending" <=> daemon # "answered")
    /\ callback = "acquired" => owned
    /\ callback = "rejected" => ~ owned
    /\ daemon \in {"idle", "asked", "dissents"} => ~ owned
    /\ daemon = "granted" => owned
    /\ thread \in {"hold", "serve", "drop"} => daemon = "answered" /\ (owned => owns)
    /\ thread \in {"hold", "serve"} => owned
    /\ thread \in {"fail", "report", "ended"} => ~ owned /\ daemon \in {"idle", "answered"}

MessageInv ==
    /\ \A i \in 1..Len(inbox) : inbox[i] \in {"failed", "released"} => thread = "ended"
    /\ caller = "waiting" =>
          /\ commands = 0 /\ ~ stopping
          /\ thread \notin {"drop", "report"}
          /\ \A i \in 1..Len(inbox) : inbox[i] = "acquired" => thread \in {"hold", "serve"}
    /\ caller = "held" => commands = 0 /\ thread \in {"hold", "serve"}
    /\ caller \in {"refused", "cancelled", "released"} => thread = "ended"

HandleInv == ClaimTypeOK /\ ClaimInv /\ MessageInv

\* Every step of the caller, the worker and the daemon keeps it.
LEMMA HandleStep ==
    ASSUME HandleInv, ClaimNext
    PROVE  HandleInv'
<1> USE DEF HandleInv, ClaimTypeOK, ClaimInv, MessageInv, Gone, ByCaller, ByWorker, ByDaemon
<1>1. CASE Receive
  BY <1>1, SMTT(30) DEF Receive
<1>2. CASE AskRelease
  BY <1>2, SMTT(30) DEF AskRelease
<1>3. CASE WaitForRelease
  BY <1>3, SMTT(30) DEF WaitForRelease
<1>4. CASE Detach
  BY <1>4, SMTT(30) DEF Detach
<1>5. CASE IssueClaim
  BY <1>5, Zenon DEF IssueClaim
<1>6. CASE Poll
  BY <1>6, SMTT(30) DEF Poll, TakeCommand, ReleaseRequested
<1>7. CASE Pump
  BY <1>7, Zenon DEF Pump, PumpOnce, Completion
<1>8. CASE TakeCompletion
  <2>1. ClaimTypeOK'
    <3>1. inbox' \in Seq({"acquired", "failed", "released"})
      BY <1>8 DEF TakeCompletion, Send
    <3>2. owns' \in BOOLEAN
      BY <1>8, Zenon DEF TakeCompletion, MarkAcquired
    <3> QED
      BY <1>8, <3>1, <3>2, Zenon DEF TakeCompletion
  <2>2. ClaimInv'
    BY <1>8, Zenon DEF TakeCompletion, MarkAcquired, Send
  <2>3. MessageInv'
    BY <1>8, SMTT(30) DEF TakeCompletion, MarkAcquired, Send
  <2> QED
    BY <2>1, <2>2, <2>3, Zenon
<1>9. CASE Hold
  BY <1>9 DEF Hold, TakeCommand, ReleaseRequested
<1>10. CASE Unclaim
  <2>1. ClaimTypeOK'
    BY <1>10, Zenon DEF Unclaim
  <2>2. ClaimInv'
    <3>1. ~ owned'
      BY <1>10, Zenon DEF Unclaim
    <3> QED
      BY <1>10, <3>1, Zenon DEF Unclaim
  <2>3. MessageInv'
    BY <1>10, Zenon DEF Unclaim
  <2> QED
    BY <2>1, <2>2, <2>3, Zenon
<1>11. CASE Report
  BY <1>11, SMTT(30) DEF Report, Send
<1>12. CASE Arbitrate
  <2>1. ClaimTypeOK'
    BY <1>12, ZenonT(30) DEF Arbitrate
  <2>2. ClaimInv'
    BY <1>12 DEF Arbitrate
  <2>3. MessageInv'
    BY <1>12, Zenon DEF Arbitrate
  <2> QED
    BY <2>1, <2>2, <2>3, Zenon
<1>13. CASE Rival
  BY <1>13, Zenon DEF Rival
<1>14. CASE UNCHANGED claimVars
  BY <1>14 DEF claimVars
<1> QED
  BY <1>1, <1>2, <1>3, <1>4, <1>5, <1>6, <1>7, <1>8, <1>9, <1>10, <1>11, <1>12, <1>13, <1>14, ZenonT(30)
     DEF ClaimNext, CallerStep, WorkerStep

(***************************************************************************)
(* ClaimsFollowHandle: as long as the caller has the handle the disk is    *)
(* claimed, and it is not once the caller was told that the claim failed   *)
(* or was given back (run_claim_worker, ClaimHandle).                      *)
(***************************************************************************)
THEOREM ClaimsFollowHandle == ClaimSpec => []ClaimFollowsHandle
<1>1. ClaimInit => HandleInv
  <2> SUFFICES ASSUME ClaimInit PROVE HandleInv
    BY Zenon
  <2>1. ClaimTypeOK
    <3>1. inbox \in Seq({"acquired", "failed", "released"}) /\ commands \in 0..1
      BY DEF ClaimInit
    <3>2. stopping \in BOOLEAN /\ owns \in BOOLEAN /\ owned \in BOOLEAN
      BY Zenon DEF ClaimInit
    <3> QED
      BY <3>1, <3>2, Zenon DEF ClaimInit, ClaimTypeOK
  <2>2. ClaimInv /\ MessageInv
    BY DEF ClaimInit, ClaimInv, MessageInv
  <2> QED
    BY <2>1, <2>2, Zenon DEF HandleInv
<1>2. HandleInv /\ [ClaimNext]_claimVars => HandleInv'
  <2> SUFFICES ASSUME HandleInv, UNCHANGED claimVars PROVE HandleInv'
    BY HandleStep, Zenon
  <2> QED
    BY DEF claimVars, HandleInv, ClaimTypeOK, ClaimInv, MessageInv, Gone
<1>3. HandleInv => ClaimFollowsHandle
  BY Zenon DEF HandleInv, ClaimInv, MessageInv, ClaimFollowsHandle
<1> QED
  BY <1>1, <1>2, <1>3, PTL DEF ClaimSpec
=============================================================================
