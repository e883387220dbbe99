-------------------------- MODULE ProcessSupervision --------------------------
(***************************************************************************)
(* aros-common/src/process.rs on Unix: a call runs a child in a process    *)
(* group of its own, drains its output, delivers its input, and ends it at *)
(* a deadline or on cancellation.                                          *)
(*                                                                         *)
(* Beside the caller there are the child (the leader of the group), a      *)
(* process that it may start, the worker threads of the pipes, the clock   *)
(* and whoever cancels.  What passes through a pipe is counted in units.   *)
(***************************************************************************)
EXTENDS Naturals, FiniteSets

CONSTANTS
    Capacity,   \* of a pipe
    Calls       \* the calls, and what may happen in each

(***************************************************************************)
(* timed:  the call has a deadline and a cancellation token                *)
(* output: what the leader writes to each captured stream before it exits  *)
(* input:  how much input the caller delivers                              *)
(* env:    of "cancel", "helper", "escape", "fault", and                   *)
(*         "darwin": signals to a group of zombies are refused,            *)
(*         "autoreap": SIGCHLD may be ignored, nobody can wait for the     *)
(*         child,                                                          *)
(*         "works": the leader does its work as far as its pipes let it    *)
(***************************************************************************)
AllStreams == {"stdout", "stderr"}

ASSUME SupervisionAssumption ==
    /\ Capacity \in Nat \ {0}
    /\ \A c \in Calls :
          /\ c.timed \in BOOLEAN /\ c.input \in Nat
          /\ DOMAIN c.output \subseteq AllStreams /\ c.output \in [DOMAIN c.output -> Nat]
          /\ c.env \subseteq {"cancel", "helper", "escape", "fault", "darwin", "autoreap", "works"}

StdIn == "stdin"
AllWorkers == AllStreams \cup {StdIn}

VARIABLES
    call,         \* the call, one of Calls
    pc,           \* where the caller is
    completion,   \* how the child ended, once known
    result,       \* what the call has returned
    leader,       \* the child; "vanished": the kernel has reaped it
    helper,       \* a descendant of the child
    killed,       \* a signal of the caller has ended the leader
    pid,          \* whose process group has the number of the child
    hit,          \* the caller has signalled a group of strangers
    todo,         \* what the leader has still to write
    pipe,         \* what is in the pipe of each stream
    inleft,       \* input that the writer has not written
    inpipe,       \* input that nobody has read
    worker,       \* the threads
    grace,        \* the second that a thread goes on after the child is gone
    finished, cancelled, late

Timed == call.timed
Output == call.output
Input == call.input
Env == call.env
Streams == DOMAIN Output
Workers == Streams \cup {StdIn}

callVars == <<call, pc, completion, result>>
childVars == <<leader, helper, killed, pid, hit, todo>>
pipeVars == <<pipe, inleft, inpipe>>
threadVars == <<worker, grace>>
flags == <<finished, cancelled, late>>
vars == <<callVars, childVars, pipeVars, threadVars, flags>>

(***************************************************************************)
(* SupervisionTypeOK: every variable has its type.                         *)
(***************************************************************************)
SupervisionTypeOK ==
    /\ call \in Calls
    /\ pc \in {"spawn", "setup", "observe", "decide", "cancelKill", "cancelTry", "cancelWait",
               "recheck", "kill", "killFailed", "killWait", "sweep", "reap", "join",
               "cleanKill", "cleanTry", "cleanWait", "done"}
    /\ completion \in {"none", "exited", "timedOut", "cancelled"}
    /\ result \in {"none", "exited", "timedOut", "cancelled", "failed"}
    /\ leader \in {"none", "running", "zombie", "reaped", "vanished"}
    /\ helper \in {"none", "group", "escaped", "dead"}
    /\ killed \in BOOLEAN /\ pid \in {"ours", "stranger"} /\ hit \in BOOLEAN
    /\ todo \in [Streams -> Nat] /\ \A s \in Streams : todo[s] <= Output[s]
    /\ pipe \in [Streams -> 0..Capacity]
    /\ inleft \in 0..Input /\ inpipe \in 0..Capacity
    /\ worker \in [Workers -> {"none", "go", "got", "blocked", "ok", "broken", "expired"}]
    /\ grace \in [Workers -> {"unset", "running", "over"}]
    /\ finished \in BOOLEAN /\ cancelled \in BOOLEAN /\ late \in BOOLEAN

SupervisionInit ==
    /\ call \in Calls
    /\ pc = "spawn" /\ completion = "none" /\ result = "none"
    /\ leader = "none" /\ helper = "none" /\ killed = FALSE /\ pid = "ours" /\ hit = FALSE
    /\ todo = Output /\ pipe = [s \in Streams |-> 0] /\ inleft = Input /\ inpipe = 0
    /\ worker = [w \in Workers |-> "none"] /\ grace = [w \in Workers |-> "unset"]
    /\ finished = FALSE /\ cancelled = FALSE /\ late = FALSE

Alive == leader = "running" \/ helper \in {"group", "escaped"}

Ended == {"ok", "broken", "expired"}

Goto(step) == pc' = step /\ UNCHANGED <<call, completion, result>>

Return(kind) == pc' = "done" /\ result' = kind /\ UNCHANGED <<call, completion>>

-----------------------------------------------------------------------------
(***************************************************************************)
(* The kernel.                                                             *)
(***************************************************************************)

\* What is left of the leader when it ends.
Remains == {"zombie"} \cup (IF "autoreap" \in Env THEN {"vanished"} ELSE {})

\* kill_process_group with SIGKILL.  A refusal leaves everything as it is; a
\* group that does not exist is no error.
Signalled ==
    IF pid = "stranger"
    THEN hit' = TRUE /\ UNCHANGED <<leader, helper, killed, pid, todo>>
    ELSE /\ leader' \in IF leader = "running" THEN Remains ELSE {leader}
         /\ killed' = (killed \/ leader = "running")
         /\ helper' = IF helper = "group" THEN "dead" ELSE helper
         /\ UNCHANGED <<pid, hit, todo>>

Refused == "darwin" \in Env /\ leader = "zombie" /\ helper # "group" /\ UNCHANGED childVars

\* The number of a process that nobody can wait for is free once its group is empty.
Recycle ==
    /\ leader \in {"reaped", "vanished"} /\ helper # "group" /\ pid = "ours"
    /\ pid' = "stranger"
    /\ UNCHANGED <<callVars, leader, helper, killed, hit, todo, pipeVars, threadVars, flags>>

\* child.wait: the status is taken from the zombie, or was taken before.
Wait == /\ leader \in {"zombie", "reaped"} /\ leader' = "reaped"
        /\ UNCHANGED <<helper, killed, pid, hit, todo>>

WaitFails == leader = "vanished" /\ UNCHANGED childVars

\* child.try_wait
TryWait == IF leader = "zombie" THEN Wait ELSE UNCHANGED childVars

-----------------------------------------------------------------------------
(***************************************************************************)
(* The call.                                                               *)
(***************************************************************************)

\* check_cancellation, then spawn.
Spawn ==
    /\ pc = "spawn" /\ UNCHANGED <<pipeVars, threadVars, flags>>
    /\ \/ cancelled /\ Return("failed") /\ UNCHANGED childVars
       \/ /\ ~ cancelled /\ leader' = "running" /\ Goto("setup")
          /\ UNCHANGED <<helper, killed, pid, hit, todo>>
       \/ ~ cancelled /\ "fault" \in Env /\ Return("failed") /\ UNCHANGED childVars

\* prepare_capture_pipe, and the threads; abort_after_setup_error.
Setup ==
    /\ pc = "setup" /\ UNCHANGED <<childVars, pipeVars, grace, flags>>
    /\ \/ worker' = [w \in Workers |-> IF w = StdIn /\ Input = 0 THEN "none" ELSE "go"]
          /\ Goto("observe")
       \/ "fault" \in Env /\ Goto("cleanKill") /\ UNCHANGED worker

\* observe_unix_exit, which does not reap; without a deadline it blocks.
Observed(ifRunning) ==
    /\ UNCHANGED <<childVars, pipeVars, threadVars, flags>>
    /\ \/ leader = "running" /\ Goto(ifRunning)
       \/ leader = "zombie" /\ Goto("sweep")
       \/ leader = "vanished" /\ Goto("cleanKill")

Observe == pc = "observe" /\ (Timed \/ leader # "running") /\ Observed("decide")

\* Cancellation before the deadline, the deadline before another poll.
Decide ==
    /\ pc = "decide" /\ UNCHANGED <<childVars, pipeVars, threadVars, flags>>
    /\ \/ cancelled /\ Goto("cancelKill")
       \/ ~ cancelled /\ late /\ Goto("recheck")
       \/ ~ cancelled /\ ~ late /\ Goto("observe")

Recheck == pc = "recheck" /\ Observed("kill")

KillFailed == pc = "killFailed" /\ Observed("cleanKill")

Kill(at, onOk, onError) ==
    /\ pc = at /\ UNCHANGED <<pipeVars, threadVars, flags>>
    /\ \/ Signalled /\ Goto(onOk)
       \/ Refused /\ Goto(onError)

KillAtDeadline == Kill("kill", "killWait", "killFailed")

\* terminate_and_reap on cancellation, and again for every error of the wait.
TerminateCancelled == Kill("cancelKill", "cancelWait", "cancelTry")

Terminate == Kill("cleanKill", "cleanWait", "cleanTry")

Completed(how) == pc' = "join" /\ completion' = how /\ UNCHANGED <<call, result>>

ReapKilled ==
    /\ pc = "killWait" /\ UNCHANGED <<pipeVars, threadVars, flags>>
    /\ \/ Wait /\ Completed("timedOut")
       \/ WaitFails /\ Goto("cleanKill")

ReapCancelled ==
    /\ pc = "cancelWait" /\ UNCHANGED <<pipeVars, threadVars, flags>>
    /\ \/ Wait /\ Completed("cancelled")
       \/ WaitFails /\ Goto("cleanKill")

\* After a refused signal the errors of the cleanup are the error of the wait.
TryCancelled ==
    /\ pc = "cancelTry" /\ TryWait /\ Goto("cleanKill")
    /\ UNCHANGED <<pipeVars, threadVars, flags>>

\* A bug: the leader is reaped first.
SweepReaped ==
    /\ pc = "sweep" /\ UNCHANGED <<pipeVars, threadVars, flags>>
    /\ \/ leader = "zombie" /\ Wait /\ Goto("sweep")
       \/ leader = "reaped" /\ Signalled /\ Goto("reap")

\* A bug: the group is left alone.
SweepNothing ==
    pc = "sweep" /\ UNCHANGED <<childVars, pipeVars, threadVars, flags>> /\ Goto("reap")

\* sweep_exited_process_group: a refusal is no error.
Sweep == Kill("sweep", "reap", "reap")

\* child.wait in finish_unix_exit
Reap ==
    pc = "reap" /\ Wait /\ Completed("exited") /\ UNCHANGED <<pipeVars, threadVars, flags>>

\* The end of a failed call: the threads are left to themselves.
GiveUp ==
    /\ \/ pc = "cleanWait" /\ (Wait \/ WaitFails)
       \/ pc = "cleanTry" /\ TryWait
    /\ finished' = TRUE /\ Return("failed")
    /\ UNCHANGED <<pipeVars, threadVars, cancelled, late>>

FinishFlag ==
    /\ pc = "join" /\ ~ finished /\ finished' = TRUE
    /\ UNCHANGED <<callVars, childVars, pipeVars, threadVars, cancelled, late>>

\* A bug: input that a child did not take is forgiven after a normal exit too.
JoinWorkersForgiving ==
    /\ pc = "join" /\ finished /\ \A w \in Workers : worker[w] \in Ended \cup {"none"}
    /\ Return(IF \E w \in Workers : worker[w] = "expired" THEN "failed" ELSE completion)
    /\ UNCHANGED <<childVars, pipeVars, threadVars, flags>>

\* join_workers: a broken stdin is an error only after a normal exit.
JoinWorkers ==
    /\ pc = "join" /\ finished /\ \A w \in Workers : worker[w] \in Ended \cup {"none"}
    /\ Return(IF \/ \E w \in Workers : worker[w] = "expired"
                 \/ worker[StdIn] = "broken" /\ completion = "exited"
              THEN "failed" ELSE completion)
    /\ UNCHANGED <<childVars, pipeVars, threadVars, flags>>

CallStep ==
    \/ Spawn \/ Setup \/ Observe \/ Decide \/ Recheck \/ KillAtDeadline \/ KillFailed
    \/ TerminateCancelled \/ TryCancelled \/ ReapCancelled \/ ReapKilled
    \/ Sweep \/ Reap \/ Terminate \/ GiveUp \/ FinishFlag \/ JoinWorkers

-----------------------------------------------------------------------------
(***************************************************************************)
(* The threads.                                                            *)
(***************************************************************************)
ThreadOnly == UNCHANGED <<callVars, childVars, flags>>

Moves(w, state) == worker' = [worker EXCEPT ![w] = state]

\* A bug: the second stream waits for the end of the first.
DrainInTurn(s) ==
    /\ worker[s] = "go" /\ UNCHANGED <<grace, inleft, inpipe>> /\ ThreadOnly
    /\ s = "stderr" => worker["stdout"] \in Ended
    /\ \/ pipe[s] > 0 /\ pipe' = [pipe EXCEPT ![s] = @ - 1] /\ Moves(s, "got")
       \/ pipe[s] = 0 /\ Alive /\ Moves(s, "blocked") /\ UNCHANGED pipe
       \/ pipe[s] = 0 /\ ~ Alive /\ Moves(s, "ok") /\ UNCHANGED pipe

\* drain_bounded: read; what the end of a stream is, is decided by the writers.
Drain(s) ==
    /\ worker[s] = "go" /\ UNCHANGED <<grace, inleft, inpipe>> /\ ThreadOnly
    /\ \/ pipe[s] > 0 /\ pipe' = [pipe EXCEPT ![s] = @ - 1] /\ Moves(s, "got")
       \/ pipe[s] = 0 /\ Alive /\ Moves(s, "blocked") /\ UNCHANGED pipe
       \/ pipe[s] = 0 /\ ~ Alive /\ Moves(s, "ok") /\ UNCHANGED pipe

\* check_pipe_deadline: the second begins when the thread sees the flag.
Noticed(w) ==
    grace' = IF finished /\ grace[w] = "unset" THEN [grace EXCEPT ![w] = "running"] ELSE grace

\* check_capture_deadline, and wait_for_io: a stream without writers is drained.
CheckDeadline(s) ==
    /\ worker[s] \in {"got", "blocked"} /\ UNCHANGED pipeVars /\ ThreadOnly /\ Noticed(s)
    /\ Moves(s, IF grace[s] = "over" /\ Alive THEN "expired" ELSE "go")

\* write_complete
WriteInput ==
    /\ worker[StdIn] = "go" /\ UNCHANGED pipe /\ ThreadOnly /\ Noticed(StdIn)
    /\ \/ inleft = 0 /\ Moves(StdIn, "ok") /\ UNCHANGED <<inleft, inpipe>>
       \/ /\ inleft > 0 /\ grace[StdIn] = "over"
          /\ Moves(StdIn, "expired") /\ UNCHANGED <<inleft, inpipe>>
       \/ /\ inleft > 0 /\ grace[StdIn] # "over" /\ ~ Alive
          /\ Moves(StdIn, "broken") /\ UNCHANGED <<inleft, inpipe>>
       \/ /\ inleft > 0 /\ grace[StdIn] # "over" /\ Alive /\ UNCHANGED worker
          /\ IF inpipe < Capacity THEN inleft' = inleft - 1 /\ inpipe' = inpipe + 1
                                  ELSE UNCHANGED <<inleft, inpipe>>

GraceEnds(w) ==
    /\ w \in Workers /\ grace[w] = "running" /\ grace' = [grace EXCEPT ![w] = "over"]
    /\ UNCHANGED <<callVars, childVars, pipeVars, worker, flags>>

-----------------------------------------------------------------------------
(***************************************************************************)
(* The child, its helper, and the world.                                   *)
(***************************************************************************)
ChildOnly == UNCHANGED <<callVars, threadVars, flags>>

LeaderWrites(s) ==
    /\ leader = "running" /\ todo[s] > 0 /\ pipe[s] < Capacity
    /\ todo' = [todo EXCEPT ![s] = @ - 1] /\ pipe' = [pipe EXCEPT ![s] = @ + 1]
    /\ UNCHANGED <<leader, helper, killed, pid, hit, inleft, inpipe>> /\ ChildOnly

LeaderReads ==
    /\ leader = "running" /\ inpipe > 0 /\ inpipe' = inpipe - 1
    /\ UNCHANGED <<childVars, pipe, inleft>> /\ ChildOnly

\* The leader ends when it has done its work, or at any time on an error.
LeaderExits ==
    /\ leader = "running" /\ leader' \in Remains
    /\ UNCHANGED <<helper, killed, pid, hit, todo, pipeVars>> /\ ChildOnly

LeaderForks ==
    /\ "helper" \in Env /\ leader = "running" /\ helper = "none" /\ helper' = "group"
    /\ UNCHANGED <<leader, killed, pid, hit, todo, pipeVars>> /\ ChildOnly

HelperWrites(s) ==
    /\ helper \in {"group", "escaped"} /\ pipe[s] < Capacity
    /\ pipe' = [pipe EXCEPT ![s] = @ + 1]
    /\ UNCHANGED <<childVars, inleft, inpipe>> /\ ChildOnly

\* The helper leaves the group, or ends.
HelperMoves ==
    /\ \/ "escape" \in Env /\ helper = "group" /\ helper' = "escaped"
       \/ helper \in {"group", "escaped"} /\ helper' = "dead"
    /\ UNCHANGED <<leader, killed, pid, hit, todo, pipeVars>> /\ ChildOnly

DeadlinePasses ==
    /\ Timed /\ ~ late /\ late' = TRUE
    /\ UNCHANGED <<callVars, childVars, pipeVars, threadVars, finished, cancelled>>

Cancel ==
    /\ Timed /\ "cancel" \in Env /\ ~ cancelled /\ cancelled' = TRUE
    /\ UNCHANGED <<callVars, childVars, pipeVars, threadVars, finished, late>>

Thread(w) == (w \in Streams /\ (Drain(w) \/ CheckDeadline(w))) \/ (w = StdIn /\ WriteInput)

LeaderStep ==
    \/ \E s \in Streams : LeaderWrites(s)
    \/ LeaderReads
    \/ LeaderExits /\ (\A s \in Streams : todo[s] = 0) /\ inleft + inpipe = 0

SupervisionNext ==
    \/ CallStep
    \/ \E w \in Workers : Thread(w) \/ GraceEnds(w)
    \/ \E s \in Streams : LeaderWrites(s) \/ HelperWrites(s)
    \/ LeaderReads \/ LeaderExits \/ LeaderForks \/ HelperMoves
    \/ Recycle \/ DeadlinePasses \/ Cancel
    \/ pc = "done" /\ UNCHANGED vars

SupervisionSpec == SupervisionInit /\ [][SupervisionNext]_vars

\* The caller, the threads and the clock go on; a child need not.
SupervisionFairness ==
    /\ WF_vars(CallStep) /\ WF_vars(DeadlinePasses)
    /\ \A w \in AllWorkers : WF_vars(Thread(w)) /\ WF_vars(GraceEnds(w))

\* A child that does its work and ends, as far as its pipes let it: a writer
\* gets its turn in a pipe that has room again and again.
WorkingChild == SF_vars("works" \in Env /\ LeaderStep)

SupervisionLiveSpec == SupervisionSpec /\ SupervisionFairness /\ WorkingChild

-----------------------------------------------------------------------------
(***************************************************************************)
(* SignalsOwnGroup: "Unix cleanup must therefore signal the original group *)
(* while its leader is still waitable": no signal of the call ever reaches *)
(* a group that has got the child's number after it, on a system that      *)
(* never refuses the signal and lets the caller wait for its child.        *)
(***************************************************************************)
SignalsOwnGroup == Env \cap {"darwin", "autoreap"} = {} => ~ hit

(***************************************************************************)
(* NobodyLeft: a call that returns a status has reaped the child, nothing  *)
(* of its process group is alive, and its output has been read to the end: *)
(* the pipes are empty and nobody can write to them any more.              *)
(***************************************************************************)
NobodyLeft ==
    result \in {"exited", "timedOut", "cancelled"} =>
        /\ leader = "reaped" /\ helper # "group"
        /\ Streams # {} => ~ Alive /\ \A s \in Streams : pipe[s] = 0

(***************************************************************************)
(* OutcomeOfChild: the outcome says what has happened.  An exit is the     *)
(* child's own and its input was delivered, a time-out comes after the     *)
(* deadline, a cancellation was asked for.                                 *)
(***************************************************************************)
OutcomeOfChild ==
    /\ result = "exited" => ~ killed /\ inleft = 0
    /\ result = "timedOut" => late
    /\ result = "cancelled" => cancelled

(***************************************************************************)
(* CallReturns: a call with a deadline returns, whatever the child and     *)
(* what it has started do, and so does every thread of its pipes.          *)
(***************************************************************************)
CallReturns ==
    Timed => <>(pc = "done" /\ \A w \in Workers : worker[w] \in Ended \cup {"none"})

(***************************************************************************)
(* WorkIsDrained: without a deadline the call returns when the child can   *)
(* do its work, which it can: whatever it writes and reads, no pipe stops  *)
(* it for ever.                                                            *)
(***************************************************************************)
WorkIsDrained == "works" \in Env => <>(pc = "done")
=============================================================================
