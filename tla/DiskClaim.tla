------------------------------ MODULE DiskClaim ------------------------------
(***************************************************************************)
(* The claim on a whole disk (aros-macos-disk-claim, platform.rs).  A      *)
(* worker thread owns everything that Disk Arbitration may call back into; *)
(* the caller waits for it with a limit, and may have gone long before the *)
(* daemon answers.  The daemon need never answer.                          *)
(***************************************************************************)
EXTENDS Naturals, Sequences

VARIABLES
    caller,        \* where ClaimHandle is
    commands,      \* the number of Release commands in the channel
    inbox,         \* the events that the caller has not received
    thread,        \* what the worker does next
    stopping, owns, \* its local variables cancelled and owns_claim
    callback,    \* CallbackState
    daemon,        \* what the daemon has done about the claim
    owned,         \* the daemon holds the disk for us
    rival          \* another session that wants the disk

claimVars == <<caller, commands, inbox, thread, stopping, owns, callback, daemon, owned, rival>>

\* The handle has been dropped: both channels are disconnected.
Gone == {"refused", "cancelled", "detached", "released"}

ClaimTypeOK ==
    /\ caller \in {"waiting", "cancelling", "held", "releasing"} \cup Gone
    /\ commands \in 0..1 /\ inbox \in Seq({"acquired", "failed", "released"})
    /\ thread \in {"setup", "poll", "pump", "take", "hold", "serve", "drop", "report", "fail", "ended"}
    /\ stopping \in BOOLEAN /\ owns \in BOOLEAN /\ owned \in BOOLEAN
    /\ callback \in {"pending", "acquired", "rejected"}
    /\ daemon \in {"idle", "asked", "granted", "dissents", "answered"}
    /\ rival \in {"no", "asks", "denied"}

ClaimInit ==
    /\ caller = "waiting" /\ commands = 0 /\ inbox = <<>>
    /\ thread = "setup" /\ stopping = FALSE /\ owns = FALSE
    /\ callback = "pending" /\ daemon = "idle" /\ owned = FALSE /\ rival = "no"

-----------------------------------------------------------------------------
(***************************************************************************)
(* The caller                                                              *)
(***************************************************************************)

ByCaller == UNCHANGED <<thread, stopping, owns, callback, daemon, owned, rival>>

\* ClaimHandle::acquire: the first event
Receive ==
    /\ caller = "waiting" /\ inbox # <<>> /\ inbox' = Tail(inbox)
    /\ caller' = IF Head(inbox) = "acquired" THEN "held" ELSE "refused"
    /\ UNCHANGED commands /\ ByCaller

\* The limit of acquire, and of the command that the handle was made for
AskRelease ==
    /\ \/ caller = "waiting" /\ inbox = <<>> /\ caller' = "cancelling"
       \/ caller = "held" /\ caller' = "releasing"
    /\ commands' = commands + 1 /\ UNCHANGED inbox /\ ByCaller

\* wait_for_release: a late Acquired or Failed is skipped.
WaitForRelease ==
    /\ caller \in {"cancelling", "releasing"} /\ inbox # <<>> /\ inbox' = Tail(inbox)
    /\ caller' = IF Head(inbox) # "released" THEN caller
                 ELSE IF caller = "cancelling" THEN "cancelled" ELSE "released"
    /\ UNCHANGED commands /\ ByCaller

\* RELEASE_TIMEOUT, or a worker that has failed meanwhile: the thread is detached.
Detach ==
    /\ caller \in {"cancelling", "releasing"} /\ caller' = "detached"
    /\ UNCHANGED <<commands, inbox>> /\ ByCaller

CallerStep == Receive \/ AskRelease \/ WaitForRelease \/ Detach

-----------------------------------------------------------------------------
(***************************************************************************)
(* The worker                                                              *)
(***************************************************************************)

ByWorker(step) == thread' = step /\ UNCHANGED caller

\* Nobody hears an event that is sent after the receiver was dropped.
Send(event) == inbox' = IF caller \in Gone THEN inbox ELSE Append(inbox, event)

\* ScheduledSession::create, create_exact_whole_disk, verify_unmounted, issue_claim
IssueClaim ==
    /\ thread = "setup"
    /\ \/ ByWorker("poll") /\ daemon' = "asked"
       \/ ByWorker("fail") /\ UNCHANGED daemon
    /\ UNCHANGED <<commands, inbox, stopping, owns, callback, owned, rival>>

\* release_requested takes the command out of the channel.
ReleaseRequested == commands > 0 \/ caller \in Gone
TakeCommand == commands' = IF commands > 0 THEN commands - 1 ELSE 0

Poll ==
    /\ thread = "poll" /\ ByWorker("pump") /\ TakeCommand
    /\ stopping' = (stopping \/ ReleaseRequested)
    /\ UNCHANGED <<inbox, owns, callback, daemon, owned, rival>>

\* A bug: a completion without looking for a dissenter.
AlwaysAcquired == callback' = "acquired"

\* claim_completion_callback
Completion == callback' = IF daemon = "dissents" THEN "rejected" ELSE "acquired"

\* pump_once: one source of the run loop is handled, if there is any; a
\* request to let the disk go is answered Busy (deny_release_callback).
PumpOnce ==
    \/ /\ daemon \in {"granted", "dissents"} /\ Completion /\ daemon' = "answered"
       /\ UNCHANGED rival
    \/ rival = "asks" /\ rival' = "denied" /\ UNCHANGED <<callback, daemon>>
    \/ /\ daemon \notin {"granted", "dissents"} /\ rival # "asks"
       /\ UNCHANGED <<callback, daemon, rival>>

Pump ==
    /\ \/ thread = "pump" /\ ByWorker("take")
       \/ thread = "serve" /\ ByWorker("hold")
    /\ PumpOnce /\ UNCHANGED <<commands, inbox, stopping, owns, owned>>

\* mark_acquired
MarkAcquired == owns' = TRUE

\* take_completion, and what run_claim_worker makes of it
TakeCompletion ==
    /\ thread = "take" /\ callback' = "pending"
    /\ \/ callback = "pending" /\ ByWorker("poll") /\ UNCHANGED <<owns, inbox>>
       \/ /\ callback = "rejected" /\ ByWorker(IF stopping THEN "drop" ELSE "fail")
          /\ UNCHANGED <<owns, inbox>>
       \/ /\ callback = "acquired" /\ MarkAcquired
          /\ IF stopping THEN ByWorker("drop") /\ UNCHANGED inbox
             ELSE Send("acquired") /\ ByWorker(IF caller \in Gone THEN "drop" ELSE "hold")
    /\ UNCHANGED <<commands, stopping, daemon, owned, rival>>

Hold ==
    /\ thread = "hold" /\ TakeCommand
    /\ ByWorker(IF ReleaseRequested THEN "drop" ELSE "serve")
    /\ UNCHANGED <<inbox, stopping, owns, callback, daemon, owned, rival>>

\* ClaimOperation::drop; a claim that is not owned is never given back.
Unclaim ==
    /\ thread = "drop" /\ ByWorker("report")
    /\ owned' = (owned /\ ~ owns)
    /\ UNCHANGED <<commands, inbox, stopping, owns, callback, daemon, rival>>

\* worker_main
Report ==
    /\ \/ thread = "report" /\ Send("released")
       \/ thread = "fail" /\ Send("failed")
    /\ ByWorker("ended")
    /\ UNCHANGED <<commands, stopping, owns, callback, daemon, owned, rival>>

WorkerStep == IssueClaim \/ Poll \/ Pump \/ TakeCompletion \/ Hold \/ Unclaim \/ Report

-----------------------------------------------------------------------------
(***************************************************************************)
(* Disk Arbitration                                                        *)
(***************************************************************************)

ByDaemon ==
    UNCHANGED <<caller, commands, inbox, thread, stopping, owns, callback>>

\* The claim holds from here, though the worker learns of it later.
Arbitrate ==
    /\ daemon = "asked"
    /\ \/ daemon' = "granted" /\ owned' = TRUE
       \/ daemon' = "dissents" /\ UNCHANGED owned
    /\ UNCHANGED rival /\ ByDaemon

Rival ==
    /\ owned /\ rival = "no" /\ rival' = "asks"
    /\ UNCHANGED <<daemon, owned>> /\ ByDaemon

ClaimNext ==
    \/ CallerStep \/ WorkerStep \/ Arbitrate \/ Rival
    \/ caller \in Gone /\ thread = "ended" /\ UNCHANGED claimVars

\* The threads go on; the daemon need not.
ClaimFairness ==
    /\ WF_claimVars(WorkerStep)
    /\ WF_claimVars(Receive \/ WaitForRelease) /\ WF_claimVars(AskRelease) /\ WF_claimVars(Detach)

ClaimSpec == ClaimInit /\ [][ClaimNext]_claimVars /\ ClaimFairness

-----------------------------------------------------------------------------
(***************************************************************************)
(* ClaimFollowsHandle: as long as the caller has the handle, the disk is   *)
(* claimed; and it is not when the caller was told that the claim failed   *)
(* or that it was given back.                                              *)
(***************************************************************************)
ClaimFollowsHandle ==
    /\ caller = "held" => owned
    /\ caller \in {"refused", "cancelled", "released"} => ~ owned

(***************************************************************************)
(* ClaimEnds: the caller gets to its end whatever the daemon does, and     *)
(* then no claim stays behind, also if the daemon grants it long after the *)
(* caller has given up waiting.                                            *)
(***************************************************************************)
ClaimEnds == <>[](caller \in Gone /\ ~ owned)
=============================================================================
