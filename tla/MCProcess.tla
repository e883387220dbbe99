------------------------------ MODULE MCProcess ------------------------------
(***************************************************************************)
(* Small instances of what runs in threads of its own, ProcessSupervision, *)
(* BoundedCapture and DiskClaim, side by side: a behaviour is one of one   *)
(* of them.                                                                *)
(***************************************************************************)
EXTENDS ProcessSupervision, BoundedCapture, DiskClaim

VARIABLE part

all == <<part, vars, capture, claimVars>>

OneOut == [s \in {"stdout"} |-> 1]

\* Of the two units of stderr the second does not fit into the pipe.
TwoErrors == [s \in AllStreams |-> IF s = "stderr" THEN 2 ELSE 1]

\* run_status_with_timeout captures nothing.
NoOutput == [s \in {} |-> 0]

SomeCalls ==
    {[timed |-> TRUE, output |-> OneOut, input |-> 2,
      env |-> {"cancel", "helper", "escape", "fault"}],
     [timed |-> TRUE, output |-> OneOut, input |-> 0,
      env |-> {"cancel", "helper", "escape", "fault", "darwin", "autoreap"}],
     [timed |-> TRUE, output |-> NoOutput, input |-> 0,
      env |-> {"helper", "escape", "darwin"}],
     [timed |-> FALSE, output |-> TwoErrors, input |-> 1, env |-> {"helper", "works"}]}

SmallLimits == 1..6

MCInit ==
    /\ SupervisionInit /\ CaptureInit /\ ClaimInit
    /\ part \in {"call", "capture", "claim"}
    /\ part # "capture" => limit = 1
    /\ part # "call" => Output = NoOutput

OfCall(A) == part = "call" /\ A /\ UNCHANGED <<part, capture, claimVars>>
OfClaim(A) == part = "claim" /\ A /\ UNCHANGED <<part, vars, capture>>

MCNext ==
    \/ OfCall(SupervisionNext)
    \/ part = "capture" /\ CaptureNext /\ UNCHANGED <<part, vars, claimVars>>
    \/ OfClaim(ClaimNext)

ProcessSpec ==
    /\ MCInit /\ [][MCNext]_all
    /\ WF_all(OfCall(CallStep)) /\ WF_all(OfCall(DeadlinePasses))
    /\ \A w \in AllWorkers : WF_all(OfCall(Thread(w))) /\ WF_all(OfCall(GraceEnds(w)))
    /\ SF_all(OfCall("works" \in Env /\ LeaderStep))
    /\ WF_all(OfClaim(WorkerStep)) /\ WF_all(OfClaim(Receive \/ WaitForRelease))
    /\ WF_all(OfClaim(AskRelease)) /\ WF_all(OfClaim(Detach))

\* CallReturns, WorkIsDrained: a call with a deadline returns, and so does every thread of its
\* pipes; without a deadline the call returns when the child can do its work.
\* ClaimEnds: a claim on a disk does not outlive its caller, who does not wait for ever.
CallsReturn ==
    /\ part = "call" => CallReturns /\ WorkIsDrained
    /\ part = "claim" => ClaimEnds
=============================================================================
