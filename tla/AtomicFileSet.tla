---------------------------- MODULE AtomicFileSet ----------------------------
(***************************************************************************)
(* What a durable file set promises.  The files have one value.  A         *)
(* transaction is announced with everything it is going to change; later   *)
(* all of its changes happen in one step, or it is withdrawn and nothing   *)
(* has happened.  Each step may take its time to become durable: until it  *)
(* is, a power loss may lead back to a state before it, as a whole.        *)
(***************************************************************************)
EXTENDS Naturals

CONSTANTS Target, Txn, NoFile

VARIABLES
    now,    \* the files, and the transaction that is under way
    kept    \* the states that a power loss may leave

vars == <<now, kept>>

NoTxn == [txn |-> 0, plan |-> [t \in Target |-> "keep"]]

Init == now.intent = NoTxn /\ kept = {now}

Becomes(state) ==
    /\ now' = state
    /\ kept' \in {{state}, kept \cup {state}}

Announce ==
    /\ now.intent = NoTxn
    /\ \E k \in Txn, plan \in [Target -> {"keep", "write", "remove"}] :
          /\ plan # NoTxn.plan
          /\ \A t \in Target : now.value[t] # k
          /\ Becomes([now EXCEPT !.intent = [txn |-> k, plan |-> plan]])

Publish ==
    /\ now.intent # NoTxn
    /\ Becomes([value  |-> [t \in Target |-> IF now.intent.plan[t] = "write" THEN now.intent.txn
                                             ELSE IF now.intent.plan[t] = "remove" THEN NoFile
                                             ELSE now.value[t]],
                intent |-> NoTxn])

Withdraw ==
    /\ now.intent # NoTxn
    /\ Becomes([now EXCEPT !.intent = NoTxn])

Settle == now' = now /\ kept' = {now}

PowerLoss == now' \in kept /\ kept' = {now'}

Next == Announce \/ Publish \/ Withdraw \/ Settle \/ PowerLoss

Spec == Init /\ [][Next]_vars
=============================================================================
