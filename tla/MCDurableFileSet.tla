-------------------------- MODULE MCDurableFileSet --------------------------
(***************************************************************************)
(* Small instances of DurableFileSet, with its inductive invariant.        *)
(***************************************************************************)
EXTENDS DurableFileSetInv

CONSTANTS root, sub1, sub2

\* All targets beside the journal, or each in a directory of its own.
OneDir == {root}
OneDirectory == [t \in 1..2 |-> root]
SubDirs == {root, sub1, sub2}
SubDirectories == [t \in 1..2 |-> IF t = 1 THEN sub1 ELSE sub2]

\* Nothing fails, but processes die and the power is lost.
Deaths == INSTANCE DurableFileSet WITH Env <- {"crash", "powerloss"}

PowerSpec == (Init \/ Deaths!Init) /\ [][Next]_vars
=============================================================================
