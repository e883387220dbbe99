-------------------------- MODULE MCToolchainStore --------------------------
(***************************************************************************)
(* Scenes in which the store of toolchains does something else than what   *)
(* is written about it.                                                    *)
(***************************************************************************)
EXTENDS ToolchainStore, TLC

ReleaseOf == "i" :> "r1"

Do(o, t) == [op |-> o, project |-> "p", target |-> t]

\* A selection that stops between its two files, and another one.
TwoSelections == {[does |-> <<Do("select", "r2"), Do("select", "r1")>>, stock |-> {}, edits |-> 0]}

\* What was removed is imported again.
ImportedAgain == {[does |-> <<Do("remove", "i"), Do("import", "i")>>, stock |-> {"i"}, edits |-> 0]}
=============================================================================
