---------------------------- MODULE MCPublication ----------------------------
(***************************************************************************)
(* Small instances of Deployment and of FilePublication, and of the graph  *)
(* of targets in the transpiler, whose result is published so, side by     *)
(* side: a behaviour is one of one of them, and the others do not start.   *)
(***************************************************************************)
EXTENDS Deployment, TLC

CONSTANTS root, p1, p2, NoFile, Foreign, Torn

TwoProc == {p1, p2}
AnyOrder == Permutations(TwoProc)

VARIABLES
    part,
    ent, jent, views, env, step, mem, idx, errs, purpose, txns, said, want,
    given, meta, copies, aliases, outcome, selection

\* The target and its journal share their directory, as transaction_journal_path has it.
FileEnv == {"fault", "crash", "powerloss", "foreign"}

Files == INSTANCE FilePublication WITH
    N <- 1, Dir <- {root}, JournalDir <- root, DirOf <- [t \in 1..1 |-> root],
    Env <- FileEnv, MaxTxn <- 2, disk <- views, pc <- step, result <- said

\* The look at the file that was just published may fail, too.
Unreadable == INSTANCE FilePublication WITH
    N <- 1, Dir <- {root}, JournalDir <- root, DirOf <- [t \in 1..1 |-> root],
    Env <- FileEnv \cup {"reread"}, MaxTxn <- 2, disk <- views, pc <- step, result <- said

ASSUME Files!OneTarget

-----------------------------------------------------------------------------
(* All graphs of three targets, some of them with recursive copies. *)

CopyOf(n, d) == [name |-> n, deps |-> d]

CopyLists ==
    {<<>>, <<CopyOf("b", {})>>, <<CopyOf("a", {"e"})>>, <<CopyOf("b", {"c"})>>,
     <<CopyOf("a", {}), CopyOf("c", {"b"})>>, <<CopyOf("b", {}), CopyOf("b", {})>>}

Graphs ==
    [task : {"flatten"}, copies : CopyLists, outer : {"e"}]
        \cup {[task |-> "flatten", copies |-> <<CopyOf("a", {})>>, outer |-> "a!"]}
        \cup [task : {"validate", "select"}, copies : {<<>>}, outer : {"e"}]

Graph == INSTANCE MetaGraph WITH
    Sorted <- <<"a", "b", "c">>, Inputs <- Graphs, MaxWork <- 9,
    Private <- [n \in {"a", "b", "c"} |-> IF n = "a" THEN "a!" ELSE IF n = "b" THEN "b!" ELSE "c!"]

-----------------------------------------------------------------------------
fileVars == <<ent, jent, views, env, step, mem, idx, errs, purpose, txns, said, want>>
graphVars == <<given, meta, copies, aliases, outcome, selection>>
all == <<part, vars, fileVars, graphVars>>

NoTargets ==
    [task |-> "flatten", meta |-> [n \in {"a", "b", "c"} |-> {}], copies |-> <<>>, outer |-> "e"]

MCInit ==
    /\ part \in {"tree", "file", "targets"}
    /\ DeployInit
    /\ part # "tree" => bind[Dest] = NoTree
    /\ Files!FileInit \/ (part = "file" /\ Unreadable!FileInit)
    /\ part # "file" => Files!target = NoFile
    /\ part # "targets" => given = NoTargets
    /\ Graph!GraphInit

MCNext ==
    \/ part = "tree" /\ DeployNext /\ UNCHANGED <<part, fileVars, graphVars>>
    \/ part = "file" /\ Files!FileNext /\ UNCHANGED <<part, vars, graphVars>>
    \/ part = "targets" /\ Graph!GraphNext /\ UNCHANGED <<part, vars, fileVars>>

PublicationSpec == MCInit /\ [][MCNext]_all

(***************************************************************************)
(* What the modules claim, under the names it has there.                   *)
(***************************************************************************)

\* FileOutcome: what publish_atomic_file returned is so when it returns; and a published file is
\* replaced only under the journal of a replacement, which has moved aside what its caller measured
\* (PublishedStays).
FileOutcome == Files!FileOutcome /\ Files!PublishedStays

\* GraphsExact: flatten_meta_cycles takes out the circles and nothing else (Normalized), and
\* validate_cycles and select find what is there (TraversalsExact).
GraphsExact == part = "targets" => Graph!Normalized /\ Graph!TraversalsExact
=============================================================================
