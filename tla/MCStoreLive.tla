----------------------------- MODULE MCStoreLive -----------------------------
(***************************************************************************)
(* Small instances of FlatTree, of DurableFileSet and of CacheLifecycle    *)
(* (with releases of receipts), side by side, for what must happen in each *)
(* of them: a behaviour is one of the three, and the other two do not      *)
(* start.                                                                  *)
(***************************************************************************)
EXTENDS FlatTree

CONSTANTS root, sub1, sub2, NoFile, TornFile, Foreign, NoName, p1, p2, n1

TwoGens == {2, 3}
\* Once nobody else has been at the destination, calls need not succeed any more.
AloneOrNot == {{"fault", "crash", "powerloss"}, {"fault", "foreign"}}

VARIABLES
    part,
    ent, jent, views, disturb, at, mem, op, errs, purpose, txns, said,
    object, receipt, journals, written, step, job, shared, exclusive, tokens

Files == INSTANCE DurableFileSet WITH
    N <- 2, Dir <- {root, sub1, sub2}, JournalDir <- root, DirOf <- <<sub1, sub2>>,
    Torn <- TornFile, Env <- {"fault", "crash"}, MaxTxn <- 1,
    disk <- views, env <- disturb, pc <- at, idx <- op, result <- said

Cache == INSTANCE CacheLifecycle WITH
    Process <- {p1, p2}, Objects <- 1, Tree <- {1}, Name <- {n1}, MaxVersion <- 3,
    MaxTokens <- 1, Faults <- TRUE, pc <- step,
    Ops <- {"open", "fetch", "keep", "preview", "remove", "showRelease", "release"}

fileVars == <<ent, jent, views, disturb, at, mem, op, errs, purpose, txns, said>>
cacheVars == <<object, receipt, journals, written, step, job, shared, exclusive, tokens>>
all == <<part, treeVars, fileVars, cacheVars>>

MCInit ==
    /\ TreeInit /\ Files!Init /\ Cache!Init
    /\ part \in {"tree", "files", "cache"}
    /\ part # "tree" => gen = 2 /\ "foreign" \notin env
    /\ part # "files" => \A t \in 1..2 : ent[t].target = NoFile
    /\ part # "cache" => object = <<Cache!Absent>>

OfTree(A) == part = "tree" /\ A /\ UNCHANGED <<part, fileVars, cacheVars>>
OfFiles(A) == part = "files" /\ A /\ UNCHANGED <<part, treeVars, cacheVars>>
OfCache(A) == part = "cache" /\ A /\ UNCHANGED <<part, treeVars, fileVars>>

\* Only one of the two processes removes objects.
OneRemover == job'[p2].kind \notin {"preview", "remove"}

MCNext ==
    \/ OfTree(TreeNext \/ CalmDown)
    \/ OfFiles(Files!Next \/ Files!CalmDown)
    \/ OfCache(Cache!Next /\ OneRemover)

StoreLiveSpec ==
    /\ MCInit /\ [][MCNext]_all
    /\ WF_all(OfTree(CallStep))
    /\ WF_all(OfFiles(Files!SessionStep))
    /\ \A p \in {p1, p2} : WF_all(OfCache(Cache!Continue(p)))

\* RecoveryCompletes: once nothing disturbs it, recovery gets rid of the journal of a file set, and
\* further calls publish a complete flat tree and clean its stage (TreeAppears), whatever was interrupted.
RecoveryCompletes == Files!RecoveryCompletes /\ TreeAppears

\* ReleasesPreviewed: a release removes only the receipt that a preview of the same name has shown.
ReleasesPreviewed == Cache!ReleasesPreviewed

\* OperationsEnd: once no operation on the cache is begun any more, all of them return.
OperationsEnd == Cache!OperationsEnd
=============================================================================
