-------------------------- MODULE MCCacheLifecycle --------------------------
(***************************************************************************)
(* Small instances of the two lifecycles of caches, side by side: two      *)
(* processes on closures of two objects, one of them a tree, or commands   *)
(* on the caches of the compilers.                                         *)
(***************************************************************************)
EXTENDS CacheLifecycle, TLC

CONSTANTS p1, p2, n1

TwoProcesses == {p1, p2}
OneName == {n1}

\* Processes are interchangeable.
Symmetric == Permutations(Process)

NoRelease == Kinds \ {"showRelease", "release"}
OneTree == {1}

VARIABLES
    part, commands, cpc, tries, shown, measured, entries, owner, config, held, server, orphans, writes

Cached(o, b, r) == [op |-> o, choice |-> b, root |-> [x \in {"sccache", "ccache"} |-> r]]

AnyCache == [op |-> "build", choice |-> "auto", root |-> "sccache" :> "s" @@ "ccache" :> "c"]

CacheScene(d, s, c, n) == [does |-> d, stock |-> "s" :> s @@ "c" :> c, writes |-> n]

\* A clear beside a build and any other command, two preparations of a directory, and a single one.
CacheScenes ==
    {CacheScene(<<Cached("clear", b, "s"), Cached("build", b, "s"), Cached(o, k, "s")>>, b, "absent", 2) :
        b \in {"sccache", "ccache"}, k \in {"sccache", "ccache"}, o \in {"clear", "stats", "reset"}}
        \cup {CacheScene(<<Cached("prepare", "sccache", "s"), Cached("prepare", b, "s"), AnyCache>>, k, d, 1) :
                 b \in {"sccache", "ccache"}, k \in {"absent", "empty", "foreign", "sccache"},
                 d \in {"ccache", "empty"}}
        \cup {CacheScene(<<Cached("prepare", "sccache", "s")>>, "empty", "absent", 0)}

Compiler == INSTANCE CompilerCache WITH
    Roots <- {"s", "c"}, Scenes <- CacheScenes, does <- commands, pc <- cpc

compilerVars ==
    <<commands, cpc, tries, shown, measured, entries, owner, config, held, server, orphans, writes>>

MCInit ==
    /\ part \in {"objects", "compiler"}
    /\ part # "objects" => object = [o \in Object |-> Absent]
    /\ Init
    /\ part # "compiler" => commands = <<Cached("prepare", "sccache", "s")>>
    /\ Compiler!CompilerInit

\* Only the tree is removed; the other object is used and kept with it, or alone.
OnlyTheTree == \A p \in Process : job'[p].kind \in {"preview", "remove"} => job'[p].objs \subseteq Tree

MCNext ==
    \/ part = "objects" /\ Next /\ OnlyTheTree /\ UNCHANGED <<part, compilerVars>>
    \/ part = "compiler" /\ Compiler!CompilerNext /\ UNCHANGED <<part, vars>>
    \/ part = "compiler" /\ Compiler!AllEnded /\ UNCHANGED <<part, vars, compilerVars>>

CachesSpec == MCInit /\ [][MCNext]_<<part, vars, compilerVars>>

(***************************************************************************)
(* What CompilerCache claims, under the names it has there.                *)
(***************************************************************************)

\* CompilerCacheSafe: a clear takes what it has shown and nothing else (ClearsPreviewed), and a namespace
\* with a marker is one whose preparation came to its end (OwnedWhole).
CompilerCacheSafe == Compiler!ClearsPreviewed /\ []Compiler!OwnedWhole
=============================================================================
