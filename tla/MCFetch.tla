------------------------------- MODULE MCFetch -------------------------------
(***************************************************************************)
(* Small instances of FetchEngine and of DirectCache, side by side: a      *)
(* behaviour is one of the first or one of the second.                     *)
(***************************************************************************)
EXTENDS FetchEngine, TLC

CONSTANTS a, b, c

Archive(sum) == [cands |-> <<"a.tar.gz">>, sum |-> ("a.tar.gz" :> sum),
                 origins |-> <<"remote", "local">>, refresh |-> FALSE]

\* A patch with a suffixed second candidate, from a local and a remote origin.
Patch == [cands |-> <<"p.patch", "p.patch.zip">>, sum |-> ("p.patch" :> "good" @@ "p.patch.zip" :> "none"),
          origins |-> <<"local", "remote">>, refresh |-> TRUE]

Fetches(d, items, force) ==
    [dest |-> d, base |-> "ports", items |-> items, extracts |-> TRUE, force |-> force, offline |-> FALSE]

\* Two commands for one destination: one knows the digest, one does not and replaces.
SameDestination ==
    [request |-> "p" :> Fetches("d", <<Archive("good")>>, FALSE) @@
                 "q" :> Fetches("d", <<Archive("none")>>, TRUE),
     answers |-> {"good", "other", "foreign"},
     env |-> {"edit", "touch", "timeout", "crash", "fault"}]

\* Two commands with patches for two destinations.
WithPatches ==
    [request |-> "p" :> Fetches("d", <<Archive("good"), Patch>>, FALSE) @@
                 "q" :> [Fetches("e", <<Archive("good"), Patch>>, FALSE)
                            EXCEPT !.offline = TRUE, !.extracts = FALSE],
     answers |-> {"good", "foreign"},
     env |-> {"crash"}]

\* Two commands that have only the archive in common; one keeps it as it is.
SharedArchive ==
    [request |-> "p" :> [Fetches("d", <<Archive("none")>>, FALSE) EXCEPT !.extracts = FALSE] @@
                 "q" :> [Fetches("e", <<Archive("good")>>, FALSE) EXCEPT !.base = "others"],
     answers |-> {"good", "other", "foreign"},
     env |-> {"timeout"}]

TwoCommands == {SameDestination, WithPatches, SharedArchive}

\* One command that declares nothing.
Undeclared ==
    {[request |-> "p" :> Fetches("d", <<Archive("none")>>, FALSE),
      answers |-> {"good", "foreign"},
      env |-> {"crash"}]}

VARIABLES part, shown, at, origin, attempt, arrived, integrity, result, held, places, deaths

directVars == <<shown, at, origin, attempt, arrived, integrity, result, held, places, deaths>>
all == <<part, vars, directVars>>

DirectScenes ==
    {[mode |-> a :> "archive" @@ b :> "canonical", offline |-> {}, seeds |-> {"wrong", "right"},
      env |-> {"crash", "timeout"}],
     [mode |-> a :> "archive" @@ b :> "measured", offline |-> {}, seeds |-> {"wrong", "right"},
      env |-> {"crash", "timeout", "seed"}],
     [mode |-> a :> "archive" @@ b :> "exact" @@ c :> "exact", offline |-> {a, c}, seeds |-> {"wrong"},
      env |-> {"crash"}]}

Direct == INSTANCE DirectCache WITH
    AllProcs <- {a, b, c}, Mirrors <- <<"local", "https">>, MaxCrashes <- 1, Scenes <- DirectScenes,
    scene <- shown, pc <- at, staged <- arrived, lock <- held, cache <- places, crashes <- deaths

ASSUME Direct!DirectAssumption

MCInit ==
    /\ FetchInit /\ Direct!DirectInit
    /\ part \in {"engine", "direct"}
    /\ part = "engine" => c \in DOMAIN shown.mode /\ places["location"] = "none"
    /\ part = "direct" => scene = SharedArchive

OfEngine(A) == part = "engine" /\ A /\ UNCHANGED <<part, directVars>>
OfDirect(A) == part = "direct" /\ A /\ UNCHANGED <<part, vars>>

MCNext == OfEngine(FetchNext) \/ OfDirect(Direct!DirectNext)

FetchRunSpec ==
    /\ MCInit /\ [][MCNext]_all
    /\ \A p \in Procs :
          WF_all(OfEngine(Step(p) /\ UNCHANGED scene)) /\ WF_all(OfEngine(Restart(p) /\ UNCHANGED scene))
    /\ \A p \in {a, b, c} : WF_all(OfDirect(p \in DOMAIN shown.mode /\ Direct!Step(p) /\ UNCHANGED shown))

\* UsesDeclared, ReturnsDeclared: what the engine has imported, and what a caller of the direct cache is
\* given, has the digest that was declared, whoever has put it into the cache.
ReturnsDeclared == UsesDeclared /\ Direct!ReturnsDeclared

\* FetchEnds, EverybodyReturns: every run of the engine ends, and every caller of the direct cache returns.
FetchesEnd == (part = "engine" => FetchEnds) /\ (part = "direct" => Direct!EverybodyReturns)
=============================================================================
