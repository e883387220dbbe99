----------------------------- MODULE MCDelivery -----------------------------
(***************************************************************************)
(* Small instances of what stands between the sources and a card, side by  *)
(* side: the archives of the sources, the vendored crates, the variables   *)
(* of the makefiles, a native build with its package, the store of         *)
(* toolchains, and the writing of an image.                                *)
(* A behaviour is one of one of them; the others do not start.             *)
(***************************************************************************)
EXTENDS SdCard, TLC

VARIABLES
    part,
    input, nodes, keys, expanded, status, output,
    lockFile, head, generation, kept, readers, holder, vpc, sel, staged, fresh, changes,
    marker, lock, host, snapshot, build, staging, published, receipts, package, edits, npc, ctx,
    does, tpc, seen, holds, there, tree, stray, selection, reference, guards, registered, leases,
    journals, todo, at, changed,
    file, scope, known, frames, halted, count, make

-----------------------------------------------------------------------------
\* Two cards that report the same, and one that is too small.
Reported == "a" :> "one" @@ "twin" :> "one" @@ "b" :> "two"

SomeScenes ==
    {[platform |-> "linux", commands |-> {"write"}, events |-> 3],
     [platform |-> "macos", commands |-> {"write"}, events |-> 2]}
        \cup {[platform |-> p, commands |-> {"unmount"}, events |-> 2] : p \in {"linux", "macos"}}
        \cup {[platform |-> "linux", commands |-> {"unmount", "write"}, events |-> 1]}

\* A name, the same in upper case and another one, in trees of two levels.
Tar == INSTANCE CanonicalTar WITH
    Names <- 1..3, Fold <- <<2, 2, 3>>, Sizes <- {0, 2},
    MaxEntries <- 4, MaxExpanded <- 5, MaxDepth <- 2, MaxInput <- 3

Vendor == INSTANCE VendorGenerations WITH
    Users <- {"fetch", "read", "keep"}, Does <- [u \in {"fetch", "read", "keep"} |-> u],
    Locks <- 1..2, Nobody <- "nobody", MaxChanges <- 2

\* A build, a resume, one of another recipe, and a packaging.
Native == INSTANCE NativeBuild WITH
    Commands <- {"build", "other", "resume", "package"},
    Kind <- "build" :> "build" @@ "other" :> "resume" @@ "resume" :> "resume" @@ "package" :> "package",
    RecipeOf <- "build" :> 1 @@ "other" :> 2 @@ "resume" :> 1 @@ "package" :> 1,
    Hosts <- 1..2, MaxEdits <- 2

\* Cleanups of the store beside every other command on it, some of them with people who edit.
Do(o, t) == [op |-> o, project |-> "p", target |-> t]

StoreScene(commands, stock, n) == [does |-> commands, stock |-> stock, edits |-> n]

Users == {Do("build", "i"), Do("register", "i"), Do("select", "r1"), Do("locked", "r1"), Do("import", "i")}

StoreScenes ==
    {StoreScene(<<Do("gc", "all"), d>>, {"i", "k"}, 1) : d \in Users}
        \cup {StoreScene(<<Do("gc", "all"), Do("build", "i")>>, {"i", "k"}, 2)}
        \cup {StoreScene(<<Do("remove", "i"), Do("build", "i"), d>>, {"i"}, 0) : d \in Users}
        \cup {StoreScene(<<Do("gc", "all"), Do("select", "r1"), Do("locked", "r1")>>, {"i"}, 0),
              StoreScene(<<Do("gc", "all"), Do("register", "i"), Do("register", "i")>>, {"i"}, 0)}

Store == INSTANCE ToolchainStore WITH
    Imports <- {"i", "k"}, Release <- "i" :> "r1" @@ "k" :> "r2", Projects <- {"p"},
    Releases <- {"r1", "r2"}, Scenes <- StoreScenes, pc <- tpc, lockFile <- selection, edits <- changed

(* Files of a few lines, out of all that may be in one. *)

Set(v, k, r) == [op |-> "assign", name |-> v, kind |-> k, rhs |-> r]
Test(o, t, n, i, x) == [op |-> o, test |-> t, name |-> n, is |-> i, not |-> x]

Sets ==
    {Set("X", k, r) : k \in {":=", "=", "?=", "+="}, r \in {<<"a">>, <<"Y">>}}
        \cup {Set("Y", k, r) : k \in {":=", "=", "?=", "+="}, r \in {<<"b">>, <<>>}}
        \cup {Set("X", ":=", <<"X", "b">>), Set("Y", "=", <<"U">>)}
        \cup {Set(v, "undefine", <<>>) : v \in {"X", "Y"}}

Structure == {[op |-> "else"], [op |-> "endif"], [op |-> "error"]}

\* Conditions on names that nobody knows, and on the names of the file.
Unknowns == {Test("if", "ifdef", "U", <<>>, FALSE), Test("elseif", "ifdef", "V", <<>>, TRUE)}
Decided ==
    {Test("if", "ifdef", "X", <<>>, FALSE), Test("if", "ifeq", "X", <<"b">>, TRUE),
     Test("elseif", "ifeq", "Y", <<>>, FALSE)}

Defines ==
    {[op |-> "define", name |-> "Y"], [op |-> "comment", name |-> "Y"],
     [op |-> "define dynamic", by |-> "U", name |-> "X", other |-> "Y"]}

AnyLines ==
    [context |-> TRUE, configured |-> {}, length |-> 4, assigned |-> {"X", "Y"},
     lines |-> Sets \cup Structure \cup Unknowns \cup Decided \cup Defines]

\* Fewer lines to choose from, but more of them.
Branches ==
    [AnyLines EXCEPT !.length = 6,
        !.lines = {Set("X", ":=", <<"a">>), Set("Y", ":=", <<"X">>), Set("X", "+=", <<"Y">>),
                   Test("if", "ifdef", "U", <<>>, FALSE), Test("elseif", "ifdef", "V", <<>>, TRUE),
                   Test("if", "ifeq", "Y", <<"a">>, FALSE), [op |-> "else"], [op |-> "endif"]}]

SomeFiles ==
    {AnyLines, Branches, [AnyLines EXCEPT !.context = FALSE, !.length = 3],
     [AnyLines EXCEPT !.configured = {"Y"}, !.lines = @ \ Decided]}

Scanner == INSTANCE MakeVars WITH Vars <- {"X", "Y"}, Outside <- {"U", "V"}, Scenes <- SomeFiles, scene <- file

-----------------------------------------------------------------------------
ASSUME Tar!TarAssumption /\ Store!StoreAssumption

tarVars == <<input, nodes, keys, expanded, status, output>>
vendorVars == <<lockFile, head, generation, kept, readers, holder, vpc, sel, staged, fresh, changes>>
nativeVars ==
    <<marker, lock, host, snapshot, build, staging, published, receipts, package, edits, npc, ctx>>
storeVars ==
    <<does, tpc, seen, holds, there, tree, stray, selection, reference, guards, registered, leases,
      journals, todo, at, changed>>
scanVars == <<file, scope, known, frames, halted, count, make>>
all == <<part, vars, tarVars, vendorVars, nativeVars, storeVars, scanVars>>

MCInit ==
    /\ part \in {"card", "archive", "vendor", "native", "store", "variables"}
    /\ part # "card" => /\ scene = [platform |-> "linux", commands |-> {"write"}, events |-> 3]
                        /\ where = [n \in Nodes |-> NoDisk]
    /\ SdInit
    /\ Tar!TarInit
    /\ part # "vendor" => lockFile = 1
    /\ Vendor!VendorInit
    /\ part # "native" => host = 1
    /\ Native!NativeInit
    /\ part # "store" => /\ does = <<Do("gc", "all"), Do("import", "i")>>
                         /\ selection = [p \in {"p"} |-> Store!NoLock]
    /\ Store!StoreInit
    /\ part # "variables" => file = AnyLines
    /\ Scanner!VarsInit

MCNext ==
    \/ part = "card" /\ SdNext
          /\ UNCHANGED <<part, tarVars, vendorVars, nativeVars, storeVars, scanVars>>
    \/ part = "archive" /\ Tar!TarNext
          /\ UNCHANGED <<part, vars, vendorVars, nativeVars, storeVars, scanVars>>
    \/ part = "vendor" /\ Vendor!VendorNext
          /\ UNCHANGED <<part, vars, tarVars, nativeVars, storeVars, scanVars>>
    \/ part = "native" /\ Native!NativeNext
          /\ UNCHANGED <<part, vars, tarVars, vendorVars, storeVars, scanVars>>
    \/ part = "store" /\ Store!StoreNext
          /\ UNCHANGED <<part, vars, tarVars, vendorVars, nativeVars, scanVars>>
    \/ part = "variables" /\ Scanner!VarsNext
          /\ UNCHANGED <<part, vars, tarVars, vendorVars, nativeVars, storeVars>>

DeliverySpec == MCInit /\ [][MCNext]_all

-----------------------------------------------------------------------------
(***************************************************************************)
(* What the modules claim, under the names it has there.                   *)
(***************************************************************************)

\* ReadsAsMake: a value that the transpiler reads is the one that GNU Make has at that line, in every
\* configuration (collect_vars_impl_with_forward_locals, variable_guard).
ReadsAsMake == part = "variables" => Scanner!ReadsAsMake

\* CanonicalArchives: an archive is accepted if and only if its entries are a portable tree together
\* (AcceptsPortable), and what canonicalize_tar_gzip packs depends on the tree alone (SameArchive).
CanonicalArchives == Tar!AcceptsPortable /\ Tar!SameArchive

\* ServesSelectedLock: what a command on vendor generations reports as verified, or keeps, holds the
\* packages of the lock file that it has selected.
ServesSelectedLock == Vendor!ServesSelectedLock

\* BuiltFromSnapshots: the compiler and the collector of a candidate were made from the snapshots of its
\* recipe, on one host, however many commands the native build took (PublishesWhatWasBuilt), and
\* package_finished_candidate packs the tree that was published (PackagesWhatWasFinished).
BuiltFromSnapshots == Native!PublishesWhatWasBuilt /\ Native!PackagesWhatWasFinished

\* LeasedWhole: a build that has its lease works with a whole import.
LeasedWhole == Store!LeasedWhole

\* RemovesUnused: remove and gc take out only what was shown, while nobody uses it.
RemovesUnused == Store!RemovesUnused
=============================================================================
