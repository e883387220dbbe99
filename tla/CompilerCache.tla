---------------------------- MODULE CompilerCache ----------------------------
(***************************************************************************)
(* The local namespaces of compiler caches                                 *)
(* (aros-cache/src/compiler_lifecycle.rs, aros-cli/src/cache/compiler.rs): *)
(* an empty directory is prepared for one backend, builds use it under a   *)
(* shared lease, and `clear` and `reset-stats` change it under an          *)
(* exclusive one, with the token of an earlier preview.                    *)
(*                                                                         *)
(* The locks are never waited for, and the directory is validated before   *)
(* they are taken.  Commands may fail or die at every step.  The server of *)
(* sccache outlives the build that has started it and stores what it has   *)
(* compiled whenever it likes; so do the compilers of a build that died.   *)
(* The identity of the data directory, which the token also binds, is left *)
(* out.                                                                    *)
(***************************************************************************)
EXTENDS Naturals, Sequences

CONSTANTS
    Roots,      \* directories of namespaces
    Scenes      \* [does, stock, writes]: what the commands do ([op, choice, root]), what the directories
                \* are to begin with, and a bound on how often something is stored

VARIABLES
    does,       \* what each command does
    pc,         \* where it is
    tries,      \* the backends that it still has to try
    shown,      \* the outputs that its preview has shown
    measured,   \* the outputs in the snapshot that it removes
    entries,    \* the names in each root
    owner,      \* the backend of its ownership marker
    config,     \* the backend its configuration was generated for
    held,       \* the outputs in its data directory
    server,     \* external: its sccache server
    orphans,    \* external: compilers of a build that died may still run
    writes      \* how often something may still be stored

compilerVars ==
    <<does, pc, tries, shown, measured, entries, owner, config, held, server, orphans, writes>>

Backends == {"sccache", "ccache"}
None == "none"
Commands == DOMAIN does
Op(c) == does[c].op
Backend(c) == Head(tries[c])
Root(c) == does[c].root[Backend(c)]
Ended == {"refused", "uncached", "existing", "created", "done", "dead"}

\* A directory that somebody else uses, one that was prepared, an empty one, or none.
Stock == {"foreign", "empty", "absent"} \cup Backends

\* The candidates of a choice.
Candidates(choice) == IF choice = "auto" THEN <<"sccache", "ccache">> ELSE <<choice>>

Prepared == {"root", "control", "config", "data"}

CompilerInit ==
    \E s \in Scenes :
        LET kind == s.stock IN
        /\ does = s.does /\ writes = s.writes
        /\ pc = [c \in Commands |-> "start"]
        /\ tries = [c \in Commands |-> Candidates(does[c].choice)]
        /\ shown = [c \in Commands |-> {}] /\ measured = [c \in Commands |-> {}]
        /\ entries = [r \in Roots |-> IF kind[r] \in Backends THEN Prepared
                                      ELSE IF kind[r] = "foreign" THEN {"root", "other"}
                                      ELSE IF kind[r] = "empty" THEN {"root"} ELSE {}]
        /\ owner = [r \in Roots |-> IF kind[r] \in Backends THEN kind[r] ELSE None]
        /\ config = owner
        /\ held = [r \in Roots |-> IF kind[r] \in Backends THEN {0} ELSE {}]
        /\ server = [r \in Roots |-> None] /\ orphans = [r \in Roots |-> FALSE]

CompilerTypeOK ==
    /\ entries \in [Roots -> SUBSET (Prepared \cup {"socket", "other"})]
    /\ {owner[r] : r \in Roots} \cup {config[r] : r \in Roots} \subseteq Backends \cup {None}
    /\ server \in [Roots -> {None, "up", "stopping"}]
    /\ held \in [Roots -> SUBSET Nat] /\ orphans \in [Roots -> BOOLEAN]

-----------------------------------------------------------------------------
(* What a command reads, and the locks. *)

Layout(b) == IF b = "sccache" THEN Prepared \cup {"socket"} ELSE Prepared

\* load_managed_compiler_cache.  A directory without a marker counts as not prepared.
Load(b, r) ==
    IF owner[r] = None THEN "missing"
    ELSE IF owner[r] = b /\ config[r] = b /\ Prepared \subseteq entries[r] /\ entries[r] \subseteq Layout(b)
    THEN "valid" ELSE "invalid"

Loads(c) == Load(Backend(c), Root(c))

Shared(r) == {c \in Commands : tries[c] # <<>> /\ Root(c) = r /\ pc[c] = "leased"}

Mutating ==
    {"locked", "confirmed", "probing", "clearing", "removing", "removed", "finishing"}

Exclusive(r) == {c \in Commands : tries[c] # <<>> /\ Root(c) = r /\ pc[c] \in Mutating}

Preparing(r) ==
    {c \in Commands : tries[c] # <<>> /\ Root(c) = r /\ pc[c] \in {"preparing", "checked", "furnished", "configured"}}

Goto(c, l) == pc' = [pc EXCEPT ![c] = l]
Has(r, names) == entries' = [entries EXCEPT ![r] = @ \cup names]
Lacks(r, name) == entries' = [entries EXCEPT ![r] = @ \ {name}]

mine == <<does, tries, shown, measured>>
markers == <<owner, config>>
outside == <<held, server, orphans, writes>>

-----------------------------------------------------------------------------
(* prepare_managed_compiler_cache *)

Prepare(c) ==
    /\ Op(c) = "prepare" /\ pc[c] = "start"
    /\ Goto(c, CASE Loads(c) = "valid" -> "existing"
                 [] Loads(c) = "missing" -> "missing"
                 [] OTHER -> "refused")
    /\ UNCHANGED <<mine, entries, markers, outside>>

\* Only an empty directory is taken, and it is made if there is none.
ClaimRoot(c) ==
    /\ pc[c] = "missing"
    /\ Has(Root(c), {"root"})
    /\ Goto(c, IF entries[Root(c)] \subseteq {"root"} THEN "empty" ELSE "refused")
    /\ UNCHANGED <<mine, markers, outside>>

LockControl(c) ==
    /\ pc[c] = "empty"
    /\ Has(Root(c), {"control"})
    /\ Goto(c, IF Preparing(Root(c)) = {} THEN "preparing" ELSE "refused")
    /\ UNCHANGED <<mine, markers, outside>>

Recheck(c) ==
    /\ pc[c] = "preparing"
    /\ Goto(c, IF entries[Root(c)] = {"root", "control"} THEN "checked" ELSE "refused")
    /\ UNCHANGED <<mine, entries, markers, outside>>

MakeData(c) ==
    /\ pc[c] = "checked"
    /\ Has(Root(c), {"data"}) /\ Goto(c, "furnished")
    /\ UNCHANGED <<mine, markers, outside>>

\* No file is replaced.
PublishConfiguration(c) ==
    LET r == Root(c) IN
    /\ pc[c] = "furnished"
    /\ IF "config" \in entries[r] THEN Goto(c, "refused") /\ UNCHANGED <<entries, config>>
       ELSE Goto(c, "configured") /\ Has(r, {"config"}) /\ config' = [config EXCEPT ![r] = Backend(c)]
    /\ UNCHANGED <<mine, owner, outside>>

PublishOwnership(c) ==
    LET r == Root(c) IN
    /\ pc[c] = "configured"
    /\ IF owner[r] # None THEN Goto(c, "refused") /\ UNCHANGED owner
       ELSE Goto(c, "created") /\ owner' = [owner EXCEPT ![r] = Backend(c)]
    /\ UNCHANGED <<mine, entries, config, outside>>

-----------------------------------------------------------------------------
(* A build, or the query of statistics, under a shared lease. *)

Pass(c) == IF does[c].choice = "auto" THEN tries' = [tries EXCEPT ![c] = Tail(@)] /\ UNCHANGED pc
           ELSE Goto(c, "refused") /\ UNCHANGED tries

\* resolve_managed_compiler_cache_for_build, one candidate; its program may not be installed.
TryCandidate(c) ==
    /\ Op(c) \in {"build", "stats"} /\ pc[c] = "start"
    /\ IF tries[c] = <<>> THEN Goto(c, "uncached") /\ UNCHANGED tries
       ELSE \/ Loads(c) = "valid" /\ Goto(c, "loaded") /\ UNCHANGED tries
            \/ Loads(c) \in {"valid", "missing"} /\ Pass(c)
            \/ Loads(c) = "invalid" /\ Goto(c, "refused") /\ UNCHANGED tries
    /\ UNCHANGED <<does, shown, measured, entries, markers, outside>>

Lease(c) ==
    /\ pc[c] = "loaded"
    /\ Goto(c, IF Exclusive(Root(c)) = {} THEN "leased" ELSE "refused")
    /\ UNCHANGED <<mine, entries, markers, outside>>

\* External: an output is stored; what is missing of the data directory is made.
Store(r) ==
    /\ writes > 0 /\ writes' = writes - 1
    /\ held' = [held EXCEPT ![r] = @ \cup {writes}] /\ Has(r, {"data"})

\* External: a backend starts its server when there is none.
StartServer(r) ==
    IF owner[r] = "sccache" /\ server[r] = None
    THEN server' = [server EXCEPT ![r] = "up"] /\ Has(r, {"socket"})
    ELSE UNCHANGED <<server, entries>>

Compile(c) ==
    /\ pc[c] = "leased" /\ Op(c) = "build"
    /\ \/ Backend(c) = "ccache" /\ Store(Root(c)) /\ UNCHANGED server
       \/ Backend(c) = "sccache" /\ StartServer(Root(c)) /\ UNCHANGED <<held, writes>>
    /\ UNCHANGED <<mine, pc, markers, orphans>>

EndBuild(c) ==
    /\ pc[c] = "leased" /\ Goto(c, "done")
    /\ IF Op(c) = "stats" THEN StartServer(Root(c)) ELSE UNCHANGED <<server, entries>>
    /\ UNCHANGED <<mine, markers, held, orphans, writes>>

-----------------------------------------------------------------------------
(* clear and reset-stats: a preview, and the application of its token. *)

\* prepare_compiler_cache_mutation measures the data directory for a clear only.
Scope(c) == IF Op(c) = "clear" THEN held[Root(c)] ELSE {}

Preview(c) ==
    /\ Op(c) \in {"clear", "reset"} /\ pc[c] = "start"
    /\ IF Loads(c) = "valid" THEN Goto(c, "previewed") /\ shown' = [shown EXCEPT ![c] = Scope(c)]
       ELSE Goto(c, "refused") /\ UNCHANGED shown
    /\ UNCHANGED <<does, tries, measured, entries, markers, outside>>

\* begin_compiler_cache_mutation: an expired token, no namespace and any other holder end it.
LockMutation(c) ==
    /\ pc[c] = "previewed"
    /\ \/ Goto(c, IF Loads(c) = "valid" /\ Exclusive(Root(c)) \cup Shared(Root(c)) = {} THEN "locked" ELSE "refused")
       \/ Goto(c, "refused")
    /\ UNCHANGED <<mine, entries, markers, outside>>

ConfirmUncompared(c) ==
    /\ pc[c] = "locked"
    /\ measured' = [measured EXCEPT ![c] = Scope(c)]
    /\ Goto(c, IF Loads(c) = "valid" THEN "confirmed" ELSE "refused")
    /\ UNCHANGED <<does, tries, shown, entries, markers, outside>>

\* The token is made again under the lock, and compared.
Confirm(c) ==
    /\ pc[c] = "locked"
    /\ measured' = [measured EXCEPT ![c] = Scope(c)]
    /\ Goto(c, IF Loads(c) = "valid" /\ Scope(c) = shown[c] THEN "confirmed" ELSE "refused")
    /\ UNCHANGED <<does, tries, shown, entries, markers, outside>>

\* --zero-stats; the client of sccache may start the server for it.
ResetStats(c) ==
    /\ pc[c] = "confirmed" /\ Op(c) = "reset" /\ Goto(c, "finishing")
    /\ StartServer(Root(c))
    /\ UNCHANGED <<mine, markers, held, orphans, writes>>

\* ccache --clear
ClearCcache(c) ==
    /\ pc[c] = "confirmed" /\ Op(c) = "clear" /\ Backend(c) = "ccache" /\ Goto(c, "finishing")
    /\ held' = [held EXCEPT ![Root(c)] = {}]
    /\ UNCHANGED <<mine, entries, markers, server, orphans, writes>>

\* stop_private_sccache_server: a server that goes down no longer answers, but it may still store something.
StopServer(c) ==
    LET r == Root(c) IN
    /\ pc[c] = "confirmed" /\ Op(c) = "clear" /\ Backend(c) = "sccache"
    /\ IF "socket" \notin entries[r] THEN Goto(c, "clearing") /\ UNCHANGED server
       ELSE Goto(c, "probing") /\ server' = [server EXCEPT ![r] = IF @ = "up" THEN "stopping" ELSE @]
    /\ UNCHANGED <<mine, entries, markers, held, orphans, writes>>

\* remove_stopped_sccache_socket
RemoveSocket(c) ==
    /\ pc[c] = "probing" /\ server[Root(c)] # "up"
    /\ Lacks(Root(c), "socket") /\ Goto(c, "clearing")
    /\ UNCHANGED <<mine, markers, outside>>

\* remove_tree_from_snapshot_nofollow: the whole tree is compared, then its entries go one by one.
Compare(c) ==
    /\ pc[c] = "clearing"
    /\ Goto(c, IF "data" \in entries[Root(c)] /\ held[Root(c)] = measured[c] THEN "removing" ELSE "refused")
    /\ UNCHANGED <<mine, entries, markers, outside>>

RemoveOutput(c) ==
    LET r == Root(c) IN
    /\ pc[c] = "removing"
    /\ \/ \E e \in held[r] \cap measured[c] :
             held' = [held EXCEPT ![r] = @ \ {e}] /\ UNCHANGED <<pc, entries>>
       \/ /\ held[r] \cap measured[c] = {} /\ UNCHANGED held
          /\ IF held[r] = {} THEN Lacks(r, "data") /\ Goto(c, "removed")
             ELSE Goto(c, "refused") /\ UNCHANGED entries
    /\ UNCHANGED <<mine, markers, server, orphans, writes>>

RecreateData(c) ==
    /\ pc[c] = "removed" /\ Has(Root(c), {"data"}) /\ Goto(c, "finishing")
    /\ UNCHANGED <<mine, markers, outside>>

Finish(c) ==
    /\ pc[c] = "finishing" /\ Goto(c, IF Loads(c) = "valid" THEN "done" ELSE "refused")
    /\ UNCHANGED <<mine, entries, markers, outside>>

-----------------------------------------------------------------------------
(* External: what happens meanwhile. *)

\* A command fails or dies.  A build that dies may leave compilers behind.
Die(c) ==
    /\ pc[c] \notin Ended \cup {"start"} /\ Goto(c, "dead")
    /\ orphans' = IF pc[c] = "leased" THEN [orphans EXCEPT ![Root(c)] = TRUE] ELSE orphans
    /\ UNCHANGED <<mine, entries, markers, held, server, writes>>

StoreLate(r) ==
    /\ server[r] # None \/ (orphans[r] /\ owner[r] = "ccache")
    /\ Store(r) /\ UNCHANGED <<mine, pc, markers, server, orphans>>

\* The server ends, and leaves its socket behind or not.
ServerEnds(r) ==
    /\ server[r] # None /\ server' = [server EXCEPT ![r] = None]
    /\ UNCHANGED entries \/ Lacks(r, "socket")
    /\ UNCHANGED <<mine, pc, markers, held, orphans, writes>>

CompilerNext ==
    \/ \E c \in Commands :
          \/ Prepare(c) \/ ClaimRoot(c) \/ LockControl(c) \/ Recheck(c) \/ MakeData(c)
          \/ PublishConfiguration(c) \/ PublishOwnership(c)
          \/ TryCandidate(c) \/ Lease(c) \/ Compile(c) \/ EndBuild(c)
          \/ Preview(c) \/ LockMutation(c) \/ Confirm(c) \/ ResetStats(c) \/ ClearCcache(c)
          \/ StopServer(c) \/ RemoveSocket(c) \/ Compare(c) \/ RemoveOutput(c) \/ RecreateData(c)
          \/ Finish(c) \/ Die(c)
    \/ \E r \in Roots : StoreLate(r) \/ ServerEnds(r)

\* Nothing is left to do.
AllEnded == \A c \in Commands : pc[c] \in Ended

CompilerSpec == CompilerInit /\ [][CompilerNext]_compilerVars

-----------------------------------------------------------------------------
(* Properties. *)

\* The outputs a clear may take: what its preview has shown; what the compilers of a build that died
\* store in a ccache meanwhile cannot be told apart by `ccache --clear`.
Clearable(c, r) ==
    IF orphans[r] /\ owner[r] = "ccache" THEN held[r] ELSE shown[c]

\* ClearsPreviewed: an output leaves a compiler cache only through a clear that has shown it, while no
\* build has a lease, and a clear that reports success has taken away all that it has shown
\* (begin_compiler_cache_mutation, clear_sccache_data).
ClearsPreviewed ==
    [][/\ \A r \in Roots : held[r] \ held'[r] # {} =>
              /\ Shared(r) = {}
              /\ \E c \in Exclusive(r) : Op(c) = "clear" /\ held[r] \ held'[r] \subseteq Clearable(c, r)
       /\ \A c \in Commands : Op(c) = "clear" /\ pc[c] # pc'[c] /\ pc'[c] = "done" =>
              shown[c] \cap held[Root(c)] = {}]_compilerVars

\* OwnedWhole: a marker is there only with the configuration of its backend, never among files that
\* were there before, and a build under a lease uses the backend of the marker
\* (prepare_managed_compiler_cache publishes the marker last).
OwnedWhole ==
    \A r \in Roots :
        /\ owner[r] # None => config[r] = owner[r] /\ "other" \notin entries[r]
        /\ \A c \in Shared(r) : owner[r] = Backend(c)
=============================================================================
