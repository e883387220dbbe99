------------------------------ MODULE MetaGraph ------------------------------
(***************************************************************************)
(* The traversals of the transpiler's graph of #MM targets                 *)
(* (aros-transpiler/src/graph_meta.rs, metamake_owner_graph.rs), against   *)
(* reachability.                                                           *)
(*                                                                         *)
(* GNU Make drops an edge of a circular prerequisite, CMake refuses the    *)
(* circle.  flatten_meta_cycles removes the circles and gives every member *)
(* of one what all of them depend on; a recursive copy in a circle is      *)
(* moved to a private endpoint of its own.                                 *)
(***************************************************************************)
EXTENDS Naturals, FiniteSets, SequencesExt

CONSTANTS
    Sorted,     \* the names of the meta targets, in order
    Inputs,     \* [task, copies, outer]: an operation, recursive copies, and a name that no target has
    MaxWork,    \* limits.max_work
    Private     \* private_meta_copy_action

VARIABLES
    given,      \* the input, never changed: [task, meta, copies, outer]
    meta,       \* meta_targets
    copies,     \* copy_directories: a sequence of [name, deps]
    aliases,    \* lifted_copy_aliases
    outcome,    \* "none", or what the operation has returned
    selection   \* of select: [roots, reached, missing]

graphVars == <<given, meta, copies, aliases, outcome, selection>>

Names == ToSet(Sorted)

GraphInit ==
    /\ \E i \in Inputs : given \in [task : {i.task}, meta : [Names -> SUBSET (Names \cup {i.outer})],
                                    copies : {i.copies}, outer : {i.outer}]
    /\ meta = given.meta /\ copies = given.copies /\ aliases = [n \in {} |-> n] /\ outcome = "none"
    /\ selection = [roots |-> {}, reached |-> {}, missing |-> {}]

-----------------------------------------------------------------------------
(* The strongly connected components, found with two traversals. *)

\* acc is what a traversal has seen, and the order in which it has left the nodes.
RECURSIVE Visit(_, _, _)
Visit(node, graph, acc) ==
    IF node \in acc.seen THEN acc
    ELSE LET next == SelectSeq(Sorted, LAMBDA d : d \in graph[node])
             after == FoldLeft(LAMBDA a, d : Visit(d, graph, a),
                               [acc EXCEPT !.seen = @ \cup {node}], next)
         IN [after EXCEPT !.order = Append(@, node)]

Reversed(graph) == [n \in Names |-> {m \in Names : n \in graph[m]}]

\* The nodes in the order of their last visit, the last first; from each what is left of its component.
Components(graph) ==
    LET order == FoldLeft(LAMBDA a, n : Visit(n, graph, a), [seen |-> {}, order |-> <<>>], Sorted).order
        Step(acc, n) ==
            LET after == Visit(n, Reversed(graph), acc.visit)
            IN [visit |-> after, found |-> acc.found \cup ({after.seen \ acc.visit.seen} \ {{}})]
    IN FoldLeft(Step, [visit |-> [seen |-> {}, order |-> <<>>], found |-> {}], Reverse(order)).found

CyclesOfSeveral(graph) == {c \in Components(graph) : Cardinality(c) > 1}

Cyclic(graph) ==
    {c \in Components(graph) : Cardinality(c) > 1 \/ \E n \in c : n \in graph[n]}

\* components.sort()
InOrder(comps) ==
    SelectSeq([i \in DOMAIN Sorted |-> {c \in comps : \E n \in c :
                  n = Sorted[i] /\ \A j \in 1..(i - 1) : Sorted[j] \notin c}], LAMBDA cs : cs # {})

-----------------------------------------------------------------------------
(* flatten_meta_cycles *)

Mentioned ==
    Names \cup UNION {meta[n] : n \in Names} \cup UNION {copies[i].deps \cup {copies[i].name} : i \in DOMAIN copies}

\* One component.  A copy whose own prerequisite is a member, or whose private name is taken, is refused.
FlattenOne(s, comp) ==
    LET lifted   == {i \in DOMAIN s.copies : s.copies[i].name \in comp}
        actions  == {Private[s.copies[i].name] : i \in lifted}
        external == UNION {s.meta[n] \ comp : n \in comp}
        refused  == \/ \E i \in lifted : s.copies[i].deps \cap comp # {}
                    \/ actions \cap s.occupied # {}
                    \/ Cardinality(actions) < Cardinality(lifted)
    IN IF s.refused \/ refused THEN [s EXCEPT !.refused = TRUE]
       ELSE [s EXCEPT
           !.occupied = @ \cup actions,
           !.copies   = [i \in DOMAIN @ |-> IF i \in lifted THEN [@[i] EXCEPT !.name = Private[@]] ELSE @[i]],
           !.aliases  = [n \in DOMAIN @ \cup {s.copies[i].name : i \in lifted} |-> Private[n]],
           !.meta     = [n \in DOMAIN @ \cup actions |->
                            IF n \in actions THEN external
                            ELSE IF n \in comp THEN (@[n] \ comp) \cup external \cup actions
                            ELSE @[n]]]

FlattenMetaCycles ==
    /\ outcome = "none" /\ given.task = "flatten"
    /\ LET s == FoldLeft(LAMBDA a, cs : FlattenOne(a, CHOOSE c \in cs : TRUE),
                         [meta |-> meta, copies |-> copies, aliases |-> aliases, occupied |-> Mentioned,
                          refused |-> FALSE],
                         InOrder(Cyclic(meta)))
       IN /\ meta' = s.meta /\ copies' = s.copies /\ aliases' = s.aliases
          /\ outcome' = IF s.refused THEN "refused" ELSE "flattened"
    /\ UNCHANGED <<given, selection>>

-----------------------------------------------------------------------------
(* validate_cycles: one traversal, which keeps the nodes that it is below. *)

RECURSIVE CheckCycle(_, _, _)
CheckCycle(node, order, acc) ==
    LET Look(a, d) ==
            IF a.found THEN a
            ELSE IF d \in a.visited THEN [a EXCEPT !.found = d \in a.stack]
            ELSE IF d \in Names THEN CheckCycle(d, order, a) ELSE a
        after == FoldLeft(Look, [acc EXCEPT !.visited = @ \cup {node}, !.stack = @ \cup {node}],
                          SelectSeq(order, LAMBDA d : d \in meta[node]))
    IN IF after.found THEN after ELSE [after EXCEPT !.stack = @ \ {node}]

\* The targets are in a hash map: their order is any.
ValidateCycles ==
    /\ outcome = "none" /\ given.task = "validate"
    /\ \E order \in SetToSeqs(Names \cup {given.outer}) :
          LET Start(a, n) == IF a.found \/ n \notin Names \/ n \in a.visited THEN a ELSE CheckCycle(n, order, a)
              found == FoldLeft(Start, [visited |-> {}, stack |-> {}, found |-> FALSE], order).found
          IN outcome' = IF found THEN "cyclic" ELSE "acyclic"
    /\ UNCHANGED <<given, meta, copies, aliases, selection>>

-----------------------------------------------------------------------------
(* MetaMakeOwnerGraph::select: what is reached from the roots, and what is missing. *)

\* A name of a target goes into the queue, another one is missing.
Enqueue(s, names) ==
    [s EXCEPT !.queue   = @ \o SelectSeq(names, LAMBDA n : n \in Names),
              !.missing = @ \cup (ToSet(names) \ Names),
              !.work    = @ + Len(names)]

RECURSIVE Drain(_)
Drain(s) ==
    IF s.queue = <<>> \/ s.work > MaxWork THEN s
    ELSE LET target == Head(s.queue)
             rest == [s EXCEPT !.queue = Tail(@), !.work = @ + 1, !.reached = @ \cup {target}]
         IN Drain(IF target \in s.reached THEN rest
                  ELSE Enqueue(rest, SelectSeq(Append(Sorted, given.outer), LAMBDA d : d \in meta[target])))

Select ==
    /\ outcome = "none" /\ given.task = "select"
    /\ \E roots \in SUBSET (Names \cup {given.outer}) :
          LET start == [queue |-> <<>>, reached |-> {}, missing |-> {}, work |-> 0]
              s     == Drain(Enqueue(start, SetToSeq(roots)))
          IN /\ outcome' = IF s.work > MaxWork THEN "too much" ELSE "selected"
             /\ selection' = [roots |-> roots, reached |-> s.reached, missing |-> s.missing]
    /\ UNCHANGED <<given, meta, copies, aliases>>

GraphNext == FlattenMetaCycles \/ ValidateCycles \/ Select

GraphSpec == GraphInit /\ [][GraphNext]_graphVars

-----------------------------------------------------------------------------
(* Reference: what building a name prepares. *)

Edges(graph, n) == IF n \in DOMAIN graph THEN graph[n] ELSE {}

RECURSIVE Closure(_, _)
Closure(graph, ns) ==
    LET more == ns \cup UNION {Edges(graph, n) : n \in ns}
    IN IF more = ns THEN ns ELSE Closure(graph, more)

Below(graph, n) == Closure(graph, Edges(graph, n))

InCycle(graph) == {n \in DOMAIN graph : n \in Below(graph, n)}

\* The names it prepares besides those of the circles.
Prepared(graph, n, members) ==
    (Below(graph, n) \cap (Names \cup UNION {given.meta[m] : m \in Names})) \ members

\* The copies that building n runs, by their place in the list.
Runs(graph, list, n) == {i \in DOMAIN list : list[i].name \in Below(graph, n) \cup {n}}

\* Normalized: flatten_meta_cycles leaves no circle; building a name prepares what it did, apart from the
\* members of the circles, and runs the same copies, each of them after what it was to come after; and it
\* refuses a graph only if it has a circle with a recursive copy in it.
Normalized ==
    LET members == InCycle(given.meta) IN
    /\ outcome = "flattened" =>
        /\ InCycle(meta) = {}
        /\ \A n \in Names :
              /\ Prepared(meta, n, members) = Prepared(given.meta, n, members)
              /\ Runs(meta, copies, n) = Runs(given.meta, given.copies, n)
        /\ \A i \in DOMAIN copies :
              Prepared(meta, copies[i].name, members) = Prepared(given.meta, given.copies[i].name, members)
    /\ outcome = "refused" => \E i \in DOMAIN given.copies : given.copies[i].name \in members

\* TraversalsExact: validate_cycles finds a circle if and only if there is one, in whatever order it meets
\* the targets, and select reaches exactly what the roots depend on, unless it has given up.
TraversalsExact ==
    /\ outcome = "cyclic" => InCycle(given.meta) # {}
    /\ outcome = "acyclic" => InCycle(given.meta) = {}
    /\ outcome = "selected" =>
          /\ selection.reached = Closure(given.meta, selection.roots) \cap Names
          /\ selection.missing = Closure(given.meta, selection.roots) \ Names
=============================================================================
