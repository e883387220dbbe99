------------------------------ MODULE CanonicalTar ------------------------------
(***************************************************************************)
(* unpack_canonical_tar_gzip and canonicalize_tar_gzip of                  *)
(* aros-fetch/src/engine/cache.rs: a source archive is unpacked entry by   *)
(* entry under the rules of a portable tree and packed again in one order, *)
(* so that its digest does not depend on who has packed it.                *)
(*                                                                         *)
(* A name is a number; the name of number n folds to Fold[n].  A path is a *)
(* sequence of names.                                                      *)
(***************************************************************************)
EXTENDS Naturals, Sequences, FiniteSets, SequencesExt

CONSTANTS
    Names, Fold,   \* payload_casefold_path_key, name by name
    Sizes,         \* of entries
    MaxEntries,    \* MAX_CANONICAL_TAR_ENTRIES
    MaxExpanded,   \* MAX_CANONICAL_TAR_EXPANDED_BYTES
    MaxDepth,      \* MAX_CANONICAL_TAR_PATH_DEPTH
    MaxInput       \* a bound on the entries of an archive

TarAssumption ==
    /\ Names \subseteq Nat /\ IsFiniteSet(Names) /\ Fold \in [Names -> Names]
    /\ Sizes \subseteq Nat /\ {MaxEntries, MaxExpanded, MaxDepth, MaxInput} \subseteq Nat

\* One path of a single name repeated stands for those that are too deep.
Paths == UNION {[1..n -> Names] : n \in 0..MaxDepth} \cup {[i \in 1..(MaxDepth + 1) |-> n] : n \in Names}
Entries == [path : Paths, kind : {"dir", "file", "other"}, size : Sizes]

VARIABLES
    input,      \* the entries so far
    nodes,      \* what they make: path |-> "file", "dir" (explicit) or "implied"
    keys,       \* the folded paths
    expanded,   \* the bytes so far
    status,     \* "reading", "ok", "rejected" (an entry) or "malformed" (the end)
    output      \* the entries of the canonical archive

vars == <<input, nodes, keys, expanded, status, output>>

Key(path) == [i \in DOMAIN path |-> Fold[path[i]]]
Ancestors(path) == {SubSeq(path, 1, n) : n \in 1..(Len(path) - 1)}

(***************************************************************************)
(* TarTypeOK: every variable has its type.                                 *)
(***************************************************************************)
TarTypeOK ==
    /\ input \in Seq(Entries) /\ DOMAIN nodes \subseteq Paths
    /\ \A p \in DOMAIN nodes : nodes[p] \in {"file", "dir", "implied"}
    /\ keys \subseteq Paths /\ Cardinality(DOMAIN nodes) <= MaxEntries /\ expanded <= MaxExpanded
    /\ status \in {"reading", "ok", "rejected", "malformed"} /\ output \in Seq(Paths)

TarInit ==
    /\ input = <<>> /\ nodes = <<>> /\ keys = {} /\ expanded = 0
    /\ status = "reading" /\ output = <<>>

\* checked_canonical_input_path
PathAllowed(path) == Len(path) \in 1..MaxDepth

\* The reservation of one new node: its folded path is free, and there is room.
Reservable(path, ks, ns) == Key(path) \notin ks /\ Cardinality(DOMAIN ns) < MaxEntries

With(ns, path, kind) == [p \in DOMAIN ns \cup {path} |-> IF p = path THEN kind ELSE ns[p]]

\* A state of the reservations: what is reserved, or a rejection.
Fail(r) == [r EXCEPT !.ok = FALSE]

\* A bug: a directory that is already there needs no check.
ReserveDirectoryLax(r, path, explicit) ==
    IF path \in DOMAIN r.nodes THEN r
    ELSE [nodes |-> With(r.nodes, path, IF explicit THEN "dir" ELSE "implied"),
          keys |-> r.keys \cup {Key(path)}, ok |-> r.ok]

\* reserve_canonical_directory
ReserveDirectory(r, path, explicit) ==
    IF path \in DOMAIN r.nodes
    THEN IF r.nodes[path] = "file" \/ (explicit /\ r.nodes[path] = "dir") THEN Fail(r)
         ELSE [r EXCEPT !.nodes[path] = IF explicit THEN "dir" ELSE @]
    ELSE IF Reservable(path, r.keys, r.nodes)
         THEN [nodes |-> With(r.nodes, path, IF explicit THEN "dir" ELSE "implied"),
               keys |-> r.keys \cup {Key(path)}, ok |-> r.ok]
         ELSE Fail(r)

\* reserve_canonical_file
ReserveFile(r, path) ==
    IF path \notin DOMAIN r.nodes /\ Reservable(path, r.keys, r.nodes)
    THEN [nodes |-> With(r.nodes, path, "file"), keys |-> r.keys \cup {Key(path)}, ok |-> r.ok]
    ELSE Fail(r)

\* reserve_canonical_ancestors, from the root downwards
ReserveAncestors(r, path) ==
    FoldSeq(LAMBDA n, s : ReserveDirectory(s, SubSeq(path, 1, n), FALSE), r,
            [i \in 1..(Len(path) - 1) |-> Len(path) - i])

Reserved(entry) ==
    LET r == ReserveAncestors([nodes |-> nodes, keys |-> keys, ok |-> TRUE], entry.path) IN
    IF entry.kind = "dir" THEN ReserveDirectory(r, entry.path, TRUE) ELSE ReserveFile(r, entry.path)

\* One entry of the archive.  What is reserved after a rejection does not matter.
ReadEntry(entry) ==
    LET bytes == expanded + entry.size
        admitted == /\ PathAllowed(entry.path) /\ entry.kind # "other"
                    /\ entry.kind = "dir" => entry.size = 0
                    /\ Len(input) < MaxEntries /\ bytes <= MaxExpanded IN
    /\ status = "reading" /\ Len(input) < MaxInput
    /\ input' = Append(input, entry) /\ UNCHANGED output
    /\ \/ /\ admitted /\ Reserved(entry).ok
          /\ nodes' = Reserved(entry).nodes /\ keys' = Reserved(entry).keys
          /\ expanded' = bytes /\ UNCHANGED status
       \/ /\ ~ (admitted /\ Reserved(entry).ok)
          /\ status' = "rejected" /\ UNCHANGED <<nodes, keys, expanded>>

\* The order of paths, component by component.
Before(p, q) ==
    \/ Len(p) < Len(q) /\ SubSeq(q, 1, Len(p)) = p
    \/ \E i \in DOMAIN p \cap DOMAIN q : p[i] < q[i] /\ \A j \in 1..(i - 1) : p[j] = q[j]

\* A bug: the entries are packed in the order of the directory walk, last name first.
CanonicalEntriesUnsorted(paths) == SetToSortSeq(paths, LAMBDA p, q : Before(q, p))

\* canonical_tree_entries
CanonicalEntries(paths) == SetToSortSeq(paths, Before)

\* The end: at least one entry, and nothing but padding after the last one.
FinishArchive(padding) ==
    /\ status = "reading" /\ UNCHANGED <<input, nodes, keys, expanded>>
    /\ \/ input # <<>> /\ padding /\ status' = "ok" /\ output' = CanonicalEntries(DOMAIN nodes)
       \/ (input = <<>> \/ ~ padding) /\ status' = "malformed" /\ UNCHANGED output

TarNext ==
    \/ \E e \in Entries : ReadEntry(e)
    \/ \E padding \in BOOLEAN : FinishArchive(padding)
    \/ status # "reading" /\ UNCHANGED vars

TarSpec == TarInit /\ [][TarNext]_vars

-----------------------------------------------------------------------------
\* A set of entries is a tree that every file system can hold: its paths and
\* their ancestors are directories or files, once each, and differ by more than case.
Everything(es) == {e.path : e \in es} \cup UNION {Ancestors(e.path) : e \in es}

Portable(es) ==
    /\ \A e \in es : e.kind \in {"dir", "file"} /\ (e.kind = "dir" => e.size = 0)
    /\ \A e, f \in es : e.path = f.path => e = f
    /\ \A e, f \in es : f.path \in Ancestors(e.path) => f.kind = "dir"
    /\ \A p, q \in Everything(es) : Key(p) = Key(q) => p = q
    /\ Cardinality(Everything(es)) <= MaxEntries

(***************************************************************************)
(* AcceptsPortable: the entries that are accepted one by one are exactly   *)
(* those that are a portable tree together: whether an archive is accepted *)
(* does not depend on the order of its entries, on whether it names the    *)
(* directories, or when.                                                   *)
(***************************************************************************)
AcceptsPortable ==
    LET es == Range(input) IN
    /\ status # "rejected" => Portable(es) /\ Cardinality(es) = Len(input)
    /\ status = "rejected" =>
        \/ ~ Portable(es) \/ Cardinality(es) < Len(input)
        \/ \E e \in es : ~ PathAllowed(e.path)
        \/ FoldSeq(LAMBDA e, n : n + e.size, 0, input) > MaxExpanded
        \/ Len(input) > MaxEntries

(***************************************************************************)
(* SameArchive: what is packed again depends on the tree alone, and every  *)
(* directory comes before what it contains.                                *)
(***************************************************************************)
SameArchive ==
    status = "ok" =>
        /\ Range(output) = Everything(Range(input)) /\ Len(output) = Cardinality(Range(output))
        /\ \A i, j \in DOMAIN output : i < j <=> Before(output[i], output[j])
        /\ \A i \in DOMAIN output : \A p \in Ancestors(output[i]) : \E j \in 1..(i - 1) : output[j] = p
=============================================================================
