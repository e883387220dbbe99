------------------------------ MODULE MakeVars ------------------------------
(***************************************************************************)
(* The variable scope the transpiler builds from one mmakefile             *)
(* (aros-transpiler/src/make_vars.rs), against what GNU Make computes.     *)
(*                                                                         *)
(* The scanner reads a file line by line with the knowledge of a target    *)
(* context.  A condition it cannot decide makes a branch "unknown"; what   *)
(* such a branch may assign is kept out of the values and recorded, so     *)
(* that a reader refuses the name instead of taking a value that holds in  *)
(* some configurations only.  Make, next to it, reads the same line once   *)
(* for every world: a choice of the outside variables the context does     *)
(* not know, and of the flavor of the configured ones, which it does not   *)
(* record.                                                                 *)
(*                                                                         *)
(* A text is a sequence of words, and a word that is the name of a         *)
(* variable is a reference to it.  The histories that the code keeps per   *)
(* name are reduced to what a look-up at the line after the last one sees: *)
(* every line is once the last one.                                        *)
(***************************************************************************)
EXTENDS Naturals, SequencesExt

CONSTANTS
    Vars,       \* the names assigned in the file
    Outside,    \* names that neither the file nor the context has a value for
    Scenes      \* [context, configured, assigned, lines, length], length bounds the file

VARIABLES
    scene,      \* whether a context is given, the configured names, the lines of the file
    scope,      \* VarScope, by name
    known,      \* its local_names
    frames,     \* conditional_stack
    halted,     \* an $(error) may have run
    count,      \* the lines read
    make        \* external: GNU Make, by world

vars == <<scene, scope, known, frames, halted, count, make>>

Depth == 4      \* bound: MAX_DEPTH_FOR_IMMEDIATE_EXPANSION; no file here nests deeper

References(text) == ToSet(text) \cap (Vars \cup Outside)
Only(option) == CHOOSE x \in option : TRUE

-----------------------------------------------------------------------------
(* Three-valued conditions. *)

Not(a) == IF a = "unknown" THEN a ELSE IF a = "true" THEN "false" ELSE "true"

And(a, b) ==
    IF "false" \in {a, b} THEN "false" ELSE IF {a, b} = {"true"} THEN "true" ELSE "unknown"

Or(a, b) == Not(And(Not(a), Not(b)))

NewFrame(parent, condition) ==
    [parent |-> parent, matched |-> condition, current |-> And(parent, condition),
     closed |-> FALSE]

ElseIf(f, condition) ==
    [f EXCEPT !.current = And(And(f.parent, Not(f.matched)), condition),
              !.matched = Or(f.matched, condition)]

Otherwise(f) == [f EXCEPT !.current = And(f.parent, Not(f.matched)), !.matched = "true", !.closed = TRUE]

Innermost == IF frames = <<>> THEN "true" ELSE Last(frames).current

BranchState == IF halted THEN "unknown" ELSE Innermost

-----------------------------------------------------------------------------
(* Looking a name up. *)

\* path_is_conditional_at: an unknown branch, a define or a frozen doubt since the last replacement.
Conditional(s, v) == s[v].opaque \/ s[v].cond \/ s[v].uncertain

RawAt(s, v) == IF s[v].opaque \/ s[v].uncertain THEN {} ELSE s[v].raw
PathRawAt(s, v) == IF s[v].opaque \/ s[v].uncertain THEN {} ELSE s[v].path

RECURSIVE DependsOnConditional(_, _, _)
DependsOnConditional(s, v, guard) ==
    v \in Vars /\
    (\/ Conditional(s, v) \/ v \in guard
     \/ \E text \in PathRawAt(s, v) :
           \E d \in References(text) : DependsOnConditional(s, d, guard \cup {v}))

RECURSIVE FlavorUncertain(_, _, _)
FlavorUncertain(s, v, visiting) ==
    v \in Vars /\
    (\/ s[v].doubt
     \/ v \notin visiting /\ \E text \in RawAt(s, v) :
           \E d \in References(text) : FlavorUncertain(s, d, visiting \cup {v}))

\* A text with the references replaced that have a value; the others stay.
RECURSIVE ExpandImmediate(_, _, _)
ExpandImmediate(text, value, depth) ==
    IF depth = 0 THEN text
    ELSE FlattenSeq([i \in DOMAIN text |->
            IF text[i] \in Vars /\ value[text[i]] # {}
            THEN ExpandImmediate(Only(value[text[i]]), value, depth - 1)
            ELSE <<text[i]>>])

\* A text with all references replaced, or nothing if one of them has no value.
RECURSIVE ExpandAll(_, _, _)
ExpandAll(text, value, depth) ==
    LET Part(t) == IF t \in Outside THEN {}
                   ELSE IF t \notin Vars THEN {<<t>>}
                   ELSE IF value[t] = {} \/ depth = 0 THEN {}
                   ELSE ExpandAll(Only(value[t]), value, depth - 1)
        parts == [i \in DOMAIN text |-> Part(text[i])]
    IN IF \E i \in DOMAIN text : parts[i] = {} THEN {}
       ELSE {FlattenSeq([i \in DOMAIN text |-> Only(parts[i])])}

Truth(b) == IF b THEN "true" ELSE "false"

\* expand_condition_reference: a name that the file has introduced and not set is empty.
OperandValues ==
    [v \in Vars |-> IF Conditional(scope, v) THEN {}
                    ELSE IF RawAt(scope, v) # {} THEN RawAt(scope, v)
                    ELSE IF v \in known THEN {<<>>} ELSE {}]

Evaluate(c) ==
    IF c.test = "ifdef"
    THEN IF c.name \in Outside \/ Conditional(scope, c.name) \/ RawAt(scope, c.name) = {}
         THEN "unknown"
         ELSE Truth(Only(RawAt(scope, c.name)) # <<>>)
    ELSE LET left == ExpandAll(<<c.name>>, OperandValues, Depth)
         IN IF left = {} THEN "unknown" ELSE Truth(Only(left) = c.is)

EvaluateConditional(c) == IF c.not THEN Not(Evaluate(c)) ELSE Evaluate(c)

-----------------------------------------------------------------------------
(* External: GNU Make reads the same line, in one world.                   *)

Worlds == {w \in [Outside \cup {"simple"} -> BOOLEAN] : scene.configured = {} => w["simple"]}

RECURSIVE MakeText(_, _, _)
MakeText(m, w, text) ==
    FlattenSeq([i \in DOMAIN text |->
        IF text[i] \in Outside THEN IF w[text[i]] THEN <<"u">> ELSE <<>>
        ELSE IF text[i] \notin Vars THEN <<text[i]>>
        ELSE MakeText(m, w, m.value[text[i]].text)])

MakeHolds(m, w, c) ==
    c.not # (IF c.test = "ifdef"
             THEN IF c.name \in Outside THEN w[c.name] ELSE m.value[c.name].text # <<>>
             ELSE MakeText(m, w, <<c.name>>) = c.is)

Active(m) == ~m.stopped /\ \A i \in DOMAIN m.taken : m.taken[i] = "now"

\* A branch is taken now, or was taken before, or may still be.
Choose(m, holds) == IF holds THEN "now" ELSE "later"

MakeAssign(m, w, v, kind, rhs) ==
    LET old == m.value[v]
        simple == kind = ":=" \/ (kind = "+=" /\ old.def /\ old.simple)
        text == IF simple THEN MakeText(m, w, rhs) ELSE rhs
        new == IF kind = "undefine" THEN [def |-> FALSE, simple |-> FALSE, text |-> <<>>]
               ELSE IF kind = "?=" /\ old.def THEN old
               ELSE [def |-> TRUE, simple |-> simple,
                     text |-> IF kind = "+=" THEN old.text \o text ELSE text]
    IN [m EXCEPT !.value[v] = new]

Top(m, x) == [m EXCEPT !.taken[Len(m.taken)] = x]

MakeReads(m, w, line) ==
    IF m.stopped THEN m
    ELSE IF line.op = "if" THEN [m EXCEPT !.taken = Append(@, Choose(m, MakeHolds(m, w, line)))]
    ELSE IF line.op = "endif" THEN [m EXCEPT !.taken = Front(@)]
    ELSE IF line.op = "else" THEN Top(m, IF Last(m.taken) = "later" THEN "now" ELSE "before")
    ELSE IF line.op = "elseif" THEN
        Top(m, IF Last(m.taken) = "later" THEN Choose(m, MakeHolds(m, w, line)) ELSE "before")
    ELSE IF ~Active(m) THEN m
    ELSE IF line.op = "assign" THEN MakeAssign(m, w, line.name, line.kind, line.rhs)
    ELSE IF line.op = "define" THEN MakeAssign(m, w, line.name, "=", <<"d">>)
    ELSE IF line.op = "define dynamic" THEN
        MakeAssign(m, w, IF w[line.by] THEN line.name ELSE line.other, "=", <<"d">>)
    ELSE IF line.op = "error" THEN [m EXCEPT !.stopped = TRUE]
    ELSE m

-----------------------------------------------------------------------------
(* The scanner, collect_vars_impl_with_forward_locals. *)

\* raw and path hold the last value if there is one, the configured one to begin with.
NewEntry(configured) ==
    [raw |-> IF configured THEN {<<"c">>} ELSE {}, path |-> IF configured THEN {<<"c">>} ELSE {},
     defined |-> configured, flavor |-> IF configured THEN "unknown" ELSE "recursive",
     opaque |-> FALSE, cond |-> FALSE, uncertain |-> FALSE, doubt |-> FALSE]

VarsInit ==
    /\ scene \in Scenes
    /\ scope = [v \in Vars |-> NewEntry(v \in scene.configured)]
    /\ known = {} /\ frames = <<>> /\ halted = FALSE /\ count = 0
    /\ make = [w \in Worlds |->
                 [value |-> [v \in Vars |->
                     [def |-> v \in scene.configured, simple |-> w["simple"],
                      text |-> IF v \in scene.configured THEN <<"c">> ELSE <<>>]],
                  taken |-> <<>>, stopped |-> FALSE]]

\* The values a path freezes: a name of the file that is not set yet is empty.
PathValues(s) ==
    [v \in Vars |-> IF s[v].path = {} /\ v \in scene.assigned THEN {<<>>} ELSE s[v].path]

Flavor(v, kind) ==
    IF kind = ":=" THEN "simple" ELSE IF kind = "+=" THEN scope[v].flavor ELSE "recursive"

\* The flavor of an appended configured value is not recorded, and a simple value freezes what is so.
FlavorDoubt(v, kind, rhs) ==
    \/ kind = "+=" /\ scope[v].flavor = "unknown" /\ References(rhs) # {}
    \/ Flavor(v, kind) = "simple" /\ \E d \in References(rhs) : FlavorUncertain(scope, d, {})

FreezesConditional(v, kind, rhs) ==
    Flavor(v, kind) = "simple" /\ \E d \in References(rhs) : DependsOnConditional(scope, d, {})

ReplacesInAnyBranch(kind, branch) == kind \in {":=", "=", "undefine"}

\* The value is replaced: what was in doubt before does not matter any more.
Replaces(kind, branch) == branch = "true" /\ kind \in {":=", "=", "undefine"}

\* The entry of v after an assignment that takes effect.
Assigned(v, kind, rhs, branch) ==
    LET old     == scope[v]
        keeps   == ~Replaces(kind, branch)
        simple  == Flavor(v, kind) = "simple"
        flagged == [old EXCEPT
            !.opaque    = @ /\ keeps,
            !.cond      = (@ \/ branch = "unknown") /\ keeps,
            !.uncertain = (@ /\ keeps) \/ FreezesConditional(v, kind, rhs),
            !.doubt     = (@ /\ kind = "+=") \/ FlavorDoubt(v, kind, rhs),
            !.flavor    = Flavor(v, kind),
            !.defined   = kind # "undefine"]
        latest  == [scope EXCEPT ![v] = flagged]
        path    == IF simple THEN ExpandImmediate(rhs, PathValues(scope), Depth) ELSE rhs
        raw     == IF simple
                   THEN ExpandImmediate(rhs, [d \in Vars |-> RawAt(latest, d)], Depth) ELSE rhs
        Extend(option, text) == IF kind = "+=" /\ option # {} THEN {Only(option) \o text} ELSE {text}
    IN [flagged EXCEPT !.path = Extend(@, path),
                       !.raw  = IF flagged.opaque THEN {raw} ELSE Extend(@, raw)]

Assign(line) ==
    LET v == line.name
        branch == BranchState
        skipped == \/ scene.context /\ branch # "true"
                   \/ line.kind = "?=" /\ (scope[v].defined \/ scope[v].opaque)
    IN /\ line.op = "assign"
       /\ known' = known \cup {v}
       /\ scope' = [scope EXCEPT ![v] =
              IF skipped THEN [@ EXCEPT !.cond = @ \/ branch = "unknown"]
              ELSE Assigned(v, line.kind, line.rhs, branch)]
       /\ UNCHANGED <<frames, halted>>

\* A define is not evaluated; under a name that is not literal it may define any.
Define(line) ==
    /\ line.op \in {"define", "define dynamic"}
    /\ scope' = [v \in Vars |->
          IF BranchState # "false" /\ (line.op = "define dynamic" \/ v = line.name)
          THEN [scope[v] EXCEPT !.opaque = TRUE] ELSE scope[v]]
    /\ UNCHANGED <<known, frames, halted>>

\* #NAME=value introduces the name.
CommentedOut(line) ==
    /\ line.op = "comment"
    /\ known' = IF scene.context THEN known \cup {line.name} ELSE known
    /\ UNCHANGED <<scope, frames, halted>>

Error(line) ==
    /\ line.op = "error"
    /\ halted' = (halted \/ (scene.context /\ BranchState # "false"))
    /\ UNCHANGED <<scope, known, frames>>

\* Without a context nothing is evaluated: within any conditional the branch is unknown.
If(line) ==
    /\ line.op = "if"
    /\ frames' = Append(frames, IF scene.context THEN NewFrame(Innermost, EvaluateConditional(line))
                                ELSE NewFrame("unknown", "unknown"))
    /\ UNCHANGED <<scope, known, halted>>

Else(line) ==
    /\ line.op \in {"else", "elseif"}
    /\ frames # <<>> /\ ~Last(frames).closed
    /\ frames' = [frames EXCEPT ![Len(frames)] =
          IF ~scene.context THEN [@ EXCEPT !.closed = line.op = "else"]
          ELSE IF line.op = "else" THEN Otherwise(@) ELSE ElseIf(@, EvaluateConditional(line))]
    /\ UNCHANGED <<scope, known, halted>>

EndIf(line) ==
    /\ line.op = "endif" /\ frames # <<>>
    /\ frames' = Front(frames)
    /\ UNCHANGED <<scope, known, halted>>

\* Precondition: a simple value reads only names that have a value, or one that is recorded as uncertain.
\* Any other reference is kept, and sees the assignments that follow, which Make does not.
InScene(line) ==
    (line.op = "assign" /\ Flavor(line.name, line.kind) = "simple") =>
        \/ FreezesConditional(line.name, line.kind, line.rhs)
        \/ References(ExpandImmediate(line.rhs, [d \in Vars |-> RawAt(scope, d)], Depth)) = {}

Scan(line) ==
    /\ count < scene.length /\ count' = count + 1
    /\ InScene(line)
    /\ \/ Assign(line) \/ Define(line) \/ CommentedOut(line) \/ Error(line)
       \/ If(line) \/ Else(line) \/ EndIf(line)
    /\ make' = [w \in Worlds |-> MakeReads(make[w], w, line)]
    /\ UNCHANGED scene

VarsNext == \E line \in scene.lines : Scan(line)

VarsSpec == VarsInit /\ [][VarsNext]_vars

-----------------------------------------------------------------------------
(* Properties. *)

\* variable_guard and the look-ups of its readers.
Readable(v) == ~Conditional(scope, v) /\ ~FlavorUncertain(scope, v, {})
RawValues == [v \in Vars |-> IF Readable(v) THEN RawAt(scope, v) ELSE {}]
PathVals == [v \in Vars |-> IF Readable(v) THEN PathRawAt(scope, v) ELSE {}]

\* ReadsAsMake: what a reader gets that asks variable_guard first, as written or for a path, is the value
\* that GNU Make has at this line in every configuration in which it gets here, and a branch that is
\* decided is decided as Make does (collect_vars_impl_with_forward_locals).
ReadsAsMake ==
    \A w \in Worlds : ~make[w].stopped =>
        /\ \A v \in Vars :
              /\ \A text \in ExpandAll(<<v>>, RawValues, Depth) : text = MakeText(make[w], w, <<v>>)
              /\ \A text \in ExpandAll(<<v>>, PathVals, Depth) : text = MakeText(make[w], w, <<v>>)
        /\ BranchState = "true" => Active(make[w])
        /\ BranchState = "false" => ~Active(make[w])
=============================================================================
