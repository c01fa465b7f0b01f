---------------------------- MODULE NestedValidator ----------------------------
(***************************************************************************)
(* NestedValidator (src/core/validation/nested.py): rules for paths into   *)
(* nested data, where * stands for every element.  Data is the function    *)
(* from its paths, <<>> among them, to what is there: a dict, a list,      *)
(* whose indices are parts of a path like keys, or another value, good or  *)
(* bad for the one rule there is about it.                                 *)
(***************************************************************************)
EXTENDS Naturals, Sequences, SequencesExt, Functions, TLC

CONSTANTS
    Inputs,         \* trees of data
    RuleLists       \* sequences of [path, rules]

VARIABLES
    data, rules,
    next, asked,    \* the key of rules, its paths already validated
    errors, validated, raised

vars == <<data, rules, next, asked, errors, validated, raised>>

Node(tree, path) == IF path \in DOMAIN tree THEN tree[path] ELSE "none"
Above(path) == {SubSeq(path, 1, n) : n \in 1..Len(path) - 1}

TypeOK ==
    /\ data \in Inputs /\ rules \in RuleLists /\ raised \in BOOLEAN
    /\ next \in 1..Len(rules) + 1
    /\ \A p \in DOMAIN validated : validated[p] \in {"dict", "list", "good", "bad"}

Init ==
    /\ data \in Inputs /\ rules \in RuleLists /\ next = 1
    /\ asked = {} /\ errors = {} /\ validated = (<<>> :> "dict") /\ raised = FALSE

Children(path) == {p \in DOMAIN data : Len(p) = Len(path) + 1 /\ IsPrefix(path, p)}

\* A * that only stands for the elements of lists.
Step_Lists(front, part) == UNION {
    IF path \in DOMAIN data /\ part = "*"
    THEN IF data[path] = "list" THEN Children(path) ELSE {}
    ELSE {Append(path, part)} : path \in front}

\* _expand_wildcard(): what is not there leaves the rest as it stands, a * on
\* a value without elements leaves nothing.
Step(front, part) == UNION {
    IF path \in DOMAIN data /\ part = "*" THEN Children(path)
    ELSE {Append(path, part)} : path \in front}

Expand(pattern) == FoldLeft(Step, {<<>>}, pattern)

Passes(rule, node) ==
    CASE rule = "required" -> node # "none"
      [] rule = "list" -> node = "list"
      [] rule = "good" -> node = "good"

\* _set_nested() makes dicts where nothing is, and raises TypeError where a
\* list or a value is: validated holds the very list of the data.
Blocked(path) == \E p \in Above(path) : Node(validated, p) \notin {"none", "dict"}

Set(path) ==
    Restrict(data, {p \in DOMAIN data : IsPrefix(path, p)})
    @@ Restrict(validated, {p \in DOMAIN validated : ~ IsPrefix(path, p)})
    @@ [p \in Above(path) |-> "dict"]

\* One of the paths of the key.
Validate(path) ==
    LET node == Node(data, path)
    IN  /\ asked' = asked \cup {path}
        /\ \/ /\ \E r \in rules[next].rules : ~ Passes(r, node)
              /\ errors' = errors \cup {path}
              /\ UNCHANGED <<validated, raised>>
           \/ /\ \A r \in rules[next].rules : Passes(r, node)
              /\ raised' = (node # "none" /\ Blocked(path))
              /\ validated' = IF node = "none" \/ raised' THEN validated ELSE Set(path)
              /\ UNCHANGED errors
        /\ UNCHANGED <<data, rules, next>>

NextKey ==
    /\ next' = next + 1 /\ asked' = {}
    /\ UNCHANGED <<data, rules, errors, validated, raised>>

Next ==
    /\ ~ raised /\ next <= Len(rules)
    /\ LET paths == Expand(rules[next].path)
       IN  IF paths \subseteq asked THEN NextKey ELSE \E path \in paths \ asked : Validate(path)

Spec == Init /\ [][Next]_vars

-----------------------------------------------------------------------------

Matches(path, pattern) ==
    Len(path) = Len(pattern) /\ \A i \in DOMAIN path : pattern[i] \in {"*", path[i]}

\* Whatever is at a path that a key stands for has been judged: it is among
\* the errors or, where it was, in what comes out, and nothing else comes out;
\* and only a key below another that passed with a list or a plain value in
\* the way makes validate() raise TypeError.
NestedIsComplete ==
    /\ next > Len(rules) => \A i \in DOMAIN rules, p \in DOMAIN data :
        Matches(p, rules[i].path) => p \in errors \/ Node(validated, p) # "none"
    /\ \A p \in DOMAIN validated :
        validated[p] = Node(data, p) \/ (validated[p] = "dict" /\ Node(data, p) = "list")
    /\ raised => \E i \in 1..next - 1, q \in asked : \E p \in Above(q) :
        Matches(p, rules[i].path) /\ data[p] # "dict"
===============================================================================
