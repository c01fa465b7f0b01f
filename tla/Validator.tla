------------------------------- MODULE Validator -------------------------------
(***************************************************************************)
(* Validation of a request (src/core/validation): the rules and how they   *)
(* are parsed, Validator with its asynchronous part, and FormRequest,      *)
(* which authorizes, sanitizes and validates.                              *)
(*                                                                         *)
(* A value is its Python type, for a string the form that the patterns and *)
(* the parsers of the standard library tell apart, its length, and for a   *)
(* number or a date its rank.  A rule is its name and its arguments.  The  *)
(* rule objects may be shared, as when they are defined once for a class:  *)
(* the data-aware ones judge by the data they were given last.             *)
(***************************************************************************)
EXTENDS Naturals, Sequences, SequencesExt

CONSTANTS
    Tasks, Forms,       \* of the tasks, those that are FormRequests
    Fields, Inputs,     \* data: [Fields -> values]
    RuleSets,           \* [Fields -> Seq(rules)]
    Sanitizers,         \* field -> sanitizers, in their order
    NoData

ValidatorAssumption ==
    Forms \subseteq Tasks /\ NoData \notin Inputs /\ DOMAIN Sanitizers \subseteq Fields

VARIABLES
    rules,      \* of this application
    injected,   \* set_data(): what the data-aware rules hold
    jobs

vars == <<rules, injected, jobs>>

Absent == [type |-> "none", form |-> "", size |-> 0, rank |-> 0]

-----------------------------------------------------------------------------

\* The rules, each a disjunct that it passes by.

Filled(v) == v.type # "none" /\ ~ (v.type = "str" /\ v.form = "blank")

\* What a string of a form is accepted by; json.loads() takes digits, too.
Matching == [
    blank |-> {}, letters |-> {"alpha", "alpha_numeric", "slug"},
    mixed |-> {"alpha", "alpha_numeric"}, digits |-> {"alpha_numeric", "slug", "json_string"},
    email |-> {"email"}, url |-> {"url"}, date |-> {"slug", "date", "before", "after"},
    ip |-> {"ip"}, uuid |-> {"slug", "uuid"}, json |-> {"json_string"}]

PassesText(r, v) ==
    \/ r.name = "required" /\ Filled(v)
    \/ r.name = "string" /\ v.type = "str"
    \/ /\ v.type \in {"str", "list"}
       /\ \/ r.name = "min_length" /\ v.size >= r.args[1]
          \/ r.name = "max_length" /\ v.size <= r.args[1]
          \/ r.name = "between" /\ r.args[1] <= v.size /\ v.size <= r.args[2]
    \/ r.name \in {"alpha", "alpha_numeric", "slug", "email", "url"}
       /\ v.type = "str" /\ r.name \in Matching[v.form]

\* A bool is an int to Python; only these rules keep it out.
IsNumber(v) == v.type \in {"int", "float"}

PassesNumber(r, v) ==
    /\ IsNumber(v)
    /\ \/ r.name = "numeric"
       \/ r.name = "integer" /\ v.type = "int"
       \/ r.name = "min" /\ v.rank >= r.args[1]
       \/ r.name = "max" /\ v.rank <= r.args[1]
       \/ r.name = "positive" /\ v.rank > 0

\* Python's ==, by which True is 1.
Equal(v, w) ==
    v = w \/ ({v.type, w.type} \subseteq {"bool", "int", "float"} /\ v.rank = w.rank)

Among(v, choices) == \E i \in DOMAIN choices : Equal(v, choices[i])

PassesChoice(r, v) ==
    \/ r.name = "in" /\ Among(v, r.args)
    \/ r.name = "not_in" /\ ~ Among(v, r.args)
    \/ r.name \in {"list", "dict", "bool"} /\ v.type = r.name

PassesFormat(r, v) ==
    /\ v.type = "str"
    /\ \/ r.name = "password" /\ v.size >= 8
       \/ r.name \in {"date", "ip", "uuid", "json_string"} /\ r.name \in Matching[v.form]
       \/ r.name = "before" /\ v.form = "date" /\ v.rank < r.args[1]
       \/ r.name = "after" /\ v.form = "date" /\ v.rank > r.args[1]

Held(data, f) == IF data = NoData THEN Absent ELSE data[f]
HasNone(data, f) == Held(data, f).type = "none"

\* Confirmed and the rules of conditional.py, of which When is left out; the
\* first argument of the required_* rules is their other field.
Binds(r, data) ==
    \/ r.name = "required_if" /\ Equal(Held(data, r.args[1]), r.args[2])
    \/ r.name = "required_unless" /\ ~ Equal(Held(data, r.args[1]), r.args[2])
    \/ r.name = "required_with" /\ \E i \in DOMAIN r.args : ~ HasNone(data, r.args[i])
    \/ r.name = "required_without" /\ \E i \in DOMAIN r.args : HasNone(data, r.args[i])
    \/ r.name = "required_with_all" /\ \A i \in DOMAIN r.args : ~ HasNone(data, r.args[i])

Requiring == {"required_if", "required_unless", "required_with", "required_without",
              "required_with_all"}

PassesAware(r, v, data) ==
    \/ r.name \in Requiring /\ (Binds(r, data) => Filled(v))
    \/ r.name \in {"same", "confirmed"} /\ Equal(v, Held(data, r.args[1]))
    \/ r.name = "different" /\ ~ Equal(v, Held(data, r.args[1]))

Passes(r, v, data) ==
    PassesText(r, v) \/ PassesNumber(r, v) \/ PassesChoice(r, v) \/ PassesFormat(r, v)
        \/ PassesAware(r, v, data)

-----------------------------------------------------------------------------

\* Sanitizers change strings; a value that is none they leave alone.
Apply(sanitizer, v) ==
    IF v.type # "str" THEN v
    ELSE IF sanitizer = "nullify_empty" /\ v.form = "blank" THEN Absent
    ELSE IF sanitizer = "lowercase" /\ v.form = "mixed" THEN [v EXCEPT !.form = "letters"]
    ELSE IF sanitizer = "trim" /\ v.form = "blank" THEN [v EXCEPT !.size = 0]
    ELSE v

Sanitized(data) == [f \in Fields |->
    IF f \in DOMAIN Sanitizers
    THEN FoldLeft(LAMBDA v, s : Apply(s, v), data[f], Sanitizers[f]) ELSE data[f]]

\* RULE_MAP: how many arguments the factory of a rule takes.
Arity(name) ==
    CASE name \in {"min", "max", "min_length", "max_length", "before", "after"} -> {1}
      [] name = "between" -> {2}
      [] name \in {"in", "not_in"} -> Nat
      [] name \in {"required", "string", "email", "url", "alpha", "alpha_numeric", "slug", "numeric",
                   "integer", "positive", "list", "dict", "bool", "password", "date", "ip", "uuid",
                   "json_string"} -> {0}
      [] OTHER -> {}

IsObject(r) == r.name \in Requiring \cup {"same", "different", "confirmed", "async"}
Parses(r) == IsObject(r) \/ Len(r.args) \in Arity(r.name)

AllParse == \A f \in Fields : \A i \in DOMAIN rules[f] : Parses(rules[f][i])

Idle == [phase |-> "new", data |-> NoData, judge |-> NoData, errors |-> {}, validated |-> {},
         todo |-> <<>>, crossed |-> FALSE]

TypeOK ==
    /\ rules \in RuleSets /\ injected \in {NoData} \cup Inputs \cup {Sanitized(d) : d \in Inputs}
    /\ \A t \in Tasks :
        /\ jobs[t].phase \in {"new", "raised", "denied", "built", "ran", "async", "over"}
        /\ jobs[t].validated \subseteq Fields /\ jobs[t].errors \subseteq Fields \X Nat

Init == rules \in RuleSets /\ injected = NoData /\ jobs = [t \in Tasks |-> Idle]

\* _run_sync(): what the rules make of the data, the aware ones by theirs.
Faults(data, judge) ==
    {e \in Fields \X (1..5) : LET f == e[1]
                                  i == e[2]
                              IN  /\ i \in DOMAIN rules[f] /\ rules[f][i].name # "async"
                                  /\ ~ Passes(rules[f][i], data[f], judge)}

FieldsOf(faults) == {e[1] : e \in faults}
Valid(data, faults) == {f \in Fields : data[f].type # "none"} \ FieldsOf(faults)

\* The asynchronous rules, field by field.
Asynchronous ==
    LET OfField(f) == SelectSeq([i \in DOMAIN rules[f] |-> <<f, i>>],
                                LAMBDA e : rules[e[1]][e[2]].name = "async")
    IN  FlattenSeq([k \in DOMAIN SetToSeq(Fields) |-> OfField(SetToSeq(Fields)[k])])

Ran(job, judge) ==
    [job EXCEPT !.phase = "ran", !.judge = judge, !.errors = Faults(job.data, judge),
                !.validated = Valid(job.data, Faults(job.data, judge))]

\* Rule objects that keep the first data they were given.
Injected_Once(data) == IF injected = NoData THEN data ELSE injected

\* _parse() gives the data to every data-aware rule of the validator.
Injected(data) == data

\* Another validator was made of the same rules.
Crossed(t) == [u \in Tasks |->
    IF u # t /\ jobs[u].phase = "built" THEN [jobs[u] EXCEPT !.crossed = TRUE] ELSE jobs[u]]

Build(t, data) ==
    /\ jobs[t].phase = "new" /\ t \notin Forms
    /\ \/ /\ AllParse
          /\ injected' = Injected(data)
          /\ jobs' = [Crossed(t) EXCEPT ![t] = [Idle EXCEPT !.phase = "built", !.data = data]]
       \/ /\ ~ AllParse
          /\ jobs' = [jobs EXCEPT ![t].phase = "raised"]
          /\ UNCHANGED injected
    /\ UNCHANGED rules

\* fails(), validated() or errors: once.
RunSync(t) ==
    /\ jobs[t].phase = "built"
    /\ jobs' = [jobs EXCEPT ![t] = Ran(@, injected)]
    /\ UNCHANGED <<rules, injected>>

\* validate_async() goes on although there are errors.
ValidateAsync(t) ==
    /\ jobs[t].phase = "ran"
    /\ jobs' = [jobs EXCEPT ![t].phase = "async", ![t].todo = Asynchronous]
    /\ UNCHANGED <<rules, injected>>

\* FormRequest.validate() up to its asynchronous rules, in one go.
Submit(t, data) ==
    /\ jobs[t].phase = "new" /\ t \in Forms
    /\ LET clean == Sanitized(data)
           ran == Ran([Idle EXCEPT !.data = clean], Injected(clean))
       IN  \/ jobs' = [jobs EXCEPT ![t].phase = "denied"] /\ UNCHANGED injected
           \/ ~ AllParse /\ jobs' = [jobs EXCEPT ![t].phase = "raised"] /\ UNCHANGED injected
           \/ /\ AllParse /\ injected' = Injected(clean)
              /\ jobs' = [Crossed(t) EXCEPT ![t] =
                    IF ran.errors # {} THEN [ran EXCEPT !.phase = "over"]
                    ELSE [ran EXCEPT !.phase = "async", !.todo = Asynchronous]]
    /\ UNCHANGED rules

\* @validated and @validate_input: a validator of their own, in one go and
\* without its asynchronous rules.
Decorated(t, data) ==
    /\ jobs[t].phase = "new" /\ t \notin Forms
    /\ LET ran == Ran([Idle EXCEPT !.data = data], Injected(data))
       IN  \/ /\ AllParse /\ injected' = Injected(data)
              /\ jobs' = [Crossed(t) EXCEPT ![t] = [ran EXCEPT !.phase = "over"]]
           \/ ~ AllParse /\ jobs' = [jobs EXCEPT ![t].phase = "raised"] /\ UNCHANGED injected
    /\ UNCHANGED rules

\* One asynchronous rule.  A form leaves its data as it is: the whole raises.
Check(t) ==
    /\ jobs[t].phase = "async" /\ jobs[t].todo # <<>>
    /\ \/ jobs' = [jobs EXCEPT ![t].todo = Tail(@)]
       \/ jobs' = [jobs EXCEPT ![t].todo = Tail(@), ![t].errors = @ \cup {Head(jobs[t].todo)},
                        ![t].validated = IF t \in Forms THEN @ ELSE @ \ {Head(jobs[t].todo)[1]}]
    /\ UNCHANGED <<rules, injected>>

Checked(t) ==
    /\ jobs[t].phase = "async" /\ jobs[t].todo = <<>>
    /\ jobs' = [jobs EXCEPT ![t].phase = "over"]
    /\ UNCHANGED <<rules, injected>>

Next == \E t \in Tasks :
    \/ \E data \in Inputs : Build(t, data) \/ Decorated(t, data) \/ Submit(t, data)
    \/ RunSync(t) \/ ValidateAsync(t) \/ Check(t) \/ Checked(t)

Spec == Init /\ [][Next]_vars

-----------------------------------------------------------------------------

\* What a validator or a form hands out are just the fields with a value that
\* nothing was found wrong with, each of them meeting all its rules by the data
\* it came with; only a validator over whose rules another was made before it
\* ran may have been judged by the data of the other.
AcceptedMeetsRules ==
    \A t \in Tasks : jobs[t].phase \in {"ran", "over"} =>
        LET job == jobs[t]
        IN  /\ t \notin Forms => job.validated = Valid(job.data, job.errors)
            /\ t \in Forms => ~ job.crossed
            /\ ~ job.crossed => \A f \in job.validated : \A i \in DOMAIN rules[f] :
                rules[f][i].name # "async" => Passes(rules[f][i], job.data[f], job.data)

\* Laws between the rules: a missing value passes no rule about types, sizes or
\* formats, so that these make a field required; a value is of one type, bool
\* being no number; between is both its bounds; and of required_if and
\* required_unless with the same arguments one binds.  They are asked of the
\* data that validators have run over.
RulesCohere ==
    \A t \in {u \in Tasks : jobs[u].phase = "ran"}, f \in Fields, g \in Fields :
        LET data == jobs[t].data
            v == data[f]
            Takes(name, args) == Passes([name |-> name, args |-> args], v, data)
        IN  /\ v.type = "none" => \A name \in {"string", "numeric", "list", "dict", "bool", "email",
                                               "slug", "date", "uuid"} : ~ Takes(name, <<>>)
            /\ \A m, n \in {"string", "numeric", "list", "dict", "bool"} :
                Takes(m, <<>>) /\ Takes(n, <<>>) => m = n
            /\ Takes("between", <<1, 3>>) <=> Takes("min_length", <<1>>) /\ Takes("max_length", <<3>>)
            /\ ~ Filled(v) => \A w \in {data[h] : h \in Fields} :
                Takes("required_if", <<g, w>>) # Takes("required_unless", <<g, w>>)
            /\ Takes("required_with_all", <<f, g>>) \/ ~ Takes("required", <<>>)
===============================================================================
