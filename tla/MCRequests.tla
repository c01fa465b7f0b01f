------------------------------ MODULE MCRequests ------------------------------
(***************************************************************************)
(* Instances for TLC of what a running application meets requests and      *)
(* commands with: validation, routes, controllers, the scope of a request, *)
(* the lifecycle of a command, the environment and the log channels.  They *)
(* share nothing, so each behaviour exercises one of them; the variables   *)
(* of the others are 0.  MCRuntime extends this module.                    *)
(***************************************************************************)
EXTENDS Naturals, Sequences, TLC

CONSTANTS
    None,           \* no data, no request, no command, no file
    Broken,         \* a file that cannot be read
    Callers, Services, MaxServices,                             \* ScopedContainer
    Commands, LockKeyOf, RetriesOf, TimedCommands,              \* CommandLifecycle
    GuardedCommands, CallsOf, MaxCommandCalls

VARIABLES
    component,                                                  \* of this behaviour
    rules, injected, jobs,                                      \* Validator
    data, ruleList, next, asked, errors, validated, raised,     \* NestedValidator
    groups, table, script,                                      \* Routes
    phase, answer, payload, loaded, seen,                       \* ControllerHandler
    instances, made, closed, doing, raced,                      \* ScopedContainer
    run, events, stack, result, held, losers,                   \* CommandLifecycle
    values, read, files, sealed, disk, saved, reads,            \* Environment
    sinks, added, channels, ready, drivers, failed, displaced,  \* LogManager
    time, counts, logged                                        \* LogRateLimiter

checkVars == <<rules, injected, jobs>>
nestedVars == <<data, ruleList, next, asked, errors, validated, raised>>
routeVars == <<groups, table, script>>
handlerVars == <<phase, answer, payload, loaded, seen>>
scopeVars == <<instances, made, closed, doing, raced>>
commandVars == <<run, events, stack, result, held, losers>>
environmentVars == <<values, read, files, sealed, disk, saved, reads>>
channelVars == <<sinks, added, channels, ready, drivers, failed, displaced>>
limiterVars == <<time, counts, logged>>
requestVars == <<checkVars, nestedVars, routeVars, handlerVars, scopeVars, commandVars,
                 environmentVars, channelVars, limiterVars>>

\* A validator and a form whose fields depend on each other.
Str(form, n) == [type |-> "str", form |-> form, size |-> n, rank |-> 0]
Num(type, n) == [type |-> type, form |-> "", size |-> 0, rank |-> n]
Missing == [type |-> "none", form |-> "", size |-> 0, rank |-> 0]
Rule(name, args) == [name |-> name, args |-> args]
Form(a, b) == [name |-> a, other |-> b]

Checks == INSTANCE Validator WITH
    Tasks <- {"r1", "f1"}, Forms <- {"f1"}, Fields <- {"name", "other"}, NoData <- None,
    Inputs <- {Form(a, b) : a \in {Str("letters", 2), Str("blank", 3), Missing, Num("int", 1)},
                            b \in {Str("letters", 2), Num("bool", 1)}},
    RuleSets <- {Form(<<Rule("confirmed", <<"other">>)>>, <<Rule("async", <<>>)>>),
                 Form(<<Rule("required_if", <<"other", Num("int", 1)>>), Rule("between", <<1, 3>>),
                        Rule("async", <<>>)>>,
                      <<Rule("in", <<Num("int", 1), Str("letters", 2)>>)>>),
                 Form(<<Rule("between", <<1>>)>>, <<>>)},
    Sanitizers <- [f \in {"name"} |-> <<"trim", "nullify_empty">>]

\* Trees in which "items" is a list, a dict, a value or nothing.
Tree(ps, qs) == (<<>> :> "dict") @@ ps @@ qs
List == (<<"items">> :> "list") @@ (<<"items", "0">> :> "dict") @@ (<<"items", "1">> :> "dict")
        @@ (<<"items", "0", "name">> :> "good")
Dict == (<<"items">> :> "dict") @@ (<<"items", "a">> :> "dict") @@ (<<"items", "a", "name">> :> "bad")
Leaf == (<<"items">> :> "good")
Asks(path, names) == [path |-> path, rules |-> names]

Nested == INSTANCE NestedValidator WITH
    rules <- ruleList,
    Inputs <- {Tree(x, y) : x \in {List, Dict, Leaf, <<>> :> "dict"},
                            y \in {<<"name">> :> "good", <<>> :> "dict"}},
    RuleLists <- {
        <<Asks(<<"items">>, {"required", "list"}), Asks(<<"items", "*", "name">>, {"required", "good"})>>,
        <<Asks(<<"items", "*", "name">>, {"good"}), Asks(<<"items">>, {"required"}), Asks(<<"name">>, {})>>,
        <<Asks(<<"items", "*">>, {}), Asks(<<"name">>, {"good"}),
          Asks(<<"items", "*", "name">>, {"required"}), Asks(<<"name", "x">>, {})>>}

\* Groups with a prefix, with middleware and with both; a controller whose
\* methods carry @middleware above and below the route decorator.
Group(prefix, middleware, name) == [prefix |-> prefix, middleware |-> middleware, name |-> name]
Get(path, middleware, name) ==
    [method |-> "GET", path |-> path, middleware |-> middleware, name |-> name]
Mark(is, middleware) == [is |-> is, middleware |-> middleware]
Method(path, name, marks) == [path |-> path, name |-> name, marks |-> marks]
Index == Method(<<>>, <<"index">>, <<Mark("route", <<>>), Mark("middleware", <<"kept">>)>>)
Show == Method(<<"id">>, <<"show">>,
               <<Mark("middleware", <<"lost">>), Mark("route", <<"m">>), Mark("middleware", <<"kept">>)>>)

Paths == INSTANCE Routes WITH
    routes <- table, MaxSteps <- 4,
    Groups <- {Group(<<"api">>, <<"auth">>, <<"api">>), Group(<<"admin">>, <<>>, <<>>),
               Group(<<>>, <<"log">>, <<>>)},
    Plain <- {Get(<<"users">>, <<"own">>, <<"users">>), Get(<<"x">>, <<>>, <<>>)},
    Controllers <- {
        [path |-> <<"u">>, name |-> <<"u">>, middleware |-> <<"c">>, methods |-> <<Show, Index>>],
        [path |-> <<>>, name |-> <<"u">>, middleware |-> <<"c">>, methods |-> <<Index>>]},
    Resources <- {[path |-> <<"posts">>, methods |-> {"index", "update", "edit"},
                   name |-> <<"posts">>, middleware |-> <<"c">>]}

\* Two requests, at a controller they share and at one of their own.
Shares == INSTANCE ControllerHandler WITH
    data <- payload, Requests <- {"r1", "r2"}, NoRequest <- None,
    DataActions <- {"r1"}, Positional <- {}, Singleton <- TRUE
Owns == INSTANCE ControllerHandler WITH
    data <- payload, Requests <- {"r1", "r2"}, NoRequest <- None,
    DataActions <- {"r1", "r2"}, Positional <- {"r2"}, Singleton <- FALSE

Scope == INSTANCE ScopedContainer WITH
    Tasks <- Callers, Keys <- Services, MaxObjects <- MaxServices

\* Deploying, which may call itself and migrating, which calls importing.
MCLockKeyOf == [c \in {"deploy", "migrate", "import"} |-> IF c = "migrate" THEN "" ELSE c]
MCRetriesOf == [c \in {"deploy", "migrate", "import"} |-> IF c = "deploy" THEN 2 ELSE 0]
MCCallsOf == ("deploy" :> {"deploy", "migrate"}) @@ ("migrate" :> {"import"}) @@ ("import" :> {})

Lifecycle == INSTANCE CommandLifecycle WITH
    lost <- losers, NoCommand <- None, KeyOf <- LockKeyOf, Retries <- RetriesOf,
    Timed <- TimedCommands, Guarded <- GuardedCommands, Calls <- CallsOf, MaxCalls <- MaxCommandCalls

\* Keys that refer to each other, in a file and in the system's environment.
Word(w) == [is |-> "word", of |-> w]
Ref(k) == [is |-> "ref", of |-> k]
Line(k, text) == [key |-> k, text |-> text]

Settings == INSTANCE Environment WITH
    cache <- read, loaded <- files, frozen <- sealed,
    NoFile <- None, Keys <- {"a", "b", "c"}, Files <- {"env"}, MaxLoaded <- 2,
    Asked <- {<<"a", "str">>, <<"a", "int">>, <<"b", "bool">>}, Settings <- {<<"a", Word("off")>>},
    Contents <- {<<Line("a", Ref("b")), Line("b", Ref("c"))>>,
                 <<Line("b", Word("off")), Line("b", Word("1"))>>},
    System <- [k \in {"c"} |-> Word("1")], Override <- TRUE

\* Two managers of a process: a stack of a channel whose driver is built in
\* and one whose driver is not, and a channel besides.
Channels == INSTANCE LogManager WITH
    made <- added, configured <- ready, Managers <- {"m1", "m2"},
    Names <- {"stack", "console", "slack", "audit"}, Stacks <- ("stack" :> <<"console", "slack">>),
    DriverOf <- ("console" :> "console") @@ ("slack" :> "slack") @@ ("audit" :> "file"),
    Default <- "stack", BuiltIn <- {"console", "file"}, Custom <- {"slack"}, MaxSinks <- 5

Limiter == INSTANCE LogRateLimiter WITH
    asked <- logged, Messages <- {"a", "b"}, MaxCount <- 2, Interval <- 2, MaxTime <- 3, MaxAsked <- 5

ASSUME RequestAssumptions ==
    /\ Checks!ValidatorAssumption /\ Shares!HandlerAssumption /\ Owns!HandlerAssumption
    /\ Settings!EnvironmentAssumption /\ Channels!ChannelsAssumption /\ Limiter!LimitAssumption
ASSUME CommandsAssumption == Lifecycle!CommandsAssumption

RequestComponents == {"checks", "nested", "routes", "shares", "owns", "scope", "lifecycle",
                      "environment", "channels", "limiter"}

RequestsInit ==
    /\ IF component = "checks" THEN Checks!Init ELSE rules = 0 /\ injected = 0 /\ jobs = 0
    /\ IF component = "nested" THEN Nested!Init
       ELSE /\ data = 0 /\ ruleList = 0 /\ next = 0 /\ asked = 0 /\ errors = 0
            /\ validated = 0 /\ raised = 0
    /\ IF component = "routes" THEN Paths!Init ELSE groups = 0 /\ table = 0 /\ script = 0
    /\ IF component = "shares" THEN Shares!Init ELSE IF component = "owns" THEN Owns!Init
       ELSE phase = 0 /\ answer = 0 /\ payload = 0 /\ loaded = 0 /\ seen = 0
    /\ IF component = "scope" THEN Scope!Init
       ELSE instances = 0 /\ made = 0 /\ closed = 0 /\ doing = 0 /\ raced = 0
    /\ IF component = "lifecycle" THEN Lifecycle!Init
       ELSE run = 0 /\ events = 0 /\ stack = 0 /\ result = 0 /\ held = 0 /\ losers = 0
    /\ IF component = "environment" THEN Settings!Init
       ELSE /\ values = 0 /\ read = 0 /\ files = 0 /\ sealed = 0 /\ disk = 0
            /\ saved = 0 /\ reads = 0
    /\ IF component = "channels" THEN Channels!Init
       ELSE /\ sinks = 0 /\ added = 0 /\ channels = 0 /\ ready = 0 /\ drivers = 0
            /\ failed = 0 /\ displaced = 0
    /\ IF component = "limiter" THEN Limiter!Init ELSE time = 0 /\ counts = 0 /\ logged = 0

Served == <<checkVars, nestedVars, routeVars, handlerVars, scopeVars>>
Around == <<commandVars, environmentVars, channelVars, limiterVars>>

RequestsNext ==
    /\ UNCHANGED component
    /\ \/ /\ UNCHANGED Around
          /\ \/ /\ component = "checks" /\ Checks!Next
                /\ UNCHANGED <<nestedVars, routeVars, handlerVars, scopeVars>>
             \/ /\ component = "nested" /\ Nested!Next
                /\ UNCHANGED <<checkVars, routeVars, handlerVars, scopeVars>>
             \/ /\ component = "routes" /\ Paths!Next
                /\ UNCHANGED <<checkVars, nestedVars, handlerVars, scopeVars>>
             \/ /\ \/ component = "shares" /\ Shares!Next
                   \/ component = "owns" /\ Owns!Next
                /\ UNCHANGED <<checkVars, nestedVars, routeVars, scopeVars>>
             \/ /\ component = "scope" /\ Scope!Next
                /\ UNCHANGED <<checkVars, nestedVars, routeVars, handlerVars>>
       \/ /\ UNCHANGED Served
          /\ \/ /\ component = "lifecycle" /\ Lifecycle!Next
                /\ UNCHANGED <<environmentVars, channelVars, limiterVars>>
             \/ /\ component = "environment" /\ Settings!Next
                /\ UNCHANGED <<commandVars, channelVars, limiterVars>>
             \/ /\ component = "channels" /\ Channels!Next
                /\ UNCHANGED <<commandVars, environmentVars, limiterVars>>
             \/ /\ component = "limiter" /\ Limiter!Next
                /\ UNCHANGED <<commandVars, environmentVars, channelVars>>

-----------------------------------------------------------------------------

RequestTypesOK ==
    CASE component = "checks" -> Checks!TypeOK
      [] component = "nested" -> Nested!TypeOK
      [] component = "routes" -> Paths!TypeOK
      [] component = "shares" -> Shares!TypeOK
      [] component = "owns" -> Owns!TypeOK
      [] component = "scope" -> Scope!TypeOK
      [] component = "lifecycle" -> Lifecycle!TypeOK
      [] component = "environment" -> Settings!TypeOK
      [] component = "channels" -> Channels!TypeOK
      [] component = "limiter" -> Limiter!TypeOK
      [] OTHER -> TRUE

\* Commands that call each other keep each lock exactly for the lifecycles
\* that took it, and what a run tells its listeners agrees with its exit code
\* (console_application.py).
LocksAreOfLifecycles == component = "lifecycle" => Lifecycle!LocksAreOfLifecycles
EndIsReported == component = "lifecycle" => Lifecycle!EndIsReported

\* What a validator hands out meets its rules, the rules cohere, and of nested
\* data nothing that a key stands for escapes (validator.py, rules.py, nested.py).
AcceptedMeetsRules ==
    /\ component = "checks" => Checks!AcceptedMeetsRules /\ Checks!RulesCohere
    /\ component = "nested" => Nested!NestedIsComplete

\* A route lies within the groups open around its call and behind their
\* middleware (route.py, compiler.py), and an action runs only authorized, with
\* the data that validate() made (controller/base.py).
RoutesAreGuarded ==
    /\ component = "routes" => Paths!RoutesAreInScope
    /\ component = "shares" => Shares!ActionsAreGuarded
    /\ component = "owns" => Owns!ActionsAreGuarded

\* Every service of a scope is closed once (scoped.py).
ResolvedIsClosed == component = "scope" => Scope!ResolvedIsClosed
===============================================================================
