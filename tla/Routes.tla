-------------------------------- MODULE Routes --------------------------------
(***************************************************************************)
(* How routes come about: RouteCollector with its groups, and the URL      *)
(* generator (src/core/registry/route.py); controllers, whose methods are  *)
(* marked by decorators, compiled to routes (src/core/controller).         *)
(*                                                                         *)
(* Paths and names are sequences of their parts.  Handlers, titles, tags   *)
(* and limits are carried along and left out.                              *)
(***************************************************************************)
EXTENDS Naturals, Sequences, SequencesExt, FiniteSetsExt

CONSTANTS
    Groups,         \* [prefix, middleware, name]
    Plain,          \* routes that are added: [method, path, name, middleware]
    Controllers,    \* [path, name, middleware, methods], each method [name, path, marks]
    Resources,      \* [path, methods, name, middleware]: a ResourceController, its path to be
    MaxSteps

VARIABLES
    groups,         \* the three stacks of the collector
    routes,
    script          \* what was called (history)

vars == <<groups, routes, script>>

Route == [method : STRING, path : Seq(STRING), name : Seq(STRING), middleware : Seq(STRING)]

TypeOK ==
    /\ groups \in Seq(Groups) /\ routes \in Seq(Route)
    /\ Len(script) <= MaxSteps

Init == groups = <<>> /\ routes = <<>> /\ script = <<>>

Concat(f(_), list) == FlattenSeq([i \in DOMAIN list |-> f(list[i])])
Prefix(stack) == Concat(LAMBDA g : g.prefix, stack)
Middleware(stack) == Concat(LAMBDA g : g.middleware, stack)
Name(stack, name) == IF name = <<>> THEN <<>> ELSE Concat(LAMBDA g : g.name, stack) \o name

\* _add(), controller() and resource_controller() alike.
Placed(stack, r) == [r EXCEPT !.path = Prefix(stack) \o @, !.name = Name(stack, @),
                              !.middleware = Middleware(stack) \o @]

\* resource(): the routes of the methods that a plain class has.
CrudMap == <<
    [method |-> "GET", suffix |-> <<>>, handler |-> "index", name |-> "index"],
    [method |-> "POST", suffix |-> <<>>, handler |-> "store", name |-> "store"],
    [method |-> "GET", suffix |-> <<"{id}">>, handler |-> "show", name |-> "show"],
    [method |-> "PUT", suffix |-> <<"{id}">>, handler |-> "update", name |-> "update"],
    [method |-> "PATCH", suffix |-> <<"{id}">>, handler |-> "update", name |-> "patch"],
    [method |-> "DELETE", suffix |-> <<"{id}">>, handler |-> "destroy", name |-> "destroy"]>>

Crud(c) == LET entries == SelectSeq(CrudMap, LAMBDA e : e.handler \in c.methods)
           IN  [i \in DOMAIN entries |->
                   [method |-> entries[i].method, path |-> c.path \o entries[i].suffix,
                    name |-> c.path \o <<entries[i].name>>, middleware |-> <<>>]]

\* A decorator of a method, in the order they are applied: one for a route
\* starts anew, @middleware() adds to the route there is, and to none before.
Marked(meta, mark) ==
    IF mark.is = "route" THEN [is |-> "route", middleware |-> mark.middleware]
    ELSE IF meta.is = "route" THEN [meta EXCEPT !.middleware = @ \o mark.middleware]
    ELSE meta

Meta(m) == FoldLeft(Marked, [is |-> "none", middleware |-> <<>>], m.marks)

\* compile_controller().
Compiled(c) ==
    LET marked == SelectSeq(c.methods, LAMBDA m : Meta(m).is = "route")
    IN  [i \in DOMAIN marked |->
            [method |-> "GET",
             path |-> IF c.path \o marked[i].path = <<>> THEN <<"/">> ELSE c.path \o marked[i].path,
             name |-> c.name \o marked[i].name,
             middleware |-> c.middleware \o Meta(marked[i]).middleware]]

\* compile_resource(): RESOURCE_MAP has the form pages, too, and no PATCH.
ResourceMap == <<
    [method |-> "GET", suffix |-> <<>>, name |-> "index"],
    [method |-> "GET", suffix |-> <<"create">>, name |-> "create"],
    [method |-> "POST", suffix |-> <<>>, name |-> "store"],
    [method |-> "GET", suffix |-> <<"{id:int}">>, name |-> "show"],
    [method |-> "GET", suffix |-> <<"{id:int}", "edit">>, name |-> "edit"],
    [method |-> "PUT", suffix |-> <<"{id:int}">>, name |-> "update"],
    [method |-> "DELETE", suffix |-> <<"{id:int}">>, name |-> "destroy"]>>

CompiledResource(c) ==
    LET entries == SelectSeq(ResourceMap, LAMBDA e : e.name \in c.methods)
    IN  [i \in DOMAIN entries |->
            [method |-> entries[i].method, path |-> c.path \o entries[i].suffix,
             name |-> c.name \o <<entries[i].name>>, middleware |-> c.middleware]]

-----------------------------------------------------------------------------

Enter(g) ==
    /\ groups' = Append(groups, g)
    /\ script' = Append(script, [is |-> "enter", group |-> g, own |-> <<>>])
    /\ UNCHANGED routes

\* A pop of the prefix and the name only.
Popped_Middleware(stack) ==
    IF Len(stack) = 1 THEN <<[prefix |-> <<>>, name |-> <<>>, middleware |-> stack[1].middleware]>>
    ELSE Front(stack)

Popped(stack) == Front(stack)

\* The end of the with block, also by an exception.
Exit ==
    /\ groups # <<>>
    /\ groups' = Popped(groups)
    /\ script' = Append(script, [is |-> "exit", group |-> Last(groups), own |-> <<>>])
    /\ UNCHANGED routes

Add(own) ==
    /\ routes' = routes \o [i \in DOMAIN own |-> Placed(groups, own[i])]
    /\ script' = Append(script, [is |-> "add", own |-> own])
    /\ UNCHANGED groups

Clear ==
    /\ routes' = <<>>
    /\ script' = Append(script, [is |-> "clear", own |-> <<>>])
    /\ UNCHANGED groups

Next ==
    /\ Len(script) < MaxSteps
    /\ \/ \E g \in Groups : Enter(g)
       \/ Exit \/ Clear
       \/ \E r \in Plain : Add(<<r>>)
       \/ \E c \in Controllers : Add(Compiled(c))
       \/ \E c \in Resources : Add(Crud(c)) \/ Add(CompiledResource(c))

Spec == Init /\ [][Next]_vars

-----------------------------------------------------------------------------

\* find() and the URL generator.
FindRoute(name) == SelectInSeq(routes, LAMBDA r : r.name = name)
GeneratedRoute(name) == SelectLastInSeq(routes, LAMBDA r : r.name = name)

\* The groups open at the k-th call: those entered before and not yet left.
Enclosing(k) ==
    LET Depth(i, j) == Cardinality({n \in i..j : script[n].is = "enter"})
                       - Cardinality({n \in i..j : script[n].is = "exit"})
        open == SelectSeq([i \in 1..k |-> i], LAMBDA i :
            script[i].is = "enter" /\ \A j \in i..k : Depth(i, j) > 0)
    IN  [i \in DOMAIN open |-> script[open[i]].group]

\* The middleware declared on a method, before or after it was a route.
Declared(m) == Concat(LAMBDA mark : mark.middleware, m.marks)
Tidy(m) == \A i \in 2..Len(m.marks) : m.marks[i].is # "route"

\* However groups were nested, left and reused, every route collected since
\* the last clear() lies under the prefixes and names of just the groups open
\* around its call, behind their middleware, outermost first, and then its
\* own; a method keeps all middleware declared on it when its route is the
\* innermost decorator; and find() and the URL generator know the same names,
\* and the same routes unless two have a name.
RoutesAreInScope ==
    LET cleared == Max({0} \cup {k \in DOMAIN script : script[k].is = "clear"})
        calls == SubSeq([k \in DOMAIN script |-> k], cleared + 1, Len(script))
    IN  /\ routes = Concat(LAMBDA k : [i \in DOMAIN script[k].own |->
                Placed(Enclosing(k), script[k].own[i])], calls)
        /\ \A c \in Controllers : \A i \in DOMAIN c.methods :
            LET m == c.methods[i]
            IN  Tidy(m) /\ Meta(m).is = "route" => Meta(m).middleware = Declared(m)
        /\ \A r \in ToSet(routes) : r.name # <<>> =>
            /\ GeneratedRoute(r.name) > 0
            /\ Cardinality({i \in DOMAIN routes : routes[i].name = r.name}) = 1 =>
                FindRoute(r.name) = GeneratedRoute(r.name)
===============================================================================
