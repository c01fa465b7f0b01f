------------------------------ MODULE Container ------------------------------
(***************************************************************************)
(* The dependency-injection container of src/core/foundation/container.py: *)
(* make, resolve and the registrations, called by asyncio tasks.           *)
(*                                                                         *)
(* One task runs at a time (running) and keeps running until its coroutine *)
(* really suspends.  In make() that only happens while an async factory    *)
(* awaits: building a class runs to its end, however deep it goes, unless  *)
(* a factory below it suspends.  frames is the coroutine chain of a task,  *)
(* one frame per call that must continue after an await, and signal is     *)
(* what the innermost call is doing: entering make or resolve, running its *)
(* body ("go"), returning an object or raising an exception.               *)
(*                                                                         *)
(* A Binding is an object (index into heap): a make() in flight keeps the  *)
(* one it found, whatever is registered under the key meanwhile.           *)
(*                                                                         *)
(* Left out: swaps, aliases, tags, hooks, dishka (no swap or alias is      *)
(* registered, no hook raises), concretes that are plain values.           *)
(*                                                                         *)
(* A definition whose name ends in _ and a slip (LeaveStack_OnReturn) is a *)
(* mutant of the definition it is named after; nothing uses it.            *)
(***************************************************************************)
EXTENDS Naturals, FiniteSets, SequencesExt

CONSTANTS
    Tasks,          \* the asyncio tasks that call the container
    Keys,           \* the abstracts asked for
    Classes,        \* those that are classes
    Factories,      \* the callables that are not classes: async factories
    NoTask,         \* not a task: the event loop is free
    NoClass,        \* not a class: no contextual binding
    Needs,          \* what a class or factory asks for: a sequence of parameters
    Registrations,  \* what bind() and singleton() are called with
    MaxCalls,       \* bound: top-level make() calls of one task
    MaxBindings     \* bound: bindings registered in one behaviour

Callables == Classes \cup Factories

\* A parameter: the annotation, whether it has a default, and the class
\* when(...).needs(...).give(...) prescribes for it.
Param == [key : Keys, optional : BOOLEAN, given : Classes \cup {NoClass}]

ASSUME ClassesAreKeys == Classes \subseteq Keys /\ Classes \cap Factories = {}
ASSUME NullAssumption == NoTask \notin Tasks /\ NoClass \notin Classes
ASSUME NeedsAssumption == Needs \in [Callables -> Seq(Param)]
ASSUME RegistrationsAssumption ==
    Registrations \subseteq [key : Keys, concrete : Callables,
                             type : {"transient", "singleton"}]
ASSUME FiniteAssumption == IsFiniteSet(Tasks) /\ IsFiniteSet(Classes)
ASSUME BoundAssumption == MaxCalls \in Nat /\ MaxBindings \in Nat

VARIABLES
    bindings,       \* _bindings: per key the index of its Binding, 0 if none
    heap,           \* every Binding ever registered
    stack,          \* _resolving_stack, shared by all tasks
    frames,         \* per task its suspended calls, innermost last
    signal,         \* per task what its innermost call does
    running,        \* the task the event loop runs, or NoTask
    built,          \* the number of objects built so far: their identities
    calls,          \* per task the top-level make() calls so far
    handed          \* history: <<binding, object>> make() returned for
                    \* singletons since they were last forgotten

vars == <<bindings, heap, stack, frames, signal, running, built, calls, handed>>
taskVars == <<stack, frames, signal, running, built, calls>>

Caught == {"BindingNotFound", "BindingResolution"}
Errors == Caught \cup {"CircularDependency", "FactoryError"}

Frame == [op : {"make"}, of : Keys, at : Nat]          \* at: the binding found
    \cup [op : {"resolve"}, of : Classes, at : Nat \ {0}]   \* at: the next parameter
    \cup [op : {"factory"}, of : Factories, at : Nat \ {0}]

Signal == [op : {"idle", "go", "suspended"}, of : {0}]
     \cup [op : {"make"}, of : Keys]
     \cup [op : {"resolve"}, of : Classes]
     \cup [op : {"call"}, of : Factories]
     \cup [op : {"return"}, of : Nat]
     \cup [op : {"raise"}, of : Errors]

Binding == [concrete : Callables, type : {"transient", "singleton"}, instance : Nat]

Sig(op) == [op |-> op, of |-> 0]
Does(op, x) == [op |-> op, of |-> x]

Init ==
    /\ bindings = [k \in Keys |-> 0]
    /\ heap = << >>
    /\ stack = << >>
    /\ frames = [t \in Tasks |-> << >>]
    /\ signal = [t \in Tasks |-> Sig("idle")]
    /\ running = NoTask
    /\ built = 0
    /\ calls = [t \in Tasks |-> 0]
    /\ handed = {}

-----------------------------------------------------------------------------
\* Steps of the running task.

Top(t) == Last(frames[t])

InBody(t, ops) == frames[t] # << >> /\ Top(t).op \in ops

\* The innermost call of the running task is doing op.
Doing(t, op) == running = t /\ signal[t].op = op

Signals(t, s) == signal' = [signal EXCEPT ![t] = s]
Pushes(t, frame) == frames' = [frames EXCEPT ![t] = Append(@, frame)]
Pops(t) == frames' = [frames EXCEPT ![t] = Front(@)]
Advances(t) == frames' = [frames EXCEPT ![t][Len(frames[t])].at = @ + 1]

KeepsRegistry == UNCHANGED <<bindings, heap, handed>>
KeepsLoop == UNCHANGED <<running, calls>>

\* A task calls make(k).
Call(t, k) ==
    /\ running = NoTask
    /\ signal[t] = Sig("idle")
    /\ calls[t] < MaxCalls
    /\ running' = t
    /\ calls' = [calls EXCEPT ![t] = @ + 1]
    /\ Signals(t, Does("make", k))
    /\ KeepsRegistry /\ UNCHANGED <<stack, frames, built>>

IsCached_Never(b) == FALSE

\* is_shared and is_resolved of the binding make() found.
IsCached(b) == heap[b].type = "singleton" /\ heap[b].instance # 0

\* make(): a singleton that is resolved is returned as it is.
MakeCached(t, k) ==
    /\ Doing(t, "make") /\ signal[t].of = k
    /\ bindings[k] # 0
    /\ IsCached(bindings[k])
    /\ Signals(t, Does("return", heap[bindings[k]].instance))
    /\ handed' = handed \cup {<<bindings[k], heap[bindings[k]].instance>>}
    /\ KeepsLoop /\ UNCHANGED <<bindings, heap, stack, frames, built>>

\* make() otherwise awaits _resolve_binding(), which enters resolve() for a
\* class and calls a factory.
MakeBound(t, k) ==
    /\ Doing(t, "make") /\ signal[t].of = k
    /\ bindings[k] # 0
    /\ ~ IsCached(bindings[k])
    /\ Pushes(t, [op |-> "make", of |-> k, at |-> bindings[k]])
    /\ Signals(t, LET concrete == heap[bindings[k]].concrete
                  IN  Does(IF concrete \in Classes THEN "resolve" ELSE "call", concrete))
    /\ KeepsRegistry /\ KeepsLoop /\ UNCHANGED <<stack, built>>

\* make() of an unbound class resolves the class, of anything else it fails.
MakeUnbound(t, k) ==
    /\ Doing(t, "make") /\ signal[t].of = k
    /\ bindings[k] = 0
    /\ Signals(t, IF k \in Classes THEN Does("resolve", k) ELSE Does("raise", "BindingNotFound"))
    /\ KeepsRegistry /\ KeepsLoop /\ UNCHANGED <<stack, frames, built>>

OnStack_Top(c) == stack # << >> /\ Last(stack) = c

\* obj in self._resolving_stack
OnStack(c) == c \in ToSet(stack)

\* resolve() refuses a class that is on the stack, whoever put it there.
ResolveCircular(t, c) ==
    /\ Doing(t, "resolve") /\ signal[t].of = c
    /\ OnStack(c)
    /\ Signals(t, Does("raise", "CircularDependency"))
    /\ KeepsRegistry /\ KeepsLoop /\ UNCHANGED <<stack, frames, built>>

ResolveEnter(t, c) ==
    /\ Doing(t, "resolve") /\ signal[t].of = c
    /\ ~ OnStack(c)
    /\ stack' = Append(stack, c)
    /\ Pushes(t, [op |-> "resolve", of |-> c, at |-> 1])
    /\ Signals(t, Sig("go"))
    /\ KeepsRegistry /\ KeepsLoop /\ UNCHANGED built

\* concrete(self): a factory is on no stack.
FactoryEnter(t, f) ==
    /\ Doing(t, "call") /\ signal[t].of = f
    /\ Pushes(t, [op |-> "factory", of |-> f, at |-> 1])
    /\ Signals(t, Sig("go"))
    /\ KeepsRegistry /\ KeepsLoop /\ UNCHANGED <<stack, built>>

\* The parameter the innermost class or factory asks for next.
ParamAt(t) == Needs[Top(t).of][Top(t).at]
HasParam(t) == Top(t).at <= Len(Needs[Top(t).of])

\* _resolve_parameters() and factory bodies: ask for the next parameter; the
\* contextual class, if there is one, is resolved without make().
AskParam(t) ==
    /\ Doing(t, "go") /\ InBody(t, {"resolve", "factory"})
    /\ HasParam(t)
    /\ Signals(t, IF ParamAt(t).given = NoClass THEN Does("make", ParamAt(t).key)
                                                ELSE Does("resolve", ParamAt(t).given))
    /\ KeepsRegistry /\ KeepsLoop /\ UNCHANGED <<stack, frames, built>>

\* The parameter is there: go on with the next one.
ParamMade(t) ==
    /\ Doing(t, "return") /\ InBody(t, {"resolve", "factory"})
    /\ Advances(t)
    /\ Signals(t, Sig("go"))
    /\ KeepsRegistry /\ KeepsLoop /\ UNCHANGED <<stack, built>>

\* The exceptions _resolve_parameters() catches; the contextual branch
\* stands outside its try.
IsCaught(t) == signal[t].of \in Caught /\ ParamAt(t).given = NoClass

\* The parameter could not be made: take its default.
ParamDefault(t) ==
    /\ Doing(t, "raise") /\ InBody(t, {"resolve"})
    /\ IsCaught(t) /\ ParamAt(t).optional
    /\ Advances(t)
    /\ Signals(t, Sig("go"))
    /\ KeepsRegistry /\ KeepsLoop /\ UNCHANGED <<stack, built>>

LeaveStack_OnReturn(t) == stack' = IF signal[t].op = "raise" THEN stack ELSE Front(stack)

\* The finally clause of resolve(): pop() takes whatever entry is last.
LeaveStack(t) == stack' = Front(stack)

\* resolve() fails: what was caught becomes a BindingResolution, anything
\* else passes through.
ResolveFails(t) ==
    /\ Doing(t, "raise") /\ InBody(t, {"resolve"})
    /\ ~ (IsCaught(t) /\ ParamAt(t).optional)
    /\ Signals(t, IF IsCaught(t) THEN Does("raise", "BindingResolution") ELSE signal[t])
    /\ Pops(t)
    /\ LeaveStack(t)
    /\ KeepsRegistry /\ KeepsLoop /\ UNCHANGED built

\* All parameters are there: the constructor builds the object.
Construct(t) ==
    /\ Doing(t, "go") /\ InBody(t, {"resolve"})
    /\ ~ HasParam(t)
    /\ built' = built + 1
    /\ Signals(t, Does("return", built + 1))
    /\ Pops(t)
    /\ LeaveStack(t)
    /\ KeepsRegistry /\ KeepsLoop

\* The factory has what it needs and awaits I/O: the only place where the
\* loop goes on to another task.
FactorySuspends(t) ==
    /\ Doing(t, "go") /\ InBody(t, {"factory"})
    /\ ~ HasParam(t)
    /\ running' = NoTask
    /\ Signals(t, Sig("suspended"))
    /\ KeepsRegistry /\ UNCHANGED <<stack, frames, built, calls>>

\* The awaited I/O is done, or has failed.
FactoryResumes(t) ==
    /\ running = NoTask
    /\ signal[t] = Sig("suspended") /\ InBody(t, {"factory"})
    /\ running' = t
    /\ Pops(t)
    /\ \/ Signals(t, Does("return", built + 1)) /\ built' = built + 1
       \/ Signals(t, Does("raise", "FactoryError")) /\ UNCHANGED built
    /\ KeepsRegistry /\ UNCHANGED <<stack, calls>>

\* A factory body passes the exceptions of its make() calls on, and so does
\* the make() that awaits _resolve_binding().
FrameFails(t) ==
    /\ Doing(t, "raise") /\ InBody(t, {"factory", "make"})
    /\ Pops(t)
    /\ KeepsRegistry /\ KeepsLoop /\ UNCHANGED <<stack, signal, built>>

Stored_Never(b, o) == heap

\* What make() does with the object: a singleton's Binding keeps it.
Stored(b, o) == [heap EXCEPT ![b].instance = IF heap[b].type = "singleton" THEN o ELSE @]

MakeReturns(t) ==
    /\ Doing(t, "return") /\ InBody(t, {"make"})
    /\ heap' = Stored(Top(t).at, signal[t].of)
    /\ handed' = IF heap[Top(t).at].type = "singleton"
                 THEN handed \cup {<<Top(t).at, signal[t].of>>} ELSE handed
    /\ Pops(t)
    /\ KeepsLoop /\ UNCHANGED <<bindings, stack, signal, built>>

IsOver_OnReturn(t) == signal[t].op = "return" /\ frames[t] = << >>

\* The top-level make() has returned or raised.
IsOver(t) == signal[t].op \in {"return", "raise"} /\ frames[t] = << >>

Finish(t) ==
    /\ running = t
    /\ IsOver(t)
    /\ Signals(t, Sig("idle"))
    /\ running' = NoTask
    /\ KeepsRegistry /\ UNCHANGED <<stack, frames, built, calls>>

-----------------------------------------------------------------------------
\* Registrations: synchronous calls made between two steps of the loop.

\* The index of the Binding _register_binding() creates when there are n.
NewBinding(n) == n + 1

\* bind() and singleton(), which replace what is there (override, not strict).
Register(r) ==
    /\ running = NoTask
    /\ Len(heap) < MaxBindings
    /\ heap' = Append(heap, [concrete |-> r.concrete, type |-> r.type, instance |-> 0])
    /\ bindings' = [bindings EXCEPT ![r.key] = NewBinding(Len(heap))]
    /\ UNCHANGED handed /\ UNCHANGED taskVars

Unbind(k) ==
    /\ running = NoTask
    /\ bindings[k] # 0
    /\ bindings' = [bindings EXCEPT ![k] = 0]
    /\ UNCHANGED <<heap, handed>> /\ UNCHANGED taskVars

\* The bindings forget_instances() walks over.
Registered == {bindings[k] : k \in Keys} \ {0}

ForgetInstances ==
    /\ running = NoTask
    /\ heap' = [b \in DOMAIN heap |->
                  IF b \in Registered THEN [heap[b] EXCEPT !.instance = 0] ELSE heap[b]]
    /\ handed' = {h \in handed : h[1] \notin Registered}
    /\ UNCHANGED bindings /\ UNCHANGED taskVars

\* flush(): everything registered goes, the resolving stack stays.
Flush ==
    /\ running = NoTask
    /\ bindings' = [k \in Keys |-> 0]
    /\ UNCHANGED <<heap, handed>> /\ UNCHANGED taskVars

-----------------------------------------------------------------------------

TaskStep(t) ==
    \/ \E k \in Keys : MakeCached(t, k) \/ MakeBound(t, k) \/ MakeUnbound(t, k)
    \/ \E c \in Classes : ResolveCircular(t, c) \/ ResolveEnter(t, c)
    \/ \E f \in Factories : FactoryEnter(t, f)
    \/ AskParam(t) \/ ParamMade(t) \/ ParamDefault(t)
    \/ Construct(t) \/ ResolveFails(t)
    \/ FactorySuspends(t) \/ FactoryResumes(t)
    \/ MakeReturns(t) \/ FrameFails(t) \/ Finish(t)

Registration ==
    \/ \E r \in Registrations : Register(r)
    \/ \E k \in Keys : Unbind(k)
    \/ ForgetInstances
    \/ Flush

Next ==
    \/ \E t \in Tasks : TaskStep(t)
    \/ \E t \in Tasks, k \in Keys : Call(t, k)
    \/ Registration

Spec == Init /\ [][Next]_vars

\* The event loop runs every task that is ready, and awaited I/O ends.
FairSpec == Spec /\ \A t \in Tasks : WF_vars(TaskStep(t))

-----------------------------------------------------------------------------

\* The calls of resolve() in flight, over all tasks.
Resolves == UNION {{t} \X {i \in DOMAIN frames[t] : frames[t][i].op = "resolve"} : t \in Tasks}

\* The classes task t itself is in the middle of resolving.
OwnClasses(t) == {frames[t][i].of : i \in {j \in DOMAIN frames[t] : frames[t][j].op = "resolve"}}

\* The awaits of _resolve_binding() for binding b in flight.
MakesOf(b) == {t \in Tasks : \E i \in DOMAIN frames[t] :
                               frames[t][i].op = "make" /\ frames[t][i].at = b}

\* Every variable has its type.
TypeOK ==
    /\ bindings \in [Keys -> 0 .. Len(heap)]
    /\ heap \in Seq(Binding)
    /\ stack \in Seq(Classes)
    /\ frames \in [Tasks -> Seq(Frame)]
    /\ signal \in [Tasks -> Signal]
    /\ running \in Tasks \cup {NoTask}
    /\ built \in Nat
    /\ calls \in [Tasks -> Nat]
    /\ handed \subseteq Nat \X Nat

\* No class is on the shared resolving stack twice, so however many tasks
\* resolve at once the stack is never longer than there are classes.
StackHasNoDuplicates == IsInjective(stack)

\* Although a pop() may take another task's entry, the stack has as many
\* entries as there are resolve() calls in flight: no pop() finds it empty,
\* and it is empty again once the tasks are done.
StackCountsResolves == Len(stack) = Cardinality(Resolves)

\* The objects that were ever returned for a singleton, together with those
\* still being built for it, are at most one per task: once one is stored,
\* no further make() builds another.
SingletonsPerTask ==
    \A b \in DOMAIN heap :
        Cardinality({h \in handed : h[1] = b} \cup (MakesOf(b) \X {0})) <= Cardinality(Tasks)

\* singleton(): every make() of the binding returns one and the same object
\* until forget_instances().
SingletonIsOneObject == \A g, h \in handed : g[1] = h[1] => g = h

\* "Circular dependency detected" is raised for a class the same task is in
\* the middle of resolving.
CircularIsReal ==
    [][\A t \in Tasks, c \in Classes :
          ResolveCircular(t, c) => c \in OwnClasses(t)]_vars

\* Every make() ends: it returns or raises.
EveryMakeEnds == \A t \in Tasks : signal[t].op # "idle" ~> signal[t].op = "idle"
=============================================================================
