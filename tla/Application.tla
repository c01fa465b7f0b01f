----------------------------- MODULE Application -----------------------------
(***************************************************************************)
(* The application's providers, src/core/foundation/application.py:        *)
(* registration, the two-phase boot(), the lazy registration of deferred   *)
(* providers in make(), and shutdown(), called by asyncio tasks.           *)
(*                                                                         *)
(* boot() walks _providers twice, by index over the list itself, while     *)
(* make() appends to that list.  Every provider.register() and             *)
(* provider.boot() is an await on provider code that may suspend, call     *)
(* make() for what it needs (register() only) or raise: between two        *)
(* actions of a task any other task may run.  A task is the chain of its   *)
(* calls in flight, innermost last; each frame stands for the provider     *)
(* method it awaits.  Nothing on the way catches an exception.             *)
(*                                                                         *)
(* Left out: the container below make() (module Container): a key is       *)
(* bound or not; what build_dishka() and close() do with the objects.      *)
(*                                                                         *)
(* A definition whose name ends in _ and a slip is a mutant of the         *)
(* definition it is named after; nothing uses it.                          *)
(***************************************************************************)
EXTENDS Naturals, FiniteSets, SequencesExt

CONSTANTS
    Tasks,          \* the asyncio tasks
    Providers,      \* the provider objects
    Deferred,       \* those whose deferred property is true
    Keys,           \* the names that are registered and made
    Provides,       \* what a provider's register() binds
    Uses,           \* what a provider's register() may make()
    NoProvider,     \* not a provider
    MaxBoots        \* bound: boot() calls that get past the first check

DeferredAssumption ==
    IsFiniteSet(Providers) /\ Deferred \subseteq Providers /\ Deferred # Providers
NoProviderAssumption == NoProvider \notin Providers
ProvidesAssumption ==
    /\ Provides \in [Providers -> SUBSET Keys]
    /\ Uses \in [Providers -> SUBSET Keys]
BoundAssumption == MaxBoots \in Nat

VARIABLES
    providers,      \* _providers
    deferred,       \* _deferred_providers
    bound,          \* the keys has() is true of
    booted,         \* _booted
    frames,         \* per task its calls in flight
    boots,          \* the boot() calls that got past the first check
    registered,     \* history: the providers whose register() has returned
    bootCount       \* history: how often a provider's boot() was entered

vars == <<providers, deferred, bound, booted, frames, boots, registered, bootCount>>
registry == <<providers, deferred, bound>>

Frame == [op : {"registerAll", "bootAll"}, at : Nat \ {0}]
    \cup [op : {"lazyRegister", "lazyBoot"}, of : Providers]

Top(t) == Last(frames[t])
Running(t, op) == frames[t] # << >> /\ Top(t).op = op

\* The provider whose method the innermost call of a task awaits.
Awaited(t) == IF Top(t).op \in {"registerAll", "bootAll"}
              THEN providers[Top(t).at] ELSE Top(t).of

Booting == \E t \in Tasks : \E f \in Range(frames[t]) : f.op \in {"registerAll", "bootAll"}

Becomes(t, frame) == frames' = [frames EXCEPT ![t] = Append(Front(@), frame)]
Pushes(t, frame) == frames' = [frames EXCEPT ![t] = Append(@, frame)]
Pops(t) == frames' = [frames EXCEPT ![t] = Front(@)]

Enters(p) == bootCount' = [bootCount EXCEPT ![p] = @ + 1]

\* The bootstrap has registered every provider: register_provider() files a
\* deferred one under each key it provides, and appends the others.
Init ==
    /\ providers \in SetToSeqs(Providers \ Deferred)
    /\ deferred \in [Keys -> Deferred \cup {NoProvider}]
    /\ \A k \in Keys : IF \E p \in Deferred : k \in Provides[p]
                       THEN deferred[k] # NoProvider /\ k \in Provides[deferred[k]]
                       ELSE deferred[k] = NoProvider
    /\ bound = {}
    /\ booted = FALSE
    /\ frames = [t \in Tasks |-> << >>]
    /\ boots = 0
    /\ registered = {}
    /\ bootCount = [p \in Providers |-> 0]

-----------------------------------------------------------------------------
\* boot() and shutdown().  Only the process's one driver (the serve command)
\* boots, and it never boots twice at the same time.

Boot(t) ==
    /\ frames[t] = << >>
    /\ ~ Booting
    /\ ~ booted
    /\ boots < MaxBoots
    /\ boots' = boots + 1
    /\ Pushes(t, [op |-> "registerAll", at |-> 1])
    /\ UNCHANGED <<registry, booted, registered, bootCount>>

\* Whether a boot loop is through after the provider at index i: it asks the
\* list as it is now.
LoopEnds_AtStart(i) == i >= Cardinality(Providers \ Deferred)
LoopEnds(i) == i >= Len(providers)

NextIndex_StuckRegister(t) == Top(t).at + (IF Top(t).op = "registerAll" THEN 0 ELSE 1)
NextIndex_StuckBoot(t) == Top(t).at + (IF Top(t).op = "bootAll" THEN 0 ELSE 1)
NextIndex(t) == Top(t).at + 1

\* register() of a provider of the list returns, having bound its keys; after
\* the last one the second phase starts at the first provider.
RegisteredOne(t) ==
    /\ Running(t, "registerAll")
    /\ bound' = bound \cup Provides[Awaited(t)]
    /\ registered' = registered \cup {Awaited(t)}
    /\ IF LoopEnds(Top(t).at)
       THEN Becomes(t, [op |-> "bootAll", at |-> 1]) /\ Enters(providers[1])
       ELSE /\ Becomes(t, [op |-> "registerAll", at |-> NextIndex(t)])
            /\ UNCHANGED bootCount
    /\ UNCHANGED <<providers, deferred, booted, boots>>

\* boot() of a provider of the list returns; after the last one the
\* application is booted, in the same step.
BootedOne(t) ==
    /\ Running(t, "bootAll")
    /\ IF LoopEnds(Top(t).at)
       THEN Pops(t) /\ booted' = TRUE /\ UNCHANGED bootCount
       ELSE /\ Becomes(t, [op |-> "bootAll", at |-> NextIndex(t)])
            /\ Enters(providers[NextIndex(t)])
            /\ UNCHANGED booted
    /\ UNCHANGED <<registry, boots, registered>>

Shutdown ==
    /\ booted
    /\ booted' = FALSE
    /\ UNCHANGED <<registry, frames, boots, registered, bootCount>>

-----------------------------------------------------------------------------
\* make().

\* Who may call make(k) now: a task of its own, or the register() a task awaits.
Makes(t, k) ==
    \/ frames[t] = << >>
    \/ /\ Running(t, "registerAll") \/ Running(t, "lazyRegister")
       /\ k \in Uses[Awaited(t)]

\* k belongs to a deferred provider: it leaves the map before its register().
WithoutDeferred(k) == [deferred EXCEPT ![k] = NoProvider]

MakeDeferred_AppendsFirst(t, k) ==
    /\ Makes(t, k)
    /\ deferred[k] # NoProvider /\ k \notin bound
    /\ deferred' = WithoutDeferred(k)
    /\ Pushes(t, [op |-> "lazyRegister", of |-> deferred[k]])
    /\ providers' = Append(providers, deferred[k])
    /\ UNCHANGED <<bound, booted, boots, registered, bootCount>>

MakeDeferred(t, k) ==
    /\ Makes(t, k)
    /\ deferred[k] # NoProvider /\ k \notin bound
    /\ deferred' = WithoutDeferred(k)
    /\ Pushes(t, [op |-> "lazyRegister", of |-> deferred[k]])
    /\ UNCHANGED <<providers, bound, booted, boots, registered, bootCount>>

\* Whether a provider registered by make() must be booted by make() too.
BootsLazily == booted

LazyRegistered(t) ==
    LET p == Awaited(t) IN
    /\ Running(t, "lazyRegister")
    /\ bound' = bound \cup Provides[p]
    /\ registered' = registered \cup {p}
    /\ IF BootsLazily
       THEN /\ Becomes(t, [op |-> "lazyBoot", of |-> p])
            /\ Enters(p)
            /\ UNCHANGED providers
       ELSE /\ Pops(t)
            /\ providers' = Append(providers, p)
            /\ UNCHANGED bootCount
    /\ UNCHANGED <<deferred, booted, boots>>

LazyBooted(t) ==
    /\ Running(t, "lazyBoot")
    /\ providers' = Append(providers, Awaited(t))
    /\ Pops(t)
    /\ UNCHANGED <<deferred, bound, booted, boots, registered, bootCount>>

\* A provider's method raises, or a make() in it finds its key neither bound
\* nor deferred (BindingNotFound).
Fails(t) ==
    /\ frames[t] # << >>
    /\ frames' = [frames EXCEPT ![t] = << >>]
    /\ UNCHANGED <<registry, booted, boots, registered, bootCount>>

ProviderReturns(t) ==
    RegisteredOne(t) \/ BootedOne(t) \/ LazyRegistered(t) \/ LazyBooted(t)

Next ==
    \/ \E t \in Tasks : Boot(t) \/ ProviderReturns(t) \/ Fails(t)
    \/ \E t \in Tasks, k \in Keys : MakeDeferred(t, k)
    \/ Shutdown

Spec == Init /\ [][Next]_vars

-----------------------------------------------------------------------------

\* Every variable has its type; the boot loops point into the list.
TypeOK ==
    /\ providers \in Seq(Providers)
    /\ deferred \in [Keys -> Deferred \cup {NoProvider}]
    /\ bound \subseteq Keys
    /\ booted \in BOOLEAN
    /\ frames \in [Tasks -> Seq(Frame)]
    /\ \A t \in Tasks : \A f \in Range(frames[t]) :
           f.op \in {"registerAll", "bootAll"} => f.at <= Len(providers)
    /\ boots \in Nat
    /\ registered \subseteq Providers
    /\ bootCount \in [Providers -> Nat]

\* The two phases: while a provider's boot() runs, every provider of the list
\* has been registered, the ones make() appended meanwhile included.
BootFollowsRegister ==
    \A t \in Tasks : Running(t, "bootAll") \/ Running(t, "lazyBoot") =>
        Range(providers) \cup {Awaited(t)} \subseteq registered

\* When the application says it is booted, every provider of the list has
\* been booted, whenever make() appended it: before boot(), during either
\* phase, or later.
BootedMeansAllBooted ==
    booted => \A p \in Range(providers) : bootCount[p] > 0

\* One boot() boots a provider at most once, however it came into the list:
\* the loop and make() never both do it.
BootsOnce == \A p \in Providers : bootCount[p] <= boots

\* Every call of boot() and make() ends, although make() lengthens the list
\* boot() walks over.
EveryCallEnds == \A t \in Tasks : frames[t] # << >> ~> frames[t] = << >>
=============================================================================
