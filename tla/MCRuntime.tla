------------------------------ MODULE MCRuntime ------------------------------
(***************************************************************************)
(* Instances for TLC of what an application goes through from boot to      *)
(* shutdown: the providers (Application), the configuration, the protocol  *)
(* adapters, the buffered log channel and what MCRequests adds.  They      *)
(* share no state, so each behaviour exercises one of them, chosen from    *)
(* Components at the start.                                                *)
(***************************************************************************)
EXTENDS MCRequests

CONSTANTS
    Components,     \* those this run is about
    BootTasks, Providers, Deferred, ProvidedKeys, Provides, Uses, MaxBoots,     \* Application
    Loggers, Flushers, NoThread, BufferSize, MaxMessages,                       \* BufferedChannel
    Adapters, AdapterRoutes, Accepts,                                           \* AdapterManager
    NoProvider, NoValue, Mask,
    t1, t2, eager, lazy, base, http, bot, page, command, timer, g1, g2, v1, v2

VARIABLES
    providers, deferred, bound, booted, frames, boots,                  \* Application
    registered, bootCount,
    configs, defaults, overrides, cache, frozen, snapshots,             \* ConfigurationManager
    exported, cacheFile, event,
    adapters, state, running, compiled, routes, configured,             \* AdapterManager
    started, task, configures, starts,
    pc, sinkLock, lock, buffer, batch, appended, delivered, lost        \* BufferedChannel

appVars == <<providers, deferred, bound, booted, frames, boots, registered, bootCount>>
configVars == <<configs, defaults, overrides, cache, frozen, snapshots, exported, cacheFile,
                event>>
adapterVars == <<adapters, state, running, compiled, routes, configured, started, task,
                 configures, starts>>
logVars == <<pc, sinkLock, lock, buffer, batch, appended, delivered, lost>>
allVars == <<component, appVars, configVars, adapterVars, logVars, requestVars>>

\* The eager provider needs what the lazy one provides, which needs the base.
MCProvides == [p \in {eager, lazy, base} |->
    IF p = eager THEN {"eager"} ELSE IF p = lazy THEN {"lazy"} ELSE {"base"}]
MCUses == [p \in {eager, lazy, base} |->
    IF p = eager THEN {"lazy"} ELSE IF p = lazy THEN {"base"} ELSE {}]

Boot == INSTANCE Application WITH Tasks <- BootTasks, Keys <- ProvidedKeys

\* The calls of a running program; those around freeze(); and a rollback to
\* before a file was loaded.
Config == INSTANCE ConfigurationManager WITH
    Groups <- {g1, g2}, Values <- {v1, v2}, Secret <- {}, Defaults <- {NoValue},
    FileGroups <- {}, Dicts <- {}, Production <- FALSE, MaxSnapshots <- 1,
    Calls <- {"register", "set", "refresh", "snapshot", "freeze"}
Startup == INSTANCE ConfigurationManager WITH
    Groups <- {g1, g2}, Values <- {v1, v2}, Secret <- {g1}, Defaults <- {NoValue},
    FileGroups <- {g1, g2}, Dicts <- {g1}, Production <- TRUE, MaxSnapshots <- 0,
    Calls <- {"register", "freeze", "defaults", "load", "export", "boot"}
Reload == INSTANCE ConfigurationManager WITH
    Groups <- {g1}, Values <- {v1}, Secret <- {}, Defaults <- {NoValue},
    FileGroups <- {g1}, Dicts <- {g1}, Production <- FALSE, MaxSnapshots <- 1,
    Calls <- {"register", "set", "snapshot", "load"}

\* Two adapters with a route each: one task that configures, starts and stops
\* once, and two tasks of which each may do any of it, with a stop that may raise.
MCAccepts == [a \in {http, bot} |-> IF a = http THEN {page} ELSE {command}]

Alone == INSTANCE AdapterManager WITH
    Routes <- AdapterRoutes, Tasks <- {t1},
    MaxConfigures <- 1, MaxStarts <- 1, MayFailStop <- FALSE
Racing == INSTANCE AdapterManager WITH
    Adapters <- {http, bot}, Routes <- {page}, Tasks <- {t1, t2},
    Accepts <- [a \in {http, bot} |-> IF a = http THEN {page} ELSE {}],
    MaxConfigures <- 1, MaxStarts <- 1, MayFailStop <- TRUE

\* A buffer that may fill up, with every thread that flushes; one that only
\* the timer flushes and that does not fill up; and one that gets full.
Filling == INSTANCE BufferedChannel
Timed == INSTANCE BufferedChannel WITH
    Flushers <- {timer}, BufferSize <- MaxMessages, MaxMessages <- MaxMessages - 1
Full == INSTANCE BufferedChannel WITH
    Flushers <- {timer}, BufferSize <- 2, MaxMessages <- 3

ASSUME BootAssumptions ==
    /\ Boot!DeferredAssumption /\ Boot!NoProviderAssumption /\ Boot!ProvidesAssumption
    /\ Boot!BoundAssumption
ASSUME RuntimeAssumptions ==
    /\ Config!ConfigurationAssumption /\ Startup!ConfigurationAssumption
    /\ Reload!ConfigurationAssumption
    /\ Alone!AdapterAssumption /\ Racing!AdapterAssumption
    /\ Filling!ThreadsAssumption /\ Timed!ThreadsAssumption /\ Full!ThreadsAssumption
    /\ Filling!BoundAssumption /\ Timed!BoundAssumption /\ Full!BoundAssumption

Init ==
    /\ component \in Components
    /\ Boot!Init
    /\ Config!Init
    /\ IF component = "racing" THEN Racing!Init ELSE Alone!Init
    /\ IF component \in {"timed", "full"} THEN Timed!Init ELSE Filling!Init
    /\ RequestsInit

OnlyApp == UNCHANGED <<component, configVars, adapterVars, logVars, requestVars>>
OnlyConfig == UNCHANGED <<component, appVars, adapterVars, logVars, requestVars>>
OnlyAdapters == UNCHANGED <<component, appVars, configVars, logVars, requestVars>>
OnlyLog == UNCHANGED <<component, appVars, configVars, adapterVars, requestVars>>

Next ==
    \/ component = "boot" /\ Boot!Next /\ OnlyApp
    \/ component = "config" /\ Config!Next /\ OnlyConfig
    \/ component = "startup" /\ Startup!Next /\ OnlyConfig
    \/ component = "reload" /\ Reload!Next /\ OnlyConfig
    \/ component = "alone" /\ Alone!Next /\ OnlyAdapters
    \/ component = "racing" /\ Racing!Next /\ OnlyAdapters
    \/ component = "filling" /\ Filling!Next /\ OnlyLog
    \/ component = "timed" /\ Timed!Next /\ OnlyLog
    \/ component = "full" /\ Full!Next /\ OnlyLog
    \/ RequestsNext /\ UNCHANGED <<appVars, configVars, adapterVars, logVars>>

Spec == Init /\ [][Next]_allVars

\* The fairness of the components, joined because they exclude each other: a
\* provider's or an adapter's method that a task awaits ends; a thread goes on
\* when the lock it needs keeps coming free; the timer fires after every flush.
AwaitEnds(t) ==
    \/ component = "boot" /\ t \in BootTasks /\ Boot!ProviderReturns(t) /\ OnlyApp
    \/ component = "alone" /\ t = t1 /\ Alone!CallEnds(t) /\ OnlyAdapters
    \/ component = "racing" /\ t \in {t1, t2} /\ Racing!CallEnds(t) /\ OnlyAdapters

ThreadGoesOn(t) ==
    \/ component = "timed" /\ (Timed!Collects(t) \/ Timed!Flushes(t)) /\ OnlyLog
    \/ component = "full" /\ (Full!Collects(t) \/ Full!Flushes(t)) /\ OnlyLog

TimerFires ==
    \/ component = "timed" /\ Timed!StartFlush(timer) /\ OnlyLog
    \/ component = "full" /\ Full!StartFlush(timer) /\ OnlyLog

FairSpec ==
    /\ Spec
    /\ \A t \in BootTasks \cup {t1, t2} : WF_allVars(AwaitEnds(t))
    /\ \A t \in Loggers \cup {timer} : SF_allVars(ThreadGoesOn(t))
    /\ WF_allVars(TimerFires)

-----------------------------------------------------------------------------

\* Every component's variables have their types.
TypesOK ==
    /\ component = "boot" => Boot!TypeOK
    /\ component = "config" => Config!TypeOK
    /\ component = "startup" => Startup!TypeOK
    /\ component = "reload" => Reload!TypeOK
    /\ component = "alone" => Alone!TypeOK
    /\ component = "racing" => Racing!TypeOK
    /\ component = "filling" => Filling!TypeOK
    /\ component = "timed" => Timed!TypeOK
    /\ component = "full" => Full!TypeOK
    /\ RequestTypesOK

\* Whatever tasks do meanwhile, no provider boots before all have registered,
\* a booted application has no provider left to boot, and each boots once
\* (application.py).
BootsInOrder ==
    /\ Boot!BootFollowsRegister
    /\ Boot!BootedMeansAllBooted
    /\ Boot!BootsOnce

\* Neither get() answers from a cache that a lookup would contradict: of the
\* configuration (configuration/manager.py) and of the environment
\* (configuration/environment.py).
CachesAreCurrent ==
    /\ component = "config" => Config!CacheIsCurrent
    /\ component = "environment" => Settings!EnvironmentIsCurrent

\* on_change callbacks are told the truth, defaults do not displace settings
\* (configuration/manager.py), and a frozen environment stays as it is but
\* for load_file() (configuration/environment.py).
SettingsChangeAsTold == [][
    /\ component = "config" => Config!TellsTruth
    /\ component = "startup" => Startup!YieldsDefaults
    /\ component = "environment" => Settings!StaysFrozen]_allVars

\* With one task, start() reaches and stop() ends every adapter
\* (registry/manager.py).
AdaptersFollow == [][component = "alone" => Alone!ReachesAll /\ Alone!StopsAll]_allVars

\* What is logged is heard: racing flushes neither drop nor repeat a message,
\* the timer alone delivers in order (log/buffer.py), a channel that is
\* resolved has its sink (log/manager.py), and a message is suppressed exactly
\* when its limit is reached (log/sampling.py).
MessagesAreHeard ==
    /\ component = "filling" => Filling!EachMessageInOnePlace
    /\ component = "timed" => Timed!DeliveredInOrder
    /\ component = "channels" => Channels!ChannelsAreHeard
    /\ component = "limiter" => Limiter!SuppressedExactly

\* Every logged message leaves the buffer (log/buffer.py).
EveryMessageLeaves ==
    /\ component = "timed" => Timed!EveryMessageLeaves
    /\ component = "full" => Full!EveryMessageLeaves

\* Every call ends: of boot() and make(), of the adapter manager, with one
\* task and with two, and of a logger whose buffer never gets full.
EveryCallEnds ==
    /\ Boot!EveryCallEnds
    /\ Racing!EveryCallEnds
    /\ component = "timed" => Timed!EveryLogCallReturns
===============================================================================
