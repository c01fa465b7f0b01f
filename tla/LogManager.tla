------------------------------ MODULE LogManager ------------------------------
(***************************************************************************)
(* LogManager (src/core/log/manager.py) and its channels (channel.py).     *)
(* A manager configures itself at the first message, adds the sink of a    *)
(* channel when the channel is first asked for, and takes its sinks away   *)
(* at shutdown.  The sinks are those of loguru's one logger: configure()   *)
(* removes all of them, whoever added them.                                *)
(***************************************************************************)
EXTENDS Naturals, Sequences, SequencesExt, FiniteSets, Functions, TLC

CONSTANTS
    Managers,
    Names,          \* of channels
    Stacks,         \* the stack channels: name -> the names it stands for
    DriverOf,       \* the driver of every other channel
    Default,        \* the channel that configure() resolves
    BuiltIn,        \* CHANNEL_DRIVERS
    Custom,         \* drivers that extend() may add
    MaxSinks        \* bound: on the sinks ever added

ChannelsAssumption ==
    /\ DOMAIN Stacks \cup DOMAIN DriverOf = Names /\ Default \in Names
    /\ \A s \in DOMAIN Stacks : \A i \in DOMAIN Stacks[s] : Stacks[s][i] \in DOMAIN DriverOf

VARIABLES
    sinks,          \* the ids of the sinks of loguru's logger
    made,           \* sinks ever added
    channels,       \* _channels of each manager: name -> sink id
    configured,     \* _configured
    drivers,        \* _custom_drivers
    failed,         \* managers whose configure() has raised
    displaced       \* managers whose sinks another one's configure() removed

vars == <<sinks, made, channels, configured, drivers, failed, displaced>>

TypeOK ==
    /\ made \in 0..MaxSinks /\ sinks \subseteq 1..made
    /\ \A m \in Managers : DOMAIN channels[m] \subseteq DOMAIN DriverOf /\ Range(channels[m]) \subseteq 1..made
    /\ configured \in [Managers -> BOOLEAN] /\ drivers \in [Managers -> SUBSET Custom]
    /\ failed \subseteq Managers /\ displaced \subseteq Managers

Init ==
    /\ sinks = {} /\ made = 0
    /\ channels = [m \in Managers |-> <<>>]
    /\ configured = [m \in Managers |-> FALSE]
    /\ drivers = [m \in Managers |-> {}]
    /\ failed = {} /\ displaced = {}

-----------------------------------------------------------------------------

\* _resolve_channel(): a stack stands for its channels, one after the other,
\* up to one whose driver nobody knows, which raises.
Leaves(name) == IF name \in DOMAIN Stacks THEN Stacks[name] ELSE <<name>>

Unknown(m, name) ==
    SelectInSeq(Leaves(name), LAMBDA c :
        c \notin DOMAIN channels[m] /\ DriverOf[c] \notin BuiltIn \cup drivers[m])

\* The channels that get a sink: those before it that have none.
Resolved(m, name) ==
    LET u == Unknown(m, name)
    IN  SelectSeq(IF u = 0 THEN Leaves(name) ELSE SubSeq(Leaves(name), 1, u - 1),
                  LAMBDA c : c \notin DOMAIN channels[m])

\* The sinks left of old when the new channels got theirs.
Adds(m, name, old) ==
    LET new == Resolved(m, name)
    IN  /\ made + Len(new) <= MaxSinks
        /\ made' = made + Len(new)
        /\ sinks' = old \cup (made + 1)..(made + Len(new))
        /\ channels' = [channels EXCEPT ![m] = @ @@ [c \in Range(new) |->
                            made + SelectInSeq(new, LAMBDA d : d = c)]]

\* configure(), by the first message or call: it starts with log.remove().
Configure(m) ==
    /\ ~configured[m]
    /\ Adds(m, Default, {})
    /\ configured' = [configured EXCEPT ![m] = Unknown(m, Default) = 0]
    /\ failed' = IF Unknown(m, Default) = 0 THEN failed ELSE failed \cup {m}
    /\ displaced' = (displaced \cup {n \in Managers : channels[n] # <<>>}) \ {m}
    /\ UNCHANGED drivers

\* channel() and stack() of a configured manager; the sinks of channels that
\* were resolved before one raised stay.
Channel(m, name) ==
    /\ configured[m]
    /\ Adds(m, name, sinks)
    /\ UNCHANGED <<configured, drivers, failed, displaced>>

Extend(m, driver) ==
    /\ drivers' = [drivers EXCEPT ![m] = @ \cup {driver}]
    /\ UNCHANGED <<sinks, made, channels, configured, failed, displaced>>

\* shutdown() and aclose(): a sink that is gone already is no error.
Left_Channels(m) == channels[m]
Left(m) == <<>>

Shutdown(m) ==
    /\ sinks' = sinks \ Range(channels[m])
    /\ channels' = [channels EXCEPT ![m] = Left(m)]
    /\ configured' = [configured EXCEPT ![m] = FALSE]
    /\ displaced' = displaced \ {m}
    /\ UNCHANGED <<made, drivers, failed>>

Next ==
    \E m \in Managers :
        \/ Configure(m) \/ Shutdown(m)
        \/ \E name \in Names : Channel(m, name)
        \/ \E driver \in Custom : Extend(m, driver)

Spec == Init /\ [][Next]_vars

-----------------------------------------------------------------------------

\* A message reaches every channel that its manager has resolved, whatever
\* was shut down and configured again, unless a configure() of the manager
\* has raised or another manager configured itself since; and no sink stays
\* behind that no channel would take away (manager.py).
ChannelsAreHeard ==
    /\ \A m \in Managers \ (failed \cup displaced) :
        configured[m] => Range(channels[m]) \subseteq sinks
    /\ sinks \subseteq UNION {Range(channels[m]) : m \in Managers}
===============================================================================
