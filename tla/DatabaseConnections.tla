------------------------- MODULE DatabaseConnections -------------------------
(***************************************************************************)
(* The engines of a DatabaseManager (src/core/database/manager.py) and     *)
(* those who look after them: HealthMonitor (health.py), which disposes of *)
(* and replaces an engine whose ping fails, and ReplicaManager             *)
(* (replica.py), which reads from the first replica whose ping succeeds.   *)
(* connect() never awaits; a ping, a sleep and an engine's disposal do, so *)
(* the tasks interleave there, and a shutdown may fall in between.         *)
(***************************************************************************)
EXTENDS Naturals, Sequences, Functions

CONSTANTS
    Tasks,
    Names,          \* the configured connections, in order; the first is the master
    MaxRetries,     \* of ensure_connected()
    NoEngine,
    MaxEngines,     \* bound: on the engines ever created
    MaxCalls        \* bound: on the operations begun

NamesAssumption == Names \in Seq(Range(Names)) \ {<<>>}
RetriesAssumption == MaxRetries \in Nat \ {0}
BoundAssumption == NoEngine \notin Nat /\ MaxEngines \in Nat /\ MaxCalls \in Nat

VARIABLES
    engines,        \* _engines: name -> engine
    made,           \* engines created so far
    disposed,       \* those that were disposed of
    connected,      \* _connected
    reachable,      \* the servers that answer
    failures,       \* HealthMonitor._failures
    doing,          \* where each task is
    calls,
    seen            \* the names each task has pinged in its operation, by answer

vars == <<engines, made, disposed, connected, reachable, failures, doing, calls, seen>>

AllNames == Range(Names)
Replicas == Tail(Names)
Idle == [op |-> "idle"]
Unseen == [up |-> {}, down |-> {}]

TypeOK ==
    /\ engines \in [AllNames -> 1..made \cup {NoEngine}] /\ made \in 0..MaxEngines
    /\ disposed \subseteq 1..made /\ connected \in BOOLEAN /\ reachable \subseteq AllNames
    /\ failures \in [AllNames -> Nat] /\ calls \in 0..MaxCalls
    /\ \A t \in Tasks : doing[t].op \in {"idle", "ensure", "disconnect", "read", "check"}

Init ==
    /\ engines = [n \in AllNames |-> NoEngine] /\ made = 0 /\ disposed = {}
    /\ connected = FALSE /\ reachable \in SUBSET AllNames
    /\ failures = [n \in AllNames |-> 0]
    /\ doing = [t \in Tasks |-> Idle] /\ calls = 0 /\ seen = [t \in Tasks |-> Unseen]

-----------------------------------------------------------------------------

(* DatabaseManager *)

IsUp_Never(n) == FALSE
IsUp(n) == engines[n] # NoEngine

\* ping(): an engine that is there, and a server that answers.
Alive(n) == engines[n] # NoEngine /\ n \in reachable

\* connect(): the engine of the name if there is one, else a new one.
Connect(n) ==
    IF IsUp(n) THEN UNCHANGED <<engines, made>>
    ELSE /\ made < MaxEngines /\ made' = made + 1
         /\ engines' = [engines EXCEPT ![n] = made + 1]

\* connect_all(): nothing in it suspends, each name that has none gets an engine.
ConnectAll ==
    /\ made' \in made .. MaxEngines
    /\ \E new \in Bijection({n \in AllNames : ~IsUp(n)}, made + 1 .. made') :
        engines' = [n \in AllNames |-> IF IsUp(n) THEN engines[n] ELSE new[n]]
    /\ connected' = TRUE
    /\ UNCHANGED <<disposed, reachable, failures, doing, calls, seen>>

Goes(t, where) == doing' = [doing EXCEPT ![t] = where]

Begins(t, op, names) ==
    /\ doing[t] = Idle /\ calls < MaxCalls
    /\ calls' = calls + 1 /\ seen' = [seen EXCEPT ![t] = Unseen]
    /\ Goes(t, [op |-> op, step |-> "ping", names |-> names, attempt |-> 0, result |-> NoEngine])
    /\ UNCHANGED <<engines, made, disposed, connected, reachable, failures>>

\* The engine leaves the manager before its disposal is awaited.
Pops(t, n) ==
    /\ engines' = [engines EXCEPT ![n] = NoEngine]
    /\ Goes(t, [doing[t] EXCEPT !.step = "dispose", !.result = engines[n]])

\* disconnect_all() walks the engines it found at its start.
Shutdown(t) == Begins(t, "disconnect", SelectSeq(Names, IsUp))

Disconnects(t) ==
    /\ doing[t].op = "disconnect" /\ doing[t].step = "ping"
    /\ IF doing[t].names = <<>>
       THEN connected' = FALSE /\ Goes(t, Idle) /\ UNCHANGED engines
       ELSE Pops(t, Head(doing[t].names)) /\ UNCHANGED connected
    /\ UNCHANGED <<made, disposed, reachable, failures, calls, seen>>

Disposes(t) == disposed' = disposed \cup ({doing[t].result} \ {NoEngine})

Disconnected(t) ==
    /\ doing[t].op = "disconnect" /\ doing[t].step = "dispose"
    /\ Disposes(t)
    /\ Goes(t, [doing[t] EXCEPT !.step = "ping", !.names = Tail(@), !.result = NoEngine])
    /\ UNCHANGED <<engines, made, connected, reachable, failures, calls, seen>>

-----------------------------------------------------------------------------

(* HealthMonitor and ReplicaManager: what each ping of theirs decides *)

Pings(t, n) ==
    seen' = IF Alive(n) THEN [seen EXCEPT ![t].up = @ \cup {n}]
            ELSE [seen EXCEPT ![t].down = @ \cup {n}]

Pinging(t, op) == doing[t].op = op /\ doing[t].step = "ping" /\ doing[t].names # <<>>

\* An operation that is over keeps its result until the next one of the task.
Returns(t, result) == Goes(t, [doing[t] EXCEPT !.step = "over", !.names = <<>>, !.result = result])

\* ensure_connected(): the next name once one answers.
Ensures(t) ==
    LET n == Head(doing[t].names)
    IN  /\ Pinging(t, "ensure") /\ Pings(t, n)
        /\ IF ~Alive(n) THEN Goes(t, [doing[t] EXCEPT !.step = "sleep"])
           ELSE IF Len(doing[t].names) = 1 THEN Returns(t, TRUE)
           ELSE Goes(t, [doing[t] EXCEPT !.names = Tail(@), !.attempt = 0])
        /\ UNCHANGED <<engines, made, disposed, connected, reachable, failures, calls>>

WakesUp(t) ==
    /\ doing[t].op = "ensure" /\ doing[t].step = "sleep"
    /\ Pops(t, Head(doing[t].names))
    /\ UNCHANGED <<made, disposed, connected, reachable, failures, calls, seen>>

\* The disposal may raise, and then connect() is not called.  Nobody pings
\* after the last attempt.
Reconnects(t) ==
    /\ doing[t].op = "ensure" /\ doing[t].step = "dispose"
    /\ Disposes(t)
    /\ Connect(Head(doing[t].names)) \/ UNCHANGED <<engines, made>>
    /\ IF doing[t].attempt + 1 = MaxRetries THEN Returns(t, FALSE)
       ELSE Goes(t, [doing[t] EXCEPT !.step = "ping", !.attempt = @ + 1, !.result = NoEngine])
    /\ UNCHANGED <<connected, reachable, failures, calls, seen>>

\* healthy_read(): the master is not pinged.
Reads(t) ==
    /\ doing[t].op = "read" /\ doing[t].step = "ping"
    /\ IF doing[t].names = <<>> THEN Returns(t, Head(Names)) /\ UNCHANGED seen
       ELSE LET n == Head(doing[t].names)
            IN  /\ Pings(t, n)
                /\ IF Alive(n) THEN Returns(t, n) ELSE Goes(t, [doing[t] EXCEPT !.names = Tail(@)])
    /\ UNCHANGED <<engines, made, disposed, connected, reachable, failures, calls>>

\* check(): the failures in a row of each name.
Checks(t) ==
    LET n == Head(doing[t].names)
    IN  /\ Pinging(t, "check") /\ Pings(t, n)
        /\ failures' = [failures EXCEPT ![n] = IF Alive(n) THEN 0 ELSE @ + 1]
        /\ IF Len(doing[t].names) = 1 THEN Returns(t, TRUE)
           ELSE Goes(t, [doing[t] EXCEPT !.names = Tail(@)])
        /\ UNCHANGED <<engines, made, disposed, connected, reachable, calls>>

Over(t) ==
    /\ doing[t] # Idle /\ doing[t].step = "over"
    /\ Goes(t, Idle)
    /\ UNCHANGED <<engines, made, disposed, connected, reachable, failures, calls, seen>>

\* A server stops or starts answering.
ServerChanges(n) ==
    /\ reachable' = IF n \in reachable THEN reachable \ {n} ELSE reachable \cup {n}
    /\ UNCHANGED <<engines, made, disposed, connected, failures, doing, calls, seen>>

Next ==
    \/ ConnectAll
    \/ \E n \in AllNames : ServerChanges(n)
    \/ \E t \in Tasks :
        \/ Begins(t, "ensure", Names) \/ Begins(t, "check", Names) \/ Begins(t, "read", Replicas)
        \/ Shutdown(t) \/ Disconnects(t) \/ Disconnected(t)
        \/ Ensures(t) \/ WakesUp(t) \/ Reconnects(t) \/ Reads(t) \/ Checks(t) \/ Over(t)

Spec == Init /\ [][Next]_vars

-----------------------------------------------------------------------------

Disposing == {doing[t].result : t \in {u \in Tasks : doing[u] # Idle /\ doing[u].step = "dispose"}}

\* No engine is lost with its connections open: each one that was created is
\* in the manager, disposed of, or in the hands of a task that disposes of it
\* (connect() and disconnect(), whoever calls them, however they interleave).
NoEngineIsLost ==
    1..made \subseteq {engines[n] : n \in AllNames} \cup disposed \cup Disposing

\* What the helpers answer they have seen: ensure_connected() is True only
\* when every connection answered it, healthy_read() names a replica that
\* answered or, when none did, the master (health.py, replica.py).
AnswersWereSeen ==
    \A t \in Tasks : doing[t] # Idle /\ doing[t].step = "over" =>
        /\ doing[t].op = "ensure" /\ doing[t].result = TRUE => seen[t].up = AllNames
        /\ doing[t].op = "read" =>
            \/ doing[t].result \in seen[t].up
            \/ doing[t].result = Head(Names) /\ seen[t].down = Range(Replicas)
===============================================================================
