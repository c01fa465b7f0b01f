---------------------------- MODULE AdapterManager ----------------------------
(***************************************************************************)
(* The registry of framework adapters (src/core/registry/manager.py,       *)
(* adapter.py): register, configure, start and stop.  configure, start and *)
(* stop are coroutines that walk the dict of adapters and await one call   *)
(* of each; between two awaits a task runs alone.  So a step here is "the  *)
(* awaited call of an adapter ends, and the task goes on to its next       *)
(* await", and any other task or register() may come in between.           *)
(*                                                                         *)
(* The adapters follow src/core/adapters/litestar and aiogram: configure   *)
(* ends in CONFIGURED (or, quietly, in ERROR: no bot token) whatever the   *)
(* state was, start ends in STARTED, stop in STOPPED, and any of them may  *)
(* raise.  running says whether what start() made is still up, which the   *)
(* adapter's state does not always say.                                    *)
(*                                                                         *)
(* X_Y is the definition X with a slip in it; the README says which        *)
(* property each slip breaks.                                              *)
(***************************************************************************)
EXTENDS Naturals, Sequences, FiniteSets

CONSTANTS
  Adapters,      \* adapter names
  Tasks,         \* tasks that call configure, start and stop
  Routes,        \* routes that collectors hold
  Accepts,       \* adapter -> the routes of a type that it supports
  MaxConfigures, \* bound on calls of configure
  MaxStarts,     \* bound on calls of start
  MayFailStop    \* an adapter's stop may raise

AdapterAssumption ==
  /\ Accepts \in [Adapters -> SUBSET Routes]
  /\ MaxConfigures \in Nat /\ MaxStarts \in Nat /\ MayFailStop \in BOOLEAN

VARIABLES
  adapters,    \* _adapters: the names, in the order of registration
  state,       \* adapter -> its _state
  running,     \* adapter -> its native application is up
  compiled,    \* adapter -> route -> how many times it was compiled
  routes,      \* the routes of the collectors
  configured,  \* _configured
  started,     \* _started
  task,        \* task -> its call and where it is in the loop
  configures, starts   \* calls made, for the bounds

vars == <<adapters, state, running, compiled, routes, configured, started, task,
          configures, starts>>

Idle == [op |-> "idle", at |-> 0, size |-> 0]

Init ==
  /\ adapters = <<>>
  /\ state = [a \in Adapters |-> "CREATED"]
  /\ running = [a \in Adapters |-> FALSE]
  /\ compiled = [a \in Adapters |-> [r \in Routes |-> 0]]
  /\ routes = {}
  /\ configured = FALSE /\ started = FALSE
  /\ task = [t \in Tasks |-> Idle]
  /\ configures = 0 /\ starts = 0

Registered == {adapters[i] : i \in DOMAIN adapters}

Register(a) ==
  /\ a \notin Registered
  /\ adapters' = Append(adapters, a)
  /\ UNCHANGED <<state, running, compiled, routes, configured, started, task, configures, starts>>

AddRoute(r) ==
  /\ routes' = routes \cup {r}
  /\ UNCHANGED <<adapters, state, running, compiled, configured, started, task, configures, starts>>

(***************************************************************************)
(* The loops                                                               *)
(***************************************************************************)
Eligible_OnlyConfigured(op, st) ==
  {i \in DOMAIN adapters :
     CASE op = "configure" -> TRUE
       [] op = "start" -> st[adapters[i]] = "CONFIGURED"
       [] op = "stop" -> st[adapters[i]] = "STARTED"}

\* the adapters that the loop of op does not skip, in the states st
Eligible(op, st) ==
  {i \in DOMAIN adapters :
     CASE op = "configure" -> TRUE
       [] op = "start" -> st[adapters[i]] # "ERROR"
       [] op = "stop" -> st[adapters[i]] = "STARTED"}

Following(op, i, st) == {j \in Eligible(op, st) : j > i}

\* the dict grew while the loop was suspended: the iteration raises
Disturbed(size) == Len(adapters) # size

\* a start compiles the matching routes of an adapter before it starts it
Matching(a) == routes \cap Accepts[a]
Compiled(op, a) ==
  IF op # "start" THEN compiled
  ELSE [compiled EXCEPT ![a] = [r \in Routes |-> @[r] + IF r \in Matching(a) THEN 1 ELSE 0]]

Flags(op) ==
  /\ configured' = (configured \/ op = "configure")
  /\ started' = IF op = "start" THEN TRUE ELSE IF op = "stop" THEN FALSE ELSE started

\* task t, whose loop has passed index i, goes on to its next await, to the
\* end of its call or to the error of a disturbed loop
Advance(t, op, i, size, st) ==
  IF Disturbed(size) THEN
       /\ task' = [task EXCEPT ![t] = Idle]
       /\ UNCHANGED <<compiled, configured, started>>
  ELSE IF Following(op, i, st) = {} THEN
       /\ task' = [task EXCEPT ![t] = Idle]
       /\ Flags(op)
       /\ UNCHANGED compiled
  ELSE \E j \in Following(op, i, st) :
       /\ \A k \in Following(op, i, st) : j =< k
       /\ task' = [task EXCEPT ![t] = [op |-> op, at |-> j, size |-> size]]
       /\ compiled' = Compiled(op, adapters[j])
       /\ UNCHANGED <<configured, started>>

Configure(t) ==
  /\ task[t] = Idle /\ configures < MaxConfigures
  /\ configures' = configures + 1
  /\ Advance(t, "configure", 0, Len(adapters), state)
  /\ UNCHANGED <<adapters, state, running, routes, starts>>

Start(t) ==
  /\ task[t] = Idle /\ configured /\ starts < MaxStarts
  /\ starts' = starts + 1
  /\ Advance(t, "start", 0, Len(adapters), state)
  /\ UNCHANGED <<adapters, state, running, routes, configures>>

Stop(t) ==
  /\ task[t] = Idle
  /\ Advance(t, "stop", 0, Len(adapters), state)
  /\ UNCHANGED <<adapters, state, running, routes, configures, starts>>

(***************************************************************************)
(* The end of an awaited call of an adapter                                *)
(***************************************************************************)
Awaited(t) == adapters[task[t].at]

\* the states in which the adapter's own method may leave it
Outcomes_Unset(op) ==
  CASE op = "configure" -> {"CONFIGURED", "ERROR"}
    [] op = "start" -> {"STARTED"}
    [] op = "stop" -> {"NONE"}
Outcomes(op) ==
  CASE op = "configure" -> {"CONFIGURED", "ERROR"}
    [] op = "start" -> {"STARTED"}
    [] op = "stop" -> {"STOPPED"}

Up_Always(op, a) == running[a] \/ op = "start"
Up(op, a) == op = "start" \/ (op = "configure" /\ running[a])

CallReturns(t) ==
  /\ task[t] # Idle
  /\ LET op == task[t].op  a == Awaited(t) IN
     \E s \in Outcomes(op) :
        LET st == [state EXCEPT ![a] = s] IN
        /\ state' = st
        /\ running' = [running EXCEPT ![a] = Up(op, a)]
        /\ Advance(t, op, task[t].at, task[t].size, st)
  /\ UNCHANGED <<adapters, routes, configures, starts>>

\* configure and start mark the adapter and raise; stop logs and goes on
CallRaises(t) ==
  /\ task[t] # Idle
  /\ IF task[t].op = "stop"
     THEN /\ MayFailStop
          /\ Advance(t, "stop", task[t].at, task[t].size, state)
          /\ UNCHANGED state
     ELSE /\ state' = [state EXCEPT ![Awaited(t)] = "ERROR"]
          /\ task' = [task EXCEPT ![t] = Idle]
          /\ UNCHANGED <<compiled, configured, started>>
  /\ UNCHANGED <<adapters, running, routes, configures, starts>>

Next ==
  \/ \E a \in Adapters : Register(a)
  \/ \E r \in Routes : AddRoute(r)
  \/ \E t \in Tasks : Configure(t) \/ Start(t) \/ Stop(t) \/ CallReturns(t) \/ CallRaises(t)

Spec == Init /\ [][Next]_vars

\* an adapter's method returns or raises
CallEnds(t) == CallReturns(t) \/ CallRaises(t)

(***************************************************************************)
(* Properties                                                              *)
(***************************************************************************)
States == {"CREATED", "CONFIGURED", "STARTED", "STOPPED", "ERROR"}

TypeOK ==
  /\ Len(adapters) = Cardinality(Registered) /\ Registered \subseteq Adapters
  /\ state \in [Adapters -> States] /\ running \in [Adapters -> BOOLEAN]
  /\ \A a \in Adapters, r \in Routes :
        compiled[a][r] \leq IF r \in Accepts[a] THEN starts ELSE 0
  /\ routes \subseteq Routes /\ configured \in BOOLEAN /\ started \in BOOLEAN
  /\ \A t \in Tasks :
        \/ task[t] = Idle
        \/ task[t].op \in {"configure", "start", "stop"} /\ task[t].at \in DOMAIN adapters

Ends(t, op) == task[t].op = op /\ task'[t] = Idle /\ task[t].size = Len(adapters)

\* when the started flag goes up, every adapter that is registered then was
\* started or had failed, also one registered while the loop was under way
\* (start: _started is set after the loop)
ReachesAll == ~started /\ started' => \A a \in Registered : state'[a] \in {"STARTED", "ERROR"}

StartReachesAll == [][ReachesAll]_vars

\* when stop() comes to the end of its loop, no adapter is left running
\* ("Stop all adapters.")
StopsAll == \A t \in Tasks : Ends(t, "stop") => \A a \in Adapters : ~running'[a]

StopStopsAll == [][StopsAll]_vars

\* every call of configure, start or stop ends
Calling(t) == t \in DOMAIN task /\ task[t] # Idle

EveryCallEnds == \A t \in Tasks : Calling(t) ~> ~Calling(t)
==============================================================================
