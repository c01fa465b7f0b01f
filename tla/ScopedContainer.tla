---------------------------- MODULE ScopedContainer ----------------------------
(***************************************************************************)
(* ScopedContainer (src/core/foundation/scoped.py): the services of one    *)
(* request.  make() awaits the resolution of a scoped service and then     *)
(* remembers it; close() awaits the end of each remembered service while   *)
(* it iterates over the dict that make() adds to, so a service added       *)
(* meanwhile ends the iteration with an error.                             *)
(***************************************************************************)
EXTENDS Naturals, Sequences, Functions

CONSTANTS
    Tasks,          \* of the request
    Keys,           \* scoped services
    MaxObjects      \* bound: on the services ever resolved

VARIABLES
    instances,      \* _instances, in the order they were added: <<key, object>>
    made,           \* objects resolved so far
    closed,         \* the objects whose close() was awaited, in order
    doing,          \* where each task is
    raced           \* a service was made twice at once, or while the scope closed

vars == <<instances, made, closed, doing, raced>>

Idle == [op |-> "idle"]
Has(key) == \E i \in DOMAIN instances : instances[i][1] = key

TypeOK ==
    /\ made \in 0..MaxObjects
    /\ instances \in Seq(Keys \X (1..made)) /\ closed \in Seq(1..made)
    /\ \A t \in Tasks : doing[t].op \in {"idle", "make", "close"}
    /\ raced \in BOOLEAN

Init ==
    /\ instances = <<>> /\ made = 0 /\ closed = <<>>
    /\ doing = [t \in Tasks |-> Idle] /\ raced = FALSE

-----------------------------------------------------------------------------

Goes(t, where) == doing' = [doing EXCEPT ![t] = where]

\* make() of a service the scope has is over at once.
StartMake(t, key) ==
    /\ doing[t] = Idle /\ ~Has(key) /\ made < MaxObjects
    /\ made' = made + 1
    /\ Goes(t, [op |-> "make", key |-> key, object |-> made + 1])
    /\ raced' = (raced \/ \E u \in Tasks :
                    doing[u].op = "close" \/ (doing[u].op = "make" /\ doing[u].key = key))
    /\ UNCHANGED <<instances, closed>>

Stored_Never(key, object) == instances
Stored(key, object) ==
    IF Has(key) THEN [i \in DOMAIN instances |-> IF instances[i][1] = key THEN <<key, object>> ELSE instances[i]]
    ELSE Append(instances, <<key, object>>)

Resolved(t) ==
    /\ doing[t].op = "make"
    /\ instances' = Stored(doing[t].key, doing[t].object)
    /\ Goes(t, Idle)
    /\ UNCHANGED <<made, closed, raced>>

\* Awaiting the close() of the service at place n of as many as there were.
AwaitsClose(n, size) ==
    [op |-> "close", next |-> n, size |-> size, object |-> instances[n][2]]

\* close() of a scope without services is over at once.
StartClose(t) ==
    /\ doing[t] = Idle /\ instances # <<>>
    /\ Goes(t, AwaitsClose(1, Len(instances)))
    /\ raced' = (raced \/ \E u \in Tasks : doing[u] # Idle)
    /\ UNCHANGED <<instances, made, closed>>

\* A service has closed, whatever that raised, and the iteration goes on: to
\* an error when the dict has another size by now, to the next service, or to
\* the end, where the scope forgets all of them.
Closed(t) ==
    LET at == doing[t]
    IN  /\ at.op = "close"
        /\ closed' = Append(closed, at.object)
        /\ IF at.size # Len(instances) THEN Goes(t, Idle) /\ UNCHANGED instances
           ELSE IF at.next = at.size THEN Goes(t, Idle) /\ instances' = <<>>
           ELSE Goes(t, AwaitsClose(at.next + 1, at.size)) /\ UNCHANGED instances
        /\ UNCHANGED <<made, raced>>

Next ==
    \E t \in Tasks :
        \/ \E key \in Keys : StartMake(t, key)
        \/ Resolved(t) \/ StartClose(t) \/ Closed(t)

Spec == Init /\ [][Next]_vars

-----------------------------------------------------------------------------

\* Unless two tasks made one service at once, or one was made while the scope
\* closed, every service that was resolved is in the scope, under a task that
\* is about to put it there, or closed, and closed once (scoped.py).
ResolvedIsClosed ==
    ~raced =>
        /\ IsInjective(closed)
        /\ \A o \in 1..made :
            \/ o \in Range(closed)
            \/ \E i \in DOMAIN instances : instances[i][2] = o
            \/ \E t \in Tasks : doing[t].op = "make" /\ doing[t].object = o
===============================================================================
