------------------------- MODULE AuthEventDispatcher -------------------------
(***************************************************************************)
(* Auth events and their listeners (src/core/auth/auth_events.py).         *)
(* dispatch() takes the list registered for the type of the event and      *)
(* extends it, in place, with the listeners of AuthEvent itself; it then   *)
(* walks the list with an await at every listener, while other tasks       *)
(* dispatch and register.  A type nobody listens to has no list, and       *)
(* dispatch() then walks one of its own.                                   *)
(***************************************************************************)
EXTENDS Naturals, Sequences, SequencesExt

CONSTANTS
    Types, Base,        \* event types, AuthEvent among them
    Listeners, Tasks,
    MaxDispatches, MaxRegistered

EventsAssumption == Base \in Types /\ MaxDispatches \in Nat /\ MaxRegistered \in Nat

VARIABLES
    listeners,      \* _listeners: a type without a key has <<>>
    walks,          \* task -> its dispatch: list is <<>> while it walks the live one
    dispatches

vars == <<listeners, walks, dispatches>>

Idle == [type |-> Base, live |-> FALSE, list |-> <<>>, owed |-> <<>>, heard |-> <<>>,
         over |-> TRUE]

TypeOK ==
    /\ listeners \in [Types -> Seq(Listeners)]
    /\ \A t \in Tasks :
        /\ walks[t].type \in Types /\ walks[t].live \in BOOLEAN /\ walks[t].over \in BOOLEAN
        /\ {walks[t].list, walks[t].owed, walks[t].heard} \subseteq Seq(Listeners)
    /\ dispatches \in 0..MaxDispatches

Init ==
    /\ listeners = [e \in Types |-> <<>>]
    /\ walks = [t \in Tasks |-> Idle]
    /\ dispatches = 0

On(e, l) ==
    /\ Len(listeners[e]) < MaxRegistered
    /\ listeners' = [listeners EXCEPT ![e] = Append(@, l)]
    /\ UNCHANGED <<walks, dispatches>>

\* A dispatch that falls back on the base listeners.
Extended_Fallback(e) == IF listeners[e] = <<>> THEN listeners[Base] ELSE listeners[e]

\* The list the event's type has, and what dispatch() makes of it.
Extended(e) == listeners[e] \o listeners[Base]

Dispatch(t, e) ==
    /\ walks[t].over /\ dispatches < MaxDispatches
    /\ dispatches' = dispatches + 1
    /\ LET live == listeners[e] # <<>>
       IN  /\ listeners' = IF live THEN [listeners EXCEPT ![e] = Extended(e)] ELSE listeners
           /\ walks' = [walks EXCEPT ![t] = [type |-> e, live |-> live, heard |-> <<>>,
                list |-> IF live THEN <<>> ELSE Extended(e),
                owed |-> listeners[e] \o listeners[Base], over |-> FALSE]]

Walked(t) == IF walks[t].live THEN listeners[walks[t].type] ELSE walks[t].list

\* One listener; what it raises is logged.
Listener(t) ==
    /\ ~ walks[t].over /\ Len(walks[t].heard) < Len(Walked(t))
    /\ walks' = [walks EXCEPT ![t].heard = Append(@, Walked(t)[Len(@) + 1])]
    /\ UNCHANGED <<listeners, dispatches>>

Dispatched(t) ==
    /\ ~ walks[t].over /\ Len(walks[t].heard) >= Len(Walked(t))
    /\ walks' = [walks EXCEPT ![t].over = TRUE]
    /\ UNCHANGED <<listeners, dispatches>>

\* clear() forgets the lists; a dispatch under way keeps the one it walks.
Clear ==
    /\ listeners' = [e \in Types |-> <<>>]
    /\ walks' = [t \in Tasks |-> [walks[t] EXCEPT !.list = Walked(t), !.live = FALSE]]
    /\ UNCHANGED dispatches

Next ==
    \/ \E e \in Types, l \in Listeners : On(e, l)
    \/ \E t \in Tasks, e \in Types : Dispatch(t, e)
    \/ \E t \in Tasks : Listener(t) \/ Dispatched(t)
    \/ Clear

Spec == Init /\ [][Next]_vars

-----------------------------------------------------------------------------

\* When a dispatch is over every listener registered at its start for the type
\* of its event or for AuthEvent has heard of it, in that order, however the
\* list was extended, repeated or forgotten meanwhile.
ListenersHear ==
    \A t \in Tasks : walks[t].over => IsPrefix(walks[t].owed, walks[t].heard)
===============================================================================
