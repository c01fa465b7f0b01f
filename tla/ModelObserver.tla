---------------------------- MODULE ModelObserver ----------------------------
(***************************************************************************)
(* ObserverRegistry (src/core/database/observer.py) for one model: the     *)
(* first observe() hooks the model's mapper events of SQLAlchemy, each     *)
(* event of a flush then walks the observers of the moment, and an         *)
(* observer that raises stops the flush.  clear() forgets the observers    *)
(* but not that the events are hooked.                                     *)
(***************************************************************************)
EXTENDS Naturals, Sequences, SequencesExt, FiniteSets

CONSTANTS
    Observers,
    Vetoes,         \* <<observer, event>>: the methods that raise
    MaxWrites       \* bound: on the flushes

VetoesAssumption == \A veto \in Vetoes : veto[1] \in Observers /\ veto[2] \in {"creating", "updating", "deleting"}

VARIABLES
    observers,      \* _observers[model]
    registered,     \* the model is in _registered
    hooks,          \* how often the mapper events are hooked
    writes,         \* flushes so far
    made,           \* those that reached the database
    log             \* the calls of observers: <<flush, observer, event>>

vars == <<observers, registered, hooks, writes, made, log>>

Events == {"saving", "creating", "created", "saved", "updating", "updated", "deleting", "deleted"}

TypeOK ==
    /\ observers \in Seq(Observers) /\ registered \in BOOLEAN /\ hooks \in Nat
    /\ writes \in 0..MaxWrites /\ made \subseteq 1..writes
    /\ log \in Seq((1..writes) \X Observers \X Events)

Init ==
    /\ observers = <<>> /\ registered = FALSE /\ hooks = 0
    /\ writes = 0 /\ made = {} /\ log = <<>>

-----------------------------------------------------------------------------

\* observe(), of an observer the model does not have yet.
Observe(o) ==
    /\ ~Contains(observers, o)
    /\ observers' = Append(observers, o)
    /\ registered' = TRUE
    /\ hooks' = IF registered THEN hooks ELSE hooks + 1
    /\ UNCHANGED <<writes, made, log>>

Forgotten_Registered(r) == FALSE
Forgotten(r) == r

Clear ==
    /\ observers # <<>>
    /\ observers' = <<>> /\ registered' = Forgotten(registered)
    /\ UNCHANGED <<hooks, writes, made, log>>

\* One mapper event: each hook walks the observers and calls some methods.
Walk(events) ==
    FlattenSeq([h \in 1..hooks |->
        FlattenSeq([i \in DOMAIN observers |->
            [e \in DOMAIN events |-> <<writes + 1, observers[i], events[e]>>]])])

IsVeto(call) == <<call[2], call[3]>> \in Vetoes

\* A flush: the events before, the statement, and those after it; the first
\* method that raises ends it.
Flush(before, after) ==
    LET first == SelectInSeq(Walk(before), IsVeto)
    IN  /\ writes < MaxWrites /\ writes' = writes + 1
        /\ IF first # 0
           THEN log' = log \o SubSeq(Walk(before), 1, first) /\ UNCHANGED made
           ELSE log' = log \o Walk(before) \o Walk(after) /\ made' = made \cup {writes + 1}
        /\ UNCHANGED <<observers, registered, hooks>>

Insert == Flush(<<"saving", "creating">>, <<"created", "saved">>)
Update == Flush(<<"saving", "updating">>, <<"updated", "saved">>)
Delete == Flush(<<"deleting">>, <<"deleted">>)

Next ==
    \/ \E o \in Observers : Observe(o)
    \/ Clear \/ Insert \/ Update \/ Delete

Spec == Init /\ [][Next]_vars

-----------------------------------------------------------------------------

Heard(w, o, es) == \E i \in DOMAIN log : log[i][1] = w /\ log[i][2] = o /\ log[i][3] \in es

\* An observer hears each event of a write once, however often the observers
\* were cleared and registered again, and it hears of the end of exactly the
\* writes that were made and of whose beginning it heard (observer.py).
ObserversHearOnce ==
    /\ IsInjective(log)
    /\ \A w \in 1..writes, o \in Observers :
        Heard(w, o, {"created", "updated", "deleted"})
            <=> w \in made /\ Heard(w, o, {"creating", "updating", "deleting"})
===============================================================================
