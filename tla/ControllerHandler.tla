--------------------------- MODULE ControllerHandler ---------------------------
(***************************************************************************)
(* The handler that a controller's method is compiled to (_make_handler()  *)
(* in src/core/controller/compiler.py) with the hooks of the controller    *)
(* (base.py).  The hooks are awaited, so requests interleave; a controller *)
(* may be a singleton of the container that keeps what before_action()     *)
(* loaded, as its docstring suggests.                                      *)
(***************************************************************************)
EXTENDS Naturals, TLAPS

CONSTANTS
    Requests, NoRequest,
    DataActions,    \* requests for store, create and update
    Positional,     \* requests whose data is no keyword argument
    Singleton       \* whether the controller is shared

HandlerAssumption ==
    /\ DataActions \subseteq Requests /\ Positional \subseteq Requests
    /\ Singleton \in BOOLEAN /\ NoRequest \notin Requests

VARIABLES
    phase,          \* what a request does next
    answer,         \* its response
    data,           \* what it passes on: raw, or clean as validate() returned it
    loaded,         \* controller -> whose before_action() stored something there last
    seen            \* whose state the action found, which data, after which validation

vars == <<phase, answer, data, loaded, seen>>

\* make() of the container, or a fresh one.
Controller(r) == IF Singleton THEN NoRequest ELSE r
Unseen == [state |-> NoRequest, data |-> "none", authorized |-> FALSE, validated |-> "no"]

TypeOK ==
    /\ phase \in [Requests -> {"before", "authorize", "validate", "action", "after", "done"}]
    /\ answer \in [Requests -> {"none", "raised", "forbidden", "invalid", "result"}]
    /\ data \in [Requests -> {"raw", "clean"}]
    /\ loaded \in [Requests \cup {NoRequest} -> Requests \cup {NoRequest}]
    /\ seen \in [Requests -> [state : Requests \cup {NoRequest}, data : {"none", "raw", "clean"},
                              authorized : BOOLEAN, validated : {"no", "value", "nothing"}]]

Init ==
    /\ phase = [r \in Requests |-> "before"] /\ answer = [r \in Requests |-> "none"]
    /\ data = [r \in Requests |-> "raw"]
    /\ loaded = [c \in Requests \cup {NoRequest} |-> NoRequest]
    /\ seen = [r \in Requests |-> Unseen]

Goto(r, next) == phase' = [phase EXCEPT ![r] = next] /\ UNCHANGED answer
Answers(r, a) == phase' = [phase EXCEPT ![r] = "done"] /\ answer' = [answer EXCEPT ![r] = a]
Raises(r) == phase[r] # "done" /\ Answers(r, "raised") /\ UNCHANGED <<data, loaded, seen>>

BeforeAction(r) ==
    /\ phase[r] = "before" /\ Goto(r, "authorize")
    /\ loaded' = [loaded EXCEPT ![Controller(r)] = r]
    /\ UNCHANGED <<data, seen>>

Authorize(r) ==
    /\ phase[r] = "authorize"
    /\ \/ /\ Goto(r, IF r \in DataActions THEN "validate" ELSE "action")
          /\ seen' = [seen EXCEPT ![r].authorized = TRUE]
       \/ Answers(r, "forbidden") /\ UNCHANGED seen
    /\ UNCHANGED <<data, loaded>>

\* The data of a request whose validate() returned something.
Replaced_Never(r) == data[r]

\* Data that is no keyword argument is not replaced.
Replaced(r) == IF r \in Positional THEN data[r] ELSE "clean"

\* validate() returns a value or nothing, or raises one of the errors that
\* are answered by 422.
Validate(r) ==
    /\ phase[r] = "validate"
    /\ \/ /\ Goto(r, "action") /\ data' = [data EXCEPT ![r] = Replaced(r)]
          /\ seen' = [seen EXCEPT ![r].validated = "value"]
       \/ /\ Goto(r, "action") /\ UNCHANGED data
          /\ seen' = [seen EXCEPT ![r].validated = "nothing"]
       \/ Answers(r, "invalid") /\ UNCHANGED <<data, seen>>
    /\ UNCHANGED loaded

Action(r) ==
    /\ phase[r] = "action" /\ Goto(r, "after")
    /\ seen' = [seen EXCEPT ![r].state = loaded[Controller(r)], ![r].data = data[r]]
    /\ UNCHANGED <<data, loaded>>

AfterAction(r) ==
    /\ phase[r] = "after" /\ Answers(r, "result")
    /\ UNCHANGED <<data, loaded, seen>>

Next == \E r \in Requests :
    \/ BeforeAction(r) \/ Authorize(r) \/ Validate(r) \/ Action(r) \/ AfterAction(r) \/ Raises(r)

Spec == Init /\ [][Next]_vars

-----------------------------------------------------------------------------

\* An action that ran was authorized; one that takes data was given what
\* validate() made of it, unless that returned nothing or the data is no
\* keyword argument; and on a controller of its own it finds what its own
\* before_action() loaded, while a shared one may hold another request's.
ActionsAreGuarded ==
    \A r \in Requests : seen[r].data # "none" =>
        /\ seen[r].authorized
        /\ r \in DataActions =>
            /\ seen[r].validated # "no"
            /\ seen[r].validated = "value" /\ r \notin Positional => seen[r].data = "clean"
        /\ ~ Singleton => seen[r].state = r

-----------------------------------------------------------------------------

(* Proof of ActionsAreGuarded, for any requests and controllers. *)

\* What a request has passed by the time it is in a phase, and what it left on
\* a controller of its own.
Progress(r) ==
    /\ phase[r] \in {"validate", "action", "after"} => seen[r].authorized
    /\ phase[r] = "action" /\ r \in DataActions =>
        /\ seen[r].validated # "no"
        /\ seen[r].validated = "value" /\ r \notin Positional => data[r] = "clean"
    /\ phase[r] \in {"before", "authorize", "validate", "action"} => seen[r].data = "none"
    /\ ~ Singleton /\ phase[r] \in {"authorize", "validate", "action"} => loaded[r] = r

\* The part of the types that the steps rely on.
Shape ==
    /\ DOMAIN phase = Requests /\ DOMAIN data = Requests
    /\ DOMAIN loaded = Requests \cup {NoRequest}
    /\ DOMAIN seen = Requests
    /\ \A r \in Requests : DOMAIN seen[r] = {"state", "data", "authorized", "validated"}

Guarded(r) ==
    seen[r].data # "none" =>
        /\ seen[r].authorized
        /\ r \in DataActions =>
            /\ seen[r].validated # "no"
            /\ seen[r].validated = "value" /\ r \notin Positional => seen[r].data = "clean"
        /\ ~ Singleton => seen[r].state = r

IInv == Shape /\ \A r \in Requests : Progress(r) /\ Guarded(r)

\* A step of one request touches no other: not its data, nor, when controllers
\* are not shared, its controller.
LEMMA StepKeepsInvariant ==
    ASSUME HandlerAssumption, IInv, [Next]_vars
    PROVE  IInv'
<1> USE DEF IInv, Shape, Progress, Guarded, HandlerAssumption
<1>1. ASSUME NEW r \in Requests, BeforeAction(r) PROVE IInv'
  <2>1. Controller(r) \in Requests \cup {NoRequest}
    BY DEF Controller
  <2>2. Shape'
    BY <1>1, <2>1 DEF BeforeAction, Goto
  <2>3. ASSUME NEW q \in Requests PROVE (Progress(q) /\ Guarded(q))'
    BY <1>1, <2>3 DEF BeforeAction, Goto, Controller
  <2> QED
    BY <2>2, <2>3
<1>2. ASSUME NEW r \in Requests, Authorize(r) PROVE IInv'
  <2>1. ASSUME NEW q \in Requests PROVE (Progress(q) /\ Guarded(q))'
    BY <1>2, <2>1 DEF Authorize, Goto, Answers
  <2> QED
    BY <1>2, <2>1 DEF Authorize, Goto, Answers
<1>3. ASSUME NEW r \in Requests, Validate(r) PROVE IInv'
  BY <1>3 DEF Validate, Goto, Answers, Replaced
<1>4. ASSUME NEW r \in Requests, Action(r) PROVE IInv'
  <2>1. Controller(r) \in Requests \cup {NoRequest}
    BY DEF Controller
  <2>2. Shape'
    BY <1>4, <2>1 DEF Action, Goto
  <2>3. ASSUME NEW q \in Requests PROVE (Progress(q) /\ Guarded(q))'
    BY <1>4, <2>3 DEF Action, Goto, Controller
  <2> QED
    BY <2>2, <2>3
<1>5. ASSUME NEW r \in Requests, AfterAction(r) \/ Raises(r) PROVE IInv'
  BY <1>5 DEF AfterAction, Raises, Answers
<1>6. CASE UNCHANGED vars
  BY <1>6 DEF vars
<1> QED
  BY <1>1, <1>2, <1>3, <1>4, <1>5, <1>6 DEF Next

\* However requests interleave, each with hooks that may refuse or raise, an
\* action runs authorized, with the data it was validated with and, on a
\* controller of its own, with what its own before_action() left there.
THEOREM HandlerGuards ==
    ASSUME HandlerAssumption
    PROVE  Spec => []ActionsAreGuarded
<1>1. Init => IInv
  BY DEF Init, IInv, Shape, Progress, Guarded, HandlerAssumption, Unseen
<1>2. IInv /\ [Next]_vars => IInv'
  BY StepKeepsInvariant
<1>3. IInv => ActionsAreGuarded
  BY DEF IInv, Guarded, ActionsAreGuarded
<1> QED
  BY <1>1, <1>2, <1>3, PTL DEF Spec
===============================================================================
