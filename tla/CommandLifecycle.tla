--------------------------- MODULE CommandLifecycle ---------------------------
(***************************************************************************)
(* A run of a console command (src/core/console/console_application.py):   *)
(* _run_command() with its guards, callbacks, middleware and events, and   *)
(* _execute_lifecycle() with the lock, the hooks, the time limit and the   *)
(* retries.  A handler may call() other commands, which go through the     *)
(* lifecycle only; stack is the chain of lifecycles of the process.        *)
(*                                                                         *)
(* What a hook, handler, callback or middleware does is its outcome: it    *)
(* returns a code, raises an Exception or a KeyboardInterrupt.  The lock   *)
(* file is a key that is free or held (CommandLock has its races); another *)
(* process may hold it, so an acquire may fail at any time.                *)
(***************************************************************************)
EXTENDS Naturals, Sequences, SequencesExt

CONSTANTS
    Commands, NoCommand,
    KeyOf,          \* the lock key of a command that locks, "" of the others
    Retries,        \* @retry: times, 0 when absent
    Timed,          \* @timeout
    Guarded,        \* with a production guard, an environment guard
    Calls,          \* commands that a handler of a command may call
    MaxCalls        \* by one handler, over all its attempts

CommandsAssumption ==
    /\ NoCommand \notin Commands
    /\ KeyOf \in [Commands -> STRING] /\ Retries \in [Commands -> Nat]
    /\ Timed \subseteq Commands /\ Guarded \subseteq Commands
    /\ Calls \in [Commands -> SUBSET Commands]
    /\ MaxCalls \in Nat

VARIABLES
    run,        \* _run_command(): its phase, command and exit code
    events,     \* dispatched, in order
    stack,      \* lifecycles, the innermost last
    result,     \* what the innermost call hands to its caller
    held,       \* lock keys of this process
    lost        \* of these, keys whose release was skipped (history)

vars == <<run, events, stack, result, held, lost>>

Codes == {"ok", "fail", "invalid"}
Result == [is : Codes \cup {"none", "error", "locked", "interrupt"}, target : {0}]
    \cup [is : {"cancel"}, target : 1..Len(stack) + 1]

Is(what) == [is |-> what, target |-> 0]
Nothing == Is("none")
Raised == {Is("error"), Is("locked")}     \* Exceptions; the others are BaseExceptions
IsException(r) == r \in Raised

TypeOK ==
    /\ run \in [phase : {"idle", "callbacks", "pipeline", "inside", "returned", "over"},
                command : Commands \cup {NoCommand}, code : Codes \cup {"none", "interrupted"}]
    /\ events \in Seq({"Skipped", "Starting", "Finished", "Failed"})
    /\ \A i \in 1..Len(stack) :
        stack[i] \in [command : Commands, owns : BOOLEAN, exit : Result,
                      phase : {"before", "handle", "sleep", "success", "failure", "error", "after"},
                      attempt : Nat, calls : 0..MaxCalls]
    /\ result \in Result
    /\ held \subseteq {KeyOf[c] : c \in Commands} /\ lost \subseteq held

Init ==
    /\ run = [phase |-> "idle", command |-> NoCommand, code |-> "none"]
    /\ events = <<>> /\ stack = <<>> /\ result = Nothing /\ held = {} /\ lost = {}

Top == stack[Len(stack)]
Within(phase) == result = Nothing /\ stack # <<>> /\ Top.phase = phase
SetTop(frame) == stack' = [stack EXCEPT ![Len(stack)] = frame]

-----------------------------------------------------------------------------

\* _run_command() up to the start of the pipeline, and after it.

Ends(code, sent) ==
    /\ run' = [run EXCEPT !.phase = "over", !.code = code]
    /\ events' = events \o sent

\* The command is unknown, its environment guard refuses, its input does not
\* bind or validate, or its production guard is not confirmed.
Refused(c) ==
    /\ run.phase = "idle"
    /\ \/ Ends("fail", <<>>)
       \/ Ends("fail", <<"Failed">>)
       \/ Ends("invalid", <<>>)
       \/ c \in Guarded /\ Ends("fail", <<"Skipped">>)
    /\ UNCHANGED <<stack, result, held, lost>>

Start(c) ==
    /\ run.phase = "idle"
    /\ run' = [run EXCEPT !.phase = "callbacks", !.command = c]
    /\ events' = Append(events, "Starting")
    /\ UNCHANGED <<stack, result, held, lost>>

BeforeCallbacks ==
    /\ run.phase = "callbacks"
    /\ \/ run' = [run EXCEPT !.phase = "pipeline"] /\ UNCHANGED events
       \/ Ends("fail", <<"Failed">>)
    /\ UNCHANGED <<stack, result, held, lost>>

\* A middleware answers itself instead of calling the next handler, or
\* changes what that returned.
MiddlewareAnswers ==
    /\ \/ run.phase = "pipeline"
       \/ run.phase = "inside" /\ stack = <<>> /\ result.is \in Codes \cup {"error", "locked"}
    /\ run' = [run EXCEPT !.phase = "returned"]
    /\ result' \in {Is("ok"), Is("fail"), Is("error")}
    /\ UNCHANGED <<events, stack, held, lost>>

PipelineReturns ==
    /\ run.phase = "inside" /\ stack = <<>> /\ result # Nothing
    /\ run' = [run EXCEPT !.phase = "returned"]
    /\ UNCHANGED <<events, stack, result, held, lost>>

\* An error that the code would swallow on the way out.
Reported_OkOnError(r) ==
    \/ r.is \in Codes /\ (Ends(r.is, <<"Finished">>) \/ Ends("fail", <<"Failed">>))
    \/ r.is = "error" /\ Ends("ok", <<"Failed">>)
    \/ r.is = "locked" /\ Ends("fail", <<>>)
    \/ r.is = "interrupt" /\ Ends("interrupted", <<>>)

\* The after callbacks may raise; only then is a returned code not reported.
Reported(r) ==
    \/ r.is \in Codes /\ (Ends(r.is, <<"Finished">>) \/ Ends("fail", <<"Failed">>))
    \/ r.is = "error" /\ Ends("fail", <<"Failed">>)
    \/ r.is = "locked" /\ Ends("fail", <<>>)
    \/ r.is = "interrupt" /\ Ends("interrupted", <<>>)

RunEnds ==
    /\ run.phase = "returned"
    /\ Reported(result)
    /\ UNCHANGED <<stack, result, held, lost>>

-----------------------------------------------------------------------------

\* _execute_lifecycle(): the lock, then before().

Begun(c) == [command |-> c, owns |-> KeyOf[c] # "", exit |-> Nothing,
             phase |-> "before", attempt |-> 1, calls |-> 0]

Enter(c) ==
    \/ /\ KeyOf[c] # ""
       /\ result' = Is("locked")
       /\ UNCHANGED <<stack, held>>
    \/ /\ KeyOf[c] \notin held
       /\ stack' = Append(stack, Begun(c))
       /\ held' = held \cup ({KeyOf[c]} \ {""})
       /\ result' = Nothing

EnterPipeline ==
    /\ run.phase = "pipeline"
    /\ run' = [run EXCEPT !.phase = "inside"]
    /\ Enter(run.command)
    /\ UNCHANGED <<events, lost>>

LeavesWith(r) == SetTop([Top EXCEPT !.phase = "after", !.exit = r])
Fails(r) == SetTop([Top EXCEPT !.phase = "error", !.exit = r])
OnlyStack == UNCHANGED <<run, events, result, held, lost>>

Before ==
    /\ Within("before")
    /\ \/ SetTop([Top EXCEPT !.phase = "handle"])
       \/ LeavesWith(Is("fail"))
       \/ Fails(Is("error"))
       \/ LeavesWith(Is("interrupt"))
    /\ OnlyStack

HandleReturns ==
    /\ Within("handle")
    /\ \/ SetTop([Top EXCEPT !.phase = "success", !.exit = Is("ok")])
       \/ SetTop([Top EXCEPT !.phase = "failure", !.exit = Is("fail")])
    /\ OnlyStack

\* The last attempt, or an exception @retry is not for, goes to on_error().
HandlerFails(r) ==
    \/ Top.attempt < Retries[Top.command] /\ SetTop([Top EXCEPT !.phase = "sleep"])
    \/ Fails(r)

HandleRaises ==
    /\ Within("handle")
    /\ HandlerFails(Is("error")) \/ LeavesWith(Is("interrupt"))
    /\ OnlyStack

Retry ==
    /\ Within("sleep")
    /\ SetTop([Top EXCEPT !.phase = "handle", !.attempt = @ + 1])
    /\ OnlyStack

\* on_success() and on_failure(): an exception of theirs goes to on_error().
OutcomeHook ==
    /\ Within("success") \/ Within("failure")
    /\ LeavesWith(Top.exit) \/ Fails(Is("error")) \/ LeavesWith(Is("interrupt"))
    /\ OnlyStack

OnError ==
    /\ Within("error")
    /\ \E r \in {Top.exit, Is("ok"), Is("fail"), Is("error"), Is("interrupt")} : LeavesWith(r)
    /\ OnlyStack

\* A lock that is only released when the command ended with a code.
Released_OnReturn(frame) ==
    IF frame.owns /\ frame.exit.is \in Codes THEN held \ {KeyOf[frame.command]} ELSE held

\* The lock is released after after(), unless a BaseException leaves it.
Released(frame) == IF frame.owns THEN held \ {KeyOf[frame.command]} ELSE held

After ==
    /\ Within("after")
    /\ result' = Top.exit
    /\ held' = Released(Top)
    /\ stack' = Front(stack)
    /\ UNCHANGED <<run, events, lost>>

Lost(frame) == IF frame.owns THEN lost \cup {KeyOf[frame.command]} ELSE lost

AfterInterrupted ==
    /\ Within("after")
    /\ result' = Is("interrupt")
    /\ lost' = Lost(Top)
    /\ stack' = Front(stack)
    /\ UNCHANGED <<run, events, held>>

-----------------------------------------------------------------------------

\* call() from within handle(): what the called command ends with is for the
\* handler to use or to pass on.

HandleCalls ==
    /\ Within("handle") /\ Top.calls < MaxCalls
    /\ \E c \in Calls[Top.command] :
        LET counted == [Top EXCEPT !.calls = @ + 1]
            calling == [stack EXCEPT ![Len(stack)] = counted]
        IN  \/ result' \in {Is("error"), Is("invalid")} /\ stack' = calling /\ UNCHANGED held
            \/ KeyOf[c] # "" /\ result' = Is("locked") /\ stack' = calling /\ UNCHANGED held
            \/ /\ KeyOf[c] \notin held
               /\ stack' = Append(calling, Begun(c))
               /\ held' = held \cup ({KeyOf[c]} \ {""})
               /\ UNCHANGED result
    /\ UNCHANGED <<run, events, lost>>

CalleeReturns ==
    /\ stack # <<>> /\ result # Nothing
    /\ result' = Nothing
    /\ \/ result.is \in Codes \cup {"error", "locked"} /\ UNCHANGED stack
       \/ result \in Raised /\ HandlerFails(result)
       \/ result.is = "interrupt" /\ LeavesWith(result)
       \/ result.is = "cancel" /\ result.target < Len(stack) /\ LeavesWith(result)
       \/ result.is = "cancel" /\ result.target = Len(stack) /\ HandlerFails(Is("error"))
    /\ UNCHANGED <<run, events, held, lost>>

\* wait_for() gives up on an attempt of the i-th lifecycle.  The innermost
\* one gets the CancelledError, wherever it is; none of its hooks but
\* after() sees it, and in after() it ends the lifecycle.
TimesOut(i) ==
    /\ result = Nothing /\ i \in 1..Len(stack)
    /\ stack[i].command \in Timed /\ stack[i].phase = "handle"
    /\ ~ \E j \in i + 1..Len(stack) : stack[j].exit.is = "cancel"
    /\ LET cancel == [is |-> "cancel", target |-> i]
       IN  \/ i = Len(stack) /\ HandlerFails(Is("error")) /\ UNCHANGED <<result, lost>>
           \/ /\ i < Len(stack) /\ Top.phase # "after"
              /\ LeavesWith(cancel) /\ UNCHANGED <<result, lost>>
           \/ /\ i < Len(stack) /\ Top.phase = "after"
              /\ stack' = Front(stack) /\ result' = cancel
              /\ lost' = Lost(Top)
    /\ UNCHANGED <<run, events, held>>

Next ==
    \/ \E c \in Commands : Refused(c) \/ Start(c)
    \/ BeforeCallbacks \/ EnterPipeline \/ MiddlewareAnswers \/ PipelineReturns \/ RunEnds
    \/ Before \/ HandleReturns \/ HandleRaises \/ HandleCalls \/ CalleeReturns
    \/ Retry \/ OutcomeHook \/ OnError \/ After \/ AfterInterrupted
    \/ \E i \in 1..Len(stack) : TimesOut(i)

Spec == Init /\ [][Next]_vars

-----------------------------------------------------------------------------

\* A key is held exactly by the lifecycles under way that took it, each key by
\* one, whatever raised, timed out or was retried; the only others are of
\* lifecycles whose after() was cut short.
LocksAreOfLifecycles ==
    /\ held = {KeyOf[f.command] : f \in {stack[i] : i \in {j \in 1..Len(stack) : stack[j].owns}}}
              \cup lost
    /\ \A i, j \in 1..Len(stack) :
        stack[i].owns /\ stack[j].owns /\ KeyOf[stack[i].command] = KeyOf[stack[j].command] => i = j

\* What a run that is over told its listeners and the shell agree: SUCCESS
\* comes with CommandFinished only, CommandFailed with FAILURE, and a run that
\* announced its start is silent about its end only when a lock refused it or
\* it was interrupted.
EndIsReported ==
    run.phase = "over" =>
        /\ run.code = "ok" => events = <<"Starting", "Finished">>
        /\ Contains(events, "Failed") => Last(events) = "Failed" /\ run.code = "fail"
        /\ events = <<"Starting">> =>
            result \in {Is("locked"), Is("interrupt")} /\ run.code \in {"fail", "interrupted"}
===============================================================================
