----------------------------- MODULE RuntimeProofs -----------------------------
(***************************************************************************)
(* Proofs about components that MCRuntime composes, for all values of its  *)
(* constants: the lifecycles of console commands, the scope of a request,  *)
(* the providers of an application, the buffered log channel and the       *)
(* adapters of one task, and from them what the run of MCRuntime checks    *)
(* of all of them at once.                                                 *)
(***************************************************************************)
EXTENDS MCRuntime, FiniteSetTheorems, TLAPS

(* The lifecycles of commands.  A lock key is held by one lifecycle, the    *)
(* one that took it, or by none that is under way any more.                *)

Ends == {"ok", "fail", "invalid", "none", "error", "locked", "interrupt"}

Outcomes == [is : Ends, target : {0}] \cup [is : {"cancel"}, target : Nat]

Phases == {"before", "handle", "sleep", "success", "failure", "error", "after"}

Flags == BOOLEAN

Frames == [command : Commands, owns : Flags, exit : Outcomes, attempt : Nat, calls : Nat,
           phase : Phases]

\* The i-th lifecycle of a stack has taken a key.
Owner(s, i, key) == i \in DOMAIN s /\ s[i].owns /\ LockKeyOf[s[i].command] = key

LocksOf(s, keys, gone) ==
    /\ \A key : key \in keys <=> key \in gone \/ \E i : Owner(s, i, key)
    /\ \A i, j, key : Owner(s, i, key) /\ Owner(s, j, key) => i = j
    /\ \A i, key : Owner(s, i, key) => key \notin gone
    /\ "" \notin keys

\* How a run that is over may have ended.
Ended ==
    \/ events \in {<<>>, <<"Skipped">>} /\ run.code \in {"fail", "invalid"}
    \/ events \in {<<"Failed">>, <<"Starting", "Failed">>} /\ run.code = "fail"
    \/ events = <<"Starting", "Finished">> /\ run.code \in Lifecycle!Codes
    \/ events = <<"Starting">> /\ result = Lifecycle!Is("locked") /\ run.code = "fail"
    \/ events = <<"Starting">> /\ result = Lifecycle!Is("interrupt") /\ run.code = "interrupted"

Told ==
    \/ run.phase = "idle" /\ events = <<>>
    \/ /\ run.phase \in {"callbacks", "pipeline", "inside", "returned"}
       /\ events = <<"Starting">> /\ run.command \in Commands
    \/ run.phase = "over" /\ Ended

LifecycleInv ==
    /\ stack \in Seq(Frames) /\ result \in Outcomes
    /\ DOMAIN run = {"phase", "command", "code"}
    /\ run.phase # "inside" => stack = <<>>
    /\ LocksOf(stack, held, losers)
    /\ Told

\* Appending to a sequence leaves its places and adds one.
LEMMA AppendAdds ==
    ASSUME NEW S, NEW seq \in Seq(S), NEW x \in S
    PROVE  /\ Append(seq, x) \in Seq(S) /\ DOMAIN Append(seq, x) = DOMAIN seq \cup {Len(seq) + 1}
           /\ Len(seq) + 1 \notin DOMAIN seq
           /\ Append(seq, x)[Len(seq) + 1] = x /\ \A i \in DOMAIN seq : Append(seq, x)[i] = seq[i]
  OBVIOUS

\* Taking the last element leaves the places before it.
LEMMA FrontLeaves ==
    ASSUME NEW S, NEW seq \in Seq(S), seq # <<>>
    PROVE  /\ Len(seq) \in DOMAIN seq /\ seq[Len(seq)] \in S
           /\ SubSeq(seq, 1, Len(seq) - 1) \in Seq(S)
           /\ Len(SubSeq(seq, 1, Len(seq) - 1)) = Len(seq) - 1
           /\ DOMAIN SubSeq(seq, 1, Len(seq) - 1) = DOMAIN seq \ {Len(seq)}
           /\ \A i \in DOMAIN seq \ {Len(seq)} : SubSeq(seq, 1, Len(seq) - 1)[i] = seq[i]
<1>1. Len(seq) \in Nat \ {0} /\ DOMAIN seq = 1..Len(seq) /\ \A i \in DOMAIN seq : seq[i] \in S
  OBVIOUS
<1> DEFINE t == SubSeq(seq, 1, Len(seq) - 1)
<1>2. t \in Seq(S) /\ Len(t) = Len(seq) - 1 /\ \A i \in 1..(Len(seq) - 1) : t[i] = seq[i]
  BY <1>1
<1>3. DOMAIN t = 1..(Len(seq) - 1) /\ 1..(Len(seq) - 1) = DOMAIN seq \ {Len(seq)}
  BY <1>1, <1>2
<1> QED
  BY <1>1, <1>2, <1>3

\* Only who owns what matters of the lifecycles.
LEMMA SameLocks ==
    ASSUME NEW s, NEW t, NEW keys, NEW gone, LocksOf(s, keys, gone), DOMAIN t = DOMAIN s,
           \A i \in DOMAIN s : t[i].owns = s[i].owns /\ t[i].command = s[i].command
    PROVE  LocksOf(t, keys, gone)
<1>1. \A i, key : Owner(t, i, key) <=> Owner(s, i, key)
  BY DEF Owner
<1> QED
  BY <1>1 DEF LocksOf

\* What is handed over without a target is an outcome.
LEMMA OutcomesAre == \A what \in Ends : Lifecycle!Is(what) \in Outcomes
BY DEF Lifecycle!Is, Outcomes

\* A lifecycle that begins takes a key that nobody has, or none.
LEMMA BeginsWithLock ==
    ASSUME NEW s \in Seq(Frames), NEW keys, NEW gone, LocksOf(s, keys, gone),
           NEW c \in Commands, LockKeyOf[c] \notin keys
    PROVE  /\ Append(s, Lifecycle!Begun(c)) \in Seq(Frames)
           /\ LocksOf(Append(s, Lifecycle!Begun(c)), keys \cup ({LockKeyOf[c]} \ {""}), gone)
<1> DEFINE frame == Lifecycle!Begun(c)
           t == Append(s, frame)
           n == Len(s) + 1
<1>0. frame \in Frames
  <2>1. Lifecycle!Nothing \in Outcomes
    BY OutcomesAre DEF Lifecycle!Nothing, Ends
  <2> QED
    BY <2>1 DEF Lifecycle!Begun, Frames, Flags, Phases
<1>1. frame.command = c /\ (frame.owns <=> LockKeyOf[c] # "")
  BY DEF Lifecycle!Begun
<1> HIDE DEF frame
<1>2. /\ t \in Seq(Frames) /\ n \notin DOMAIN s /\ DOMAIN t = DOMAIN s \cup {n}
      /\ t[n] = frame /\ \A i \in DOMAIN s : t[i] = s[i]
  BY <1>0, AppendAdds
<1> HIDE DEF t, n
<1>3. \A i, key : Owner(t, i, key)
                    <=> Owner(s, i, key) \/ (i = n /\ LockKeyOf[c] = key /\ key # "")
  BY <1>1, <1>2 DEF Owner
<1>4. \A i, key : Owner(s, i, key) => i # n /\ key \in keys
  BY <1>2 DEF Owner, LocksOf
<1> DEFINE all == keys \cup ({LockKeyOf[c]} \ {""})
<1>5. LocksOf(t, all, gone)
  <2>1. \A key : key \in gone => key \in keys
    BY DEF LocksOf
  <2>2. ASSUME NEW i, NEW j, NEW key, Owner(t, i, key), Owner(t, j, key) PROVE i = j
    <3>1. Owner(s, i, key) /\ Owner(s, j, key) => i = j
      BY DEF LocksOf
    <3> QED
      <4>1. CASE i = n
        BY <1>3, <1>4, <2>2, <4>1 DEF LocksOf
      <4>2. CASE i # n
        BY <1>3, <1>4, <2>2, <3>1, <4>2
      <4> QED
        BY <4>1, <4>2
  <2>3. \A key : key \in all <=> key \in gone \/ \E i : Owner(t, i, key)
    BY <1>3 DEF LocksOf
  <2>4. \A i, key : Owner(t, i, key) => key \notin gone
    BY <1>3, <2>1 DEF LocksOf
  <2>5. "" \notin all
    BY DEF LocksOf
  <2> HIDE DEF all
  <2>6. \A i, j, key : Owner(t, i, key) /\ Owner(t, j, key) => i = j
    BY <2>2
  <2> QED
    BY <2>3, <2>4, <2>5, <2>6 DEF LocksOf
<1> QED
  BY <1>2, <1>5 DEF t, frame

\* The innermost lifecycle leaves its key to nobody, or to no lifecycle.
LEMMA EndsWithLock ==
    ASSUME NEW s \in Seq(Frames), s # <<>>, NEW keys, NEW gone, LocksOf(s, keys, gone)
    PROVE  LET own == {key \in {LockKeyOf[s[Len(s)].command]} : s[Len(s)].owns}
           IN  /\ LocksOf(Lifecycle!Front(s), keys \ own, gone)
               /\ LocksOf(Lifecycle!Front(s), keys, gone \cup own)
<1> DEFINE n == Len(s)
           t == Lifecycle!Front(s)
           own == {key \in {LockKeyOf[s[n].command]} : s[n].owns}
<1>1. n \in DOMAIN s /\ DOMAIN t = DOMAIN s \ {n} /\ \A i \in DOMAIN t : t[i] = s[i]
  BY FrontLeaves DEF Lifecycle!Front
<1>2. \A key : key \in own <=> Owner(s, n, key)
  BY <1>1 DEF Owner
<1> HIDE DEF n, t, own
<1>3. \A i, key : Owner(t, i, key) <=> Owner(s, i, key) /\ i # n
  BY <1>1 DEF Owner
<1>4. LocksOf(t, keys \ own, gone)
  BY <1>2, <1>3 DEF LocksOf
<1>5. LocksOf(t, keys, gone \cup own)
  BY <1>2, <1>3 DEF LocksOf
<1> QED
  BY <1>4, <1>5 DEF n, t, own

\* What a step makes of a lifecycle is one, of the same command and lock.
SameLock(g, f) == g.command = f.command /\ g.owns = f.owns
Leaving(f, p, r) == [f EXCEPT !.phase = p, !.exit = r]

LEMMA FramesOf ==
    ASSUME NEW f \in Frames, NEW r \in Outcomes, NEW p \in Phases, NEW g,
           \/ g = [f EXCEPT !.phase = p]
           \/ g = Leaving(f, p, r)
           \/ g = [f EXCEPT !.phase = p, !.attempt = @ + 1]
           \/ g = [f EXCEPT !.calls = @ + 1]
    PROVE  g \in Frames /\ SameLock(g, f)
<1>1. /\ DOMAIN f = {"command", "owns", "exit", "attempt", "calls", "phase"}
      /\ f.command \in Commands /\ f.owns \in Flags /\ f.exit \in Outcomes /\ f.attempt \in Nat
      /\ f.calls \in Nat /\ f.phase \in Phases
      /\ f.attempt + 1 \in Nat /\ f.calls + 1 \in Nat
  BY DEF Frames
<1>2. PICK e \in Outcomes, a \in Nat, c \in Nat, q \in Phases :
        g = [command |-> f.command, owns |-> f.owns, exit |-> e, attempt |-> a, calls |-> c,
             phase |-> q]
  <2>1. CASE g = [f EXCEPT !.phase = p]
    BY <1>1, <2>1 DEF Frames
  <2>2. CASE g = Leaving(f, p, r)
    BY <1>1, <2>2 DEF Frames, Leaving
  <2>3. CASE g = [f EXCEPT !.phase = p, !.attempt = @ + 1]
    BY <1>1, <2>3 DEF Frames
  <2>4. CASE g = [f EXCEPT !.calls = @ + 1]
    BY <1>1, <2>4 DEF Frames
  <2> QED
    BY <2>1, <2>2, <2>3, <2>4
<1> QED
  BY <1>1, <1>2 DEF Frames, SameLock

\* A step that changes the innermost lifecycle only, its command and its lock
\* excepted, and what it hands over.
LEMMA TopChanges ==
    ASSUME LifecycleInv, stack # <<>>, NEW frame \in Frames, Lifecycle!SetTop(frame),
           SameLock(frame, Lifecycle!Top),
           UNCHANGED <<run, events, held, losers>>, result' \in Outcomes
    PROVE  LifecycleInv'
<1> DEFINE n == Len(stack)
<1>1. stack \in Seq(Frames) /\ n \in DOMAIN stack
  BY FrontLeaves DEF LifecycleInv
<1>2. stack' = [stack EXCEPT ![n] = frame]
  BY DEF Lifecycle!SetTop
<1>3. stack' \in Seq(Frames) /\ DOMAIN stack' = DOMAIN stack
      /\ \A i \in DOMAIN stack : stack'[i] = IF i = n THEN frame ELSE stack[i]
  BY <1>1, <1>2
<1>4. \A i \in DOMAIN stack :
        stack'[i].owns = stack[i].owns /\ stack'[i].command = stack[i].command
  BY <1>3 DEF Lifecycle!Top, SameLock
<1>5. LocksOf(stack', held, losers)
  BY <1>3, <1>4, SameLocks DEF LifecycleInv
<1>6. run.phase = "inside"
  BY DEF LifecycleInv
<1>7. Told'
  BY <1>6 DEF LifecycleInv, Told
<1> QED
  BY <1>3, <1>5, <1>6, <1>7 DEF LifecycleInv

LEMMA TopLeaves ==
    ASSUME LifecycleInv, stack # <<>>, NEW r \in Outcomes,
           \/ Lifecycle!LeavesWith(r)
           \/ Lifecycle!Fails(r)
           \/ Lifecycle!HandlerFails(r),
           UNCHANGED <<run, events, held, losers>>, result' \in Outcomes
    PROVE  LifecycleInv'
<1>1. Lifecycle!Top \in Frames
  BY FrontLeaves DEF LifecycleInv, Lifecycle!Top
<1>2. PICK frame \in Frames : Lifecycle!SetTop(frame) /\ SameLock(frame, Lifecycle!Top)
  <2>1. ASSUME NEW p \in Phases, Lifecycle!SetTop([Lifecycle!Top EXCEPT !.phase = p, !.exit = r])
        PROVE  \E frame \in Frames : Lifecycle!SetTop(frame) /\ SameLock(frame, Lifecycle!Top)
    <3>1. Lifecycle!SetTop(Leaving(Lifecycle!Top, p, r))
      BY <2>1 DEF Leaving
    <3>2. Leaving(Lifecycle!Top, p, r) \in Frames
      BY <1>1, FramesOf
    <3>3. SameLock(Leaving(Lifecycle!Top, p, r), Lifecycle!Top)
      BY <1>1, FramesOf
    <3> QED
      BY <3>1, <3>2, <3>3
  <2>2. ASSUME NEW p \in Phases, Lifecycle!SetTop([Lifecycle!Top EXCEPT !.phase = p])
        PROVE  \E frame \in Frames : Lifecycle!SetTop(frame) /\ SameLock(frame, Lifecycle!Top)
    BY <1>1, <2>2, FramesOf
  <2>3. "after" \in Phases /\ "error" \in Phases /\ "sleep" \in Phases
    BY DEF Phases
  <2> QED
    BY <2>1, <2>2, <2>3 DEF Lifecycle!LeavesWith, Lifecycle!Fails, Lifecycle!HandlerFails
<1> QED
  BY <1>2, TopChanges

\* An outer step: nothing changes but what the run has told, outside of the
\* lifecycles.
LEMMA RunChanges ==
    ASSUME LifecycleInv, stack = <<>>, UNCHANGED <<stack, held, losers>>, result' \in Outcomes,
           DOMAIN run' = {"phase", "command", "code"}, Told'
    PROVE  LifecycleInv'
  BY DEF LifecycleInv

LEMMA LifecycleBegins ==
    ASSUME LifecycleInv
    PROVE  /\ \A c \in Commands : Lifecycle!Refused(c) \/ Lifecycle!Start(c) => LifecycleInv'
           /\ Lifecycle!BeforeCallbacks => LifecycleInv'
           /\ Lifecycle!MiddlewareAnswers => LifecycleInv'
           /\ Lifecycle!PipelineReturns => LifecycleInv'
           /\ Lifecycle!RunEnds => LifecycleInv'
<1>1. ASSUME NEW c \in Commands, Lifecycle!Refused(c) PROVE LifecycleInv'
  <2>1. stack = <<>> /\ events = <<>> /\ UNCHANGED <<stack, held, losers, result>>
    BY <1>1 DEF LifecycleInv, Told, Lifecycle!Refused
  <2>2. run'.phase = "over" /\ DOMAIN run' = {"phase", "command", "code"}
    BY <1>1 DEF LifecycleInv, Lifecycle!Refused, Lifecycle!Ends
  <2>3. \/ run'.code \in {"fail", "invalid"} /\ events' = events \o <<>>
        \/ run'.code = "fail" /\ events' = events \o <<"Failed">>
        \/ run'.code = "fail" /\ events' = events \o <<"Skipped">>
    BY <1>1 DEF LifecycleInv, Lifecycle!Refused, Lifecycle!Ends
  <2>4. Ended'
    BY <2>1, <2>3 DEF Ended
  <2> QED
    BY <2>1, <2>2, <2>4, RunChanges DEF Told, LifecycleInv
<1>2. ASSUME NEW c \in Commands, Lifecycle!Start(c) PROVE LifecycleInv'
  <2>1. stack = <<>> /\ events = <<>> /\ UNCHANGED <<stack, held, losers, result>>
    BY <1>2 DEF LifecycleInv, Told, Lifecycle!Start
  <2>2. run'.phase = "callbacks" /\ run'.command = c /\ DOMAIN run' = {"phase", "command", "code"}
    BY <1>2 DEF LifecycleInv, Lifecycle!Start
  <2>3. events' = <<"Starting">>
    BY <1>2, <2>1 DEF Lifecycle!Start
  <2> QED
    BY <2>1, <2>2, <2>3, RunChanges DEF Told, LifecycleInv
<1>3. ASSUME Lifecycle!BeforeCallbacks PROVE LifecycleInv'
  <2>1. /\ stack = <<>> /\ events = <<"Starting">> /\ run.command \in Commands
        /\ UNCHANGED <<stack, held, losers, result>>
    BY <1>3 DEF LifecycleInv, Told, Lifecycle!BeforeCallbacks
  <2>2. DOMAIN run' = {"phase", "command", "code"} /\ run'.command = run.command
    BY <1>3 DEF LifecycleInv, Lifecycle!BeforeCallbacks, Lifecycle!Ends
  <2>3. \/ run'.phase = "pipeline" /\ events' = events
        \/ run'.phase = "over" /\ run'.code = "fail" /\ events' = events \o <<"Failed">>
    BY <1>3 DEF LifecycleInv, Lifecycle!BeforeCallbacks, Lifecycle!Ends
  <2>4. Told'
    BY <2>1, <2>2, <2>3 DEF Told, Ended
  <2> QED
    BY <2>1, <2>2, <2>4, RunChanges DEF LifecycleInv
<1>4. ASSUME Lifecycle!MiddlewareAnswers PROVE LifecycleInv'
  <2>1. /\ stack = <<>> /\ events = <<"Starting">> /\ run.command \in Commands
        /\ UNCHANGED <<stack, held, losers, events>>
    BY <1>4 DEF LifecycleInv, Told, Lifecycle!MiddlewareAnswers
  <2>2. /\ DOMAIN run' = {"phase", "command", "code"} /\ run'.command = run.command
        /\ run'.phase = "returned"
    BY <1>4 DEF LifecycleInv, Lifecycle!MiddlewareAnswers
  <2>3. result' \in Outcomes
    BY <1>4, OutcomesAre DEF Lifecycle!MiddlewareAnswers, Ends
  <2> QED
    BY <2>1, <2>2, <2>3, RunChanges DEF Told
<1>5. ASSUME Lifecycle!PipelineReturns PROVE LifecycleInv'
  <2>1. /\ stack = <<>> /\ events = <<"Starting">> /\ run.command \in Commands
        /\ UNCHANGED <<stack, held, losers, events, result>>
    BY <1>5 DEF LifecycleInv, Told, Lifecycle!PipelineReturns
  <2>2. /\ DOMAIN run' = {"phase", "command", "code"} /\ run'.command = run.command
        /\ run'.phase = "returned"
    BY <1>5 DEF LifecycleInv, Lifecycle!PipelineReturns
  <2> QED
    BY <2>1, <2>2, RunChanges DEF Told, LifecycleInv
<1>6. ASSUME Lifecycle!RunEnds PROVE LifecycleInv'
  <2>1. /\ stack = <<>> /\ events = <<"Starting">>
        /\ UNCHANGED <<stack, held, losers, result>>
    BY <1>6 DEF LifecycleInv, Told, Lifecycle!RunEnds
  <2>2. result \in Outcomes /\ DOMAIN run = {"phase", "command", "code"}
    BY DEF LifecycleInv
  <2>3. DOMAIN run' = {"phase", "command", "code"} /\ run'.phase = "over"
    BY <1>6, <2>2 DEF Lifecycle!RunEnds, Lifecycle!Reported, Lifecycle!Ends
  <2>4. \/ run'.code \in Lifecycle!Codes /\ events' = events \o <<"Finished">>
        \/ run'.code = "fail" /\ events' = events \o <<"Failed">>
        \/ result.is = "locked" /\ run'.code = "fail" /\ events' = events \o <<>>
        \/ result.is = "interrupt" /\ run'.code = "interrupted" /\ events' = events \o <<>>
    BY <1>6, <2>2 DEF Lifecycle!RunEnds, Lifecycle!Reported, Lifecycle!Ends
  <2>5. \A x \in {"locked", "interrupt"} : result.is = x => result = Lifecycle!Is(x)
    BY <2>2 DEF Outcomes, Lifecycle!Is
  <2>6. Ended'
    BY <2>1, <2>4, <2>5 DEF Ended, Lifecycle!Is
  <2> QED
    BY <2>1, <2>2, <2>3, <2>6, RunChanges DEF Told
<1> QED
  BY <1>1, <1>2, <1>3, <1>4, <1>5, <1>6

LEMMA LifecycleEnters ==
    ASSUME LifecycleInv, Lifecycle!EnterPipeline
    PROVE  LifecycleInv'
<1>1. /\ stack = <<>> /\ events = <<"Starting">> /\ run.command \in Commands
      /\ UNCHANGED <<events, losers>> /\ LocksOf(stack, held, losers)
  BY DEF LifecycleInv, Told, Lifecycle!EnterPipeline
<1>2. /\ DOMAIN run' = {"phase", "command", "code"} /\ run'.command = run.command
      /\ run'.phase = "inside"
  BY DEF LifecycleInv, Lifecycle!EnterPipeline
<1>3. /\ stack' \in Seq(Frames) /\ result' \in Outcomes
      /\ LocksOf(stack', held', losers)
  <2>1. CASE result' = Lifecycle!Is("locked") /\ UNCHANGED <<stack, held>>
    BY <1>1, <2>1, OutcomesAre DEF Ends, LifecycleInv
  <2>2. CASE /\ LockKeyOf[run.command] \notin held
             /\ stack' = Append(stack, Lifecycle!Begun(run.command))
             /\ held' = held \cup ({LockKeyOf[run.command]} \ {""})
             /\ result' = Lifecycle!Nothing
    <3>1. result' \in Outcomes
      BY <2>2, OutcomesAre DEF Ends, Lifecycle!Nothing
    <3>2. stack \in Seq(Frames)
      BY DEF LifecycleInv
    <3> QED
      BY <1>1, <2>2, <3>1, <3>2, BeginsWithLock
  <2> QED
    BY <2>1, <2>2 DEF Lifecycle!EnterPipeline, Lifecycle!Enter
<1> QED
  BY <1>1, <1>2, <1>3 DEF LifecycleInv, Told

LEMMA LifecycleGoesOn ==
    ASSUME LifecycleInv
    PROVE  /\ Lifecycle!Before => LifecycleInv'
           /\ Lifecycle!HandleReturns => LifecycleInv'
           /\ Lifecycle!HandleRaises => LifecycleInv'
           /\ Lifecycle!Retry => LifecycleInv'
           /\ Lifecycle!OutcomeHook => LifecycleInv'
           /\ Lifecycle!OnError => LifecycleInv'
<1>1. stack # <<>> => Lifecycle!Top \in Frames
  BY FrontLeaves DEF LifecycleInv, Lifecycle!Top
<1>2. /\ Lifecycle!Is("ok") \in Outcomes /\ Lifecycle!Is("fail") \in Outcomes
      /\ Lifecycle!Is("error") \in Outcomes /\ Lifecycle!Is("interrupt") \in Outcomes
  BY OutcomesAre DEF Ends
<1>3. stack # <<>> => Lifecycle!Top.exit \in Outcomes
  BY <1>1 DEF Frames
<1>4. result \in Outcomes
  BY DEF LifecycleInv
<1>5. ASSUME stack # <<>>, NEW p \in Phases, NEW r \in Outcomes, NEW g,
             \/ g = [Lifecycle!Top EXCEPT !.phase = p]
             \/ g = Leaving(Lifecycle!Top, p, r)
             \/ g = [Lifecycle!Top EXCEPT !.phase = p, !.attempt = @ + 1],
             Lifecycle!SetTop(g), UNCHANGED <<run, events, result, held, losers>>
      PROVE  LifecycleInv'
  <2>1. g \in Frames /\ SameLock(g, Lifecycle!Top)
    BY <1>1, <1>5, FramesOf
  <2> QED
    BY <1>4, <1>5, <2>1, TopChanges
<1>6. {"handle", "success", "failure"} \subseteq Phases
  BY DEF Phases
<1>7. ASSUME stack # <<>>, NEW r \in Outcomes,
             \/ Lifecycle!LeavesWith(r)
             \/ Lifecycle!Fails(r)
             \/ Lifecycle!HandlerFails(r),
             UNCHANGED <<run, events, result, held, losers>>
      PROVE  LifecycleInv'
  BY <1>4, <1>7, TopLeaves
<1>8. ASSUME Lifecycle!Before PROVE LifecycleInv'
  <2>1. /\ stack # <<>> /\ UNCHANGED <<run, events, result, held, losers>>
        /\ \/ Lifecycle!SetTop([Lifecycle!Top EXCEPT !.phase = "handle"])
           \/ Lifecycle!LeavesWith(Lifecycle!Is("fail"))
           \/ Lifecycle!Fails(Lifecycle!Is("error"))
           \/ Lifecycle!LeavesWith(Lifecycle!Is("interrupt"))
    BY <1>8 DEF Lifecycle!Before, Lifecycle!Within, Lifecycle!OnlyStack
  <2> QED
    BY <1>2, <1>5, <1>6, <1>7, <2>1
<1>9. ASSUME Lifecycle!HandleReturns PROVE LifecycleInv'
  <2>1. /\ stack # <<>> /\ UNCHANGED <<run, events, result, held, losers>>
        /\ \/ Lifecycle!SetTop([Lifecycle!Top EXCEPT !.phase = "success", !.exit = Lifecycle!Is("ok")])
           \/ Lifecycle!SetTop([Lifecycle!Top EXCEPT !.phase = "failure",
                                                     !.exit = Lifecycle!Is("fail")])
    BY <1>9 DEF Lifecycle!HandleReturns, Lifecycle!Within, Lifecycle!OnlyStack
  <2> QED
    BY <1>2, <1>5, <1>6, <2>1 DEF Leaving
<1>10. ASSUME Lifecycle!HandleRaises PROVE LifecycleInv'
  <2>1. /\ stack # <<>> /\ UNCHANGED <<run, events, result, held, losers>>
        /\ \/ Lifecycle!HandlerFails(Lifecycle!Is("error"))
           \/ Lifecycle!LeavesWith(Lifecycle!Is("interrupt"))
    BY <1>10 DEF Lifecycle!HandleRaises, Lifecycle!Within, Lifecycle!OnlyStack
  <2> QED
    BY <1>2, <1>7, <2>1
<1>11. ASSUME Lifecycle!Retry PROVE LifecycleInv'
  <2>1. /\ stack # <<>> /\ UNCHANGED <<run, events, result, held, losers>>
        /\ Lifecycle!SetTop([Lifecycle!Top EXCEPT !.phase = "handle", !.attempt = @ + 1])
    BY <1>11 DEF Lifecycle!Retry, Lifecycle!Within, Lifecycle!OnlyStack
  <2> QED
    BY <1>2, <1>5, <1>6, <2>1 DEF Leaving
<1>12. ASSUME Lifecycle!OutcomeHook PROVE LifecycleInv'
  <2>1. /\ stack # <<>> /\ UNCHANGED <<run, events, result, held, losers>>
        /\ \/ Lifecycle!LeavesWith(Lifecycle!Top.exit)
           \/ Lifecycle!Fails(Lifecycle!Is("error"))
           \/ Lifecycle!LeavesWith(Lifecycle!Is("interrupt"))
    BY <1>12 DEF Lifecycle!OutcomeHook, Lifecycle!Within, Lifecycle!OnlyStack
  <2> QED
    BY <1>2, <1>3, <1>7, <2>1
<1>13. ASSUME Lifecycle!OnError PROVE LifecycleInv'
  <2>1. stack # <<>> /\ UNCHANGED <<run, events, result, held, losers>>
    BY <1>13 DEF Lifecycle!OnError, Lifecycle!Within, Lifecycle!OnlyStack
  <2>2. \E r \in {Lifecycle!Top.exit, Lifecycle!Is("ok"), Lifecycle!Is("fail"),
                  Lifecycle!Is("error"), Lifecycle!Is("interrupt")} : Lifecycle!LeavesWith(r)
    BY <1>13 DEF Lifecycle!OnError
  <2> QED
    BY <1>2, <1>3, <1>7, <2>1, <2>2
<1> QED
  BY <1>8, <1>9, <1>10, <1>11, <1>12, <1>13

LEMMA LifecycleEnds ==
    ASSUME LifecycleInv, stack # <<>>, stack' = Lifecycle!Front(stack), result' \in Outcomes,
           \/ held' = Lifecycle!Released(Lifecycle!Top) /\ losers' = losers
           \/ held' = held /\ losers' = Lifecycle!Lost(Lifecycle!Top),
           UNCHANGED <<run, events>>
    PROVE  LifecycleInv'
<1>1. stack' \in Seq(Frames)
  BY FrontLeaves DEF LifecycleInv, Lifecycle!Front
<1>2. run.phase = "inside"
  BY DEF LifecycleInv
<1>3. LocksOf(stack', held', losers')
  <2> DEFINE own == {key \in {LockKeyOf[stack[Len(stack)].command]} : stack[Len(stack)].owns}
  <2>1. /\ LocksOf(Lifecycle!Front(stack), held \ own, losers)
        /\ LocksOf(Lifecycle!Front(stack), held, losers \cup own)
    BY EndsWithLock DEF LifecycleInv
  <2>2. Lifecycle!Released(Lifecycle!Top) = held \ own
    BY DEF Lifecycle!Released, Lifecycle!Top
  <2>3. Lifecycle!Lost(Lifecycle!Top) = losers \cup own
    BY DEF Lifecycle!Lost, Lifecycle!Top
  <2> HIDE DEF own
  <2> QED
    BY <2>1, <2>2, <2>3
<1>4. Told'
  BY <1>2 DEF LifecycleInv, Told
<1> QED
  BY <1>1, <1>2, <1>3, <1>4 DEF LifecycleInv

LEMMA LifecycleReturns ==
    ASSUME LifecycleInv
    PROVE  /\ Lifecycle!After => LifecycleInv'
           /\ Lifecycle!AfterInterrupted => LifecycleInv'
           /\ \A i \in 1..Len(stack) : Lifecycle!TimesOut(i) => LifecycleInv'
           /\ Lifecycle!CalleeReturns => LifecycleInv'
<1>1. stack # <<>> => Lifecycle!Top \in Frames
  BY FrontLeaves DEF LifecycleInv, Lifecycle!Top
<1>2. stack # <<>> => Lifecycle!Top.exit \in Outcomes
  BY <1>1 DEF Frames
<1>3. /\ Lifecycle!Is("error") \in Outcomes /\ Lifecycle!Is("interrupt") \in Outcomes
      /\ Lifecycle!Nothing \in Outcomes
  BY OutcomesAre DEF Ends, Lifecycle!Nothing
<1>4. ASSUME Lifecycle!After PROVE LifecycleInv'
  <2>1. /\ stack # <<>> /\ stack' = Lifecycle!Front(stack) /\ result' = Lifecycle!Top.exit
        /\ held' = Lifecycle!Released(Lifecycle!Top) /\ UNCHANGED <<run, events, losers>>
    BY <1>4 DEF Lifecycle!After, Lifecycle!Within
  <2> QED
    BY <1>2, <2>1, LifecycleEnds
<1>5. ASSUME Lifecycle!AfterInterrupted PROVE LifecycleInv'
  <2>1. /\ stack # <<>> /\ stack' = Lifecycle!Front(stack) /\ result' = Lifecycle!Is("interrupt")
        /\ losers' = Lifecycle!Lost(Lifecycle!Top) /\ UNCHANGED <<run, events, held>>
    BY <1>5 DEF Lifecycle!AfterInterrupted, Lifecycle!Within
  <2> QED
    BY <1>3, <2>1, LifecycleEnds
<1>6. ASSUME NEW i \in 1..Len(stack), Lifecycle!TimesOut(i) PROVE LifecycleInv'
  <2> DEFINE cancel == [is |-> "cancel", target |-> i]
  <2>1. stack \in Seq(Frames) /\ stack # <<>> /\ result \in Outcomes
    BY DEF LifecycleInv
  <2>2. cancel \in Outcomes
    <3>1. i \in Nat
      BY <2>1
    <3> QED
      BY <3>1 DEF Outcomes
  <2> HIDE DEF cancel
  <2>3. /\ \/ Lifecycle!HandlerFails(Lifecycle!Is("error")) /\ UNCHANGED <<result, losers>>
           \/ Lifecycle!LeavesWith(cancel) /\ UNCHANGED <<result, losers>>
           \/ /\ stack' = Lifecycle!Front(stack) /\ result' = cancel
              /\ losers' = Lifecycle!Lost(Lifecycle!Top)
        /\ UNCHANGED <<run, events, held>>
    BY <1>6 DEF Lifecycle!TimesOut, cancel
  <2>4. CASE Lifecycle!HandlerFails(Lifecycle!Is("error")) /\ UNCHANGED <<result, losers>>
    BY <1>3, <2>1, <2>3, <2>4, TopLeaves
  <2>5. CASE Lifecycle!LeavesWith(cancel) /\ UNCHANGED <<result, losers>>
    BY <2>1, <2>2, <2>3, <2>5, TopLeaves
  <2>6. CASE /\ stack' = Lifecycle!Front(stack) /\ result' = cancel
             /\ losers' = Lifecycle!Lost(Lifecycle!Top)
    BY <2>1, <2>2, <2>3, <2>6, LifecycleEnds
  <2> QED
    BY <2>3, <2>4, <2>5, <2>6
<1>7. ASSUME Lifecycle!CalleeReturns PROVE LifecycleInv'
  <2>1. /\ stack # <<>> /\ result' \in Outcomes /\ UNCHANGED <<run, events, held, losers>>
        /\ result \in Outcomes
    BY <1>3, <1>7 DEF Lifecycle!CalleeReturns, LifecycleInv
  <2>2. \/ UNCHANGED stack
        \/ Lifecycle!HandlerFails(result)
        \/ Lifecycle!LeavesWith(result)
        \/ Lifecycle!HandlerFails(Lifecycle!Is("error"))
    BY <1>7 DEF Lifecycle!CalleeReturns
  <2>3. CASE UNCHANGED stack
    <3>1. run.phase = "inside"
      BY <2>1 DEF LifecycleInv
    <3>2. Told'
      BY <2>1, <3>1 DEF LifecycleInv, Told
    <3> QED
      BY <2>1, <2>3, <3>1, <3>2 DEF LifecycleInv
  <2>4. CASE Lifecycle!HandlerFails(result)
    BY <2>1, <2>4, TopLeaves
  <2>5. CASE Lifecycle!LeavesWith(result)
    BY <2>1, <2>5, TopLeaves
  <2>6. CASE Lifecycle!HandlerFails(Lifecycle!Is("error"))
    BY <1>3, <2>1, <2>6, TopLeaves
  <2> QED
    BY <2>2, <2>3, <2>4, <2>5, <2>6
<1> QED
  BY <1>4, <1>5, <1>6, <1>7

LEMMA LifecycleCalls ==
    ASSUME LifecycleInv, Lifecycle!HandleCalls
    PROVE  LifecycleInv'
<1> DEFINE counted == [Lifecycle!Top EXCEPT !.calls = @ + 1]
           calling == [stack EXCEPT ![Len(stack)] = counted]
<1>1. stack \in Seq(Frames) /\ stack # <<>> /\ result \in Outcomes
  BY DEF LifecycleInv, Lifecycle!HandleCalls, Lifecycle!Within
<1>2. Lifecycle!Top \in Frames /\ Len(stack) \in DOMAIN stack
  BY <1>1, FrontLeaves DEF Lifecycle!Top
<1>3. counted \in Frames /\ SameLock(counted, Lifecycle!Top)
  <2>1. "handle" \in Phases
    BY DEF Phases
  <2> QED
    BY <1>1, <1>2, <2>1, FramesOf
<1>4. UNCHANGED <<run, events, losers>>
  BY DEF Lifecycle!HandleCalls
<1>5. PICK c \in Commands :
        \/ /\ result' \in {Lifecycle!Is("error"), Lifecycle!Is("invalid"), Lifecycle!Is("locked")}
           /\ stack' = calling /\ UNCHANGED held
        \/ /\ LockKeyOf[c] \notin held
           /\ stack' = Append(calling, Lifecycle!Begun(c))
           /\ held' = held \cup ({LockKeyOf[c]} \ {""})
           /\ UNCHANGED result
  <2>1. Lifecycle!Top.command \in Commands
    BY <1>2 DEF Frames
  <2>2. CallsOf[Lifecycle!Top.command] \subseteq Commands
    BY <2>1, CommandsAssumption DEF Lifecycle!CommandsAssumption
  <2> QED
    BY <2>2 DEF Lifecycle!HandleCalls
<1> HIDE DEF counted
<1>6. calling \in Seq(Frames) /\ DOMAIN calling = DOMAIN stack
      /\ \A i \in DOMAIN stack : calling[i] = IF i = Len(stack) THEN counted ELSE stack[i]
  BY <1>1, <1>2, <1>3
<1> HIDE DEF calling
<1>7. \A i \in DOMAIN stack :
        calling[i].owns = stack[i].owns /\ calling[i].command = stack[i].command
  BY <1>3, <1>6 DEF Lifecycle!Top, SameLock
<1>8. LocksOf(calling, held, losers)
  BY <1>6, <1>7, SameLocks DEF LifecycleInv
<1>9. stack' \in Seq(Frames) /\ LocksOf(stack', held', losers) /\ result' \in Outcomes
  <2>1. CASE /\ result' \in {Lifecycle!Is("error"), Lifecycle!Is("invalid"),
                             Lifecycle!Is("locked")}
             /\ stack' = calling /\ UNCHANGED held
    BY <1>6, <1>8, <2>1, OutcomesAre DEF Ends
  <2>2. CASE /\ LockKeyOf[c] \notin held
             /\ stack' = Append(calling, Lifecycle!Begun(c))
             /\ held' = held \cup ({LockKeyOf[c]} \ {""})
             /\ UNCHANGED result
    BY <1>1, <1>6, <1>8, <2>2, BeginsWithLock
  <2> QED
    BY <1>5, <2>1, <2>2
<1>10. run.phase = "inside" /\ Told'
  BY <1>1, <1>4 DEF LifecycleInv, Told
<1> QED
  BY <1>4, <1>9, <1>10 DEF LifecycleInv

LEMMA LifecycleBegin == Lifecycle!Init => LifecycleInv
<1> SUFFICES ASSUME Lifecycle!Init PROVE LifecycleInv
  OBVIOUS
<1>1. stack = <<>> /\ held = {} /\ losers = {} /\ events = <<>> /\ result = Lifecycle!Nothing
  BY DEF Lifecycle!Init
<1>2. run.phase = "idle" /\ DOMAIN run = {"phase", "command", "code"}
  BY DEF Lifecycle!Init
<1>3. LocksOf(stack, held, losers)
  BY <1>1 DEF LocksOf, Owner
<1>4. stack \in Seq(Frames) /\ result \in Outcomes
  BY <1>1, OutcomesAre DEF Ends, Lifecycle!Nothing
<1> QED
  BY <1>1, <1>2, <1>3, <1>4 DEF LifecycleInv, Told

LEMMA LifecycleStep == LifecycleInv /\ [Lifecycle!Next]_commandVars => LifecycleInv'
<1> SUFFICES ASSUME LifecycleInv, [Lifecycle!Next]_commandVars PROVE LifecycleInv'
  OBVIOUS
<1>1. CASE UNCHANGED commandVars
  BY <1>1 DEF commandVars, LifecycleInv, Told, Ended
<1>2. CASE Lifecycle!Next
  BY <1>2, LifecycleBegins, LifecycleEnters, LifecycleGoesOn, LifecycleReturns, LifecycleCalls
  DEF Lifecycle!Next
<1> QED
  BY <1>1, <1>2

\* A key is held by the lifecycle under way that took it, or by nobody any more.
LEMMA LocksFollow == LifecycleInv => Lifecycle!LocksAreOfLifecycles
<1> SUFFICES ASSUME LifecycleInv PROVE Lifecycle!LocksAreOfLifecycles
  OBVIOUS
<1>1. stack \in Seq(Frames) /\ DOMAIN stack = 1..Len(stack) /\ LocksOf(stack, held, losers)
  BY DEF LifecycleInv
<1> DEFINE owners == {j \in 1..Len(stack) : stack[j].owns}
           keys == {LockKeyOf[f.command] : f \in {stack[i] : i \in owners}}
<1>2. \A key : key \in keys <=> \E i : Owner(stack, i, key)
  BY <1>1 DEF Owner
<1>3. held = keys \cup losers
  <2> HIDE DEF keys
  <2> QED
    BY <1>1, <1>2 DEF LocksOf
<1>4. \A i, j \in 1..Len(stack) :
        stack[i].owns /\ stack[j].owns /\ LockKeyOf[stack[i].command] = LockKeyOf[stack[j].command]
            => i = j
  <2> SUFFICES ASSUME NEW i \in 1..Len(stack), NEW j \in 1..Len(stack),
                      stack[i].owns, stack[j].owns,
                      LockKeyOf[stack[i].command] = LockKeyOf[stack[j].command]
               PROVE  i = j
    OBVIOUS
  <2>1. Owner(stack, i, LockKeyOf[stack[i].command]) /\ Owner(stack, j, LockKeyOf[stack[i].command])
    BY <1>1 DEF Owner
  <2>2. \A k, l, key : Owner(stack, k, key) /\ Owner(stack, l, key) => k = l
    BY <1>1 DEF LocksOf
  <2> HIDE DEF owners, keys
  <2> QED
    BY <2>1, <2>2
<1> QED
  BY <1>3, <1>4 DEF Lifecycle!LocksAreOfLifecycles

LEMMA EndsAreTold == LifecycleInv => Lifecycle!EndIsReported
<1> SUFFICES ASSUME Told, run.phase = "over" PROVE Lifecycle!EndIsReported
  BY DEF LifecycleInv, Lifecycle!EndIsReported
<1>1. Ended
  BY DEF Told
<1> QED
  BY <1>1 DEF Ended, Lifecycle!EndIsReported, Lifecycle!Contains, Lifecycle!Last, Lifecycle!Codes

-----------------------------------------------------------------------------

(* The scope of a request, for any tasks and services. *)

Making(t, key, object) == doing[t] = [op |-> "make", key |-> key, object |-> object]
Closing(t, n, size, object) ==
    doing[t] = [op |-> "close", next |-> n, size |-> size, object |-> object]

Place(t) ==
    \/ doing[t] = Scope!Idle
    \/ \E key \in Services, object \in 1..made : Making(t, key, object)
    \/ \E size \in Nat : \E n \in 1..size, object \in 1..made : Closing(t, n, size, object)

ScopeShape ==
    /\ made \in Nat /\ closed \in Seq(1..made) /\ instances \in Seq(Services \X (1..made))
    /\ raced \in BOOLEAN /\ DOMAIN doing = Callers
    /\ \A t \in Callers : Place(t)

\* The services of the scope are one per key, each an object of its own.
OnePerKey ==
    \A i, j \in DOMAIN instances : i # j =>
        instances[i][1] # instances[j][1] /\ instances[i][2] # instances[j][2]

\* What a task makes is nowhere else yet.
IsNew(key, object) ==
    /\ object \notin Scope!Range(closed)
    /\ \A i \in DOMAIN instances : instances[i][1] # key /\ instances[i][2] # object

MakesNew ==
    /\ \A t \in Callers, key \in Services, object \in 1..made :
        Making(t, key, object) => IsNew(key, object)
    /\ \A t, u \in Callers, key, other \in Services, object, o \in 1..made :
        t # u /\ Making(t, key, object) /\ Making(u, other, o) => key # other /\ object # o

\* A task that closes is alone, and has closed the services up to its place.
ClosesInOrder ==
    \A t \in Callers, size \in Nat : \A n \in 1..size, object \in 1..made : Closing(t, n, size, object) =>
        /\ \A u \in Callers \ {t} : doing[u] = Scope!Idle
        /\ size = Len(instances) /\ object = instances[n][2]
        /\ \A i \in DOMAIN instances : instances[i][2] \in Scope!Range(closed) <=> i < n

\* Nobody closes: what the scope has is open.
OpenElse ==
    (\A t \in Callers : doing[t].op # "close") =>
        \A i \in DOMAIN instances : instances[i][2] \notin Scope!Range(closed)

ScopeInv ==
    /\ ScopeShape
    /\ ~ raced =>
        OnePerKey /\ MakesNew /\ ClosesInOrder /\ OpenElse /\ Scope!ResolvedIsClosed

USE DEF Making, Closing, Scope!Idle

\* A service being made is in the scope only when it is resolved.
LEMMA StartMakeKeeps ==
    ASSUME ScopeInv, NEW t \in Callers, NEW key \in Services, Scope!StartMake(t, key)
    PROVE  ScopeInv'
<1>1. /\ made' = made + 1 /\ UNCHANGED <<instances, closed>>
      /\ doing[t] = Scope!Idle /\ ~ Scope!Has(key) /\ DOMAIN doing' = Callers
      /\ doing'[t] = [op |-> "make", key |-> key, object |-> made + 1]
      /\ \A u \in Callers \ {t} : doing'[u] = doing[u]
  BY DEF Scope!StartMake, Scope!Goes, ScopeInv, ScopeShape
<1>2. made \in Nat /\ 1..made \subseteq 1..made' /\ made + 1 \in 1..made' /\ made + 1 \notin 1..made
  BY <1>1 DEF ScopeInv, ScopeShape
<1>3. /\ closed \in Seq(1..made) /\ instances \in Seq(Services \X (1..made))
      /\ \A o \in Scope!Range(closed) : o \in 1..made
      /\ \A i \in DOMAIN instances : instances[i][2] \in 1..made
  BY DEF ScopeInv, ScopeShape, Scope!Range
<1>4. ScopeShape'
  <2>1. closed' \in Seq(1..made') /\ instances' \in Seq(Services \X (1..made')) /\ made' \in Nat
    BY <1>1, <1>2, <1>3
  <2>2. ASSUME NEW u \in Callers PROVE Place(u)'
    <3>1. CASE u = t
      BY <1>1, <1>2, <3>1 DEF Place
    <3>2. CASE u # t
      BY <1>1, <1>2, <3>2 DEF Place, ScopeInv, ScopeShape
    <3> QED
      BY <3>1, <3>2
  <2>3. raced' \in BOOLEAN
    BY DEF Scope!StartMake
  <2> QED
    BY <1>1, <2>1, <2>2, <2>3 DEF ScopeShape
<1>5. ASSUME ~ raced' PROVE (OnePerKey /\ MakesNew /\ ClosesInOrder /\ OpenElse /\ Scope!ResolvedIsClosed)'
  <2>1. /\ ~ raced /\ OnePerKey /\ MakesNew /\ OpenElse /\ Scope!ResolvedIsClosed
        /\ \A u \in Callers : doing[u].op # "close" /\ ~ (doing[u].op = "make" /\ doing[u].key = key)
    BY <1>5 DEF Scope!StartMake, ScopeInv, ScopeShape
  <2>2. OnePerKey'
    BY <1>1, <2>1 DEF OnePerKey
  <2>3. \A u \in Callers, other \in Services, o \in 1..made' :
            Making(u, other, o)' => \/ u = t /\ other = key /\ o = made + 1
                                    \/ u # t /\ Making(u, other, o) /\ o \in 1..made /\ other # key
    BY <1>1, <1>2, <2>1 DEF ScopeInv, ScopeShape, Place
  <2>4. MakesNew'
    <3>0. PICK new \in 1..made' : new = made + 1
      BY <1>2
    <3>1. IsNew(key, new)'
      BY <1>1, <1>2, <1>3, <3>0 DEF IsNew, Scope!Has
    <3>2. ASSUME NEW u \in Callers, NEW other \in Services, NEW o \in 1..made', Making(u, other, o)'
          PROVE  IsNew(other, o)'
      <4>1. CASE u = t
        BY <2>3, <3>0, <3>1, <3>2, <4>1
      <4>2. CASE u # t
        <5>1. IsNew(other, o)
          BY <2>1, <2>3, <3>2, <4>2 DEF MakesNew
        <5> QED
          BY <1>1, <5>1 DEF IsNew
      <4> QED
        BY <4>1, <4>2
    <3>3. ASSUME NEW u \in Callers, NEW v \in Callers, NEW k \in Services, NEW l \in Services,
                 NEW o \in 1..made', NEW q \in 1..made', u # v, Making(u, k, o)', Making(v, l, q)'
          PROVE  k # l /\ o # q
      BY <1>2, <2>1, <2>3, <3>3 DEF MakesNew
    <3> QED
      BY <3>2, <3>3 DEF MakesNew
  <2>5. \A u \in Callers : doing'[u].op # "close"
    BY <1>1, <2>1
  <2>6. ClosesInOrder' /\ OpenElse'
    BY <1>1, <2>1, <2>5 DEF ClosesInOrder, OpenElse
  <2>7. Scope!ResolvedIsClosed'
    BY <1>1, <1>2, <2>1 DEF Scope!ResolvedIsClosed
  <2> QED
    BY <2>2, <2>4, <2>6, <2>7
<1> QED
  BY <1>4, <1>5 DEF ScopeInv

\* A service that is resolved comes under a key that nothing else has.
LEMMA ResolvedKeeps ==
    ASSUME ScopeInv, NEW t \in Callers, Scope!Resolved(t)
    PROVE  ScopeInv'
<1>1. PICK key \in Services, object \in 1..made : Making(t, key, object)
  BY DEF ScopeInv, ScopeShape, Place, Scope!Resolved
<1>2. /\ instances' = Scope!Stored(key, object) /\ UNCHANGED <<made, closed, raced>>
      /\ DOMAIN doing' = Callers /\ doing'[t] = Scope!Idle
      /\ \A u \in Callers \ {t} : doing'[u] = doing[u]
  BY <1>1 DEF Scope!Resolved, Scope!Goes, ScopeInv, ScopeShape
<1>3. Scope!Stored(key, object) \in Seq(Services \X (1..made))
  <2>1. instances \in Seq(Services \X (1..made)) /\ <<key, object>> \in Services \X (1..made)
    BY DEF ScopeInv, ScopeShape
  <2>2. CASE Scope!Has(key)
    <3>1. instances \in [1..Len(instances) -> Services \X (1..made)] /\ Len(instances) \in Nat
          /\ DOMAIN instances = 1..Len(instances)
      BY <2>1
    <3>2. Scope!Stored(key, object) \in [1..Len(instances) -> Services \X (1..made)]
      BY <2>1, <2>2, <3>1 DEF Scope!Stored
    <3> QED
      BY <3>1, <3>2
  <2>3. CASE ~ Scope!Has(key)
    BY <2>1, <2>3 DEF Scope!Stored
  <2> QED
    BY <2>2, <2>3
<1>4. ScopeShape'
  BY <1>2, <1>3 DEF ScopeInv, ScopeShape, Place
<1>5. ASSUME ~ raced' PROVE (OnePerKey /\ MakesNew /\ ClosesInOrder /\ OpenElse /\ Scope!ResolvedIsClosed)'
  <2>1. ~ raced /\ OnePerKey /\ MakesNew /\ ClosesInOrder /\ OpenElse /\ Scope!ResolvedIsClosed
    BY <1>2, <1>5 DEF ScopeInv
  <2>2. instances' = Append(instances, <<key, object>>)
    <3>1. IsNew(key, object)
      BY <1>1, <2>1 DEF MakesNew
    <3>2. ~ Scope!Has(key)
      BY <3>1 DEF IsNew, Scope!Has
    <3> QED
      BY <1>2, <3>2 DEF Scope!Stored
  <2>3. /\ DOMAIN instances' = DOMAIN instances \cup {Len(instances) + 1}
        /\ Len(instances) + 1 \notin DOMAIN instances
        /\ \A i \in DOMAIN instances : instances'[i] = instances[i]
        /\ instances'[Len(instances) + 1] = <<key, object>>
    BY <2>2 DEF ScopeInv, ScopeShape
  <2>a. IsNew(key, object)
    BY <1>1, <2>1 DEF MakesNew
  <2>4. OnePerKey'
    <3> SUFFICES ASSUME NEW i \in DOMAIN instances', NEW j \in DOMAIN instances', i # j
                 PROVE  instances'[i][1] # instances'[j][1] /\ instances'[i][2] # instances'[j][2]
      BY DEF OnePerKey
    <3>1. CASE i \in DOMAIN instances /\ j \in DOMAIN instances
      BY <2>1, <2>3, <3>1 DEF OnePerKey
    <3>2. CASE i \in DOMAIN instances /\ j = Len(instances) + 1
      BY <2>3, <2>a, <3>2 DEF IsNew
    <3>3. CASE i = Len(instances) + 1 /\ j \in DOMAIN instances
      BY <2>3, <2>a, <3>3 DEF IsNew
    <3> QED
      BY <2>3, <3>1, <3>2, <3>3
  <2>5. MakesNew'
    <3>1. ASSUME NEW u \in Callers, NEW other \in Services, NEW o \in 1..made, Making(u, other, o)'
          PROVE  Making(u, other, o) /\ other # key /\ o # object /\ IsNew(other, o)
      BY <1>1, <1>2, <2>1, <3>1 DEF MakesNew
    <3>2. ASSUME NEW u \in Callers, NEW other \in Services, NEW o \in 1..made, Making(u, other, o)'
          PROVE  IsNew(other, o)'
      BY <1>2, <2>3, <3>1, <3>2 DEF IsNew
    <3> QED
      BY <1>2, <2>1, <3>1, <3>2 DEF MakesNew
  <2>6. \A u \in Callers : doing[u].op # "close" /\ doing'[u].op # "close"
    <3>1. ASSUME NEW u \in Callers, doing[u].op = "close" PROVE FALSE
      BY <1>1, <2>1, <3>1 DEF ScopeInv, ScopeShape, Place, ClosesInOrder
    <3> QED
      BY <1>2, <3>1
  <2>7. ClosesInOrder'
    BY <2>6 DEF ClosesInOrder
  <2>8. OpenElse'
    BY <1>2, <2>1, <2>3, <2>6, <2>a DEF OpenElse, IsNew
  <2>9. Scope!ResolvedIsClosed'
    BY <1>1, <1>2, <2>1, <2>3 DEF Scope!ResolvedIsClosed
  <2> QED
    BY <2>4, <2>5, <2>7, <2>8, <2>9
<1> QED
  BY <1>4, <1>5 DEF ScopeInv

\* A scope that starts to close, with nobody else at work, has closed nothing.
LEMMA StartCloseKeeps ==
    ASSUME ScopeInv, NEW t \in Callers, Scope!StartClose(t)
    PROVE  ScopeInv'
<1> DEFINE object == instances[1][2]
<1>1. /\ UNCHANGED <<instances, made, closed>> /\ instances # <<>>
      /\ doing[t] = Scope!Idle /\ DOMAIN doing' = Callers
      /\ doing'[t] = [op |-> "close", next |-> 1, size |-> Len(instances), object |-> object]
      /\ \A u \in Callers \ {t} : doing'[u] = doing[u]
  BY DEF Scope!StartClose, Scope!Goes, Scope!AwaitsClose, ScopeInv, ScopeShape
<1>2. Len(instances) \in Nat /\ 1 \in 1..Len(instances) /\ object \in 1..made
      /\ DOMAIN instances = 1..Len(instances)
  BY <1>1 DEF ScopeInv, ScopeShape
<1> HIDE DEF object
<1>3. ScopeShape'
  <2>1. ASSUME NEW u \in Callers PROVE Place(u)'
    <3>1. CASE u = t
      BY <1>1, <1>2, <3>1 DEF Place
    <3>2. CASE u # t
      BY <1>1, <3>2 DEF Place, ScopeInv, ScopeShape
    <3> QED
      BY <3>1, <3>2
  <2>2. raced' \in BOOLEAN
    BY DEF Scope!StartClose
  <2> QED
    BY <1>1, <2>1, <2>2 DEF ScopeInv, ScopeShape
<1>4. ASSUME ~ raced' PROVE (OnePerKey /\ MakesNew /\ ClosesInOrder /\ OpenElse /\ Scope!ResolvedIsClosed)'
  <2>1. /\ ~ raced /\ OnePerKey /\ OpenElse /\ Scope!ResolvedIsClosed
        /\ \A u \in Callers : doing[u] = Scope!Idle
    BY <1>4 DEF Scope!StartClose, ScopeInv
  <2>2. \A u \in Callers : doing'[u].op # "make" /\ (u # t => doing'[u] = Scope!Idle)
    BY <1>1, <2>1
  <2>3. (OnePerKey /\ MakesNew)'
    BY <1>1, <2>1, <2>2 DEF OnePerKey, MakesNew
  <2>4. \A i \in DOMAIN instances : instances[i][2] \notin Scope!Range(closed) /\ ~ (i < 1)
    BY <1>2, <2>1 DEF OpenElse
  <2>5. ClosesInOrder'
    <3> SUFFICES ASSUME NEW u \in Callers, NEW size \in Nat, NEW n \in 1..size, NEW o \in 1..made',
                        Closing(u, n, size, o)'
                 PROVE  /\ \A v \in Callers \ {u} : doing'[v] = Scope!Idle
                        /\ size = Len(instances') /\ o = instances'[n][2]
                        /\ \A i \in DOMAIN instances' : instances'[i][2] \in Scope!Range(closed') <=> i < n
      BY DEF ClosesInOrder
    <3>1. u = t
      BY <2>2
    <3>2. n = 1 /\ size = Len(instances) /\ o = object
      BY <1>1, <3>1
    <3> QED
      BY <1>1, <2>2, <2>4, <3>1, <3>2 DEF object
  <2>6. OpenElse'
    BY <1>1, <2>1 DEF OpenElse
  <2>7. Scope!ResolvedIsClosed'
    BY <1>1, <2>1 DEF Scope!ResolvedIsClosed
  <2> QED
    BY <2>3, <2>5, <2>6, <2>7
<1> QED
  BY <1>3, <1>4 DEF ScopeInv

\* While a scope closes that nobody adds to, it has closed just the services
\* before its place, and in the end all of them.
LEMMA ClosedKeeps ==
    ASSUME ScopeInv, NEW t \in Callers, Scope!Closed(t)
    PROVE  ScopeInv'
<1>1. PICK size \in Nat : \E n \in 1..size, object \in 1..made : Closing(t, n, size, object)
  BY DEF ScopeInv, ScopeShape, Place, Scope!Closed
<1>2. PICK n \in 1..size, object \in 1..made : Closing(t, n, size, object)
  BY <1>1
<1> DEFINE following == [op |-> "close", next |-> n + 1, size |-> size, object |-> instances[n + 1][2]]
<1>3. /\ closed' = Append(closed, object) /\ UNCHANGED <<made, raced>> /\ DOMAIN doing' = Callers
      /\ \A u \in Callers \ {t} : doing'[u] = doing[u]
      /\ \/ size # Len(instances) /\ doing'[t] = Scope!Idle /\ UNCHANGED instances
         \/ size = Len(instances) /\ n = size /\ doing'[t] = Scope!Idle /\ instances' = <<>>
         \/ size = Len(instances) /\ n # size /\ doing'[t] = following /\ UNCHANGED instances
  BY <1>2 DEF Scope!Closed, Scope!Goes, Scope!AwaitsClose, ScopeInv, ScopeShape
<1>4. /\ instances \in Seq(Services \X (1..made)) /\ Len(instances) \in Nat
      /\ DOMAIN instances = 1..Len(instances)
      /\ \A i \in DOMAIN instances : instances[i][2] \in 1..made
  BY DEF ScopeInv, ScopeShape
<1>5. /\ closed' \in Seq(1..made) /\ DOMAIN closed' = DOMAIN closed \cup {Len(closed) + 1}
      /\ Len(closed) + 1 \notin DOMAIN closed
      /\ closed'[Len(closed) + 1] = object /\ \A i \in DOMAIN closed : closed'[i] = closed[i]
  <2>1. closed \in Seq(1..made) /\ object \in 1..made
    BY DEF ScopeInv, ScopeShape
  <2>2. closed' = Append(closed, object) /\ made' = made
    BY <1>3
  <2> QED
    BY <2>1, <2>2, AppendAdds
<1>6. /\ Scope!Range(closed') = Scope!Range(closed) \cup {object}
      /\ Scope!IsInjective(closed) /\ object \notin Scope!Range(closed) => Scope!IsInjective(closed')
  BY <1>5 DEF Scope!Range, Scope!IsInjective
<1>7. size = Len(instances) /\ n # size => n + 1 \in 1..size /\ instances[n + 1][2] \in 1..made
  <2>1. n # size => n + 1 \in 1..size
    OBVIOUS
  <2> QED
    BY <1>4, <2>1
<1>8. ScopeShape'
  <2>1. ASSUME NEW u \in Callers PROVE Place(u)'
    <3>1. CASE u = t
      BY <1>3, <1>7, <3>1 DEF Place
    <3>2. CASE u # t
      BY <1>3, <3>2 DEF Place, ScopeInv, ScopeShape
    <3> QED
      BY <3>1, <3>2
  <2>2. instances' \in Seq(Services \X (1..made))
    <3>1. <<>> \in Seq(Services \X (1..made))
      OBVIOUS
    <3> QED
      BY <1>3, <1>4, <3>1
  <2> QED
    BY <1>3, <1>5, <2>1, <2>2 DEF ScopeInv, ScopeShape
<1>9. ASSUME ~ raced' PROVE (OnePerKey /\ MakesNew /\ ClosesInOrder /\ OpenElse /\ Scope!ResolvedIsClosed)'
  <2>1. /\ \A u \in Callers \ {t} : doing'[u] = Scope!Idle /\ doing[u] = Scope!Idle
        /\ size = Len(instances) /\ object = instances[n][2]
        /\ \A i \in DOMAIN instances : instances[i][2] \in Scope!Range(closed) <=> i < n
        /\ ~ raced /\ OnePerKey /\ Scope!ResolvedIsClosed
    BY <1>2, <1>3, <1>9 DEF ScopeInv, ClosesInOrder
  <2>a. n \in DOMAIN instances /\ ~ (n < n)
    BY <1>4, <2>1
  <2>2. n \in DOMAIN instances /\ object \notin Scope!Range(closed)
    BY <2>1, <2>a, Zenon
  <2>3. Scope!IsInjective(closed')
    BY <1>6, <2>1, <2>2 DEF Scope!ResolvedIsClosed
  <2>4. \A o \in 1..made : o \in Scope!Range(closed) \/ \E i \in DOMAIN instances : instances[i][2] = o
    BY <1>2, <2>1 DEF Scope!ResolvedIsClosed
  <2>5. \A i \in DOMAIN instances : instances[i][2] \in Scope!Range(closed') <=> i < n + 1
    <3> SUFFICES ASSUME NEW i \in DOMAIN instances
                 PROVE  instances[i][2] \in Scope!Range(closed') <=> i < n + 1
      OBVIOUS
    <3>1. i # n => instances[i][2] # object
      BY <2>1, <2>2 DEF OnePerKey
    <3>2. i < n + 1 <=> i < n \/ i = n
      BY <1>4
    <3> QED
      BY <1>6, <2>1, <3>1, <3>2
  <2>6. CASE n = size
    <3>1. instances' = <<>> /\ \A u \in Callers : doing'[u] = Scope!Idle
      BY <1>3, <2>1, <2>6
    <3>2. \A o \in 1..made : o \in Scope!Range(closed')
      BY <1>4, <1>6, <2>1, <2>4, <2>5, <2>6
    <3>3. \A u \in Callers : doing'[u].op # "close" /\ doing'[u].op # "make"
      BY <3>1
    <3>4. MakesNew' /\ ClosesInOrder'
      BY <3>3 DEF MakesNew, ClosesInOrder
    <3>5. DOMAIN instances' = {}
      BY <3>1
    <3>6. OnePerKey' /\ OpenElse'
      BY <3>5 DEF OnePerKey, OpenElse
    <3> QED
      BY <1>3, <2>3, <3>2, <3>4, <3>6 DEF Scope!ResolvedIsClosed
  <2>7. CASE n # size
    <3>1. UNCHANGED instances /\ doing'[t] = following
      BY <1>3, <2>1, <2>7
    <3>a. \A u \in Callers : doing'[u].op # "make"
      BY <2>1, <3>1
    <3>2. (OnePerKey /\ MakesNew)'
      BY <2>1, <3>1, <3>a DEF OnePerKey, MakesNew
    <3>3. ClosesInOrder'
      BY <1>3, <2>1, <2>5, <3>1 DEF ClosesInOrder
    <3>4. OpenElse'
      BY <3>1 DEF OpenElse
    <3>5. Scope!ResolvedIsClosed'
      BY <1>3, <1>6, <2>3, <2>4, <3>1 DEF Scope!ResolvedIsClosed
    <3> QED
      BY <3>2, <3>3, <3>4, <3>5
  <2> QED
    BY <2>6, <2>7
<1> QED
  BY <1>8, <1>9 DEF ScopeInv

\* So every step keeps the invariant.
LEMMA ScopeStepKeeps ==
    ASSUME ScopeInv, [Scope!Next]_scopeVars
    PROVE  ScopeInv'
<1>1. CASE UNCHANGED scopeVars
  <2>1. ScopeShape' <=> ScopeShape
    BY <1>1 DEF scopeVars, ScopeShape, Place
  <2>2. (OnePerKey /\ OpenElse /\ Scope!ResolvedIsClosed)' <=> OnePerKey /\ OpenElse /\ Scope!ResolvedIsClosed
    BY <1>1 DEF scopeVars, OnePerKey, OpenElse, Scope!ResolvedIsClosed
  <2>3. MakesNew' <=> MakesNew
    BY <1>1 DEF scopeVars, MakesNew, IsNew
  <2>4. ClosesInOrder' <=> ClosesInOrder
    BY <1>1 DEF scopeVars, ClosesInOrder
  <2> QED
    BY <1>1, <2>1, <2>2, <2>3, <2>4 DEF scopeVars, ScopeInv
<1>2. CASE Scope!Next
  BY <1>2, StartMakeKeeps, ResolvedKeeps, StartCloseKeeps, ClosedKeeps DEF Scope!Next
<1> QED
  BY <1>1, <1>2

LEMMA ScopeBegins == Scope!Init => ScopeInv
  <1> SUFFICES ASSUME Scope!Init PROVE ScopeInv
  OBVIOUS
<1>1. DOMAIN instances = {} /\ Scope!Range(closed) = {} /\ Scope!IsInjective(closed)
  BY DEF Scope!Init, Scope!Range, Scope!IsInjective
<1>2. \A t \in Callers : doing[t] = Scope!Idle
  BY DEF Scope!Init
<1>3. ScopeShape
  <2>1. made = 0 /\ closed \in Seq(1..made) /\ instances \in Seq(Services \X (1..made))
    BY DEF Scope!Init
  <2>2. raced \in BOOLEAN /\ DOMAIN doing = Callers
    BY DEF Scope!Init
  <2> QED
    BY <1>2, <2>1, <2>2 DEF ScopeShape, Place
<1>4. OnePerKey /\ OpenElse
  BY <1>1 DEF OnePerKey, OpenElse
<1>5. MakesNew /\ ClosesInOrder
  BY <1>2 DEF MakesNew, ClosesInOrder
<1>6. Scope!ResolvedIsClosed
  BY <1>1 DEF Scope!Init, Scope!ResolvedIsClosed
<1> QED
  BY <1>3, <1>4, <1>5, <1>6 DEF ScopeInv

-----------------------------------------------------------------------------

(* The providers of an application.  Tasks lengthen the list that boot()   *)
(* walks over: what it has gone over stays gone over.                      *)

\* The i-th call in flight of task t is the frame g.
Holding(calls, t, i, g) == t \in BootTasks /\ i \in DOMAIN calls[t] /\ calls[t][i] = g

IsLoop(g) == g.op \in {"registerAll", "bootAll"}

BootShape ==
    /\ providers \in Seq(Providers) /\ providers # <<>>
    /\ deferred \in [ProvidedKeys -> Deferred \cup {NoProvider}]
    /\ booted \in BOOLEAN /\ frames \in [BootTasks -> Seq(Boot!Frame)]
    /\ boots \in Nat /\ bootCount \in [Providers -> Nat]

AllRegistered == \A j \in DOMAIN providers : providers[j] \in registered

LoopIsRight(g) ==
    /\ g.at \in DOMAIN providers /\ boots > 0
    /\ g.op = "registerAll" => \A j \in DOMAIN providers : j < g.at => providers[j] \in registered
    /\ g.op = "bootAll" => /\ AllRegistered
                           /\ \A j \in DOMAIN providers : j <= g.at => bootCount[providers[j]] > 0

LazyIsRight(g) ==
    /\ g.of \in Providers
    /\ g.op = "lazyBoot" => AllRegistered /\ g.of \in registered /\ bootCount[g.of] > 0

FramesAreRight ==
    \A t, i, g : Holding(frames, t, i, g) =>
        IF IsLoop(g) THEN ~ booted /\ LoopIsRight(g) ELSE LazyIsRight(g)

OneLoop ==
    \A t, u, i, j, g, h :
        Holding(frames, t, i, g) /\ Holding(frames, u, j, h) /\ IsLoop(g) /\ IsLoop(h)
            => t = u /\ i = j

BootedIsRight ==
    booted => /\ AllRegistered /\ boots > 0
              /\ \A j \in DOMAIN providers : bootCount[providers[j]] > 0

OrderInv == BootShape /\ FramesAreRight /\ OneLoop /\ BootedIsRight

\* What calls in flight become when the innermost one goes on, calls or ends.
LEMMA TopHolds ==
    ASSUME BootShape, NEW t \in BootTasks, frames[t] # <<>>
    PROVE  Holding(frames, t, Len(frames[t]), Boot!Top(t)) /\ Boot!Top(t) \in Boot!Frame
<1>1. frames[t] \in Seq(Boot!Frame)
  BY DEF BootShape
<1> QED
  BY <1>1, FrontLeaves DEF Holding, Boot!Top, Boot!Last

LEMMA HoldingIsOne ==
    \A calls, t, i, g, h : Holding(calls, t, i, g) /\ Holding(calls, t, i, h) => g = h
BY DEF Holding

LEMMA FrameBecomes ==
    ASSUME BootShape, NEW t \in BootTasks, frames[t] # <<>>, NEW frame \in Boot!Frame,
           Boot!Becomes(t, frame)
    PROVE  /\ frames' \in [BootTasks -> Seq(Boot!Frame)]
           /\ \A u, i, g : Holding(frames', u, i, g)
                <=> IF u = t /\ i = Len(frames[t]) THEN g = frame ELSE Holding(frames, u, i, g)
<1> DEFINE n == Len(frames[t])
           front == Boot!Front(frames[t])
<1>1. frames[t] \in Seq(Boot!Frame) /\ DOMAIN frames = BootTasks
  BY DEF BootShape
<1>2. /\ n \in DOMAIN frames[t] /\ front \in Seq(Boot!Frame) /\ Len(front) = n - 1
      /\ DOMAIN front = DOMAIN frames[t] \ {n} /\ \A i \in DOMAIN front : front[i] = frames[t][i]
      /\ Len(front) + 1 = n
  BY <1>1, FrontLeaves DEF Boot!Front
<1>3. frames' = [frames EXCEPT ![t] = Append(front, frame)]
  BY DEF Boot!Becomes
<1> HIDE DEF front
<1>4. /\ Append(front, frame) \in Seq(Boot!Frame) /\ DOMAIN Append(front, frame) = DOMAIN frames[t]
      /\ \A i \in DOMAIN frames[t] :
            Append(front, frame)[i] = IF i = n THEN frame ELSE frames[t][i]
  BY <1>2, AppendAdds
<1> DEFINE list == Append(front, frame)
<1> HIDE DEF list
<1>5. /\ DOMAIN frames' = BootTasks /\ frames'[t] = list
      /\ \A u \in BootTasks \ {t} : frames'[u] = frames[u]
  BY <1>1, <1>3 DEF list
<1>6. frames' \in [BootTasks -> Seq(Boot!Frame)]
  BY <1>3, <1>4 DEF BootShape
<1>7. \A u, i, g : Holding(frames', u, i, g)
                <=> IF u = t /\ i = n THEN g = frame ELSE Holding(frames, u, i, g)
  BY <1>2, <1>4, <1>5 DEF Holding, list
<1> QED
  BY <1>6, <1>7

LEMMA FramePushed ==
    ASSUME BootShape, NEW t \in BootTasks, NEW frame \in Boot!Frame, Boot!Pushes(t, frame)
    PROVE  /\ frames' \in [BootTasks -> Seq(Boot!Frame)]
           /\ \A u, i, g : Holding(frames', u, i, g)
                <=> IF u = t /\ i = Len(frames[t]) + 1 THEN g = frame ELSE Holding(frames, u, i, g)
           /\ \A g : ~ Holding(frames, t, Len(frames[t]) + 1, g)
<1> DEFINE n == Len(frames[t]) + 1
           list == Append(frames[t], frame)
<1>1. frames[t] \in Seq(Boot!Frame) /\ DOMAIN frames = BootTasks
  BY DEF BootShape
<1>2. /\ list \in Seq(Boot!Frame) /\ n \notin DOMAIN frames[t]
      /\ DOMAIN list = DOMAIN frames[t] \cup {n} /\ list[n] = frame
      /\ \A i \in DOMAIN frames[t] : list[i] = frames[t][i]
  BY <1>1, AppendAdds
<1>3. frames' = [frames EXCEPT ![t] = list]
  BY DEF Boot!Pushes
<1> HIDE DEF list
<1>4. /\ DOMAIN frames' = BootTasks /\ frames'[t] = list
      /\ \A u \in BootTasks \ {t} : frames'[u] = frames[u]
  BY <1>1, <1>3
<1>5. frames' \in [BootTasks -> Seq(Boot!Frame)]
  BY <1>2, <1>3 DEF BootShape
<1> QED
  BY <1>2, <1>4, <1>5 DEF Holding

LEMMA FramePopped ==
    ASSUME BootShape, NEW t \in BootTasks, frames[t] # <<>>, Boot!Pops(t)
    PROVE  /\ frames' \in [BootTasks -> Seq(Boot!Frame)]
           /\ \A u, i, g : Holding(frames', u, i, g)
                <=> Holding(frames, u, i, g) /\ ~ (u = t /\ i = Len(frames[t]))
<1> DEFINE n == Len(frames[t])
           list == Boot!Front(frames[t])
<1>1. frames[t] \in Seq(Boot!Frame) /\ DOMAIN frames = BootTasks
  BY DEF BootShape
<1>2. /\ n \in DOMAIN frames[t] /\ list \in Seq(Boot!Frame)
      /\ DOMAIN list = DOMAIN frames[t] \ {n} /\ \A i \in DOMAIN list : list[i] = frames[t][i]
  BY <1>1, FrontLeaves DEF Boot!Front
<1>3. frames' = [frames EXCEPT ![t] = list]
  BY DEF Boot!Pops
<1> HIDE DEF list
<1>4. /\ DOMAIN frames' = BootTasks /\ frames'[t] = list
      /\ \A u \in BootTasks \ {t} : frames'[u] = frames[u]
  BY <1>1, <1>3
<1>5. frames' \in [BootTasks -> Seq(Boot!Frame)]
  BY <1>2, <1>3 DEF BootShape
<1> QED
  BY <1>2, <1>4, <1>5 DEF Holding

LEMMA FramesFail ==
    ASSUME BootShape, NEW t \in BootTasks, frames' = [frames EXCEPT ![t] = <<>>]
    PROVE  /\ frames' \in [BootTasks -> Seq(Boot!Frame)]
           /\ \A u, i, g : Holding(frames', u, i, g) <=> Holding(frames, u, i, g) /\ u # t
<1>1. frames \in [BootTasks -> Seq(Boot!Frame)] /\ <<>> \in Seq(Boot!Frame)
  BY DEF BootShape
<1>2. /\ frames' \in [BootTasks -> Seq(Boot!Frame)] /\ frames'[t] = <<>>
      /\ \A u \in BootTasks \ {t} : frames'[u] = frames[u]
  BY <1>1
<1> QED
  BY <1>2 DEF Holding

\* What only grows: the list at its end, what is registered, what is booted.
Grows ==
    /\ \A j \in DOMAIN providers : j \in DOMAIN providers' /\ providers'[j] = providers[j]
    /\ registered \subseteq registered'
    /\ AllRegistered => AllRegistered'
    /\ \A p \in Providers : bootCount'[p] >= bootCount[p]
    /\ boots' >= boots

\* What calls in flight have gone over stays so.
LEMMA RightStays ==
    ASSUME BootShape, BootShape', Grows, NEW g
    PROVE  /\ IsLoop(g) /\ LoopIsRight(g) => LoopIsRight(g)'
           /\ LazyIsRight(g) => LazyIsRight(g)'
<1>1. /\ DOMAIN providers = 1..Len(providers) /\ Len(providers) \in Nat
      /\ DOMAIN providers' = 1..Len(providers') /\ Len(providers') \in Nat
      /\ \A j \in DOMAIN providers : providers[j] \in Providers
      /\ \A p \in Providers : bootCount[p] \in Nat /\ bootCount'[p] \in Nat
      /\ boots \in Nat /\ boots' \in Nat
  BY DEF BootShape
<1>2. ASSUME IsLoop(g), LoopIsRight(g) PROVE LoopIsRight(g)'
  <2>1. g.at \in DOMAIN providers /\ g.at \in DOMAIN providers'
    BY <1>2 DEF LoopIsRight, Grows
  <2>7. boots' > 0
    BY <1>1, <1>2 DEF LoopIsRight, Grows
  <2>2. \A j \in DOMAIN providers' : j <= g.at => j \in DOMAIN providers /\ providers'[j] = providers[j]
    BY <1>1, <2>1 DEF Grows
  <2>3. \A j \in DOMAIN providers' : j < g.at => j \in DOMAIN providers /\ providers'[j] = providers[j]
    BY <1>1, <2>1 DEF Grows
  <2>4. ASSUME g.op = "registerAll", NEW j \in DOMAIN providers', j < g.at
        PROVE  providers'[j] \in registered'
    BY <1>2, <2>3, <2>4 DEF LoopIsRight, Grows
  <2>5. ASSUME g.op = "bootAll", NEW j \in DOMAIN providers', j <= g.at
        PROVE  bootCount'[providers'[j]] > 0
    <3>1. bootCount[providers[j]] > 0 /\ providers[j] \in Providers /\ providers'[j] = providers[j]
      BY <1>1, <1>2, <2>2, <2>5 DEF LoopIsRight
    <3> QED
      BY <1>1, <3>1 DEF Grows
  <2>6. g.op = "bootAll" => AllRegistered'
    BY <1>2 DEF LoopIsRight, Grows
  <2> QED
    BY <2>1, <2>4, <2>5, <2>6, <2>7 DEF LoopIsRight
<1>3. ASSUME LazyIsRight(g) PROVE LazyIsRight(g)'
  <2>1. g.of \in Providers
    BY <1>3 DEF LazyIsRight
  <2>2. g.op = "lazyBoot" => AllRegistered' /\ g.of \in registered'
    BY <1>3 DEF LazyIsRight, Grows
  <2>3. g.op = "lazyBoot" => bootCount'[g.of] > 0
    BY <1>1, <1>3, <2>1 DEF LazyIsRight, Grows
  <2> QED
    BY <2>1, <2>2, <2>3 DEF LazyIsRight
<1> QED
  BY <1>2, <1>3

\* Nothing is booted or registered, and the list stays as it is.
LEMMA StillGrows ==
    ASSUME BootShape, UNCHANGED <<providers, registered, bootCount>>,
           boots' \in {boots, boots + 1}
    PROVE  Grows
  BY DEF BootShape, Grows, AllRegistered

\* One more is booted.
LEMMA EntersGrows ==
    ASSUME BootShape, NEW p \in Providers, Boot!Enters(p)
    PROVE  /\ bootCount' \in [Providers -> Nat] /\ bootCount'[p] = bootCount[p] + 1
           /\ \A q \in Providers : bootCount'[q] >= bootCount[q]
           /\ \A q \in Providers \ {p} : bootCount'[q] = bootCount[q]
<1>1. bootCount \in [Providers -> Nat]
  BY DEF BootShape
<1> QED
  BY <1>1 DEF Boot!Enters

\* The frame of a task that begins to boot, and the list it begins with.
LEMMA BootOrders ==
    ASSUME OrderInv, NEW t \in BootTasks, Boot!Boot(t)
    PROVE  OrderInv'
<1> DEFINE frame == [op |-> "registerAll", at |-> 1]
           n == Len(frames[t]) + 1
<1>1. /\ UNCHANGED <<providers, deferred, booted, registered, bootCount>> /\ boots' = boots + 1
      /\ ~ booted /\ ~ Boot!Booting /\ Boot!Pushes(t, frame) /\ BootShape
  BY DEF Boot!Boot, Boot!registry, OrderInv
<1>2. frame \in Boot!Frame
  BY DEF Boot!Frame
<1>3. \A u, i, g : Holding(frames, u, i, g) => ~ IsLoop(g)
  <2> SUFFICES ASSUME NEW u, NEW i, NEW g, Holding(frames, u, i, g), IsLoop(g) PROVE Boot!Booting
    BY <1>1
  <2>1. u \in BootTasks /\ g \in Boot!Range(frames[u])
    BY DEF Holding, Boot!Range
  <2> QED
    BY <2>1 DEF IsLoop, Boot!Booting
<1>4. IsLoop(frame) /\ frame.at = 1 /\ frame.op = "registerAll"
  BY DEF IsLoop
<1> HIDE DEF frame
<1>5. /\ frames' \in [BootTasks -> Seq(Boot!Frame)]
      /\ \A u, i, g : Holding(frames', u, i, g)
                <=> IF u = t /\ i = n THEN g = frame ELSE Holding(frames, u, i, g)
  BY <1>1, <1>2, FramePushed
<1> HIDE DEF n
<1>6. BootShape'
  BY <1>1, <1>5 DEF BootShape
<1>7. Grows
  BY <1>1, StillGrows
<1>8. FramesAreRight'
  <2> SUFFICES ASSUME NEW u, NEW i, NEW g, Holding(frames', u, i, g)
               PROVE  IF IsLoop(g) THEN ~ booted' /\ LoopIsRight(g)' ELSE LazyIsRight(g)'
    BY DEF FramesAreRight
  <2>1. CASE g = frame
    <3>1. 1 \in DOMAIN providers' /\ boots' > 0 /\ \A j \in DOMAIN providers' : ~ (j < 1)
      BY <1>1 DEF BootShape
    <3> QED
      BY <1>1, <1>4, <2>1, <3>1 DEF LoopIsRight
  <2>2. CASE Holding(frames, u, i, g)
    BY <1>1, <1>3, <1>6, <1>7, <2>2, RightStays DEF OrderInv, FramesAreRight
  <2> QED
    BY <1>5, <2>1, <2>2
<1>9. OneLoop'
  BY <1>3, <1>5 DEF OneLoop
<1>10. BootedIsRight'
  BY <1>1 DEF BootedIsRight
<1> QED
  BY <1>6, <1>8, <1>9, <1>10 DEF OrderInv

\* The list and what there is of calls in flight, in the state of an action.
LEMMA LoopRuns ==
    ASSUME OrderInv, NEW t \in BootTasks, NEW op \in {"registerAll", "bootAll"},
           Boot!Running(t, op)
    PROVE  /\ frames[t] # <<>> /\ Boot!Top(t).op = op /\ IsLoop(Boot!Top(t))
           /\ Holding(frames, t, Len(frames[t]), Boot!Top(t))
           /\ ~ booted /\ LoopIsRight(Boot!Top(t))
           /\ Boot!Top(t).at \in DOMAIN providers
           /\ Boot!Awaited(t) = providers[Boot!Top(t).at] /\ Boot!Awaited(t) \in Providers
<1>1. frames[t] # <<>> /\ Boot!Top(t).op = op /\ IsLoop(Boot!Top(t))
  BY DEF Boot!Running, IsLoop
<1>2. Holding(frames, t, Len(frames[t]), Boot!Top(t))
  BY <1>1, TopHolds DEF OrderInv
<1>3. ~ booted /\ LoopIsRight(Boot!Top(t))
  BY <1>1, <1>2 DEF OrderInv, FramesAreRight
<1>4. Boot!Top(t).at \in DOMAIN providers
  BY <1>3 DEF LoopIsRight
<1>5. \A j \in DOMAIN providers : providers[j] \in Providers
  BY DEF OrderInv, BootShape
<1>6. Boot!Awaited(t) = providers[Boot!Top(t).at]
  BY <1>1 DEF Boot!Awaited
<1> QED
  BY <1>1, <1>2, <1>3, <1>4, <1>5, <1>6

\* A loop that goes on to a place it may go to is one loop, and right.
LEMMA LoopGoesOn ==
    ASSUME OrderInv, NEW t \in BootTasks, frames[t] # <<>>, IsLoop(Boot!Top(t)),
           NEW frame \in Boot!Frame, IsLoop(frame), Boot!Becomes(t, frame),
           BootShape', Grows, LoopIsRight(frame)', ~ booted, booted' = booted
    PROVE  OrderInv'
<1> DEFINE n == Len(frames[t])
<1>1. /\ Holding(frames, t, n, Boot!Top(t)) /\ BootShape
      /\ \A u, i, g : Holding(frames', u, i, g)
                <=> IF u = t /\ i = n THEN g = frame ELSE Holding(frames, u, i, g)
  BY TopHolds, FrameBecomes DEF OrderInv
<1> HIDE DEF n
<1>2. \A u, i, g : Holding(frames', u, i, g) /\ g # frame => Holding(frames, u, i, g)
  BY <1>1
<1>3. FramesAreRight'
  <2> SUFFICES ASSUME NEW u, NEW i, NEW g, Holding(frames', u, i, g)
               PROVE  IF IsLoop(g) THEN ~ booted' /\ LoopIsRight(g)' ELSE LazyIsRight(g)'
    BY DEF FramesAreRight
  <2>1. CASE g = frame
    BY <2>1
  <2>2. CASE Holding(frames, u, i, g)
    BY <1>1, <2>2, RightStays DEF OrderInv, FramesAreRight
  <2> QED
    BY <1>2, <2>1, <2>2
<1>4. OneLoop'
  <2>1. \A u, i, g : Holding(frames', u, i, g) /\ IsLoop(g) => u = t /\ i = n
    BY <1>1 DEF OrderInv, OneLoop
  <2> QED
    BY <2>1 DEF OneLoop
<1>5. BootedIsRight'
  BY DEF BootedIsRight
<1> QED
  BY <1>3, <1>4, <1>5 DEF OrderInv

LEMMA RegisteredOrders ==
    ASSUME OrderInv, NEW t \in BootTasks, Boot!RegisteredOne(t)
    PROVE  OrderInv'
<1>0. PICK p \in Providers, at \in DOMAIN providers : at = Boot!Top(t).at /\ p = Boot!Awaited(t)
  BY LoopRuns DEF Boot!RegisteredOne
<1>1. /\ frames[t] # <<>> /\ IsLoop(Boot!Top(t)) /\ Boot!Top(t).op = "registerAll"
      /\ ~ booted /\ LoopIsRight(Boot!Top(t)) /\ at \in DOMAIN providers
      /\ p = providers[at] /\ p \in Providers /\ boots > 0
  BY <1>0, LoopRuns DEF LoopIsRight, Boot!RegisteredOne
<1>2. BootShape /\ DOMAIN providers = 1..Len(providers) /\ Len(providers) \in Nat
  BY DEF OrderInv, BootShape
<1>3. registered' = registered \cup {p} /\ UNCHANGED <<providers, deferred, booted, boots>>
  BY <1>0 DEF Boot!RegisteredOne
<1>4. \A j \in DOMAIN providers : j < at => providers[j] \in registered
  BY <1>0, <1>1 DEF LoopIsRight
<1>5. CASE Boot!LoopEnds(at)
  <2> DEFINE frame == [op |-> "bootAll", at |-> 1]
  <2>1. Boot!Becomes(t, frame) /\ Boot!Enters(providers[1])
    BY <1>0, <1>5 DEF Boot!RegisteredOne
  <2>2. frame \in Boot!Frame /\ IsLoop(frame)
    BY DEF Boot!Frame, IsLoop
  <2>3. 1 \in DOMAIN providers /\ providers[1] \in Providers
    BY <1>1, <1>2 DEF BootShape
  <2>4. /\ bootCount' \in [Providers -> Nat] /\ bootCount'[providers[1]] = bootCount[providers[1]] + 1
        /\ \A q \in Providers : bootCount'[q] >= bootCount[q]
    BY <1>2, <2>1, <2>3, EntersGrows
  <2>5. frames' \in [BootTasks -> Seq(Boot!Frame)]
    BY <1>1, <1>2, <2>1, <2>2, FrameBecomes
  <2>6. BootShape'
    BY <1>2, <1>3, <2>4, <2>5 DEF BootShape
  <2>7. Grows
    BY <1>2, <1>3, <2>4 DEF Grows, AllRegistered, BootShape
  <2>8. AllRegistered'
    <3>1. \A j \in DOMAIN providers : j < at \/ j = at
      BY <1>1, <1>2, <1>5 DEF Boot!LoopEnds
    <3> QED
      BY <1>1, <1>3, <1>4, <3>1 DEF AllRegistered
  <2>9. LoopIsRight(frame)'
    <3>1. bootCount'[providers[1]] > 0
      BY <1>2, <2>3, <2>4 DEF BootShape
    <3>2. \A j \in DOMAIN providers : j <= 1 => j = 1
      BY <1>2
    <3> QED
      BY <1>1, <1>3, <2>3, <2>8, <3>1, <3>2 DEF LoopIsRight
  <2> HIDE DEF frame
  <2> QED
    BY <1>1, <1>3, <2>1, <2>2, <2>6, <2>7, <2>9, LoopGoesOn
<1>6. CASE ~ Boot!LoopEnds(at)
  <2> DEFINE frame == [op |-> "registerAll", at |-> at + 1]
  <2>1. Boot!Becomes(t, frame) /\ UNCHANGED bootCount
    BY <1>0, <1>6 DEF Boot!RegisteredOne, Boot!NextIndex
  <2>2. at + 1 \in DOMAIN providers /\ at \in Nat
    BY <1>1, <1>2, <1>6 DEF Boot!LoopEnds
  <2>3. frame \in Boot!Frame /\ IsLoop(frame)
    BY <1>2, <2>2 DEF Boot!Frame, IsLoop
  <2>4. frames' \in [BootTasks -> Seq(Boot!Frame)]
    BY <1>1, <1>2, <2>1, <2>3, FrameBecomes
  <2>5. BootShape'
    BY <1>2, <1>3, <2>1, <2>4 DEF BootShape
  <2>6. Grows
    BY <1>2, <1>3, <2>1 DEF Grows, AllRegistered, BootShape
  <2>7. LoopIsRight(frame)'
    <3>1. \A j \in DOMAIN providers : j < at + 1 => j < at \/ j = at
      BY <1>2, <2>2
    <3>2. \A j \in DOMAIN providers : j < at + 1 => providers[j] \in registered'
      BY <1>1, <1>3, <1>4, <3>1
    <3> QED
      BY <1>1, <1>3, <2>2, <3>2 DEF LoopIsRight
  <2> HIDE DEF frame
  <2> QED
    BY <1>1, <1>3, <2>1, <2>3, <2>5, <2>6, <2>7, LoopGoesOn
<1> QED
  BY <1>5, <1>6

LEMMA BootedOrders ==
    ASSUME OrderInv, NEW t \in BootTasks, Boot!BootedOne(t)
    PROVE  OrderInv'
<1> DEFINE n == Len(frames[t])
<1>0. PICK at \in DOMAIN providers : at = Boot!Top(t).at
  BY LoopRuns DEF Boot!BootedOne
<1>1. /\ frames[t] # <<>> /\ IsLoop(Boot!Top(t)) /\ Boot!Top(t).op = "bootAll"
      /\ ~ booted /\ LoopIsRight(Boot!Top(t)) /\ at \in DOMAIN providers
      /\ Holding(frames, t, n, Boot!Top(t)) /\ boots > 0
  BY <1>0, LoopRuns DEF LoopIsRight, Boot!BootedOne
<1>2. BootShape /\ DOMAIN providers = 1..Len(providers) /\ Len(providers) \in Nat
  BY DEF OrderInv, BootShape
<1>3. UNCHANGED <<providers, deferred, bound, boots, registered>>
  BY DEF Boot!BootedOne, Boot!registry
<1>4. AllRegistered /\ \A j \in DOMAIN providers : j <= at => bootCount[providers[j]] > 0
  BY <1>0, <1>1 DEF LoopIsRight
<1>5. CASE Boot!LoopEnds(at)
  <2>1. Boot!Pops(t) /\ booted' = TRUE /\ UNCHANGED bootCount
    BY <1>0, <1>5 DEF Boot!BootedOne
  <2>2. /\ frames' \in [BootTasks -> Seq(Boot!Frame)]
        /\ \A u, i, g : Holding(frames', u, i, g)
                <=> Holding(frames, u, i, g) /\ ~ (u = t /\ i = n)
    BY <1>1, <1>2, <2>1, FramePopped
  <2> HIDE DEF n
  <2>3. BootShape'
    BY <1>2, <1>3, <2>1, <2>2 DEF BootShape
  <2>4. Grows
    BY <1>2, <1>3, <2>1, StillGrows
  <2>5. \A u, i, g : Holding(frames', u, i, g) => ~ IsLoop(g)
    BY <1>1, <2>2 DEF OrderInv, OneLoop
  <2>6. FramesAreRight'
    BY <1>2, <2>2, <2>3, <2>4, <2>5, RightStays DEF OrderInv, FramesAreRight
  <2>7. OneLoop'
    BY <2>5 DEF OneLoop
  <2>8. BootedIsRight'
    <3>1. \A j \in DOMAIN providers : j <= at
      BY <1>1, <1>2, <1>5 DEF Boot!LoopEnds
    <3> QED
      BY <1>1, <1>3, <1>4, <2>1, <3>1 DEF BootedIsRight, AllRegistered
  <2> QED
    BY <2>3, <2>6, <2>7, <2>8 DEF OrderInv
<1>6. CASE ~ Boot!LoopEnds(at)
  <2> DEFINE frame == [op |-> "bootAll", at |-> at + 1]
  <2>1. Boot!Becomes(t, frame) /\ Boot!Enters(providers[at + 1]) /\ UNCHANGED booted
    BY <1>0, <1>6 DEF Boot!BootedOne, Boot!NextIndex
  <2>2. at + 1 \in DOMAIN providers /\ at \in Nat /\ providers[at + 1] \in Providers
    BY <1>1, <1>2, <1>6 DEF Boot!LoopEnds, BootShape
  <2>3. frame \in Boot!Frame /\ IsLoop(frame)
    BY <1>2, <2>2 DEF Boot!Frame, IsLoop
  <2>4. /\ bootCount' \in [Providers -> Nat]
        /\ bootCount'[providers[at + 1]] = bootCount[providers[at + 1]] + 1
        /\ \A q \in Providers : bootCount'[q] >= bootCount[q]
    BY <1>2, <2>1, <2>2, EntersGrows
  <2>5. frames' \in [BootTasks -> Seq(Boot!Frame)]
    BY <1>1, <1>2, <2>1, <2>3, FrameBecomes
  <2>6. BootShape'
    BY <1>2, <1>3, <2>1, <2>4, <2>5 DEF BootShape
  <2>7. Grows
    BY <1>2, <1>3, <2>4 DEF Grows, AllRegistered, BootShape
  <2>8. LoopIsRight(frame)'
    <3>1. \A j \in DOMAIN providers : j <= at + 1 => j <= at \/ j = at + 1
      BY <1>2, <2>2
    <3>2. \A j \in DOMAIN providers : providers[j] \in Providers /\ bootCount[providers[j]] \in Nat
                                        /\ bootCount'[providers[j]] \in Nat
      BY <1>2, <2>4 DEF BootShape
    <3>3. \A j \in DOMAIN providers : j <= at + 1 => bootCount'[providers[j]] > 0
      BY <1>4, <2>2, <2>4, <3>1, <3>2
    <3>4. AllRegistered'
      BY <1>3, <1>4 DEF AllRegistered
    <3> QED
      BY <1>1, <1>3, <2>2, <3>3, <3>4 DEF LoopIsRight
  <2> HIDE DEF frame
  <2> QED
    BY <1>1, <2>1, <2>3, <2>6, <2>7, <2>8, LoopGoesOn
<1> QED
  BY <1>5, <1>6

\* A step that only lets calls in flight go keeps the others right.
LEMMA OnlyLeave ==
    ASSUME OrderInv, BootShape', Grows,
           \A u, i, g : Holding(frames', u, i, g) => Holding(frames, u, i, g),
           booted' => booted, UNCHANGED <<providers, registered, bootCount, boots>>
    PROVE  OrderInv'
<1>1. FramesAreRight'
  BY RightStays DEF OrderInv, FramesAreRight
<1>2. OneLoop'
  BY DEF OrderInv, OneLoop
<1>3. BootedIsRight'
  BY DEF OrderInv, BootedIsRight, AllRegistered
<1> QED
  BY <1>1, <1>2, <1>3 DEF OrderInv

LEMMA FailsOrders ==
    ASSUME OrderInv, NEW t \in BootTasks, Boot!Fails(t)
    PROVE  OrderInv'
<1>1. /\ frames' = [frames EXCEPT ![t] = <<>>] /\ BootShape
      /\ UNCHANGED <<providers, deferred, booted, boots, registered, bootCount>>
  BY DEF Boot!Fails, Boot!registry, OrderInv
<1>2. /\ frames' \in [BootTasks -> Seq(Boot!Frame)]
      /\ \A u, i, g : Holding(frames', u, i, g) <=> Holding(frames, u, i, g) /\ u # t
  BY <1>1, FramesFail
<1>3. BootShape'
  BY <1>1, <1>2 DEF BootShape
<1>4. Grows
  BY <1>1, StillGrows
<1> QED
  BY <1>1, <1>2, <1>3, <1>4, OnlyLeave

LEMMA ShutdownOrders ==
    ASSUME OrderInv, Boot!Shutdown
    PROVE  OrderInv'
<1>1. /\ booted' = FALSE /\ BootShape
      /\ UNCHANGED <<providers, deferred, frames, boots, registered, bootCount>>
  BY DEF Boot!Shutdown, Boot!registry, OrderInv
<1>2. BootShape'
  BY <1>1 DEF BootShape
<1>3. Grows
  BY <1>1, StillGrows
<1> QED
  BY <1>1, <1>2, <1>3, OnlyLeave

\* make() of what a deferred provider provides: a call in flight more.
LEMMA MakeOrders ==
    ASSUME OrderInv, NEW t \in BootTasks, NEW k \in ProvidedKeys, Boot!MakeDeferred(t, k)
    PROVE  OrderInv'
<1>0. PICK p \in Deferred \cup {NoProvider} : p = deferred[k]
  BY DEF OrderInv, BootShape
<1> DEFINE frame == [op |-> "lazyRegister", of |-> p]
           n == Len(frames[t]) + 1
<1>1. /\ p # NoProvider /\ Boot!Pushes(t, frame) /\ BootShape
      /\ deferred' = [deferred EXCEPT ![k] = NoProvider]
      /\ UNCHANGED <<providers, booted, boots, registered, bootCount>>
  BY <1>0 DEF Boot!MakeDeferred, Boot!WithoutDeferred, OrderInv
<1>2. p \in Providers
  BY <1>1, BootAssumptions DEF Boot!DeferredAssumption
<1>3. frame \in Boot!Frame /\ frame.op = "lazyRegister" /\ frame.of = p
  BY <1>2 DEF Boot!Frame
<1> HIDE DEF frame
<1>4. /\ frames' \in [BootTasks -> Seq(Boot!Frame)]
      /\ \A u, i, g : Holding(frames', u, i, g)
                <=> IF u = t /\ i = n THEN g = frame ELSE Holding(frames, u, i, g)
  BY <1>1, <1>3, FramePushed
<1> HIDE DEF n
<1>5. BootShape'
  BY <1>1, <1>4 DEF BootShape
<1>6. Grows
  BY <1>1, StillGrows
<1>7. ~ IsLoop(frame) /\ LazyIsRight(frame)'
  BY <1>2, <1>3 DEF IsLoop, LazyIsRight
<1>8. FramesAreRight'
  <2> SUFFICES ASSUME NEW u, NEW i, NEW g, Holding(frames', u, i, g)
               PROVE  IF IsLoop(g) THEN ~ booted' /\ LoopIsRight(g)' ELSE LazyIsRight(g)'
    BY DEF FramesAreRight
  <2>1. CASE g = frame
    BY <1>7, <2>1
  <2>2. CASE Holding(frames, u, i, g)
    BY <1>1, <1>5, <1>6, <2>2, RightStays DEF OrderInv, FramesAreRight
  <2> QED
    BY <1>4, <2>1, <2>2
<1>9. OneLoop'
  <2>1. \A u, i, g : Holding(frames', u, i, g) /\ IsLoop(g) => Holding(frames, u, i, g)
    BY <1>4, <1>7
  <2> QED
    BY <2>1 DEF OrderInv, OneLoop
<1>10. BootedIsRight'
  BY <1>1 DEF OrderInv, BootedIsRight, AllRegistered
<1> QED
  BY <1>5, <1>8, <1>9, <1>10 DEF OrderInv

\* The provider of a call of make() in flight.
LEMMA LazyRuns ==
    ASSUME OrderInv, NEW t \in BootTasks, NEW op \in {"lazyRegister", "lazyBoot"},
           Boot!Running(t, op)
    PROVE  /\ frames[t] # <<>> /\ Boot!Top(t).op = op /\ ~ IsLoop(Boot!Top(t))
           /\ Holding(frames, t, Len(frames[t]), Boot!Top(t))
           /\ LazyIsRight(Boot!Top(t))
           /\ Boot!Awaited(t) = Boot!Top(t).of /\ Boot!Awaited(t) \in Providers
<1>1. frames[t] # <<>> /\ Boot!Top(t).op = op /\ ~ IsLoop(Boot!Top(t))
  BY DEF Boot!Running, IsLoop
<1>2. Holding(frames, t, Len(frames[t]), Boot!Top(t))
  BY <1>1, TopHolds DEF OrderInv
<1>3. LazyIsRight(Boot!Top(t))
  BY <1>1, <1>2 DEF OrderInv, FramesAreRight
<1>4. Boot!Awaited(t) = Boot!Top(t).of
  BY <1>1 DEF Boot!Awaited
<1> QED
  BY <1>1, <1>2, <1>3, <1>4 DEF LazyIsRight

\* A call of make() that ends: its provider, registered by now, comes last in
\* the list, and booted if the application is.
LEMMA Appended ==
    ASSUME BootShape, NEW p \in Providers, providers' = Append(providers, p)
    PROVE  /\ providers' \in Seq(Providers) /\ providers' # <<>>
           /\ DOMAIN providers' = DOMAIN providers \cup {Len(providers) + 1}
           /\ Len(providers) + 1 \notin DOMAIN providers
           /\ providers'[Len(providers) + 1] = p
           /\ \A j \in DOMAIN providers : providers'[j] = providers[j]
<1>1. providers \in Seq(Providers)
  BY DEF BootShape
<1> QED
  BY <1>1, AppendAdds

LEMMA LazyEnds ==
    ASSUME OrderInv, NEW t \in BootTasks, frames[t] # <<>>, Boot!Pops(t),
           NEW p \in Providers, providers' = Append(providers, p),
           p \in registered', registered \subseteq registered',
           booted => bootCount[p] > 0,
           UNCHANGED <<deferred, booted, boots, bootCount>>
    PROVE  OrderInv'
<1>1. BootShape
  BY DEF OrderInv
<1>2. /\ providers' \in Seq(Providers) /\ providers' # <<>>
      /\ DOMAIN providers' = DOMAIN providers \cup {Len(providers) + 1}
      /\ providers'[Len(providers) + 1] = p
      /\ \A j \in DOMAIN providers : providers'[j] = providers[j]
  BY <1>1, Appended
<1>3. /\ frames' \in [BootTasks -> Seq(Boot!Frame)]
      /\ \A u, i, g : Holding(frames', u, i, g) => Holding(frames, u, i, g)
  BY <1>1, FramePopped
<1>4. BootShape'
  BY <1>1, <1>2, <1>3 DEF BootShape
<1>5. AllRegistered => AllRegistered'
  BY <1>2 DEF AllRegistered
<1>6. Grows
  BY <1>1, <1>2, <1>5 DEF Grows, BootShape
<1>7. FramesAreRight'
  BY <1>1, <1>3, <1>4, <1>6, RightStays DEF OrderInv, FramesAreRight
<1>8. OneLoop'
  BY <1>3 DEF OrderInv, OneLoop
<1>9. BootedIsRight'
  BY <1>2, <1>5 DEF OrderInv, BootedIsRight
<1> QED
  BY <1>4, <1>7, <1>8, <1>9 DEF OrderInv

LEMMA LazyOrders ==
    ASSUME OrderInv, NEW t \in BootTasks, Boot!LazyRegistered(t) \/ Boot!LazyBooted(t)
    PROVE  OrderInv'
<1>1. CASE Boot!LazyBooted(t)
  <2>1. PICK p \in Providers : p = Boot!Awaited(t) /\ LazyIsRight(Boot!Top(t))
                               /\ frames[t] # <<>> /\ p = Boot!Top(t).of
                               /\ Boot!Top(t).op = "lazyBoot"
    BY <1>1, LazyRuns DEF Boot!LazyBooted
  <2>2. /\ providers' = Append(providers, p) /\ Boot!Pops(t)
        /\ UNCHANGED <<deferred, booted, boots, registered, bootCount>>
    BY <1>1, <2>1 DEF Boot!LazyBooted
  <2>3. p \in registered /\ bootCount[p] > 0
    BY <2>1 DEF LazyIsRight
  <2> QED
    BY <2>1, <2>2, <2>3, LazyEnds
<1>2. CASE Boot!LazyRegistered(t)
  <2>1. PICK p \in Providers : p = Boot!Awaited(t) /\ frames[t] # <<>> /\ ~ IsLoop(Boot!Top(t))
                               /\ Holding(frames, t, Len(frames[t]), Boot!Top(t))
    BY <1>2, LazyRuns DEF Boot!LazyRegistered
  <2>2. registered' = registered \cup {p} /\ UNCHANGED <<deferred, booted, boots>>
    BY <1>2, <2>1 DEF Boot!LazyRegistered
  <2>3. CASE ~ booted
    <3>1. Boot!Pops(t) /\ providers' = Append(providers, p) /\ UNCHANGED bootCount
      BY <1>2, <2>1, <2>3 DEF Boot!LazyRegistered, Boot!BootsLazily
    <3> QED
      BY <2>1, <2>2, <2>3, <3>1, LazyEnds
  <2>4. CASE booted
    <3> DEFINE frame == [op |-> "lazyBoot", of |-> p]
               n == Len(frames[t])
    <3>1. Boot!Becomes(t, frame) /\ Boot!Enters(p) /\ UNCHANGED providers /\ BootShape
      BY <1>2, <2>1, <2>4 DEF Boot!LazyRegistered, Boot!BootsLazily, OrderInv
    <3>2. frame \in Boot!Frame /\ frame.op = "lazyBoot" /\ frame.of = p
      BY DEF Boot!Frame
    <3> HIDE DEF frame
    <3>3. /\ frames' \in [BootTasks -> Seq(Boot!Frame)]
          /\ \A u, i, g : Holding(frames', u, i, g)
                <=> IF u = t /\ i = n THEN g = frame ELSE Holding(frames, u, i, g)
      BY <2>1, <3>1, <3>2, FrameBecomes
    <3> HIDE DEF n
    <3>4. /\ bootCount' \in [Providers -> Nat] /\ bootCount'[p] = bootCount[p] + 1
          /\ \A q \in Providers : bootCount'[q] >= bootCount[q]
      BY <3>1, EntersGrows
    <3>5. BootShape'
      BY <2>2, <3>1, <3>3, <3>4 DEF BootShape
    <3>6. Grows
      BY <2>2, <3>1, <3>4 DEF Grows, AllRegistered, BootShape
    <3>7. AllRegistered /\ bootCount'[p] > 0
      BY <2>4, <3>1, <3>4 DEF OrderInv, BootedIsRight, BootShape
    <3>8. ~ IsLoop(frame) /\ LazyIsRight(frame)'
      BY <2>2, <3>1, <3>2, <3>6, <3>7 DEF IsLoop, LazyIsRight, Grows
    <3>9. FramesAreRight'
      <4> SUFFICES ASSUME NEW u, NEW i, NEW g, Holding(frames', u, i, g)
                   PROVE  IF IsLoop(g) THEN ~ booted' /\ LoopIsRight(g)' ELSE LazyIsRight(g)'
        BY DEF FramesAreRight
      <4>1. CASE g = frame
        BY <3>8, <4>1
      <4>2. CASE Holding(frames, u, i, g)
        BY <2>2, <3>1, <3>5, <3>6, <4>2, RightStays DEF OrderInv, FramesAreRight
      <4> QED
        BY <3>3, <4>1, <4>2
    <3>10. OneLoop'
      <4>1. \A u, i, g : Holding(frames', u, i, g) /\ IsLoop(g) => Holding(frames, u, i, g)
        BY <3>3, <3>8
      <4> QED
        BY <4>1 DEF OrderInv, OneLoop
    <3>11. BootedIsRight'
      <4>1. \A j \in DOMAIN providers : bootCount'[providers[j]] > 0
        <5> SUFFICES ASSUME NEW j \in DOMAIN providers PROVE bootCount'[providers[j]] > 0
          OBVIOUS
        <5>1. providers[j] \in Providers /\ bootCount[providers[j]] > 0
          BY <2>4, <3>1 DEF OrderInv, BootedIsRight, BootShape
        <5>2. bootCount[providers[j]] \in Nat /\ bootCount'[providers[j]] \in Nat
          BY <3>1, <3>4, <5>1 DEF BootShape
        <5> QED
          BY <3>4, <5>1, <5>2
      <4> QED
        BY <2>2, <2>4, <3>1, <3>6, <3>7, <4>1 DEF OrderInv, BootedIsRight, Grows
    <3> QED
      BY <3>5, <3>9, <3>10, <3>11 DEF OrderInv
  <2> QED
    BY <2>3, <2>4
<1> QED
  BY <1>1, <1>2

\* In what order an application registers and boots, whatever the keys.
LEMMA OrderBegins == Boot!Init => OrderInv
<1> SUFFICES ASSUME Boot!Init PROVE OrderInv
  OBVIOUS
<1> DEFINE eagerly == Providers \ Deferred
<1>1. IsFiniteSet(eagerly) /\ eagerly # {}
  <2>1. IsFiniteSet(Providers) /\ Deferred \subseteq Providers /\ Deferred # Providers
    BY BootAssumptions DEF Boot!DeferredAssumption, Boot!IsFiniteSet, IsFiniteSet
  <2> QED
    BY <2>1, FS_Subset
<1>2. Boot!Cardinality(eagerly) \in Nat \ {0}
  <2>1. Boot!Cardinality(eagerly) = Cardinality(eagerly)
    BY DEF Boot!Cardinality, Cardinality
  <2> QED
    BY <1>1, <2>1, FS_CardinalityType, FS_EmptySet
<1>3. providers \in [1..Boot!Cardinality(eagerly) -> eagerly]
  BY DEF Boot!Init, Boot!SetToSeqs
<1>4. providers \in Seq(Providers) /\ providers # <<>>
  <2>1. PICK n \in Nat \ {0} : n = Boot!Cardinality(eagerly)
    BY <1>2
  <2>6. providers \in [1..n -> eagerly] /\ 1 \in 1..n
    <3> HIDE DEF eagerly
    <3> QED
      BY <1>3, <2>1
  <2>2. providers \in [1..n -> Providers] /\ 1 \in 1..n
    BY <2>6
  <2>3. providers \in Seq(Providers)
    BY <2>2
  <2>4. 1 \in DOMAIN providers
    BY <2>2
  <2>5. DOMAIN <<>> = {}
    OBVIOUS
  <2> QED
    BY <2>3, <2>4, <2>5
<1>5. /\ booted = FALSE /\ boots = 0 /\ bootCount \in [Providers -> Nat]
      /\ deferred \in [ProvidedKeys -> Deferred \cup {NoProvider}]
      /\ frames \in [BootTasks -> Seq(Boot!Frame)] /\ \A t \in BootTasks : frames[t] = <<>>
  <2>1. <<>> \in Seq(Boot!Frame)
    OBVIOUS
  <2> QED
    BY <2>1 DEF Boot!Init
<1>6. \A t, i, g : ~ Holding(frames, t, i, g)
  BY <1>5 DEF Holding
<1>7. BootShape
  BY <1>4, <1>5 DEF BootShape
<1> QED
  BY <1>5, <1>6, <1>7 DEF OrderInv, FramesAreRight, OneLoop, BootedIsRight

LEMMA OrderStep == OrderInv /\ [Boot!Next]_appVars => OrderInv'
<1> SUFFICES ASSUME OrderInv, [Boot!Next]_appVars PROVE OrderInv'
  OBVIOUS
<1>1. CASE UNCHANGED appVars
  <2>1. UNCHANGED <<providers, deferred, booted, frames, boots, registered, bootCount>>
    BY <1>1 DEF appVars
  <2>2. BootShape /\ BootShape'
    BY <2>1 DEF OrderInv, BootShape
  <2> QED
    BY <2>1, <2>2, StillGrows, OnlyLeave
<1>2. CASE Boot!Next
  BY <1>2, BootOrders, RegisteredOrders, BootedOrders, LazyOrders, FailsOrders, MakeOrders,
     ShutdownOrders
  DEF Boot!Next, Boot!ProviderReturns
<1> QED
  BY <1>1, <1>2

LEMMA OrderFollows == OrderInv => Boot!BootFollowsRegister /\ Boot!BootedMeansAllBooted
<1> SUFFICES ASSUME OrderInv PROVE Boot!BootFollowsRegister /\ Boot!BootedMeansAllBooted
  OBVIOUS
<1>1. \A p : p \in Boot!Range(providers) <=> \E j \in DOMAIN providers : p = providers[j]
  BY DEF Boot!Range
<1>2. ASSUME NEW t \in BootTasks, Boot!Running(t, "bootAll")
      PROVE  Boot!Range(providers) \cup {Boot!Awaited(t)} \subseteq registered
  <2>1. /\ AllRegistered /\ Boot!Top(t).at \in DOMAIN providers
        /\ Boot!Awaited(t) = providers[Boot!Top(t).at]
    BY <1>2, LoopRuns DEF LoopIsRight
  <2> QED
    BY <1>1, <2>1 DEF AllRegistered
<1>3. ASSUME NEW t \in BootTasks, Boot!Running(t, "lazyBoot")
      PROVE  Boot!Range(providers) \cup {Boot!Awaited(t)} \subseteq registered
  <2>1. AllRegistered /\ Boot!Awaited(t) \in registered
    BY <1>3, LazyRuns DEF LazyIsRight
  <2> QED
    BY <1>1, <2>1 DEF AllRegistered
<1>4. booted => \A p \in Boot!Range(providers) : bootCount[p] > 0
  BY <1>1 DEF OrderInv, BootedIsRight
<1> QED
  BY <1>2, <1>3, <1>4 DEF Boot!BootFollowsRegister, Boot!BootedMeansAllBooted

\* Where a provider is: under a key, with a call of make() or in the list.
Lazy(calls, t, i, p) == \E g : Holding(calls, t, i, g) /\ ~ IsLoop(g) /\ g.of = p

PlacesInv ==
    /\ \A i, j \in DOMAIN providers : providers[i] = providers[j] => i = j
    /\ \A t, i, p : Lazy(frames, t, i, p) => \A j \in DOMAIN providers : providers[j] # p
    /\ \A t, u, i, j, p : Lazy(frames, t, i, p) /\ Lazy(frames, u, j, p) => t = u /\ i = j
    /\ \A k \in ProvidedKeys : deferred[k] # NoProvider =>
        /\ \A j \in DOMAIN providers : providers[j] # deferred[k]
        /\ \A t, i : ~ Lazy(frames, t, i, deferred[k])
        /\ \A l \in ProvidedKeys : deferred[l] = deferred[k] => l = k

FreshInv ==
    /\ \A k \in ProvidedKeys : deferred[k] # NoProvider => bootCount[deferred[k]] = 0
    /\ \A t, i, g : Holding(frames, t, i, g) /\ g.op = "lazyRegister" => bootCount[g.of] = 0

\* A loop has not yet come to p.
NotYet(g, p) ==
    g.op = "registerAll" \/ \A j \in DOMAIN providers : j <= g.at => providers[j] # p

CountInv ==
    /\ \A p \in Providers : bootCount[p] <= boots
    /\ \A t, i, g : Holding(frames, t, i, g) /\ IsLoop(g) =>
        \A p \in Providers : NotYet(g, p) => bootCount[p] < boots

OnceInv == OrderInv /\ PlacesInv /\ FreshInv /\ CountInv

LEMMA PlacesStay ==
    ASSUME PlacesInv, UNCHANGED <<providers, deferred>>,
           \A t, i, p : Lazy(frames', t, i, p) => Lazy(frames, t, i, p)
    PROVE  PlacesInv'
  BY DEF PlacesInv

LEMMA PlacesAppend ==
    ASSUME PlacesInv, BootShape, NEW p \in Providers, providers' = Append(providers, p),
           UNCHANGED deferred, NEW t, NEW n, Lazy(frames, t, n, p),
           \A u, i, q : Lazy(frames', u, i, q) => Lazy(frames, u, i, q) /\ ~ (u = t /\ i = n)
    PROVE  PlacesInv'
<1>1. /\ DOMAIN providers' = DOMAIN providers \cup {Len(providers) + 1}
      /\ providers'[Len(providers) + 1] = p
      /\ \A j \in DOMAIN providers : providers'[j] = providers[j]
  BY Appended
<1>2. \A j \in DOMAIN providers : providers[j] # p
  BY DEF PlacesInv
<1>3. \A i, j \in DOMAIN providers' : providers'[i] = providers'[j] => i = j
  BY <1>1, <1>2 DEF PlacesInv
<1>4. \A u, i, q : Lazy(frames', u, i, q) => \A j \in DOMAIN providers' : providers'[j] # q
  BY <1>1 DEF PlacesInv
<1>5. \A k \in ProvidedKeys : deferred[k] # NoProvider => deferred[k] # p
  BY DEF PlacesInv
<1>6. ASSUME NEW k \in ProvidedKeys, deferred'[k] # NoProvider
      PROVE  /\ \A j \in DOMAIN providers' : providers'[j] # deferred'[k]
             /\ \A u, i : ~ Lazy(frames', u, i, deferred'[k])
             /\ \A l \in ProvidedKeys : deferred'[l] = deferred'[k] => l = k
  <2>1. /\ \A j \in DOMAIN providers : providers[j] # deferred[k]
        /\ \A u, i : ~ Lazy(frames, u, i, deferred[k])
        /\ \A l \in ProvidedKeys : deferred[l] = deferred[k] => l = k
    BY <1>6 DEF PlacesInv
  <2> QED
    BY <1>1, <1>5, <1>6, <2>1
<1>7. \A u, v, i, j, q : Lazy(frames', u, i, q) /\ Lazy(frames', v, j, q) => u = v /\ i = j
  BY DEF PlacesInv
<1> QED
  BY <1>3, <1>4, <1>6, <1>7 DEF PlacesInv

LEMMA PlacesMake ==
    ASSUME PlacesInv, BootShape, NEW k \in ProvidedKeys, NEW p, p = deferred[k], p # NoProvider,
           \A l \in ProvidedKeys : deferred'[l] = IF l = k THEN NoProvider ELSE deferred[l],
           UNCHANGED providers,
           \A u, i, q : Lazy(frames', u, i, q) => q = p \/ Lazy(frames, u, i, q),
           \A u, v, i, j : Lazy(frames', u, i, p) /\ Lazy(frames', v, j, p) => u = v /\ i = j
    PROVE  PlacesInv'
<1>1. /\ \A j \in DOMAIN providers : providers[j] # p
      /\ \A u, i : ~ Lazy(frames, u, i, p)
      /\ \A l \in ProvidedKeys : deferred[l] = p => l = k
  BY DEF PlacesInv
<1>2. \A l \in ProvidedKeys : deferred'[l] = IF l = k THEN NoProvider ELSE deferred[l]
  OBVIOUS
<1>3. \A u, i, q : Lazy(frames', u, i, q) => \A j \in DOMAIN providers : providers[j] # q
  BY <1>1 DEF PlacesInv
<1>4. \A u, v, i, j, q : Lazy(frames', u, i, q) /\ Lazy(frames', v, j, q) => u = v /\ i = j
  <2> SUFFICES ASSUME NEW u, NEW v, NEW i, NEW j, NEW q,
                      Lazy(frames', u, i, q), Lazy(frames', v, j, q)
               PROVE  u = v /\ i = j
    OBVIOUS
  <2>1. CASE q = p
    BY <1>1, <2>1
  <2>2. CASE q # p
    BY <2>2 DEF PlacesInv
  <2> QED
    BY <2>1, <2>2
<1>5. ASSUME NEW l \in ProvidedKeys, deferred'[l] # NoProvider
      PROVE  /\ \A j \in DOMAIN providers : providers[j] # deferred'[l]
             /\ \A u, i : ~ Lazy(frames', u, i, deferred'[l])
             /\ \A m \in ProvidedKeys : deferred'[m] = deferred'[l] => m = l
  <2>1. l # k /\ deferred'[l] = deferred[l]
    BY <1>2, <1>5
  <2>2. /\ \A j \in DOMAIN providers : providers[j] # deferred[l]
        /\ \A u, i : ~ Lazy(frames, u, i, deferred[l])
        /\ \A m \in ProvidedKeys : deferred[m] = deferred[l] => m = l
    BY <1>5, <2>1 DEF PlacesInv
  <2>3. deferred[l] # p
    BY <1>1, <2>1
  <2> QED
    BY <1>2, <1>5, <2>1, <2>2, <2>3
<1> QED
  BY <1>3, <1>4, <1>5 DEF PlacesInv

\* Loops that go on, and what they have not come to yet.
LEMMA CountBoot ==
    ASSUME OnceInv, NEW t \in BootTasks, Boot!Boot(t)
    PROVE  (PlacesInv /\ FreshInv /\ CountInv)'
<1> DEFINE frame == [op |-> "registerAll", at |-> 1]
           n == Len(frames[t]) + 1
<1>1. /\ UNCHANGED <<providers, deferred, bootCount>> /\ boots' = boots + 1 /\ BootShape
      /\ Boot!Pushes(t, frame)
  BY DEF Boot!Boot, Boot!registry, OnceInv, OrderInv
<1>2. frame \in Boot!Frame /\ IsLoop(frame) /\ frame.op = "registerAll"
  BY DEF Boot!Frame, IsLoop
<1> HIDE DEF frame
<1>3. \A u, i, g : Holding(frames', u, i, g)
                <=> IF u = t /\ i = n THEN g = frame ELSE Holding(frames, u, i, g)
  BY <1>1, <1>2, FramePushed
<1> HIDE DEF n
<1>4. \A u, i, p : Lazy(frames', u, i, p) => Lazy(frames, u, i, p)
  BY <1>2, <1>3 DEF Lazy
<1>5. PlacesInv'
  BY <1>1, <1>4, PlacesStay DEF OnceInv
<1>6. FreshInv'
  <2>1. \A u, i, g : Holding(frames', u, i, g) /\ g.op = "lazyRegister" => Holding(frames, u, i, g)
    BY <1>2, <1>3
  <2> QED
    BY <1>1, <2>1 DEF OnceInv, FreshInv
<1>7. CountInv'
  <2>1. \A p \in Providers : bootCount[p] < boots'
    <3> SUFFICES ASSUME NEW p \in Providers PROVE bootCount[p] < boots + 1
      BY <1>1
    <3>1. bootCount[p] <= boots /\ bootCount[p] \in Nat /\ boots \in Nat
      BY <1>1 DEF OnceInv, CountInv, BootShape
    <3> QED
      BY <3>1
  <2>2. \A p \in Providers : bootCount[p] <= boots'
    <3> SUFFICES ASSUME NEW p \in Providers PROVE bootCount[p] <= boots + 1
      BY <1>1
    <3>1. bootCount[p] <= boots /\ bootCount[p] \in Nat /\ boots \in Nat
      BY <1>1 DEF OnceInv, CountInv, BootShape
    <3> QED
      BY <3>1
  <2> QED
    BY <1>1, <2>1, <2>2 DEF CountInv
<1> QED
  BY <1>5, <1>6, <1>7

\* The only loop goes on; what it comes to is booted, unless it registers.
LEMMA CountGoesOn ==
    ASSUME OnceInv, NEW t \in BootTasks, frames[t] # <<>>, IsLoop(Boot!Top(t)),
           NEW frame \in Boot!Frame, IsLoop(frame), Boot!Becomes(t, frame),
           UNCHANGED <<providers, deferred, boots>>,
           \/ UNCHANGED bootCount
           \/ \E j \in DOMAIN providers :
                /\ Boot!Enters(providers[j]) /\ NotYet(Boot!Top(t), providers[j])
                /\ ~ NotYet(frame, providers[j]),
           \A p \in Providers : NotYet(frame, p) => NotYet(Boot!Top(t), p)
    PROVE  (PlacesInv /\ FreshInv /\ CountInv)'
<1> DEFINE n == Len(frames[t])
           g0 == Boot!Top(t)
<1>1. /\ Holding(frames, t, n, g0) /\ BootShape
      /\ \A u, i, g : Holding(frames', u, i, g)
                <=> IF u = t /\ i = n THEN g = frame ELSE Holding(frames, u, i, g)
  BY TopHolds, FrameBecomes DEF OnceInv, OrderInv
<1> HIDE DEF n
<1>2. \A u, i, g : Holding(frames, u, i, g) /\ IsLoop(g) => u = t /\ i = n
  BY <1>1 DEF OnceInv, OrderInv, OneLoop
<1>3. \A u, i, g : Holding(frames', u, i, g) =>
            \/ IsLoop(g) /\ g = frame
            \/ ~ IsLoop(g) /\ Holding(frames, u, i, g)
  BY <1>1, <1>2
<1>4. \A u, i, p : Lazy(frames', u, i, p) => Lazy(frames, u, i, p)
  BY <1>3 DEF Lazy
<1>5. PlacesInv'
  BY <1>4, PlacesStay DEF OnceInv
<1>6. \A p \in Providers : bootCount[p] \in Nat /\ bootCount[p] <= boots
                           /\ (NotYet(g0, p) => bootCount[p] < boots)
  BY <1>1 DEF OnceInv, CountInv, BootShape
<1>7. boots \in Nat /\ \A j \in DOMAIN providers : providers[j] \in Providers
  BY <1>1 DEF BootShape
<1>8. CASE UNCHANGED bootCount
  <2>1. FreshInv'
    <3>1. \A u, i, g : Holding(frames', u, i, g) /\ g.op = "lazyRegister" => Holding(frames, u, i, g)
      BY <1>3 DEF IsLoop
    <3> QED
      BY <1>8, <3>1 DEF OnceInv, FreshInv
  <2>2. CountInv'
    <3>1. \A p : NotYet(frame, p)' <=> NotYet(frame, p)
      BY DEF NotYet
    <3> QED
      BY <1>3, <1>6, <1>8, <3>1 DEF CountInv
  <2> QED
    BY <1>5, <2>1, <2>2
<1>9. CASE ~ UNCHANGED bootCount
  <2>1. PICK j \in DOMAIN providers :
            /\ Boot!Enters(providers[j]) /\ NotYet(g0, providers[j])
            /\ ~ NotYet(frame, providers[j])
    BY <1>9
  <2>2. PICK q \in Providers : q = providers[j]
    BY <1>7
  <2>3. /\ bootCount'[q] = bootCount[q] + 1
        /\ \A p \in Providers \ {q} : bootCount'[p] = bootCount[p]
    BY <1>1, <2>1, <2>2, EntersGrows
  <2>4. FreshInv'
    <3>1. ASSUME NEW k \in ProvidedKeys, deferred[k] # NoProvider PROVE bootCount'[deferred[k]] = 0
      <4>1. deferred[k] # q /\ bootCount[deferred[k]] = 0
        BY <2>2, <3>1 DEF OnceInv, PlacesInv, FreshInv
      <4>2. deferred[k] \in Providers
        BY <1>1, <3>1, BootAssumptions DEF BootShape, Boot!DeferredAssumption
      <4> QED
        BY <2>3, <4>1, <4>2
    <3>2. ASSUME NEW u, NEW i, NEW g, Holding(frames', u, i, g), g.op = "lazyRegister"
          PROVE  bootCount'[g.of] = 0
      <4>1. Holding(frames, u, i, g) /\ ~ IsLoop(g)
        BY <1>3, <3>2 DEF IsLoop
      <4>2. Lazy(frames, u, i, g.of)
        BY <4>1 DEF Lazy
      <4>3. g.of # q /\ bootCount[g.of] = 0
        BY <2>2, <3>2, <4>1, <4>2 DEF OnceInv, PlacesInv, FreshInv
      <4>4. g.of \in Providers
        BY <4>1 DEF OnceInv, OrderInv, FramesAreRight, LazyIsRight
      <4> QED
        BY <2>3, <4>3, <4>4
    <3> QED
      BY <3>1, <3>2 DEF FreshInv
  <2>5. \A p \in Providers : bootCount'[p] <= boots
    <3>1. bootCount[q] < boots /\ bootCount[q] \in Nat
      BY <1>6, <2>1, <2>2
    <3>2. bootCount[q] + 1 <= boots
      BY <1>7, <3>1
    <3> QED
      BY <1>6, <2>3, <3>2
  <2>6. ASSUME NEW p \in Providers, NotYet(frame, p) PROVE bootCount'[p] < boots
    <3>1. p # q
      BY <2>1, <2>2, <2>6
    <3>2. bootCount[p] < boots
      BY <1>6, <2>6
    <3> QED
      BY <2>3, <3>1, <3>2
  <2>7. CountInv'
    <3>1. \A p : NotYet(frame, p)' <=> NotYet(frame, p)
      BY DEF NotYet
    <3> QED
      BY <1>3, <2>5, <2>6, <3>1 DEF CountInv
  <2> QED
    BY <1>5, <2>4, <2>7
<1> QED
  BY <1>8, <1>9

\* Calls in flight leave and nothing else changes.
LEMMA CountLeaves ==
    ASSUME OnceInv, UNCHANGED <<providers, deferred, bootCount, boots>>,
           \A u, i, g : Holding(frames', u, i, g) => Holding(frames, u, i, g)
    PROVE  (PlacesInv /\ FreshInv /\ CountInv)'
<1>1. \A u, i, p : Lazy(frames', u, i, p) => Lazy(frames, u, i, p)
  BY DEF Lazy
<1>2. PlacesInv'
  BY <1>1, PlacesStay DEF OnceInv
<1>3. FreshInv'
  BY DEF OnceInv, FreshInv
<1>4. CountInv'
  BY DEF OnceInv, CountInv, NotYet
<1> QED
  BY <1>2, <1>3, <1>4

LEMMA CountRegistered ==
    ASSUME OnceInv, NEW t \in BootTasks, Boot!RegisteredOne(t)
    PROVE  (PlacesInv /\ FreshInv /\ CountInv)'
<1>0. PICK at \in DOMAIN providers : at = Boot!Top(t).at
  BY LoopRuns DEF Boot!RegisteredOne, OnceInv
<1>1. /\ frames[t] # <<>> /\ IsLoop(Boot!Top(t)) /\ Boot!Top(t).op = "registerAll"
      /\ UNCHANGED <<providers, deferred, boots>>
  BY LoopRuns DEF Boot!RegisteredOne, OnceInv
<1>2. DOMAIN providers = 1..Len(providers) /\ Len(providers) \in Nat
  BY DEF OnceInv, OrderInv, BootShape
<1>3. \A p : NotYet(Boot!Top(t), p)
  BY <1>1 DEF NotYet
<1>4. CASE Boot!LoopEnds(at)
  <2> DEFINE frame == [op |-> "bootAll", at |-> 1]
  <2>1. Boot!Becomes(t, frame) /\ Boot!Enters(providers[1])
    BY <1>0, <1>4 DEF Boot!RegisteredOne
  <2>2. frame \in Boot!Frame /\ IsLoop(frame) /\ frame.op = "bootAll" /\ frame.at = 1
    BY DEF Boot!Frame, IsLoop
  <2> HIDE DEF frame
  <2>3. 1 \in DOMAIN providers /\ 1 <= 1
    BY <1>0, <1>2
  <2>4. ~ NotYet(frame, providers[1])
    BY <2>2, <2>3 DEF NotYet
  <2> QED
    BY <1>1, <1>3, <2>1, <2>2, <2>3, <2>4, CountGoesOn
<1>5. CASE ~ Boot!LoopEnds(at)
  <2> DEFINE frame == [op |-> "registerAll", at |-> at + 1]
  <2>1. Boot!Becomes(t, frame) /\ UNCHANGED bootCount
    BY <1>0, <1>5 DEF Boot!RegisteredOne, Boot!NextIndex
  <2>2. frame \in Boot!Frame /\ IsLoop(frame)
    BY <1>0, <1>2 DEF Boot!Frame, IsLoop
  <2> HIDE DEF frame
  <2> QED
    BY <1>1, <1>3, <2>1, <2>2, CountGoesOn
<1> QED
  BY <1>4, <1>5

LEMMA CountBooted ==
    ASSUME OnceInv, NEW t \in BootTasks, Boot!BootedOne(t)
    PROVE  (PlacesInv /\ FreshInv /\ CountInv)'
<1>0. PICK at \in DOMAIN providers : at = Boot!Top(t).at
  BY LoopRuns DEF Boot!BootedOne, OnceInv
<1>1. /\ frames[t] # <<>> /\ IsLoop(Boot!Top(t)) /\ Boot!Top(t).op = "bootAll"
      /\ UNCHANGED <<providers, deferred, boots>>
  BY LoopRuns DEF Boot!BootedOne, Boot!registry, OnceInv
<1>2. DOMAIN providers = 1..Len(providers) /\ Len(providers) \in Nat /\ BootShape
  BY DEF OnceInv, OrderInv, BootShape
<1>3. CASE Boot!LoopEnds(at)
  <2>1. Boot!Pops(t) /\ UNCHANGED bootCount
    BY <1>0, <1>3 DEF Boot!BootedOne
  <2>2. \A u, i, g : Holding(frames', u, i, g) => Holding(frames, u, i, g)
    BY <1>1, <1>2, <2>1, FramePopped
  <2> QED
    BY <1>1, <2>1, <2>2, CountLeaves
<1>4. CASE ~ Boot!LoopEnds(at)
  <2> DEFINE frame == [op |-> "bootAll", at |-> at + 1]
  <2>1. Boot!Becomes(t, frame) /\ Boot!Enters(providers[at + 1])
    BY <1>0, <1>4 DEF Boot!BootedOne, Boot!NextIndex
  <2>2. frame \in Boot!Frame /\ IsLoop(frame) /\ frame.op = "bootAll" /\ frame.at = at + 1
    BY <1>0, <1>2 DEF Boot!Frame, IsLoop
  <2> HIDE DEF frame
  <2>3. /\ at + 1 \in DOMAIN providers /\ at + 1 <= at + 1
        /\ \A j \in DOMAIN providers : j <= at => j # at + 1 /\ j <= at + 1
    BY <1>0, <1>2, <1>4 DEF Boot!LoopEnds
  <2>4. ~ NotYet(frame, providers[at + 1])
    BY <2>2, <2>3 DEF NotYet
  <2>5. NotYet(Boot!Top(t), providers[at + 1])
    BY <1>0, <2>3 DEF NotYet, OnceInv, PlacesInv
  <2>6. \A p \in Providers : NotYet(frame, p) => NotYet(Boot!Top(t), p)
    BY <1>0, <2>2, <2>3 DEF NotYet
  <2> QED
    BY <1>1, <2>1, <2>2, <2>3, <2>4, <2>5, <2>6, CountGoesOn
<1> QED
  BY <1>3, <1>4

LEMMA CountMake ==
    ASSUME OnceInv, NEW t \in BootTasks, NEW k \in ProvidedKeys, Boot!MakeDeferred(t, k)
    PROVE  (PlacesInv /\ FreshInv /\ CountInv)'
<1>0. PICK p \in Deferred \cup {NoProvider} : p = deferred[k]
  BY DEF OnceInv, OrderInv, BootShape
<1> DEFINE frame == [op |-> "lazyRegister", of |-> p]
           n == Len(frames[t]) + 1
<1>1. /\ p # NoProvider /\ Boot!Pushes(t, frame) /\ BootShape
      /\ deferred' = [deferred EXCEPT ![k] = NoProvider]
      /\ UNCHANGED <<providers, boots, bootCount>>
  BY <1>0 DEF Boot!MakeDeferred, Boot!WithoutDeferred, OnceInv, OrderInv
<1>2. p \in Providers
  BY <1>1, BootAssumptions DEF Boot!DeferredAssumption
<1>3. frame \in Boot!Frame /\ frame.of = p /\ ~ IsLoop(frame)
  BY <1>2 DEF Boot!Frame, IsLoop
<1> HIDE DEF frame
<1>4. \A u, i, g : Holding(frames', u, i, g)
                <=> IF u = t /\ i = n THEN g = frame ELSE Holding(frames, u, i, g)
  BY <1>1, <1>3, FramePushed
<1> HIDE DEF n
<1>5. /\ \A u, i, q : Lazy(frames', u, i, q) => q = p \/ Lazy(frames, u, i, q)
      /\ \A u, i : Lazy(frames', u, i, p) => u = t /\ i = n
  <2>1. \A u, i, q : Lazy(frames', u, i, q) => Lazy(frames, u, i, q) \/ (u = t /\ i = n /\ q = p)
    BY <1>3, <1>4 DEF Lazy
  <2>2. \A u, i : ~ Lazy(frames, u, i, p)
    BY <1>0, <1>1 DEF OnceInv, PlacesInv
  <2> QED
    BY <2>1, <2>2
<1>6. PlacesInv'
  <2>1. PlacesInv /\ BootShape /\ UNCHANGED providers /\ p = deferred[k] /\ p # NoProvider
    BY <1>0, <1>1 DEF OnceInv
  <2>2. \A l \in ProvidedKeys : deferred'[l] = IF l = k THEN NoProvider ELSE deferred[l]
    BY <1>1 DEF BootShape
  <2> QED
    BY <1>5, <2>1, <2>2, PlacesMake
<1>7. bootCount[p] = 0
  BY <1>0, <1>1 DEF OnceInv, FreshInv
<1>8. FreshInv'
  <2>1. \A l \in ProvidedKeys : deferred'[l] # NoProvider => deferred'[l] = deferred[l]
    BY <1>1 DEF BootShape
  <2>2. ASSUME NEW u, NEW i, NEW g, Holding(frames', u, i, g), g.op = "lazyRegister"
        PROVE  bootCount[g.of] = 0
    BY <1>3, <1>4, <1>7, <2>2 DEF OnceInv, FreshInv
  <2> QED
    BY <1>1, <2>1, <2>2 DEF OnceInv, FreshInv
<1>9. CountInv'
  <2>1. \A u, i, g : Holding(frames', u, i, g) /\ IsLoop(g) => Holding(frames, u, i, g)
    BY <1>3, <1>4
  <2> QED
    BY <1>1, <2>1 DEF OnceInv, CountInv, NotYet
<1> QED
  BY <1>6, <1>8, <1>9

\* A call of make() ends, with its provider last in the list.
LEMMA CountLazyEnds ==
    ASSUME OnceInv, NEW t \in BootTasks, frames[t] # <<>>, ~ IsLoop(Boot!Top(t)), Boot!Pops(t),
           NEW p \in Providers, p = Boot!Top(t).of, providers' = Append(providers, p),
           UNCHANGED <<deferred, boots, bootCount>>
    PROVE  (PlacesInv /\ FreshInv /\ CountInv)'
<1> DEFINE n == Len(frames[t])
<1>1. /\ Holding(frames, t, n, Boot!Top(t)) /\ BootShape
      /\ \A u, i, g : Holding(frames', u, i, g)
                <=> Holding(frames, u, i, g) /\ ~ (u = t /\ i = n)
  BY TopHolds, FramePopped DEF OnceInv, OrderInv
<1> HIDE DEF n
<1>2. Lazy(frames, t, n, p)
  BY <1>1 DEF Lazy
<1>3. \A u, i, q : Lazy(frames', u, i, q) => Lazy(frames, u, i, q) /\ ~ (u = t /\ i = n)
  BY <1>1 DEF Lazy
<1>4. PlacesInv'
  BY <1>1, <1>2, <1>3, PlacesAppend DEF OnceInv
<1>5. FreshInv'
  BY <1>1 DEF OnceInv, FreshInv
<1>6. \A j \in DOMAIN providers : j \in DOMAIN providers' /\ providers'[j] = providers[j]
  BY <1>1, Appended
<1>7. \A g, q : NotYet(g, q)' => NotYet(g, q)
  BY <1>6 DEF NotYet
<1>8. CountInv'
  BY <1>1, <1>7 DEF OnceInv, CountInv
<1> QED
  BY <1>4, <1>5, <1>8

LEMMA CountLazy ==
    ASSUME OnceInv, NEW t \in BootTasks, Boot!LazyRegistered(t) \/ Boot!LazyBooted(t)
    PROVE  (PlacesInv /\ FreshInv /\ CountInv)'
<1>1. CASE Boot!LazyBooted(t)
  <2>1. PICK p \in Providers : p = Boot!Awaited(t) /\ frames[t] # <<>> /\ p = Boot!Top(t).of
                               /\ ~ IsLoop(Boot!Top(t))
    BY <1>1, LazyRuns DEF Boot!LazyBooted, OnceInv
  <2>2. /\ providers' = Append(providers, p) /\ Boot!Pops(t)
        /\ UNCHANGED <<deferred, boots, bootCount>>
    BY <1>1, <2>1 DEF Boot!LazyBooted
  <2> QED
    BY <2>1, <2>2, CountLazyEnds
<1>2. CASE Boot!LazyRegistered(t)
  <2>1. PICK p \in Providers : /\ p = Boot!Awaited(t) /\ frames[t] # <<>> /\ p = Boot!Top(t).of
                               /\ ~ IsLoop(Boot!Top(t)) /\ Boot!Top(t).op = "lazyRegister"
                               /\ Holding(frames, t, Len(frames[t]), Boot!Top(t))
    BY <1>2, LazyRuns DEF Boot!LazyRegistered, OnceInv
  <2>2. UNCHANGED <<deferred, booted, boots>>
    BY <1>2 DEF Boot!LazyRegistered
  <2>3. CASE ~ booted
    <3>1. Boot!Pops(t) /\ providers' = Append(providers, p) /\ UNCHANGED bootCount
      BY <1>2, <2>1, <2>3 DEF Boot!LazyRegistered, Boot!BootsLazily
    <3> QED
      BY <2>1, <2>2, <3>1, CountLazyEnds
  <2>4. CASE booted
    <3> DEFINE frame == [op |-> "lazyBoot", of |-> p]
               n == Len(frames[t])
    <3>1. Boot!Becomes(t, frame) /\ Boot!Enters(p) /\ UNCHANGED providers /\ BootShape
      BY <1>2, <2>1, <2>4 DEF Boot!LazyRegistered, Boot!BootsLazily, OnceInv, OrderInv
    <3>2. /\ frame \in Boot!Frame /\ frame.op = "lazyBoot" /\ frame.op # "lazyRegister"
          /\ frame.of = p /\ ~ IsLoop(frame)
      BY DEF Boot!Frame, IsLoop
    <3> HIDE DEF frame
    <3>3. \A u, i, g : Holding(frames', u, i, g)
                <=> IF u = t /\ i = n THEN g = frame ELSE Holding(frames, u, i, g)
      BY <2>1, <3>1, <3>2, FrameBecomes
    <3>4. Lazy(frames, t, n, p)
      BY <2>1 DEF Lazy
    <3>5. bootCount[p] = 0
      BY <2>1 DEF OnceInv, FreshInv
    <3> HIDE DEF n
    <3>6. /\ bootCount'[p] = bootCount[p] + 1
          /\ \A q \in Providers \ {p} : bootCount'[q] = bootCount[q]
      BY <3>1, EntersGrows
    <3>7. PlacesInv'
      <4>1. \A u, i, q : Lazy(frames', u, i, q) => Lazy(frames, u, i, q)
        BY <3>2, <3>3, <3>4 DEF Lazy
      <4> QED
        BY <2>2, <3>1, <4>1, PlacesStay DEF OnceInv
    <3>8. FreshInv'
      <4>1. ASSUME NEW k \in ProvidedKeys, deferred[k] # NoProvider PROVE bootCount'[deferred[k]] = 0
        <5>1. deferred[k] # p /\ bootCount[deferred[k]] = 0
          BY <3>4, <4>1 DEF OnceInv, PlacesInv, FreshInv
        <5>2. deferred[k] \in Providers
          BY <3>1, <4>1, BootAssumptions DEF BootShape, Boot!DeferredAssumption
        <5> QED
          BY <3>6, <5>1, <5>2
      <4>2. ASSUME NEW u, NEW i, NEW g, Holding(frames', u, i, g), g.op = "lazyRegister"
            PROVE  bootCount'[g.of] = 0
        <5>1. Holding(frames, u, i, g) /\ ~ IsLoop(g) /\ ~ (u = t /\ i = n)
          BY <3>2, <3>3, <4>2 DEF IsLoop
        <5>2. Lazy(frames, u, i, g.of)
          BY <5>1 DEF Lazy
        <5>3. g.of # p /\ bootCount[g.of] = 0
          BY <3>4, <4>2, <5>1, <5>2 DEF OnceInv, PlacesInv, FreshInv
        <5>4. g.of \in Providers
          BY <5>1 DEF OnceInv, OrderInv, FramesAreRight, LazyIsRight
        <5> QED
          BY <3>6, <5>3, <5>4
      <4> QED
        BY <2>2, <4>1, <4>2 DEF FreshInv
    <3>9. CountInv'
      <4>1. boots > 0 /\ boots \in Nat
        BY <2>4 DEF OnceInv, OrderInv, BootedIsRight, BootShape
      <4>2. \A q \in Providers : bootCount'[q] <= boots
        <5> SUFFICES ASSUME NEW q \in Providers PROVE bootCount'[q] <= boots
          OBVIOUS
        <5>1. CASE q = p
          BY <3>5, <3>6, <4>1, <5>1
        <5>2. CASE q # p
          BY <3>6, <5>2 DEF OnceInv, CountInv
        <5> QED
          BY <5>1, <5>2
      <4>3. \A u, i, g : Holding(frames', u, i, g) => ~ IsLoop(g)
        BY <2>4, <3>2, <3>3 DEF OnceInv, OrderInv, FramesAreRight
      <4> QED
        BY <2>2, <4>2, <4>3 DEF CountInv
    <3> QED
      BY <3>7, <3>8, <3>9
  <2> QED
    BY <2>3, <2>4
<1> QED
  BY <1>1, <1>2

\* No deferred provider is filed under two keys.
OneKeyEach == \A p \in Deferred : \A k, l \in Provides[p] : k = l

LEMMA OnceBegins == OneKeyEach /\ Boot!Init => OnceInv
<1> SUFFICES ASSUME OneKeyEach, Boot!Init PROVE OnceInv
  OBVIOUS
<1>1. OrderInv
  BY OrderBegins
<1>2. \A i, j \in DOMAIN providers : providers[i] = providers[j] => i = j
  BY DEF Boot!Init, Boot!SetToSeqs
<1>3. \A j \in DOMAIN providers : providers[j] \notin Deferred
  BY DEF Boot!Init, Boot!SetToSeqs
<1>4. /\ \A t \in BootTasks : frames[t] = <<>>
      /\ boots = 0 /\ \A p \in Providers : bootCount[p] = 0
  BY DEF Boot!Init
<1>5. \A t, i, g : ~ Holding(frames, t, i, g)
  BY <1>4 DEF Holding
<1>6. \A k \in ProvidedKeys : deferred[k] # NoProvider =>
          deferred[k] \in Deferred /\ deferred[k] \in Providers /\ k \in Provides[deferred[k]]
  BY BootAssumptions DEF Boot!Init, Boot!DeferredAssumption
<1>7. PlacesInv
  BY <1>2, <1>3, <1>5, <1>6 DEF PlacesInv, Lazy, OneKeyEach
<1>8. FreshInv
  BY <1>4, <1>5, <1>6 DEF FreshInv
<1>9. CountInv
  BY <1>4, <1>5 DEF CountInv
<1> QED
  BY <1>1, <1>7, <1>8, <1>9 DEF OnceInv

LEMMA OnceStep == OnceInv /\ [Boot!Next]_appVars => OnceInv'
<1> SUFFICES ASSUME OnceInv, [Boot!Next]_appVars PROVE OnceInv'
  OBVIOUS
<1>1. OrderInv'
  BY OrderStep DEF OnceInv
<1>2. CASE UNCHANGED appVars
  <2>1. UNCHANGED <<providers, deferred, frames, boots, bootCount>>
    BY <1>2 DEF appVars
  <2> QED
    BY <1>1, <2>1, CountLeaves DEF OnceInv
<1>3. ASSUME NEW t \in BootTasks, Boot!Fails(t) PROVE OnceInv'
  <2>1. UNCHANGED <<providers, deferred, boots, bootCount>> /\ frames' = [frames EXCEPT ![t] = <<>>]
    BY <1>3 DEF Boot!Fails, Boot!registry
  <2>2. \A u, i, g : Holding(frames', u, i, g) => Holding(frames, u, i, g)
    BY <2>1, FramesFail DEF OnceInv, OrderInv
  <2> QED
    BY <1>1, <2>1, <2>2, CountLeaves DEF OnceInv
<1>4. ASSUME Boot!Shutdown PROVE OnceInv'
  <2>1. UNCHANGED <<providers, deferred, frames, boots, bootCount>>
    BY <1>4 DEF Boot!Shutdown, Boot!registry
  <2> QED
    BY <1>1, <2>1, CountLeaves DEF OnceInv
<1>5. CASE Boot!Next
  BY <1>1, <1>3, <1>4, <1>5, CountBoot, CountRegistered, CountBooted, CountLazy, CountMake
  DEF Boot!Next, Boot!ProviderReturns, OnceInv
<1> QED
  BY <1>2, <1>5

LEMMA OnceFollows == OnceInv => Boot!BootsOnce
BY DEF OnceInv, CountInv, Boot!BootsOnce

-----------------------------------------------------------------------------
(* The buffered log channel.  A message is in the buffer until a thread     *)
(* that holds the lock has copied and cleared it, then in that thread's     *)
(* batch, and then delivered or lost.                                       *)

Batched(t) == IF pc[t] = "deliver" THEN Range(batch[t]) ELSE {}

\* Who holds the lock, and what it has copied.
LockInv ==
    /\ DOMAIN pc = Filling!Threads /\ DOMAIN batch = Filling!Threads
    /\ \A t \in Filling!Threads : pc[t] \in {"append", "copy", "clear"} => lock = t
    /\ \A t \in Filling!Threads : pc[t] = "clear" => batch[t] = buffer

\* Where the messages are.
PlaceInv ==
    /\ appended \in Nat /\ buffer \in Seq(Nat) /\ delivered \in Seq(Nat)
    /\ \A t \in Filling!Threads : batch[t] \in Seq(Nat)
    /\ Range(buffer) \cup Range(delivered) \cup lost \subseteq 1 .. appended
    /\ \A t \in Filling!Threads : Batched(t) \subseteq 1 .. appended
    /\ IsInjective(buffer) /\ IsInjective(delivered)
    /\ \A t \in Filling!Threads : pc[t] = "deliver" => IsInjective(batch[t])
    /\ \A m \in 1 .. appended :
        \/ m \in Range(buffer) \/ m \in Range(delivered) \/ m \in lost
        \/ \E t \in Filling!Threads : m \in Batched(t)
    /\ Range(buffer) \cap Range(delivered) = {} /\ Range(buffer) \cap lost = {}
    /\ Range(delivered) \cap lost = {}
    /\ \A t \in Filling!Threads :
        /\ Batched(t) \cap Range(buffer) = {} /\ Batched(t) \cap Range(delivered) = {}
        /\ Batched(t) \cap lost = {}
        /\ \A u \in Filling!Threads : u # t => Batched(t) \cap Batched(u) = {}

BufferInv == LockInv /\ PlaceInv

\* Appending a message that is not there.
LEMMA RangeAppends ==
    ASSUME NEW S, NEW s \in Seq(S), NEW x \in S
    PROVE  /\ Range(Append(s, x)) = Range(s) \cup {x}
           /\ IsInjective(s) /\ x \notin Range(s) => IsInjective(Append(s, x))
<1>1. /\ DOMAIN Append(s, x) = DOMAIN s \cup {Len(s) + 1} /\ Len(s) + 1 \notin DOMAIN s
      /\ Append(s, x)[Len(s) + 1] = x /\ \A i \in DOMAIN s : Append(s, x)[i] = s[i]
  BY AppendAdds
<1> QED
  BY <1>1 DEF Range, IsInjective

\* One sequence after another.
LEMMA Concats ==
    ASSUME NEW S, NEW s \in Seq(S), NEW z \in Seq(S)
    PROVE  /\ s \o z \in Seq(S)
           /\ DOMAIN s = 1 .. Len(s) /\ DOMAIN z = 1 .. Len(z) /\ Len(s) \in Nat /\ Len(z) \in Nat
           /\ DOMAIN (s \o z) = 1 .. Len(s) + Len(z)
           /\ \A i \in DOMAIN s : (s \o z)[i] = s[i]
           /\ \A i \in DOMAIN z : (s \o z)[Len(s) + i] = z[i]
           /\ \A i \in DOMAIN (s \o z) : i \notin DOMAIN s =>
                i - Len(s) \in DOMAIN z /\ (s \o z)[i] = z[i - Len(s)]
<1>1. /\ DOMAIN s = 1 .. Len(s) /\ DOMAIN z = 1 .. Len(z) /\ Len(s) \in Nat /\ Len(z) \in Nat
      /\ s \o z \in Seq(S) /\ Len(s \o z) = Len(s) + Len(z)
  OBVIOUS
<1>2. DOMAIN (s \o z) = 1 .. Len(s) + Len(z)
  BY <1>1
<1>3. ASSUME NEW i \in DOMAIN s PROVE (s \o z)[i] = s[i]
  BY <1>1
<1>4. ASSUME NEW i \in DOMAIN z PROVE (s \o z)[Len(s) + i] = z[i]
  BY <1>1
<1>5. ASSUME NEW i \in DOMAIN (s \o z), i \notin DOMAIN s
      PROVE  i - Len(s) \in DOMAIN z /\ (s \o z)[i] = z[i - Len(s)]
  <2>1. i - Len(s) \in DOMAIN z /\ Len(s) + (i - Len(s)) = i
    BY <1>1, <1>2, <1>5
  <2> QED
    BY <1>4, <2>1
<1> QED
  BY <1>1, <1>2, <1>3, <1>4, <1>5

LEMMA RangeConcats ==
    ASSUME NEW S, NEW s \in Seq(S), NEW z \in Seq(S)
    PROVE  /\ Range(s \o z) = Range(s) \cup Range(z)
           /\ IsInjective(s) /\ IsInjective(z) /\ Range(s) \cap Range(z) = {} => IsInjective(s \o z)
<1> DEFINE r == s \o z
           L == Len(s)
<1>1. /\ DOMAIN s = 1 .. L /\ DOMAIN z = 1 .. Len(z) /\ L \in Nat /\ Len(z) \in Nat
      /\ DOMAIN r = 1 .. L + Len(z)
      /\ \A i \in DOMAIN s : r[i] = s[i]
      /\ \A i \in DOMAIN z : r[L + i] = z[i]
      /\ \A i \in DOMAIN r : i \notin DOMAIN s => i - L \in DOMAIN z /\ r[i] = z[i - L]
  BY Concats
<1> HIDE DEF r, L
<1>2. Range(r) \subseteq Range(s) \cup Range(z)
  BY <1>1 DEF Range
<1>3. Range(s) \subseteq Range(r)
  BY <1>1 DEF Range
<1>4. Range(z) \subseteq Range(r)
  <2> SUFFICES ASSUME NEW i \in DOMAIN z PROVE z[i] \in Range(r)
    BY DEF Range
  <2>1. L + i \in DOMAIN r /\ r[L + i] = z[i]
    BY <1>1
  <2> QED
    BY <2>1 DEF Range
<1>5. ASSUME IsInjective(s), IsInjective(z), Range(s) \cap Range(z) = {} PROVE IsInjective(r)
  <2> SUFFICES ASSUME NEW i \in DOMAIN r, NEW j \in DOMAIN r, r[i] = r[j] PROVE i = j
    BY DEF IsInjective
  <2>1. CASE i \in DOMAIN s /\ j \in DOMAIN s
    BY <1>1, <1>5, <2>1 DEF IsInjective
  <2>2. CASE i \notin DOMAIN s /\ j \notin DOMAIN s
    <3>1. i - L = j - L
      BY <1>1, <1>5, <2>2 DEF IsInjective
    <3> QED
      BY <1>1, <3>1
  <2>3. \A a \in DOMAIN r, b \in DOMAIN r : a \in DOMAIN s /\ b \notin DOMAIN s => r[a] # r[b]
    BY <1>1, <1>5 DEF Range
  <2> QED
    BY <2>1, <2>2, <2>3
<1> QED
  BY <1>2, <1>3, <1>4, <1>5 DEF r

\* A step that moves no message.
LEMMA PlacesKept ==
    ASSUME PlaceInv, UNCHANGED <<buffer, appended, delivered, lost>>,
           \A t \in Filling!Threads :
               /\ pc'[t] = "deliver" <=> pc[t] = "deliver"
               /\ batch'[t] \in Seq(Nat)
               /\ pc[t] = "deliver" => batch'[t] = batch[t]
    PROVE  PlaceInv'
<1>1. \A t \in Filling!Threads : Batched(t)' = Batched(t)
  BY DEF Batched
<1>2. \A t \in Filling!Threads : pc'[t] = "deliver" => IsInjective(batch'[t])
  BY DEF PlaceInv
<1> QED
  BY <1>1, <1>2 DEF PlaceInv

\* The message that is appended is new.
LEMMA AppendPlaces ==
    ASSUME BufferInv, NEW t \in Loggers, Filling!CollectAppend(t)
    PROVE  PlaceInv'
<1>1. /\ buffer' = Append(buffer, appended + 1) /\ appended' = appended + 1
      /\ UNCHANGED <<batch, delivered, lost>> /\ appended \in Nat
      /\ \A u \in Filling!Threads : pc'[u] = "deliver" <=> pc[u] = "deliver"
  BY DEF Filling!CollectAppend, Filling!Goes, BufferInv, LockInv, PlaceInv, Filling!Threads
<1>2. \A u \in Filling!Threads : Batched(u)' = Batched(u)
  BY <1>1 DEF Batched
<1>3. /\ buffer' \in Seq(Nat) /\ Range(buffer') = Range(buffer) \cup {appended + 1}
      /\ IsInjective(buffer')
  <2>1. appended + 1 \notin Range(buffer)
    BY <1>1 DEF BufferInv, PlaceInv
  <2> QED
    BY <1>1, <2>1, RangeAppends, AppendAdds DEF BufferInv, PlaceInv
<1>4. 1 .. appended' = 1 .. appended \cup {appended + 1} /\ appended' \in Nat
      /\ appended + 1 \notin 1 .. appended
  BY <1>1
<1>5. \A u \in Filling!Threads : pc'[u] = "deliver" => IsInjective(batch'[u])
  BY <1>1 DEF BufferInv, PlaceInv
<1>6. PlaceInv
  BY DEF BufferInv
<1>7. /\ Range(delivered) \cup lost \subseteq 1 .. appended
      /\ \A u \in Filling!Threads : Batched(u) \subseteq 1 .. appended
  BY <1>6 DEF PlaceInv
<1>8. \A m \in 1 .. appended' :
        \/ m \in Range(buffer') \/ m \in Range(delivered) \/ m \in lost
        \/ \E u \in Filling!Threads : m \in Batched(u)
  BY <1>3, <1>4, <1>6 DEF PlaceInv
<1>9. /\ Range(buffer') \cap Range(delivered) = {} /\ Range(buffer') \cap lost = {}
      /\ \A u \in Filling!Threads : Batched(u) \cap Range(buffer') = {}
  BY <1>3, <1>4, <1>6, <1>7 DEF PlaceInv
<1>10. Range(buffer') \cup Range(delivered) \cup lost \subseteq 1 .. appended'
  BY <1>3, <1>4, <1>6 DEF PlaceInv
<1>11. \A u \in Filling!Threads : Batched(u) \subseteq 1 .. appended'
  BY <1>4, <1>7
<1> QED
  BY <1>1, <1>2, <1>3, <1>4, <1>5, <1>6, <1>8, <1>9, <1>10, <1>11 DEF PlaceInv

\* What is cut off the buffer is in the batch of the thread that holds the lock.
LEMMA ClearPlaces ==
    ASSUME BufferInv, NEW t \in Filling!Threads, Filling!FlushClear(t)
    PROVE  PlaceInv'
<1>1. /\ buffer' = <<>> /\ UNCHANGED <<batch, appended, delivered, lost>>
      /\ pc[t] = "clear" /\ pc'[t] = "deliver" /\ batch[t] = buffer
      /\ \A u \in Filling!Threads : u # t => pc'[u] = pc[u]
  BY DEF Filling!FlushClear, Filling!Goes, Filling!Cleared, BufferInv, LockInv
<1>2. Range(buffer') = {} /\ IsInjective(buffer') /\ buffer' \in Seq(Nat)
  BY <1>1 DEF Range, IsInjective
<1>3. Batched(t)' = Range(buffer) /\ Batched(t) = {}
  BY <1>1 DEF Batched
<1>4. \A u \in Filling!Threads : u # t => Batched(u)' = Batched(u)
  BY <1>1 DEF Batched
<1>5. \A u \in Filling!Threads : pc'[u] = "deliver" => IsInjective(batch'[u])
  BY <1>1 DEF BufferInv, PlaceInv
<1>6. \A m \in 1 .. appended :
        \/ m \in Range(delivered) \/ m \in lost
        \/ \E u \in Filling!Threads : m \in Batched(u)'
  BY <1>3, <1>4 DEF BufferInv, PlaceInv
<1>7. \A u \in Filling!Threads :
        /\ Batched(u)' \subseteq 1 .. appended
        /\ Batched(u)' \cap Range(delivered) = {} /\ Batched(u)' \cap lost = {}
        /\ \A v \in Filling!Threads : v # u => Batched(u)' \cap Batched(v)' = {}
  <2> SUFFICES ASSUME NEW u \in Filling!Threads
               PROVE  /\ Batched(u)' \subseteq 1 .. appended
                      /\ Batched(u)' \cap Range(delivered) = {} /\ Batched(u)' \cap lost = {}
                      /\ \A v \in Filling!Threads : v # u => Batched(u)' \cap Batched(v)' = {}
    OBVIOUS
  <2>1. CASE u = t
    <3>1. \A v \in Filling!Threads : v # u => Range(buffer) \cap Batched(v)' = {}
      BY <1>4, <2>1 DEF BufferInv, PlaceInv
    <3> QED
      BY <1>3, <2>1, <3>1 DEF BufferInv, PlaceInv
  <2>2. CASE u # t
    <3>1. Batched(u)' = Batched(u) /\ Batched(u) \cap Range(buffer) = {}
      BY <1>4, <2>2 DEF BufferInv, PlaceInv
    <3>2. \A v \in Filling!Threads : v # u => Batched(u) \cap Batched(v)' = {}
      BY <1>3, <1>4, <3>1 DEF BufferInv, PlaceInv
    <3> QED
      BY <3>1, <3>2 DEF BufferInv, PlaceInv
  <2> QED
    BY <2>1, <2>2
<1>8. PlaceInv
  BY DEF BufferInv
<1> QED
  BY <1>1, <1>2, <1>5, <1>6, <1>7, <1>8 DEF PlaceInv

\* A batch is delivered, or lost, by the thread that has it.
LEMMA DeliverPlaces ==
    ASSUME BufferInv, NEW t \in Filling!Threads, Filling!Deliver(t) \/ Filling!DeliverFails(t)
    PROVE  PlaceInv'
<1>1. /\ UNCHANGED <<buffer, appended>> /\ pc[t] = "deliver" /\ pc'[t] # "deliver"
      /\ batch'[t] = <<>>
      /\ \A u \in Filling!Threads : u # t => pc'[u] = pc[u] /\ batch'[u] = batch[u]
      /\ \/ delivered' = delivered \o batch[t] /\ lost' = lost
         \/ delivered' = delivered /\ lost' = lost \cup Filling!Range(batch[t])
  BY DEF Filling!Deliver, Filling!DeliverFails, Filling!Goes, BufferInv, LockInv
<1>2. Batched(t) = Range(batch[t]) /\ Filling!Range(batch[t]) = Range(batch[t])
  BY <1>1 DEF Batched, Range, Filling!Range
<1>3. Batched(t)' = {} /\ \A u \in Filling!Threads : u # t => Batched(u)' = Batched(u)
  BY <1>1 DEF Batched
<1>4. PlaceInv /\ batch[t] \in Seq(Nat) /\ delivered \in Seq(Nat) /\ IsInjective(batch[t])
      /\ IsInjective(delivered)
  BY <1>1 DEF BufferInv, PlaceInv
<1>5. /\ delivered' \in Seq(Nat) /\ IsInjective(delivered')
      /\ \/ Range(delivered') = Range(delivered) \cup Batched(t) /\ lost' = lost
         \/ Range(delivered') = Range(delivered) /\ lost' = lost \cup Batched(t)
  <2>1. Range(delivered) \cap Range(batch[t]) = {}
    BY <1>2, <1>4 DEF PlaceInv
  <2>2. CASE delivered' = delivered \o batch[t] /\ lost' = lost
    BY <1>2, <1>4, <2>1, <2>2, Concats, RangeConcats
  <2>3. CASE delivered' = delivered /\ lost' = lost \cup Filling!Range(batch[t])
    BY <1>2, <1>4, <2>3
  <2> QED
    BY <1>1, <2>2, <2>3
<1>6. \A u \in Filling!Threads :
        batch'[u] \in Seq(Nat) /\ (pc'[u] = "deliver" => IsInjective(batch'[u]))
  <2>1. \A u \in Filling!Threads : u # t =>
          batch'[u] \in Seq(Nat) /\ (pc'[u] = "deliver" => IsInjective(batch'[u]))
    BY <1>1, <1>4 DEF PlaceInv
  <2>2. batch'[t] \in Seq(Nat) /\ pc'[t] # "deliver"
    BY <1>1
  <2> QED
    BY <2>1, <2>2
<1>7. Batched(t) \subseteq 1 .. appended
  BY <1>4 DEF PlaceInv
<1>8. \A m \in 1 .. appended :
        \/ m \in Range(buffer) \/ m \in Range(delivered') \/ m \in lost'
        \/ \E u \in Filling!Threads : m \in Batched(u)'
  <2> SUFFICES ASSUME NEW m \in 1 .. appended,
                      m \notin Range(buffer), m \notin Range(delivered'), m \notin lost'
               PROVE  \E u \in Filling!Threads : m \in Batched(u)'
    OBVIOUS
  <2>1. PICK u \in Filling!Threads : m \in Batched(u)
    BY <1>4, <1>5 DEF PlaceInv
  <2>2. u # t
    BY <1>5, <2>1
  <2> QED
    BY <1>3, <2>1, <2>2
<1>9. /\ Range(buffer) \cap Range(delivered') = {} /\ Range(buffer) \cap lost' = {}
      /\ Range(delivered') \cap lost' = {}
      /\ Range(delivered') \cup lost' \subseteq 1 .. appended
  BY <1>4, <1>5 DEF PlaceInv
<1>10. \A u \in Filling!Threads :
        /\ Batched(u)' \subseteq 1 .. appended
        /\ Batched(u)' \cap Range(buffer) = {}
        /\ Batched(u)' \cap Range(delivered') = {} /\ Batched(u)' \cap lost' = {}
        /\ \A v \in Filling!Threads : v # u => Batched(u)' \cap Batched(v)' = {}
  <2> SUFFICES ASSUME NEW u \in Filling!Threads, u # t
               PROVE  /\ Batched(u) \subseteq 1 .. appended
                      /\ Batched(u) \cap Range(buffer) = {}
                      /\ Batched(u) \cap Range(delivered') = {} /\ Batched(u) \cap lost' = {}
                      /\ \A v \in Filling!Threads : v # u => Batched(u) \cap Batched(v)' = {}
    BY <1>3
  <2>1. Batched(u) \cap Batched(t) = {}
    BY <1>4 DEF PlaceInv
  <2>2. \A v \in Filling!Threads : Batched(v)' \subseteq Batched(v)
    BY <1>3
  <2> QED
    BY <1>4, <1>5, <2>1, <2>2 DEF PlaceInv
<1> QED
  BY <1>1, <1>4, <1>5, <1>6, <1>8, <1>9, <1>10 DEF PlaceInv

\* The lock, step by step.
LEMMA LockSteps == ASSUME LockInv, Filling!Next PROVE LockInv'
<1>1. PICK t \in Filling!Threads :
        \/ Filling!EnterSink(t) \/ Filling!Collects(t) \/ Filling!StartFlush(t) \/ Filling!Flushes(t)
  BY DEF Filling!Next, Filling!Threads
<1>2. CASE Filling!EnterSink(t) \/ Filling!StartFlush(t)
  <2>1. /\ pc[t] = "idle" /\ pc'[t] \in {"collect", "flush"} /\ UNCHANGED <<lock, buffer, batch>>
        /\ \A u \in Filling!Threads : u # t => pc'[u] = pc[u]
        /\ DOMAIN pc' = Filling!Threads
    BY <1>2 DEF LockInv, Filling!EnterSink, Filling!StartFlush, Filling!Goes
  <2>2. \A u \in Filling!Threads :
          /\ pc'[u] \in {"append", "copy", "clear"} => pc'[u] = pc[u]
          /\ pc'[u] = "clear" => pc'[u] = pc[u]
    BY <2>1
  <2> QED
    BY <2>1, <2>2 DEF LockInv
<1>3. CASE Filling!CollectLock(t) \/ Filling!FlushLock(t)
  <2>1. /\ lock = NoThread /\ lock' = t /\ UNCHANGED <<buffer, batch>>
        /\ pc'[t] \in {"append", "copy"} /\ \A u \in Filling!Threads : u # t => pc'[u] = pc[u]
        /\ DOMAIN pc' = Filling!Threads
    BY <1>3 DEF LockInv, Filling!CollectLock, Filling!FlushLock, Filling!Goes
  <2>2. \A u \in Filling!Threads : pc[u] \notin {"append", "copy", "clear"}
    BY <2>1, RuntimeAssumptions DEF LockInv, RuntimeAssumptions, Filling!ThreadsAssumption
  <2> QED
    BY <2>1, <2>2 DEF LockInv
<1>4. CASE Filling!CollectAppend(t)
  <2>1. /\ pc[t] = "append" /\ pc'[t] \in {"flush", "idle"} /\ batch' = batch
        /\ \A u \in Filling!Threads : u # t => pc'[u] = pc[u]
        /\ DOMAIN pc' = Filling!Threads /\ lock = t
    BY <1>4 DEF LockInv, Filling!CollectAppend, Filling!Goes
  <2>2. \A u \in Filling!Threads : u # t => pc[u] \notin {"append", "copy", "clear"}
    BY <2>1 DEF LockInv
  <2> QED
    BY <2>1, <2>2 DEF LockInv
<1>5. CASE Filling!FlushNothing(t) \/ Filling!FlushClear(t)
  <2>1. /\ pc[t] \in {"copy", "clear"} /\ pc'[t] \in {"idle", "deliver"} /\ batch' = batch
        /\ \A u \in Filling!Threads : u # t => pc'[u] = pc[u]
        /\ DOMAIN pc' = Filling!Threads /\ lock = t
    BY <1>5 DEF LockInv, Filling!FlushNothing, Filling!FlushClear, Filling!Goes
  <2>2. \A u \in Filling!Threads : u # t => pc[u] \notin {"append", "copy", "clear"}
    BY <2>1 DEF LockInv
  <2> QED
    BY <2>1, <2>2 DEF LockInv
<1>6. CASE Filling!FlushCopy(t)
  BY <1>6 DEF LockInv, Filling!FlushCopy, Filling!Goes
<1>7. CASE Filling!Deliver(t) \/ Filling!DeliverFails(t)
  <2>1. /\ pc'[t] = "idle" /\ UNCHANGED <<buffer, lock>>
        /\ \A u \in Filling!Threads : u # t => pc'[u] = pc[u] /\ batch'[u] = batch[u]
        /\ DOMAIN pc' = Filling!Threads /\ DOMAIN batch' = Filling!Threads
    BY <1>7 DEF LockInv, Filling!Deliver, Filling!DeliverFails, Filling!Goes
  <2> QED
    BY <2>1 DEF LockInv
<1> QED
  BY <1>1, <1>2, <1>3, <1>4, <1>5, <1>6, <1>7 DEF Filling!Collects, Filling!Flushes

LEMMA BufferBegins == Filling!Init => BufferInv
<1> SUFFICES ASSUME Filling!Init PROVE BufferInv
  OBVIOUS
<1>1. LockInv
  BY DEF Filling!Init, LockInv
<1>2. Range(<<>>) = {} /\ IsInjective(<<>>) /\ <<>> \in Seq(Nat)
  BY DEF Range, IsInjective
<1>3. \A t \in Filling!Threads : Batched(t) = {} /\ pc[t] # "deliver"
  BY DEF Batched, Filling!Init
<1>4. PlaceInv
  BY <1>2, <1>3 DEF Filling!Init, PlaceInv
<1> QED
  BY <1>1, <1>4 DEF BufferInv

\* The steps of the channel keep every message in its place.
LEMMA BufferStep == BufferInv /\ [Filling!Next]_logVars => BufferInv'
<1> SUFFICES ASSUME BufferInv, [Filling!Next]_logVars PROVE BufferInv'
  OBVIOUS
<1>0. LockInv /\ PlaceInv
  BY DEF BufferInv
<1>1. CASE UNCHANGED logVars
  <2>1. LockInv'
    BY <1>0, <1>1 DEF LockInv, logVars
  <2>2. PlaceInv'
    BY <1>0, <1>1, PlacesKept DEF logVars, PlaceInv
  <2> QED
    BY <2>1, <2>2 DEF BufferInv
<1>2. CASE Filling!Next
  <2>1. LockInv'
    BY <1>0, <1>2, LockSteps
  <2>2. ASSUME NEW t \in Filling!Threads,
               \/ Filling!EnterSink(t) \/ Filling!CollectLock(t) \/ Filling!StartFlush(t)
               \/ Filling!FlushLock(t) \/ Filling!FlushNothing(t) \/ Filling!FlushCopy(t)
        PROVE  PlaceInv'
    <3>1. /\ UNCHANGED <<buffer, appended, delivered, lost>>
          /\ pc[t] # "deliver" /\ pc'[t] # "deliver"
          /\ \A u \in Filling!Threads : u # t => pc'[u] = pc[u] /\ batch'[u] = batch[u]
          /\ batch'[t] = batch[t] \/ batch'[t] = buffer
      BY <1>0, <2>2 DEF LockInv, Filling!EnterSink, Filling!CollectLock, Filling!StartFlush,
           Filling!FlushLock, Filling!FlushNothing, Filling!FlushCopy, Filling!Goes
    <3>2. \A u \in Filling!Threads :
               /\ pc'[u] = "deliver" <=> pc[u] = "deliver"
               /\ batch'[u] \in Seq(Nat)
               /\ pc[u] = "deliver" => batch'[u] = batch[u]
      BY <1>0, <3>1 DEF PlaceInv
    <3> QED
      BY <1>0, <3>1, <3>2, PlacesKept
  <2>3. PlaceInv'
    BY <1>2, <2>2, AppendPlaces, ClearPlaces, DeliverPlaces
       DEF Filling!Next, Filling!Collects, Filling!Flushes, Filling!Threads
  <2> QED
    BY <2>1, <2>3 DEF BufferInv
<1> QED
  BY <1>1, <1>2

\* What has a place has one.
LEMMA PlacesFollow == BufferInv => Filling!EachMessageInOnePlace
<1> SUFFICES ASSUME PlaceInv PROVE Filling!EachMessageInOnePlace
  BY DEF BufferInv
<1>1. \A s : Filling!Range(s) = Range(s) /\ Filling!IsInjective(s) = IsInjective(s)
  BY DEF Range, Filling!Range, IsInjective, Filling!IsInjective
<1>2. ASSUME NEW m \in 1 .. appended PROVE \E p \in Filling!Places(m) : Filling!Places(m) = {p}
  <2>1. Filling!Places(m) =
            {p \in {"buffer"} : m \in Range(buffer)}
                \cup {t \in Filling!Threads : m \in Batched(t)}
                \cup {p \in {"delivered"} : m \in Range(delivered)}
                \cup {p \in {"lost"} : m \in lost}
    BY <1>1 DEF Filling!Places, Batched
  <2>2. CASE m \in Range(buffer)
    <3>1. Filling!Places(m) = {"buffer"}
      BY <2>1, <2>2 DEF PlaceInv
    <3> QED
      BY <3>1
  <2>3. CASE m \in Range(delivered)
    <3>1. Filling!Places(m) = {"delivered"}
      BY <2>1, <2>3 DEF PlaceInv
    <3> QED
      BY <3>1
  <2>4. CASE m \in lost
    <3>1. Filling!Places(m) = {"lost"}
      BY <2>1, <2>4 DEF PlaceInv
    <3> QED
      BY <3>1
  <2>5. CASE \E t \in Filling!Threads : m \in Batched(t)
    <3>1. PICK t \in Filling!Threads : m \in Batched(t)
      BY <2>5
    <3>2. /\ m \notin Range(buffer) /\ m \notin Range(delivered) /\ m \notin lost
          /\ \A u \in Filling!Threads : u # t => m \notin Batched(u)
      BY <3>1 DEF PlaceInv
    <3>3. Filling!Places(m) = {t}
      BY <2>1, <3>1, <3>2
    <3> QED
      BY <3>3
  <2> QED
    BY <2>2, <2>3, <2>4, <2>5 DEF PlaceInv
<1> QED
  BY <1>1, <1>2 DEF Filling!EachMessageInOnePlace, PlaceInv

\* With one thread that flushes, the batches are delivered in the order of
\* their messages.

Rising(s) == \A i, j \in DOMAIN s : i < j => s[i] < s[j]
Below(s, z) == \A x \in Range(s), y \in Range(z) : x < y

\* A thread that logs flushes nothing: it waits for the lock that it holds.
OneFlushes ==
    /\ DOMAIN pc = Timed!Threads /\ DOMAIN batch = Timed!Threads
    /\ \A t \in Timed!Threads : pc[t] \in {"append", "copy", "clear"} => lock = t
    /\ \A t \in Loggers :
        pc[t] \in {"idle", "collect", "append"} \/ (pc[t] = "flush" /\ lock = t)
    /\ pc[timer] = "clear" => batch[timer] = buffer

InOrder ==
    /\ appended \in Nat /\ buffer \in Seq(Nat) /\ delivered \in Seq(Nat)
    /\ Range(buffer) \cup Range(delivered) \subseteq 0 .. appended
    /\ Rising(buffer) /\ Rising(delivered) /\ Below(delivered, buffer)
    /\ pc[timer] = "deliver" =>
        /\ batch[timer] \in Seq(Nat) /\ Range(batch[timer]) \subseteq 0 .. appended
        /\ Rising(batch[timer])
        /\ Below(delivered, batch[timer]) /\ Below(batch[timer], buffer)

TimedInv == OneFlushes /\ InOrder

\* A rising sequence goes on with a greater number, or with greater numbers.
LEMMA RisingAppends ==
    ASSUME NEW s \in Seq(Nat), NEW x \in Nat, Rising(s), \A y \in Range(s) : y < x
    PROVE  Rising(Append(s, x))
<1> DEFINE r == Append(s, x)
<1>1. /\ DOMAIN r = DOMAIN s \cup {Len(s) + 1} /\ r[Len(s) + 1] = x
      /\ \A i \in DOMAIN s : r[i] = s[i]
  BY AppendAdds
<1>2. Len(s) \in Nat /\ DOMAIN s = 1 .. Len(s)
  OBVIOUS
<1> HIDE DEF r
<1>3. Rising(r)
  BY <1>1, <1>2 DEF Rising, Range
<1> QED
  BY <1>3 DEF r

LEMMA RisingConcats ==
    ASSUME NEW s \in Seq(Nat), NEW z \in Seq(Nat), Rising(s), Rising(z), Below(s, z)
    PROVE  Rising(s \o z)
<1> DEFINE r == s \o z
           L == Len(s)
<1>1. /\ DOMAIN s = 1 .. L /\ DOMAIN z = 1 .. Len(z) /\ L \in Nat /\ Len(z) \in Nat
      /\ DOMAIN r = 1 .. L + Len(z)
      /\ \A i \in DOMAIN s : r[i] = s[i]
      /\ \A i \in DOMAIN r : i \notin DOMAIN s => i - L \in DOMAIN z /\ r[i] = z[i - L]
  BY Concats
<1> HIDE DEF r, L
<1>2. ASSUME NEW i \in DOMAIN r, NEW j \in DOMAIN r, i < j PROVE r[i] < r[j]
  <2>1. CASE j \in DOMAIN s
    BY <1>1, <1>2, <2>1 DEF Rising
  <2>2. CASE i \notin DOMAIN s
    <3>1. j \notin DOMAIN s /\ i - L < j - L
      BY <1>1, <1>2, <2>2
    <3> QED
      BY <1>1, <2>2, <3>1 DEF Rising
  <2>3. CASE i \in DOMAIN s /\ j \notin DOMAIN s
    BY <1>1, <2>3 DEF Below, Range
  <2> QED
    BY <2>1, <2>2, <2>3
<1> QED
  BY <1>2 DEF Rising, r

LEMMA TimedBegins == Timed!Init => TimedInv
<1> SUFFICES ASSUME Timed!Init PROVE TimedInv
  OBVIOUS
<1>1. /\ DOMAIN pc = Timed!Threads /\ DOMAIN batch = Timed!Threads
      /\ \A t \in Timed!Threads : pc[t] = "idle"
      /\ appended = 0 /\ buffer = <<>> /\ delivered = <<>>
      /\ Loggers \subseteq Timed!Threads /\ timer \in Timed!Threads
  BY DEF Timed!Init, Timed!Threads
<1>2. Range(<<>>) = {} /\ Rising(<<>>) /\ <<>> \in Seq(Nat) /\ Below(<<>>, <<>>)
  BY DEF Range, Rising, Below
<1>3. OneFlushes
  BY <1>1 DEF OneFlushes
<1>4. InOrder
  BY <1>1, <1>2 DEF InOrder
<1> QED
  BY <1>3, <1>4 DEF TimedInv

\* Who flushes.
LEMMA FlushesAlone == ASSUME OneFlushes, Timed!Next PROVE OneFlushes'
<1>0. /\ Loggers \subseteq Timed!Threads /\ timer \in Timed!Threads /\ timer \notin Loggers
      /\ Timed!Threads = Loggers \cup {timer} /\ NoThread \notin Timed!Threads
  BY RuntimeAssumptions DEF RuntimeAssumptions, Timed!ThreadsAssumption, Timed!Threads
<1>1. PICK t \in Timed!Threads :
        \/ t \in Loggers /\ (Timed!EnterSink(t) \/ Timed!Collects(t))
        \/ t = timer /\ Timed!StartFlush(t)
        \/ Timed!Flushes(t)
  BY DEF Timed!Next, Timed!Threads
<1>2. CASE t \in Loggers
  <2>1. CASE Timed!EnterSink(t)
    <3>1. /\ pc[t] = "idle" /\ pc'[t] = "collect" /\ lock' = lock /\ buffer' = buffer
          /\ batch' = batch /\ DOMAIN pc' = Timed!Threads
          /\ \A u \in Timed!Threads : u # t => pc'[u] = pc[u]
      BY <2>1 DEF OneFlushes, Timed!EnterSink, Timed!Goes
    <3> QED
      BY <1>0, <1>2, <3>1 DEF OneFlushes
  <2>2. CASE Timed!CollectLock(t)
    <3>1. /\ pc'[t] = "append" /\ lock = NoThread /\ lock' = t /\ buffer' = buffer
          /\ batch' = batch /\ DOMAIN pc' = Timed!Threads
          /\ \A u \in Timed!Threads : u # t => pc'[u] = pc[u]
      BY <2>2 DEF OneFlushes, Timed!CollectLock, Timed!Goes
    <3>2. /\ \A u \in Timed!Threads : pc[u] \notin {"append", "copy", "clear"}
          /\ \A u \in Loggers : pc[u] # "flush"
      BY <1>0, <3>1 DEF OneFlushes
    <3> QED
      BY <1>0, <1>2, <3>1, <3>2 DEF OneFlushes
  <2>3. CASE Timed!CollectAppend(t)
    <3>1. /\ pc[t] = "append" /\ batch' = batch /\ DOMAIN pc' = Timed!Threads
          /\ pc'[t] = "idle" \/ (pc'[t] = "flush" /\ lock' = lock)
          /\ \A u \in Timed!Threads : u # t => pc'[u] = pc[u]
      BY <2>3 DEF OneFlushes, Timed!CollectAppend, Timed!Goes
    <3>2. /\ lock = t
          /\ \A u \in Timed!Threads : u # t => pc[u] \notin {"append", "copy", "clear"}
          /\ \A u \in Loggers : u # t => pc[u] # "flush"
      BY <1>0, <3>1 DEF OneFlushes
    <3> QED
      BY <1>0, <1>2, <3>1, <3>2 DEF OneFlushes
  <2>4. ~Timed!Flushes(t)
    BY <1>0, <1>2 DEF OneFlushes, Timed!Flushes, Timed!FlushLock, Timed!FlushNothing,
       Timed!FlushCopy, Timed!FlushClear, Timed!Deliver, Timed!DeliverFails, Timed!Goes
  <2> QED
    BY <1>0, <1>1, <1>2, <2>1, <2>2, <2>3, <2>4 DEF Timed!Collects
<1>3. CASE t = timer
  <2>1. CASE Timed!StartFlush(t)
    <3>1. /\ pc'[t] = "flush" /\ lock' = lock /\ buffer' = buffer
          /\ batch' = batch /\ DOMAIN pc' = Timed!Threads
          /\ \A u \in Timed!Threads : u # t => pc'[u] = pc[u]
      BY <2>1 DEF OneFlushes, Timed!StartFlush, Timed!Goes
    <3> QED
      BY <1>0, <1>3, <3>1 DEF OneFlushes
  <2>2. CASE Timed!FlushLock(t)
    <3>1. /\ pc'[t] = "copy" /\ lock = NoThread /\ lock' = t /\ buffer' = buffer
          /\ batch' = batch /\ DOMAIN pc' = Timed!Threads
          /\ \A u \in Timed!Threads : u # t => pc'[u] = pc[u]
      BY <2>2 DEF OneFlushes, Timed!FlushLock, Timed!Goes
    <3>2. /\ \A u \in Timed!Threads : pc[u] \notin {"append", "copy", "clear"}
          /\ \A u \in Loggers : pc[u] # "flush"
      BY <1>0, <3>1 DEF OneFlushes
    <3> QED
      BY <1>0, <1>3, <3>1, <3>2 DEF OneFlushes
  <2>3. CASE Timed!FlushNothing(t) \/ Timed!FlushClear(t)
    <3>1. /\ pc[t] \in {"copy", "clear"} /\ pc'[t] \in {"idle", "deliver"}
          /\ batch' = batch /\ DOMAIN pc' = Timed!Threads
          /\ \A u \in Timed!Threads : u # t => pc'[u] = pc[u]
      BY <2>3 DEF OneFlushes, Timed!FlushNothing, Timed!FlushClear, Timed!Goes
    <3>2. /\ \A u \in Loggers : pc[u] \in {"idle", "collect"}
      BY <1>0, <1>3, <3>1 DEF OneFlushes
    <3> QED
      BY <1>0, <1>3, <3>1, <3>2 DEF OneFlushes
  <2>4. CASE Timed!FlushCopy(t)
    <3>1. /\ pc[t] = "copy" /\ pc'[t] = "clear" /\ lock' = lock /\ buffer' = buffer
          /\ batch'[t] = buffer /\ DOMAIN pc' = Timed!Threads /\ DOMAIN batch' = Timed!Threads
          /\ \A u \in Timed!Threads : u # t => pc'[u] = pc[u]
      BY <2>4 DEF OneFlushes, Timed!FlushCopy, Timed!Goes
    <3> QED
      BY <1>0, <1>3, <3>1 DEF OneFlushes
  <2>5. CASE Timed!Deliver(t) \/ Timed!DeliverFails(t)
    <3>1. /\ pc'[t] = "idle" /\ lock' = lock /\ buffer' = buffer
          /\ DOMAIN pc' = Timed!Threads /\ DOMAIN batch' = Timed!Threads
          /\ \A u \in Timed!Threads : u # t => pc'[u] = pc[u]
      BY <2>5 DEF OneFlushes, Timed!Deliver, Timed!DeliverFails, Timed!Goes
    <3> QED
      BY <1>0, <1>3, <3>1 DEF OneFlushes
  <2> QED
    BY <1>0, <1>1, <1>3, <2>1, <2>2, <2>3, <2>4, <2>5 DEF Timed!Flushes
<1> QED
  BY <1>0, <1>2, <1>3

\* A step that delivers nothing, and leaves or empties the buffer.
LEMMA OrderKept ==
    ASSUME InOrder, UNCHANGED <<buffer, appended, delivered>>,
           pc'[timer] = "deliver" => pc[timer] = "deliver" /\ batch'[timer] = batch[timer]
    PROVE  InOrder'
BY DEF InOrder

\* What is appended comes last.
LEMMA AppendsInOrder ==
    ASSUME TimedInv, NEW t \in Loggers, Timed!CollectAppend(t)
    PROVE  InOrder'
<1>1. /\ buffer' = Append(buffer, appended + 1) /\ appended' = appended + 1
      /\ UNCHANGED <<batch, delivered>> /\ appended \in Nat /\ buffer \in Seq(Nat)
      /\ pc[t] = "append" /\ pc'[t] # "deliver"
      /\ \A u \in Timed!Threads : u # t => pc'[u] = pc[u]
  BY DEF Timed!CollectAppend, Timed!Goes, TimedInv, OneFlushes, InOrder, Timed!Threads
<1>2. pc'[timer] = pc[timer]
  BY <1>1, RuntimeAssumptions DEF RuntimeAssumptions, Timed!ThreadsAssumption, Timed!Threads
<1>3. \A n \in 0 .. appended : n < appended + 1 /\ n \in 0 .. appended'
  BY <1>1
<1>4. buffer' \in Seq(Nat) /\ Range(buffer') = Range(buffer) \cup {appended + 1}
  BY <1>1, RangeAppends
<1>5. Rising(buffer')
  BY <1>1, <1>3, RisingAppends DEF TimedInv, InOrder
<1>6. Range(buffer') \cup Range(delivered) \subseteq 0 .. appended' /\ appended' \in Nat
  BY <1>1, <1>3, <1>4 DEF TimedInv, InOrder
<1>7. Below(delivered, buffer')
  BY <1>3, <1>4 DEF TimedInv, InOrder, Below
<1>8. ASSUME pc[timer] = "deliver"
      PROVE  Range(batch[timer]) \subseteq 0 .. appended' /\ Below(batch[timer], buffer')
  BY <1>3, <1>4, <1>8 DEF TimedInv, InOrder, Below
<1> QED
  BY <1>1, <1>2, <1>4, <1>5, <1>6, <1>7, <1>8 DEF TimedInv, InOrder

\* What is cut off the buffer comes after what has been delivered.
LEMMA ClearsInOrder == ASSUME TimedInv, Timed!FlushClear(timer) PROVE InOrder'
<1>1. /\ pc[timer] = "clear" /\ batch[timer] = buffer /\ buffer' = <<>>
      /\ UNCHANGED <<batch, appended, delivered>> /\ InOrder
  BY DEF Timed!FlushClear, Timed!Goes, Timed!Cleared, TimedInv, OneFlushes
<1>2. Range(buffer') = {} /\ Rising(buffer') /\ buffer' \in Seq(Nat)
  BY <1>1 DEF Range, Rising
<1>3. Below(delivered, buffer') /\ Below(batch[timer], buffer')
  BY <1>2 DEF Below
<1> QED
  BY <1>1, <1>2, <1>3 DEF InOrder

LEMMA DeliversInOrder ==
    ASSUME TimedInv, Timed!Deliver(timer) \/ Timed!DeliverFails(timer)
    PROVE  InOrder'
<1>1. /\ pc[timer] = "deliver" /\ pc'[timer] # "deliver" /\ UNCHANGED <<buffer, appended>>
      /\ delivered' = delivered \o batch[timer] \/ delivered' = delivered
      /\ InOrder
  BY DEF Timed!Deliver, Timed!DeliverFails, Timed!Goes, TimedInv, OneFlushes, Timed!Threads
<1>2. CASE delivered' = delivered
  BY <1>1, <1>2 DEF InOrder
<1>3. CASE delivered' = delivered \o batch[timer]
  <2>1. /\ delivered \in Seq(Nat) /\ batch[timer] \in Seq(Nat) /\ Rising(delivered)
        /\ Rising(batch[timer]) /\ Below(delivered, batch[timer]) /\ Below(delivered, buffer)
        /\ Below(batch[timer], buffer) /\ Range(delivered) \subseteq 0 .. appended
        /\ Range(batch[timer]) \subseteq 0 .. appended
    BY <1>1 DEF InOrder
  <2>2. delivered' \in Seq(Nat) /\ Rising(delivered')
    BY <1>3, <2>1, Concats, RisingConcats
  <2>3. Range(delivered') = Range(delivered) \cup Range(batch[timer])
    BY <1>3, <2>1, RangeConcats
  <2>4. Below(delivered', buffer) /\ Range(delivered') \subseteq 0 .. appended
    BY <2>1, <2>3 DEF Below
  <2> QED
    BY <1>1, <2>2, <2>4 DEF InOrder
<1> QED
  BY <1>1, <1>2, <1>3

LEMMA TimedStep == TimedInv /\ [Timed!Next]_logVars => TimedInv'
<1> SUFFICES ASSUME TimedInv, [Timed!Next]_logVars PROVE TimedInv'
  OBVIOUS
<1>0. /\ OneFlushes /\ InOrder
      /\ timer \notin Loggers /\ timer \in Timed!Threads /\ Loggers \subseteq Timed!Threads
  BY RuntimeAssumptions DEF TimedInv, RuntimeAssumptions, Timed!ThreadsAssumption, Timed!Threads
<1>1. CASE UNCHANGED logVars
  <2>1. OneFlushes'
    BY <1>0, <1>1 DEF OneFlushes, logVars
  <2>2. InOrder'
    BY <1>0, <1>1, OrderKept DEF logVars
  <2> QED
    BY <2>1, <2>2 DEF TimedInv
<1>2. CASE Timed!Next
  <2>1. OneFlushes'
    BY <1>0, <1>2, FlushesAlone
  <2>2. ASSUME NEW t \in Loggers, Timed!EnterSink(t) \/ Timed!CollectLock(t) PROVE InOrder'
    <3>1. UNCHANGED <<buffer, appended, delivered, batch>> /\ pc'[timer] = pc[timer]
      BY <1>0, <2>2 DEF OneFlushes, Timed!EnterSink, Timed!CollectLock, Timed!Goes
    <3> QED
      BY <1>0, <3>1, OrderKept
  <2>3. ASSUME \/ Timed!StartFlush(timer) \/ Timed!FlushLock(timer)
               \/ Timed!FlushNothing(timer) \/ Timed!FlushCopy(timer)
        PROVE  InOrder'
    <3>1. UNCHANGED <<buffer, appended, delivered>> /\ pc'[timer] # "deliver"
      BY <1>0, <2>3 DEF OneFlushes, Timed!StartFlush, Timed!FlushLock, Timed!FlushNothing,
           Timed!FlushCopy, Timed!Goes
    <3> QED
      BY <1>0, <3>1, OrderKept
  <2>4. ASSUME NEW t \in Loggers PROVE ~Timed!Flushes(t)
    <3>1. /\ pc[t] \in {"idle", "collect", "append", "flush"}
          /\ pc[t] = "flush" => lock = t /\ lock # NoThread
      BY <1>0, <2>4, RuntimeAssumptions DEF OneFlushes, RuntimeAssumptions,
           Timed!ThreadsAssumption
    <3> QED
      BY <3>1 DEF Timed!Flushes, Timed!FlushLock, Timed!FlushNothing,
         Timed!FlushCopy, Timed!FlushClear, Timed!Deliver, Timed!DeliverFails, Timed!Goes
  <2>5. InOrder'
    BY <1>2, <2>2, <2>3, <2>4, AppendsInOrder, ClearsInOrder, DeliversInOrder
       DEF Timed!Next, Timed!Collects, Timed!Flushes, Timed!Threads
  <2> QED
    BY <2>1, <2>5 DEF TimedInv
<1> QED
  BY <1>1, <1>2

LEMMA OrderFollowsTime == TimedInv => Timed!DeliveredInOrder
  BY DEF TimedInv, InOrder, Rising, Timed!DeliveredInOrder

-----------------------------------------------------------------------------

(* The adapters, with one task that configures, starts and stops them once.  *)

\* What the loop of the task has seen to.
LoopInv ==
    \/ task[t1] = Alone!Idle
    \/ /\ task[t1].at \in DOMAIN adapters
       /\ task[t1].op \in {"configure", "start", "stop"}
       /\ task[t1].op = "configure" => ~ configured /\ configures = 1
       /\ task[t1].op = "start" =>
            /\ configured /\ starts = 1
            /\ \A i \in DOMAIN adapters :
                /\ i < task[t1].at => state[adapters[i]] \in {"STARTED", "ERROR"}
                /\ i >= task[t1].at => ~ running[adapters[i]]
       /\ task[t1].op = "stop" =>
            \A i \in DOMAIN adapters : i < task[t1].at => ~ running[adapters[i]]

\* Who is up says so, and nobody is before the one start.
UpInv ==
    /\ adapters \in Seq(Adapters)
    /\ \A i, j \in DOMAIN adapters : adapters[i] = adapters[j] => i = j
    /\ DOMAIN state = Adapters /\ DOMAIN running = Adapters /\ DOMAIN task = {t1}
    /\ configures \in {0, 1} /\ starts \in {0, 1}
    /\ configured \in BOOLEAN /\ (configured => configures = 1)
    /\ ~ configured => starts = 0
    /\ \A a \in Adapters : running[a] => starts = 1 /\ state[a] = "STARTED" /\ a \in Alone!Registered

AdapterInv == UpInv /\ LoopInv

\* No adapter after place i is left for the loop.
NoneLeft(op, i, st) == \A k \in DOMAIN adapters : k > i => k \notin Alone!Eligible(op, st)

\* Place j is the next one of the loop.
NextIs(op, i, st, j) ==
    /\ j \in DOMAIN adapters /\ j > i /\ j \in Alone!Eligible(op, st)
    /\ \A k \in DOMAIN adapters : k > i /\ k < j => k \notin Alone!Eligible(op, st)

\* How a loop goes on: it was disturbed, has come to its end, or goes to j.
GoesOn(op, i, size, st) ==
    /\ DOMAIN task' = {t1}
    /\ \/ /\ size # Len(adapters)
          /\ task'[t1] = Alone!Idle /\ UNCHANGED <<configured, started>>
       \/ /\ NoneLeft(op, i, st)
          /\ task'[t1] = Alone!Idle /\ Alone!Flags(op)
       \/ \E j \in DOMAIN adapters :
          /\ NextIs(op, i, st, j)
          /\ task'[t1] = [op |-> op, at |-> j, size |-> size]
          /\ UNCHANGED <<configured, started>>

LEMMA AdapterLoopGoesOn ==
    ASSUME UpInv, NEW op, NEW i \in Nat, NEW size, NEW st, Alone!Advance(t1, op, i, size, st)
    PROVE  GoesOn(op, i, size, st)
<1>0. /\ DOMAIN task = {t1} /\ DOMAIN adapters = 1 .. Len(adapters) /\ Len(adapters) \in Nat
      /\ Alone!Eligible(op, st) \subseteq DOMAIN adapters
  <2>1. DOMAIN task = {t1} /\ adapters \in Seq(Adapters)
    BY DEF UpInv
  <2>2. Alone!Eligible(op, st) \subseteq DOMAIN adapters
    BY DEF Alone!Eligible
  <2> QED
    BY <2>1, <2>2
<1>1. CASE Alone!Disturbed(size)
  BY <1>0, <1>1 DEF Alone!Advance, Alone!Disturbed, GoesOn
<1>2. CASE ~ Alone!Disturbed(size) /\ Alone!Following(op, i, st) = {}
  <2>1. NoneLeft(op, i, st)
    BY <1>2 DEF NoneLeft, Alone!Following
  <2> QED
    BY <1>0, <1>2, <2>1 DEF Alone!Advance, GoesOn
<1>3. CASE ~ Alone!Disturbed(size) /\ Alone!Following(op, i, st) # {}
  <2>1. PICK j \in Alone!Following(op, i, st) :
          /\ \A k \in Alone!Following(op, i, st) : j =< k
          /\ task' = [task EXCEPT ![t1] = [op |-> op, at |-> j, size |-> size]]
          /\ UNCHANGED <<configured, started>>
    BY <1>3 DEF Alone!Advance
  <2>2. j \in DOMAIN adapters /\ j > i /\ j \in Alone!Eligible(op, st)
    BY <1>0, <2>1 DEF Alone!Following
  <2>3. NextIs(op, i, st, j)
    BY <1>0, <2>1, <2>2 DEF NextIs, Alone!Following
  <2> QED
    BY <1>0, <2>1, <2>2, <2>3 DEF GoesOn
<1> QED
  BY <1>1, <1>2, <1>3

LEMMA AdaptersBegin == Alone!Init => AdapterInv
<1> SUFFICES ASSUME Alone!Init PROVE AdapterInv
  OBVIOUS
<1>1. adapters \in Seq(Adapters) /\ DOMAIN adapters = {}
  BY DEF Alone!Init
<1>2. UpInv
  BY <1>1 DEF Alone!Init, UpInv
<1>3. LoopInv
  BY DEF Alone!Init, LoopInv
<1> QED
  BY <1>2, <1>3 DEF AdapterInv

\* A loop that starts.
LEMMA ConfigureKeeps == ASSUME AdapterInv, Alone!Configure(t1) PROVE AdapterInv'
<1>1. /\ configures = 0 /\ configures' = 1 /\ ~ configured /\ starts = 0
      /\ UNCHANGED <<adapters, state, running, routes, starts>> /\ UpInv
      /\ Alone!Advance(t1, "configure", 0, Len(adapters), state)
  BY DEF Alone!Configure, AdapterInv, UpInv
<1>2. GoesOn("configure", 0, Len(adapters), state)
  BY <1>1, AdapterLoopGoesOn
<1>3. configured' \in BOOLEAN /\ DOMAIN task' = {t1}
  BY <1>1, <1>2 DEF GoesOn, Alone!Flags, UpInv
<1>4. UpInv'
  BY <1>1, <1>3 DEF UpInv, Alone!Registered
<1>5. LoopInv'
  BY <1>1, <1>2 DEF LoopInv, GoesOn
<1> QED
  BY <1>4, <1>5 DEF AdapterInv

LEMMA StartKeeps == ASSUME AdapterInv, Alone!Start(t1) PROVE AdapterInv'
<1>1. /\ configured /\ starts = 0 /\ starts' = 1
      /\ UNCHANGED <<adapters, state, running, routes, configures>> /\ UpInv
      /\ Alone!Advance(t1, "start", 0, Len(adapters), state)
  BY DEF Alone!Start, AdapterInv, UpInv
<1>2. GoesOn("start", 0, Len(adapters), state)
  BY <1>1, AdapterLoopGoesOn
<1>3. configured' /\ DOMAIN task' = {t1}
  BY <1>1, <1>2 DEF GoesOn, Alone!Flags
<1>4. configured' \in BOOLEAN
  BY <1>1, <1>2 DEF GoesOn, Alone!Flags, UpInv
<1>5. \A a \in Adapters : ~ running[a]
  BY <1>1 DEF UpInv
<1>6. UpInv'
  BY <1>1, <1>3, <1>4, <1>5 DEF UpInv, Alone!Registered
<1>7. ASSUME NEW j \in DOMAIN adapters, NextIs("start", 0, state, j),
             task'[t1] = [op |-> "start", at |-> j, size |-> Len(adapters)]
      PROVE  LoopInv'
  <2>1. \A i \in DOMAIN adapters : i \in Nat /\ i > 0 /\ adapters[i] \in Adapters
    BY <1>1 DEF UpInv
  <2>2. \A i \in DOMAIN adapters : i < j => state[adapters[i]] = "ERROR"
    BY <1>7, <2>1 DEF NextIs, Alone!Eligible
  <2> QED
    BY <1>1, <1>3, <1>5, <1>7, <2>1, <2>2 DEF LoopInv
<1>8. LoopInv'
  BY <1>2, <1>7 DEF LoopInv, GoesOn
<1> QED
  BY <1>6, <1>8 DEF AdapterInv

LEMMA StopKeeps == ASSUME AdapterInv, Alone!Stop(t1) PROVE AdapterInv'
<1>1. /\ UNCHANGED <<adapters, state, running, routes, configures, starts>> /\ UpInv
      /\ Alone!Advance(t1, "stop", 0, Len(adapters), state)
  BY DEF Alone!Stop, AdapterInv
<1>2. GoesOn("stop", 0, Len(adapters), state)
  BY <1>1, AdapterLoopGoesOn
<1>3. configured' = configured /\ DOMAIN task' = {t1}
  BY <1>1, <1>2 DEF GoesOn, Alone!Flags, UpInv
<1>4. UpInv'
  BY <1>1, <1>3 DEF UpInv, Alone!Registered
<1>5. ASSUME NEW j \in DOMAIN adapters, NextIs("stop", 0, state, j),
             task'[t1] = [op |-> "stop", at |-> j, size |-> Len(adapters)]
      PROVE  LoopInv'
  <2>1. \A i \in DOMAIN adapters : i \in Nat /\ i > 0 /\ adapters[i] \in Adapters
    BY <1>1 DEF UpInv
  <2>2. \A i \in DOMAIN adapters : i < j => ~ running[adapters[i]]
    BY <1>1, <1>5, <2>1 DEF NextIs, Alone!Eligible, UpInv
  <2> QED
    BY <1>1, <1>5, <2>2 DEF LoopInv
<1>6. LoopInv'
  BY <1>2, <1>5 DEF LoopInv, GoesOn
<1> QED
  BY <1>4, <1>6 DEF AdapterInv

\* The awaited call of an adapter a returns, in state s.
Returned(a, s) ==
    /\ task[t1].at \in DOMAIN adapters /\ a = adapters[task[t1].at] /\ a \in Adapters
    /\ s \in Alone!Outcomes(task[t1].op)
    /\ DOMAIN state' = Adapters /\ state'[a] = s
    /\ \A b \in Adapters : b # a => state'[b] = state[b]
    /\ DOMAIN running' = Adapters /\ running'[a] = Alone!Up(task[t1].op, a)
    /\ \A b \in Adapters : b # a => running'[b] = running[b]
    /\ GoesOn(task[t1].op, task[t1].at, task[t1].size, state')
    /\ UNCHANGED <<adapters, routes, configures, starts>>

LEMMA ReturnsLeave ==
    ASSUME AdapterInv, Alone!CallReturns(t1) PROVE \E a, s : Returned(a, s)
<1> DEFINE op == task[t1].op
           a == adapters[task[t1].at]
<1>1. /\ UpInv /\ task[t1].at \in DOMAIN adapters /\ task[t1].at \in Nat /\ a \in Adapters
      /\ DOMAIN state = Adapters /\ DOMAIN running = Adapters
  BY DEF Alone!CallReturns, AdapterInv, UpInv, LoopInv
<1>2. PICK s \in Alone!Outcomes(op) :
        /\ state' = [state EXCEPT ![a] = s]
        /\ running' = [running EXCEPT ![a] = Alone!Up(op, a)]
        /\ Alone!Advance(t1, op, task[t1].at, task[t1].size, [state EXCEPT ![a] = s])
        /\ UNCHANGED <<adapters, routes, configures, starts>>
  BY DEF Alone!CallReturns, Alone!Awaited
<1>3. PICK st : st = [state EXCEPT ![a] = s]
  OBVIOUS
<1>4. GoesOn(op, task[t1].at, task[t1].size, st)
  BY <1>1, <1>2, <1>3, AdapterLoopGoesOn
<1>5. st = state'
  BY <1>2, <1>3
<1>6. GoesOn(op, task[t1].at, task[t1].size, state')
  BY <1>4, <1>5
<1>7. Returned(a, s)
  BY <1>1, <1>2, <1>6 DEF Returned
<1> QED
  BY <1>7

LEMMA ReturnKeeps == ASSUME AdapterInv, Alone!CallReturns(t1) PROVE AdapterInv'
<1>1. PICK a, s : Returned(a, s)
  BY ReturnsLeave
<1>2. /\ UpInv /\ task[t1].op \in {"configure", "start", "stop"} /\ LoopInv
      /\ task[t1] # Alone!Idle
  BY DEF Alone!CallReturns, AdapterInv, LoopInv
<1>3. PICK op, at, size : op = task[t1].op /\ at = task[t1].at /\ size = task[t1].size
  OBVIOUS
<1>4. /\ at \in DOMAIN adapters /\ a = adapters[at] /\ a \in Adapters
      /\ GoesOn(op, at, size, state')
      /\ UNCHANGED <<adapters, routes, configures, starts>>
      /\ op \in {"configure", "start", "stop"}
      /\ \A i \in DOMAIN adapters : i \in Nat /\ adapters[i] \in Adapters
  BY <1>1, <1>2, <1>3 DEF Returned, UpInv
<1>5. configured' = (configured \/ (op = "configure" /\ configured')) /\ configured' \in BOOLEAN
      /\ DOMAIN task' = {t1}
  BY <1>2, <1>4 DEF GoesOn, Alone!Flags, UpInv
<1>6. /\ op = "configure" => ~ configured /\ starts = 0 /\ configures = 1
      /\ op = "start" => configured /\ starts = 1
  BY <1>2, <1>3 DEF LoopInv, UpInv
<1>7. \A b \in Adapters : running'[b] =>
        starts = 1 /\ state'[b] = "STARTED" /\ b \in Alone!Registered
  <2>1. CASE op = "start"
    BY <1>1, <1>2, <1>3, <1>4, <1>6, <2>1
       DEF Returned, UpInv, Alone!Registered, Alone!Outcomes
  <2>2. CASE op \in {"configure", "stop"}
    <3>1. running'[a] = Alone!Up(op, a)
      BY <1>1, <1>3 DEF Returned
    <3>2. op = "configure" => ~ running[a]
      BY <1>2, <1>4, <1>6 DEF UpInv
    <3>3. ~ running'[a]
      BY <2>2, <3>1, <3>2 DEF Alone!Up
    <3> QED
      BY <1>1, <1>2, <3>3 DEF Returned, UpInv
  <2> QED
    BY <1>4, <2>1, <2>2
<1>8. UpInv'
  BY <1>1, <1>2, <1>4, <1>5, <1>6, <1>7 DEF Returned, UpInv, Alone!Registered
<1>9. ASSUME NEW j \in DOMAIN adapters, NextIs(op, at, state', j),
             task'[t1] = [op |-> op, at |-> j, size |-> size], configured' = configured
      PROVE  LoopInv'
  <2>1. /\ task'[t1].op = op /\ task'[t1].at = j /\ j > at
    BY <1>9 DEF NextIs
  <2>2. ASSUME op = "start", NEW i \in DOMAIN adapters
        PROVE  /\ i < j => state'[adapters[i]] \in {"STARTED", "ERROR"}
               /\ i >= j => ~ running'[adapters[i]]
    <3>1. CASE i < at
      <4>1. adapters[i] # a /\ i < j /\ ~ (i >= j)
        BY <1>2, <1>4, <2>1, <3>1 DEF UpInv
      <4> QED
        BY <1>1, <1>2, <1>3, <1>4, <2>2, <3>1, <4>1 DEF Returned, LoopInv
    <3>2. CASE i = at
      BY <1>1, <1>3, <1>4, <2>1, <2>2, <3>2 DEF Returned, Alone!Outcomes
    <3>3. CASE i > at
      <4>1. adapters[i] # a
        BY <1>2, <1>4, <3>3 DEF UpInv
      <4>2. i < j => state'[adapters[i]] = "ERROR"
        BY <1>4, <1>9, <2>2, <3>3 DEF NextIs, Alone!Eligible
      <4>3. ~ running'[adapters[i]]
        BY <1>1, <1>2, <1>3, <1>4, <2>2, <3>3, <4>1 DEF Returned, LoopInv
      <4> QED
        BY <4>2, <4>3
    <3> QED
      BY <1>4, <3>1, <3>2, <3>3
  <2>3. ASSUME op = "stop", NEW i \in DOMAIN adapters, i < j
        PROVE  ~ running'[adapters[i]]
    <3>1. CASE i < at
      BY <1>1, <1>2, <1>3, <1>4, <2>3, <3>1 DEF Returned, LoopInv, UpInv
    <3>2. CASE i = at
      BY <1>1, <1>3, <1>4, <2>3, <3>2 DEF Returned, Alone!Up
    <3>3. CASE i > at
      BY <1>4, <1>7, <1>9, <2>3, <3>3 DEF NextIs, Alone!Eligible
    <3> QED
      BY <1>4, <3>1, <3>2, <3>3
  <2> QED
    BY <1>4, <1>6, <1>9, <2>1, <2>2, <2>3 DEF LoopInv
<1>10. LoopInv'
  BY <1>4, <1>9 DEF LoopInv, GoesOn
<1> QED
  BY <1>8, <1>10 DEF AdapterInv

\* The awaited call raises, which stop() of an adapter does not.
LEMMA RaiseKeeps == ASSUME AdapterInv, Alone!CallRaises(t1) PROVE AdapterInv'
<1> DEFINE a == adapters[task[t1].at]
<1>1. /\ UpInv /\ task[t1].op \in {"configure", "start"} /\ task[t1].at \in DOMAIN adapters
      /\ task[t1].op = "configure" => ~ configured
      /\ task[t1].op = "start" => ~ running[a]
      /\ state' = [state EXCEPT ![a] = "ERROR"]
      /\ task'[t1] = Alone!Idle /\ DOMAIN task' = {t1}
      /\ UNCHANGED <<compiled, configured, started, adapters, running, routes, configures, starts>>
      /\ a \in Adapters
  <2>1. /\ UpInv /\ LoopInv /\ task[t1] # Alone!Idle
    BY DEF Alone!CallRaises, AdapterInv
  <2>2. task[t1].op # "stop"
    BY DEF Alone!CallRaises
  <2>3. /\ task[t1].op \in {"configure", "start"} /\ task[t1].at \in DOMAIN adapters
        /\ task[t1].at \in Nat /\ task[t1].at >= task[t1].at
        /\ a \in Adapters
    BY <2>1, <2>2 DEF LoopInv, UpInv
  <2>4. task' = [task EXCEPT ![t1] = Alone!Idle]
    BY <2>2 DEF Alone!CallRaises
  <2>5. task'[t1] = Alone!Idle /\ DOMAIN task' = {t1}
    BY <2>1, <2>4 DEF UpInv
  <2> QED
    BY <2>1, <2>2, <2>3, <2>5 DEF Alone!CallRaises, Alone!Awaited, LoopInv
<1>2. ~ running[a]
  BY <1>1 DEF UpInv
<1>3. UpInv'
  BY <1>1, <1>2 DEF UpInv, Alone!Registered
<1>4. LoopInv'
  BY <1>1 DEF LoopInv
<1> QED
  BY <1>3, <1>4 DEF AdapterInv

LEMMA RegisterKeeps ==
    ASSUME AdapterInv, NEW a \in Adapters, Alone!Register(a) PROVE AdapterInv'
<1>1. /\ UpInv /\ LoopInv /\ a \notin Alone!Registered /\ adapters' = Append(adapters, a)
      /\ UNCHANGED <<state, running, compiled, routes, configured, started, task, configures, starts>>
  BY DEF Alone!Register, AdapterInv
<1>2. PICK n \in Nat :
        /\ DOMAIN adapters = 1 .. n /\ DOMAIN adapters' = 1 .. n + 1 /\ adapters'[n + 1] = a
        /\ \A i \in 1 .. n : adapters'[i] = adapters[i] /\ adapters[i] # a
        /\ adapters' \in Seq(Adapters)
  <2>1. Len(adapters) \in Nat /\ adapters \in Seq(Adapters)
    BY <1>1 DEF UpInv
  <2> QED
    BY <1>1, <2>1 DEF Alone!Registered
<1>3. ~ running[a] /\ Alone!Registered' = Alone!Registered \cup {a}
  BY <1>1, <1>2 DEF UpInv, Alone!Registered
<1>4. \A i, j \in DOMAIN adapters' : adapters'[i] = adapters'[j] => i = j
  BY <1>1, <1>2 DEF UpInv
<1>5. UpInv'
  BY <1>1, <1>2, <1>3, <1>4 DEF UpInv
<1>6. LoopInv'
  <2>1. CASE task[t1] = Alone!Idle
    BY <1>1, <2>1 DEF LoopInv
  <2>2. CASE task[t1] # Alone!Idle
    <3>1. /\ task[t1].at \in 1 .. n /\ task[t1].at \in 1 .. n + 1
          /\ \A i \in 1 .. n + 1 : i < task[t1].at => i \in 1 .. n
          /\ \A i \in 1 .. n + 1 : i \notin 1 .. n => i = n + 1
      BY <1>1, <1>2, <2>2 DEF LoopInv
    <3> QED
      BY <1>1, <1>2, <1>3, <2>2, <3>1 DEF LoopInv
  <2> QED
    BY <2>1, <2>2
<1> QED
  BY <1>5, <1>6 DEF AdapterInv

\* The steps of the adapters.
LEMMA AdapterStep == AdapterInv /\ [Alone!Next]_adapterVars => AdapterInv'
<1> SUFFICES ASSUME AdapterInv, [Alone!Next]_adapterVars PROVE AdapterInv'
  OBVIOUS
<1>1. ASSUME UNCHANGED adapterVars \/ \E r \in AdapterRoutes : Alone!AddRoute(r)
      PROVE  AdapterInv'
  <2>1. UNCHANGED <<adapters, state, running, configured, started, task, configures, starts>>
    BY <1>1 DEF adapterVars, Alone!AddRoute
  <2> QED
    BY <2>1 DEF AdapterInv, UpInv, LoopInv, Alone!Registered
<1> QED
  BY <1>1, RegisterKeeps, ConfigureKeeps, StartKeeps, StopKeeps, ReturnKeeps, RaiseKeeps
     DEF Alone!Next

\* When the flag goes up the loop of start() is over, and when the loop of
\* stop() is over nobody is up.
LEMMA AdaptersFollowSteps ==
    AdapterInv /\ [Alone!Next]_adapterVars => Alone!ReachesAll /\ Alone!StopsAll
<1> SUFFICES ASSUME AdapterInv, [Alone!Next]_adapterVars PROVE Alone!ReachesAll /\ Alone!StopsAll
  OBVIOUS
<1>0. /\ UpInv /\ LoopInv /\ AdapterInv'
      /\ \A i \in DOMAIN adapters : i \in Nat /\ i > 0 /\ adapters[i] \in Adapters
  BY AdapterStep DEF AdapterInv, UpInv
<1>1. CASE \/ UNCHANGED adapterVars
           \/ \E r \in AdapterRoutes : Alone!AddRoute(r)
           \/ \E b \in Adapters : Alone!Register(b)
  <2>1. started' = started /\ task' = task
    BY <1>1 DEF adapterVars, Alone!AddRoute, Alone!Register
  <2> QED
    BY <2>1 DEF Alone!ReachesAll, Alone!StopsAll, Alone!Ends, Alone!Idle
<1>2. CASE Alone!Configure(t1) \/ Alone!Start(t1) \/ Alone!Stop(t1)
  <2>1. PICK op : /\ GoesOn(op, 0, Len(adapters), state) /\ task[t1] = Alone!Idle
                  /\ UNCHANGED <<adapters, state>>
    BY <1>0, <1>2, AdapterLoopGoesOn DEF Alone!Configure, Alone!Start, Alone!Stop
  <2>2. Alone!StopsAll
    BY <2>1 DEF Alone!StopsAll, Alone!Ends, Alone!Idle
  <2>3. ASSUME ~ started, started', NEW b \in Alone!Registered
        PROVE  state'[b] \in {"STARTED", "ERROR"}
    <3>1. op = "start" /\ NoneLeft(op, 0, state)
      BY <2>1, <2>3 DEF GoesOn, Alone!Flags
    <3>2. PICK k \in DOMAIN adapters : b = adapters[k]
      BY <2>3 DEF Alone!Registered
    <3>3. state[b] = "ERROR"
      BY <1>0, <3>1, <3>2 DEF NoneLeft, Alone!Eligible
    <3> QED
      BY <2>1, <3>3
  <2> QED
    BY <2>2, <2>3 DEF Alone!ReachesAll
<1>3. CASE Alone!CallRaises(t1)
  <2>1. task[t1].op # "stop" /\ started' = started
    BY <1>3 DEF Alone!CallRaises
  <2> QED
    BY <2>1 DEF Alone!ReachesAll, Alone!StopsAll, Alone!Ends
<1>4. CASE Alone!CallReturns(t1)
  <2>1. PICK a, s : Returned(a, s)
    BY <1>4, ReturnsLeave
  <2>2. PICK op, at, size : op = task[t1].op /\ at = task[t1].at /\ size = task[t1].size
    OBVIOUS
  <2>3. /\ at \in DOMAIN adapters /\ a = adapters[at] /\ a \in Adapters /\ adapters' = adapters
        /\ GoesOn(op, at, size, state') /\ task[t1] # Alone!Idle
        /\ op = "start" => s = "STARTED"
        /\ op = "stop" => ~ running'[a]
    BY <1>4, <2>1, <2>2 DEF Returned, Alone!CallReturns, Alone!Outcomes, Alone!Up
  <2>4. ASSUME ~ started, started', NEW b \in Alone!Registered
        PROVE  state'[b] \in {"STARTED", "ERROR"}
    <3>1. op = "start" /\ NoneLeft(op, at, state')
      BY <2>3, <2>4 DEF GoesOn, Alone!Flags
    <3>2. PICK k \in DOMAIN adapters : b = adapters[k] /\ b \in Adapters
      BY <1>0, <2>4 DEF Alone!Registered
    <3>3. CASE k > at
      BY <3>1, <3>2, <3>3 DEF NoneLeft, Alone!Eligible
    <3>4. CASE k = at
      BY <2>1, <2>3, <3>1, <3>2, <3>4 DEF Returned
    <3>5. CASE k < at
      <4>1. b # a
        BY <1>0, <2>3, <3>2, <3>5 DEF UpInv
      <4> QED
        BY <1>0, <2>1, <2>2, <2>3, <3>1, <3>2, <3>5, <4>1 DEF LoopInv, Returned
    <3> QED
      BY <1>0, <2>3, <3>3, <3>4, <3>5
  <2>5. ASSUME Alone!Ends(t1, "stop"), NEW b \in Adapters PROVE ~ running'[b]
    <3>1. op = "stop" /\ size = Len(adapters) /\ task'[t1] = Alone!Idle
      BY <2>2, <2>5 DEF Alone!Ends
    <3>2. NoneLeft(op, at, state')
      <4>1. \A j : task'[t1] # [op |-> op, at |-> j, size |-> size]
        BY <3>1 DEF Alone!Idle
      <4> QED
        BY <2>3, <3>1, <4>1 DEF GoesOn
    <3> SUFFICES ASSUME running'[b] PROVE FALSE
      OBVIOUS
    <3>3. state'[b] = "STARTED" /\ b \in Alone!Registered
      BY <1>0, <2>3 DEF AdapterInv, UpInv, Alone!Registered
    <3>4. PICK k \in DOMAIN adapters : b = adapters[k]
      BY <3>3 DEF Alone!Registered
    <3>5. CASE k > at
      BY <3>1, <3>2, <3>3, <3>4, <3>5 DEF NoneLeft, Alone!Eligible
    <3>6. CASE k = at
      BY <2>3, <3>1, <3>4, <3>6
    <3>7. CASE k < at
      <4>1. b # a
        BY <1>0, <2>3, <3>4, <3>7 DEF UpInv
      <4> QED
        BY <1>0, <2>1, <2>2, <2>3, <3>1, <3>4, <3>7, <4>1 DEF LoopInv, Returned
    <3> QED
      BY <1>0, <2>3, <3>5, <3>6, <3>7
  <2> QED
    BY <2>4, <2>5 DEF Alone!ReachesAll, Alone!StopsAll
<1>5. \/ UNCHANGED adapterVars
      \/ \E r \in AdapterRoutes : Alone!AddRoute(r)
      \/ \E b \in Adapters : Alone!Register(b)
      \/ Alone!Configure(t1) \/ Alone!Start(t1) \/ Alone!Stop(t1)
      \/ Alone!CallReturns(t1) \/ Alone!CallRaises(t1)
  BY DEF Alone!Next
<1> QED
  BY <1>1, <1>2, <1>3, <1>4, <1>5

-----------------------------------------------------------------------------

(* Of all components at once. *)

RuntimeInv ==
    /\ OrderInv
    /\ component = "lifecycle" => LifecycleInv
    /\ component = "scope" => ScopeInv
    /\ component = "filling" => BufferInv
    /\ component = "timed" => TimedInv
    /\ component = "alone" => AdapterInv

\* A step of the runtime is one of each of these components, or leaves it alone.
LEMMA StepIsOfComponent ==
    ASSUME [Next]_allVars
    PROVE  /\ component' = component
           /\ [Boot!Next]_appVars
           /\ component = "lifecycle" => [Lifecycle!Next]_commandVars
           /\ component = "scope" => [Scope!Next]_scopeVars
           /\ component = "filling" => [Filling!Next]_logVars
           /\ component = "timed" => [Timed!Next]_logVars
           /\ component = "alone" => [Alone!Next]_adapterVars
<1>1. CASE UNCHANGED allVars
  BY <1>1 DEF allVars, requestVars
<1>2. CASE component = "boot" /\ Boot!Next /\ OnlyApp
  BY <1>2 DEF OnlyApp, requestVars
<1>3. CASE /\ UNCHANGED <<component, appVars, logVars, requestVars>>
           /\ \/ component = "alone" /\ Alone!Next
              \/ component # "alone"
  BY <1>3 DEF requestVars
<1>4. CASE /\ UNCHANGED <<component, appVars, adapterVars, requestVars>>
           /\ \/ component = "filling" /\ Filling!Next
              \/ component = "timed" /\ Timed!Next
              \/ component = "full"
  BY <1>4 DEF requestVars
<1>5. CASE RequestsNext /\ UNCHANGED <<appVars, adapterVars, logVars>>
  <2>1. component' = component
    BY <1>5 DEF RequestsNext
  <2>2. component = "lifecycle" => [Lifecycle!Next]_commandVars
    BY <1>5 DEF RequestsNext, Served, Around
  <2>3. component = "scope" => [Scope!Next]_scopeVars
    BY <1>5 DEF RequestsNext, Served, Around
  <2> QED
    BY <1>5, <2>1, <2>2, <2>3
<1> QED
  BY <1>1, <1>2, <1>3, <1>4, <1>5 DEF Next, OnlyConfig, OnlyAdapters, OnlyLog

\* The inductive invariant of the runtime.
THEOREM RuntimeInvariance == Spec => []RuntimeInv
<1>1. Init => RuntimeInv
  <2> SUFFICES ASSUME Init PROVE RuntimeInv
    OBVIOUS
  <2>1. Boot!Init /\ RequestsInit
    BY DEF Init
  <2>2. component = "lifecycle" => Lifecycle!Init
    BY <2>1 DEF RequestsInit
  <2>3. component = "scope" => Scope!Init
    BY <2>1 DEF RequestsInit
  <2>4. /\ component = "filling" => Filling!Init
        /\ component = "timed" => Timed!Init
        /\ component = "alone" => Alone!Init
    BY DEF Init
  <2> QED
    BY <2>1, <2>2, <2>3, <2>4, OrderBegins, LifecycleBegin, ScopeBegins, BufferBegins,
       TimedBegins, AdaptersBegin DEF RuntimeInv
<1>2. RuntimeInv /\ [Next]_allVars => RuntimeInv'
  BY StepIsOfComponent, OrderStep, LifecycleStep, ScopeStepKeeps, BufferStep, TimedStep,
     AdapterStep
  DEF RuntimeInv
<1> QED
  BY <1>1, <1>2, PTL DEF Spec

\* Threads that log and threads that flush leave every message of a channel in
\* exactly one place: the buffer, one thread's batch, delivered or lost; and when
\* only the timer flushes, messages are delivered in the order they were logged.
THEOREM MessagesStayInPlace ==
    Spec => [](/\ component = "filling" => Filling!EachMessageInOnePlace
               /\ component = "timed" => Timed!DeliveredInOrder)
<1>1. RuntimeInv =>
        /\ component = "filling" => Filling!EachMessageInOnePlace
        /\ component = "timed" => Timed!DeliveredInOrder
  BY PlacesFollow, OrderFollowsTime DEF RuntimeInv
<1> QED
  BY <1>1, RuntimeInvariance, PTL

\* With one task, start() reaches every adapter that is registered when it ends,
\* also one registered meanwhile, and stop() leaves none running.
THEOREM AdaptersAreReached == Spec => AdaptersFollow
<1>1. RuntimeInv /\ [Next]_allVars =>
        [component = "alone" => Alone!ReachesAll /\ Alone!StopsAll]_allVars
  BY StepIsOfComponent, AdaptersFollowSteps DEF RuntimeInv
<1> QED
  BY <1>1, RuntimeInvariance, PTL DEF Spec, AdaptersFollow

\* Commands that call each other keep each lock exactly for the lifecycles
\* that took it, whatever raises, times out or is retried.
THEOREM LocksStayOfLifecycles == Spec => []LocksAreOfLifecycles
<1>1. RuntimeInv => LocksAreOfLifecycles
  BY LocksFollow DEF RuntimeInv, LocksAreOfLifecycles
<1> QED
  BY <1>1, RuntimeInvariance, PTL

\* What a run tells its listeners agrees with its exit code.
THEOREM EndsAreReported == Spec => []EndIsReported
<1>1. RuntimeInv => EndIsReported
  BY EndsAreTold DEF RuntimeInv, EndIsReported
<1> QED
  BY <1>1, RuntimeInvariance, PTL

\* However the tasks of a scope interleave, a service that is made neither twice
\* at once nor while the scope closes is in the scope or closed, and closed once.
THEOREM ResolvedStaysClosed == Spec => []ResolvedIsClosed
<1>1. RuntimeInv => ResolvedIsClosed
  BY DEF RuntimeInv, ResolvedIsClosed, ScopeInv, Scope!ResolvedIsClosed
<1> QED
  BY <1>1, RuntimeInvariance, PTL

\* No provider boots before all of the list have registered, and a booted
\* application has booted all of them, whatever tasks make meanwhile.
THEOREM BootIsOrdered == Spec => [](Boot!BootFollowsRegister /\ Boot!BootedMeansAllBooted)
<1>1. RuntimeInv => Boot!BootFollowsRegister /\ Boot!BootedMeansAllBooted
  BY OrderFollows DEF RuntimeInv
<1> QED
  BY <1>1, RuntimeInvariance, PTL

\* If no deferred provider is filed under two keys, also each boots at most once
\* per boot().
THEOREM BootStaysInOrder == OneKeyEach /\ Spec => []BootsInOrder
<1> SUFFICES ASSUME OneKeyEach PROVE Spec => []BootsInOrder
  OBVIOUS
<1>1. Init => OnceInv
  BY OnceBegins DEF Init
<1>2. OnceInv /\ [Next]_allVars => OnceInv'
  BY StepIsOfComponent, OnceStep
<1>3. OnceInv => BootsInOrder
  BY OrderFollows, OnceFollows DEF OnceInv, BootsInOrder
<1> QED
  BY <1>1, <1>2, <1>3, PTL DEF Spec
===============================================================================
