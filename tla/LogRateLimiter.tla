---------------------------- MODULE LogRateLimiter ----------------------------
(***************************************************************************)
(* RateLimiter (src/core/log/sampling.py): the filter that lets the same   *)
(* message through at most MaxCount times in an interval.  It remembers    *)
(* the times of those it let through and drops the old ones when it is     *)
(* asked again; the first time a message is seen it passes unasked.        *)
(***************************************************************************)
EXTENDS Naturals, Sequences, FiniteSets, TLC

CONSTANTS
    Messages,       \* keys: level and the first 100 characters
    MaxCount, Interval,
    MaxTime,        \* bound: on the clock
    MaxAsked        \* bound: on the messages

LimitAssumption == MaxCount \in Nat \ {0} /\ Interval \in Nat \ {0}

VARIABLES
    time,
    counts,         \* _counts: message -> the times kept
    asked           \* what was logged: <<message, time, passed>>

vars == <<time, counts, asked>>

TypeOK ==
    /\ time \in 0..MaxTime
    /\ DOMAIN counts \subseteq Messages
    /\ \A m \in DOMAIN counts : counts[m] \in Seq(0..time)
    /\ asked \in Seq(Messages \X (0..time) \X BOOLEAN) /\ Len(asked) <= MaxAsked

Init == time = 0 /\ counts = <<>> /\ asked = <<>>

-----------------------------------------------------------------------------

Kept_All(times) == times
Kept(times) == SelectSeq(times, LAMBDA t : t + Interval > time)

\* Those it suppresses are not remembered.
Log(m) ==
    /\ Len(asked) < MaxAsked
    /\ LET passes == m \notin DOMAIN counts \/ Len(Kept(counts[m])) < MaxCount
           times == IF m \in DOMAIN counts THEN Kept(counts[m]) ELSE <<>>
       IN  /\ counts' = (m :> IF passes THEN Append(times, time) ELSE
                               IF Len(times) = MaxCount THEN times ELSE counts[m]) @@ counts
           /\ asked' = Append(asked, <<m, time, passes>>)
    /\ UNCHANGED time

Reset ==
    /\ asked # <<>>
    /\ counts' = <<>> /\ asked' = <<>>
    /\ UNCHANGED time

Tick == time < MaxTime /\ time' = time + 1 /\ UNCHANGED <<counts, asked>>

Next == Reset \/ Tick \/ \E m \in Messages : Log(m)

Spec == Init /\ [][Next]_vars

-----------------------------------------------------------------------------

\* A message is suppressed exactly when it has already passed MaxCount times
\* within the interval before it, whatever was logged in between.
SuppressedExactly ==
    \A i \in DOMAIN asked :
        LET earlier == {j \in 1..(i - 1) : /\ asked[j][1] = asked[i][1] /\ asked[j][3]
                                           /\ asked[j][2] + Interval > asked[i][2]}
        IN  asked[i][3] <=> Cardinality(earlier) < MaxCount
===============================================================================
