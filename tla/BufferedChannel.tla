--------------------------- MODULE BufferedChannel ---------------------------
(***************************************************************************)
(* The buffered log channel, src/core/log/buffer.py: threads that log      *)
(* (_collect) and threads that flush (_do_flush), the timer thread and the *)
(* callers of flush() and teardown() among them, around one                *)
(* threading.Lock, which is not reentrant.                                 *)
(*                                                                         *)
(* Loguru calls a sink under the lock of its handler (sinkLock), so that   *)
(* two threads are never in _collect together.  What on_flush does with a  *)
(* batch is one step that returns or raises; the exception is swallowed    *)
(* and the batch is gone.                                                  *)
(*                                                                         *)
(* A message is its number in the order of the appends.                    *)
(*                                                                         *)
(* A definition whose name ends in _ and a slip is a mutant of the         *)
(* definition it is named after; nothing uses it.                          *)
(***************************************************************************)
EXTENDS Naturals, Sequences, Functions

CONSTANTS
    Loggers,        \* the threads that log
    Flushers,       \* the threads that flush
    NoThread,       \* not a thread: a lock is free
    BufferSize,     \* buffer_size
    MaxMessages     \* bound: messages logged in one behaviour

Threads == Loggers \cup Flushers

ThreadsAssumption == Loggers \cap Flushers = {} /\ NoThread \notin Threads
BoundAssumption == BufferSize \in Nat \ {0} /\ MaxMessages \in Nat

VARIABLES
    pc,             \* per thread the next step of its call
    sinkLock,       \* the thread inside the sink
    lock,           \* the thread that holds _lock
    buffer,         \* _buffer
    batch,          \* per thread its copy of the buffer
    appended,       \* the number of messages appended
    delivered,      \* the messages on_flush has received, in this order
    lost            \* the messages of batches on_flush raised for

vars == <<pc, sinkLock, lock, buffer, batch, appended, delivered, lost>>

Init ==
    /\ pc = [t \in Threads |-> "idle"]
    /\ sinkLock = NoThread
    /\ lock = NoThread
    /\ buffer = << >>
    /\ batch = [t \in Threads |-> << >>]
    /\ appended = 0
    /\ delivered = << >>
    /\ lost = {}

Goes(t, from, to) == pc[t] = from /\ pc' = [pc EXCEPT ![t] = to]

-----------------------------------------------------------------------------
\* _collect()

\* A thread logs and gets hold of the sink.
EnterSink(t) ==
    /\ Goes(t, "idle", "collect")
    /\ appended < MaxMessages
    /\ sinkLock = NoThread
    /\ sinkLock' = t
    /\ UNCHANGED <<lock, buffer, batch, appended, delivered, lost>>

CollectLock(t) ==
    /\ Goes(t, "collect", "append")
    /\ lock = NoThread
    /\ lock' = t
    /\ UNCHANGED <<sinkLock, buffer, batch, appended, delivered, lost>>

\* The message is appended; when that fills the buffer _do_flush() is called
\* with _lock still held, otherwise both locks are given back.
CollectAppend(t) ==
    LET full == Len(buffer) + 1 >= BufferSize IN
    /\ Goes(t, "append", IF full THEN "flush" ELSE "idle")
    /\ buffer' = Append(buffer, appended + 1)
    /\ appended' = appended + 1
    /\ lock' = IF full THEN lock ELSE NoThread
    /\ sinkLock' = IF full THEN sinkLock ELSE NoThread
    /\ UNCHANGED <<batch, delivered, lost>>

-----------------------------------------------------------------------------
\* _do_flush()

\* The timer fires, or flush() or teardown() is called.
StartFlush(t) ==
    /\ Goes(t, "idle", "flush")
    /\ UNCHANGED <<sinkLock, lock, buffer, batch, appended, delivered, lost>>

FlushLock(t) ==
    /\ Goes(t, "flush", "copy")
    /\ lock = NoThread
    /\ lock' = t
    /\ UNCHANGED <<sinkLock, buffer, batch, appended, delivered, lost>>

FlushNothing_UntilFull(t) ==
    /\ Len(buffer) < BufferSize
    /\ Goes(t, "copy", "idle")
    /\ lock' = NoThread
    /\ UNCHANGED <<sinkLock, buffer, batch, appended, delivered, lost>>

FlushNothing(t) ==
    /\ buffer = << >>
    /\ Goes(t, "copy", "idle")
    /\ lock' = NoThread
    /\ UNCHANGED <<sinkLock, buffer, batch, appended, delivered, lost>>

FlushCopy(t) ==
    /\ buffer # << >>
    /\ Goes(t, "copy", "clear")
    /\ batch' = [batch EXCEPT ![t] = buffer]
    /\ UNCHANGED <<sinkLock, lock, buffer, appended, delivered, lost>>

\* What clear() leaves in the buffer.
Cleared_Last == SubSeq(buffer, 1, Len(buffer) - 1)
Cleared == << >>

FlushClear(t) ==
    /\ Goes(t, "clear", "deliver")
    /\ buffer' = Cleared
    /\ lock' = NoThread
    /\ UNCHANGED <<sinkLock, batch, appended, delivered, lost>>

\* on_flush(batch) returns.
Deliver(t) ==
    /\ Goes(t, "deliver", "idle")
    /\ delivered' = delivered \o batch[t]
    /\ batch' = [batch EXCEPT ![t] = << >>]
    /\ UNCHANGED <<sinkLock, lock, buffer, appended, lost>>

\* on_flush(batch) raises.
DeliverFails(t) ==
    /\ Goes(t, "deliver", "idle")
    /\ lost' = lost \cup Range(batch[t])
    /\ batch' = [batch EXCEPT ![t] = << >>]
    /\ UNCHANGED <<sinkLock, lock, buffer, appended, delivered>>

Collects(t) == CollectLock(t) \/ CollectAppend(t)

Flushes(t) ==
    \/ FlushLock(t) \/ FlushNothing(t) \/ FlushCopy(t) \/ FlushClear(t)
    \/ Deliver(t) \/ DeliverFails(t)

Next ==
    \/ \E t \in Loggers : EnterSink(t) \/ Collects(t)
    \/ \E t \in Flushers : StartFlush(t)
    \/ \E t \in Threads : Flushes(t)

Spec == Init /\ [][Next]_vars

-----------------------------------------------------------------------------

\* Every variable has its type, and _lock is held exactly between the
\* acquisition and the release in the code.
TypeOK ==
    /\ pc \in [Threads -> {"idle", "collect", "append", "flush", "copy", "clear", "deliver"}]
    /\ {sinkLock, lock} \subseteq Threads \cup {NoThread}
    /\ buffer \in Seq(1 .. appended)
    /\ batch \in [Threads -> Seq(1 .. appended)]
    /\ appended \in 0 .. MaxMessages
    /\ delivered \in Seq(1 .. appended)
    /\ lost \subseteq 1 .. appended
    /\ \A t \in Threads : pc[t] \in {"append", "copy", "clear"} => lock = t

\* Where message m is: in the buffer, or in a batch that was cut off the
\* buffer and waits for on_flush, or delivered, or lost with its batch.
Places(m) ==
    {p \in {"buffer"} : m \in Range(buffer)}
        \cup {t \in Threads : pc[t] = "deliver" /\ m \in Range(batch[t])}
        \cup {p \in {"delivered"} : m \in Range(delivered)}
        \cup {p \in {"lost"} : m \in lost}

\* Flushes race with each other and with the loggers, and yet no message is
\* dropped between copy and clear or handed to on_flush twice.
EachMessageInOnePlace ==
    /\ \A m \in 1 .. appended : \E p \in Places(m) : Places(m) = {p}
    /\ IsInjective(delivered)

\* With one flushing thread batches arrive in the order they were logged.
DeliveredInOrder ==
    \A i, j \in DOMAIN delivered : i < j => delivered[i] < delivered[j]

\* Every logged message leaves the buffer: when the buffer is full, or when
\* the timer fires.
EveryMessageLeaves ==
    \A m \in 1 .. MaxMessages : m \in Range(buffer) ~> m \notin Range(buffer)

\* A thread that logs gets out of the sink again.
EveryLogCallReturns ==
    \A t \in Loggers : pc[t] # "idle" ~> pc[t] = "idle"
=============================================================================
