----------------------------- MODULE DatabaseLock -----------------------------
(***************************************************************************)
(* The advisory locks of src/core/database/locks.py on PostgreSQL: tasks   *)
(* of several server processes acquire and release one named lock.  Each   *)
(* statement runs in a session of its own, which checks a connection out   *)
(* of the process's pool and gives it back before the lock is used.        *)
(*                                                                         *)
(* External, modelled from how the code uses it: the server grants an      *)
(* advisory lock to a connection, which may take it again any number of    *)
(* times and keeps it, across COMMIT and ROLLBACK, until it unlocks it as  *)
(* often or is closed; SQLAlchemy's pool hands out the connection that was *)
(* given back first, opens one when none is idle, and closes the one that  *)
(* is given back when pool_size others are idle.                           *)
(*                                                                         *)
(* A definition whose name ends in _ and a slip is a mutant of the         *)
(* definition it is named after; nothing uses it.                          *)
(***************************************************************************)
EXTENDS Naturals, FiniteSets, Sequences, Functions

CONSTANTS
    Tasks,          \* the tasks that use the lock, in all processes
    Processes,      \* the processes, each with a DatabaseManager of its own
    Home,           \* the process a task runs in
    Connections,    \* the connections a process can have open: pool_size + max_overflow
    PoolSize,       \* pool_size
    NoConnection,   \* not a connection
    MaxHolds        \* bound: how often a connection takes the lock again

HomeAssumption == Home \in [Tasks -> Processes]
PoolAssumption ==
    /\ PoolSize \in Nat
    /\ NoConnection \notin Connections

VARIABLES
    pc,             \* per task where its call is
    conn,           \* per task the connection it has checked out
    idle,           \* per process the pool's queue of idle connections
    owner,          \* the process and connection the server granted the lock to
    holds           \* how often the owner holds it

vars == <<pc, conn, idle, owner, holds>>

Steps == {"idle", "work", "try", "block", "won", "held", "release", "over"}

Init ==
    /\ pc = [t \in Tasks |-> "idle"]
    /\ conn = [t \in Tasks |-> NoConnection]
    /\ idle = [p \in Processes |-> << >>]
    /\ owner = << >>
    /\ holds = 0

Own(t) == <<Home[t], conn[t]>>
Goes(t, step) == pc' = [pc EXCEPT ![t] = step]

\* The connections of the task's process that are not open.
Closed(p) ==
    Connections \ (Range(idle[p]) \cup {conn[t] : t \in {u \in Tasks : Home[u] = p}})

-----------------------------------------------------------------------------

\* A session starts and gets a connection; with none to be had it waits.
CheckOut(t, from, step) ==
    LET p == Home[t] IN
    /\ pc[t] = from
    /\ Goes(t, step)
    /\ \/ /\ idle[p] # << >>
          /\ conn' = [conn EXCEPT ![t] = Head(idle[p])]
          /\ idle' = [idle EXCEPT ![p] = Tail(@)]
       \/ /\ idle[p] = << >>
          /\ \E c \in Closed(p) : conn' = [conn EXCEPT ![t] = c]
          /\ UNCHANGED idle
    /\ UNCHANGED <<owner, holds>>

\* try_acquire(), acquire_blocking(), release(), and the sessions of the
\* task that have nothing to do with the lock.
StartTry(t) == CheckOut(t, "idle", "try")
StartBlock(t) == CheckOut(t, "idle", "block")
StartRelease(t) == CheckOut(t, "held", "release")
StartWork(t) == CheckOut(t, "idle", "work")

\* Whether the server grants the lock to the task's connection.
Grants(t) == owner = << >> \/ owner = Own(t)

\* pg_try_advisory_lock or pg_advisory_lock succeeds.
Granted(t) ==
    /\ pc[t] \in {"try", "block"}
    /\ Grants(t)
    /\ holds < MaxHolds
    /\ owner' = Own(t)
    /\ holds' = holds + 1
    /\ Goes(t, "won")
    /\ UNCHANGED <<conn, idle>>

Refused(t) ==
    /\ pc[t] = "try"
    /\ ~ Grants(t)
    /\ Goes(t, "over")
    /\ UNCHANGED <<conn, idle, owner, holds>>

\* pg_advisory_unlock: it only undoes a hold of the same connection,
\* otherwise it returns false, which nobody looks at.
Unlocked(t) ==
    IF owner = Own(t)
    THEN /\ holds' = holds - 1
         /\ owner' = IF holds = 1 THEN << >> ELSE owner
    ELSE UNCHANGED <<owner, holds>>

Unlock_NotExecuted(t) ==
    /\ pc[t] = "release"
    /\ Goes(t, "over")
    /\ UNCHANGED <<conn, idle, owner, holds>>

Unlock(t) ==
    /\ pc[t] = "release"
    /\ Unlocked(t)
    /\ Goes(t, "over")
    /\ UNCHANGED <<conn, idle>>

\* The session ends: the connection goes back, or is closed when the pool
\* is full, which ends its locks.
AfterReturn(t) == IF pc[t] = "won" THEN "held" ELSE "idle"

CheckIn(t) ==
    LET p == Home[t]
        closes == Len(idle[p]) >= PoolSize IN
    /\ pc[t] \in {"won", "over", "work"}
    /\ Goes(t, AfterReturn(t))
    /\ conn' = [conn EXCEPT ![t] = NoConnection]
    /\ idle' = IF closes THEN idle ELSE [idle EXCEPT ![p] = Append(@, conn[t])]
    /\ IF closes /\ owner = Own(t)
       THEN owner' = << >> /\ holds' = 0
       ELSE UNCHANGED <<owner, holds>>

Proceeds(t) == Granted(t) \/ Refused(t) \/ Unlock(t) \/ CheckIn(t) \/ StartRelease(t)

Next == \E t \in Tasks :
    StartTry(t) \/ StartBlock(t) \/ StartWork(t) \/ Proceeds(t)

Spec == Init /\ [][Next]_vars

-----------------------------------------------------------------------------

\* Every variable has its type, a connection is in one place only, and the
\* lock belongs to an open connection.
TypeOK ==
    /\ pc \in [Tasks -> Steps]
    /\ conn \in [Tasks -> Connections \cup {NoConnection}]
    /\ \A t \in Tasks : conn[t] = NoConnection <=> pc[t] \in {"idle", "held"}
    /\ idle \in [Processes -> Seq(Connections)]
    /\ \A p \in Processes : IsInjective(idle[p]) /\ Len(idle[p]) <= PoolSize
    /\ owner \in {<< >>} \cup (Processes \X Connections)
    /\ holds \in 0 .. MaxHolds
    /\ owner = << >> <=> holds = 0
    /\ owner # << >> => owner[2] \notin Closed(owner[1])

\* When every acquire has been released the server has the lock back.
ReleasedIsFree ==
    (\A t \in Tasks : pc[t] \in {"idle", "work"}) => owner = << >>
===============================================================================
