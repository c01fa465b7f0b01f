----------------------------- MODULE CommandLock -----------------------------
(***************************************************************************)
(* The lock file of one console command: CommandLock in                    *)
(* src/core/console/lock.py and the part of _execute_lifecycle() in        *)
(* src/core/console/console_application.py that acquires and releases it.  *)
(*                                                                         *)
(* Each process is one invocation of the command, with a pid of its own;   *)
(* the file system is what they share, and every system call of acquire()  *)
(* is a step: exists, read, unlink, open for writing, write.  Staleness    *)
(* checks (the age of the lock, kill(pid, 0)) belong to the step that      *)
(* decides on them.  An open file may be unlinked before it is written:    *)
(* linked[p] says whether the file p opened is still the one at the path.  *)
(*                                                                         *)
(* Left out: is_locked() and clear_all(), which the console does not use.  *)
(* A definition whose name ends in _ and a slip (Releases_Never) is a      *)
(* mutant of the definition it is named after; nothing uses it.            *)
(***************************************************************************)
EXTENDS Naturals, FiniteSets

CONSTANTS
    Processes,      \* the invocations of the command
    NoPid,          \* not a process: the file is empty
    Waiting,        \* the invocations with a lock timeout (with_lock(timeout=...))
    MayAge,         \* whether a lock may get older than 86400 seconds
    MayCrash        \* whether a process may be killed

ASSUME NoPidAssumption == NoPid \notin Processes
ASSUME ConstantsAssumption ==
    Waiting \subseteq Processes /\ MayAge \in BOOLEAN /\ MayCrash \in BOOLEAN

VARIABLES
    file,           \* the lock file: does it exist, whose pid does it name, is it old
    pc,             \* per process its next step
    info,           \* per process the pid and age _read_lock() returned
    linked          \* per process: the file it opened is still at the path

vars == <<file, pc, info, linked>>

File == [exists : BOOLEAN, pid : Processes \cup {NoPid}, old : BOOLEAN]
NoFile == [exists |-> FALSE, pid |-> NoPid, old |-> FALSE]
EmptyFile == [exists |-> TRUE, pid |-> NoPid, old |-> FALSE]

Acquiring == {"exists", "read", "decide", "unlink", "recheck", "open", "write"}
Steps == Acquiring \cup {"idle", "wait", "held", "done", "dead"}

Init ==
    /\ file = NoFile
    /\ pc = [p \in Processes |-> "idle"]
    /\ info = [p \in Processes |-> NoFile]
    /\ linked = [p \in Processes |-> FALSE]

-----------------------------------------------------------------------------

Goto(p, step) == pc' = [pc EXCEPT ![p] = step]

\* os.kill(pid, 0) finds the process.
IsAlive(q) == pc[q] \notin {"done", "dead"}

IsStale_NoKill(f) == f.pid # NoPid

\* info and _is_stale(info): an unreadable file is never stale.
IsStale(f) == f.pid # NoPid /\ (f.old \/ ~ IsAlive(f.pid))

\* The command starts: acquire() is entered.
Start(p) ==
    /\ pc[p] = "idle"
    /\ Goto(p, "exists")
    /\ UNCHANGED <<file, info, linked>>

CheckExists(p) ==
    /\ pc[p] = "exists"
    /\ Goto(p, IF file.exists THEN "read" ELSE "open")
    /\ UNCHANGED <<file, info, linked>>

ReadLock(p) ==
    /\ pc[p] = "read"
    /\ info' = [info EXCEPT ![p] = file]
    /\ Goto(p, "decide")
    /\ UNCHANGED <<file, linked>>

\* Remove a stale lock, wait for it, or give up (CommandLockException).
Decide(p) ==
    /\ pc[p] = "decide"
    /\ Goto(p, IF IsStale(info[p]) THEN "unlink" ELSE IF p \in Waiting THEN "wait" ELSE "done")
    /\ UNCHANGED <<file, info, linked>>

\* path.unlink(missing_ok=True): whatever file is there now.
Removes == file' = NoFile /\ linked' = [q \in Processes |-> FALSE]

UnlinkStale(p) ==
    /\ pc[p] = "unlink"
    /\ Removes
    /\ Goto(p, "open")
    /\ UNCHANGED info

WaitEnds_NoDeadline(p) ==
    /\ pc[p] = "wait"
    /\ ~ file.exists
    /\ Goto(p, "recheck")
    /\ UNCHANGED <<file, info, linked>>

\* The polling loop ends: the file is gone, or the deadline has passed.
WaitEnds(p) ==
    /\ pc[p] = "wait"
    /\ Goto(p, "recheck")
    /\ UNCHANGED <<file, info, linked>>

Recheck_Never(p) ==
    /\ pc[p] = "recheck"
    /\ Goto(p, "open")
    /\ UNCHANGED <<file, info, linked>>

Recheck(p) ==
    /\ pc[p] = "recheck"
    /\ Goto(p, IF file.exists THEN "done" ELSE "open")
    /\ UNCHANGED <<file, info, linked>>

\* write_text() opens the file, which creates or truncates it ...
OpenLock(p) ==
    /\ pc[p] = "open"
    /\ file' = EmptyFile
    /\ linked' = [linked EXCEPT ![p] = TRUE]
    /\ Goto(p, "write")
    /\ UNCHANGED info

\* ... and writes the pid and the time into what it opened.
Written(p) == IF linked[p] THEN [exists |-> TRUE, pid |-> p, old |-> FALSE] ELSE file

WriteLock(p) ==
    /\ pc[p] = "write"
    /\ file' = Written(p)
    /\ Goto(p, "held")
    /\ UNCHANGED <<info, linked>>

\* What release() does to the file.
Releases_Never(p) == UNCHANGED <<file, linked>>

Releases(p) == Removes

\* The command is over, well or badly: the finally clause releases the lock.
Release(p) ==
    /\ pc[p] = "held"
    /\ Releases(p)
    /\ Goto(p, "done")
    /\ UNCHANGED info

\* The command runs for more than a day.
Age ==
    /\ MayAge
    /\ file.pid # NoPid
    /\ ~ file.old
    /\ file' = [file EXCEPT !.old = TRUE]
    /\ UNCHANGED <<pc, info, linked>>

\* The process is killed; its lock file stays.
Crash(p) ==
    /\ MayCrash
    /\ pc[p] \in Acquiring \cup {"wait", "held"}
    /\ Goto(p, "dead")
    /\ UNCHANGED <<file, info, linked>>

ProcessStep(p) ==
    \/ CheckExists(p) \/ ReadLock(p) \/ Decide(p) \/ UnlinkStale(p)
    \/ WaitEnds(p) \/ Recheck(p)
    \/ OpenLock(p) \/ WriteLock(p) \/ Release(p)

Next ==
    \/ \E p \in Processes : Start(p) \/ ProcessStep(p) \/ Crash(p)
    \/ Age

Spec == Init /\ [][Next]_vars

\* Every process that runs goes on; a deadline passes.
FairSpec == Spec /\ \A p \in Processes : WF_vars(ProcessStep(p))

\* Invocations far enough apart: no process takes a step of acquire() while
\* another is between looking at the lock and holding it.
Alone(p) == \A q \in Processes \ {p} : pc[q] \notin Acquiring

ApartNext ==
    \/ \E p \in Processes : ((Start(p) \/ ProcessStep(p)) /\ Alone(p)) \/ Crash(p)
    \/ \E p \in Processes : Release(p)
    \/ Age

ApartSpec == Init /\ [][ApartNext]_vars

-----------------------------------------------------------------------------

\* The processes that opened the lock file and have not released it.
Users == {p \in Processes : pc[p] \in {"write", "held"}}

\* Every variable has its type, and only an existing file has a content.
TypeOK ==
    /\ file \in File
    /\ ~ file.exists => file = NoFile
    /\ pc \in [Processes -> Steps]
    /\ info \in [Processes -> File]
    /\ linked \in [Processes -> BOOLEAN]

\* A lock file is there only while an invocation needs it, or because one
\* was killed: however the invocations race and remove each other's file,
\* once all of them are over without a kill nothing is locked.
NoLockLeftBehind ==
    file.exists => Users # {} \/ \E p \in Processes : pc[p] = "dead"

\* A pid is in the lock file only if its process holds the lock or was killed.
LockNamesHolder ==
    file.pid # NoPid => pc[file.pid] \in {"held", "dead"}

\* "Command ... is already running": the command runs once at a time.
MutualExclusion ==
    \A p, q \in Processes : pc[p] = "held" /\ pc[q] = "held" => p = q

\* Every invocation comes to its end: acquire() returns, whatever happens to
\* the holder of the lock it waits for.
EveryInvocationEnds ==
    \A p \in Processes : pc[p] # "idle" ~> pc[p] \in {"done", "dead"}

\* How far an invocation is, to a caller who sees no lock file.
Phase(p) ==
    CASE pc[p] = "idle" -> "idle"
      [] pc[p] = "held" -> "running"
      [] pc[p] = "done" -> "over"
      [] pc[p] = "dead" -> "killed"
      [] OTHER -> "trying"

Mutex == INSTANCE CommandMutex WITH phase <- [p \in Processes |-> Phase(p)]

\* Acquisitions that stay apart implement the lock the command asked for:
\* nobody enters beside another, and an invocation that is refused was not
\* the only one.
ImplementsMutex == Mutex!Spec
=============================================================================
