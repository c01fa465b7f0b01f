-------------------------- MODULE CommandLockProofs --------------------------
(***************************************************************************)
(* Proofs about CommandLock, for any set of processes.  Of every behaviour: *)
(* no lock is left behind, and the lock names who holds it.  Of behaviours *)
(* in which acquisitions stay apart and no lock gets older than a day:     *)
(* mutual exclusion, and that they implement CommandMutex.  The inductive  *)
(* invariant says who may be where while a process holds the lock, that    *)
(* the lock file then names it, and who knows of another invocation.       *)
(***************************************************************************)
EXTENDS CommandLock, TLAPS

IInv == TypeOK /\ NoLockLeftBehind /\ LockNamesHolder

\* The lock file is intact while p holds the lock.
HolderHasFile ==
    \A p \in Processes : pc[p] = "held" => file = [exists |-> TRUE, pid |-> p, old |-> FALSE]

\* One process is in acquire() at a time, waiting apart.
OneAcquires ==
    \A p, q \in Processes : pc[p] \in Acquiring /\ pc[q] \in Acquiring => p = q

\* What a process in acquire() has found out about the holder.
AcquirerKnows ==
    \A p, q \in Processes : pc[q] = "held" =>
        /\ pc[p] \notin {"unlink", "open", "write"}
        /\ pc[p] = "decide" => info[p].pid = q /\ ~ info[p].old

WriterHasFile ==
    \A p \in Processes : pc[p] = "write" => linked[p]

ApartInv ==
    TypeOK /\ HolderHasFile /\ OneAcquires /\ AcquirerKnows /\ WriterHasFile

-----------------------------------------------------------------------------

\* No process and no file: both invariants hold.
LEMMA InitInv == Init => IInv /\ ApartInv
  BY NoPidAssumption DEF Init, IInv, ApartInv, TypeOK, NoLockLeftBehind, LockNamesHolder,
     HolderHasFile, OneAcquires, AcquirerKnows, WriterHasFile, NoFile, File, Steps, Acquiring, Users

\* Every step preserves the types.
LEMMA TypeInv == TypeOK /\ [Next]_vars => TypeOK'
<1> SUFFICES ASSUME TypeOK, [Next]_vars PROVE TypeOK'
  OBVIOUS
<1> USE DEF TypeOK, Goto, Steps, Acquiring
<1>1. ASSUME NEW p \in Processes, Start(p) \/ CheckExists(p) \/ Decide(p) \/ WaitEnds(p) \/ Recheck(p) \/ Crash(p)
      PROVE  TypeOK'
  BY <1>1 DEF Start, CheckExists, Decide, WaitEnds, Recheck, Crash
<1>2. ASSUME NEW p \in Processes, ReadLock(p) PROVE TypeOK'
  BY <1>2 DEF ReadLock
<1>3. ASSUME NEW p \in Processes, UnlinkStale(p) \/ Release(p) PROVE TypeOK'
  <2>1. file' = NoFile /\ NoFile \in File
    BY <1>3 DEF UnlinkStale, Release, Releases, Removes, NoFile, File
  <2>2. /\ pc' \in [Processes -> Steps] /\ UNCHANGED info
        /\ linked' \in [Processes -> BOOLEAN]
    BY <1>3 DEF UnlinkStale, Release, Releases, Removes
  <2> QED
    BY <2>1, <2>2
<1>4. ASSUME NEW p \in Processes, OpenLock(p) \/ WriteLock(p) PROVE TypeOK'
  <2>1. EmptyFile \in File /\ EmptyFile.exists
    BY DEF EmptyFile, File
  <2>2. LET f == [exists |-> TRUE, pid |-> p, old |-> FALSE] IN f \in File /\ f.exists
    BY DEF File
  <2>3. file' \in File /\ (~ file'.exists => file' = NoFile)
    BY <1>4, <2>1, <2>2 DEF OpenLock, WriteLock, Written
  <2>4. /\ pc' \in [Processes -> Steps] /\ UNCHANGED info
        /\ linked' \in [Processes -> BOOLEAN]
    BY <1>4 DEF OpenLock, WriteLock
  <2> QED
    BY <2>3, <2>4
<1>5. ASSUME Age PROVE TypeOK'
  <2>1. file.exists
    BY <1>5 DEF Age, NoFile
  <2>2. file' \in File /\ file'.exists
    BY <1>5, <2>1 DEF Age, File
  <2> QED
    BY <1>5, <2>2 DEF Age
<1>6. ASSUME UNCHANGED vars PROVE TypeOK'
  BY <1>6 DEF vars
<1> QED
  BY <1>1, <1>2, <1>3, <1>4, <1>5, <1>6 DEF Next, ProcessStep

\* Every step, racing or not, preserves the first invariant.
LEMMA NextInv == IInv /\ [Next]_vars => IInv'
<1> SUFFICES ASSUME IInv, [Next]_vars PROVE NoLockLeftBehind' /\ LockNamesHolder'
  BY TypeInv DEF IInv
<1>0. TypeOK /\ NoLockLeftBehind /\ LockNamesHolder /\ TypeOK'
  BY TypeInv DEF IInv
<1> USE DEF TypeOK, NoLockLeftBehind, LockNamesHolder, Users, Goto
<1>1. ASSUME NEW p \in Processes, Start(p) \/ CheckExists(p) \/ ReadLock(p) \/ Decide(p) \/ WaitEnds(p) \/ Recheck(p)
      PROVE  NoLockLeftBehind' /\ LockNamesHolder'
  <2>1. /\ UNCHANGED file
        /\ pc[p] \notin {"write", "held", "dead"}
        /\ \E step \in Steps : pc' = [pc EXCEPT ![p] = step]
    BY <1>1 DEF Start, CheckExists, ReadLock, Decide, WaitEnds, Recheck, Steps, Acquiring
  <2>2. \A q \in Processes : q # p => pc'[q] = pc[q]
    BY <1>0, <2>1
  <2> QED
    BY <1>0, <2>1, <2>2 DEF File
<1>2. ASSUME NEW p \in Processes, UnlinkStale(p) \/ Release(p)
      PROVE  NoLockLeftBehind' /\ LockNamesHolder'
  BY <1>0, <1>2 DEF UnlinkStale, Release, Releases, Removes, NoFile
<1>3. ASSUME NEW p \in Processes, OpenLock(p) PROVE NoLockLeftBehind' /\ LockNamesHolder'
  BY <1>0, <1>3 DEF OpenLock, EmptyFile
<1>4. ASSUME NEW p \in Processes, WriteLock(p) PROVE NoLockLeftBehind' /\ LockNamesHolder'
  BY <1>0, <1>4, NoPidAssumption DEF WriteLock, Written, File
<1>5. ASSUME NEW p \in Processes, Crash(p) PROVE NoLockLeftBehind' /\ LockNamesHolder'
  BY <1>0, <1>5 DEF Crash, File
<1>6. ASSUME Age PROVE NoLockLeftBehind' /\ LockNamesHolder'
  BY <1>0, <1>6 DEF Age, File
<1>7. ASSUME UNCHANGED vars PROVE NoLockLeftBehind' /\ LockNamesHolder'
  BY <1>0, <1>7 DEF vars
<1> QED
  BY <1>1, <1>2, <1>3, <1>4, <1>5, <1>6, <1>7 DEF Next, ProcessStep

\* Steps of acquisitions that stay apart preserve the second invariant.
LEMMA ApartNextInv == ~ MayAge /\ ApartInv /\ [ApartNext]_vars => ApartInv'
<1> SUFFICES ASSUME ~ MayAge, ApartInv, [ApartNext]_vars
             PROVE  HolderHasFile' /\ OneAcquires' /\ AcquirerKnows' /\ WriterHasFile'
  BY TypeInv DEF ApartInv, Next, ApartNext, ProcessStep
<1>0. TypeOK /\ HolderHasFile /\ OneAcquires /\ AcquirerKnows /\ WriterHasFile
  BY DEF ApartInv
<1> USE DEF TypeOK, HolderHasFile, OneAcquires, AcquirerKnows, WriterHasFile, Goto, Acquiring, Alone
<1> DEFINE Goal == HolderHasFile' /\ OneAcquires' /\ AcquirerKnows' /\ WriterHasFile'
<1>1. ASSUME NEW p \in Processes, Start(p), Alone(p) PROVE Goal
  BY <1>0, <1>1 DEF Start
<1>2. ASSUME NEW p \in Processes, CheckExists(p) \/ Recheck(p), Alone(p) PROVE Goal
  BY <1>0, <1>2 DEF CheckExists, Recheck
<1>3. ASSUME NEW p \in Processes, ReadLock(p), Alone(p) PROVE Goal
  BY <1>0, <1>3 DEF ReadLock
<1>4. ASSUME NEW p \in Processes, Decide(p), Alone(p) PROVE Goal
  BY <1>0, <1>4 DEF Decide, IsStale, IsAlive
<1>5. ASSUME NEW p \in Processes, WaitEnds(p), Alone(p) PROVE Goal
  BY <1>0, <1>5 DEF WaitEnds
<1>6. ASSUME NEW p \in Processes, UnlinkStale(p), Alone(p) PROVE Goal
  BY <1>0, <1>6 DEF UnlinkStale, Removes
<1>7. ASSUME NEW p \in Processes, OpenLock(p), Alone(p) PROVE Goal
  BY <1>0, <1>7 DEF OpenLock
<1>8. ASSUME NEW p \in Processes, WriteLock(p), Alone(p) PROVE Goal
  BY <1>0, <1>8 DEF WriteLock, Written
<1>9. ASSUME NEW p \in Processes, Release(p) PROVE Goal
  BY <1>0, <1>9 DEF Release, Releases, Removes
<1>10. ASSUME NEW p \in Processes, Crash(p) PROVE Goal
  BY <1>0, <1>10 DEF Crash
<1>11. ASSUME Age PROVE Goal
  BY <1>11 DEF Age
<1>12. ASSUME UNCHANGED vars PROVE Goal
  BY <1>0, <1>12 DEF vars
<1> QED
  BY <1>1, <1>2, <1>3, <1>4, <1>5, <1>6, <1>7, <1>8, <1>9, <1>10, <1>11, <1>12
     DEF ApartNext, ProcessStep

-----------------------------------------------------------------------------

\* Once every invocation is over without a kill, no lock file is there.
THEOREM LockIsRemoved == Spec => []NoLockLeftBehind
<1>1. IInv => NoLockLeftBehind
  BY DEF IInv
<1> QED
  BY <1>1, InitInv, NextInv, PTL DEF Spec

\* The pid in the lock file is that of a holder or of a killed process.
THEOREM LockIsNamed == Spec => []LockNamesHolder
<1>1. IInv => LockNamesHolder
  BY DEF IInv
<1> QED
  BY <1>1, InitInv, NextInv, PTL DEF Spec

\* Acquisitions that stay apart, none older than a day, exclude each other,
\* whatever waits, gives up or is killed.
THEOREM ApartExclusion == ~ MayAge /\ ApartSpec => []MutualExclusion
<1>1. ApartInv => MutualExclusion
  BY DEF ApartInv, HolderHasFile, MutualExclusion
<1>2. CASE ~ MayAge
  BY <1>1, <1>2, InitInv, ApartNextInv, PTL DEF ApartSpec
<1>3. CASE MayAge
  BY <1>3
<1> QED
  BY <1>2, <1>3

-----------------------------------------------------------------------------

\* A process that has seen a lock file has seen another invocation's.
KnowsOther ==
    \A p \in Processes : pc[p] \in {"read", "decide", "wait", "recheck"} =>
        \E q \in Processes \ {p} : pc[q] # "idle"

RefinementInv == IInv /\ ApartInv /\ KnowsOther

\* KnowsOther stays: CheckExists only goes on to read a file that is another
\* process's, and nobody becomes idle again.
LEMMA KnowsOtherInv ==
  TypeOK /\ NoLockLeftBehind /\ KnowsOther /\ [Next]_vars => KnowsOther'
<1> SUFFICES ASSUME TypeOK, NoLockLeftBehind, KnowsOther, [Next]_vars PROVE KnowsOther'
  OBVIOUS
<1> USE DEF TypeOK, Goto
<1>1. ASSUME NEW q \in Processes, pc[q] # "idle" PROVE pc'[q] # "idle"
  BY <1>1 DEF Next, ProcessStep, Start, CheckExists, ReadLock, Decide, UnlinkStale, WaitEnds,
     Recheck, OpenLock, WriteLock, Release, Age, Crash, vars
<1>2. SUFFICES ASSUME NEW p \in Processes, pc'[p] \in {"read", "decide", "wait", "recheck"}
               PROVE  \E q \in Processes \ {p} : pc[q] # "idle"
  BY <1>1 DEF KnowsOther
<1>3. pc[p] \in {"read", "decide", "wait", "recheck"} \/ CheckExists(p)
  BY <1>2 DEF Next, ProcessStep, Start, CheckExists, ReadLock, Decide, UnlinkStale, WaitEnds,
     Recheck, OpenLock, WriteLock, Release, Age, Crash, vars
<1>4. CASE pc[p] \in {"read", "decide", "wait", "recheck"}
  BY <1>4 DEF KnowsOther
<1>5. CASE CheckExists(p)
  <2>1. file.exists /\ pc[p] = "exists"
    BY <1>2, <1>5 DEF CheckExists
  <2>2. PICK q \in Processes : pc[q] \in {"write", "held", "dead"}
    BY <2>1 DEF NoLockLeftBehind, Users
  <2> QED
    BY <2>1, <2>2
<1> QED
  BY <1>3, <1>4, <1>5

LEMMA ApartIsNext == [ApartNext]_vars => [Next]_vars
  BY DEF ApartNext, Next, ProcessStep

\* A step of one process that changes only its own phase.
LEMMA PhaseMoves ==
  ASSUME TypeOK, NEW p \in Processes, NEW step, pc' = [pc EXCEPT ![p] = step]
  PROVE  [q \in Processes |-> Phase(q)'] = [[q \in Processes |-> Phase(q)] EXCEPT ![p] = Phase(p)']
  BY DEF TypeOK, Phase

\* Every step of the lock file protocol is a step of the mutex or a stutter.
LEMMA StepImplements ==
  ASSUME TypeOK, RefinementInv, [ApartNext]_vars, ~ MayAge
  PROVE  [Mutex!Next]_([p \in Processes |-> Phase(p)])
<1> DEFINE phase == [p \in Processes |-> Phase(p)]
<1>0. /\ TypeOK /\ HolderHasFile /\ AcquirerKnows /\ NoLockLeftBehind /\ KnowsOther
      /\ OneAcquires
  BY DEF RefinementInv, ApartInv, IInv
<1>1. ASSUME NEW p \in Processes, Start(p) PROVE Mutex!Begin(p)
  <2>1. pc' = [pc EXCEPT ![p] = "exists"] /\ pc[p] = "idle" /\ Phase(p)' = "trying"
    BY <1>0, <1>1 DEF Start, Goto, Phase, TypeOK
  <2> QED
    BY <1>0, <2>1, PhaseMoves DEF Mutex!Begin, Mutex!Moves, Phase
<1>2. ASSUME NEW p \in Processes,
             CheckExists(p) \/ ReadLock(p) \/ UnlinkStale(p) \/ WaitEnds(p) \/ OpenLock(p)
      PROVE  UNCHANGED phase
  <2>1. PICK step \in Acquiring : pc' = [pc EXCEPT ![p] = step] /\ pc[p] \in Acquiring \cup {"wait"}
    BY <1>2 DEF CheckExists, ReadLock, UnlinkStale, WaitEnds, OpenLock, Goto, Acquiring
  <2>2. Phase(p) = "trying" /\ Phase(p)' = "trying"
    BY <1>0, <2>1 DEF Phase, Acquiring, TypeOK
  <2>3. phase' = [phase EXCEPT ![p] = "trying"]
    BY <1>0, <2>1, <2>2, PhaseMoves
  <2> QED
    BY <2>2, <2>3
<1>3. ASSUME NEW p \in Processes, Decide(p) \/ Recheck(p)
      PROVE  Mutex!Refuse(p) \/ UNCHANGED phase
  <2>1. PICK step \in {"unlink", "wait", "open", "done"} : pc' = [pc EXCEPT ![p] = step]
    BY <1>3 DEF Decide, Recheck, Goto
  <2>2. phase' = [phase EXCEPT ![p] = Phase(p)']
    BY <1>0, <2>1, PhaseMoves
  <2>3. pc[p] \in {"decide", "recheck"} /\ Phase(p) = "trying"
    BY <1>3 DEF Decide, Recheck, Phase
  <2>4. Phase(p)' \in {"trying", "over"}
    BY <1>0, <2>1 DEF Phase, TypeOK
  <2>5. PICK q \in Processes \ {p} : pc[q] # "idle"
    BY <1>0, <2>3 DEF KnowsOther
  <2>6. Phase(q) # "idle"
    BY <2>5 DEF Phase
  <2>7. CASE Phase(p)' = "over"
    BY <2>2, <2>3, <2>5, <2>6, <2>7 DEF Mutex!Refuse, Mutex!Moves
  <2>8. CASE Phase(p)' = "trying"
    BY <2>2, <2>3, <2>8
  <2> QED
    BY <2>4, <2>7, <2>8
<1>4. ASSUME NEW p \in Processes, WriteLock(p) PROVE Mutex!Enter(p)
  <2>1. pc' = [pc EXCEPT ![p] = "held"] /\ pc[p] = "write" /\ Phase(p)' = "running"
    BY <1>0, <1>4 DEF WriteLock, Goto, Phase, TypeOK
  <2>2. \A q \in Processes : pc[q] # "held"
    BY <1>0, <2>1 DEF AcquirerKnows
  <2>3. \A q \in Processes : Phase(q) # "running"
    BY <2>2 DEF Phase
  <2> QED
    BY <1>0, <2>1, <2>3, PhaseMoves DEF Mutex!Enter, Mutex!Moves, Phase
<1>5. ASSUME NEW p \in Processes, Release(p) PROVE Mutex!Leave(p)
  <2>1. pc' = [pc EXCEPT ![p] = "done"] /\ pc[p] = "held" /\ Phase(p)' = "over"
    BY <1>0, <1>5 DEF Release, Goto, Phase, TypeOK
  <2> QED
    BY <1>0, <2>1, PhaseMoves DEF Mutex!Leave, Mutex!Moves, Phase
<1>6. ASSUME NEW p \in Processes, Crash(p) PROVE Mutex!Die(p)
  <2>1. /\ pc' = [pc EXCEPT ![p] = "dead"] /\ pc[p] \in Acquiring \cup {"wait", "held"}
        /\ Phase(p)' = "killed"
    BY <1>0, <1>6 DEF Crash, Goto, Phase, TypeOK
  <2>2. Phase(p) \in {"trying", "running"}
    BY <2>1 DEF Phase, Acquiring
  <2> QED
    BY <1>0, <2>1, <2>2, PhaseMoves DEF Mutex!Die, Mutex!Moves
<1>7. ASSUME UNCHANGED vars PROVE UNCHANGED phase
  BY <1>7 DEF vars, Phase
<1>8. ~ Age
  BY DEF Age
<1> QED
  BY <1>1, <1>2, <1>3, <1>4, <1>5, <1>6, <1>7, <1>8 DEF ApartNext, ProcessStep, Mutex!Next

\* Acquisitions that stay apart implement the mutex.
THEOREM ApartImplementsMutex == ~ MayAge /\ ApartSpec => ImplementsMutex
<1>1. Init => RefinementInv /\ Mutex!Init
  BY InitInv DEF RefinementInv, IInv, Init, KnowsOther, Mutex!Init, Phase
<1>2. ~ MayAge /\ RefinementInv /\ [ApartNext]_vars => RefinementInv'
  BY ApartNextInv, ApartIsNext, NextInv, KnowsOtherInv DEF RefinementInv, IInv
<1>3. ~ MayAge /\ RefinementInv /\ [ApartNext]_vars
      => [Mutex!Next]_([p \in Processes |-> Phase(p)])
  BY StepImplements DEF RefinementInv, ApartInv
<1>4. CASE ~ MayAge
  BY <1>1, <1>2, <1>3, <1>4, PTL DEF ApartSpec, ImplementsMutex, Mutex!Spec
<1>5. CASE MayAge
  BY <1>5
<1> QED
  BY <1>4, <1>5
=============================================================================
