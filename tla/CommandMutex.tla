----------------------------- MODULE CommandMutex -----------------------------
(***************************************************************************)
(* What "without overlapping" promises of a console command: an invocation *)
(* runs alone, and is only turned away because there has been another.     *)
(* CommandLock implements this with a lock file, as long as acquisitions   *)
(* do not race and no lock gets older than a day.                          *)
(***************************************************************************)
CONSTANT Processes      \* the invocations of the command

VARIABLE phase          \* per invocation how far it is

Phases == {"idle", "trying", "running", "over", "killed"}

Init == phase = [p \in Processes |-> "idle"]

Moves(p, from, to) == phase[p] \in from /\ phase' = [phase EXCEPT ![p] = to]

Begin(p) == Moves(p, {"idle"}, "trying")

Enter(p) ==
    /\ \A q \in Processes : phase[q] # "running"
    /\ Moves(p, {"trying"}, "running")

\* CommandLockException: another invocation has been started.
Refuse(p) ==
    /\ \E q \in Processes \ {p} : phase[q] # "idle"
    /\ Moves(p, {"trying"}, "over")

Leave(p) == Moves(p, {"running"}, "over")

Die(p) == Moves(p, {"trying", "running"}, "killed")

Next == \E p \in Processes : Begin(p) \/ Enter(p) \/ Refuse(p) \/ Leave(p) \/ Die(p)

Spec == Init /\ [][Next]_phase
=============================================================================
