---------------------------- MODULE MCCommandLock ----------------------------
(* Instances of CommandLock for TLC. *)
EXTENDS CommandLock

CONSTANTS p1, p2, p3

MCProcesses == {p1, p2, p3}
Pair == {p1, p2}
MCWaiting == {p2, p3}
=============================================================================
