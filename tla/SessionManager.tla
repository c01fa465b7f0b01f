---------------------------- MODULE SessionManager ----------------------------
(***************************************************************************)
(* The device sessions of users (src/core/auth/session_manager.py).  A     *)
(* session is its number in the order of creation; address, device and the *)
(* order of list() are left out.                                           *)
(***************************************************************************)
EXTENDS Naturals, Sequences, Functions

CONSTANTS Users, Ttl, MaxSessions, MaxTime

SessionsAssumption == Ttl \in Nat /\ MaxSessions \in Nat /\ MaxTime \in Nat

VARIABLES
    sessions,       \* _sessions: id -> [user, active]
    owners,         \* of every session created, by id (history)
    time

vars == <<sessions, owners, time>>

Ids == 1..MaxSessions

TypeOK ==
    /\ owners \in Seq(Users) /\ Len(owners) <= MaxSessions
    /\ DOMAIN sessions \subseteq 1..Len(owners)
    /\ \A s \in DOMAIN sessions : sessions[s] \in [user : {owners[s]}, active : 0..time]
    /\ time \in 0..MaxTime

Init == sessions = [s \in {} |-> 0] /\ owners = <<>> /\ time = 0

IsExpired(s) == time - sessions[s].active > Ttl

Of(u) == {s \in DOMAIN sessions : sessions[s].user = u}
Without(gone) == Restrict(sessions, DOMAIN sessions \ gone)

Create(u) ==
    /\ Len(owners) < MaxSessions
    /\ owners' = Append(owners, u)
    /\ sessions' = [s \in DOMAIN sessions \cup {Len(owners')} |->
                      IF s = Len(owners') THEN [user |-> u, active |-> time] ELSE sessions[s]]
    /\ UNCHANGED time

Get(s) ==
    /\ s \in DOMAIN sessions /\ IsExpired(s)
    /\ sessions' = Without({s})
    /\ UNCHANGED <<owners, time>>

\* A touch that puts back what it was given.
Touched_Upsert(s) ==
    [x \in DOMAIN sessions \cup {s} |->
        IF x = s THEN [user |-> owners[s], active |-> time] ELSE sessions[x]]

\* touch() looks for the session, not whether it has expired.
Touched(s) ==
    IF s \in DOMAIN sessions THEN [sessions EXCEPT ![s].active = time] ELSE sessions

Touch(s) ==
    /\ sessions' = Touched(s)
    /\ UNCHANGED <<owners, time>>

List(u) ==
    /\ sessions' = Without({s \in Of(u) : IsExpired(s)})
    /\ UNCHANGED <<owners, time>>

Revoke(s) ==
    /\ sessions' = Without({s})
    /\ UNCHANGED <<owners, time>>

RevokeOthers(u, current) ==
    /\ sessions' = Without(Of(u) \ {current})
    /\ UNCHANGED <<owners, time>>

RevokeAll(u) ==
    /\ sessions' = Without(Of(u))
    /\ UNCHANGED <<owners, time>>

Tick == time < MaxTime /\ time' = time + 1 /\ UNCHANGED <<sessions, owners>>

Next ==
    \/ \E u \in Users : Create(u) \/ List(u) \/ RevokeAll(u)
    \/ \E s \in 1..Len(owners) : Get(s) \/ Touch(s) \/ Revoke(s)
    \/ \E s \in 1..Len(owners), u \in Users : RevokeOthers(u, s)
    \/ Tick

Spec == Init /\ [][Next]_vars

-----------------------------------------------------------------------------

Status(s) ==
    IF s > Len(owners) THEN "unborn"
    ELSE IF s \notin DOMAIN sessions THEN "void"
    ELSE IF IsExpired(s) THEN "lapsed" ELSE "valid"

AsCredentials == INSTANCE Credentials WITH
    Renewable <- TRUE, status <- [s \in Ids |-> Status(s)]

\* A session that was revoked, or noticed to have expired, is gone for good;
\* one that has expired unnoticed comes back by its own touch() only.
SessionsAreCredentials == AsCredentials!Spec
===============================================================================
