---------------------------- MODULE LoginThrottle ----------------------------
(***************************************************************************)
(* The brute-force guard of src/core/auth/throttle.py.  Its methods are    *)
(* synchronous (cleanup_all() is declared async and never awaits), so each *)
(* call is one step; the clock advances between calls.                     *)
(*                                                                         *)
(* A definition whose name ends in _ and a slip is a mutant of the         *)
(* definition it is named after; nothing uses it.                          *)
(***************************************************************************)
EXTENDS Naturals, FiniteSets, Sequences, TLAPS

CONSTANTS
    Keys,           \* what logins are counted by
    MaxAttempts,    \* max_attempts
    Lockout,        \* lockout_seconds
    Decay,          \* decay_seconds
    MaxHits,        \* bound: failed attempts of one key between two clear()
    MaxTime         \* bound: the last instant of the clock

ThrottleAssumption ==
    MaxAttempts \in Nat \ {0} /\ Lockout \in Nat \ {0} /\ Decay \in Nat \ {0}
BoundAssumption == MaxHits \in Nat /\ MaxTime \in Nat

VARIABLES
    now,            \* time.time()
    attempts,       \* _attempts: per key the hits still in the list, none when absent
    lockouts,       \* _lockouts: per key locked_until, 0 when absent
    hits            \* history: the instant of every hit() of a key since its last clear()

vars == <<now, attempts, lockouts, hits>>

Init ==
    /\ now = 1
    /\ attempts = [k \in Keys |-> {}]
    /\ lockouts = [k \in Keys |-> 0]
    /\ hits = [k \in Keys |-> << >>]

\* _cleanup(): the attempts inside the decay window; t > now - decay.
Recent_Inclusive(k) == {i \in attempts[k] : hits[k][i] + Decay >= now}
Recent(k) == {i \in attempts[k] : hits[k][i] + Decay > now}

\* is_locked() answers this, before it drops a lockout that is over.
Locked(k) == now < lockouts[k]

\* The attempts that count with the one recorded now.
Counted(k) == Recent(k) \cup {Len(hits[k]) + 1}

Hit(k) ==
    /\ Len(hits[k]) < MaxHits
    /\ attempts' = [attempts EXCEPT ![k] = Counted(k)]
    /\ lockouts' = [lockouts EXCEPT ![k] =
                       IF Cardinality(Counted(k)) >= MaxAttempts THEN now + Lockout ELSE @]
    /\ hits' = [hits EXCEPT ![k] = Append(@, now)]
    /\ UNCHANGED now

\* is_locked() of a key that is not locked.
DropExpired(k) ==
    /\ ~ Locked(k)
    /\ lockouts' = [lockouts EXCEPT ![k] = 0]
    /\ UNCHANGED <<now, attempts, hits>>

\* attempts() and remaining_attempts().
CountAttempts(k) ==
    /\ attempts' = [attempts EXCEPT ![k] = Recent(k)]
    /\ UNCHANGED <<now, lockouts, hits>>

Clear(k) ==
    /\ attempts' = [attempts EXCEPT ![k] = {}]
    /\ lockouts' = [lockouts EXCEPT ![k] = 0]
    /\ hits' = [hits EXCEPT ![k] = << >>]
    /\ UNCHANGED now

\* What cleanup_all() leaves of the lockouts; one that ends just now stays.
StillLocked(k) == IF now > lockouts[k] THEN 0 ELSE lockouts[k]

CleanupAll ==
    /\ attempts' = [k \in Keys |-> Recent(k)]
    /\ lockouts' = [k \in Keys |-> StillLocked(k)]
    /\ UNCHANGED <<now, hits>>

Tick ==
    /\ now < MaxTime
    /\ now' = now + 1
    /\ UNCHANGED <<attempts, lockouts, hits>>

Next ==
    \/ \E k \in Keys : Hit(k) \/ DropExpired(k) \/ CountAttempts(k) \/ Clear(k)
    \/ CleanupAll
    \/ Tick

Spec == Init /\ [][Next]_vars

-----------------------------------------------------------------------------

\* Every variable has its type, and no hit lies in the future.
TypeOK ==
    /\ now \in 1 .. MaxTime
    /\ hits \in [Keys -> Seq(1 .. now)]
    /\ attempts \in [Keys -> SUBSET Nat]
    /\ \A k \in Keys : attempts[k] \subseteq DOMAIN hits[k]
    /\ lockouts \in [Keys -> 0 .. now + Lockout]

\* The hits in the decay window that ends with the hit at index i.
Window(k, i) == {j \in 1 .. i : hits[k][j] + Decay > hits[k][i]}

\* A key is locked exactly while some hit since the last clear() that was at
\* least the max_attempts-th of its window is less than lockout_seconds ago,
\* whatever is_locked(), attempts() and cleanup_all() threw away meanwhile.
LockedExactly ==
    \A k \in Keys :
        Locked(k) <=> \E i \in DOMAIN hits[k] :
                          /\ Cardinality(Window(k, i)) >= MaxAttempts
                          /\ now < hits[k][i] + Lockout

-----------------------------------------------------------------------------
(* Proof of LockedExactly.  A hit that is still inside the decay window is  *)
(* never thrown away, so that what hit() counts is the window of that hit;  *)
(* and a lockout is the last one that a hit called for, or is over.         *)

\* The hits that were at least the max_attempts-th of their window.
Tripping(k) == {i \in DOMAIN hits[k] : Cardinality(Window(k, i)) >= MaxAttempts}

KeyHolds(k) ==
    /\ hits[k] \in Seq(Nat) /\ \A i \in DOMAIN hits[k] : hits[k][i] <= now
    /\ attempts[k] \subseteq DOMAIN hits[k]
    /\ \A i \in DOMAIN hits[k] : hits[k][i] + Decay > now => i \in attempts[k]
    /\ lockouts[k] \in Nat
    /\ now < lockouts[k] => \E i \in Tripping(k) : lockouts[k] = hits[k][i] + Lockout
    /\ \A i \in Tripping(k) : now < hits[k][i] + Lockout => hits[k][i] + Lockout <= lockouts[k]

ThrottleInv ==
    /\ now \in Nat
    /\ DOMAIN hits = Keys /\ DOMAIN attempts = Keys /\ DOMAIN lockouts = Keys
    /\ \A k \in Keys : KeyHolds(k)

\* What counts with a hit is the whole window that ends with it.
LEMMA HitCountsItsWindow ==
    ASSUME ThrottleAssumption, ThrottleInv, NEW k \in Keys, hits' = [hits EXCEPT ![k] = Append(@, now)],
           NEW new, new = Len(hits[k]) + 1
    PROVE  /\ Len(hits'[k]) = new /\ hits'[k] \in Seq(Nat) /\ hits'[k][new] = now
           /\ \A i \in DOMAIN hits[k] : hits'[k][i] = hits[k][i] /\ Window(k, i)' = Window(k, i)
           /\ Window(k, new)' = Counted(k)
<1>1. /\ hits[k] \in Seq(Nat) /\ now \in Nat /\ hits'[k] = Append(hits[k], now)
  BY DEF ThrottleInv, KeyHolds
<1>2. /\ Len(hits'[k]) = new /\ hits'[k] \in Seq(Nat) /\ hits'[k][new] = now
      /\ \A i \in DOMAIN hits[k] : hits'[k][i] = hits[k][i]
      /\ Len(hits[k]) \in Nat /\ DOMAIN hits[k] = 1..Len(hits[k]) /\ 1..new = DOMAIN hits[k] \cup {new}
  BY <1>1
<1>3. \A i \in DOMAIN hits[k] : Window(k, i)' = Window(k, i)
  <2> SUFFICES ASSUME NEW i \in DOMAIN hits[k] PROVE Window(k, i)' = Window(k, i)
    OBVIOUS
  <2>1. 1..i \subseteq DOMAIN hits[k]
    BY <1>2
  <2> QED
    BY <1>2, <2>1 DEF Window
<1>4. \A j \in DOMAIN hits[k] : hits[k][j] + Decay > now <=> j \in Recent(k)
  BY DEF ThrottleInv, KeyHolds, Recent
<1>5. Recent(k) \subseteq DOMAIN hits[k] /\ now + Decay > now
  BY <1>1 DEF Recent, ThrottleInv, KeyHolds, ThrottleAssumption
<1>6. Window(k, new)' = {j \in DOMAIN hits[k] : hits[k][j] + Decay > now} \cup {new}
  BY <1>2, <1>5 DEF Window
<1>7. Window(k, new)' = Counted(k)
  BY <1>4, <1>5, <1>6 DEF Counted
<1> QED
  BY <1>2, <1>3, <1>7

\* A hit may lock the key until lockout_seconds from now, later than any lockout.
LEMMA HitKeeps ==
    ASSUME ThrottleAssumption, ThrottleInv, NEW k \in Keys, Hit(k)
    PROVE  KeyHolds(k)'
<1> DEFINE locks == Cardinality(Counted(k)) >= MaxAttempts
<1>0. PICK new : new = Len(hits[k]) + 1
  OBVIOUS
<1>1. /\ hits' = [hits EXCEPT ![k] = Append(@, now)] /\ now' = now /\ now \in Nat /\ Lockout \in Nat
      /\ attempts'[k] = Recent(k) \cup {new}
      /\ lockouts'[k] = IF locks THEN now + Lockout ELSE lockouts[k]
  BY <1>0 DEF Hit, Counted, ThrottleInv, ThrottleAssumption
<1>2. /\ Len(hits'[k]) = new /\ hits'[k] \in Seq(Nat) /\ hits'[k][new] = now
      /\ \A i \in DOMAIN hits[k] : hits'[k][i] = hits[k][i] /\ Window(k, i)' = Window(k, i)
      /\ Window(k, new)' = Counted(k)
  BY <1>0, <1>1, HitCountsItsWindow
<1>3. DOMAIN hits'[k] = DOMAIN hits[k] \cup {new} /\ new \notin DOMAIN hits[k]
  BY <1>0, <1>2 DEF ThrottleInv, KeyHolds
<1>4. Tripping(k)' = Tripping(k) \cup (IF locks THEN {new} ELSE {})
  <2>1. \A i \in DOMAIN hits[k] : i \in Tripping(k)' <=> i \in Tripping(k)
    BY <1>2, <1>3 DEF Tripping
  <2>2. new \in Tripping(k)' <=> locks
    BY <1>2, <1>3 DEF Tripping
  <2>3. Tripping(k) \subseteq DOMAIN hits[k] /\ Tripping(k)' \subseteq DOMAIN hits'[k]
    BY DEF Tripping
  <2> QED
    BY <1>3, <2>1, <2>2, <2>3
<1>5. KeyHolds(k)
  BY DEF ThrottleInv
<1>6. \A i \in DOMAIN hits'[k] : hits'[k][i] <= now
  BY <1>1, <1>2, <1>3, <1>5 DEF KeyHolds
<1>7. /\ attempts'[k] \subseteq DOMAIN hits'[k]
      /\ \A i \in DOMAIN hits'[k] : hits'[k][i] + Decay > now => i \in attempts'[k]
  BY <1>1, <1>2, <1>3, <1>5 DEF KeyHolds, Recent
<1>8. \A i \in Tripping(k) : i \in DOMAIN hits[k] /\ hits'[k][i] = hits[k][i] /\ hits[k][i] \in Nat
  BY <1>2, <1>5 DEF Tripping, KeyHolds
<1>9. lockouts'[k] \in Nat /\ hits'[k] \in Seq(Nat) /\ lockouts[k] \in Nat
  BY <1>1, <1>2, <1>5 DEF KeyHolds
<1>10. ASSUME now < lockouts'[k] PROVE \E i \in Tripping(k)' : lockouts'[k] = hits'[k][i] + Lockout
  <2>1. CASE locks
    BY <1>1, <1>2, <1>4, <2>1
  <2>2. CASE ~ locks
    <3>1. PICK i \in Tripping(k) : lockouts[k] = hits[k][i] + Lockout
      BY <1>1, <1>5, <1>10, <2>2 DEF KeyHolds
    <3> QED
      BY <1>1, <1>4, <1>8, <2>2, <3>1
  <2> QED
    BY <2>1, <2>2
<1>11. ASSUME NEW i \in Tripping(k)', now < hits'[k][i] + Lockout
       PROVE  hits'[k][i] + Lockout <= lockouts'[k]
  <2>1. CASE locks
    <3>1. hits'[k][i] \in Nat /\ hits'[k][i] <= now
      <4>1. i \in DOMAIN hits'[k] /\ (i = new \/ i \in Tripping(k))
        BY <1>3, <1>4, <1>8, <1>11, <2>1
      <4>2. hits'[k][i] \in Nat
        BY <1>1, <1>2, <1>8, <4>1
      <4> QED
        BY <1>6, <4>1, <4>2
    <3>2. lockouts'[k] = now + Lockout /\ now \in Nat /\ Lockout \in Nat
      BY <1>1, <2>1
    <3> QED
      BY <3>1, <3>2
  <2>2. CASE ~ locks
    <3>1. i \in Tripping(k)
      BY <1>4, <1>11, <2>2
    <3>2. now < hits[k][i] + Lockout
      BY <1>8, <1>11, <3>1
    <3>3. hits[k][i] + Lockout <= lockouts[k]
      BY <1>5, <3>1, <3>2 DEF KeyHolds
    <3> QED
      BY <1>1, <1>8, <2>2, <3>1, <3>3
  <2> QED
    BY <2>1, <2>2
<1> QED
  BY <1>1, <1>6, <1>7, <1>9, <1>10, <1>11 DEF KeyHolds

\* Every other step throws away only what no longer counts.
LEMMA StepKeepsThrottle ==
    ASSUME ThrottleAssumption, ThrottleInv, [Next]_vars
    PROVE  ThrottleInv'
<1>1. ASSUME NEW k \in Keys, hits'[k] = hits[k], now' \in {now, now + 1},
             attempts'[k] \in {attempts[k], Recent(k)}, lockouts'[k] \in {0, lockouts[k]},
             lockouts'[k] = 0 => lockouts[k] <= now
      PROVE  KeyHolds(k)'
  <2>1. KeyHolds(k) /\ now \in Nat /\ Decay \in Nat /\ Lockout \in Nat
    BY DEF ThrottleInv, ThrottleAssumption
  <2>2. Tripping(k)' = Tripping(k)
    BY <1>1 DEF Tripping, Window
  <2>3. \A i \in Tripping(k) : i \in DOMAIN hits[k]
    BY DEF Tripping
  <2>4. \A i \in DOMAIN hits[k] : hits[k][i] \in Nat
    BY <2>1 DEF KeyHolds
  <2>5. \A i \in attempts[k] : i \in DOMAIN hits[k]
    BY <2>1 DEF KeyHolds
  <2>6. /\ \A i \in DOMAIN hits'[k] : hits'[k][i] <= now'
        /\ attempts'[k] \subseteq DOMAIN hits'[k]
        /\ \A i \in DOMAIN hits'[k] : hits'[k][i] + Decay > now' => i \in attempts'[k]
    <3>1. now' >= now /\ \A i \in DOMAIN hits[k] : hits[k][i] <= now'
      BY <1>1, <2>1, <2>4 DEF KeyHolds
    <3>2. \A i \in DOMAIN hits[k] : hits[k][i] + Decay > now' => hits[k][i] + Decay > now
      BY <1>1, <2>1, <2>4
    <3>3. \A i \in DOMAIN hits[k] : hits[k][i] + Decay > now => i \in Recent(k) /\ i \in attempts[k]
      BY <2>1 DEF KeyHolds, Recent
    <3>4. Recent(k) \subseteq attempts[k]
      BY DEF Recent
    <3> QED
      BY <1>1, <2>5, <3>1, <3>2, <3>3, <3>4
  <2>7. ASSUME now' < lockouts'[k] PROVE \E i \in Tripping(k) : lockouts'[k] = hits'[k][i] + Lockout
    <3>1. lockouts'[k] = lockouts[k] /\ now < lockouts[k]
      <4>1. lockouts[k] \in Nat
        BY <2>1 DEF KeyHolds
      <4> QED
        BY <1>1, <2>1, <2>7, <4>1
    <3>2. PICK i \in Tripping(k) : lockouts[k] = hits[k][i] + Lockout
      BY <2>1, <3>1 DEF KeyHolds
    <3> QED
      BY <1>1, <3>1, <3>2
  <2>8. ASSUME NEW i \in Tripping(k), now' < hits'[k][i] + Lockout
        PROVE  hits'[k][i] + Lockout <= lockouts'[k]
    <3>1. hits'[k][i] = hits[k][i] /\ hits[k][i] \in Nat /\ lockouts[k] \in Nat
      BY <1>1, <2>1, <2>3, <2>4 DEF KeyHolds
    <3>2. now < hits[k][i] + Lockout
      BY <1>1, <2>1, <2>8, <3>1
    <3>3. hits[k][i] + Lockout <= lockouts[k]
      BY <2>1, <3>2 DEF KeyHolds
    <3>4. lockouts'[k] = lockouts[k]
      BY <1>1, <2>1, <3>1, <3>2, <3>3
    <3> QED
      BY <3>1, <3>3, <3>4
  <2> QED
    BY <1>1, <2>1, <2>2, <2>6, <2>7, <2>8 DEF KeyHolds
<1>2. ASSUME NEW k \in Keys, Hit(k) PROVE ThrottleInv'
  <2>1. ASSUME NEW other \in Keys \ {k} PROVE KeyHolds(other)'
    <3>1. lockouts[other] \in Nat /\ now \in Nat
      BY DEF ThrottleInv, KeyHolds
    <3> QED
      BY <1>1, <1>2, <2>1, <3>1 DEF Hit, ThrottleInv
  <2> QED
    BY <1>2, <2>1, HitKeeps DEF Hit, ThrottleInv
<1>3. ASSUME NEW k \in Keys, DropExpired(k) \/ CountAttempts(k) PROVE ThrottleInv'
  <2>1. ASSUME NEW other \in Keys
        PROVE  /\ hits'[other] = hits[other] /\ now' = now
               /\ attempts'[other] \in {attempts[other], Recent(other)}
               /\ lockouts'[other] \in {0, lockouts[other]}
               /\ lockouts'[other] = 0 => lockouts[other] <= now
    <3>1. lockouts[k] \in Nat /\ lockouts[other] \in Nat /\ now \in Nat
      BY DEF ThrottleInv, KeyHolds
    <3>2. CASE DropExpired(k)
      BY <3>1, <3>2 DEF DropExpired, Locked, ThrottleInv
    <3>3. CASE CountAttempts(k)
      BY <3>1, <3>3 DEF CountAttempts, ThrottleInv
    <3> QED
      BY <1>3, <3>2, <3>3
  <2>2. \A other \in Keys : KeyHolds(other)'
    BY <1>1, <2>1
  <2> QED
    BY <1>3, <2>2 DEF DropExpired, CountAttempts, ThrottleInv
<1>4. ASSUME NEW k \in Keys, Clear(k) PROVE ThrottleInv'
  <2>1. KeyHolds(k)'
    BY <1>4 DEF Clear, ThrottleInv, KeyHolds, Tripping
  <2>2. ASSUME NEW other \in Keys \ {k} PROVE KeyHolds(other)'
    <3>1. lockouts[other] \in Nat /\ now \in Nat
      BY DEF ThrottleInv, KeyHolds
    <3> QED
      BY <1>1, <1>4, <2>2, <3>1 DEF Clear, ThrottleInv
  <2> QED
    BY <1>4, <2>1, <2>2 DEF Clear, ThrottleInv
<1>5. CASE CleanupAll
  <2>1. ASSUME NEW k \in Keys
        PROVE  /\ hits'[k] = hits[k] /\ now' = now /\ attempts'[k] = Recent(k)
               /\ lockouts'[k] \in {0, lockouts[k]}
               /\ lockouts'[k] = 0 => lockouts[k] <= now
    <3>1. lockouts[k] \in Nat /\ now \in Nat
      BY DEF ThrottleInv, KeyHolds
    <3> QED
      BY <1>5, <3>1 DEF CleanupAll, StillLocked
  <2>2. \A k \in Keys : KeyHolds(k)'
    BY <1>1, <2>1
  <2> QED
    BY <1>5, <2>2 DEF CleanupAll, ThrottleInv
<1>6. CASE Tick \/ UNCHANGED vars
  <2>1. ASSUME NEW k \in Keys
        PROVE  /\ hits'[k] = hits[k] /\ now' \in {now, now + 1} /\ attempts'[k] = attempts[k]
               /\ lockouts'[k] = lockouts[k]
               /\ lockouts'[k] = 0 => lockouts[k] <= now
    <3>1. lockouts[k] \in Nat /\ now \in Nat
      BY DEF ThrottleInv, KeyHolds
    <3> QED
      BY <1>6, <3>1 DEF Tick, vars
  <2>2. \A k \in Keys : KeyHolds(k)'
    BY <1>1, <2>1
  <2> QED
    BY <1>6, <2>2 DEF Tick, vars, ThrottleInv
<1> QED
  BY <1>2, <1>3, <1>4, <1>5, <1>6 DEF Next

\* What the invariant says of a key that is locked, and of one that is not.
LEMMA InvMeansLocked == ASSUME ThrottleAssumption, ThrottleInv PROVE LockedExactly
<1> SUFFICES ASSUME NEW k \in Keys
             PROVE  Locked(k) <=> \E i \in Tripping(k) : now < hits[k][i] + Lockout
  BY DEF LockedExactly, Tripping
<1>1. KeyHolds(k) /\ now \in Nat
  BY DEF ThrottleInv
<1>2. \A i \in Tripping(k) : hits[k][i] + Lockout \in Nat
  BY <1>1 DEF Tripping, KeyHolds, ThrottleAssumption
<1> QED
  BY <1>1, <1>2 DEF KeyHolds, Locked

\* No key has been hit at the start.
LEMMA ThrottleStarts == Init => ThrottleInv
BY DEF Init, ThrottleInv, KeyHolds, Tripping

\* For any keys and any limits a key is locked exactly while a hit calls for it.
THEOREM KeysAreLockedExactly ==
    ThrottleAssumption /\ Spec => []LockedExactly
<1> SUFFICES ASSUME ThrottleAssumption PROVE Spec => []LockedExactly
  OBVIOUS
<1>1. Init => ThrottleInv
  BY ThrottleStarts
<1>2. ThrottleInv /\ [Next]_vars => ThrottleInv'
  BY StepKeepsThrottle
<1>3. ThrottleInv => LockedExactly
  BY InvMeansLocked
<1> QED
  BY <1>1, <1>2, <1>3, PTL DEF Spec
=============================================================================
