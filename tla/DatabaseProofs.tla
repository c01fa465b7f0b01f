---------------------------- MODULE DatabaseProofs ----------------------------
(***************************************************************************)
(* Proofs about the components of src/core/database that MCDatabase        *)
(* composes, for all values of its constants: the query cache, the         *)
(* connections, the advisory lock of processes apart and the unit of work, *)
(* and from them what the run of MCDatabase checks of all of them at once. *)
(***************************************************************************)
EXTENDS MCDatabase, FiniteSetTheorems, TLAPS

\* What the composition assumes of its constants is what the components assume.
LEMMA ComponentsAssume ==
    /\ NoConnection # c1
    /\ Connected!NamesAssumption /\ Connected!BoundAssumption
    /\ Unit!TenantAssumption
BY LockAssumptions, ConnectionsAssumptions, UnitAssumptions
   DEF LockAssumptions, Apart!PoolAssumption, ConnectionsAssumptions, UnitAssumptions

-----------------------------------------------------------------------------
(* The query cache, with callbacks that do not suspend: an entry is of the *)
(* data at some time after the last invalidation of its key.               *)

CacheInv ==
    /\ \A t \in {t1} : cachePc[t] = "idle"
    /\ version \in [CacheKeys -> Nat] /\ outdated \in [CacheKeys -> Nat]
    /\ \A k \in CacheKeys : outdated[k] < version[k]
    /\ \A e \in memory : e.key \in CacheKeys => e.value > outdated[e.key]

\* Misses store the version of now, and invalidations leave none of their keys.
LEMMA CacheStepKeeps ==
    ASSUME CacheInv, [Plain!Next]_(Plain!vars)
    PROVE  CacheInv'
<1>1. ASSUME NEW t \in {t1}, NEW k \in CacheKeys, Plain!Miss(t, k) PROVE CacheInv'
  <2> DEFINE new == [key |-> k, value |-> version[k], expires |-> now + CacheTtl]
  <2>1. /\ memory' \subseteq memory \cup {new}
        /\ UNCHANGED <<version, outdated, cachePc>>
    BY <1>1 DEF Plain!Miss, Plain!Stored, Plain!Without
  <2>2. new.key = k /\ new.value = version[k]
    OBVIOUS
  <2> HIDE DEF new
  <2> QED
    BY <2>1, <2>2 DEF CacheInv
<1>2. ASSUME NEW t \in {t1}, Plain!Put(t) PROVE FALSE
  BY <1>2 DEF Plain!Put, CacheInv
<1>3. ASSUME NEW k \in CacheKeys, Plain!Write(k) PROVE CacheInv'
  BY <1>3 DEF Plain!Write, CacheInv
<1>4. ASSUME NEW keys, Plain!Invalidate(keys) PROVE CacheInv'
  BY <1>4 DEF Plain!Invalidate, CacheInv
<1>5. CASE Plain!Tick \/ UNCHANGED Plain!vars
  BY <1>5 DEF Plain!Tick, Plain!vars, CacheInv
<1> QED
  BY <1>1, <1>2, <1>3, <1>4, <1>5 DEF Plain!Next, Plain!Forget, Plain!Flush, Plain!FlushTags

\* Nothing is cached at the start, and what the invariant means for a reader.
LEMMA CacheStarts == Plain!Init => CacheInv
  BY DEF Plain!Init, CacheInv

LEMMA CacheInvMeans == CacheInv => Plain!InvalidatedIsGone
BY DEF CacheInv, Plain!InvalidatedIsGone, Plain!Found

\* With callbacks that run within remember(), forget() and flush() are final:
\* what they were for is never served again, for any keys, tags and ttl.
THEOREM InvalidationsAreFinal == Plain!Spec => []Plain!InvalidatedIsGone
BY CacheStarts, CacheStepKeeps, CacheInvMeans, PTL DEF Plain!Spec

-----------------------------------------------------------------------------
(* The connections, for any tasks and any configured names.  Every engine  *)
(* that was created is in somebody's hands; and the names a helper has not *)
(* got to yet are all it has not asked.                                    *)

Busy(t, step) == checking[t].op # "idle" /\ checking[t].step = step

InHands(t, e) == Busy(t, "dispose") /\ checking[t].result = e

Held(e) ==
    \/ \E n \in Connected!AllNames : engines[n] = e
    \/ e \in disposed
    \/ \E t \in Workers : InHands(t, e)

ReplicaNames == Connected!Range(Connected!Replicas)

Ensuring(t) ==
    /\ checking[t].step \in {"ping", "sleep", "dispose"} =>
        /\ checking[t].names \in Seq(Connected!AllNames) \ {<<>>}
        /\ Connected!AllNames \ Connected!Range(checking[t].names) \subseteq pinged[t].up
        /\ pinged[t].up \subseteq Connected!AllNames
    /\ checking[t].step = "over" /\ checking[t].result = TRUE => pinged[t].up = Connected!AllNames

Reading(t) ==
    /\ checking[t].step \in {"ping", "over"}
    /\ checking[t].step = "ping" =>
        /\ checking[t].names \in Seq(Connected!AllNames)
        /\ Connected!Range(checking[t].names) \subseteq ReplicaNames
        /\ ReplicaNames \ Connected!Range(checking[t].names) \subseteq pinged[t].down
        /\ pinged[t].down \subseteq ReplicaNames
    /\ checking[t].step = "over" =>
        \/ checking[t].result \in pinged[t].up
        \/ checking[t].result = Head(ConnectionNames) /\ pinged[t].down = ReplicaNames

TaskHolds(t) ==
    /\ DOMAIN pinged[t] = {"up", "down"}
    /\ checking[t] # Connected!Idle =>
        /\ DOMAIN checking[t] = {"op", "step", "names", "attempt", "result"}
        /\ checking[t].op \in {"ensure", "disconnect", "read", "check"}
    /\ checking[t].op = "ensure" => Ensuring(t)
    /\ checking[t].op = "read" => Reading(t)

ConnectionsInv ==
    /\ created \in Nat /\ DOMAIN engines = Connected!AllNames
    /\ DOMAIN checking = Workers /\ DOMAIN pinged = Workers
    /\ \A e \in 1..created : Held(e)
    /\ \A t \in Workers : TaskHolds(t)

\* The names that are left are the next one and those after it.
LEMMA NextName ==
    ASSUME NEW S, NEW s \in Seq(S), s # <<>>
    PROVE  /\ Head(s) \in S /\ Tail(s) \in Seq(S) /\ Head(s) \in Connected!Range(s)
           /\ Connected!Range(s) = {Head(s)} \cup Connected!Range(Tail(s))
           /\ Len(s) = 1 <=> Tail(s) = <<>>
<1>1. Len(s) \in Nat \ {0} /\ DOMAIN s = 1..Len(s) /\ Head(s) = s[1] /\ Head(s) \in S
  OBVIOUS
<1>2. /\ Tail(s) \in Seq(S) /\ Len(Tail(s)) = Len(s) - 1 /\ DOMAIN Tail(s) = 1..(Len(s) - 1)
      /\ \A i \in 1..(Len(s) - 1) : Tail(s)[i] = s[i + 1]
  BY <1>1
<1>3. ASSUME NEW i \in DOMAIN s PROVE i = 1 \/ \E j \in DOMAIN Tail(s) : s[i] = Tail(s)[j]
  <2>1. CASE i # 1
    <3>1. i - 1 \in DOMAIN Tail(s) /\ s[i] = Tail(s)[i - 1]
      BY <1>1, <1>2, <1>3, <2>1
    <3> QED
      BY <3>1
  <2> QED
    BY <2>1
<1>4. \A j \in DOMAIN Tail(s) : j + 1 \in DOMAIN s /\ Tail(s)[j] = s[j + 1]
  BY <1>1, <1>2
<1>5. 1 \in DOMAIN s
  BY <1>1
<1>6. Connected!Range(s) = {Head(s)} \cup Connected!Range(Tail(s))
  <2>1. ASSUME NEW x PROVE x \in Connected!Range(s) <=> \E i \in DOMAIN s : s[i] = x
    BY DEF Connected!Range
  <2>2. ASSUME NEW x
        PROVE  x \in Connected!Range(Tail(s)) <=> \E i \in DOMAIN Tail(s) : Tail(s)[i] = x
    BY DEF Connected!Range
  <2>3. ASSUME NEW x \in Connected!Range(s)
        PROVE  x = Head(s) \/ x \in Connected!Range(Tail(s))
    BY <1>1, <1>3, <2>1, <2>2
  <2>4. Head(s) \in Connected!Range(s)
    BY <1>1, <1>5, <2>1
  <2>5. ASSUME NEW x \in Connected!Range(Tail(s)) PROVE x \in Connected!Range(s)
    BY <1>4, <2>1, <2>2
  <2> QED
    BY <2>3, <2>4, <2>5
<1>7. Len(s) = 1 <=> Tail(s) = <<>>
  <2>1. \A q \in Seq(S) : Len(q) = 0 <=> q = <<>>
    OBVIOUS
  <2>2. Len(Tail(s)) = 0 <=> Tail(s) = <<>>
    BY <1>2, <2>1
  <2>3. Len(s) = 1 <=> Len(Tail(s)) = 0
    BY <1>1, <1>2
  <2> QED
    BY <2>2, <2>3
<1> QED
  BY <1>1, <1>2, <1>6, <1>7

\* An empty sequence has no names.
LEMMA NoName == Connected!Range(<<>>) = {}
BY DEF Connected!Range

\* Only the task that moves has anything to show.
LEMMA OneTaskMoves ==
    ASSUME ConnectionsInv, NEW t \in Workers, NEW where, Connected!Goes(t, where),
           DOMAIN pinged' = Workers, \A u \in Workers \ {t} : pinged'[u] = pinged[u],
           TaskHolds(t)'
    PROVE  DOMAIN checking' = Workers /\ \A u \in Workers : TaskHolds(u)'
<1>1. DOMAIN checking' = Workers /\ \A u \in Workers \ {t} : checking'[u] = checking[u]
  BY DEF Connected!Goes, ConnectionsInv
<1>2. ASSUME NEW u \in Workers \ {t} PROVE TaskHolds(u)'
  BY <1>1, <1>2 DEF ConnectionsInv, TaskHolds, Ensuring, Reading, ReplicaNames
<1> QED
  BY <1>1, <1>2

\* A task that moves on from a disposal has seen to its engine.
LEMMA EnginesStay ==
    ASSUME Connected!BoundAssumption, ConnectionsInv, NEW t \in Workers, NEW where,
           Connected!Goes(t, where), UNCHANGED <<engines, created>>, disposed \subseteq disposed',
           Busy(t, "dispose") => checking[t].result \in disposed' \cup {None}
    PROVE  \A e \in 1..created' : Held(e)'
<1> SUFFICES ASSUME NEW e \in 1..created PROVE Held(e)'
  OBVIOUS
<1>1. Held(e) /\ e # None
  BY DEF ConnectionsInv, Connected!BoundAssumption
<1>2. \A u \in Workers \ {t} : checking'[u] = checking[u]
  BY DEF Connected!Goes, ConnectionsInv
<1>3. CASE \E u \in Workers : InHands(u, e)
  BY <1>1, <1>2, <1>3 DEF InHands, Busy, Held
<1> QED
  BY <1>1, <1>3 DEF Held

\* An engine that is taken out of the manager is in the hands of who took it.
LEMMA EngineTaken ==
    ASSUME ConnectionsInv, NEW t \in Workers, NEW n, Connected!Pops(t, n), ~ Busy(t, "dispose"),
           checking[t] # Connected!Idle, UNCHANGED <<created, disposed>>
    PROVE  \A e \in 1..created' : Held(e)'
<1> SUFFICES ASSUME NEW e \in 1..created PROVE Held(e)'
  OBVIOUS
<1>1. Held(e)
  BY DEF ConnectionsInv
<1>2. /\ \A u \in Workers \ {t} : checking'[u] = checking[u]
      /\ checking'[t].step = "dispose" /\ checking'[t].result = engines[n]
      /\ checking'[t].op = checking[t].op /\ checking[t].op # "idle"
  BY DEF Connected!Pops, Connected!Goes, ConnectionsInv, TaskHolds
<1>3. \A m \in Connected!AllNames \ {n} : engines'[m] = engines[m]
  BY DEF Connected!Pops, ConnectionsInv
<1>4. CASE \E m \in Connected!AllNames : engines[m] = e
  <2>1. PICK m \in Connected!AllNames : engines[m] = e
    BY <1>4
  <2>2. CASE m = n
    BY <1>2, <2>1, <2>2 DEF Held, InHands, Busy
  <2>3. CASE m # n
    BY <1>3, <2>1, <2>3 DEF Held
  <2> QED
    BY <2>2, <2>3
<1>5. CASE \E u \in Workers : InHands(u, e)
  BY <1>2, <1>5 DEF Held, InHands, Busy
<1> QED
  BY <1>1, <1>4, <1>5 DEF Held

\* connect_all() keeps the engines there are, and makes the missing ones.
LEMMA ConnectAllKeeps ==
    ASSUME Connected!BoundAssumption, ConnectionsInv, Connected!ConnectAll
    PROVE  ConnectionsInv'
<1>1. PICK new \in Connected!Bijection({n \in Connected!AllNames : ~ Connected!IsUp(n)},
                                       created + 1 .. created') :
        engines' = [n \in Connected!AllNames |-> IF Connected!IsUp(n) THEN engines[n] ELSE new[n]]
  BY DEF Connected!ConnectAll
<1>2. created' \in Nat /\ created \in Nat /\ UNCHANGED <<disposed, checking, pinged>>
  BY DEF Connected!ConnectAll, ConnectionsInv, Connected!BoundAssumption
<1>3. ASSUME NEW e \in 1..created' PROVE Held(e)'
  <2>1. CASE e \in 1..created
    <3>1. e # None /\ Held(e)
      BY <2>1 DEF ConnectionsInv, Connected!BoundAssumption
    <3>2. CASE \E n \in Connected!AllNames : engines[n] = e
      <4>1. PICK n \in Connected!AllNames : engines[n] = e
        BY <3>2
      <4>2. engines'[n] = e
        BY <1>1, <3>1, <4>1 DEF Connected!IsUp
      <4> QED
        BY <4>1, <4>2 DEF Held
    <3>3. CASE \E t \in Workers : InHands(t, e)
      BY <1>2, <3>3 DEF Held, InHands, Busy
    <3> QED
      BY <1>2, <3>1, <3>2, <3>3 DEF Held
  <2>2. CASE e \in created + 1 .. created'
    <3>1. PICK n \in {m \in Connected!AllNames : ~ Connected!IsUp(m)} : new[n] = e
      BY <1>1, <2>2 DEF Connected!Bijection, Connected!Surjection
    <3>2. engines'[n] = e
      BY <1>1, <3>1
    <3> QED
      BY <3>1, <3>2 DEF Held
  <2> QED
    BY <1>2, <2>1, <2>2
<1>4. ASSUME NEW t \in Workers PROVE TaskHolds(t)'
  BY <1>2, <1>4 DEF ConnectionsInv, TaskHolds, Ensuring, Reading, ReplicaNames
<1> QED
  BY <1>1, <1>2, <1>3, <1>4 DEF ConnectionsInv

\* All names are left when ensure_connected() begins, all replicas when
\* healthy_read() does.
LEMMA BeginsKeeps ==
    ASSUME Connected!NamesAssumption, Connected!BoundAssumption, ConnectionsInv,
           NEW t \in Workers, NEW op, NEW names, Connected!Begins(t, op, names),
           \/ op \in {"ensure", "check"} /\ names = ConnectionNames
           \/ op = "read" /\ names = Connected!Replicas
           \/ op = "disconnect"
    PROVE  ConnectionsInv'
<1>1. /\ checking'[t].op = op /\ checking'[t].step = "ping" /\ checking'[t].names = names
      /\ DOMAIN checking'[t] = {"op", "step", "names", "attempt", "result"}
      /\ pinged'[t] = Connected!Unseen /\ checking[t] = Connected!Idle
      /\ \A u \in Workers \ {t} : pinged'[u] = pinged[u]
      /\ DOMAIN pinged' = Workers
      /\ UNCHANGED <<engines, created, disposed>>
  BY DEF Connected!Begins, Connected!Goes, ConnectionsInv
<1>2. pinged'[t].up = {} /\ pinged'[t].down = {} /\ DOMAIN pinged'[t] = {"up", "down"}
  BY <1>1 DEF Connected!Unseen
<1>3. ~ Busy(t, "dispose")
  BY <1>1 DEF Busy, Connected!Idle
<1>4. \A e \in 1..created' : Held(e)'
  BY <1>1, <1>3, EnginesStay DEF Connected!Begins
<1>5. /\ ConnectionNames \in Seq(Connected!AllNames) \ {<<>>}
      /\ Connected!Range(ConnectionNames) = Connected!AllNames
      /\ Connected!Replicas \in Seq(Connected!AllNames)
  <2>1. ConnectionNames \in Seq(Connected!AllNames) \ {<<>>}
    BY DEF Connected!NamesAssumption, Connected!AllNames
  <2> QED
    BY <2>1, NextName DEF Connected!AllNames, Connected!Replicas
<1>6. TaskHolds(t)'
  <2>1. CASE op = "ensure"
    BY <1>1, <1>2, <1>5, <2>1 DEF TaskHolds, Ensuring
  <2>2. CASE op = "read"
    BY <1>1, <1>2, <1>5, <2>2 DEF TaskHolds, Reading, ReplicaNames
  <2>3. CASE op \in {"check", "disconnect"}
    BY <1>1, <1>2, <2>3 DEF TaskHolds
  <2> QED
    BY <2>1, <2>2, <2>3
<1> QED
  BY <1>1, <1>4, <1>6, OneTaskMoves DEF ConnectionsInv, Connected!Begins

\* disconnect_all() pops an engine before it awaits its disposal.
LEMMA DisconnectKeeps ==
    ASSUME Connected!BoundAssumption, ConnectionsInv, NEW t \in Workers,
           Connected!Disconnects(t) \/ Connected!Disconnected(t)
    PROVE  ConnectionsInv'
<1>1. checking[t].op = "disconnect" /\ checking[t] # Connected!Idle /\ UNCHANGED <<created, pinged>>
  BY DEF Connected!Disconnects, Connected!Disconnected, Connected!Idle
<1>2. DOMAIN checking[t] = {"op", "step", "names", "attempt", "result"}
  BY <1>1 DEF ConnectionsInv, TaskHolds
<1>3. CASE Connected!Disconnected(t)
  <2> DEFINE where == [checking[t] EXCEPT !.step = "ping", !.names = Tail(@), !.result = None]
  <2>1. Connected!Goes(t, where) /\ UNCHANGED engines /\ disposed \subseteq disposed'
        /\ checking[t].result \in disposed' \cup {None}
    BY <1>3 DEF Connected!Disconnected, Connected!Disposes
  <2>2. where.op = "disconnect" /\ DOMAIN where = DOMAIN checking[t]
    BY <1>1, <1>2
  <2> HIDE DEF where
  <2>3. \A e \in 1..created' : Held(e)'
    BY <1>1, <2>1, EnginesStay
  <2>4. checking'[t] = where
    BY <2>1 DEF Connected!Goes, ConnectionsInv
  <2>5. TaskHolds(t)'
    BY <1>1, <1>2, <2>2, <2>4 DEF TaskHolds, ConnectionsInv
  <2> QED
    BY <1>1, <2>1, <2>3, <2>5, OneTaskMoves DEF ConnectionsInv
<1>4. CASE Connected!Disconnects(t) /\ checking[t].names = <<>>
  <2>1. Connected!Goes(t, Connected!Idle) /\ UNCHANGED <<engines, disposed>> /\ ~ Busy(t, "dispose")
    BY <1>4 DEF Connected!Disconnects, Busy
  <2>2. \A e \in 1..created' : Held(e)'
    BY <1>1, <2>1, EnginesStay
  <2>3. checking'[t] = Connected!Idle
    BY <2>1 DEF Connected!Goes, ConnectionsInv
  <2>4. TaskHolds(t)'
    BY <1>1, <2>3 DEF TaskHolds, ConnectionsInv, Connected!Idle
  <2> QED
    BY <1>1, <2>1, <2>2, <2>4, OneTaskMoves DEF ConnectionsInv
<1>5. CASE Connected!Disconnects(t) /\ checking[t].names # <<>>
  <2> DEFINE n == Head(checking[t].names)
             where == [checking[t] EXCEPT !.step = "dispose", !.result = engines[n]]
  <2>1. Connected!Pops(t, n) /\ Connected!Goes(t, where) /\ UNCHANGED disposed
        /\ ~ Busy(t, "dispose") /\ DOMAIN engines' = DOMAIN engines
    BY <1>5 DEF Connected!Disconnects, Busy, Connected!Pops
  <2>2. where.op = "disconnect" /\ DOMAIN where = DOMAIN checking[t]
    BY <1>1, <1>2
  <2> HIDE DEF where, n
  <2>3. \A e \in 1..created' : Held(e)'
    BY <1>1, <2>1, EngineTaken
  <2>4. checking'[t] = where
    BY <2>1 DEF Connected!Goes, ConnectionsInv
  <2>5. TaskHolds(t)'
    BY <1>1, <1>2, <2>2, <2>4 DEF TaskHolds, ConnectionsInv
  <2> QED
    BY <1>1, <2>1, <2>3, <2>5, OneTaskMoves DEF ConnectionsInv
<1> QED
  BY <1>3, <1>4, <1>5

\* What a ping adds to what a task has seen.
LEMMA PingAdds ==
    ASSUME ConnectionsInv, NEW t \in Workers, NEW n, Connected!Pings(t, n)
    PROVE  /\ DOMAIN pinged' = Workers /\ \A u \in Workers \ {t} : pinged'[u] = pinged[u]
           /\ DOMAIN pinged'[t] = {"up", "down"}
           /\ Connected!Alive(n) => /\ pinged'[t].up = pinged[t].up \cup {n}
                                    /\ pinged'[t].down = pinged[t].down
           /\ ~ Connected!Alive(n) => /\ pinged'[t].up = pinged[t].up
                                      /\ pinged'[t].down = pinged[t].down \cup {n}
<1>1. DOMAIN pinged = Workers /\ DOMAIN pinged[t] = {"up", "down"}
  BY DEF ConnectionsInv, TaskHolds
<1>3. CASE Connected!Alive(n)
  BY <1>1, <1>3 DEF Connected!Pings
<1>4. CASE ~ Connected!Alive(n)
  BY <1>1, <1>4 DEF Connected!Pings
<1> QED
  BY <1>3, <1>4

\* A step that only moves a task from a ping loses no engine, and is right when
\* what the task then shows is.
LEMMA MoveKeeps ==
    ASSUME Connected!BoundAssumption, ConnectionsInv, NEW t \in Workers, NEW where,
           Connected!Goes(t, where), ~ Busy(t, "dispose"),
           UNCHANGED <<engines, created, disposed>>,
           DOMAIN pinged' = Workers, DOMAIN pinged'[t] = {"up", "down"},
           \A u \in Workers \ {t} : pinged'[u] = pinged[u],
           where.op = checking[t].op, DOMAIN where = DOMAIN checking[t],
           checking[t] # Connected!Idle,
           where.op = "ensure" => Ensuring(t)', where.op = "read" => Reading(t)'
    PROVE  ConnectionsInv'
<1>1. \A e \in 1..created' : Held(e)'
  BY EnginesStay
<1>2. checking'[t] = where
  BY DEF Connected!Goes, ConnectionsInv
<1>3. TaskHolds(t)'
  BY <1>2 DEF TaskHolds, ConnectionsInv
<1> QED
  BY <1>1, <1>3, OneTaskMoves DEF ConnectionsInv

\* ensure_connected() goes on to the next name when one has answered.
LEMMA EnsuresKeeps ==
    ASSUME Connected!BoundAssumption, ConnectionsInv, NEW t \in Workers, Connected!Ensures(t)
    PROVE  ConnectionsInv'
<1> DEFINE n == Head(checking[t].names)
<1>1. /\ checking[t].op = "ensure" /\ checking[t].step = "ping" /\ checking[t] # Connected!Idle
      /\ ~ Busy(t, "dispose") /\ UNCHANGED <<engines, created, disposed>>
      /\ Connected!Pings(t, n)
  BY DEF Connected!Ensures, Connected!Pinging, Connected!Idle, Busy
<1>2. /\ DOMAIN checking[t] = {"op", "step", "names", "attempt", "result"}
      /\ checking[t].names \in Seq(Connected!AllNames) \ {<<>>}
      /\ Connected!AllNames \ Connected!Range(checking[t].names) \subseteq pinged[t].up
      /\ pinged[t].up \subseteq Connected!AllNames /\ DOMAIN checking = Workers
  BY <1>1 DEF ConnectionsInv, TaskHolds, Ensuring
<1>3. /\ n \in Connected!AllNames /\ Tail(checking[t].names) \in Seq(Connected!AllNames)
      /\ Connected!Range(checking[t].names) = {n} \cup Connected!Range(Tail(checking[t].names))
      /\ Len(checking[t].names) = 1 <=> Tail(checking[t].names) = <<>>
  BY <1>2, NextName
<1>4. /\ DOMAIN pinged' = Workers /\ \A u \in Workers \ {t} : pinged'[u] = pinged[u]
      /\ DOMAIN pinged'[t] = {"up", "down"}
      /\ Connected!Alive(n) => pinged'[t].up = pinged[t].up \cup {n}
      /\ ~ Connected!Alive(n) => pinged'[t].up = pinged[t].up
  BY <1>1, PingAdds
<1>5. CASE ~ Connected!Alive(n)
  <2> DEFINE where == [checking[t] EXCEPT !.step = "sleep"]
  <2>1. Connected!Goes(t, where)
    BY <1>5 DEF Connected!Ensures
  <2>2. /\ where.op = checking[t].op /\ DOMAIN where = DOMAIN checking[t]
        /\ where.step = "sleep" /\ where.names = checking[t].names
    BY <1>2
  <2> HIDE DEF where
  <2>3. checking'[t] = where
    BY <1>2, <2>1 DEF Connected!Goes
  <2>4. Ensuring(t)'
    BY <1>2, <1>4, <1>5, <2>2, <2>3 DEF Ensuring
  <2> QED
    BY <1>1, <1>4, <2>1, <2>2, <2>4, MoveKeeps
<1>6. CASE Connected!Alive(n) /\ Len(checking[t].names) = 1
  <2> DEFINE where == [checking[t] EXCEPT !.step = "over", !.names = <<>>, !.result = TRUE]
  <2>1. Connected!Goes(t, where)
    BY <1>6 DEF Connected!Ensures, Connected!Returns
  <2>2. /\ where.op = checking[t].op /\ DOMAIN where = DOMAIN checking[t] /\ where.step = "over"
    BY <1>2
  <2> HIDE DEF where
  <2>3. checking'[t] = where
    BY <1>2, <2>1 DEF Connected!Goes
  <2>4. Connected!Range(Tail(checking[t].names)) = {}
    BY <1>3, <1>6, NoName
  <2>5. pinged'[t].up = Connected!AllNames
    <3> HIDE DEF n
    <3>1. pinged'[t].up = pinged[t].up \cup {n}
      BY <1>4, <1>6
    <3>2. Connected!AllNames \ {n} \subseteq pinged[t].up
      BY <1>2, <1>3, <2>4
    <3> QED
      BY <1>2, <1>3, <3>1, <3>2
  <2>6. Ensuring(t)'
    BY <2>2, <2>3, <2>5 DEF Ensuring
  <2> QED
    BY <1>1, <1>4, <2>1, <2>2, <2>6, MoveKeeps
<1>7. CASE Connected!Alive(n) /\ Len(checking[t].names) # 1
  <2> DEFINE where == [checking[t] EXCEPT !.names = Tail(@), !.attempt = 0]
  <2>1. Connected!Goes(t, where)
    BY <1>7 DEF Connected!Ensures
  <2>2. /\ where.op = checking[t].op /\ DOMAIN where = DOMAIN checking[t]
        /\ where.step = "ping" /\ where.names = Tail(checking[t].names)
    BY <1>1, <1>2
  <2> HIDE DEF where
  <2>3. checking'[t] = where
    BY <1>2, <2>1 DEF Connected!Goes
  <2>4. Ensuring(t)'
    BY <1>2, <1>3, <1>4, <1>7, <2>2, <2>3 DEF Ensuring
  <2> QED
    BY <1>1, <1>4, <2>1, <2>2, <2>4, MoveKeeps
<1> QED
  BY <1>5, <1>6, <1>7

\* It takes the engine of a name that has not answered out of the manager, and
\* asks for a new one when it has disposed of that.
LEMMA ReconnectKeeps ==
    ASSUME Connected!BoundAssumption, ConnectionsInv, NEW t \in Workers,
           Connected!WakesUp(t) \/ Connected!Reconnects(t)
    PROVE  ConnectionsInv'
<1> DEFINE n == Head(checking[t].names)
<1>1. /\ checking[t].op = "ensure" /\ checking[t].step \in {"sleep", "dispose"}
      /\ checking[t] # Connected!Idle /\ UNCHANGED pinged
  <2>1. checking[t].op = "ensure" /\ checking[t].step \in {"sleep", "dispose"} /\ UNCHANGED pinged
    BY DEF Connected!WakesUp, Connected!Reconnects
  <2> QED
    BY <2>1 DEF Connected!Idle
<1>2. /\ DOMAIN checking[t] = {"op", "step", "names", "attempt", "result"}
      /\ checking[t].names \in Seq(Connected!AllNames) \ {<<>>}
      /\ Connected!AllNames \ Connected!Range(checking[t].names) \subseteq pinged[t].up
      /\ pinged[t].up \subseteq Connected!AllNames
      /\ DOMAIN checking = Workers /\ DOMAIN engines = Connected!AllNames
  BY <1>1 DEF ConnectionsInv, TaskHolds, Ensuring
<1>3. n \in Connected!AllNames
  BY <1>2, NextName
<1>4. ASSUME NEW where, Connected!Goes(t, where), where.op = "ensure",
             DOMAIN where = DOMAIN checking[t],
             where.step = "over" => where.result # TRUE,
             where.step # "over" => where.names = checking[t].names
      PROVE  TaskHolds(t)'
  <2>1. checking'[t] = where
    BY <1>2, <1>4 DEF Connected!Goes
  <2>2. Ensuring(t)'
    BY <1>1, <1>2, <1>4, <2>1 DEF Ensuring
  <2> QED
    BY <1>1, <1>2, <1>4, <2>1, <2>2 DEF TaskHolds, ConnectionsInv
<1>5. CASE Connected!WakesUp(t)
  <2> DEFINE where == [checking[t] EXCEPT !.step = "dispose", !.result = engines[n]]
  <2>1. /\ Connected!Pops(t, n) /\ Connected!Goes(t, where) /\ UNCHANGED <<created, disposed>>
        /\ ~ Busy(t, "dispose") /\ DOMAIN engines' = DOMAIN engines
    BY <1>5 DEF Connected!WakesUp, Busy, Connected!Pops
  <2>2. /\ where.op = "ensure" /\ DOMAIN where = DOMAIN checking[t] /\ where.step = "dispose"
        /\ where.names = checking[t].names
    BY <1>1, <1>2
  <2> HIDE DEF where, n
  <2>3. \A e \in 1..created' : Held(e)'
    BY <1>1, <2>1, EngineTaken
  <2>4. TaskHolds(t)'
    BY <1>4, <2>1, <2>2
  <2> QED
    BY <1>1, <2>1, <2>3, <2>4, OneTaskMoves DEF ConnectionsInv
<1>6. CASE Connected!Reconnects(t)
  <2>1. PICK where :
          /\ Connected!Goes(t, where) /\ where.op = "ensure" /\ DOMAIN where = DOMAIN checking[t]
          /\ where.step = "over" => where.result # TRUE
          /\ where.step # "over" => where.names = checking[t].names
    <3>1. CASE checking[t].attempt + 1 = MaxRetries
      <4> DEFINE where == [checking[t] EXCEPT !.step = "over", !.names = <<>>, !.result = FALSE]
      <4>1. Connected!Goes(t, where)
        BY <1>6, <3>1 DEF Connected!Reconnects, Connected!Returns
      <4>2. /\ where.op = "ensure" /\ DOMAIN where = DOMAIN checking[t]
            /\ where.step = "over" /\ where.result = FALSE
        BY <1>1, <1>2
      <4> QED
        BY <4>1, <4>2
    <3>2. CASE checking[t].attempt + 1 # MaxRetries
      <4> DEFINE where == [checking[t] EXCEPT !.step = "ping", !.attempt = @ + 1, !.result = None]
      <4>1. Connected!Goes(t, where)
        BY <1>6, <3>2 DEF Connected!Reconnects
      <4>2. /\ where.op = "ensure" /\ DOMAIN where = DOMAIN checking[t]
            /\ where.step = "ping" /\ where.names = checking[t].names
        BY <1>1, <1>2
      <4> QED
        BY <4>1, <4>2
    <3> QED
      BY <3>1, <3>2
  <2>2. TaskHolds(t)'
    BY <1>4, <2>1
  <2>3. disposed \subseteq disposed' /\ checking[t].result \in disposed' \cup {None}
    BY <1>6 DEF Connected!Reconnects, Connected!Disposes
  <2>4. DOMAIN checking' = Workers /\ \A u \in Workers : TaskHolds(u)'
    BY <1>1, <2>1, <2>2, OneTaskMoves DEF ConnectionsInv
  <2>5. CASE UNCHANGED <<engines, created>>
    BY <1>1, <2>1, <2>3, <2>4, <2>5, EnginesStay DEF ConnectionsInv
  <2>6. CASE /\ engines[n] = None /\ created' = created + 1
             /\ engines' = [engines EXCEPT ![n] = created + 1]
    <3>1. created \in Nat /\ created' \in Nat /\ DOMAIN engines' = Connected!AllNames
      BY <1>2, <2>6 DEF ConnectionsInv
    <3>2. ASSUME NEW e \in 1..created' PROVE Held(e)'
      <4>1. CASE e = created'
        BY <1>2, <1>3, <2>6, <4>1 DEF Held
      <4>2. CASE e # created'
        <5>1. e \in 1..created /\ e # None /\ Held(e)
          BY <2>6, <3>1, <4>2 DEF ConnectionsInv, Connected!BoundAssumption
        <5>2. CASE \E m \in Connected!AllNames : engines[m] = e
          <6>1. PICK m \in Connected!AllNames : engines[m] = e
            BY <5>2
          <6>2. engines'[m] = e
            BY <1>2, <2>6, <5>1, <6>1
          <6> QED
            BY <6>1, <6>2 DEF Held
        <5>3. CASE \E u \in Workers : InHands(u, e)
          <6>1. PICK u \in Workers : InHands(u, e)
            BY <5>3
          <6>2. CASE u = t
            BY <2>3, <5>1, <6>1, <6>2 DEF InHands, Held
          <6>3. CASE u # t
            <7>1. checking'[u] = checking[u]
              BY <1>2, <2>1, <6>3 DEF Connected!Goes
            <7> QED
              BY <6>1, <7>1 DEF InHands, Busy, Held
          <6> QED
            BY <6>2, <6>3
        <5> QED
          BY <2>3, <5>1, <5>2, <5>3 DEF Held
      <4> QED
        BY <4>1, <4>2
    <3> QED
      BY <1>1, <2>4, <3>1, <3>2 DEF ConnectionsInv
  <2> QED
    BY <1>6, <2>5, <2>6 DEF Connected!Reconnects, Connected!Connect, Connected!IsUp
<1> QED
  BY <1>5, <1>6

\* healthy_read() goes on to the next replica when one has not answered.
LEMMA ReadsKeeps ==
    ASSUME Connected!BoundAssumption, ConnectionsInv, NEW t \in Workers, Connected!Reads(t)
    PROVE  ConnectionsInv'
<1> DEFINE n == Head(checking[t].names)
<1>1. /\ checking[t].op = "read" /\ checking[t].step = "ping"
      /\ UNCHANGED <<engines, created, disposed>>
  BY DEF Connected!Reads
<1>2. checking[t] # Connected!Idle /\ ~ Busy(t, "dispose")
  BY <1>1 DEF Connected!Idle, Busy
<1>3. /\ DOMAIN checking[t] = {"op", "step", "names", "attempt", "result"}
      /\ checking[t].names \in Seq(Connected!AllNames)
      /\ Connected!Range(checking[t].names) \subseteq ReplicaNames
      /\ ReplicaNames \ Connected!Range(checking[t].names) \subseteq pinged[t].down
      /\ pinged[t].down \subseteq ReplicaNames
      /\ DOMAIN checking = Workers /\ DOMAIN pinged = Workers /\ DOMAIN pinged[t] = {"up", "down"}
  BY <1>1, <1>2 DEF ConnectionsInv, TaskHolds, Reading
<1>4. ASSUME NEW result, Connected!Returns(t, result),
             DOMAIN pinged' = Workers, DOMAIN pinged'[t] = {"up", "down"},
             \A u \in Workers \ {t} : pinged'[u] = pinged[u],
             \/ result \in pinged'[t].up
             \/ result = Head(ConnectionNames) /\ pinged'[t].down = ReplicaNames
      PROVE  ConnectionsInv'
  <2> DEFINE where == [checking[t] EXCEPT !.step = "over", !.names = <<>>, !.result = result]
  <2>1. Connected!Goes(t, where)
    BY <1>4 DEF Connected!Returns
  <2>2. /\ where.op = checking[t].op /\ DOMAIN where = DOMAIN checking[t]
        /\ where.step = "over" /\ where.result = result
    BY <1>3
  <2>3. where.op # "ensure"
    BY <1>1, <2>2
  <2> HIDE DEF where
  <2>4. checking'[t] = where
    BY <1>3, <2>1 DEF Connected!Goes
  <2>5. Reading(t)'
    BY <1>4, <2>2, <2>4 DEF Reading, ReplicaNames
  <2> QED
    BY <1>1, <1>2, <1>4, <2>1, <2>2, <2>3, <2>5, MoveKeeps
<1>5. CASE checking[t].names = <<>>
  <2>1. Connected!Returns(t, Head(ConnectionNames)) /\ UNCHANGED pinged
    BY <1>5 DEF Connected!Reads
  <2>2. pinged[t].down = ReplicaNames
    BY <1>3, <1>5, NoName
  <2> QED
    BY <1>3, <1>4, <2>1, <2>2
<1>6. CASE checking[t].names # <<>>
  <2>1. Connected!Pings(t, n)
    BY <1>6 DEF Connected!Reads
  <2>2. /\ DOMAIN pinged' = Workers /\ \A u \in Workers \ {t} : pinged'[u] = pinged[u]
        /\ DOMAIN pinged'[t] = {"up", "down"}
        /\ Connected!Alive(n) => pinged'[t].up = pinged[t].up \cup {n}
        /\ ~ Connected!Alive(n) => pinged'[t].down = pinged[t].down \cup {n}
    BY <2>1, PingAdds
  <2>3. CASE Connected!Alive(n)
    <3>1. Connected!Returns(t, n)
      BY <1>6, <2>3 DEF Connected!Reads
    <3> QED
      BY <1>4, <2>2, <2>3, <3>1
  <2>4. CASE ~ Connected!Alive(n)
    <3> DEFINE where == [checking[t] EXCEPT !.names = Tail(@)]
    <3>1. Connected!Goes(t, where)
      BY <1>6, <2>4 DEF Connected!Reads
    <3>2. /\ where.op = checking[t].op /\ DOMAIN where = DOMAIN checking[t]
          /\ where.step = "ping" /\ where.names = Tail(checking[t].names)
      BY <1>1, <1>3
    <3>3. where.op # "ensure"
      BY <1>1, <3>2
    <3> HIDE DEF where
    <3>4. checking'[t] = where
      BY <1>3, <3>1 DEF Connected!Goes
    <3>5. /\ Tail(checking[t].names) \in Seq(Connected!AllNames)
          /\ Connected!Range(checking[t].names) = {n} \cup Connected!Range(Tail(checking[t].names))
      BY <1>3, <1>6, NextName
    <3>6. Reading(t)'
      BY <1>3, <2>2, <2>4, <3>2, <3>4, <3>5 DEF Reading, ReplicaNames
    <3> QED
      BY <1>1, <1>2, <2>2, <3>1, <3>2, <3>3, <3>6, MoveKeeps
  <2> QED
    BY <2>3, <2>4
<1> QED
  BY <1>5, <1>6

\* check() tells nobody; what is over is forgotten.
LEMMA ChecksKeeps ==
    ASSUME Connected!BoundAssumption, ConnectionsInv, NEW t \in Workers,
           Connected!Checks(t) \/ Connected!Over(t)
    PROVE  ConnectionsInv'
<1>1. CASE Connected!Checks(t)
  <2> DEFINE n == Head(checking[t].names)
             next == [checking[t] EXCEPT !.names = Tail(@)]
             over == [checking[t] EXCEPT !.step = "over", !.names = <<>>, !.result = TRUE]
  <2>1. /\ checking[t].op = "check" /\ checking[t].step = "ping"
        /\ UNCHANGED <<engines, created, disposed>> /\ Connected!Pings(t, n)
        /\ Connected!Goes(t, next) \/ Connected!Goes(t, over)
    BY <1>1 DEF Connected!Checks, Connected!Pinging, Connected!Returns
  <2>2. checking[t] # Connected!Idle /\ ~ Busy(t, "dispose")
    BY <2>1 DEF Connected!Idle, Busy
  <2>3. DOMAIN checking[t] = {"op", "step", "names", "attempt", "result"}
    BY <2>2 DEF ConnectionsInv, TaskHolds
  <2>4. /\ next.op = "check" /\ DOMAIN next = DOMAIN checking[t]
        /\ over.op = "check" /\ DOMAIN over = DOMAIN checking[t]
    BY <2>1, <2>3
  <2>5. /\ DOMAIN pinged' = Workers /\ \A u \in Workers \ {t} : pinged'[u] = pinged[u]
        /\ DOMAIN pinged'[t] = {"up", "down"}
    BY <2>1, PingAdds
  <2> HIDE DEF next, over, n
  <2>6. PICK where \in {next, over} : Connected!Goes(t, where)
    BY <2>1
  <2>7. where.op = "check" /\ DOMAIN where = DOMAIN checking[t]
    BY <2>4
  <2> QED
    BY <2>1, <2>2, <2>5, <2>6, <2>7, MoveKeeps
<1>2. CASE Connected!Over(t)
  <2>1. /\ Connected!Goes(t, Connected!Idle) /\ UNCHANGED <<engines, created, disposed, pinged>>
        /\ ~ Busy(t, "dispose")
    BY <1>2 DEF Connected!Over, Busy
  <2>2. \A e \in 1..created' : Held(e)'
    BY <2>1, EnginesStay
  <2>3. checking'[t] = Connected!Idle
    BY <2>1 DEF Connected!Goes, ConnectionsInv
  <2>4. TaskHolds(t)'
    BY <2>1, <2>3 DEF TaskHolds, ConnectionsInv, Connected!Idle
  <2> QED
    BY <2>1, <2>2, <2>4, OneTaskMoves DEF ConnectionsInv
<1> QED
  BY <1>1, <1>2

\* A step of the connections keeps their invariant.
LEMMA ConnectionsStepKeeps ==
    ASSUME Connected!NamesAssumption, Connected!BoundAssumption, ConnectionsInv,
           [Connected!Next]_(Connected!vars)
    PROVE  ConnectionsInv'
<1>1. CASE Connected!ConnectAll
  BY <1>1, ConnectAllKeeps
<1>2. CASE UNCHANGED <<engines, created, disposed, checking, pinged>>
  BY <1>2 DEF ConnectionsInv, Held, InHands, Busy, TaskHolds, Ensuring, Reading, ReplicaNames
<1>3. ASSUME NEW n, Connected!ServerChanges(n) PROVE ConnectionsInv'
  BY <1>2, <1>3 DEF Connected!ServerChanges
<1>4. CASE UNCHANGED Connected!vars
  BY <1>2, <1>4 DEF Connected!vars
<1>5. ASSUME NEW t \in Workers,
             \/ Connected!Begins(t, "ensure", ConnectionNames)
             \/ Connected!Begins(t, "check", ConnectionNames)
             \/ Connected!Begins(t, "read", Connected!Replicas) \/ Connected!Shutdown(t)
      PROVE  ConnectionsInv'
  BY <1>5, BeginsKeeps DEF Connected!Shutdown
<1>6. ASSUME NEW t \in Workers,
             \/ Connected!Disconnects(t) \/ Connected!Disconnected(t) \/ Connected!Ensures(t)
             \/ Connected!WakesUp(t) \/ Connected!Reconnects(t) \/ Connected!Reads(t)
             \/ Connected!Checks(t) \/ Connected!Over(t)
      PROVE  ConnectionsInv'
  BY <1>6, DisconnectKeeps, EnsuresKeeps, ReconnectKeeps, ReadsKeeps, ChecksKeeps
<1> QED
  BY <1>1, <1>3, <1>4, <1>5, <1>6 DEF Connected!Next

\* It holds at the start, and means what the runs check of the connections.
LEMMA ConnectionsStart == Connected!Init => ConnectionsInv
<1> SUFFICES ASSUME Connected!Init PROVE ConnectionsInv
  OBVIOUS
<1>1. /\ created = 0 /\ DOMAIN engines = Connected!AllNames
      /\ DOMAIN checking = Workers /\ DOMAIN pinged = Workers
  BY DEF Connected!Init
<1>2. \A t \in Workers : checking[t].op = "idle" /\ checking[t] = Connected!Idle
  BY DEF Connected!Init, Connected!Idle
<1>3. \A t \in Workers : DOMAIN pinged[t] = {"up", "down"}
  BY DEF Connected!Init, Connected!Unseen
<1> QED
  BY <1>1, <1>2, <1>3 DEF ConnectionsInv, TaskHolds

LEMMA ConnectionsInvMeans ==
    ConnectionsInv => Connected!NoEngineIsLost /\ Connected!AnswersWereSeen
<1> SUFFICES ASSUME ConnectionsInv PROVE Connected!NoEngineIsLost /\ Connected!AnswersWereSeen
  OBVIOUS
<1>1. ASSUME NEW e \in 1..created
      PROVE  e \in {engines[n] : n \in Connected!AllNames} \cup disposed \cup Connected!Disposing
  <2>1. Held(e)
    BY DEF ConnectionsInv
  <2>2. ASSUME NEW t \in Workers, InHands(t, e) PROVE e \in Connected!Disposing
    <3>1. checking[t] # Connected!Idle
      BY <2>2 DEF InHands, Busy, Connected!Idle
    <3> QED
      BY <2>2, <3>1 DEF InHands, Busy, Connected!Disposing
  <2> QED
    BY <2>1, <2>2 DEF Held
<1>2. Connected!AnswersWereSeen
  BY DEF ConnectionsInv, TaskHolds, Ensuring, Reading, ReplicaNames, Connected!AnswersWereSeen
<1> QED
  BY <1>1, <1>2 DEF Connected!NoEngineIsLost

\* However connect(), shutdowns and the helpers of any tasks interleave, no
\* engine is lost and the helpers answer only what they have seen.
THEOREM EnginesAreKept ==
    Connected!Spec => []Connected!NoEngineIsLost /\ []Connected!AnswersWereSeen
<1>1. ConnectionsInv /\ [Connected!Next]_(Connected!vars) => ConnectionsInv'
  BY ComponentsAssume, ConnectionsStepKeeps
<1> QED
  BY <1>1, ConnectionsStart, ConnectionsInvMeans, PTL DEF Connected!Spec

-----------------------------------------------------------------------------
(* The advisory lock of processes that have one connection and one task    *)
(* each: a process that holds it has its connection in its pool, where the *)
(* release finds it again.                                                 *)

Using(s) == lockPc[s] \notin {"idle", "held"}

Owning(s) == lockPc[s] \in {"won", "held", "release"}

ServerHolds(s) ==
    /\ lockPc[s] \in Apart!Steps
    /\ conn[s] = IF Using(s) THEN c1 ELSE NoConnection
    /\ idle[s] = <<>> \/ (idle[s] = <<c1>> /\ ~ Using(s))
    /\ owner = <<s, c1>> <=> Owning(s)

LockInv ==
    /\ DOMAIN lockPc = Servers /\ DOMAIN conn = Servers /\ DOMAIN idle = Servers
    /\ \A s \in Servers : ServerHolds(s)
    /\ \/ owner = <<>> /\ holds = 0
       \/ holds = 1 /\ \E s \in Servers : owner = <<s, c1>>

\* A session that starts gets the one connection of its process.
LEMMA LockCheckOut ==
    ASSUME LockInv, NEW s \in Servers, NEW from, NEW step, Apart!CheckOut(s, from, step),
           \/ from = "idle" /\ step \in {"try", "block", "work"}
           \/ from = "held" /\ step = "release"
    PROVE  LockInv'
<1>1. /\ lockPc[s] = from /\ lockPc' = [lockPc EXCEPT ![s] = step] /\ UNCHANGED <<owner, holds>>
      /\ conn' = [conn EXCEPT ![s] = c1]
      /\ \/ idle[s] = <<>> /\ UNCHANGED idle
         \/ idle[s] = <<c1>> /\ idle' = [idle EXCEPT ![s] = <<>>]
  <2>1. Head(<<c1>>) = c1 /\ Tail(<<c1>>) = <<>> /\ <<c1>> # <<>>
    OBVIOUS
  <2>2. Apart!Closed(s) \subseteq {c1}
    BY DEF Apart!Closed
  <2>3. idle[s] = <<>> \/ idle[s] = <<c1>>
    BY DEF LockInv, ServerHolds
  <2>4. [u \in Servers |-> u][s] = s
    OBVIOUS
  <2>5. CASE idle[s] = <<>>
    <3>1. /\ lockPc[s] = from /\ lockPc' = [lockPc EXCEPT ![s] = step]
          /\ UNCHANGED <<owner, holds, idle>>
          /\ \E c \in Apart!Closed(s) : conn' = [conn EXCEPT ![s] = c]
      BY <2>4, <2>5 DEF Apart!CheckOut, Apart!Goes
    <3> QED
      BY <2>2, <2>5, <3>1
  <2>6. CASE idle[s] = <<c1>>
    BY <2>1, <2>4, <2>6 DEF Apart!CheckOut, Apart!Goes
  <2> QED
    BY <2>3, <2>5, <2>6
<1>2. /\ lockPc'[s] = step /\ conn'[s] = c1 /\ idle'[s] = <<>>
      /\ DOMAIN lockPc' = Servers /\ DOMAIN conn' = Servers /\ DOMAIN idle' = Servers
      /\ \A u \in Servers \ {s} : lockPc'[u] = lockPc[u] /\ conn'[u] = conn[u] /\ idle'[u] = idle[u]
  BY <1>1 DEF LockInv
<1>3. ServerHolds(s)'
  <2>1. ServerHolds(s) /\ UNCHANGED owner
    BY <1>1 DEF LockInv
  <2>2. Using(s)' /\ step \in Apart!Steps
    BY <1>2 DEF Using, Apart!Steps
  <2>3. Owning(s)' <=> Owning(s)
    BY <1>1, <1>2 DEF Owning
  <2>4. lockPc[s]' = step /\ conn[s]' = c1 /\ idle[s]' = <<>>
    BY <1>2
  <2> QED
    BY <2>1, <2>2, <2>3, <2>4 DEF ServerHolds
<1>4. ASSUME NEW u \in Servers \ {s} PROVE ServerHolds(u)'
  BY <1>1, <1>2 DEF LockInv, ServerHolds, Using, Owning
<1> QED
  BY <1>1, <1>2, <1>3, <1>4 DEF LockInv

\* The server's answers, and the connection's way back to its pool.
LEMMA LockProceeds ==
    ASSUME LockInv, NEW s \in Servers,
           Apart!Granted(s) \/ Apart!Refused(s) \/ Apart!Unlock(s) \/ Apart!CheckIn(s)
    PROVE  LockInv'
<1>1. \A u, v \in Servers : <<u, c1>> # <<>> /\ (<<u, c1>> = <<v, c1>> => u = v)
  OBVIOUS
<1>2. ServerHolds(s) /\ Using(s) /\ conn[s] = c1 /\ idle[s] = <<>> /\ Apart!Own(s) = <<s, c1>>
  BY DEF LockInv, ServerHolds, Using, Apart!Granted, Apart!Refused, Apart!Unlock, Apart!CheckIn,
         Apart!Own
<1>3. CASE Apart!Granted(s)
  <2>1. /\ lockPc' = [lockPc EXCEPT ![s] = "won"] /\ UNCHANGED <<conn, idle>>
        /\ owner = <<>> /\ owner' = <<s, c1>> /\ holds = 0 /\ holds' = 1
    BY <1>1, <1>2, <1>3 DEF Apart!Granted, Apart!Grants, Apart!Goes, LockInv, ServerHolds, Owning
  <2>2. ASSUME NEW u \in Servers PROVE ServerHolds(u)'
    BY <1>1, <1>2, <2>1 DEF LockInv, ServerHolds, Using, Owning, Apart!Steps
  <2> QED
    BY <2>1, <2>2 DEF LockInv
<1>4. CASE Apart!Refused(s)
  <2>1. /\ lockPc' = [lockPc EXCEPT ![s] = "over"] /\ UNCHANGED <<conn, idle, owner, holds>>
        /\ lockPc[s] = "try"
    BY <1>4 DEF Apart!Refused, Apart!Goes
  <2>2. ASSUME NEW u \in Servers PROVE ServerHolds(u)'
    BY <1>2, <2>1 DEF LockInv, ServerHolds, Using, Owning, Apart!Steps
  <2> QED
    BY <2>1, <2>2 DEF LockInv
<1>5. CASE Apart!Unlock(s)
  <2>1. /\ lockPc' = [lockPc EXCEPT ![s] = "over"] /\ UNCHANGED <<conn, idle>>
        /\ owner = <<s, c1>> /\ owner' = <<>> /\ holds' = 0
    BY <1>1, <1>2, <1>5 DEF Apart!Unlock, Apart!Unlocked, Apart!Goes, LockInv, ServerHolds, Owning
  <2>2. ASSUME NEW u \in Servers PROVE ServerHolds(u)'
    <3>1. ServerHolds(u) /\ owner' # <<u, c1>> /\ UNCHANGED <<conn, idle>>
      BY <1>1, <2>1 DEF LockInv
    <3>2. CASE u = s
      <4>1. lockPc'[u] = "over"
        BY <2>1, <3>2 DEF LockInv
      <4> QED
        BY <1>2, <3>1, <3>2, <4>1 DEF ServerHolds, Using, Owning, Apart!Steps
    <3>3. CASE u # s
      <4>1. lockPc'[u] = lockPc[u] /\ owner # <<u, c1>>
        BY <1>1, <2>1, <3>3 DEF LockInv
      <4> QED
        BY <3>1, <4>1 DEF ServerHolds, Using, Owning
    <3> QED
      BY <3>2, <3>3
  <2>3. DOMAIN lockPc' = Servers /\ DOMAIN conn' = Servers /\ DOMAIN idle' = Servers
    BY <2>1 DEF LockInv
  <2> QED
    BY <2>1, <2>2, <2>3 DEF LockInv
<1>6. CASE Apart!CheckIn(s)
  <2>1. Len(idle[s]) = 0 /\ Append(idle[s], c1) = <<c1>>
    BY <1>2
  <2>2. /\ lockPc' = [lockPc EXCEPT ![s] = Apart!AfterReturn(s)] /\ lockPc[s] \in {"won", "over", "work"}
        /\ conn' = [conn EXCEPT ![s] = NoConnection] /\ idle' = [idle EXCEPT ![s] = <<c1>>]
        /\ UNCHANGED <<owner, holds>>
    <3>1. [u \in Servers |-> u][s] = s /\ 0 < 1
      OBVIOUS
    <3>2. idle' = [idle EXCEPT ![s] = Append(@, conn[s])]
      BY <1>6, <2>1, <3>1 DEF Apart!CheckIn
    <3>3. idle' = [idle EXCEPT ![s] = <<c1>>]
      BY <1>2, <2>1, <3>2
    <3>4. UNCHANGED <<owner, holds>>
      BY <1>6, <2>1, <3>1 DEF Apart!CheckIn
    <3> QED
      BY <1>6, <3>3, <3>4 DEF Apart!CheckIn, Apart!Goes
  <2>3. /\ lockPc'[s] = Apart!AfterReturn(s) /\ conn'[s] = NoConnection /\ idle'[s] = <<c1>>
        /\ DOMAIN lockPc' = Servers /\ DOMAIN conn' = Servers /\ DOMAIN idle' = Servers
        /\ \A u \in Servers \ {s} : lockPc'[u] = lockPc[u] /\ conn'[u] = conn[u] /\ idle'[u] = idle[u]
    BY <2>2 DEF LockInv
  <2>4. ServerHolds(s)'
    BY <1>2, <2>2, <2>3 DEF ServerHolds, Using, Owning, Apart!Steps, Apart!AfterReturn
  <2>5. ASSUME NEW u \in Servers \ {s} PROVE ServerHolds(u)'
    BY <2>2, <2>3 DEF LockInv, ServerHolds, Using, Owning
  <2> QED
    BY <2>2, <2>3, <2>4, <2>5 DEF LockInv
<1> QED
  BY <1>3, <1>4, <1>5, <1>6

\* A step of the lock keeps its invariant.
LEMMA LockStepKeeps ==
    ASSUME LockInv, [Apart!Next]_(Apart!vars)
    PROVE  LockInv'
<1>1. CASE UNCHANGED Apart!vars
  BY <1>1 DEF Apart!vars, LockInv, ServerHolds, Using, Owning
<1>2. ASSUME NEW s \in Servers,
             Apart!StartTry(s) \/ Apart!StartBlock(s) \/ Apart!StartWork(s) \/ Apart!StartRelease(s)
      PROVE  LockInv'
  BY <1>2, LockCheckOut DEF Apart!StartTry, Apart!StartBlock, Apart!StartWork, Apart!StartRelease
<1> QED
  BY <1>1, <1>2, LockProceeds DEF Apart!Next, Apart!Proceeds

\* It holds at the start, and means that what is released is free.
LEMMA LockStarts == Apart!Init => LockInv
<1> SUFFICES ASSUME Apart!Init PROVE LockInv
  OBVIOUS
<1>1. \A s \in Servers : <<s, c1>> # <<>>
  OBVIOUS
<1>2. /\ lockPc = [s \in Servers |-> "idle"] /\ conn = [s \in Servers |-> NoConnection]
      /\ idle = [s \in Servers |-> <<>>] /\ owner = <<>> /\ holds = 0
  BY DEF Apart!Init
<1> QED
  <2>1. ASSUME NEW s \in Servers PROVE ServerHolds(s)
    <3>1. lockPc[s] = "idle" /\ conn[s] = NoConnection /\ idle[s] = <<>>
      BY <1>2
    <3> QED
      BY <1>1, <1>2, <3>1 DEF ServerHolds, Using, Owning, Apart!Steps
  <2>2. DOMAIN lockPc = Servers /\ DOMAIN conn = Servers /\ DOMAIN idle = Servers
    BY <1>2
  <2> QED
    BY <1>2, <2>1, <2>2 DEF LockInv

LEMMA LockInvMeans == LockInv => Apart!ReleasedIsFree
BY DEF LockInv, ServerHolds, Owning, Apart!ReleasedIsFree

\* With one connection per process, whoever releases an advisory lock gives it
\* back to the server, however the processes' sessions interleave.
THEOREM ReleasedLocksAreFree == Apart!Spec => []Apart!ReleasedIsFree
BY LockStarts, LockStepKeeps, LockInvMeans, PTL DEF Apart!Spec

-----------------------------------------------------------------------------
(* The unit of work, for any requests, tenants and numbers of rows.  A      *)
(* session is of one request and of the unit that is to be committed next.  *)

IdsOf(S) == {r.id : r \in S}
Pending(t) == added[t] \cup IdsOf(flushed[t].rows)
Mine(t) == {i \in Unit!Ids(t) : i.by = t}
Kept(t) == {i \in IdsOf(rows) : i.by = t}

\* Rows are numbered so that the next one has a new number.
Numbered(S) == IsFiniteSet(S) /\ \A i \in S : i.nr \in Nat /\ i.nr <= Cardinality(S)

UnitShape ==
    /\ DOMAIN pc = Requests /\ DOMAIN tenant = Requests /\ DOMAIN added = Requests
    /\ DOMAIN flushed = Requests /\ commits \in [Requests -> Nat]
    /\ \A t \in Requests : DOMAIN flushed[t] = {"rows", "audits"}
    /\ \A r \in rows : r.id.by \in Requests /\ r.id.unit \in Nat

\* The tenant that a session's flush finds is that of its request.
Tagged(t) == pc[t] \in {"arrived", "open"} => tenant[t] = TenantOf[t]

\* What a session has written or will write is of its request and of the unit
\* of work that is to be committed next, and each row is written once.
OwnRows(t) ==
    /\ \A i \in Pending(t) : i.by = t /\ i.unit = commits[t]
    /\ added[t] \cap IdsOf(flushed[t].rows) = {}
    /\ \A r \in flushed[t].rows : r.tenant = TenantOf[t]

Audited(t) ==
    /\ IdsOf(flushed[t].audits) = IdsOf(flushed[t].rows)
    /\ \A a, b \in flushed[t].audits : a.id = b.id => a = b

Counted(t) == Numbered(Mine(t)) /\ Numbered(Kept(t))

UnitInv ==
    /\ UnitShape
    /\ \A t \in Requests : Tagged(t) /\ OwnRows(t) /\ Audited(t) /\ Counted(t)
    /\ Unit!CommittedRowsAreTrue

\* The ids of rows or audit entries.
LEMMA IdsOfUnion == \A S, T : IdsOf(S \cup T) = IdsOf(S) \cup IdsOf(T)
BY DEF IdsOf

\* The rows a flush writes have the ids that were added.
LEMMA IdsOfRows == \A S, x : IdsOf({[id |-> i, tenant |-> x] : i \in S}) = S
<1> SUFFICES ASSUME NEW S, NEW x PROVE IdsOf({[id |-> i, tenant |-> x] : i \in S}) = S
  OBVIOUS
<1> DEFINE made(i) == [id |-> i, tenant |-> x]
<1>1. \A i : made(i).id = i
  OBVIOUS
<1> HIDE DEF made
<1>2. {made(i).id : i \in S} = S
  BY <1>1
<1>3. IdsOf({made(i) : i \in S}) = {made(i).id : i \in S}
  BY DEF IdsOf
<1> QED
  BY <1>2, <1>3 DEF made

\* And so have the audit entries it writes.
LEMMA IdsOfAudits == \A S, x : IdsOf({[id |-> i, user |-> x] : i \in S}) = S
<1> SUFFICES ASSUME NEW S, NEW x PROVE IdsOf({[id |-> i, user |-> x] : i \in S}) = S
  OBVIOUS
<1> DEFINE made(i) == [id |-> i, user |-> x]
<1>1. \A i : made(i).id = i
  OBVIOUS
<1> HIDE DEF made
<1>2. {made(i).id : i \in S} = S
  BY <1>1
<1>3. IdsOf({made(i) : i \in S}) = {made(i).id : i \in S}
  BY DEF IdsOf
<1> QED
  BY <1>2, <1>3 DEF made

\* What a flush makes of a transaction.
LEMMA WrittenIs ==
    ASSUME UnitInv, NEW t \in Requests, pc[t] = "open"
    PROVE  LET w == Unit!Written(t)
           IN  /\ IdsOf(w.rows) = Pending(t) /\ IdsOf(w.audits) = Pending(t)
               /\ \A r \in w.rows : r.tenant = TenantOf[t]
               /\ \A a, b \in w.audits : a.id = b.id => a = b
<1> DEFINE w == Unit!Written(t)
<1>1. /\ w.rows = flushed[t].rows \cup {[id |-> i, tenant |-> tenant[t]] : i \in added[t]}
      /\ w.audits = flushed[t].audits \cup {[id |-> i, user |-> auditUser] : i \in added[t]}
  BY DEF Unit!Written, Unit!AuditOf
<1> HIDE DEF w
<1>2. /\ added[t] \cap IdsOf(flushed[t].rows) = {} /\ tenant[t] = TenantOf[t]
      /\ \A r \in flushed[t].rows : r.tenant = TenantOf[t]
      /\ IdsOf(flushed[t].audits) = IdsOf(flushed[t].rows)
      /\ \A a, b \in flushed[t].audits : a.id = b.id => a = b
  BY DEF UnitInv, OwnRows, Audited, Tagged
<1>3. IdsOf(w.rows) = Pending(t)
  <2> DEFINE fresh == {[id |-> i, tenant |-> tenant[t]] : i \in added[t]}
  <2>1. w.rows = flushed[t].rows \cup fresh
    BY <1>1
  <2>2. IdsOf(fresh) = added[t]
    BY IdsOfRows, Zenon
  <2> HIDE DEF fresh
  <2> QED
    BY <2>1, <2>2, IdsOfUnion DEF Pending
<1>4. IdsOf(w.audits) = Pending(t)
  <2>1. IdsOf(w.audits) = IdsOf(flushed[t].audits) \cup added[t]
    <3> DEFINE fresh == {[id |-> i, user |-> auditUser] : i \in added[t]}
    <3>1. w.audits = flushed[t].audits \cup fresh
      BY <1>1
    <3>2. IdsOf(fresh) = added[t]
      BY IdsOfAudits, Zenon
    <3> HIDE DEF fresh
    <3> QED
      BY <3>1, <3>2, IdsOfUnion
  <2> QED
    BY <1>2, <2>1 DEF Pending
<1>5. \A r \in w.rows : r.tenant = TenantOf[t]
  BY <1>1, <1>2
<1>6. ASSUME NEW a \in w.audits, NEW b \in w.audits, a.id = b.id PROVE a = b
  <2>1. CASE a \in flushed[t].audits /\ b \in flushed[t].audits
    BY <1>2, <1>6, <2>1
  <2>2. CASE a \notin flushed[t].audits /\ b \notin flushed[t].audits
    BY <1>1, <1>6, <2>2
  <2>3. \A c \in flushed[t].audits : c.id \notin added[t]
    BY <1>2 DEF IdsOf
  <2> QED
    BY <1>1, <1>6, <2>1, <2>2, <2>3
<1> QED
  BY <1>3, <1>4, <1>5, <1>6 DEF w

\* A step that leaves the sessions and what is durable alone.
LEMMA OnlyRequests ==
    ASSUME UnitInv, UNCHANGED <<added, flushed, rows, audits, commits>>,
           DOMAIN pc' = Requests, DOMAIN tenant' = Requests, \A t \in Requests : Tagged(t)'
    PROVE  UnitInv'
<1>1. UnitShape'
  BY DEF UnitInv, UnitShape
<1>2. ASSUME NEW t \in Requests PROVE (OwnRows(t) /\ Audited(t) /\ Counted(t))'
  BY DEF UnitInv, OwnRows, Audited, Counted, Pending, Mine, Kept, Unit!Ids, IdsOf, Numbered
<1>3. Unit!CommittedRowsAreTrue'
  BY DEF UnitInv, Unit!CommittedRowsAreTrue, Unit!AuditTrailIsExact, Unit!OnlyCommittedSurvives, Unit!RowsCarryTenant
<1> QED
  BY <1>1, <1>2, <1>3 DEF UnitInv

\* The ids of a request's rows, pending and committed.
LEMMA Places == ASSUME NEW t PROVE Unit!Ids(t) = Pending(t) \cup IdsOf(rows)
BY DEF Unit!Ids, Pending, IdsOf

\* Sizes are the same in the module that is instantiated.
LEMMA SizeIsSize == \A S : Unit!Cardinality(S) = Cardinality(S)
BY DEF Unit!Cardinality, Cardinality

\* A row that is added gets an id that no row of the request has.
LEMMA AddKeeps ==
    ASSUME UnitInv, NEW t \in Requests, Unit!Add(t)
    PROVE  UnitInv'
<1> DEFINE n == Cardinality(Mine(t))
           new == [by |-> t, nr |-> n + 1, unit |-> commits[t]]
<1>1. /\ added' = [added EXCEPT ![t] = @ \cup {new}]
      /\ UNCHANGED <<pc, tenant, flushed, rows, audits, commits>>
  BY SizeIsSize DEF Unit!Add, Unit!requestVars, Unit!durableVars, Mine
<1>2. /\ DOMAIN added' = Requests /\ added'[t] = added[t] \cup {new}
      /\ \A u \in Requests \ {t} : added'[u] = added[u]
  BY <1>1 DEF UnitInv, UnitShape
<1>3. IsFiniteSet(Mine(t)) /\ n \in Nat /\ \A i \in Mine(t) : i.nr \in Nat /\ i.nr <= n
  BY FS_CardinalityType DEF UnitInv, Counted, Numbered
<1>4. new.by = t /\ new.unit = commits[t] /\ new.nr = n + 1
  OBVIOUS
<1> HIDE DEF n, new
<1>5. new \notin Mine(t) /\ new \notin Unit!Ids(t)
  BY <1>3, <1>4 DEF Mine
<1>6. Pending(t)' = Pending(t) \cup {new} /\ Mine(t)' = Mine(t) \cup {new}
  BY <1>1, <1>2, <1>4 DEF Pending, Mine, Unit!Ids, IdsOf
<1>7. Numbered(Mine(t)')
  <2>1. IsFiniteSet(Mine(t)') /\ Cardinality(Mine(t)') = n + 1
    BY <1>3, <1>5, <1>6, FS_AddElement DEF n
  <2> QED
    <3>1. \A i \in Mine(t)' : i.nr \in Nat /\ i.nr <= n + 1
      <4> SUFFICES ASSUME NEW i \in Mine(t)' PROVE i.nr \in Nat /\ i.nr <= n + 1
        OBVIOUS
      <4>1. CASE i = new
        BY <1>3, <1>4, <4>1
      <4>2. CASE i \in Mine(t)
        BY <1>3, <4>2
      <4> QED
        BY <1>6, <4>1, <4>2
    <3> QED
      BY <2>1, <3>1 DEF Numbered
<1>8. Numbered(Mine(t))'
  BY <1>7 DEF Numbered
<1>9. Kept(t)' = Kept(t) /\ Numbered(Kept(t))'
  BY <1>1 DEF Kept, IdsOf, Numbered, UnitInv, Counted
<1>10. OwnRows(t)'
  BY <1>1, <1>2, <1>4, <1>5, <1>6 DEF UnitInv, OwnRows, Unit!Ids, IdsOf
<1>11. ASSUME NEW u \in Requests \ {t} PROVE (OwnRows(u) /\ Counted(u))'
  <2>1. OwnRows(u) /\ Counted(u) /\ added'[u] = added[u]
    BY <1>2 DEF UnitInv
  <2>2. OwnRows(u)'
    BY <1>1, <2>1 DEF OwnRows, Pending, IdsOf
  <2>3. Counted(u)'
    BY <1>1, <2>1 DEF Counted, Mine, Kept, Unit!Ids, IdsOf, Numbered
  <2> QED
    BY <2>2, <2>3
<1>12. ASSUME NEW u \in Requests PROVE (Tagged(u) /\ Audited(u))'
  BY <1>1 DEF UnitInv, Tagged, Audited, IdsOf
<1>13. UnitShape' /\ Unit!CommittedRowsAreTrue'
  BY <1>1, <1>2 DEF UnitInv, UnitShape, Unit!CommittedRowsAreTrue, Unit!AuditTrailIsExact, Unit!OnlyCommittedSurvives, Unit!RowsCarryTenant
<1> QED
  BY <1>8, <1>9, <1>10, <1>11, <1>12, <1>13 DEF UnitInv, Counted

\* A flush turns added rows into written ones with their entries.
LEMMA FlushKeeps ==
    ASSUME UnitInv, NEW t \in Requests, Unit!Flush(t)
    PROVE  UnitInv'
<1>1. /\ DOMAIN added' = Requests /\ added'[t] = {} /\ DOMAIN flushed' = Requests /\ flushed'[t] = Unit!Written(t)
      /\ \A u \in Requests \ {t} : added'[u] = added[u] /\ flushed'[u] = flushed[u]
      /\ UNCHANGED <<pc, tenant, rows, audits, commits>>
  BY DEF Unit!Flush, Unit!requestVars, Unit!durableVars, UnitInv, UnitShape
<1>2. /\ IdsOf(Unit!Written(t).rows) = Pending(t) /\ IdsOf(Unit!Written(t).audits) = Pending(t)
      /\ \A r \in Unit!Written(t).rows : r.tenant = TenantOf[t]
      /\ \A a, b \in Unit!Written(t).audits : a.id = b.id => a = b
      /\ DOMAIN Unit!Written(t) = {"rows", "audits"}
  <2>1. pc[t] = "open"
    BY DEF Unit!Flush
  <2> QED
    BY <2>1, WrittenIs DEF Unit!Written
<1>3. IdsOf(flushed'[t].rows) = Pending(t) /\ IdsOf(flushed'[t].audits) = Pending(t)
  BY <1>1, <1>2
<1>4. Pending(t)' = Pending(t)
  BY <1>1, <1>3 DEF Pending, IdsOf
<1>5. OwnRows(t)' /\ Audited(t)'
  <2>1. IdsOf(flushed[t].rows)' = IdsOf(flushed'[t].rows) /\ IdsOf(flushed[t].audits)' = IdsOf(flushed'[t].audits)
    BY DEF IdsOf
  <2>2. \A i \in Pending(t) : i.by = t /\ i.unit = commits[t]
    BY DEF UnitInv, OwnRows
  <2> QED
    BY <1>1, <1>2, <1>3, <1>4, <2>1, <2>2 DEF OwnRows, Audited
<1>6. Counted(t)'
  <2>1. Unit!Ids(t)' = Unit!Ids(t)
    BY <1>1, <1>4 DEF Unit!Ids, Pending, IdsOf
  <2> QED
    BY <1>1, <2>1 DEF UnitInv, Counted, Mine, Kept, IdsOf, Numbered
<1>7. ASSUME NEW u \in Requests \ {t} PROVE (OwnRows(u) /\ Audited(u) /\ Counted(u))'
  BY <1>1 DEF UnitInv, OwnRows, Audited, Counted, Pending, Mine, Kept, Unit!Ids, IdsOf, Numbered
<1>8. ASSUME NEW u \in Requests PROVE Tagged(u)'
  BY <1>1 DEF UnitInv, Tagged
<1>9. UnitShape' /\ Unit!CommittedRowsAreTrue'
  BY <1>1, <1>2 DEF UnitInv, UnitShape, Unit!CommittedRowsAreTrue, Unit!AuditTrailIsExact, Unit!OnlyCommittedSurvives, Unit!RowsCarryTenant
<1> QED
  BY <1>5, <1>6, <1>7, <1>8, <1>9 DEF UnitInv

\* The end of a transaction that is given up.
LEMMA RollbackKeeps ==
    ASSUME UnitInv, NEW t \in Requests, Unit!Ended(t), UNCHANGED <<tenant, rows, audits, commits>>,
           DOMAIN pc' = Requests, \A u \in Requests : Tagged(u)'
    PROVE  UnitInv'
<1>1. /\ DOMAIN added' = Requests /\ added'[t] = {} /\ DOMAIN flushed' = Requests /\ flushed'[t] = Unit!Nothing
      /\ \A u \in Requests \ {t} : added'[u] = added[u] /\ flushed'[u] = flushed[u]
  BY DEF Unit!Ended, UnitInv, UnitShape
<1>2. flushed'[t].rows = {} /\ flushed'[t].audits = {} /\ DOMAIN flushed'[t] = {"rows", "audits"}
  BY <1>1 DEF Unit!Nothing
<1>3. Pending(t)' = {} /\ OwnRows(t)' /\ Audited(t)'
  BY <1>1, <1>2 DEF Pending, OwnRows, Audited, IdsOf
<1>4. Counted(t)'
  <2>1. Mine(t)' = Kept(t) /\ Kept(t)' = Kept(t)
    BY <1>1, <1>2 DEF Mine, Unit!Ids, Kept, IdsOf
  <2> QED
    BY <2>1 DEF UnitInv, Counted, Numbered
<1>5. ASSUME NEW u \in Requests \ {t} PROVE (OwnRows(u) /\ Audited(u) /\ Counted(u))'
  BY <1>1 DEF UnitInv, OwnRows, Audited, Counted, Pending, Mine, Kept, Unit!Ids, IdsOf, Numbered
<1>6. UnitShape' /\ Unit!CommittedRowsAreTrue'
  BY <1>1, <1>2 DEF UnitInv, UnitShape, Unit!CommittedRowsAreTrue, Unit!AuditTrailIsExact, Unit!OnlyCommittedSurvives, Unit!RowsCarryTenant
<1> QED
  BY <1>3, <1>4, <1>5, <1>6 DEF UnitInv

\* A commit makes what is pending durable: of a unit that nothing durable has.
LEMMA CommitKeeps ==
    ASSUME UnitInv, NEW t \in Requests, pc[t] = "open", Unit!Commits(t), Unit!Ended(t), UNCHANGED tenant,
           DOMAIN pc' = Requests, \A u \in Requests : Tagged(u)'
    PROVE  UnitInv'
<1>1. /\ DOMAIN added' = Requests /\ added'[t] = {} /\ DOMAIN flushed' = Requests /\ flushed'[t] = Unit!Nothing
      /\ \A u \in Requests \ {t} : added'[u] = added[u] /\ flushed'[u] = flushed[u]
  BY DEF Unit!Ended, UnitInv, UnitShape
<1>2. flushed'[t].rows = {} /\ flushed'[t].audits = {} /\ DOMAIN flushed'[t] = {"rows", "audits"}
  BY <1>1 DEF Unit!Nothing
<1>3. /\ commits \in [Requests -> Nat] /\ commits' \in [Requests -> Nat] /\ commits'[t] = commits[t] + 1
      /\ \A u \in Requests \ {t} : commits'[u] = commits[u]
  BY DEF Unit!Commits, UnitInv, UnitShape
<1> DEFINE w == Unit!Written(t)
<1>4. rows' = rows \cup w.rows /\ audits' = audits \cup w.audits
  BY DEF Unit!Commits
<1>5. /\ IdsOf(w.rows) = Pending(t) /\ IdsOf(w.audits) = Pending(t)
      /\ \A r \in w.rows : r.tenant = TenantOf[t]
      /\ \A a, b \in w.audits : a.id = b.id => a = b
  BY WrittenIs
<1> HIDE DEF w
<1>6. /\ IdsOf(rows') = IdsOf(rows) \cup Pending(t)
      /\ IdsOf(audits') = IdsOf(audits) \cup Pending(t)
  BY <1>4, <1>5, IdsOfUnion
<1>7. \A i \in Pending(t) : i.by = t /\ i.unit = commits[t]
  BY DEF UnitInv, OwnRows
<1>8. /\ IdsOf(audits) = IdsOf(rows) /\ \A a, b \in audits : a.id = b.id => a = b
      /\ \A r \in rows : r.id.unit < commits[r.id.by] /\ r.tenant = TenantOf[r.id.by]
  BY DEF UnitInv, Unit!CommittedRowsAreTrue, Unit!AuditTrailIsExact, Unit!OnlyCommittedSurvives, Unit!RowsCarryTenant, IdsOf
<1>9. Unit!CommittedRowsAreTrue'
  <2>1. \A i \in IdsOf(audits) : i \notin Pending(t)
    BY <1>3, <1>7, <1>8 DEF IdsOf
  <2>2. ASSUME NEW a \in audits', NEW b \in audits', a.id = b.id PROVE a = b
    <3>1. \A c \in audits : c.id \in IdsOf(audits)
      BY DEF IdsOf
    <3>2. \A c \in w.audits : c.id \in Pending(t)
      BY <1>5 DEF IdsOf
    <3> QED
      BY <1>4, <1>5, <1>8, <2>1, <2>2, <3>1, <3>2
  <2>3. IdsOf(audits') = IdsOf(rows')
    BY <1>6, <1>8
  <2>4. ASSUME NEW r \in rows' PROVE r.id.unit < commits'[r.id.by] /\ r.tenant = TenantOf[r.id.by]
    <3>1. CASE r \in rows
      <4>1. r.id.by \in Requests /\ r.id.unit < commits[r.id.by] /\ r.tenant = TenantOf[r.id.by]
        BY <1>8, <3>1 DEF UnitInv, UnitShape
      <4>2. CASE r.id.by = t
        <5>1. r.id.unit \in Nat /\ \A x \in Nat : x < commits[t] => x < commits[t] + 1
          BY <1>3, <3>1 DEF UnitInv, UnitShape
        <5> QED
          BY <1>3, <4>1, <4>2, <5>1
      <4>3. CASE r.id.by # t
        BY <1>3, <4>1, <4>3
      <4> QED
        BY <4>2, <4>3
    <3>2. CASE r \in w.rows
      <4>1. r.id \in Pending(t)
        BY <1>5, <3>2 DEF IdsOf
      <4> QED
        BY <1>3, <1>5, <1>7, <3>2, <4>1
    <3> QED
      BY <1>4, <3>1, <3>2
  <2> QED
    BY <2>2, <2>3, <2>4 DEF Unit!CommittedRowsAreTrue, Unit!AuditTrailIsExact, Unit!OnlyCommittedSurvives, Unit!RowsCarryTenant, IdsOf
<1>10. OwnRows(t)' /\ Audited(t)'
  BY <1>1, <1>2 DEF Pending, OwnRows, Audited, IdsOf
<1>11. Counted(t)'
  <2>1. Mine(t)' = Mine(t) /\ Kept(t)' = Mine(t)
    BY <1>1, <1>2, <1>6 DEF Mine, Unit!Ids, Kept, Pending, IdsOf
  <2> QED
    BY <2>1 DEF UnitInv, Counted, Numbered
<1>12. ASSUME NEW u \in Requests \ {t} PROVE (OwnRows(u) /\ Audited(u) /\ Counted(u))'
  <2>1. OwnRows(u) /\ Audited(u) /\ Counted(u) /\ added'[u] = added[u] /\ flushed'[u] = flushed[u]
        /\ commits'[u] = commits[u]
    BY <1>1, <1>3 DEF UnitInv
  <2>2. OwnRows(u)' /\ Audited(u)'
    BY <2>1 DEF OwnRows, Audited, Pending, IdsOf
  <2>3. Kept(u)' = Kept(u) /\ Mine(u)' = Mine(u)
    BY <1>6, <1>7, <2>1 DEF Kept, Mine, Unit!Ids, IdsOf
  <2> QED
    BY <2>1, <2>2, <2>3 DEF Counted, Numbered
<1>13. UnitShape'
  <2>1. \A r \in w.rows : r.id.by \in Requests /\ r.id.unit \in Nat
    BY <1>3, <1>5, <1>7 DEF IdsOf
  <2> QED
    BY <1>1, <1>2, <1>3, <1>4, <2>1 DEF UnitInv, UnitShape
<1> QED
  BY <1>9, <1>10, <1>11, <1>12, <1>13 DEF UnitInv

\* A step is one of requests only, an addition, a flush, a commit or a rollback.
LEMMA UnitStepKeeps ==
    ASSUME Unit!TenantAssumption, UnitInv, [Unit!Next]_(Unit!vars)
    PROVE  UnitInv'
<1> USE DEF Unit!requestVars, Unit!sessionVars, Unit!durableVars, Unit!Goes
<1>1. ASSUME UNCHANGED <<pc, tenant>> PROVE DOMAIN pc' = Requests /\ DOMAIN tenant' = Requests /\ \A u \in Requests : Tagged(u)'
  BY <1>1 DEF UnitInv, UnitShape, Tagged
<1>2. ASSUME NEW t \in Requests, NEW to, UNCHANGED tenant, pc[t] = "open" \/ pc[t] = "arrived",
             pc' = [pc EXCEPT ![t] = to]
      PROVE  DOMAIN pc' = Requests /\ DOMAIN tenant' = Requests /\ \A u \in Requests : Tagged(u)'
  BY <1>2 DEF UnitInv, UnitShape, Tagged
<1>3. CASE Unit!Connect \/ Unit!Disconnect \/ UNCHANGED Unit!vars
  BY <1>1, <1>3, OnlyRequests DEF Unit!Connect, Unit!Disconnect, Unit!vars
<1>4. ASSUME NEW t \in Requests, Unit!Arrive(t) PROVE UnitInv'
  <2>1. DOMAIN pc' = Requests /\ DOMAIN tenant' = Requests /\ \A u \in Requests : Tagged(u)'
    BY <1>4 DEF Unit!Arrive, Unit!TenantSet, UnitInv, UnitShape, Tagged
  <2> QED
    BY <1>4, <2>1, OnlyRequests DEF Unit!Arrive
<1>5. ASSUME NEW t \in Requests, Unit!Leave(t) PROVE UnitInv'
  <2>1. DOMAIN pc' = Requests /\ DOMAIN tenant' = Requests /\ \A u \in Requests : Tagged(u)'
    BY <1>5 DEF Unit!Leave, UnitInv, UnitShape, Tagged
  <2> QED
    BY <1>5, <2>1, OnlyRequests DEF Unit!Leave
<1>6. ASSUME NEW t \in Requests, Unit!Open(t) PROVE UnitInv'
  <2>1. DOMAIN pc' = Requests /\ DOMAIN tenant' = Requests /\ \A u \in Requests : Tagged(u)'
    BY <1>2, <1>6 DEF Unit!Open
  <2> QED
    BY <1>6, <2>1, OnlyRequests DEF Unit!Open
<1>7. ASSUME NEW t \in Requests, Unit!Query(t) PROVE UnitInv'
  BY <1>1, <1>7, OnlyRequests DEF Unit!Query
<1>8. ASSUME NEW t \in Requests, Unit!Commit(t) PROVE UnitInv'
  BY <1>1, <1>8, CommitKeeps DEF Unit!Commit
<1>9. ASSUME NEW t \in Requests, Unit!Exit(t) PROVE UnitInv'
  <2>1. DOMAIN pc' = Requests /\ \A u \in Requests : Tagged(u)'
    BY <1>2, <1>9 DEF Unit!Exit
  <2> QED
    BY <1>9, <2>1, CommitKeeps, RollbackKeeps DEF Unit!Exit
<1>10. ASSUME NEW t \in Requests, Unit!ExitRaises(t) PROVE UnitInv'
  <2>1. DOMAIN pc' = Requests /\ \A u \in Requests : Tagged(u)'
    BY <1>2, <1>10 DEF Unit!ExitRaises
  <2> QED
    BY <1>10, <2>1, RollbackKeeps DEF Unit!ExitRaises, Unit!RolledBack
<1> QED
  BY <1>3, <1>4, <1>5, <1>6, <1>7, <1>8, <1>9, <1>10, AddKeeps, FlushKeeps DEF Unit!Next

\* It holds at the start.
LEMMA UnitStarts == Unit!Init => UnitInv
<1> SUFFICES ASSUME Unit!Init PROVE UnitInv
  OBVIOUS
<1>1. rows = {} /\ audits = {} /\ \A t \in Requests : added[t] = {} /\ flushed[t] = Unit!Nothing
  BY DEF Unit!Init
<1>2. UnitShape
  BY <1>1 DEF Unit!Init, UnitShape, Unit!Nothing
<1>3. ASSUME NEW t \in Requests PROVE Tagged(t) /\ OwnRows(t) /\ Audited(t)
  BY <1>1 DEF Unit!Init, Tagged, OwnRows, Audited, Unit!Nothing, Pending, IdsOf
<1>4. ASSUME NEW t \in Requests PROVE Mine(t) = {} /\ Kept(t) = {}
  BY <1>1 DEF Mine, Kept, Unit!Ids, IdsOf, Unit!Nothing
<1>5. Numbered({})
  BY FS_EmptySet DEF Numbered
<1>6. Unit!CommittedRowsAreTrue
  BY <1>1 DEF Unit!CommittedRowsAreTrue, Unit!AuditTrailIsExact, Unit!OnlyCommittedSurvives,
              Unit!RowsCarryTenant
<1> QED
  BY <1>2, <1>3, <1>4, <1>5, <1>6 DEF UnitInv, Counted

\* However requests interleave, fail and share the connection's fate, durable
\* rows were committed, have one audit entry each and their request's tenant.
THEOREM CommittedRows == Unit!Spec => []Unit!CommittedRowsAreTrue
<1>1. UnitInv /\ [Unit!Next]_(Unit!vars) => UnitInv'
  BY ComponentsAssume, UnitStepKeeps
<1>2. UnitInv => Unit!CommittedRowsAreTrue
  BY DEF UnitInv
<1> QED
  BY <1>1, <1>2, UnitStarts, PTL DEF Unit!Spec

-----------------------------------------------------------------------------
(* All components, as MCDatabase composes them. *)

DatabaseInv ==
    /\ component = "plain" => CacheInv
    /\ component = "connections" => ConnectionsInv
    /\ component = "apart" => LockInv
    /\ UnitInv

\* A step of the composition is one of its component, or none of it.
LEMMA StepIsOfComponent ==
    ASSUME [Next]_allVars
    PROVE  /\ component' = component
           /\ component = "plain" => [Plain!Next]_(Plain!vars)
           /\ component = "connections" => [Connected!Next]_(Connected!vars)
           /\ component = "apart" => [Apart!Next]_(Apart!vars)
           /\ [Unit!Next]_(Unit!vars)
<1> USE DEF allVars, lockVars, cacheVars, pageVars, unitVars, recordVars, connectionVars,
            Plain!vars, Connected!vars, Apart!vars, Unit!vars
<1>1. CASE UNCHANGED allVars
  BY <1>1
<1>2. CASE /\ UNCHANGED <<component, cacheVars, pageVars, unitVars, recordVars>>
           /\ \/ component = "apart" /\ Apart!Next
              \/ component = "pooled" /\ Pooled!Next
              \/ component = "together" /\ Together!Next
  BY <1>2
<1>3. CASE /\ UNCHANGED <<component, lockVars, pageVars, unitVars, recordVars>>
           /\ \/ component = "plain" /\ Plain!Next
              \/ component = "awaiting" /\ Awaiting!Next
  BY <1>3
<1>4. CASE /\ UNCHANGED <<component, lockVars, cacheVars, unitVars, recordVars>>
           /\ component = "pages" /\ Pages!Next
  BY <1>4
<1>5. CASE /\ UNCHANGED <<component, lockVars, cacheVars, pageVars, recordVars>>
           /\ component = "unit" /\ Unit!Next
  BY <1>5
<1>6. CASE RecordsNext /\ UNCHANGED <<lockVars, cacheVars, pageVars, unitVars>>
  BY <1>6 DEF RecordsNext
<1> QED
  BY <1>1, <1>2, <1>3, <1>4, <1>5, <1>6 DEF Next

\* Every component that is proved keeps its invariant in the composition.
THEOREM DatabaseInvariance == Spec => []DatabaseInv
<1>1. Init => DatabaseInv
  BY CacheStarts, ConnectionsStart, LockStarts, UnitStarts DEF Init, RecordsInit, DatabaseInv
<1>2. DatabaseInv /\ [Next]_allVars => DatabaseInv'
  BY ComponentsAssume, StepIsOfComponent, CacheStepKeeps, ConnectionsStepKeeps, LockStepKeeps,
     UnitStepKeeps DEF DatabaseInv
<1> QED
  BY <1>1, <1>2, PTL DEF Spec

\* Every durable row was committed, is audited once and has the tenant of the
\* request that added it.
THEOREM CommittedRowsStayTrue == Spec => []CommittedRowsAreTrue
<1>1. DatabaseInv => CommittedRowsAreTrue
  BY DEF DatabaseInv, UnitInv, CommittedRowsAreTrue
<1> QED
  BY <1>1, DatabaseInvariance, PTL

\* What an invalidation was for is never served again, with callbacks that do
\* not suspend.
THEOREM InvalidatedStaysGone == Spec => []InvalidatedIsGone
<1>1. DatabaseInv => InvalidatedIsGone
  BY CacheInvMeans DEF DatabaseInv, InvalidatedIsGone
<1> QED
  BY <1>1, DatabaseInvariance, PTL

\* No engine is lost, and the helpers answer only what they have seen.
THEOREM ConnectionsStayKept == Spec => []ConnectionsAreKept
<1>1. DatabaseInv => ConnectionsAreKept
  BY ConnectionsInvMeans DEF DatabaseInv, ConnectionsAreKept
<1> QED
  BY <1>1, DatabaseInvariance, PTL

\* Processes with one connection each give advisory locks back when they
\* release them; of tasks that share a pool TLC checks it.
THEOREM ReleasedStaysFree == "together" \notin Components /\ Spec => []ReleasedIsFree
<1> SUFFICES ASSUME "together" \notin Components PROVE Spec => []ReleasedIsFree
  OBVIOUS
<1>1. component \in Components /\ [Next]_allVars => (component \in Components)'
  BY StepIsOfComponent
<1>2. DatabaseInv /\ component \in Components => ReleasedIsFree
  BY LockInvMeans DEF DatabaseInv, ReleasedIsFree
<1>3. Init => component \in Components
  BY DEF Init
<1> QED
  BY <1>1, <1>2, <1>3, DatabaseInvariance, PTL DEF Spec
===============================================================================
