------------------------------ MODULE QueryCache ------------------------------
(***************************************************************************)
(* The query cache of src/core/database/cache.py with its in-memory        *)
(* backend, used by asyncio tasks: remember(), forget(), flush() and the   *)
(* tagged variants, over a database whose rows change meanwhile.           *)
(*                                                                         *)
(* A key is the sequence of its sorted tags, as the prefix of the cache    *)
(* key spells them out, and a name; an untagged key has no tags.  A value  *)
(* is the version of the data it was computed from.  A callback that is a  *)
(* coroutine reads the database in one step and returns in a later one; a  *)
(* plain function runs within remember().                                  *)
(*                                                                         *)
(* Left out: the Redis backend, the index that _track() keeps (nothing     *)
(* reads it), values that are None (they are never found in the cache).    *)
(*                                                                         *)
(* A definition whose name ends in _ and a slip is a mutant of the         *)
(* definition it is named after; nothing uses it.                          *)
(***************************************************************************)
EXTENDS Naturals, SequencesExt

CONSTANTS
    Tasks,          \* the asyncio tasks
    Keys,           \* the keys in use
    TagGroups,      \* the sorted tag sets flush() is called for
    Ttl,            \* ttl
    Coroutine,      \* whether the callbacks are coroutine functions
    MaxVersion,     \* bound: the last version of a key's data
    MaxTime         \* bound: the last instant of the clock

KeysAssumption == Keys \subseteq [tags : Seq(Nat), name : STRING]
TagsAssumption == TagGroups \subseteq Seq(Nat)
CallbackAssumption == Coroutine \in BOOLEAN
BoundAssumption == Ttl \in Nat /\ MaxVersion \in Nat /\ MaxTime \in Nat

VARIABLES
    now,            \* time.monotonic()
    version,        \* per key the version of the data in the database
    memory,         \* _memory: the entries
    pc,             \* per task where its remember() is
    task,           \* per task the key of its remember() and the value computed
    outdated        \* history: per key the last version that was out of date
                    \* when the key was last invalidated

vars == <<now, version, memory, pc, task, outdated>>

Entry == [key : Keys, value : Nat, expires : Nat]

Init ==
    /\ now = 0
    /\ version = [k \in Keys |-> 1]
    /\ memory = {}
    /\ pc = [t \in Tasks |-> "idle"]
    /\ task \in [Tasks -> [key : {CHOOSE k \in Keys : TRUE}, value : {0}]]
    /\ outdated = [k \in Keys |-> 0]

IsExpired(e) == now > e.expires

\* What get(k) finds: the live entry of the key, if any.
Found(k) == {e \in memory : e.key = k /\ ~ IsExpired(e)}

Without_KeepsExpired(k) == memory \ Found(k)
Without(k) == {e \in memory : e.key # k}
Stored(k, v) == Without(k) \cup {[key |-> k, value |-> v, expires |-> now + Ttl]}

-----------------------------------------------------------------------------

\* remember(k) misses; get() has deleted an expired entry.
Miss(t, k) ==
    /\ pc[t] = "idle"
    /\ Found(k) = {}
    /\ IF Coroutine
       THEN /\ memory' = Without(k)
            /\ task' = [task EXCEPT ![t].key = k, ![t].value = version[k]]
            /\ pc' = [pc EXCEPT ![t] = "fetched"]
       ELSE /\ memory' = Stored(k, version[k])
            /\ UNCHANGED <<task, pc>>
    /\ UNCHANGED <<now, version, outdated>>

\* The callback returns what it read and remember() stores it.
Put(t) ==
    /\ pc[t] = "fetched"
    /\ memory' = Stored(task[t].key, task[t].value)
    /\ pc' = [pc EXCEPT ![t] = "idle"]
    /\ UNCHANGED <<now, version, task, outdated>>

\* The application changes the data ...
Write(k) ==
    /\ version[k] < MaxVersion
    /\ version' = [version EXCEPT ![k] = @ + 1]
    /\ UNCHANGED <<now, memory, pc, task, outdated>>

Invalidate_OnlyExpired(keys) ==
    /\ memory' = {e \in memory : e.key \notin keys \/ ~ IsExpired(e)}
    /\ outdated' = [k \in Keys |-> IF k \in keys THEN version[k] - 1 ELSE outdated[k]]
    /\ UNCHANGED <<now, version, pc, task>>

Invalidate(keys) ==
    /\ memory' = {e \in memory : e.key \notin keys}
    /\ outdated' = [k \in Keys |-> IF k \in keys THEN version[k] - 1 ELSE outdated[k]]
    /\ UNCHANGED <<now, version, pc, task>>

\* ... and invalidates the key, everything, or a tag group.
Forget(k) == Invalidate({k})
Flush == Invalidate(Keys)

\* The keys that match the pattern <prefix of the tags>*.
Matching(tags) == {k \in Keys : IsPrefix(tags, k.tags)}

FlushTags(tags) == Invalidate(Matching(tags))

Tick ==
    /\ now < MaxTime
    /\ now' = now + 1
    /\ UNCHANGED <<version, memory, pc, task, outdated>>

Next ==
    \/ \E t \in Tasks, k \in Keys : Miss(t, k)
    \/ \E t \in Tasks : Put(t)
    \/ \E k \in Keys : Write(k) \/ Forget(k)
    \/ Flush
    \/ \E tags \in TagGroups : FlushTags(tags)
    \/ Tick

Spec == Init /\ [][Next]_vars

-----------------------------------------------------------------------------

\* Every variable has its type, and a key has at most one entry.
TypeOK ==
    /\ now \in 0 .. MaxTime
    /\ version \in [Keys -> 1 .. MaxVersion]
    /\ memory \subseteq Entry
    /\ \A d, e \in memory : d.key = e.key => d = e
    /\ pc \in [Tasks -> {"idle", "fetched"}]
    /\ task \in [Tasks -> [key : Keys, value : 0 .. MaxVersion]]
    /\ outdated \in [Keys -> 0 .. MaxVersion]

\* What an invalidation was for is never served again: after forget(k) or a
\* flush() that covers k, no get(k) finds data older than the data was then.
InvalidatedIsGone ==
    \A k \in Keys : \A e \in Found(k) : e.value > outdated[k]
===============================================================================
