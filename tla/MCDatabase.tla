------------------------------ MODULE MCDatabase ------------------------------
(***************************************************************************)
(* The components of src/core/database, repository and service: the        *)
(* advisory lock, the query cache, the cursor paginator, the unit of work, *)
(* the query builder, the repository, the connections, the observers and   *)
(* the bulk operations.  They share nothing but the database, so each      *)
(* behaviour exercises one of them, chosen from Components at the start;   *)
(* the variables of the others stay as they start, or are 0.               *)
(*                                                                         *)
(* What DatabaseProofs proves it proves for all values of the constants;   *)
(* those that are functions or sequences have their values for TLC here,   *)
(* as MC definitions.                                                      *)
(***************************************************************************)
EXTENDS Naturals, Sequences, TLC

CONSTANTS
    Components,     \* those this run is about
    None,           \* NULL, no row, no engine, no key
    Unmatched,      \* a value no row holds
    NoConnection, NoCursor, NoTenant, NoUser,
    Servers,                                                    \* DatabaseLock, apart
    CacheKeys, TagGroups, CacheTtl, MaxVersion, MaxCacheTime,   \* QueryCache
    Requests, Tenants, TenantOf, MaxRows,                       \* UnitOfWork
    Workers, ConnectionNames, MaxRetries, MaxEngines, MaxOperations,    \* DatabaseConnections
    p1, p2, t1, t2, t3, c1, c2, acme, umbrella

VARIABLES
    component,                                                  \* of this behaviour
    lockPc, conn, idle, owner, holds,                           \* DatabaseLock
    now, version, memory, cachePc, task, outdated,              \* QueryCache
    table, page, walk, shown, stayed,                           \* CursorPaginator
    connected, pc, kind, tenant, auditUser, added, flushed,     \* UnitOfWork
    rows, audits, commits, seen,
    entries, query, phase, reads, total, given, steady, answer, \* QueryBuilder
    records, keyed, working, told, calls, raced,                \* Repository
    engines, created, disposed, up, reachable, failures,        \* DatabaseConnections
    checking, checks, pinged,
    observers, registered, hooks, writes, done, log,            \* ModelObserver
    merged, batch, statements                                   \* BulkOperations

lockVars == <<lockPc, conn, idle, owner, holds>>
cacheVars == <<now, version, memory, cachePc, task, outdated>>
pageVars == <<table, page, walk, shown, stayed>>
unitVars == <<connected, pc, kind, tenant, auditUser, added, flushed, rows, audits, commits, seen>>
queryVars == <<entries, query, phase, reads, total, given, steady, answer>>
repositoryVars == <<records, keyed, working, told, calls, raced>>
connectionVars == <<engines, created, disposed, up, reachable, failures, checking, checks, pinged>>
observerVars == <<observers, registered, hooks, writes, done, log>>
bulkVars == <<merged, batch, statements>>
recordVars == <<queryVars, repositoryVars, connectionVars, observerVars, bulkVars>>

\* Processes of one task and one connection each, the task named like its
\* process; two processes, one of which has two tasks and more connections than
\* its pool keeps; one process with two tasks and a connection for each.
Apart == INSTANCE DatabaseLock WITH
    Tasks <- Servers, Processes <- Servers, Home <- [s \in Servers |-> s],
    Connections <- {c1}, PoolSize <- 1, MaxHolds <- 2, pc <- lockPc
Pooled == INSTANCE DatabaseLock WITH
    Tasks <- {t1, t2, t3}, Processes <- {p1, p2},
    Home <- (t1 :> p1) @@ (t2 :> p1) @@ (t3 :> p2),
    Connections <- {c1, c2}, PoolSize <- 1, MaxHolds <- 2, pc <- lockPc
Together == INSTANCE DatabaseLock WITH
    Tasks <- {t1, t2}, Processes <- {p1}, Home <- (t1 :> p1) @@ (t2 :> p1),
    Connections <- {c1, c2}, PoolSize <- 2, MaxHolds <- 2, pc <- lockPc

\* Keys with one tag, with another and with both; one name.
One == [tags |-> <<1>>, name |-> "list"]
Two == [tags |-> <<2>>, name |-> "list"]
Both == [tags |-> <<1, 2>>, name |-> "list"]
MCCacheKeys == {One, Two, Both}
MCTagGroups == {<<1>>, <<2>>, <<1, 2>>}

\* Callbacks that run within remember(), and two tasks whose callbacks do not.
Plain == INSTANCE QueryCache WITH
    Tasks <- {t1}, Keys <- CacheKeys, Ttl <- CacheTtl,
    Coroutine <- FALSE, MaxTime <- MaxCacheTime, pc <- cachePc
Awaiting == INSTANCE QueryCache WITH
    Tasks <- {t1, t2}, Keys <- {One, Both}, Ttl <- CacheTtl,
    Coroutine <- TRUE, MaxTime <- MaxCacheTime, pc <- cachePc

\* Pages of two of at most five rows.
Pages == INSTANCE CursorPaginator WITH MaxId <- 5, PerPage <- 2, seen <- shown

\* Two requests of different tenants.
MCTenantOf == (t1 :> acme) @@ (t2 :> umbrella)

Unit == INSTANCE UnitOfWork WITH Tasks <- Requests

\* Rows of which one has no value in the column that is asked for.
Entry(id, active) == [id |-> id, active |-> active]
Condition(column, op, value) == [column |-> column, op |-> op, value |-> value]

Query == INSTANCE QueryBuilder WITH
    table <- entries, Junk <- Unmatched,
    Tables <- {{Entry(1, 1), Entry(2, None)}}, Rows <- {Entry(3, 0)},
    Conditions <- {Condition("active", "=", 1), Condition("active", "=", None)},
    Alternatives <- {Condition("id", "in", {1})}, Size <- 1, MaxCalls <- 2, MaxReads <- 2

Stored == INSTANCE Repository WITH
    rows <- records, made <- keyed, doing <- working,
    Tasks <- {"t1", "t2"}, Keys <- {"k1"}, NoRow <- None, MaxRows <- 3, MaxCalls <- 4

\* A master and a replica.
MCConnectionNames == <<"main", "copy">>

Connected == INSTANCE DatabaseConnections WITH
    made <- created, connected <- up, doing <- checking, calls <- checks, seen <- pinged,
    Tasks <- Workers, Names <- ConnectionNames, NoEngine <- None, MaxCalls <- MaxOperations

Observed == INSTANCE ModelObserver WITH
    made <- done, Observers <- {"o1", "o2"}, Vetoes <- {<<"o2", "deleting">>}, MaxWrites <- 2

\* Upserts of two rows, of one row twice for one column, and of one row.
Role(name, role) == [name |-> name, role |-> role]
Place(name, role, city) == [name |-> name, role |-> role, city |-> city]

Bulk == INSTANCE BulkOperations WITH
    table <- merged, calls <- statements,
    Names <- {"a", "b", "c"}, Values <- {1, 2}, AllColumns <- None, Default <- None, NoKey <- None,
    Upserts <- {[data |-> <<Role("a", 1), Role("b", 2)>>, columns |-> None],
                [data |-> <<Place("b", 1, 1), Place("c", 2, 2), Place("b", 2, 1)>>, columns |-> {"city"}],
                [data |-> <<Place("a", 2, 1)>>, columns |-> None]},
    Batch <- <<[name |-> "a", city |-> 2], [name |-> "c", role |-> 1]>>, MaxCalls <- 3

ASSUME ComponentsAssumption ==
    Components \subseteq {"apart", "pooled", "together", "plain", "awaiting", "pages", "unit",
                          "query", "repository", "connections", "observers", "bulk"}
ASSUME LockAssumptions ==
    /\ Apart!HomeAssumption /\ Pooled!HomeAssumption /\ Together!HomeAssumption
    /\ Apart!PoolAssumption /\ Pooled!PoolAssumption /\ Together!PoolAssumption
ASSUME CacheAssumptions ==
    /\ Plain!KeysAssumption /\ Plain!TagsAssumption /\ Plain!BoundAssumption
    /\ Awaiting!KeysAssumption /\ Awaiting!TagsAssumption /\ Awaiting!BoundAssumption
ASSUME PagesAssumption == Pages!PaginatorAssumption
ASSUME UnitAssumptions == Unit!NullAssumption /\ Unit!TenantAssumption /\ Unit!BoundAssumption
ASSUME ConnectionsAssumptions ==
    Connected!NamesAssumption /\ Connected!RetriesAssumption /\ Connected!BoundAssumption
ASSUME RecordsAssumptions == Stored!BoundAssumption /\ Observed!VetoesAssumption

RecordsInit ==
    /\ IF component = "query" THEN Query!Init
       ELSE /\ entries = 0 /\ query = 0 /\ phase = 0 /\ reads = 0
            /\ total = 0 /\ given = 0 /\ steady = 0 /\ answer = 0
    /\ IF component = "repository" THEN Stored!Init
       ELSE records = 0 /\ keyed = 0 /\ working = 0 /\ told = 0 /\ calls = 0 /\ raced = 0
    /\ IF component = "connections" THEN Connected!Init
       ELSE /\ engines = 0 /\ created = 0 /\ disposed = 0 /\ up = 0 /\ reachable = 0
            /\ failures = 0 /\ checking = 0 /\ checks = 0 /\ pinged = 0
    /\ IF component = "observers" THEN Observed!Init
       ELSE observers = 0 /\ registered = 0 /\ hooks = 0 /\ writes = 0 /\ done = 0 /\ log = 0
    /\ IF component = "bulk" THEN Bulk!Init ELSE merged = 0 /\ batch = 0 /\ statements = 0

RecordsNext ==
    /\ UNCHANGED component
    /\ \/ /\ component = "query" /\ Query!Next
          /\ UNCHANGED <<repositoryVars, connectionVars, observerVars, bulkVars>>
       \/ /\ component = "repository" /\ Stored!Next
          /\ UNCHANGED <<queryVars, connectionVars, observerVars, bulkVars>>
       \/ /\ component = "connections" /\ Connected!Next
          /\ UNCHANGED <<queryVars, repositoryVars, observerVars, bulkVars>>
       \/ /\ component = "observers" /\ Observed!Next
          /\ UNCHANGED <<queryVars, repositoryVars, connectionVars, bulkVars>>
       \/ /\ component = "bulk" /\ Bulk!Next
          /\ UNCHANGED <<queryVars, repositoryVars, connectionVars, observerVars>>

Init ==
    /\ component \in Components
    /\ CASE component = "pooled" -> Pooled!Init
         [] component = "together" -> Together!Init
         [] OTHER -> Apart!Init
    /\ IF component = "awaiting" THEN Awaiting!Init ELSE Plain!Init
    /\ Pages!Init /\ (component # "pages" => table = {})
    /\ Unit!Init
    /\ RecordsInit

Next ==
    \/ /\ UNCHANGED <<component, cacheVars, pageVars, unitVars, recordVars>>
       /\ \/ component = "apart" /\ Apart!Next
          \/ component = "pooled" /\ Pooled!Next
          \/ component = "together" /\ Together!Next
    \/ /\ UNCHANGED <<component, lockVars, pageVars, unitVars, recordVars>>
       /\ \/ component = "plain" /\ Plain!Next
          \/ component = "awaiting" /\ Awaiting!Next
    \/ /\ UNCHANGED <<component, lockVars, cacheVars, unitVars, recordVars>>
       /\ component = "pages" /\ Pages!Next
    \/ /\ UNCHANGED <<component, lockVars, cacheVars, pageVars, recordVars>>
       /\ component = "unit" /\ Unit!Next
    \/ RecordsNext /\ UNCHANGED <<lockVars, cacheVars, pageVars, unitVars>>

allVars == <<component, lockVars, cacheVars, pageVars, unitVars, recordVars>>

Spec == Init /\ [][Next]_allVars

-----------------------------------------------------------------------------

RecordTypesOK ==
    CASE component = "query" -> Query!TypeOK
      [] component = "repository" -> Stored!TypeOK
      [] component = "connections" -> Connected!TypeOK
      [] component = "observers" -> Observed!TypeOK
      [] component = "bulk" -> Bulk!TypeOK
      [] OTHER -> TRUE

\* Every component's variables have their types.
TypesOK ==
    /\ component = "pooled" => Pooled!TypeOK
    /\ component = "together" => Together!TypeOK
    /\ component = "apart" => Apart!TypeOK
    /\ component = "plain" => Plain!TypeOK
    /\ component = "awaiting" => Awaiting!TypeOK
    /\ component = "pages" => Pages!TypeOK
    /\ component = "unit" => Unit!TypeOK
    /\ RecordTypesOK

\* When every acquire has been released the server has the lock back: of
\* processes with one connection each, and of two tasks that share a pool.
ReleasedIsFree ==
    /\ component = "apart" => Apart!ReleasedIsFree
    /\ component = "together" => Together!ReleasedIsFree

\* With callbacks that do not suspend, what an invalidation was for is never
\* served again (cache.py).
InvalidatedIsGone == component = "plain" => Plain!InvalidatedIsGone

\* A forward walk of the cursor shows no row twice and at its end has shown
\* every row that was there all along (cursor.py); a page and the chunks of an
\* ordered query are just its rows, unless others write meanwhile (query.py).
WalksAreWhole == [][
    /\ component = "pages" => Pages!WalkIsExact'
    /\ component = "query" => Query!Whole]_allVars

\* Every durable row has its audit entry and every entry its row (audit.py),
\* only commits make rows durable (session.py), and a row has the tenant of
\* the request that added it (tenant.py).
CommittedRowsAreTrue == Unit!CommittedRowsAreTrue

\* No engine is lost with its connections open (manager.py), and what the
\* helpers answer about servers they have seen (health.py, replica.py).
ConnectionsAreKept ==
    component = "connections" => Connected!NoEngineIsLost /\ Connected!AnswersWereSeen

\* The hooks of a service tell the history of its table (service/base.py), an
\* observer hears of each write once (observer.py), and an upsert does the
\* same in every dialect and when it is repeated (bulk.py).
WritesAreTold == [][
    /\ component = "repository" /\ ~ raced' => Stored!Story' /\ Stored!MakesNoSecond
    /\ component = "observers" => Observed!ObserversHearOnce'
    /\ component = "bulk" => Bulk!UpsertsAgree']_recordVars
\* A query returns rows of the tenant of its request only (tenant.py).
QueriesSeeOwnTenant == Unit!QueriesSeeOwnTenant
===============================================================================
