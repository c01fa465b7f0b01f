------------------------------ MODULE UnitOfWork ------------------------------
(***************************************************************************)
(* Requests that work on the database, each in an asyncio task: the        *)
(* sessions of src/core/database/manager.py (_SessionContext, which        *)
(* commits when its body ends) and session.py (UnitOfWork, which only      *)
(* keeps what commit() was called for), with the audit trail of audit.py   *)
(* and the tenant of tenant.py that the session's flush adds to the rows.  *)
(*                                                                         *)
(* A request's middleware sets the tenant, a ContextVar and so one value   *)
(* per task, and the audit context, an attribute of a module-level object  *)
(* and so one value for all tasks.  A row is only written, and the two     *)
(* contexts are only read, when the session flushes.                       *)
(*                                                                         *)
(* External: the session keeps added rows until it flushes and sees the    *)
(* committed rows and its own; commit() flushes and makes the transaction  *)
(* durable in one step; rollback() and close() give it up.                 *)
(*                                                                         *)
(* Left out: updates and deletions (audited the same way), the choice      *)
(* among several connections, pool settings.                               *)
(*                                                                         *)
(* A definition whose name ends in _ and a slip is a mutant of the         *)
(* definition it is named after; nothing uses it.                          *)
(***************************************************************************)
EXTENDS Naturals, FiniteSets

CONSTANTS
    Tasks,          \* the requests, each in a task of its own
    Tenants,        \* the tenant ids
    NoTenant,       \* no tenant is set
    NoUser,         \* no audit user is set
    TenantOf,       \* the tenant of a request
    MaxRows         \* bound: the rows a request adds

\* The user of a request is the task itself: no two requests share one.
NullAssumption == NoTenant \notin Tenants /\ NoUser \notin Tasks
TenantAssumption == TenantOf \in [Tasks -> Tenants]
BoundAssumption == MaxRows \in Nat

VARIABLES
    connected,      \* whether the manager has a session factory
    pc,             \* per task: where its request is
    kind,           \* per task: "context" for _SessionContext, "unit" for UnitOfWork
    tenant,         \* per task: _current_tenant
    auditUser,      \* _context.user_id
    added,          \* per task: the rows added and not flushed
    flushed,        \* per task: the rows and audit entries of its transaction
    rows,           \* the committed rows
    audits,         \* the committed audit entries
    commits,        \* history: per task the commits so far
    seen            \* history: per task the rows its queries returned

vars == <<connected, pc, kind, tenant, auditUser, added, flushed, rows, audits, commits, seen>>
requestVars == <<pc, kind, tenant, auditUser>>
sessionVars == <<added, flushed>>
durableVars == <<rows, audits>>

\* A row: who added it, as its how-many-eth, before which of his commits, and
\* the tenant_id it was written with.
Id == [by : Tasks, nr : 1 .. MaxRows, unit : Nat]
Row == [id : Id, tenant : Tenants]
Audit == [id : Id, user : Tasks \cup {NoUser}]
Nothing == [rows |-> {}, audits |-> {}]

Init ==
    /\ connected = FALSE
    /\ pc = [t \in Tasks |-> "idle"]
    /\ kind = [t \in Tasks |-> "context"]
    /\ tenant = [t \in Tasks |-> NoTenant]
    /\ auditUser = NoUser
    /\ added = [t \in Tasks |-> {}]
    /\ flushed = [t \in Tasks |-> Nothing]
    /\ rows = {}
    /\ audits = {}
    /\ commits = [t \in Tasks |-> 0]
    /\ seen = [t \in Tasks |-> {}]

Goes(t, from, to) == pc[t] = from /\ pc' = [pc EXCEPT ![t] = to]

-----------------------------------------------------------------------------
\* The manager and the middleware.

Connect ==
    /\ connected' = TRUE
    /\ UNCHANGED <<requestVars, sessionVars, durableVars, commits, seen>>

\* disconnect(): open sessions keep the connection they have checked out.
Disconnect ==
    /\ connected' = FALSE
    /\ UNCHANGED <<requestVars, sessionVars, durableVars, commits, seen>>

\* set_tenant() and set_audit_context() for the request.
TenantSet_Shared(t) == [u \in Tasks |-> TenantOf[t]]
TenantSet(t) == [tenant EXCEPT ![t] = TenantOf[t]]

Arrive(t) ==
    /\ Goes(t, "idle", "arrived")
    /\ tenant' = TenantSet(t)
    /\ auditUser' = t
    /\ UNCHANGED <<connected, kind, sessionVars, durableVars, commits, seen>>

\* The response is out: clear_tenant() and clear_audit_context().
Leave(t) ==
    /\ Goes(t, "closed", "left")
    /\ tenant' = [tenant EXCEPT ![t] = NoTenant]
    /\ auditUser' = NoUser
    /\ UNCHANGED <<connected, kind, sessionVars, durableVars, commits, seen>>

-----------------------------------------------------------------------------
\* The session.

\* __aenter__ of either context manager: without a factory it raises.
Open(t) ==
    /\ Goes(t, "arrived", IF connected THEN "open" ELSE "closed")
    /\ \E k \in {"context", "unit"} : kind' = [kind EXCEPT ![t] = k]
    /\ UNCHANGED <<connected, tenant, auditUser, sessionVars, durableVars, commits, seen>>

Ids(t) == added[t] \cup {r.id : r \in flushed[t].rows} \cup {r.id : r \in rows}

Add(t) ==
    /\ pc[t] = "open"
    /\ LET n == Cardinality({i \in Ids(t) : i.by = t}) IN
       /\ n < MaxRows
       /\ added' = [added EXCEPT ![t] = @ \cup {[by |-> t, nr |-> n + 1, unit |-> commits[t]]}]
    /\ UNCHANGED <<connected, requestVars, flushed, durableVars, commits, seen>>

\* The entry the after_insert hook writes for a row, in the same transaction.
AuditOf(i) == [id |-> i, user |-> auditUser]

\* The transaction once the added rows are written: the before_insert hook
\* has set their tenant_id, the after_insert hook has logged them.
Written(t) ==
    [rows |-> flushed[t].rows \cup {[id |-> i, tenant |-> tenant[t]] : i \in added[t]},
     audits |-> flushed[t].audits \cup {AuditOf(i) : i \in added[t]}]

\* flush(), or the flush before a query.
Flush(t) ==
    /\ pc[t] = "open"
    /\ flushed' = [flushed EXCEPT ![t] = Written(t)]
    /\ added' = [added EXCEPT ![t] = {}]
    /\ UNCHANGED <<connected, requestVars, durableVars, commits, seen>>

Query(t) ==
    /\ pc[t] = "open" /\ added[t] = {}
    /\ seen' = [seen EXCEPT ![t] = rows \cup flushed[t].rows]
    /\ UNCHANGED <<connected, requestVars, sessionVars, durableVars, commits>>

Commits(t) ==
    /\ rows' = rows \cup Written(t).rows
    /\ audits' = audits \cup Written(t).audits
    /\ commits' = [commits EXCEPT ![t] = @ + 1]

\* The session is given up, or starts a new transaction.
Ended(t) ==
    /\ added' = [added EXCEPT ![t] = {}]
    /\ flushed' = [flushed EXCEPT ![t] = Nothing]

\* commit() in the body.
Commit(t) ==
    /\ pc[t] = "open" /\ added[t] \cup flushed[t].rows # {}
    /\ Commits(t)
    /\ Ended(t)
    /\ UNCHANGED <<connected, requestVars, seen>>

\* Whether the end of the body commits: __aexit__ of the two classes.
ExitCommits(t) == kind[t] = "context"

\* The body ends.  _SessionContext commits; UnitOfWork rolls back unless
\* commit() was called, and in any case closes, which gives up the rest.
Exit(t) ==
    /\ Goes(t, "open", "closed")
    /\ IF ExitCommits(t) THEN Commits(t)
       ELSE UNCHANGED <<durableVars, commits>>
    /\ Ended(t)
    /\ UNCHANGED <<connected, kind, tenant, auditUser, seen>>

\* The body raises, or the commit on exit does: rollback and close.
RolledBack_AuditsStay(t) == audits' = audits \cup flushed[t].audits /\ UNCHANGED rows
RolledBack_RowsStay(t) ==
    rows' = rows \cup flushed[t].rows /\ audits' = audits \cup flushed[t].audits
RolledBack(t) == UNCHANGED durableVars

ExitRaises(t) ==
    /\ Goes(t, "open", "closed")
    /\ RolledBack(t)
    /\ Ended(t)
    /\ UNCHANGED <<connected, kind, tenant, auditUser, commits, seen>>

Next ==
    \/ Connect \/ Disconnect
    \/ \E t \in Tasks :
           \/ Arrive(t) \/ Open(t) \/ Add(t) \/ Flush(t) \/ Query(t) \/ Commit(t)
           \/ Exit(t) \/ ExitRaises(t) \/ Leave(t)

Spec == Init /\ [][Next]_vars

-----------------------------------------------------------------------------

\* Every variable has its type; a session is empty unless it is open, and no
\* row is ever written without a tenant_id.
TypeOK ==
    /\ connected \in BOOLEAN
    /\ pc \in [Tasks -> {"idle", "arrived", "open", "closed", "left"}]
    /\ kind \in [Tasks -> {"context", "unit"}]
    /\ tenant \in [Tasks -> Tenants \cup {NoTenant}]
    /\ auditUser \in Tasks \cup {NoUser}
    /\ added \in [Tasks -> SUBSET Id]
    /\ flushed \in [Tasks -> [rows : SUBSET Row, audits : SUBSET Audit]]
    /\ rows \subseteq Row
    /\ audits \subseteq Audit
    /\ commits \in [Tasks -> Nat]
    /\ seen \in [Tasks -> SUBSET Row]
    /\ \A t \in Tasks : pc[t] # "open" => added[t] = {} /\ flushed[t] = Nothing

\* The audit trail tells of exactly the changes that were committed: one
\* entry per row, none for what was rolled back.
AuditTrailIsExact ==
    /\ {a.id : a \in audits} = {r.id : r \in rows}
    /\ \A a, b \in audits : a.id = b.id => a = b

\* A row is durable only if a commit followed it: commit() for a UnitOfWork,
\* commit() or the normal end of the body for a session context.
OnlyCommittedSurvives ==
    \A r \in rows : r.id.unit < commits[r.id.by]

\* A row carries the tenant of the request that added it, whichever other
\* requests ran between its addition and its flush.
RowsCarryTenant == \A r \in rows : r.tenant = TenantOf[r.id.by]

\* A query of a request returns rows of the request's tenant only.
QueriesSeeOwnTenant ==
    \A t \in Tasks : \A r \in seen[t] : r.tenant = TenantOf[t]

\* What is durable is what was committed, audited, and of its request's tenant.
CommittedRowsAreTrue == AuditTrailIsExact /\ OnlyCommittedSurvives /\ RowsCarryTenant
===============================================================================
