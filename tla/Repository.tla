----------------------------- MODULE Repository -----------------------------
(***************************************************************************)
(* BaseRepository (src/core/repository/base.py) under a CrudService with   *)
(* hooks (src/core/service/base.py), as tasks of a program use them: each  *)
(* operation in a transaction of its own that looks a row up, awaits, and  *)
(* then writes.  The row it writes is locked until its after-hook is done  *)
(* and it commits, so write, hook and commit are one step; between lookup  *)
(* and write the other tasks go on.                                        *)
(***************************************************************************)
EXTENDS Naturals, Sequences, FiniteSets, FiniteSetsExt, Functions, TLC

CONSTANTS
    Tasks,
    Keys,           \* values of the column that update_or_create() looks for
    NoRow,
    MaxRows,        \* bound: on the rows ever made
    MaxCalls        \* bound: on the operations begun

BoundAssumption == MaxRows \in Nat /\ MaxCalls \in Nat

VARIABLES
    rows,           \* the table: primary key -> [key, trashed]
    made,           \* rows ever made
    doing,          \* what each task is in the middle of
    told,           \* the after-hooks, in order: <<hook, primary key>>
    calls,
    raced           \* two operations that write were under way at once

vars == <<rows, made, doing, told, calls, raced>>

Idle == [op |-> "idle"]

Ids == 1..MaxRows

Operations == {"update", "delete", "soft_delete", "restore"}

TypeOK ==
    /\ DOMAIN rows \subseteq 1..made /\ made \in 0..MaxRows
    /\ \A id \in DOMAIN rows : rows[id] \in [key : Keys, trashed : BOOLEAN]
    /\ \A t \in Tasks : doing[t].op \in Operations \cup {"idle", "update_or_create"}
    /\ calls \in 0..MaxCalls /\ raced \in BOOLEAN

Init ==
    /\ rows = <<>> /\ made = 0
    /\ doing = [t \in Tasks |-> Idle]
    /\ told = <<>> /\ calls = 0 /\ raced = FALSE

-----------------------------------------------------------------------------

(* What the operations do to the table *)

Having(key) == {id \in DOMAIN rows : rows[id].key = key}

Created(key) ==
    /\ made < MaxRows /\ made' = made + 1
    /\ rows' = rows @@ (made + 1 :> [key |-> key, trashed |-> FALSE])

\* An UPDATE that matches no row fails (StaleDataError).
Changed(id, row) == rows' = [rows EXCEPT ![id] = row] /\ UNCHANGED made

Removed(ids) == rows' = Restrict(rows, DOMAIN rows \ ids) /\ UNCHANGED made

Unwritten == UNCHANGED <<rows, made>>

Tells(hook, id) == told' = Append(told, <<hook, id>>)
Silent == UNCHANGED told

Begins(t) ==
    /\ doing[t] = Idle /\ calls < MaxCalls
    /\ calls' = calls + 1
    /\ raced' = (raced \/ \E u \in Tasks : doing[u] # Idle)

Ends(t) ==
    /\ doing' = [doing EXCEPT ![t] = Idle]
    /\ UNCHANGED <<calls, raced>>

-----------------------------------------------------------------------------

(* The operations *)

\* create_with_hooks(), and create().
Create(t, key) ==
    /\ Begins(t)
    /\ Created(key) /\ Tells("created", made + 1)
    /\ UNCHANGED doing

\* The lookup of update_by_id(), delete_by_id(), soft_delete() and restore().
\* What is not there is None or False, but after_update() runs all the same.
Find(t, op, id) ==
    /\ Begins(t)
    /\ IF id \in DOMAIN rows
       THEN doing' = [doing EXCEPT ![t] = [op |-> op, id |-> id]] /\ Silent
       ELSE /\ UNCHANGED doing
            /\ IF op = "update" THEN Tells("updated", NoRow) ELSE Silent
    /\ Unwritten

UpdateFound(t) ==
    /\ doing[t].op = "update" /\ Ends(t)
    /\ LET id == doing[t].id
       IN  IF id \in DOMAIN rows THEN Changed(id, rows[id]) /\ Tells("updated", id)
           ELSE Unwritten /\ Silent

TrashFound(t) ==
    /\ doing[t].op \in {"soft_delete", "restore"} /\ Ends(t) /\ Silent
    /\ LET id == doing[t].id
       IN  IF id \in DOMAIN rows
           THEN Changed(id, [rows[id] EXCEPT !.trashed = doing[t].op = "soft_delete"])
           ELSE Unwritten

\* A DELETE that matches no row is only warned about: the result is True.
DeleteFound(t) ==
    /\ doing[t].op = "delete" /\ Ends(t)
    /\ Removed({doing[t].id}) /\ Tells("deleted", doing[t].id)

\* update_or_create(): find_by(), which raises when several rows match, and
\* then the update of what it found or a new row.
MayCreate_Again(found) == TRUE
MayCreate(found) == found = NoRow

FindBy(t, key) ==
    /\ Begins(t)
    /\ doing' = IF Cardinality(Having(key)) > 1 THEN doing
                ELSE [doing EXCEPT ![t] = [op |-> "update_or_create", key |-> key,
                          id |-> IF Having(key) = {} THEN NoRow ELSE Max(Having(key))]]
    /\ Unwritten /\ Silent

UpdateOrCreate(t) ==
    /\ doing[t].op = "update_or_create" /\ Ends(t)
    /\ LET id == doing[t].id
       IN  IF MayCreate(id) THEN Created(doing[t].key) /\ Tells("created", made + 1)
           ELSE IF id \in DOMAIN rows THEN Changed(id, rows[id]) /\ Tells("updated", id)
           ELSE Unwritten /\ Silent

\* delete_where(): one statement, of which no hook hears.
DeleteWhere(t, key) ==
    /\ Begins(t)
    /\ Removed(Having(key)) /\ Silent
    /\ UNCHANGED doing

Next ==
    \E t \in Tasks :
        \/ \E k \in Keys : Create(t, k) \/ FindBy(t, k) \/ DeleteWhere(t, k)
        \/ \E id \in Ids, op \in Operations : Find(t, op, id)
        \/ UpdateFound(t) \/ TrashFound(t) \/ DeleteFound(t) \/ UpdateOrCreate(t)

Spec == Init /\ [][Next]_vars

-----------------------------------------------------------------------------

Told(hook, id) == {i \in DOMAIN told : told[i] = <<hook, id>>}

Story ==
    \A id \in 1..made :
        /\ Cardinality(Told("created", id)) = 1
        /\ Cardinality(Told("deleted", id)) <= 1
        /\ \A i \in Told("created", id), j \in Told("updated", id) : i < j
        /\ \A i \in Told("updated", id), j \in Told("deleted", id) : i < j
        /\ Told("deleted", id) # {} => id \notin DOMAIN rows

MakesNoSecond ==
    \A t \in Tasks, k \in Keys :
        doing[t].op = "update_or_create" /\ doing'[t] # doing[t] /\ doing[t].key = k =>
            Cardinality(Having(k)') <= Max({1, Cardinality(Having(k))})

\* Unless operations overlap, the after-hooks tell the history of the table -
\* a row is created once, nothing is told of it before or after its life, and
\* one that is deleted by its primary key is told of - and update_or_create()
\* makes no second row of a key (service/base.py, repository/base.py).
HooksTellTheHistory == [][~raced' => Story' /\ MakesNoSecond]_vars
===============================================================================
