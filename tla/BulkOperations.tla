---------------------------- MODULE BulkOperations ----------------------------
(***************************************************************************)
(* BulkOperations (src/core/database/bulk.py): statements over many rows.  *)
(* An upsert is INSERT .. ON CONFLICT DO UPDATE where the dialect has it,  *)
(* and a lookup and a statement for each row where it has not.  The model  *)
(* has one unique column, by which rows are named, and two others.         *)
(***************************************************************************)
EXTENDS Naturals, Sequences, SequencesExt, FiniteSets, Functions, TLC

CONSTANTS
    Names, Values,
    Upserts,        \* [data, columns]: what upsert() is called with
    Batch,          \* the list of dicts update_batch() is called with
    AllColumns,     \* update_columns = None
    Default,        \* of a column that an insert does not give
    NoKey,          \* a dict without the key: update_batch() skips it
    MaxCalls        \* bound: on the statements

VARIABLES
    table,          \* name -> the other columns
    batch,          \* the caller's list, which update_batch() changes
    calls

vars == <<table, batch, calls>>

Columns == {"role", "city"}
Cells == Values \cup {Default}

TypeOK ==
    /\ DOMAIN table \subseteq Names
    /\ \A n \in DOMAIN table : table[n] \in [Columns -> Cells]
    /\ \A i \in DOMAIN batch : batch[i].name \in Names \cup {NoKey}
    /\ calls \in 0..MaxCalls

Init == table = <<>> /\ batch = Batch /\ calls = 0

-----------------------------------------------------------------------------

Given(row) == DOMAIN row \ {"name"}

Inserted(rows, row) == rows @@ (row.name :> [c \in Columns |-> IF c \in Given(row) THEN row[c] ELSE Default])

Overwritten(rows, row, cs) ==
    [rows EXCEPT ![row.name] = [c \in Columns |-> IF c \in cs THEN row[c] ELSE @[c]]]

Put(rows, row, cs) == IF row.name \in DOMAIN rows THEN Overwritten(rows, row, cs) ELSE Inserted(rows, row)

\* _upsert_pg() and _upsert_sqlite(): the columns are those of the first row.
\* PostgreSQL refuses a statement with a name twice; SQLite writes row by row.
Native(rows, u) ==
    LET cs == IF u.columns = AllColumns THEN Given(u.data[1]) ELSE u.columns
    IN  FoldLeft(LAMBDA t, row : Put(t, row, cs), rows, u.data)

\* _upsert_fallback(): those of each row, the conflict columns left out.
Updated_All(row, cs) == Given(row)
Updated(row, cs) == IF cs = AllColumns THEN Given(row) ELSE cs \ {"name"}

Fallback(rows, u) ==
    FoldLeft(LAMBDA t, row : Put(t, row, Updated(row, u.columns)), rows, u.data)

-----------------------------------------------------------------------------

Calls == calls < MaxCalls /\ calls' = calls + 1

Upsert(u) ==
    /\ Calls /\ UNCHANGED batch
    /\ table' = Native(table, u) \/ table' = Fallback(table, u)

\* insert(), insert_chunked() and insert_returning(): a row that is there
\* already fails the statement.
Insert(u) ==
    /\ Calls /\ UNCHANGED batch
    /\ \A i, j \in DOMAIN u.data : i # j => u.data[i].name # u.data[j].name
    /\ \A i \in DOMAIN u.data : u.data[i].name \notin DOMAIN table
    /\ table' = FoldLeft(Inserted, table, u.data)

\* update_batch() takes the key out of each dict of its caller's list.
UpdateBatch ==
    /\ Calls
    /\ table' = FoldLeft(LAMBDA t, row : IF row.name \in DOMAIN t THEN Overwritten(t, row, Given(row)) ELSE t,
                         table, batch)
    /\ batch' = [i \in DOMAIN batch |-> [batch[i] EXCEPT !.name = NoKey]]

DeleteBatch(names) ==
    /\ Calls /\ UNCHANGED batch
    /\ table' = Restrict(table, DOMAIN table \ names)

Next ==
    \/ \E u \in Upserts : Upsert(u) \/ Insert(u)
    \/ UpdateBatch
    \/ \E names \in SUBSET Names : names # {} /\ DeleteBatch(names)

Spec == Init /\ [][Next]_vars

-----------------------------------------------------------------------------

\* An upsert does the same to every table in every dialect, and doing it
\* again changes nothing (bulk.py).
UpsertsAgree ==
    \A u \in Upserts :
        /\ Native(table, u) = Fallback(table, u)
        /\ Native(Native(table, u), u) = Native(table, u)
===============================================================================
