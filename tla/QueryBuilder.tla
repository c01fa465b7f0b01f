---------------------------- MODULE QueryBuilder ----------------------------
(***************************************************************************)
(* The fluent queries of src/core/database/query.py, and of the model      *)
(* scopes (scopes.py), which chain and answer alike.  A builder collects   *)
(* conditions and keeps them, so what an earlier read left in it - the     *)
(* limit of first(), the offset of paginate(), the column of value() - is  *)
(* part of the next one.  Every statement opens a session of its own:      *)
(* other sessions write between the count and the page, and between the    *)
(* chunks.  SQL returns unordered rows in any order.                       *)
(***************************************************************************)
EXTENDS Naturals, Sequences, SequencesExt, FiniteSets, FiniteSetsExt

CONSTANTS
    Tables,         \* the tables a behaviour may start with: sets of rows
    Rows,           \* rows that are inserted: records whose id is the primary key
    Conditions,     \* arguments of where(): [column, op, value]
    Alternatives,   \* arguments of or_where()
    None,           \* NULL, and an argument that is not given
    Junk,           \* an operator's name taken for a value: no row holds it
    Size,           \* of a page and of a chunk
    MaxCalls,       \* bound: on the calls that are chained, before the first statement
    MaxReads        \* bound: on the statements of a builder

VARIABLES
    table,          \* the rows in the database
    query,          \* the builder: wheres, ors, order, limit, offset, column
    phase,          \* "chain", "counted" (within paginate()) or "chunks"
    reads,          \* statements so far
    total,          \* what count() told paginate()
    given,          \* the chunks yielded so far, one after the other
    steady,         \* no other session has written since the operation began
    answer          \* of the last operation that ended

vars == <<table, query, phase, reads, total, given, steady, answer>>

Fresh == [wheres |-> {}, ors |-> {}, order |-> "none", limit |-> None, offset |-> 0,
          column |-> "*", calls |-> 0]

NoAnswer == [is |-> "none"]

TypeOK ==
    /\ \A r, s \in table : r.id = s.id => r = s
    /\ query.wheres \subseteq [column : {"id", "active"}, op : STRING \cup {None},
                               value : Nat \cup {None, Junk} \cup SUBSET Nat]
    /\ phase \in {"chain", "counted", "chunks"}
    /\ total \in Nat /\ reads \in 0..MaxReads + 1 /\ steady \in BOOLEAN

Init ==
    /\ table \in Tables
    /\ query = Fresh /\ phase = "chain" /\ reads = 0
    /\ total = 0 /\ given = <<>> /\ steady = TRUE /\ answer = NoAnswer

-----------------------------------------------------------------------------

(* Conditions *)

\* where(column, x) is where(column, "=", x): a value of None is no value, so
\* where(column, "=", None) asks for the value "=".
Normal(c) == IF c.value = None /\ c.op # None
             THEN [c EXCEPT !.op = "=", !.value = Junk] ELSE c

\* Comparisons with NULL are never true, but == None and != None are IS NULL
\* and IS NOT NULL.
Compares(x, op, y) ==
    CASE op = "="  -> x = y
      [] op = "!=" -> x # y
      [] op = "<"  -> x < y
      [] op = ">=" -> x >= y
      [] op = "in" -> x \in y

Holds(row, c) ==
    IF c.value = None THEN row[c.column] = None
    ELSE row[c.column] # None /\ Compares(row[c.column], c.op, c.value)

\* _apply_wheres(): all of the conditions, and one of the alternatives.
Selected(q) ==
    {r \in table : /\ \A c \in q.wheres : Holds(r, c)
                   /\ q.ors # {} => \E c \in q.ors : Holds(r, c)}

\* update() and delete() apply the conditions alone.
Written(q) == {r \in table : \A c \in q.wheres : Holds(r, c)}

Sorted(S, order) == SetToSortSeq(S, LAMBDA r, s : IF order = "asc" THEN r.id < s.id ELSE r.id > s.id)

\* The lists of rows a SELECT may answer.
Results(q) ==
    LET all == IF q.order = "none" THEN SetToSeqs(Selected(q)) ELSE {Sorted(Selected(q), q.order)}
        last(s) == IF q.limit = None THEN Len(s) ELSE Min({q.offset + q.limit, Len(s)})
    IN  {SubSeq(s, q.offset + 1, last(s)) : s \in all}

\* What get() makes of them: instances, or the values of the one column that
\* value() or pluck() left selected.
Shown(q, rows) == [i \in DOMAIN rows |-> IF q.column = "*" THEN rows[i] ELSE rows[i][q.column]]

-----------------------------------------------------------------------------

(* Chaining *)

Chains(q) ==
    /\ phase = "chain" /\ query.calls < MaxCalls /\ reads = 0
    /\ query' = [q EXCEPT !.calls = @ + 1]
    /\ UNCHANGED <<table, phase, reads, total, given, steady, answer>>

Where(c) == Chains([query EXCEPT !.wheres = @ \cup {Normal(c)}])

\* Without a value the second argument is the value.
OrWhere(c) == Chains([query EXCEPT !.ors = @ \cup {Normal(c)}])

OrderBy(direction) == query.order = "none" /\ Chains([query EXCEPT !.order = direction])

Limit(n) == Chains([query EXCEPT !.limit = n])

Offset(n) == Chains([query EXCEPT !.offset = n])

-----------------------------------------------------------------------------

(* Reading *)

Statement == reads < MaxReads /\ reads' = reads + 1

Reads(q, a) ==
    /\ phase = "chain" /\ Statement
    /\ query' = q /\ answer' = a
    /\ UNCHANGED <<table, phase, total, given, steady>>

Get == \E rows \in Results(query) : Reads(query, [is |-> "rows", items |-> Shown(query, rows)])

\* first() and find() leave their limit, and find() its condition, behind.
First ==
    LET q == [query EXCEPT !.limit = 1]
    IN  \E rows \in Results(q) : Reads(q, [is |-> "rows", items |-> Shown(q, rows)])

Find(pk) ==
    LET q == [query EXCEPT !.limit = 1, !.wheres = @ \cup {[column |-> "id", op |-> "=", value |-> pk]}]
    IN  \E rows \in Results(q) :
            Reads(q, [is |-> "rows", items |-> Shown(q, rows)])

Value(column) ==
    LET q == [query EXCEPT !.limit = 1, !.column = column]
    IN  \E rows \in Results(q) : Reads(q, [is |-> "rows", items |-> Shown(q, rows)])

Pluck(column) ==
    LET q == [query EXCEPT !.column = column]
    IN  \E rows \in Results(q) : Reads(q, [is |-> "rows", items |-> Shown(q, rows)])

\* count() does not ask for the limit; exists() and the aggregates alike.
Count == Reads(query, [is |-> "count", total |-> Cardinality(Selected(query))])

\* paginate(): count(), and get() in another session.
PaginateCounts ==
    /\ phase = "chain" /\ Statement
    /\ total' = Cardinality(Selected(query))
    /\ phase' = "counted" /\ steady' = TRUE
    /\ UNCHANGED <<table, query, given, answer>>

TotalPages(n) == (n + Size - 1) \div Size

PaginateGets(page) ==
    LET q == [query EXCEPT !.limit = Size, !.offset = (page - 1) * Size]
    IN  /\ phase = "counted"
        /\ \E rows \in Results(q) :
            answer' = [is |-> "page", page |-> page, items |-> Shown(q, rows),
                        next |-> page < TotalPages(total)]
        /\ query' = q /\ phase' = "chain"
        /\ UNCHANGED <<table, reads, total, given, steady>>

\* chunk(): each get() skips what the earlier ones have yielded.
ChunkStarts ==
    /\ phase = "chain" /\ Statement
    /\ phase' = "chunks" /\ given' = <<>> /\ steady' = TRUE
    /\ query' = [query EXCEPT !.limit = Size, !.offset = 0]
    /\ UNCHANGED <<table, total, answer>>

IsLast_Full(rows) == Len(rows) <= Size
IsLast(rows) == Len(rows) < Size

ChunkGets ==
    /\ phase = "chunks"
    /\ \E rows \in Results(query) :
        /\ given' = given \o Shown(query, rows)
        /\ IF IsLast(rows)
           THEN /\ phase' = "chain" /\ answer' = [is |-> "chunks", items |-> given']
                /\ UNCHANGED query
           ELSE /\ query' = [query EXCEPT !.offset = @ + Size]
                /\ UNCHANGED <<phase, answer>>
    /\ UNCHANGED <<table, reads, total, steady>>

-----------------------------------------------------------------------------

(* Writing *)

Writes(rows, a) ==
    /\ phase = "chain" /\ Statement
    /\ table' = rows /\ answer' = a
    /\ UNCHANGED <<query, phase, total, given, steady>>

Deactivated(S) == {[r EXCEPT !.active = 0] : r \in S}

Update ==
    Writes((table \ Written(query)) \cup Deactivated(Written(query)),
           [is |-> "written", count |-> Cardinality(Written(query))])

Delete ==
    Writes(table \ Written(query), [is |-> "written", count |-> Cardinality(Written(query))])

\* insert() and insert_many(); the primary key is unique.
Insert(row) ==
    /\ \A r \in table : r.id # row.id
    /\ Writes(table \cup {row}, NoAnswer)

\* Another session deletes or inserts a row while this one has none open.
OtherWrites ==
    /\ phase # "chain" /\ steady
    /\ steady' = FALSE
    /\ \/ \E r \in table : table' = table \ {r}
       \/ \E r \in Rows : (\A s \in table : s.id # r.id) /\ table' = table \cup {r}
    /\ UNCHANGED <<query, phase, reads, total, given, answer>>

Next ==
    \/ \E c \in Conditions : Where(c)
    \/ \E c \in Alternatives : OrWhere(c)
    \/ \E d \in {"asc", "desc"} : OrderBy(d)
    \/ \E n \in 1..Size : Limit(n) \/ Offset(n)
    \/ Get \/ First \/ Count
    \/ \E r \in Rows : Find(r.id) \/ Insert(r)
    \/ Value("id") \/ Pluck("id")
    \/ PaginateCounts \/ \E page \in 1..2 : PaginateGets(page)
    \/ ChunkStarts \/ ChunkGets
    \/ Update \/ Delete
    \/ OtherWrites

Spec == Init /\ [][Next]_vars

-----------------------------------------------------------------------------

\* Unless another session wrote meanwhile, a page of an ordered query is the
\* rows of its rank and says rightly whether rows follow (paginate()), and the
\* chunks are all the rows of the query, once each and in order (chunk()).
Whole ==
    phase # "chain" /\ phase' = "chain" /\ steady /\ query.order # "none" =>
        LET all == Sorted(Selected(query), query.order)
            after == (answer'.page - 1) * Size
        IN  IF phase = "chunks" THEN answer'.items = Shown(query, all)
            ELSE /\ answer'.items = Shown(query, SubSeq(all, after + 1, Min({after + Size, Len(all)})))
                 /\ answer'.next <=> Len(all) > after + Size

\* Every step of a walk is such.
WalksAreWhole == [][Whole]_vars
===============================================================================
