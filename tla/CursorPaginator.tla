--------------------------- MODULE CursorPaginator ---------------------------
(***************************************************************************)
(* Cursor pagination (src/core/database/cursor.py) as its usage shows it:  *)
(* a client takes the first page of a query ordered by the cursor column   *)
(* and follows next_cursor and prev_cursor, while other clients insert     *)
(* and delete rows between its requests.                                   *)
(*                                                                         *)
(* A row is its value of the cursor column, which is unique, and a cursor  *)
(* is the value that it encodes.                                           *)
(*                                                                         *)
(* X_Y is the definition X with a slip in it; the README says which        *)
(* property each slip breaks.                                              *)
(***************************************************************************)
EXTENDS Naturals, Sequences, FiniteSets, SequencesExt

CONSTANTS
  MaxId,      \* bound: rows are 1 .. MaxId
  PerPage,    \* per_page
  NoCursor    \* None

PaginatorAssumption ==
  /\ MaxId \in Nat /\ PerPage \in Nat \ {0} /\ NoCursor \notin 1 .. MaxId

Rows == 1 .. MaxId

VARIABLES
  table,    \* the rows of the database
  page,     \* the CursorPage the client has
  walk,     \* "none", "forward": only next_cursor followed since the first page, "other"
  seen,     \* history: the items of the pages of a forward walk
  stayed    \* history: the rows in the table ever since its first page

vars == <<table, page, walk, seen, stayed>>

NoPage == [items |-> <<>>, next |-> NoCursor, prev |-> NoCursor, has_next |-> FALSE, has_prev |-> FALSE]

Init ==
  /\ table \in SUBSET Rows
  /\ page = NoPage /\ walk = "none" /\ seen = <<>> /\ stayed = {}

(***************************************************************************)
(* paginate                                                                *)
(***************************************************************************)
Passes(r, after, before) ==
  (after # NoCursor => r > after) /\ (before # NoCursor => r < before)

Ascending(S) == SetToSortSeq(S, <)
FirstOf(s, n) == SubSeq(s, 1, IF Len(s) < n THEN Len(s) ELSE n)

\* The query orders by the column already: desc(col) comes second to that and
\* changes nothing.  One row more than a page is fetched.
Fetched(after, before) ==
  FirstOf(Ascending({r \in table : Passes(r, after, before)}), PerPage + 1)

HasMore_Full(rows) == Len(rows) > PerPage + 1
HasMore(rows) == Len(rows) > PerPage

\* backwards, the rows are turned round before the page is cut off
Items(rows, before) ==
  FirstOf(IF before # NoCursor THEN Reverse(rows) ELSE rows, PerPage)

CursorAt(items, i, given) == IF items # <<>> /\ given THEN items[i] ELSE NoCursor

PageOf(after, before) ==
  LET rows == Fetched(after, before)
      items == Items(rows, before)
      more == HasMore(rows) IN
  [items |-> items,
   next |-> CursorAt(items, Len(items), more),
   prev |-> CursorAt(items, 1, after # NoCursor \/ before # NoCursor),
   has_next |-> IF before = NoCursor THEN more ELSE after # NoCursor,
   has_prev |-> IF before = NoCursor THEN after # NoCursor ELSE more]

(***************************************************************************)
(* The client and the others                                               *)
(***************************************************************************)
FirstPage ==
  /\ page' = PageOf(NoCursor, NoCursor)
  /\ walk' = "forward"
  /\ seen' = page'.items /\ stayed' = table
  /\ UNCHANGED table

NextPage ==
  /\ page.next # NoCursor
  /\ page' = PageOf(page.next, NoCursor)
  /\ seen' = IF walk = "forward" THEN seen \o page'.items ELSE seen
  /\ UNCHANGED <<table, walk, stayed>>

PreviousPage ==
  /\ page.prev # NoCursor
  /\ page' = PageOf(NoCursor, page.prev)
  /\ walk' = "other" /\ seen' = <<>> /\ stayed' = {}
  /\ UNCHANGED table

Insert(r) ==
  /\ r \notin table
  /\ table' = table \cup {r}
  /\ UNCHANGED <<page, walk, seen, stayed>>

Delete(r) ==
  /\ r \in table
  /\ table' = table \ {r}
  /\ stayed' = stayed \ {r}
  /\ UNCHANGED <<page, walk, seen>>

Next ==
  \/ FirstPage \/ NextPage \/ PreviousPage
  \/ \E r \in Rows : Insert(r) \/ Delete(r)

Spec == Init /\ [][Next]_vars

(***************************************************************************)
(* Properties                                                              *)
(***************************************************************************)
TypeOK ==
  /\ table \subseteq Rows /\ stayed \subseteq table
  /\ page.items \in Seq(Rows) /\ Len(page.items) \leq PerPage
  /\ {page.next, page.prev} \subseteq Rows \cup {NoCursor}
  /\ {page.has_next, page.has_prev} \subseteq BOOLEAN
  /\ walk \in {"none", "forward", "other"} /\ seen \in Seq(Rows)

\* a walk from the first page along next_cursor shows its rows in order and
\* none of them twice, and when it ends it has shown every row that was there
\* all the time, whatever is inserted and deleted meanwhile (col >
\* cursor_value, the extra row fetched, has_more)
WalkIsExact ==
  /\ \A i, j \in DOMAIN seen : i < j => seen[i] < seen[j]
  /\ walk = "forward" /\ page.next = NoCursor => stayed \subseteq ToSet(seen)
==============================================================================
