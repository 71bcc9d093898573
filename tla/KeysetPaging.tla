----------------------------- MODULE KeysetPaging -----------------------------
(***************************************************************************)
(* ListBills, ListLineItems and ListBillEvents (bill/endpoints.go): keyset *)
(* pagination over (created_at, id), page by page, while rows are written. *)
(* A page is one SQL statement.  A row's created_at is taken before its    *)
(* transaction commits: workflow.Now in the workflow task that schedules   *)
(* the activity, or NOW() at the start of the transaction (bill_events).   *)
(***************************************************************************)
EXTENDS Integers, FiniteSets

CONSTANTS
  Rows,          \* ids of the rows of one table that one caller may list
  Clients,       \* clients that page through it
  DefaultLimit,  \* defaultListLimit
  MaxLimit,      \* maxListLimit
  Limits,        \* limits a request may carry
  MaxTime,       \* bound on the clock
  Second         \* clock ticks (microseconds) in a second

ASSUME PagingAssumption ==
  /\ Rows \subseteq Nat \ {0}
  /\ IsFiniteSet(Rows)
  /\ DefaultLimit \in Nat \ {0}
  /\ MaxLimit \in Nat \ {0}
  /\ Limits \subseteq Int
  /\ MaxTime \in Nat
  /\ Second \in Nat \ {0}

VARIABLES
  clock,
  rows,   \* per id: absent, stamped but not committed, or committed
  list    \* per client, its listing

vars == <<clock, rows, list>>

-----------------------------------------------------------------------------
(* State *)

Table == [st : {"absent", "pending", "committed"}, at : 0 .. MaxTime,
          status : {"OPEN", "CLOSED"}]

\* A cursor is the RFC3339Nano text of created_at and an id; the empty
\* cursor, of a first page and of an answer without a next one, has no id.
Cursors == [sec : Nat, frac : 0 .. Second - 1, id : Rows \cup {0}]

NoCursor == [sec |-> 0, frac |-> 0, id |-> 0]

Filters == {"", "OPEN", "CLOSED"}

Listings ==
  [st : {"idle", "more", "done"}, table : {"bills", "items"}, filter : Filters,
   cursor : Cursors, code : {"", "OK", "InvalidArgument"},
   page : SUBSET Rows,    \* the rows of the last page
   listed : SUBSET Rows,  \* the rows of the pages before it
   due : SUBSET Rows]     \* history: rows some page's query saw ahead of it

TypeOK ==
  /\ clock \in 0 .. MaxTime
  /\ rows \in [Rows -> Table]
  /\ list \in [Clients -> Listings]

NewListing(table, filter) ==
  [st |-> "idle", table |-> table, filter |-> filter, cursor |-> NoCursor, code |-> "",
   page |-> {}, listed |-> {}, due |-> {}]

Init ==
  /\ clock = 0
  /\ rows = [i \in Rows |-> [st |-> "absent", at |-> 0, status |-> "OPEN"]]
  /\ list = [c \in Clients |-> NewListing("items", "")]

-----------------------------------------------------------------------------
(* Cursors, order and limits *)

\* Mutant: time.RFC3339, which drops the fraction.
encodeSeconds(at, id) == [sec |-> at \div Second, frac |-> 0, id |-> id]

\* Mutant: the whole time instead of its fraction.
encodeWhole(at, id) == [sec |-> at \div Second, frac |-> at, id |-> id]

encodeCursor(at, id) == [sec |-> at \div Second, frac |-> at % Second, id |-> id]

decodeKeysetCursor(cursor) == [at |-> cursor.sec * Second + cursor.frac, id |-> cursor.id]

\* Comparison of the tuples (created_at, id).
Less(k, l) == k.at < l.at \/ (k.at = l.at /\ k.id < l.id)

Key(i) == [at |-> rows[i].at, id |-> i]

\* k comes after l in the listing: ORDER BY created_at, id for line items and
\* events, created_at DESC, id DESC for bills.
Follows(table, k, l) == IF table = "items" THEN Less(l, k) ELSE Less(k, l)

\* The limit of an accepted request.
EffectiveLimit(limit) ==
  LET n == IF limit > 0 THEN limit ELSE DefaultLimit
  IN IF n > MaxLimit THEN MaxLimit ELSE n

-----------------------------------------------------------------------------
(* The table *)

\* The row's created_at is taken.
Stamp(i) ==
  /\ rows[i].st = "absent"
  /\ rows' = [rows EXCEPT ![i].st = "pending", ![i].at = clock]
  /\ UNCHANGED <<clock, list>>

Commit(i) ==
  /\ rows[i].st = "pending"
  /\ rows' = [rows EXCEPT ![i].st = "committed"]
  /\ UNCHANGED <<clock, list>>

\* CloseBillActivity on a row of bills.
Close(i) ==
  /\ rows[i].st = "committed"
  /\ rows' = [rows EXCEPT ![i].status = "CLOSED"]
  /\ UNCHANGED <<clock, list>>

Tick ==
  /\ clock < MaxTime
  /\ clock' = clock + 1
  /\ UNCHANGED <<rows, list>>

-----------------------------------------------------------------------------
(* The endpoints *)

Begin(c, table, filter) ==
  /\ list[c].st = "idle"
  /\ filter # "" => table = "bills"
  /\ list' = [list EXCEPT ![c] = [NewListing(table, filter) EXCEPT !.st = "more"]]
  /\ UNCHANGED <<clock, rows>>

\* A negative limit, a status other than OPEN and CLOSED or a cursor that does
\* not decode: nothing is read, and the client still has its cursor.
ListRejected(c) ==
  /\ list[c].st = "more"
  /\ list' = [list EXCEPT ![c].code = "InvalidArgument"]
  /\ UNCHANGED <<clock, rows>>

Matches(i, filter) ==
  rows[i].st = "committed" /\ (filter = "" \/ rows[i].status = filter)

\* The rows the WHERE clause of the next page selects.
Ahead(l) ==
  {i \in Rows : /\ Matches(i, l.filter)
                /\ \/ l.cursor.id = 0
                   \/ Follows(l.table, Key(i), decodeKeysetCursor(l.cursor))}

\* How many rows of S come before i in the listing.
Rank(table, S, i) == Cardinality({j \in S : Follows(table, Key(i), Key(j))})

First(table, S, n) == {i \in S : Rank(table, S, i) < n}

\* Mutant: the cursor is the extra row, which the next page then skips.
NextAfterExtra(table, S, n) ==
  LET last == CHOOSE i \in S : Rank(table, S, i) = n IN encodeCursor(rows[last].at, last)

\* The cursor after n rows of S, those being the rows of a page.
NextCursor(table, S, n) ==
  LET last == CHOOSE i \in S : Rank(table, S, i) = n - 1
  IN encodeCursor(rows[last].at, last)

\* One page: limit + 1 rows are fetched, the last of them only to see whether
\* there is another page.
ListPage(c, limit) ==
  LET l == list[c]
      n == EffectiveLimit(limit)
      fetched == First(l.table, Ahead(l), n + 1)
      more == Cardinality(fetched) > n
  IN /\ l.st = "more"
     /\ limit >= 0
     /\ list' = [list EXCEPT ![c] = [l EXCEPT
          !.st = IF more THEN "more" ELSE "done",
          !.code = "OK",
          !.cursor = IF more THEN NextCursor(l.table, fetched, n) ELSE NoCursor,
          !.page = First(l.table, fetched, n),
          !.listed = @ \cup l.page,
          !.due = @ \cup Ahead(l)]]
     /\ UNCHANGED <<clock, rows>>

Next ==
  \/ Tick
  \/ \E i \in Rows : Stamp(i) \/ Commit(i) \/ Close(i)
  \/ \E c \in Clients, t \in {"bills", "items"}, f \in Filters : Begin(c, t, f)
  \/ \E c \in Clients : ListRejected(c)
  \/ \E c \in Clients, n \in Limits : ListPage(c, n)

Spec == Init /\ [][Next]_vars

-----------------------------------------------------------------------------
(* Properties *)

\* Every row of a page comes after every row of the pages before it, in the
\* listing's order: no row is listed twice or out of order, though rows of the
\* same instant straddle a page boundary and others commit in between.
PagesAdvance ==
  \A c \in Clients : \A i \in list[c].listed, j \in list[c].page :
    Follows(list[c].table, Key(j), Key(i))

\* A row that was committed when some page was read, ahead of that page's
\* cursor, is in that page or in a later one before the listing passes it: it
\* is listed once the cursor is behind it or there is no next cursor, unless
\* it was closed out of the status filter meanwhile.  (A row that commits
\* behind the cursor, with a created_at taken earlier, is never listed.)
NothingSkipped ==
  \A c \in Clients : \A i \in list[c].due :
    LET l == list[c] IN
    Matches(i, l.filter) /\ (l.st = "done" \/ i \notin Ahead(l))
      => i \in l.listed \cup l.page
=============================================================================
