------------------------- MODULE KeysetPagingProofs -------------------------
(***************************************************************************)
(* Proofs that keyset pagination lists no row twice, keeps its order and   *)
(* skips nothing, for every number of rows, clients, limits and instants.  *)
(***************************************************************************)
EXTENDS KeysetPaging, FiniteSetTheorems, TLAPS

\* i comes before j in the listing.
Before(table, i, j) == Follows(table, Key(j), Key(i))

-----------------------------------------------------------------------------
(* The inductive invariant *)

Committed == {i \in Rows : rows[i].st = "committed"}

\* What a listing shows was committed, and a row that was due under the CLOSED
\* filter stays in it.
Seen(l) ==
  /\ l.page \cup l.listed \cup l.due \subseteq Committed
  /\ l.filter = "CLOSED" => \A i \in l.due : rows[i].status = "CLOSED"

\* The cursor decodes to the key of a committed row, which no row listed so far
\* comes after; without one, nothing was listed.
AtCursor(l) ==
  /\ l.cursor.id # 0 => /\ l.cursor.id \in Committed
                        /\ decodeKeysetCursor(l.cursor) = Key(l.cursor.id)
  /\ l.st = "more" => \A i \in l.page \cup l.listed :
                        /\ l.cursor.id # 0
                        /\ i = l.cursor.id \/ Before(l.table, i, l.cursor.id)

Advances(l) == \A i \in l.listed, j \in l.page : Before(l.table, i, j)

Skips(l, i) ==
  Matches(i, l.filter) /\ (l.st = "done" \/ i \notin Ahead(l)) /\ i \notin l.listed \cup l.page

ListingInv(l) ==
  /\ Seen(l)
  /\ AtCursor(l)
  /\ Advances(l)
  /\ \A i \in l.due : ~Skips(l, i)

IInv == TypeOK /\ \A c \in Clients : ListingInv(list[c])

-----------------------------------------------------------------------------
(* The order of the rows *)

RowsTyped == rows \in [Rows -> Table]

\* (created_at, id) orders the rows of a table strictly and totally, either way.
LEMMA Order ==
  ASSUME RowsTyped, NEW table, NEW i \in Rows, NEW j \in Rows
  PROVE  /\ ~Before(table, i, i)
         /\ i = j \/ Before(table, i, j) \/ Before(table, j, i)
         /\ Before(table, i, j) => ~Before(table, j, i)
         /\ \A k \in Rows : Before(table, i, j) /\ Before(table, j, k) => Before(table, i, k)
<1>1. \A k \in Rows : k \in Int /\ rows[k].at \in Int
  <2>1. \A k \in Rows : rows[k].at \in 0 .. MaxTime
    BY DEF RowsTyped, Table
  <2> QED
    BY <2>1, PagingAssumption
<1>2. \A k, m \in Rows :
        Before(table, k, m) <=>
          IF table = "items"
          THEN rows[k].at < rows[m].at \/ (rows[k].at = rows[m].at /\ k < m)
          ELSE rows[m].at < rows[k].at \/ (rows[m].at = rows[k].at /\ m < k)
  BY DEF Before, Follows, Less, Key
<1>3. CASE table = "items"
  BY <1>1, <1>2, <1>3
<1>4. CASE table # "items"
  BY <1>1, <1>2, <1>4
<1> QED
  BY <1>3, <1>4

\* Rank numbers the rows of a set in the listing's order, from 0.
LEMMA RankMeans ==
  ASSUME RowsTyped, NEW table, NEW S \in SUBSET Rows
  PROVE  /\ IsFiniteSet(S) /\ Cardinality(S) \in Nat
         /\ \A i \in S : Rank(table, S, i) \in Nat /\ Rank(table, S, i) < Cardinality(S)
         /\ \A i, j \in S : Before(table, i, j) => Rank(table, S, i) < Rank(table, S, j)
<1> DEFINE P(i) == {j \in S : Before(table, j, i)}
<1>1. \A i : Rank(table, S, i) = Cardinality(P(i)) /\ P(i) \in SUBSET S
  BY DEF Rank, Before
<1>2. IsFiniteSet(S) /\ Cardinality(S) \in Nat
  BY PagingAssumption, FS_Subset, FS_CardinalityType
<1>3. \A i \in S : ~Before(table, i, i)
  BY Order
<1>4. \A i, j, k \in S : Before(table, i, j) /\ Before(table, j, k) => Before(table, i, k)
  BY Order
<1>5. \A i : IsFiniteSet(P(i)) /\ Cardinality(P(i)) \in Nat
  BY <1>1, <1>2, FS_Subset, FS_CardinalityType
<1>6. ASSUME NEW i \in S
      PROVE  Cardinality(P(i)) < Cardinality(S)
  <2>1. P(i) # S
    BY <1>3
  <2>2. Cardinality(P(i)) <= Cardinality(S) /\ Cardinality(S) # Cardinality(P(i))
    BY <1>1, <1>2, <2>1, FS_Subset
  <2> HIDE DEF P
  <2> QED
    BY <1>2, <1>5, <2>2
<1>7. ASSUME NEW i \in S, NEW j \in S, Before(table, i, j)
      PROVE  Cardinality(P(i)) < Cardinality(P(j))
  <2>1. P(i) \in SUBSET P(j) /\ P(i) # P(j)
    BY <1>3, <1>4, <1>7
  <2> HIDE DEF P
  <2>2. Cardinality(P(i)) <= Cardinality(P(j)) /\ Cardinality(P(j)) # Cardinality(P(i))
    BY <1>5, <2>1, FS_Subset
  <2> QED
    BY <1>5, <2>2
<1> HIDE DEF P
<1> QED
  BY <1>1, <1>2, <1>5, <1>6, <1>7

\* Every number below the size of a set is some row's rank: ranks differ, so
\* they cannot all fit in one number less.
LEMMA RankReached ==
  ASSUME RowsTyped, NEW table, NEW S \in SUBSET Rows, NEW n \in Nat, n < Cardinality(S)
  PROVE  \E i \in S : Rank(table, S, i) = n
<1> SUFFICES ASSUME \A i \in S : Rank(table, S, i) # n
             PROVE  FALSE
  OBVIOUS
<1> DEFINE c == Cardinality(S)
           I == 0 .. c - 1
           T == I \ {n}
           f == [i \in S |-> Rank(table, S, i)]
<1>1. /\ IsFiniteSet(S) /\ c \in Nat
      /\ \A i \in S : Rank(table, S, i) \in Nat /\ Rank(table, S, i) < c
      /\ \A i, j \in S : Before(table, i, j) => Rank(table, S, i) < Rank(table, S, j)
  BY RankMeans
<1> HIDE DEF c
<1>2. n < c
  BY DEF c
<1>3. IsFiniteSet(I) /\ Cardinality(I) = c /\ n \in I
  <2>1. 0 \in Int /\ c - 1 \in Int /\ ~(0 > c - 1) /\ (c - 1) - 0 + 1 = c
    BY <1>1, <1>2
  <2> QED
    BY <1>1, <1>2, <2>1, FS_Interval
<1>4. IsFiniteSet(T) /\ Cardinality(T) = c - 1
  <2> HIDE DEF I
  <2> QED
    BY <1>3, FS_RemoveElement
<1>5. f \in [S -> T]
  <2>1. \A i \in S : Rank(table, S, i) \in T
    BY <1>1
  <2> QED
    BY <2>1
<1>6. Cardinality(T) < Cardinality(S)
  BY <1>1, <1>4 DEF c
<1> HIDE DEF T, f
<1>7. PICK x \in S, y \in S : x # y /\ f[x] = f[y]
  BY <1>1, <1>4, <1>5, <1>6, FS_PigeonHole
<1>8. Rank(table, S, x) = Rank(table, S, y)
  BY <1>7 DEF f
<1>9. Before(table, x, y) \/ Before(table, y, x)
  BY <1>7, Order
<1>10. Rank(table, S, x) < Rank(table, S, y) \/ Rank(table, S, y) < Rank(table, S, x)
  BY <1>1, <1>9
<1> QED
  BY <1>1, <1>8, <1>10

-----------------------------------------------------------------------------
(* Pages: n rows are shown of the n + 1 fetched *)

\* Without an extra row the page shows everything ahead.
LEMMA LastPage ==
  ASSUME RowsTyped, NEW table, NEW A \in SUBSET Rows, NEW n \in Nat,
         ~(Cardinality(First(table, A, n + 1)) > n)
  PROVE  First(table, First(table, A, n + 1), n) = A
<1> DEFINE F == First(table, A, n + 1)
<1>1. F \in SUBSET Rows /\ F \subseteq A
      /\ \A i \in A : Rank(table, A, i) < n + 1 => i \in F
  BY DEF First
<1>2. IsFiniteSet(F) /\ Cardinality(F) \in Nat
      /\ \A i \in F : Rank(table, F, i) \in Nat /\ Rank(table, F, i) < Cardinality(F)
  <2> HIDE DEF F
  <2> QED
    BY <1>1, RankMeans
<1>3. /\ Cardinality(A) \in Nat
      /\ \A i \in A : Rank(table, A, i) \in Nat /\ Rank(table, A, i) < Cardinality(A)
      /\ \A i, j \in A : Before(table, i, j) => Rank(table, A, i) < Rank(table, A, j)
  BY RankMeans
<1> HIDE DEF F
<1>4. ~(Cardinality(F) > n)
  BY DEF F
<1>5. ASSUME NEW i \in A, i \notin F
      PROVE  FALSE
  <2>1. n < Cardinality(A)
    BY <1>1, <1>3, <1>5
  <2>2. PICK k \in A : Rank(table, A, k) = n
    BY <2>1, RankReached
  <2> DEFINE P == {j \in A : Before(table, j, k)}
  <2>3. Cardinality(P) = n
    BY <2>2 DEF Rank, Before
  <2>4. P \in SUBSET F /\ k \in F /\ k \notin P
    <3>1. \A j \in P : Rank(table, A, j) < n
      BY <1>3, <2>2
    <3>2. \A j \in P : Rank(table, A, j) < n + 1
      BY <1>3, <3>1
    <3>3. Rank(table, A, k) < n + 1
      BY <2>2
    <3>4. ~Before(table, k, k)
      BY Order
    <3> QED
      BY <1>1, <3>2, <3>3, <3>4
  <2> HIDE DEF P
  <2>5. IsFiniteSet(P) /\ P \cup {k} \in SUBSET F
    BY <1>2, <2>4, FS_Subset
  <2>6. Cardinality(P \cup {k}) = n + 1
    BY <2>3, <2>4, <2>5, FS_AddElement
  <2>7. Cardinality(P \cup {k}) <= Cardinality(F)
    BY <1>2, <2>5, FS_Subset
  <2> QED
    BY <1>2, <1>4, <2>6, <2>7
<1>6. F = A
  BY <1>1, <1>5
<1>7. \A i \in F : Rank(table, F, i) < n
  BY <1>2, <1>4
<1> QED
  BY <1>6, <1>7 DEF First, F

\* With an extra row, the page is what is ahead up to the row of the cursor.
LEMMA FullPage ==
  ASSUME RowsTyped, NEW table, NEW A \in SUBSET Rows, NEW n \in Nat \ {0},
         Cardinality(First(table, A, n + 1)) > n
  PROVE  LET F == First(table, A, n + 1)
             last == CHOOSE i \in F : Rank(table, F, i) = n - 1
         IN /\ last \in A
            /\ First(table, F, n) = {i \in A : i = last \/ Before(table, i, last)}
<1> DEFINE F == First(table, A, n + 1)
           last == CHOOSE i \in F : Rank(table, F, i) = n - 1
<1>1. F \in SUBSET Rows /\ F \subseteq A
      /\ \A i \in A : Rank(table, A, i) < n + 1 <=> i \in F
  BY DEF First
<1>2. Cardinality(F) > n
  OBVIOUS
<1> HIDE DEF F
<1>3. /\ Cardinality(F) \in Nat
      /\ \A i \in F : Rank(table, F, i) \in Nat
      /\ \A i, j \in F : Before(table, i, j) => Rank(table, F, i) < Rank(table, F, j)
  BY <1>1, RankMeans
<1>4. /\ \A i \in A : Rank(table, A, i) \in Nat
      /\ \A i, j \in A : Before(table, i, j) => Rank(table, A, i) < Rank(table, A, j)
  BY RankMeans
<1>5. n - 1 \in Nat /\ n - 1 < Cardinality(F)
  BY <1>2, <1>3
<1>6. last \in F /\ Rank(table, F, last) = n - 1
  BY <1>1, <1>5, RankReached
<1> HIDE DEF last
<1>7. ASSUME NEW i \in F, Rank(table, F, i) < n
      PROVE  i = last \/ Before(table, i, last)
  <2>1. Rank(table, F, i) \in Nat /\ ~(n - 1 < Rank(table, F, i))
    BY <1>3, <1>7
  <2>2. ~Before(table, last, i)
    BY <1>3, <1>6, <2>1
  <2> QED
    BY <1>1, <1>6, <2>2, Order
<1>8. ASSUME NEW i \in A, i = last \/ Before(table, i, last)
      PROVE  i \in F /\ Rank(table, F, i) < n
  <2>1. CASE i = last
    BY <1>6, <2>1
  <2>2. CASE Before(table, i, last)
    <3>1. Rank(table, A, i) < Rank(table, A, last) /\ Rank(table, A, last) < n + 1
      BY <1>1, <1>4, <1>6, <2>2
    <3>2. Rank(table, A, i) \in Nat /\ Rank(table, A, last) \in Nat
      BY <1>1, <1>4, <1>6
    <3>3. i \in F
      BY <1>1, <3>1, <3>2
    <3>4. Rank(table, F, i) < n - 1 /\ Rank(table, F, i) \in Nat
      BY <1>3, <1>6, <2>2, <3>3
    <3> QED
      BY <3>3, <3>4
  <2> QED
    BY <1>8, <2>1, <2>2
<1>9. First(table, F, n) = {i \in A : i = last \/ Before(table, i, last)}
  BY <1>1, <1>7, <1>8 DEF First
<1> QED
  BY <1>1, <1>6, <1>9 DEF F, last

-----------------------------------------------------------------------------
(* Cursors and limits *)

\* Encoding keeps every digit of created_at.
LEMMA CursorMeans ==
  ASSUME NEW at \in 0 .. MaxTime, NEW id \in Rows
  PROVE  /\ encodeCursor(at, id) \in Cursors /\ encodeCursor(at, id).id = id
         /\ decodeKeysetCursor(encodeCursor(at, id)) = [at |-> at, id |-> id]
<1>1. at \in Nat /\ Second \in Nat /\ Second > 0
  BY PagingAssumption
<1>2. at \div Second \in Nat /\ at % Second \in 0 .. Second - 1
      /\ (at \div Second) * Second + (at % Second) = at
  BY <1>1
<1> QED
  BY <1>2 DEF encodeCursor, decodeKeysetCursor, Cursors

\* An accepted request asks for at least one row.
LEMMA LimitMeans ==
  ASSUME NEW limit \in Int, limit >= 0
  PROVE  EffectiveLimit(limit) \in Nat \ {0}
BY PagingAssumption DEF EffectiveLimit

\* The rows ahead, when the cursor is that of a row.
LEMMA AheadMeans ==
  ASSUME NEW l, AtCursor(l), NEW i \in Rows
  PROVE  i \in Ahead(l) <=> /\ Matches(i, l.filter)
                            /\ l.cursor.id = 0 \/ Before(l.table, l.cursor.id, i)
BY DEF Ahead, AtCursor, Before

-----------------------------------------------------------------------------
(* Steps *)

LEMMA InitIInv == Init => IInv
<1> SUFFICES ASSUME Init PROVE IInv
  OBVIOUS
<1>1. MaxTime \in Nat /\ Second \in Nat /\ Second > 0
  BY PagingAssumption
<1>2. 0 \in 0 .. MaxTime /\ 0 \in 0 .. Second - 1
  BY <1>1
<1>3. NoCursor \in Cursors /\ NoCursor.id = 0
  BY <1>2 DEF NoCursor, Cursors
<1> DEFINE l == NewListing("items", "")
<1>4. l \in Listings /\ l.cursor = NoCursor /\ l.page = {} /\ l.listed = {} /\ l.due = {}
  BY <1>3 DEF NewListing, Listings, Filters
<1>5. TypeOK
  BY <1>2, <1>4 DEF Init, TypeOK, Table
<1> HIDE DEF l
<1>6. ListingInv(l)
  BY <1>3, <1>4 DEF ListingInv, Seen, AtCursor, Advances
<1>7. \A c \in Clients : list[c] = l
  BY DEF Init, l
<1> QED
  BY <1>5, <1>6, <1>7 DEF IInv

\* A committed row keeps its key, and at most becomes CLOSED; then no listing
\* is disturbed.
LEMMA RowsStep ==
  ASSUME IInv, rows' \in [Rows -> Table], UNCHANGED <<clock, list>>,
         \A i \in Committed : /\ rows'[i].st = "committed" /\ rows'[i].at = rows[i].at
                              /\ rows'[i].status \in {rows[i].status, "CLOSED"}
  PROVE  IInv'
<1>1. TypeOK'
  BY DEF IInv, TypeOK
<1>2. ASSUME NEW c \in Clients
      PROVE  ListingInv(list[c])'
  <2> DEFINE l == list[c]
  <2>1. l \in Listings /\ Seen(l) /\ AtCursor(l) /\ Advances(l) /\ \A i \in l.due : ~Skips(l, i)
    BY DEF IInv, TypeOK, ListingInv
  <2>2. l' = l
    OBVIOUS
  <2> HIDE DEF l
  <2>3. /\ Committed \subseteq Committed'
        /\ \A i \in Committed : Key(i)' = Key(i)
    BY DEF Committed, Key
  <2>4. \A i, j \in Committed : Before(l.table, i, j)' <=> Before(l.table, i, j)
    BY <2>2, <2>3 DEF Before, Follows, Less
  <2>5. Seen(l)'
    BY <2>1, <2>2, <2>3 DEF Seen
  <2>6. AtCursor(l)'
    BY <2>1, <2>2, <2>3, <2>4 DEF AtCursor, Seen, decodeKeysetCursor
  <2>7. Advances(l)'
    BY <2>1, <2>2, <2>4 DEF Advances, Seen
  <2>8. ASSUME NEW i \in l.due
        PROVE  ~Skips(l, i)'
    <3>1. i \in Committed /\ i \in Rows /\ (l.filter = "CLOSED" => rows[i].status = "CLOSED")
      BY <2>1 DEF Seen, Committed
    <3>2. Matches(i, l.filter)' => Matches(i, l.filter)
      <4>1. l.filter \in {"", "OPEN", "CLOSED"} /\ rows[i].status \in {"OPEN", "CLOSED"}
        BY <2>1, <3>1 DEF Listings, Filters, IInv, TypeOK, Table
      <4> QED
        BY <2>2, <3>1, <4>1 DEF Matches, Committed
    <3>3. Matches(i, l.filter)' /\ i \in Ahead(l) => i \in Ahead(l)'
      BY <2>2, <2>3, <3>1 DEF Ahead, Follows, Less, decodeKeysetCursor
    <3> QED
      BY <2>1, <2>2, <3>2, <3>3 DEF Skips
  <2>9. ListingInv(l)'
    BY <2>2, <2>5, <2>6, <2>7, <2>8 DEF ListingInv
  <2> QED
    BY <2>9 DEF l
<1> QED
  BY <1>1, <1>2 DEF IInv

LEMMA StampStep ==
  ASSUME IInv, NEW i \in Rows, Stamp(i)
  PROVE  IInv'
<1>1. rows \in [Rows -> Table] /\ clock \in 0 .. MaxTime
  BY DEF IInv, TypeOK
<1>2. rows[i].st # "committed" /\ UNCHANGED <<clock, list>>
      /\ rows' = [rows EXCEPT ![i] = [rows[i] EXCEPT !.st = "pending", !.at = clock]]
  BY <1>1 DEF Stamp
<1>3. rows' \in [Rows -> Table] /\ \A j \in Rows : j # i => rows'[j] = rows[j]
  BY <1>1, <1>2 DEF Table
<1> QED
  BY <1>1, <1>2, <1>3, RowsStep DEF Committed

LEMMA CommitStep ==
  ASSUME IInv, NEW i \in Rows, Commit(i)
  PROVE  IInv'
<1>1. rows \in [Rows -> Table]
  BY DEF IInv, TypeOK
<1>2. rows[i].st # "committed" /\ UNCHANGED <<clock, list>>
      /\ rows' = [rows EXCEPT ![i] = [rows[i] EXCEPT !.st = "committed"]]
  BY DEF Commit
<1>3. rows' \in [Rows -> Table] /\ \A j \in Rows : j # i => rows'[j] = rows[j]
  BY <1>1, <1>2 DEF Table
<1> QED
  BY <1>1, <1>2, <1>3, RowsStep DEF Committed

LEMMA CloseStep ==
  ASSUME IInv, NEW i \in Rows, Close(i)
  PROVE  IInv'
<1>1. rows \in [Rows -> Table]
  BY DEF IInv, TypeOK
<1>2. UNCHANGED <<clock, list>>
      /\ rows' = [rows EXCEPT ![i] = [rows[i] EXCEPT !.status = "CLOSED"]]
  BY DEF Close
<1>3. rows' \in [Rows -> Table] /\ (\A j \in Rows : j # i => rows'[j] = rows[j])
      /\ rows'[i].st = rows[i].st /\ rows'[i].at = rows[i].at /\ rows'[i].status = "CLOSED"
  BY <1>1, <1>2 DEF Table
<1> QED
  BY <1>1, <1>2, <1>3, RowsStep DEF Committed

\* What is said of a listing depends on the rows alone.
LEMMA SameRows ==
  ASSUME rows' = rows, NEW c, ListingInv(list'[c])
  PROVE  ListingInv(list[c])'
<1>1. Committed' = Committed /\ \A i : Key(i)' = Key(i)
  BY DEF Committed, Key
<1>2. Seen(list[c])'
  BY <1>1 DEF ListingInv, Seen
<1>3. AtCursor(list[c])'
  BY <1>1 DEF ListingInv, AtCursor, Before, Follows, Less, decodeKeysetCursor
<1>4. Advances(list[c])'
  BY <1>1 DEF ListingInv, Advances, Before, Follows, Less
<1>5. ASSUME NEW i \in list'[c].due
      PROVE  ~Skips(list[c], i)'
  <2>1. ~Skips(list'[c], i)
    BY DEF ListingInv
  <2>2. i \in Ahead(list'[c]) => i \in Ahead(list[c])'
    BY <1>1 DEF Ahead, Matches, Follows, Less, decodeKeysetCursor
  <2> QED
    BY <2>1, <2>2 DEF Skips, Matches
<1> QED
  BY <1>2, <1>3, <1>4, <1>5 DEF ListingInv

LEMMA TickStep ==
  ASSUME IInv, Tick
  PROVE  IInv'
<1>1. clock \in 0 .. MaxTime /\ clock < MaxTime /\ clock' = clock + 1
  BY DEF IInv, TypeOK, Tick
<1>2. clock' \in 0 .. MaxTime
  BY <1>1, PagingAssumption
<1>3. rows' = rows /\ list' = list
  BY DEF Tick
<1>4. TypeOK'
  BY <1>2, <1>3 DEF IInv, TypeOK
<1>5. ASSUME NEW c \in Clients
      PROVE  ListingInv(list[c])'
  BY <1>3, SameRows DEF IInv
<1> QED
  BY <1>4, <1>5 DEF IInv

\* A step of one client: only its listing is to be checked.
LEMMA ListStep ==
  ASSUME IInv, NEW c \in Clients, NEW l \in Listings, list' = [list EXCEPT ![c] = l],
         UNCHANGED <<clock, rows>>, ListingInv(l)
  PROVE  IInv'
<1>1. list' \in [Clients -> Listings] /\ list'[c] = l
      /\ \A d \in Clients : d # c => list'[d] = list[d]
  BY DEF IInv, TypeOK
<1>2. TypeOK'
  BY <1>1 DEF IInv, TypeOK
<1>3. ASSUME NEW d \in Clients
      PROVE  ListingInv(list[d])'
  <2>1. ListingInv(list'[d])
    BY <1>1 DEF IInv
  <2> QED
    BY <2>1, SameRows
<1> QED
  BY <1>2, <1>3 DEF IInv

LEMMA BeginStep ==
  ASSUME IInv, NEW c \in Clients, NEW t \in {"bills", "items"}, NEW f \in Filters, Begin(c, t, f)
  PROVE  IInv'
<1> DEFINE l == [NewListing(t, f) EXCEPT !.st = "more"]
<1>1. list' = [list EXCEPT ![c] = l] /\ UNCHANGED <<clock, rows>>
  BY DEF Begin
<1>2. Second \in Nat /\ 0 \in 0 .. Second - 1
  BY PagingAssumption
<1>3. NoCursor \in Cursors /\ NoCursor.id = 0
  BY <1>2 DEF NoCursor, Cursors
<1>4. l \in Listings /\ l.cursor = NoCursor /\ l.page = {} /\ l.listed = {} /\ l.due = {}
  BY <1>3 DEF NewListing, Listings
<1> HIDE DEF l
<1>5. ListingInv(l)
  BY <1>3, <1>4 DEF ListingInv, Seen, AtCursor, Advances
<1> QED
  BY <1>1, <1>4, <1>5, ListStep

LEMMA RejectedStep ==
  ASSUME IInv, NEW c \in Clients, ListRejected(c)
  PROVE  IInv'
<1> DEFINE k == list[c]
           l == [k EXCEPT !.code = "InvalidArgument"]
<1>1. list' = [list EXCEPT ![c] = l] /\ UNCHANGED <<clock, rows>>
  BY DEF ListRejected
<1>2. k \in Listings /\ ListingInv(k)
  BY DEF IInv, TypeOK
<1> HIDE DEF k
<1>3. /\ l \in Listings /\ l.st = k.st /\ l.table = k.table /\ l.filter = k.filter
      /\ l.cursor = k.cursor /\ l.page = k.page /\ l.listed = k.listed /\ l.due = k.due
  BY <1>2 DEF Listings
<1> HIDE DEF l
<1>4. Ahead(l) = Ahead(k)
  BY <1>3 DEF Ahead
<1>5. ListingInv(l)
  BY <1>2, <1>3, <1>4 DEF ListingInv, Seen, AtCursor, Advances, Skips
<1> QED
  BY <1>1, <1>3, <1>5, ListStep

\* The rows ahead come after everything listed, and include every row that is
\* due and was not listed.
LEMMA AheadFollows ==
  ASSUME RowsTyped, NEW k \in Listings, ListingInv(k), k.st = "more"
  PROVE  /\ Ahead(k) \in SUBSET Committed
         /\ \A i \in k.page \cup k.listed, j \in Ahead(k) : Before(k.table, i, j)
         /\ \A i \in k.due : Matches(i, k.filter) => i \in Ahead(k) \cup k.page \cup k.listed
         /\ k.filter = "CLOSED" => \A i \in Ahead(k) : rows[i].status = "CLOSED"
<1>1. /\ Seen(k) /\ AtCursor(k) /\ \A i \in k.due : ~Skips(k, i)
  BY DEF ListingInv
<1>2. Ahead(k) \in SUBSET Committed
  BY DEF Ahead, Matches, Committed
<1>3. ASSUME NEW i \in k.page \cup k.listed, NEW j \in Ahead(k)
      PROVE  Before(k.table, i, j)
  <2>1. /\ k.cursor.id # 0 /\ k.cursor.id \in Rows /\ i \in Rows /\ j \in Rows
        /\ i = k.cursor.id \/ Before(k.table, i, k.cursor.id)
    BY <1>1, <1>2 DEF AtCursor, Seen, Committed
  <2>2. Before(k.table, k.cursor.id, j)
    BY <1>1, <2>1, AheadMeans
  <2>3. PICK c \in Rows : c = k.cursor.id
    BY <2>1
  <2>4. PICK table : table = k.table
    OBVIOUS
  <2>5. Before(table, i, c) /\ Before(table, c, j) => Before(table, i, j)
    BY <2>1, Order
  <2> QED
    BY <2>1, <2>2, <2>3, <2>4, <2>5
<1>4. \A i \in k.due : Matches(i, k.filter) => i \in Ahead(k) \cup k.page \cup k.listed
  BY <1>1 DEF Skips
<1>5. k.filter = "CLOSED" => \A i \in Ahead(k) : rows[i].status = "CLOSED"
  BY DEF Ahead, Matches
<1> QED
  BY <1>2, <1>3, <1>4, <1>5

\* The listing after its last page.
LEMMA LastPageInv ==
  ASSUME RowsTyped, NEW k \in Listings, ListingInv(k), k.st = "more", NEW l \in Listings,
         l.st = "done", l.table = k.table, l.filter = k.filter, l.cursor = NoCursor,
         l.page = Ahead(k), l.listed = k.listed \cup k.page, l.due = k.due \cup Ahead(k)
  PROVE  ListingInv(l)
<1>1. /\ Ahead(k) \in SUBSET Committed
      /\ \A i \in k.page \cup k.listed, j \in Ahead(k) : Before(k.table, i, j)
      /\ \A i \in k.due : Matches(i, k.filter) => i \in Ahead(k) \cup k.page \cup k.listed
      /\ k.filter = "CLOSED" => \A i \in Ahead(k) : rows[i].status = "CLOSED"
  BY AheadFollows
<1>2. Seen(k)
  BY DEF ListingInv
<1>3. Seen(l)
  BY <1>1, <1>2 DEF Seen
<1>4. AtCursor(l)
  BY DEF AtCursor, NoCursor
<1>5. Advances(l)
  BY <1>1 DEF Advances
<1>6. \A i \in l.due : ~Skips(l, i)
  BY <1>1 DEF Skips
<1> QED
  BY <1>3, <1>4, <1>5, <1>6 DEF ListingInv

\* The listing after a page that has a next one.
LEMMA FullPageInv ==
  ASSUME RowsTyped, NEW k \in Listings, ListingInv(k), k.st = "more", NEW l \in Listings,
         NEW last \in Ahead(k), last # 0,
         l.st = "more", l.table = k.table, l.filter = k.filter,
         l.cursor.id = last, decodeKeysetCursor(l.cursor) = Key(last),
         l.page = {i \in Ahead(k) : i = last \/ Before(k.table, i, last)},
         l.listed = k.listed \cup k.page, l.due = k.due \cup Ahead(k)
  PROVE  ListingInv(l)
<1>1. /\ Ahead(k) \in SUBSET Committed
      /\ \A i \in k.page \cup k.listed, j \in Ahead(k) : Before(k.table, i, j)
      /\ \A i \in k.due : Matches(i, k.filter) => i \in Ahead(k) \cup k.page \cup k.listed
      /\ k.filter = "CLOSED" => \A i \in Ahead(k) : rows[i].status = "CLOSED"
  BY AheadFollows
<1>2. Seen(k)
  BY DEF ListingInv
<1>3. Seen(l)
  BY <1>1, <1>2 DEF Seen
<1>4. AtCursor(l)
  BY <1>1 DEF AtCursor
<1>5. Advances(l)
  BY <1>1 DEF Advances
<1>6. ASSUME NEW i \in l.due
      PROVE  ~Skips(l, i)
  <2> SUFFICES ASSUME Matches(i, k.filter), i \notin Ahead(l), i \in Ahead(k)
               PROVE  i \in l.page
    BY <1>1 DEF Skips
  <2>1. i \in Rows /\ last \in Rows
    BY <1>1 DEF Committed
  <2>2. ~Before(k.table, last, i)
    BY <1>4, <2>1, AheadMeans
  <2> QED
    BY <2>1, <2>2, Order
<1> QED
  BY <1>3, <1>4, <1>5, <1>6 DEF ListingInv

LEMMA ListPageStep ==
  ASSUME IInv, NEW c \in Clients, NEW limit \in Limits, ListPage(c, limit)
  PROVE  IInv'
<1> DEFINE k == list[c]
           n == EffectiveLimit(limit)
           F == First(k.table, Ahead(k), n + 1)
           more == Cardinality(F) > n
           cursor == IF more THEN NextCursor(k.table, F, n) ELSE NoCursor
           page == First(k.table, F, n)
           l == [k EXCEPT !.st = IF more THEN "more" ELSE "done", !.code = "OK",
                          !.cursor = cursor, !.page = page,
                          !.listed = k.listed \cup k.page, !.due = k.due \cup Ahead(k)]
<1>1. /\ k.st = "more" /\ limit >= 0 /\ UNCHANGED <<clock, rows>>
      /\ list' = [list EXCEPT ![c] = l]
  BY DEF ListPage
<1>2. RowsTyped /\ k \in Listings /\ ListingInv(k)
  BY DEF IInv, TypeOK, RowsTyped
<1>3. n \in Nat \ {0}
  BY <1>1, PagingAssumption, LimitMeans
<1>4. Ahead(k) \in SUBSET Rows /\ page \in SUBSET Rows
  BY DEF Ahead, First
<1>5. ASSUME cursor \in Cursors
      PROVE  /\ l \in Listings /\ l.st = IF more THEN "more" ELSE "done"
             /\ l.table = k.table /\ l.filter = k.filter
             /\ l.cursor = cursor /\ l.page = page
             /\ l.listed = k.listed \cup k.page /\ l.due = k.due \cup Ahead(k)
  <2> HIDE DEF k, cursor, page, more
  <2> QED
    BY <1>2, <1>4, <1>5 DEF Listings
<1>6. CASE more
  <2> DEFINE last == CHOOSE i \in F : Rank(k.table, F, i) = n - 1
  <2>1. last \in Ahead(k)
        /\ page = {i \in Ahead(k) : i = last \/ Before(k.table, i, last)}
    <3> HIDE DEF k, n
    <3> QED
      BY <1>2, <1>3, <1>4, <1>6, FullPage
  <2>2. cursor = encodeCursor(rows[last].at, last)
    BY <1>6 DEF NextCursor
  <2> HIDE DEF last, cursor, page
  <2>3. last \in Rows /\ last # 0 /\ rows[last].at \in 0 .. MaxTime
    BY <1>2, <1>4, <2>1, PagingAssumption DEF RowsTyped, Table
  <2>4. cursor \in Cursors /\ cursor.id = last /\ decodeKeysetCursor(cursor) = Key(last)
    BY <2>2, <2>3, CursorMeans DEF Key
  <2>5. /\ l \in Listings /\ l.st = "more" /\ l.table = k.table /\ l.filter = k.filter
        /\ l.cursor = cursor /\ l.page = page
        /\ l.listed = k.listed \cup k.page /\ l.due = k.due \cup Ahead(k)
    BY <1>5, <1>6, <2>4
  <2> HIDE DEF k, l
  <2>6. ListingInv(l)
    BY <1>1, <1>2, <2>1, <2>3, <2>4, <2>5, FullPageInv
  <2> QED
    BY <1>1, <2>5, <2>6, ListStep
<1>7. CASE ~more
  <2>1. page = Ahead(k)
    <3> HIDE DEF k, n
    <3> QED
      BY <1>2, <1>3, <1>4, <1>7, LastPage
  <2>2. Second \in Nat /\ 0 \in 0 .. Second - 1
    BY PagingAssumption
  <2>3. cursor = NoCursor /\ NoCursor \in Cursors
    BY <1>7, <2>2 DEF NoCursor, Cursors
  <2> HIDE DEF cursor, page
  <2>4. /\ l \in Listings /\ l.st = "done" /\ l.table = k.table /\ l.filter = k.filter
        /\ l.cursor = cursor /\ l.page = page
        /\ l.listed = k.listed \cup k.page /\ l.due = k.due \cup Ahead(k)
    BY <1>5, <1>7, <2>3
  <2> HIDE DEF k, l
  <2>5. ListingInv(l)
    BY <1>1, <1>2, <2>1, <2>3, <2>4, LastPageInv
  <2> QED
    BY <1>1, <2>4, <2>5, ListStep
<1> QED
  BY <1>6, <1>7

\* Every reachable state of the listings satisfies the inductive invariant.
THEOREM Invariance == Spec => []IInv
<1>1. ASSUME IInv, [Next]_vars
      PROVE  IInv'
  <2>1. CASE Tick
    BY <1>1, <2>1, TickStep
  <2>2. ASSUME NEW i \in Rows, Stamp(i) \/ Commit(i) \/ Close(i)
        PROVE  IInv'
    BY <1>1, <2>2, StampStep, CommitStep, CloseStep
  <2>3. ASSUME NEW c \in Clients, NEW t \in {"bills", "items"}, NEW f \in Filters, Begin(c, t, f)
        PROVE  IInv'
    BY <1>1, <2>3, BeginStep
  <2>4. ASSUME NEW c \in Clients, ListRejected(c)
        PROVE  IInv'
    BY <1>1, <2>4, RejectedStep
  <2>5. ASSUME NEW c \in Clients, NEW n \in Limits, ListPage(c, n)
        PROVE  IInv'
    BY <1>1, <2>5, ListPageStep
  <2>6. CASE UNCHANGED vars
    <3>1. UNCHANGED <<clock, rows, list>>
      BY <2>6 DEF vars
    <3>2. rows' \in [Rows -> Table]
      BY <1>1, <3>1 DEF IInv, TypeOK
    <3> QED
      BY <1>1, <3>1, <3>2, RowsStep DEF Committed
  <2> QED
    BY <1>1, <2>1, <2>2, <2>3, <2>4, <2>5, <2>6 DEF Next
<1> QED
  BY <1>1, InitIInv, PTL DEF Spec

\* Every cursor a page hands out is well formed: a row of the table and the
\* digits of its created_at.
THEOREM TypeCorrect == Spec => []TypeOK
<1>1. IInv => TypeOK
  BY DEF IInv
<1> QED
  BY <1>1, Invariance, PTL

\* The pages of one listing of ListBills, ListLineItems or ListBillEvents
\* never repeat a row and never go back, whatever is written between them.
THEOREM AdvanceTheorem == Spec => []PagesAdvance
<1>1. IInv => PagesAdvance
  BY DEF IInv, ListingInv, Advances, Before, PagesAdvance
<1> QED
  BY <1>1, Invariance, PTL

\* A row that some page's query saw ahead of its cursor is listed by the time
\* the cursor passes it or the listing ends, unless it left the status filter.
THEOREM NothingSkippedTheorem == Spec => []NothingSkipped
<1>1. IInv => NothingSkipped
  BY DEF IInv, ListingInv, Skips, NothingSkipped
<1> QED
  BY <1>1, Invariance, PTL
=============================================================================
