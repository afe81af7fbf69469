--------------------------- MODULE ListingProofs ----------------------------
(***************************************************************************)
(* Theorems that no row is missed.  Who walks a list to its end sees all   *)
(* that stayed in it, for any rows, page sizes and keys, however many rows *)
(* come or change meanwhile; and, at the end, a file that is read accounts *)
(* for each of its rows (CsvRows).                                         *)
(*                                                                         *)
(* The pages that were seen are one sorted sequence, and the next page is  *)
(* asked from the cursor of its last row; so a row that stayed is seen, or *)
(* comes after that cursor, or the cursor has lost it.                     *)
(***************************************************************************)
EXTENDS Listing, FiniteSums, SequenceTheorems

CONSTANTS MAX_SAFE_INTEGER, Files, MaxRows, MaxFieldLength, GoodDate, OwnCurrency, ForeignCurrency
VARIABLES file, scan, result
Csv == INSTANCE CsvRows

Seen == ToSet(walk.seen)
\* The cursor the next page is asked from.
Position == IF loading THEN Url.after ELSE View.endCursor

Typed ==
  /\ list \in {Connections[n]: n \in Lists} /\ first \in First
  /\ table \in [Row -> [key: Key \cup {0}, meets: SUBSET Filter]]
  /\ loading \in BOOLEAN
  /\ history \in Seq([filter: Filter, after: [key: Nat, id: Nat]]) /\ history # <<>>
  /\ DOMAIN slot = Filter
  /\ \A f \in Filter: DOMAIN slot[f] = {"rows", "hasNext", "endCursor"}
                      /\ slot[f].endCursor \in [key: Nat, id: Nat]
  /\ DOMAIN walk = {"state", "seen", "there", "ends"}
  /\ walk.seen \in Seq(Row) /\ walk.there \subseteq Row /\ walk.ends \subseteq Key

\* The number of an import's row is its own.
NumberKeys == list.cursor = "number" => \A r, s \in Present: r # s => table[r].key # table[s].key

\* What was seen is there and in order.
InOrder ==
  /\ \A i \in DOMAIN walk.seen: walk.seen[i] \in Present
  /\ \A i, j \in DOMAIN walk.seen: i < j => Before(walk.seen[i], walk.seen[j])

\* A row is seen, or lost, or still to come after the cursor.
Accounted(r) == r \in Seen \/ LostInGrain(r)
Begun == walk.seen = <<>> /\ Position = NoCursor
Reached == walk.seen # <<>> /\ Position = encodeCursor(Last(walk.seen))

Walking ==
  walk.state = "walking" =>
    /\ walk.there \subseteq Matching(Url.filter)
    /\ walk.seen # <<>> => table[Last(walk.seen)].key \in walk.ends
    /\ loading => Begun \/ Reached
    /\ ~loading /\ View.hasNext => Reached /\ View.endCursor # Url.after
    /\ \A r \in walk.there:
         Accounted(r) \/ ((loading \/ View.hasNext) /\ After(r, Position))

IInv == Typed /\ NumberKeys /\ InOrder /\ Walking /\ PagesAreWhole

----------------------------------------------------------------------------
(* The order of a list                                                     *)

(* The kinds of lists there are. *)
LEMMA Kinds ==
    ASSUME ListingAssumption, Typed
    PROVE  /\ list.order \in {"asc", "desc"}
           /\ list.cursor \in {"instant", "unreadable", "exact", "number"}
           /\ list.cursor = "instant" => list.order = "desc"
           /\ list.cursor = "number" => list.order = "asc"
<1>1. PICK n \in DOMAIN Connections : list = Connections[n]
  BY DEF ListingAssumption, Typed
<1> QED BY <1>1 DEF Connections, exceptions, imports, listEntries, auditEvents, receivables,
           transactions, listProperties, listUnits, importRows

(* Ids and keys are numbers, those of rows that are there not zero. *)
LEMMA Numbers ==
    ASSUME ListingAssumption, Typed, NEW r \in Row
    PROVE  /\ r \in Nat /\ r # 0 /\ table[r].key \in Nat
           /\ r \in Present <=> table[r].key # 0
           /\ r \in Present => table[r].key \in Key
<1>1. r \in Nat \ {0} /\ Key \subseteq Nat \ {0}
  BY DEF ListingAssumption
<1>2. table[r].key \in Key \cup {0}
  BY DEF Typed
<1>3. r \in Present <=> table[r].key # 0
  BY DEF Present
<1>4. r \in Nat /\ r # 0
  BY <1>1
<1>5. table[r].key \in Nat /\ (table[r].key # 0 => table[r].key \in Key)
  <2>1. \A k \in Key \cup {0}: k \in Nat /\ (k # 0 => k \in Key)
    BY <1>1
  <2> QED BY <1>2, <2>1
<1> QED BY <1>3, <1>4, <1>5

(* Rows are in a strict total order. *)
LEMMA Order ==
    ASSUME ListingAssumption, Typed
    PROVE  /\ \A r \in Row : ~Before(r, r)
           /\ \A r, s \in Row : r # s => Before(r, s) \/ Before(s, r)
           /\ \A r, s, t \in Row : Before(r, s) /\ Before(s, t) => Before(r, t)
BY Kinds, Numbers DEF Before, Precedes

(* A row after all others. *)
LEMMA LastOne ==
    ASSUME ListingAssumption, Typed, NEW R \in SUBSET Row, R # {}
    PROVE  \E m \in R : \A r \in R \ {m} : Before(r, m)
<1> DEFINE T == {V \in SUBSET R : V # {} /\ ~ \E m \in V : \A r \in V \ {m} : Before(r, m)}
<1>1. SUFFICES ASSUME T # {} PROVE FALSE
  BY DEF T
<1>2. PICK V \in T : \A W \in T : W \subseteq V => W = V
  <2>1. IsFiniteSet(R) /\ T \subseteq SUBSET R
    BY FS_Subset DEF ListingAssumption
  <2> HIDE DEF T
  <2> QED BY <1>1, <2>1, LeastSet
<1>3. PICK e \in V : TRUE
  OBVIOUS
<1>4. V \ {e} \notin T
  BY <1>2, <1>3
<1>5. CASE V \ {e} = {}
  BY <1>3, <1>5
<1>6. CASE V \ {e} # {}
  <2>1. PICK m \in V \ {e} : \A r \in (V \ {e}) \ {m} : Before(r, m)
    BY <1>4, <1>6
  <2>2. e \in Row /\ m \in Row /\ e # m /\ V \subseteq Row
    BY <1>3, <2>1
  <2>3. CASE Before(e, m)
    BY <2>1, <2>2, <2>3
  <2>4. CASE Before(m, e)
    <3>1. \A r \in V \ {e} : Before(r, e)
      BY <2>1, <2>2, <2>4, Order
    <3> QED BY <1>3, <3>1
  <2> QED BY <2>2, <2>3, <2>4, Order
<1> QED BY <1>5, <1>6

IsSorting(s, R) ==
  s \in [1 .. Cardinality(R) -> R] /\ \A i, j \in DOMAIN s: i < j => Before(s[i], s[j])

(* Any rows can be sorted. *)
LEMMA SortingExists ==
    ASSUME ListingAssumption, Typed, NEW R \in SUBSET Row
    PROVE  \E s : IsSorting(s, R)
<1> DEFINE T == {V \in SUBSET R : ~ \E s : IsSorting(s, V)}
<1>1. SUFFICES ASSUME T # {} PROVE FALSE
  BY DEF T
<1>2. PICK V \in T : \A W \in T : W \subseteq V => W = V
  <2>1. IsFiniteSet(R) /\ T \subseteq SUBSET R
    BY FS_Subset DEF ListingAssumption
  <2> HIDE DEF T
  <2> QED BY <1>1, <2>1, LeastSet
<1>3. V \in SUBSET Row /\ IsFiniteSet(V)
  BY FS_Subset DEF ListingAssumption
<1>4. CASE V = {}
  <2>1. Cardinality(V) = 0 /\ 1 .. 0 = {}
    BY <1>4, FS_EmptySet
  <2>2. IsSorting([i \in {} |-> i], V)
    BY <1>4, <2>1 DEF IsSorting
  <2> QED BY <2>2
<1>5. CASE V # {}
  <2>1. PICK m \in V : \A r \in V \ {m} : Before(r, m)
    BY <1>3, <1>5, LastOne
  <2> DEFINE W == V \ {m}
             n == Cardinality(W)
  <2>2. W \notin T /\ W \in SUBSET R
    BY <1>2, <2>1
  <2>3. PICK s : IsSorting(s, W)
    BY <2>2
  <2>4. n \in Nat /\ Cardinality(V) = n + 1
    <3>1. IsFiniteSet(W) /\ n = Cardinality(V) - 1 /\ Cardinality(V) \in Nat
      BY <1>3, <2>1, FS_CardinalityType, FS_RemoveElement
    <3>2. n \in Nat
      BY <3>1, FS_CardinalityType
    <3> HIDE DEF n
    <3> QED BY <3>1, <3>2
  <2> DEFINE u == [i \in 1 .. n + 1 |-> IF i = n + 1 THEN m ELSE s[i]]
  <2> HIDE DEF n
  <2>5. /\ s \in [1 .. n -> W] /\ \A i, j \in 1 .. n : i < j => Before(s[i], s[j])
    BY <2>3 DEF IsSorting, n
  <2>6. \A i \in 1 .. n + 1 : i # n + 1 => i \in 1 .. n
    BY <2>4
  <2>7. u \in [1 .. n + 1 -> V]
    BY <2>1, <2>5, <2>6
  <2>8. ASSUME NEW i \in 1 .. n + 1, NEW j \in 1 .. n + 1, i < j PROVE Before(u[i], u[j])
    <3>1. i \in 1 .. n /\ u[i] = s[i] /\ s[i] \in W
      BY <2>4, <2>5, <2>6, <2>8
    <3>2. CASE j = n + 1
      BY <2>1, <3>1, <3>2
    <3>3. CASE j # n + 1
      BY <2>5, <2>6, <2>8, <3>1, <3>3
    <3> QED BY <3>2, <3>3
  <2>9. IsSorting(u, V)
    BY <2>4, <2>7, <2>8 DEF IsSorting
  <2> QED BY <2>9
<1> QED BY <1>4, <1>5

(* What Sorted gives: a sequence of all the rows, in order. *)
LEMMA SortedIs ==
    ASSUME ListingAssumption, Typed, NEW R \in SUBSET Row
    PROVE  /\ Cardinality(R) \in Nat
           /\ Sorted(R) \in [1 .. Cardinality(R) -> R]
           /\ Sorted(R) \in Seq(R) /\ Len(Sorted(R)) = Cardinality(R)
           /\ \A i, j \in 1 .. Cardinality(R) : i < j => Before(Sorted(R)[i], Sorted(R)[j])
           /\ \A r \in R : \E i \in 1 .. Cardinality(R) : Sorted(R)[i] = r
<1> DEFINE s == Sorted(R)
           n == Cardinality(R)
<1>1. IsSorting(s, R)
  BY SortingExists DEF Sorted, IsSorting
<1>2. IsFiniteSet(R) /\ n \in Nat
  BY FS_Subset, FS_CardinalityType DEF ListingAssumption
<1>3. /\ s \in [1 .. n -> R] /\ \A i, j \in 1 .. n : i < j => Before(s[i], s[j])
  BY <1>1 DEF IsSorting
<1>4. ASSUME NEW i \in 1 .. n, NEW j \in 1 .. n, s[i] = s[j] PROVE i = j
  <2>1. s[i] \in Row /\ ~Before(s[i], s[i])
    BY <1>3, Order
  <2> HIDE DEF n, s
  <2> QED BY <1>2, <1>3, <1>4, <2>1
<1>5. s \in Surjection(1 .. n, R)
  <2>1. s \in Injection(1 .. n, R)
    BY <1>3, <1>4 DEF Injection, IsInjective
  <2>2. Cardinality(1 .. n) = n
    <3> HIDE DEF n
    <3>1. n >= 0 /\ n - 1 + 1 = n /\ (1 > n => n = 0) /\ n \in Int /\ 1 \in Int
      BY <1>2
    <3> QED BY <3>1, FS_Interval
  <2> QED BY <1>2, <2>1, <2>2, FS_Injection
<1>6. \A r \in R : \E i \in 1 .. n : s[i] = r
  BY <1>5 DEF Surjection
<1>7. s \in Seq(R) /\ Len(s) = n
  <2> HIDE DEF n, s
  <2> QED BY <1>2, <1>3
<1> QED BY <1>2, <1>3, <1>6, <1>7

----------------------------------------------------------------------------
(* Cursors                                                                 *)

(* A key is cut to a multiple of the grain, the greatest one not above it. *)
LEMMA Cut ==
    ASSUME ListingAssumption, NEW k \in Nat
    PROVE  /\ Truncated(k) \in Nat /\ Truncated(k) <= k
           /\ \A j \in Nat : Truncated(k) <= j /\ j <= k => Truncated(j) = Truncated(k)
<1> DEFINE q == k \div Grain
<1>0. Grain \in Nat /\ Grain > 0
  BY DEF ListingAssumption
<1>1. q \in Nat /\ q * Grain <= k /\ k < (q + 1) * Grain
  BY <1>0
<1>2. Truncated(k) = q * Grain
  BY DEF Truncated
<1>3. q * Grain \in Nat
  <2> HIDE DEF q
  <2> QED BY <1>0, <1>1
<1>4. ASSUME NEW j \in Nat, q * Grain <= j, j <= k PROVE j \div Grain = q
  <2>1. j < (q + 1) * Grain
    <3> HIDE DEF q
    <3>1. (q + 1) * Grain \in Nat
      BY <1>0, <1>1
    <3> QED BY <1>1, <1>4, <3>1
  <2> DEFINE o == j \div Grain
  <2>2. o \in Nat /\ o * Grain <= j /\ j < (o + 1) * Grain
    BY <1>0
  <2> HIDE DEF q, o
  <2>3. ~(o < q)
    <3>1. SUFFICES ASSUME o + 1 <= q PROVE FALSE
      BY <1>1, <2>2
    <3>2. (o + 1) * Grain <= q * Grain
      BY <1>0, <1>1, <2>2, <3>1
    <3>3. (o + 1) * Grain \in Nat
      BY <1>0, <2>2
    <3> QED BY <1>3, <1>4, <2>2, <3>2, <3>3
  <2>4. ~(q < o)
    <3>1. SUFFICES ASSUME q + 1 <= o PROVE FALSE
      BY <1>1, <2>2
    <3>2. (q + 1) * Grain <= o * Grain
      BY <1>0, <1>1, <2>2, <3>1
    <3>3. (q + 1) * Grain \in Nat /\ o * Grain \in Nat
      BY <1>0, <1>1, <2>2
    <3> QED BY <2>1, <2>2, <3>2, <3>3
  <2>5. o = q
    BY <1>1, <2>2, <2>3, <2>4
  <2> QED BY <2>5 DEF o
<1> QED BY <1>1, <1>2, <1>3, <1>4 DEF Truncated

(* The cursor of a row is one, with the row's id. *)
LEMMA CursorOfRow ==
    ASSUME ListingAssumption, Typed, NEW r \in Row
    PROVE  /\ encodeCursor(r) \in [key: Nat, id: Nat] /\ encodeCursor(r) # NoCursor /\ encodeCursor(r).id = r
           /\ encodeCursor(r).key = IF list.cursor = "instant" THEN Truncated(table[r].key) ELSE table[r].key
<1>1. r \in Nat /\ r # 0 /\ table[r].key \in Nat
  BY Numbers
<1>2. Truncated(table[r].key) \in Nat
  BY <1>1, Cut
<1> QED BY <1>1, <1>2 DEF encodeCursor, NoCursor

(* What comes after the cursor of a row comes after the row. *)
LEMMA AfterIsBehind ==
    ASSUME ListingAssumption, Typed, NEW l \in Row, NEW r \in Row, After(r, encodeCursor(l))
    PROVE  Before(l, r)
<1> DEFINE k == table[l].key
           m == table[r].key
           c == encodeCursor(l)
<1>1. /\ c # NoCursor /\ c.id = l
      /\ c.key = IF list.cursor = "instant" THEN Truncated(k) ELSE k
  BY CursorOfRow
<1>2. k \in Nat /\ m \in Nat /\ l \in Nat /\ r \in Nat
  BY Numbers
<1>3. Truncated(k) \in Nat /\ Truncated(k) <= k
  BY <1>2, Cut
<1>4. \/ list.cursor = "number" /\ m > c.key
      \/ list.cursor # "number" /\ Precedes(c.key, l, m, r)
  BY <1>1 DEF After
<1>5. Before(l, r) <=> Precedes(k, l, m, r)
  BY DEF Before
<1> HIDE DEF k, m, c
<1> QED BY <1>1, <1>2, <1>3, <1>4, <1>5, Kinds DEF Precedes

(* What comes after a row comes after its cursor, or the cursor has lost it. *)
LEMMA BehindIsAfter ==
    ASSUME ListingAssumption, Typed, NumberKeys, NEW l \in Present, NEW r \in Present, Before(l, r)
    PROVE  \/ After(r, encodeCursor(l))
           \/ /\ list.cursor = "instant" /\ table[l].key # Truncated(table[l].key)
              /\ Truncated(table[r].key) = Truncated(table[l].key)
<1> DEFINE k == table[l].key
           m == table[r].key
           c == encodeCursor(l)
<1>0. l \in Row /\ r \in Row
  BY DEF Present
<1>1. /\ c # NoCursor /\ c.id = l
      /\ c.key = IF list.cursor = "instant" THEN Truncated(k) ELSE k
  BY <1>0, CursorOfRow
<1>2. k \in Nat /\ m \in Nat /\ l \in Nat /\ r \in Nat
  BY <1>0, Numbers
<1>3. Truncated(k) \in Nat /\ Truncated(k) <= k
      /\ (Truncated(k) <= m /\ m <= k => Truncated(m) = Truncated(k))
  BY <1>2, Cut
<1>4. After(r, c) <=> \/ list.cursor = "number" /\ m > c.key
                      \/ list.cursor # "number" /\ Precedes(c.key, l, m, r)
  BY <1>1 DEF After
<1>5. Precedes(k, l, m, r)
  BY DEF Before
<1>6. list.cursor = "number" => l = r \/ k # m
  BY DEF NumberKeys
<1>7. ~Precedes(k, l, k, l)
  BY <1>2 DEF Precedes
<1>8. l # r
  BY <1>5, <1>7
<1> HIDE DEF k, m, c
<1>9. \/ After(r, c)
      \/ list.cursor = "instant" /\ k # Truncated(k) /\ Truncated(m) = Truncated(k)
  BY <1>1, <1>2, <1>3, <1>4, <1>5, <1>6, <1>8, Kinds DEF Precedes
<1> QED BY <1>9 DEF k, m, c

----------------------------------------------------------------------------
(* Pages                                                                   *)

(* A page is asked for some rows, and not for too many. *)
LEMMA LimitIs ==
    ASSUME ListingAssumption, Typed
    PROVE  limit \in Nat /\ 1 <= limit /\ limit <= MAX_PAGE_SIZE
<1>1. /\ first \in Nat /\ DEFAULT_PAGE_SIZE \in Nat \ {0} /\ MAX_PAGE_SIZE \in Nat \ {0}
      /\ DEFAULT_PAGE_SIZE <= MAX_PAGE_SIZE
  BY DEF ListingAssumption, Typed
<1>2. limit = IF first = 0 THEN DEFAULT_PAGE_SIZE ELSE IF first < MAX_PAGE_SIZE THEN first ELSE MAX_PAGE_SIZE
  BY DEF limit, clampPageSize
<1> HIDE DEF limit
<1>3. limit \in Nat \ {0}
  BY <1>1, <1>2
<1>4. limit <= MAX_PAGE_SIZE
  BY <1>1, <1>2
<1> QED BY <1>3, <1>4

(* A page has the first rows of the sorted ones. *)
LEMMA PageIs ==
    ASSUME ListingAssumption, Typed, NEW R \in SUBSET Row, NEW page, page = buildConnection(Sorted(R))
    PROVE  LET n == Cardinality(R) m == IF n > limit THEN limit ELSE n IN
           /\ n \in Nat /\ m \in Nat
           /\ DOMAIN page = {"rows", "hasNext", "endCursor"}
           /\ page.rows \in Seq(R) /\ Len(page.rows) = m
           /\ \A i \in 1 .. m : page.rows[i] = Sorted(R)[i]
           /\ page.hasNext \in BOOLEAN /\ (page.hasNext <=> n > limit)
           /\ page.endCursor = IF page.rows = <<>> THEN NoCursor ELSE encodeCursor(Last(page.rows))
<1> DEFINE n == Cardinality(R)
           m == IF n > limit THEN limit ELSE n
           s == Sorted(R)
<1>1. n \in Nat /\ s \in Seq(R) /\ Len(s) = n /\ s \in [1 .. n -> R]
  BY SortedIs
<1>2. m \in Nat /\ m <= n
  BY <1>1, LimitIs
<1> DEFINE rows == SubSeq(s, 1, m)
<1>3. /\ page.rows = rows /\ page.hasNext \in BOOLEAN /\ (page.hasNext <=> n > limit)
      /\ DOMAIN page = {"rows", "hasNext", "endCursor"}
      /\ page.endCursor = IF rows = <<>> THEN NoCursor ELSE encodeCursor(Last(rows))
  <2>1. page = [rows |-> rows, hasNext |-> Len(s) > limit,
                endCursor |-> IF rows = <<>> THEN NoCursor ELSE encodeCursor(Last(rows))]
    BY <1>1 DEF buildConnection
  <2> DEFINE more == Len(s) > limit
  <2>2. more \in BOOLEAN /\ (more <=> n > limit)
    BY <1>1
  <2> HIDE DEF rows, s, n, more
  <2>3. page.hasNext = more
    BY <2>1 DEF more
  <2> QED BY <2>1, <2>2, <2>3
<1>4. /\ rows \in Seq(R) /\ Len(rows) = m /\ \A i \in 1 .. m : rows[i] = s[i]
  <2>1. \A i \in 1 .. m : s[i] \in R
    <3> HIDE DEF n, m, s
    <3> QED BY <1>1, <1>2
  <2> HIDE DEF n, m, s
  <2>2. /\ rows \in Seq(R) /\ Len(rows) = IF 1 <= m THEN m - 1 + 1 ELSE 0
        /\ \A i \in 1 .. m - 1 + 1 : rows[i] = s[1 + i - 1]
    BY <1>2, <2>1, SubSeqProperties
  <2> HIDE DEF rows
  <2>3. m - 1 + 1 = m /\ (~(1 <= m) => m = 0) /\ \A i \in 1 .. m : 1 + i - 1 = i
    BY <1>2
  <2> QED BY <2>2, <2>3
<1> HIDE DEF rows, s
<1> QED BY <1>1, <1>2, <1>3, <1>4 DEF s

(* A row that is asked for is on the page, or behind its last row. *)
LEMMA PageSplits ==
    ASSUME ListingAssumption, Typed, NEW R \in SUBSET Row, NEW page, page = buildConnection(Sorted(R))
    PROVE  /\ page.rows # <<>> => Last(page.rows) \in R /\ Last(page.rows) \in ToSet(page.rows)
           /\ \A i, j \in DOMAIN page.rows : i < j => Before(page.rows[i], page.rows[j])
           /\ page.hasNext => page.rows # <<>> /\ Len(page.rows) = limit
           /\ Len(page.rows) <= limit
           /\ \A r \in R : \/ r \in ToSet(page.rows)
                           \/ page.hasNext /\ Before(Last(page.rows), r)
<1> DEFINE n == Cardinality(R)
           m == IF n > limit THEN limit ELSE n
           s == Sorted(R)
           rows == page.rows
<1>1. /\ n \in Nat /\ m \in Nat /\ rows \in Seq(R) /\ Len(rows) = m
      /\ \A i \in 1 .. m : rows[i] = s[i]
      /\ page.hasNext = (n > limit)
  BY PageIs
<1>2. /\ \A i, j \in 1 .. n : i < j => Before(s[i], s[j])
      /\ \A r \in R : \E i \in 1 .. n : s[i] = r
  BY SortedIs
<1>3. limit \in Nat /\ 1 <= limit
  BY LimitIs
<1>4. /\ m <= n /\ m <= limit /\ (n > limit => m = limit) /\ (~(n > limit) => m = n)
  BY <1>1, <1>3
<1> HIDE DEF n, m, s, rows
<1>5. DOMAIN rows = 1 .. m /\ ToSet(rows) = {rows[i] : i \in 1 .. m}
  BY <1>1 DEF ToSet
<1>6. ASSUME rows # <<>> PROVE m \in 1 .. m /\ Last(rows) = rows[m] /\ Last(rows) \in R /\ Last(rows) \in ToSet(rows)
  <2>1. m # 0
    BY <1>1, <1>6
  <2> QED BY <1>1, <1>5, <2>1 DEF Last
<1>7. ASSUME page.hasNext PROVE rows # <<>> /\ Len(rows) = limit /\ m < n
  <2>1. n > limit
    BY <1>1, <1>7
  <2>2. m = limit /\ m # 0 /\ m < n
    BY <1>1, <1>3, <1>4, <2>1
  <2> QED BY <1>1, <2>2
<1>8. ASSUME NEW r \in R, r \notin ToSet(rows) PROVE page.hasNext /\ Before(Last(rows), r)
  <2>1. PICK i \in 1 .. n : s[i] = r
    BY <1>2
  <2>2. ~(i <= m)
    <3>1. SUFFICES ASSUME i \in 1 .. m PROVE FALSE
      BY <1>1, <2>1
    <3>2. rows[i] = r
      BY <1>1, <2>1, <3>1
    <3> QED BY <1>5, <1>8, <3>1, <3>2
  <2>3. page.hasNext /\ m \in 1 .. n /\ m < i
    <3>1. m < n
      BY <1>1, <1>4, <2>1, <2>2
    <3>2. n > limit
      BY <1>1, <1>4, <3>1
    <3>3. page.hasNext
      BY <1>1, <3>2
    <3>4. m = limit
      BY <1>4, <3>2
    <3> QED BY <1>1, <1>3, <2>1, <2>2, <3>1, <3>3, <3>4
  <2>4. Last(rows) = s[m]
    BY <1>1, <1>6, <1>7, <2>3
  <2> QED BY <1>2, <2>1, <2>3, <2>4
<1>9. \A i, j \in 1 .. m : i < j => Before(rows[i], rows[j])
  <2>1. \A i \in 1 .. m : i \in 1 .. n
    BY <1>1, <1>4
  <2> QED BY <1>1, <1>2, <2>1
<1> QED BY <1>1, <1>4, <1>5, <1>6, <1>7, <1>8, <1>9 DEF rows

(* Two sorted sequences, the one behind the other, are one. *)
LEMMA Joined ==
    ASSUME ListingAssumption, Typed, NEW s \in Seq(Row), NEW t \in Seq(Row),
           \A i, j \in DOMAIN s : i < j => Before(s[i], s[j]),
           \A i, j \in DOMAIN t : i < j => Before(t[i], t[j]),
           s # <<>> => \A j \in DOMAIN t : Before(Last(s), t[j])
    PROVE  /\ s \o t \in Seq(Row) /\ ToSet(s \o t) = ToSet(s) \cup ToSet(t)
           /\ \A i, j \in DOMAIN (s \o t) : i < j => Before((s \o t)[i], (s \o t)[j])
           /\ t # <<>> => s \o t # <<>> /\ Last(s \o t) = Last(t)
           /\ t = <<>> => s \o t = s
<1> DEFINE u == s \o t
           m == Len(s)
           n == Len(t)
<1>1. /\ u \in Seq(Row) /\ m \in Nat /\ n \in Nat /\ Len(u) = m + n
      /\ \A i \in 1 .. m + n : u[i] = IF i <= m THEN s[i] ELSE t[i - m]
  BY ConcatProperties
<1>2. DOMAIN s = 1 .. m /\ DOMAIN t = 1 .. n /\ DOMAIN u = 1 .. m + n
  BY <1>1
<1>3. /\ \A i \in 1 .. m : s[i] \in Row
      /\ \A i \in 1 .. n : t[i] \in Row
  BY <1>2
<1>4. t = <<>> => u = s
  BY ConcatEmptySeq
<1>5. s # <<>> => Last(s) = s[m] /\ m \in 1 .. m
  BY <1>1 DEF Last
<1> HIDE DEF u, m, n
<1>6. /\ \A i \in 1 .. m : i \in 1 .. m + n /\ u[i] = s[i]
      /\ \A i \in 1 .. n : i + m \in 1 .. m + n /\ u[i + m] = t[i]
      /\ \A i \in 1 .. m + n : i \in 1 .. m \/ i - m \in 1 .. n
      /\ \A i \in 1 .. m + n : i \notin 1 .. m => u[i] = t[i - m]
  <2>1. /\ \A i \in 1 .. m : i \in 1 .. m + n /\ i <= m
        /\ \A i \in 1 .. n : i + m \in 1 .. m + n /\ ~(i + m <= m) /\ i + m - m = i
        /\ \A i \in 1 .. m + n : i \in 1 .. m \/ i - m \in 1 .. n
        /\ \A i \in 1 .. m + n : i \notin 1 .. m => ~(i <= m)
    BY <1>1
  <2> QED BY <1>1, <2>1
<1>7. ToSet(u) = ToSet(s) \cup ToSet(t)
  <2>1. ToSet(u) = {u[i] : i \in 1 .. m + n} /\ ToSet(s) = {s[i] : i \in 1 .. m} /\ ToSet(t) = {t[i] : i \in 1 .. n}
    BY <1>2 DEF ToSet
  <2>2. ToSet(u) \subseteq ToSet(s) \cup ToSet(t)
    BY <1>6, <2>1
  <2>3. ToSet(s) \subseteq ToSet(u) /\ ToSet(t) \subseteq ToSet(u)
    BY <1>6, <2>1
  <2> QED BY <2>2, <2>3
<1>8. ASSUME NEW i \in 1 .. m + n, NEW j \in 1 .. m + n, i < j PROVE Before(u[i], u[j])
  <2>1. CASE j \in 1 .. m
    <3>1. i \in 1 .. m
      BY <1>1, <1>8, <2>1
    <3> QED BY <1>2, <1>6, <1>8, <2>1, <3>1
  <2>2. CASE i \notin 1 .. m
    <3>1. j \notin 1 .. m /\ i - m \in 1 .. n /\ j - m \in 1 .. n /\ i - m < j - m
      BY <1>1, <1>6, <1>8, <2>2
    <3> QED BY <1>2, <1>6, <2>2, <3>1
  <2>3. CASE i \in 1 .. m /\ j \notin 1 .. m
    <3>1. j - m \in 1 .. n /\ u[j] = t[j - m] /\ u[i] = s[i] /\ s # <<>>
      BY <1>1, <1>2, <1>6, <2>3
    <3>2. Before(s[m], u[j]) /\ m \in 1 .. m
      BY <1>2, <1>5, <3>1
    <3>3. i = m \/ Before(s[i], s[m])
      <4>1. i # m => i < m
        BY <1>1, <2>3
      <4> QED BY <1>2, <2>3, <3>2, <4>1
    <3> QED BY <1>3, <2>3, <3>1, <3>2, <3>3, Order
  <2> QED BY <2>1, <2>2, <2>3
<1>9. ASSUME t # <<>> PROVE u # <<>> /\ Last(u) = Last(t)
  <2>1. n \in 1 .. n /\ Last(t) = t[n]
    BY <1>1, <1>2, <1>9 DEF Last, n
  <2>2. n + m = m + n /\ m + n # 0
    BY <1>1, <2>1
  <2>3. u[m + n] = t[n]
    BY <1>6, <2>1, <2>2
  <2> QED BY <1>1, <2>1, <2>2, <2>3 DEF Last
<1> QED BY <1>1, <1>2, <1>4, <1>7, <1>8, <1>9 DEF u

----------------------------------------------------------------------------
(* The steps of a person                                                   *)

Cursor == [key: Nat, id: Nat]
Entry == [filter: Filter, after: Cursor]

(* The ends of a history. *)
LEMMA HistoryEnds ==
    ASSUME NEW S, NEW s \in Seq(S), NEW e \in S
    PROVE  /\ Append(s, e) \in Seq(S) /\ Append(s, e) # <<>> /\ Last(Append(s, e)) = e
           /\ s # <<>> => Last(s) \in S
           /\ s # <<>> => /\ Front(s) \o <<e>> \in Seq(S) /\ Front(s) \o <<e>> # <<>>
                          /\ Last(Front(s) \o <<e>>) = e
           /\ Len(s) > 1 => Front(s) \in Seq(S) /\ Front(s) # <<>>
<1>1. Append(s, e) \in Seq(S) /\ Append(s, e) # <<>> /\ Last(Append(s, e)) = e
  BY AppendProperties DEF Last
<1>2. s # <<>> => Last(s) \in S
  BY DEF Last
<1>3. ASSUME s # <<>> PROVE Front(s) \in Seq(S) /\ Len(Front(s)) = Len(s) - 1
  <2>1. Len(s) \in Nat /\ Len(s) # 0
    BY <1>3
  <2>2. \A i \in 1 .. Len(s) - 1 : s[i] \in S
    BY <2>1
  <2>3. Front(s) = SubSeq(s, 1, Len(s) - 1)
    BY DEF Front
  <2>4. /\ SubSeq(s, 1, Len(s) - 1) \in Seq(S)
        /\ Len(SubSeq(s, 1, Len(s) - 1)) = IF 1 <= Len(s) - 1 THEN Len(s) - 1 - 1 + 1 ELSE 0
    <3> DEFINE k == Len(s) - 1
    <3>1. k \in Int /\ \A i \in 1 .. k : s[i] \in S
      BY <2>1, <2>2
    <3> HIDE DEF k
    <3>2. SubSeq(s, 1, k) \in Seq(S) /\ Len(SubSeq(s, 1, k)) = IF 1 <= k THEN k - 1 + 1 ELSE 0
      BY <3>1, SubSeqProperties
    <3> QED BY <3>2 DEF k
  <2>5. /\ Len(s) - 1 - 1 + 1 = Len(s) - 1
        /\ ~(1 <= Len(s) - 1) => Len(s) - 1 = 0
    <3> DEFINE k == Len(s)
    <3>1. k \in Nat /\ k # 0
      BY <2>1
    <3> HIDE DEF k
    <3>2. k - 1 - 1 + 1 = k - 1 /\ (~(1 <= k - 1) => k - 1 = 0)
      BY <3>1
    <3> QED BY <3>2 DEF k
  <2> QED BY <2>3, <2>4, <2>5
<1>4. ASSUME s # <<>>
      PROVE  /\ Front(s) \o <<e>> \in Seq(S) /\ Front(s) \o <<e>> # <<>> /\ Last(Front(s) \o <<e>>) = e
  <2>1. Front(s) \o <<e>> = Append(Front(s), e)
    BY <1>3, <1>4, AppendIsConcat
  <2>2. Append(Front(s), e) \in Seq(S) /\ Append(Front(s), e) # <<>> /\ Last(Append(Front(s), e)) = e
    BY <1>3, <1>4, AppendProperties DEF Last
  <2> QED BY <2>1, <2>2
<1>5. ASSUME Len(s) > 1 PROVE Front(s) \in Seq(S) /\ Front(s) # <<>>
  <2>1. s # <<>>
    BY <1>5
  <2>2. Len(Front(s)) > 0
    BY <1>3, <1>5, <2>1
  <2> QED BY <1>3, <2>1, <2>2
<1> QED BY <1>1, <1>2, <1>4, <1>5

(* The URL and the page it shows. *)
LEMMA UrlIs ==
    ASSUME Typed
    PROVE  Url \in Entry /\ Url.filter \in Filter /\ Url.after \in Cursor /\ View = slot[Url.filter]
           /\ View.endCursor \in Cursor
<1>1. history \in Seq(Entry) /\ history # <<>>
  BY DEF Typed, Entry, Cursor
<1>2. Url \in Entry
  <2>1. Len(history) \in 1 .. Len(history)
    BY <1>1
  <2> QED BY <1>1, <2>1 DEF Url, Last
<1> QED BY <1>2 DEF Entry, View, Typed, Cursor

(* Nothing of the rows is otherwise when the table is the same. *)
SameTable == UNCHANGED <<list, first, table>>
LEMMA SameRows ==
    ASSUME SameTable
    PROVE  /\ Present' = Present /\ limit' = limit
           /\ \A f : Matching(f)' = Matching(f)
           /\ \A r : encodeCursor(r)' = encodeCursor(r)
           /\ \A r, s : Before(r, s)' = Before(r, s)
           /\ \A r, c : After(r, c)' = After(r, c)
           /\ NumberKeys' = NumberKeys
BY DEF SameTable, Present, limit, clampPageSize, Matching, encodeCursor, Before, Precedes, After,
       NumberKeys, Truncated

PagesTyped ==
  /\ DOMAIN slot = Filter
  /\ \A f \in Filter: DOMAIN slot[f] = {"rows", "hasNext", "endCursor"} /\ slot[f].endCursor \in Cursor

(* The pages that were cached stay what they are. *)
LEMMA PagesStay ==
    ASSUME IInv, SameTable, slot' = slot PROVE PagesTyped' /\ PagesAreWhole'
<1>1. PagesTyped'
  BY DEF PagesTyped, IInv, Typed, Cursor
<1>2. PagesAreWhole'
  BY SameRows DEF IInv, PagesAreWhole
<1> QED BY <1>1, <1>2

(* A walk begins: nothing is seen, and everything comes after no cursor. *)
LEMMA NewWalkKeeps ==
    ASSUME ListingAssumption, IInv, SameTable, slot' = slot, loading' = TRUE,
           history' \in Seq(Entry), history' # <<>>, NEW f \in Filter,
           Last(history') = [filter |-> f, after |-> NoCursor], walk' = NewWalk(f)
    PROVE  IInv'
<1>1. /\ walk'.state = "walking" /\ walk'.seen = <<>> /\ walk'.there = Matching(f) /\ walk'.ends = {}
      /\ DOMAIN walk' = {"state", "seen", "there", "ends"}
  BY DEF NewWalk
<1>2. Url'.filter = f /\ Url'.after = NoCursor
  BY DEF Url
<1>3. Typed'
  <2>1. Matching(f) \subseteq Row
    BY DEF Matching, Present
  <2>2. /\ walk'.seen \in Seq(Row) /\ walk'.there \subseteq Row /\ walk'.ends \subseteq Key
    BY <1>1, <2>1
  <2>3. /\ list' \in {Connections[n]: n \in Lists} /\ first' \in First
        /\ table' \in [Row -> [key: Key \cup {0}, meets: SUBSET Filter]]
    BY DEF Typed, IInv, SameTable
  <2>4. PagesTyped'
    BY PagesStay
  <2> QED BY <1>1, <2>2, <2>3, <2>4 DEF Typed, PagesTyped, Entry, Cursor
<1>4. NumberKeys'
  BY SameRows DEF IInv
<1>5. InOrder'
  BY <1>1 DEF InOrder
<1>6. Walking'
  <2>1. Position' = NoCursor
    BY <1>2 DEF Position
  <2>2. \A r : After(r, NoCursor)'
    BY DEF After, NoCursor
  <2>3. walk'.there \subseteq Matching(f)'
    BY <1>1, SameRows
  <2> QED BY <1>1, <1>2, <2>1, <2>2, <2>3 DEF Walking, Begun
<1>7. PagesAreWhole'
  BY SameRows DEF IInv, PagesAreWhole
<1> QED BY <1>3, <1>4, <1>5, <1>6, <1>7 DEF IInv

(* A walk is over: there is nothing to keep. *)
LEMMA OverKeeps ==
    ASSUME ListingAssumption, IInv, SameTable, PagesTyped', PagesAreWhole', loading' \in BOOLEAN,
           history' \in Seq(Entry), history' # <<>>, NEW why, why # "walking", walk' = Over(why)
    PROVE  IInv'
<1>1. /\ walk'.state = why /\ walk'.seen = <<>> /\ walk'.there = {} /\ walk'.ends = {}
      /\ DOMAIN walk' = {"state", "seen", "there", "ends"}
  BY DEF Over
<1>2. Typed'
  <2>1. /\ walk'.seen \in Seq(Row) /\ walk'.there \subseteq Row /\ walk'.ends \subseteq Key
    BY <1>1
  <2>2. /\ list' \in {Connections[n]: n \in Lists} /\ first' \in First
        /\ table' \in [Row -> [key: Key \cup {0}, meets: SUBSET Filter]]
    BY DEF Typed, IInv, SameTable
  <2> QED BY <1>1, <2>1, <2>2 DEF Typed, PagesTyped, Entry, Cursor
<1>3. NumberKeys'
  BY SameRows DEF IInv
<1>4. InOrder'
  BY <1>1 DEF InOrder
<1>5. Walking'
  BY <1>1 DEF Walking
<1> QED BY <1>2, <1>3, <1>4, <1>5 DEF IInv

(* A filter is chosen, or the walk starts over, or the person goes back. *)
LEMMA StartsKeep ==
    ASSUME ListingAssumption, IInv, (\E f \in Filter : SetFilters(f)) \/ PressReset \/ GoBack
    PROVE  IInv'
<1>1. history \in Seq(Entry) /\ history # <<>> /\ Url.filter \in Filter /\ NoCursor \in Cursor
  BY UrlIs DEF IInv, Typed, Entry, Cursor, NoCursor
<1>2. ASSUME NEW f \in Filter, SetFilters(f) PROVE IInv'
  <2> DEFINE e == [filter |-> f, after |-> NoCursor]
  <2>1. e \in Entry /\ history' = Front(history) \o <<e>>
    BY <1>1, <1>2 DEF SetFilters, Entry
  <2>2. SameTable /\ slot' = slot /\ loading' = TRUE /\ walk' = NewWalk(f)
    BY <1>2 DEF SetFilters, SameTable
  <2>3. history' \in Seq(Entry) /\ history' # <<>> /\ Last(history') = e
    <3> HIDE DEF e
    <3>1. history' = (Front(history) \o <<e>>)
      BY <2>1
    <3>2. history \in Seq(Entry) /\ history # <<>> /\ e \in Entry
      BY <1>1, <2>1
    <3>3. (Front(history) \o <<e>>) \in Seq(Entry) /\ (Front(history) \o <<e>>) # <<>> /\ Last((Front(history) \o <<e>>)) = e
      BY ONLY <3>2, HistoryEnds
    <3> QED BY ONLY <3>1, <3>3
  <2> QED BY <2>2, <2>3, NewWalkKeeps
<1>3. CASE PressReset
  <2> DEFINE e == [filter |-> Url.filter, after |-> NoCursor]
  <2>1. e \in Entry /\ history' = Append(history, e)
    BY <1>1, <1>3 DEF PressReset, Entry
  <2>2. SameTable /\ slot' = slot /\ loading' = TRUE /\ walk' = NewWalk(Url.filter)
    BY <1>3 DEF PressReset, SameTable
  <2>3. history' \in Seq(Entry) /\ history' # <<>> /\ Last(history') = e
    <3> HIDE DEF e
    <3>1. history' = Append(history, e)
      BY <2>1
    <3>2. history \in Seq(Entry) /\ history # <<>> /\ e \in Entry
      BY <1>1, <2>1
    <3>3. Append(history, e) \in Seq(Entry) /\ Append(history, e) # <<>> /\ Last(Append(history, e)) = e
      BY ONLY <3>2, HistoryEnds
    <3> QED BY ONLY <3>1, <3>3
  <2> QED BY <1>1, <2>2, <2>3, NewWalkKeeps
<1>4. CASE GoBack
  <2>1. /\ Len(history) > 1 /\ history' = Front(history) /\ loading' = TRUE /\ walk' = Over("strayed")
        /\ SameTable /\ slot' = slot
    BY <1>4 DEF GoBack, SameTable
  <2>2. Url \in Entry
    BY UrlIs DEF IInv
  <2>3. history' \in Seq(Entry) /\ history' # <<>>
    BY <1>1, <2>1, <2>2, HistoryEnds
  <2>4. PagesTyped' /\ PagesAreWhole'
    BY <2>1, PagesStay
  <2> QED BY <2>1, <2>3, <2>4, OverKeeps
<1> QED BY <1>2, <1>3, <1>4

(* Next is pressed: on the page that was asked for the walk goes on from its *)
(* last row, on a cached one it is over.                                     *)
LEMMA PressNextKeeps ==
    ASSUME ListingAssumption, IInv, PressNext PROVE IInv'
<1> DEFINE e == [filter |-> Url.filter, after |-> View.endCursor]
<1>1. /\ View.hasNext /\ history' = Append(history, e) /\ SameTable /\ slot' = slot
      /\ loading' = (loading \/ View.endCursor # Url.after)
      /\ walk' = IF loading THEN Over("hasty") ELSE walk
  BY DEF PressNext, SameTable
<1>2. /\ history \in Seq(Entry) /\ history # <<>> /\ e \in Entry /\ loading \in BOOLEAN
      /\ loading' \in BOOLEAN
  <2>1. history \in Seq(Entry) /\ history # <<>> /\ loading \in BOOLEAN
    BY DEF IInv, Typed, Entry, Cursor
  <2>2. e \in Entry
    BY UrlIs DEF IInv, Entry, Cursor
  <2>3. loading' \in BOOLEAN
    BY <1>1
  <2> HIDE DEF e
  <2> QED BY <2>1, <2>2, <2>3
<1>3. history' \in Seq(Entry) /\ history' # <<>> /\ Last(history') = e
  <2> HIDE DEF e
  <2>1. history' = Append(history, e)
    BY <1>1
  <2>2. history \in Seq(Entry) /\ history # <<>> /\ e \in Entry
    BY <1>2
  <2>3. /\ Append(history, e) \in Seq(Entry) /\ Append(history, e) # <<>>
        /\ Last(Append(history, e)) = e
    BY ONLY <2>2, HistoryEnds
  <2> QED BY ONLY <2>1, <2>3
<1>4. PagesTyped' /\ PagesAreWhole'
  BY <1>1, PagesStay
<1>5. CASE loading
  BY <1>1, <1>2, <1>3, <1>4, <1>5, OverKeeps
<1>6. CASE ~loading
  <2>1. walk' = walk
    BY <1>1, <1>6
  <2>2. Typed'
    BY <1>1, <1>2, <1>3, <1>4, <2>1 DEF IInv, Typed, SameTable, PagesTyped, Entry, Cursor
  <2>3. NumberKeys' /\ InOrder'
    BY <1>1, <2>1, SameRows DEF IInv, InOrder
  <2>4. Url'.filter = Url.filter /\ Url'.after = View.endCursor
    BY <1>3 DEF Url
  <2>5. Walking'
    <3>1. SUFFICES ASSUME walk.state = "walking" PROVE Walking'
      BY <2>1 DEF Walking
    <3>2. /\ walk.there \subseteq Matching(Url.filter)
          /\ walk.seen # <<>> => table[Last(walk.seen)].key \in walk.ends
          /\ Reached /\ View.endCursor # Url.after
          /\ \A r \in walk.there : Accounted(r) \/ After(r, Position)
      BY <1>1, <1>6, <3>1 DEF IInv, Walking
    <3>3. loading' = TRUE /\ Position = View.endCursor
      BY <1>1, <1>6, <3>2 DEF Position
    <3>4. Position' = Position
      BY <2>4, <3>3 DEF Position
    <3>5. Reached'
      BY <1>1, <2>1, <3>2, <3>4, SameRows DEF Reached
    <3>6. \A r : Accounted(r)' = Accounted(r)
      BY <1>1, <2>1 DEF Accounted, Seen, LostInGrain, SameTable, Truncated
    <3>7. (walk.there \subseteq Matching(Url.filter))'
      <4>1. Matching(Url.filter)' = Matching(Url.filter)
        BY <1>1, <2>4 DEF Matching, Present, SameTable
      <4> QED BY <2>1, <3>2, <4>1
    <3>8. walk'.seen # <<>> => table'[Last(walk'.seen)].key \in walk'.ends
      BY <1>1, <2>1, <3>2 DEF SameTable
    <3>9. \A r \in walk'.there : Accounted(r)' \/ After(r, Position)'
      BY <1>1, <2>1, <3>2, <3>4, <3>6, SameRows
    <3> QED BY <3>3, <3>5, <3>7, <3>8, <3>9 DEF Walking
  <2> QED BY <1>4, <2>2, <2>3, <2>5 DEF IInv
<1> QED BY <1>2, <1>5, <1>6

----------------------------------------------------------------------------
(* Answers                                                                 *)

(* The page that arrives is of rows behind all that was seen. *)
LEMMA AnsweredRows ==
    ASSUME ListingAssumption, IInv, walk.state = "walking", loading,
           NEW R, R = {r \in Matching(Url.filter) : After(r, Url.after)}
    PROVE  /\ R \in SUBSET Row /\ R \subseteq Present
           /\ walk.seen # <<>> => \A r \in R : Before(Last(walk.seen), r)
           /\ Url.after = NoCursor \/ (walk.seen # <<>> /\ Url.after.id = Last(walk.seen))
           /\ walk.seen # <<>> => Last(walk.seen) \in Row /\ Last(walk.seen) \in Seen
<1>1. R \subseteq Present /\ Present \subseteq Row
  BY DEF Matching, Present
<1>2. walk.seen \in Seq(Row)
  BY DEF IInv, Typed
<1>3. ASSUME walk.seen # <<>> PROVE Last(walk.seen) \in Row /\ Last(walk.seen) \in Seen
  <2>1. Len(walk.seen) \in DOMAIN walk.seen
    BY <1>2, <1>3
  <2> QED BY <1>2, <2>1 DEF Last, Seen, ToSet
<1>4. Begun \/ Reached
  BY DEF IInv, Walking
<1>5. Position = Url.after
  BY DEF Position
<1>6. ASSUME walk.seen # <<>> PROVE /\ Url.after.id = Last(walk.seen)
                                    /\ \A r \in R : Before(Last(walk.seen), r)
  <2>1. Url.after = encodeCursor(Last(walk.seen)) /\ Last(walk.seen) \in Row
    BY <1>3, <1>4, <1>5, <1>6 DEF Begun, Reached
  <2> QED BY <1>1, <2>1, AfterIsBehind, CursorOfRow DEF IInv
<1> QED BY <1>1, <1>3, <1>4, <1>5, <1>6 DEF Begun, Reached

(* The answer to a walk goes on from where the walk was. *)
LEMMA AnswerKeeps ==
    ASSUME ListingAssumption, IInv, Answer PROVE IInv'
<1> DEFINE f == Url.filter
           R == {r \in Matching(f) : After(r, Url.after)}
           page == buildConnection(Sorted(R))
<1>1. /\ loading /\ slot' = [slot EXCEPT ![f] = page] /\ loading' = FALSE
      /\ SameTable /\ history' = history
      /\ walk' = IF walk.state # "walking" THEN walk
                 ELSE [walk EXCEPT !.seen = walk.seen \o page.rows,
                                   !.ends = walk.ends \cup {table[r].key: r \in LastRow(page)}]
  BY DEF Answer, SameTable, Answered
<1>2. Typed /\ NumberKeys /\ InOrder /\ Walking /\ PagesAreWhole
  BY DEF IInv
<1>3. /\ Url \in Entry /\ f \in Filter /\ Url' = Url
  BY <1>1, <1>2, UrlIs DEF Url
<1>4. R \in SUBSET Row /\ R \subseteq Present
  BY DEF Matching, Present
<1>5. /\ page.rows \in Seq(R) /\ DOMAIN page = {"rows", "hasNext", "endCursor"} /\ page.hasNext \in BOOLEAN
      /\ page.endCursor = IF page.rows = <<>> THEN NoCursor ELSE encodeCursor(Last(page.rows))
  <2> HIDE DEF R
  <2> QED BY <1>2, <1>4, PageIs
<1>6. /\ page.rows # <<>> => Last(page.rows) \in R /\ Last(page.rows) \in ToSet(page.rows)
      /\ \A i, j \in DOMAIN page.rows : i < j => Before(page.rows[i], page.rows[j])
      /\ page.hasNext => page.rows # <<>> /\ Len(page.rows) = limit
      /\ Len(page.rows) <= limit
      /\ \A r \in R : r \in ToSet(page.rows) \/ (page.hasNext /\ Before(Last(page.rows), r))
  <2> HIDE DEF R
  <2> QED BY <1>2, <1>4, PageSplits
<1>7. /\ limit \in Nat /\ limit <= MAX_PAGE_SIZE /\ limit' = limit
  BY <1>1, <1>2, LimitIs, SameRows
<1>8. page.endCursor \in Cursor
  <2>1. NoCursor \in Cursor
    BY DEF NoCursor, Cursor
  <2>2. page.rows # <<>> => Last(page.rows) \in Row
    BY <1>4, <1>6
  <2> HIDE DEF page
  <2> QED BY <1>2, <1>5, <2>1, <2>2, CursorOfRow DEF Cursor
<1>9. page.rows \in Seq(Row) /\ \A i \in DOMAIN page.rows : page.rows[i] \in R
  <2> HIDE DEF page, R
  <2> QED BY <1>4, <1>5
<1> HIDE DEF page
<1>10. PagesTyped' /\ slot'[f] = page /\ \A g \in Filter \ {f} : slot'[g] = slot[g]
  BY <1>1, <1>2, <1>3, <1>5, <1>8 DEF Typed, PagesTyped, Cursor
<1>11. PagesAreWhole'
  <2>1. ASSUME NEW g \in Filter
        PROVE  Len(slot'[g].rows) <= MAX_PAGE_SIZE /\ (slot'[g].hasNext => Len(slot'[g].rows) = limit)
    <3>1. CASE g = f
      <4>1. Len(page.rows) \in Nat
        BY <1>9
      <4> QED BY <1>6, <1>7, <1>10, <3>1, <4>1 DEF ListingAssumption
    <3>2. CASE g # f
      BY <1>2, <1>10, <2>1, <3>2 DEF PagesAreWhole
    <3> QED BY <3>1, <3>2
  <2> QED BY <1>7, <2>1 DEF PagesAreWhole
<1>12. /\ list' \in {Connections[n]: n \in Lists} /\ first' \in First
       /\ table' \in [Row -> [key: Key \cup {0}, meets: SUBSET Filter]]
       /\ history' \in Seq(Entry) /\ history' # <<>>
  BY <1>1, <1>2 DEF Typed, SameTable, Entry, Cursor
<1>13. NumberKeys'
  BY <1>1, <1>2, SameRows
<1>14. CASE walk.state # "walking"
  <2>1. walk' = walk
    BY <1>1, <1>14
  <2>2. Typed'
    BY <1>1, <1>2, <1>10, <1>12, <2>1 DEF Typed, PagesTyped, Entry, Cursor
  <2>3. InOrder'
    <3>1. Present' = Present /\ \A q, r : Before(q, r)' = Before(q, r)
      BY <1>1, SameRows
    <3> QED BY <1>2, <2>1, <3>1 DEF InOrder
  <2>4. Walking'
    BY <1>14, <2>1 DEF Walking
  <2> QED BY <1>11, <1>13, <2>2, <2>3, <2>4 DEF IInv
<1>15. CASE walk.state = "walking"
  <2> DEFINE s == walk.seen
             t == page.rows
             ends == walk.ends \cup {table[r].key: r \in LastRow(page)}
  <2>1. /\ DOMAIN walk' = {"state", "seen", "there", "ends"} /\ walk'.state = "walking"
        /\ walk'.seen = s \o t /\ walk'.there = walk.there /\ walk'.ends = ends
    BY <1>1, <1>2, <1>15 DEF Typed
  <2>2. /\ s # <<>> => \A r \in R : Before(Last(s), r)
        /\ Url.after = NoCursor \/ (s # <<>> /\ Url.after.id = Last(s))
        /\ s # <<>> => Last(s) \in Row /\ Last(s) \in Seen
    BY <1>1, <1>15, AnsweredRows
  <2>3. s \in Seq(Row) /\ \A i, j \in DOMAIN s : i < j => Before(s[i], s[j])
    BY <1>2 DEF Typed, InOrder
  <2>4. /\ s \o t \in Seq(Row) /\ ToSet(s \o t) = ToSet(s) \cup ToSet(t)
        /\ \A i, j \in DOMAIN (s \o t) : i < j => Before((s \o t)[i], (s \o t)[j])
        /\ t # <<>> => s \o t # <<>> /\ Last(s \o t) = Last(t)
        /\ t = <<>> => s \o t = s
    <3>1. s # <<>> => \A j \in DOMAIN t : Before(Last(s), t[j])
      BY <1>9, <2>2
    <3> HIDE DEF s, t, R
    <3> QED BY <1>2, <1>6, <1>9, <2>3, <3>1, Joined DEF t
  <2>5. LastRow(page) = IF t = <<>> THEN {} ELSE {Last(t)}
    BY DEF LastRow
  <2>6. ends \subseteq Key /\ walk.ends \subseteq ends /\ (t # <<>> => table[Last(t)].key \in ends)
    <3>1. walk.ends \subseteq Key
      BY <1>2 DEF Typed
    <3>2. t # <<>> => table[Last(t)].key \in Key
      BY <1>2, <1>4, <1>6, Numbers
    <3> HIDE DEF R
    <3> QED BY <2>5, <3>1, <3>2
  <2>7. Typed'
    <3>1. walk'.there \subseteq Row
      BY <1>2, <2>1 DEF Typed
    <3> HIDE DEF s, t, ends
    <3> QED BY <1>1, <1>10, <1>12, <2>1, <2>4, <2>6, <3>1 DEF Typed, PagesTyped, Entry, Cursor
  <2>8. InOrder'
    <3>1. ToSet(s) \subseteq Present /\ ToSet(t) \subseteq Present
      <4>1. ToSet(s) = {s[i] : i \in DOMAIN s} /\ ToSet(t) = {t[i] : i \in DOMAIN t}
        BY DEF ToSet
      <4> QED BY <1>2, <1>4, <1>9, <4>1 DEF InOrder
    <3>2. \A i \in DOMAIN (s \o t) : (s \o t)[i] \in ToSet(s \o t)
      BY DEF ToSet
    <3>3. Present' = Present /\ \A q, r : Before(q, r)' = Before(q, r)
      BY <1>1, SameRows
    <3> HIDE DEF s, t
    <3>4. \A i \in DOMAIN (s \o t) : (s \o t)[i] \in Present
      BY <2>4, <3>1, <3>2
    <3> QED BY <2>1, <2>4, <3>3, <3>4 DEF InOrder
  <2>9. /\ walk.there \subseteq Matching(f)
        /\ s # <<>> => table[Last(s)].key \in walk.ends
        /\ \A r \in walk.there : Accounted(r) \/ After(r, Url.after)
    BY <1>1, <1>2, <1>15 DEF Walking, Position
  <2>10. Seen' = ToSet(s) \cup ToSet(t)
    BY <2>1, <2>4 DEF Seen
  <2>11. ASSUME NEW r PROVE Accounted(r) => Accounted(r)'
    BY <1>1, <2>1, <2>6, <2>10 DEF Accounted, Seen, LostInGrain, SameTable, Truncated
  <2>12. View' = page /\ Position' = page.endCursor
    BY <1>1, <1>3, <1>10 DEF View, Position, Url
  <2>13. ASSUME NEW r \in walk.there
         PROVE  Accounted(r)' \/ (page.hasNext /\ After(r, page.endCursor))
    <3>1. CASE Accounted(r)
      BY <2>11, <3>1
    <3>2. CASE r \in R /\ r \in ToSet(t)
      BY <2>10, <3>2 DEF Accounted
    <3>3. CASE r \in R /\ page.hasNext /\ Before(Last(t), r)
      <4>1. /\ t # <<>> /\ Last(t) \in Present /\ r \in Present
            /\ page.endCursor = encodeCursor(Last(t))
        BY <1>4, <1>5, <1>6, <3>3
      <4>2. CASE After(r, encodeCursor(Last(t)))
        BY <3>3, <4>1, <4>2
      <4>3. CASE /\ list.cursor = "instant" /\ table[Last(t)].key # Truncated(table[Last(t)].key)
                 /\ Truncated(table[r].key) = Truncated(table[Last(t)].key)
        <5>1. table[Last(t)].key \in walk'.ends
          BY <2>1, <2>6, <4>1
        <5> HIDE DEF t
        <5>2. LostInGrain(r)'
          BY <1>1, <4>3, <5>1 DEF LostInGrain, SameTable, Truncated
        <5> QED BY <5>2 DEF Accounted
      <4> QED BY <1>2, <3>3, <4>1, <4>2, <4>3, BehindIsAfter
    <3>4. Accounted(r) \/ r \in R
      BY <2>9
    <3> QED BY <1>6, <3>1, <3>2, <3>3, <3>4
  <2>14. ASSUME page.hasNext PROVE Reached' /\ page.endCursor # Url.after
    <3>1. t # <<>> /\ page.endCursor = encodeCursor(Last(t)) /\ Last(t) \in R /\ Last(t) \in Row
      BY <1>4, <1>5, <1>6, <2>14
    <3>2. walk'.seen # <<>> /\ Last(walk'.seen) = Last(t)
      BY <2>1, <2>4, <3>1
    <3>3. Reached'
      <4>1. \A r : encodeCursor(r)' = encodeCursor(r)
        BY <1>1, SameRows
      <4> QED BY <2>12, <3>1, <3>2, <4>1 DEF Reached
    <3>4. encodeCursor(Last(t)) # NoCursor /\ encodeCursor(Last(t)).id = Last(t)
      BY <1>2, <3>1, CursorOfRow
    <3>5. s # <<>> => Last(s) # Last(t)
      BY <1>2, <2>2, <3>1, Order
    <3> HIDE DEF s, t, R
    <3> QED BY <2>2, <3>1, <3>3, <3>4, <3>5
  <2>15. Walking'
    <3>1. (walk.there \subseteq Matching(Url.filter))'
      <4>1. Matching(Url.filter)' = Matching(Url.filter)
        BY <1>1, <1>3 DEF Matching, Present, SameTable, Url
      <4> QED BY <2>1, <2>9, <4>1
    <3>2. (walk.seen # <<>> => table[Last(walk.seen)].key \in walk.ends)'
      <4>1. CASE t = <<>>
        BY <1>1, <2>1, <2>4, <2>6, <2>9, <4>1 DEF SameTable
      <4>2. CASE t # <<>>
        BY <1>1, <2>1, <2>4, <2>6, <4>2 DEF SameTable
      <4> QED BY <4>1, <4>2
    <3>3. (View.hasNext => Reached /\ View.endCursor # Url.after)'
      BY <1>3, <2>12, <2>14
    <3>4. ASSUME NEW r \in walk'.there
          PROVE  Accounted(r)' \/ ((View.hasNext)' /\ After(r, Position)')
      <4>1. After(r, page.endCursor) <=> After(r, Position)'
        BY <1>1, <2>12 DEF After, SameTable, Precedes
      <4> QED BY <2>1, <2>12, <2>13, <4>1
    <3> QED BY <1>1, <3>1, <3>2, <3>3, <3>4 DEF Walking
  <2> QED BY <1>11, <1>13, <2>7, <2>8, <2>15 DEF IInv
<1> QED BY <1>14, <1>15

(* The list refuses the cursor, and the walk is over. *)
LEMMA RefuseKeeps ==
    ASSUME ListingAssumption, IInv, Refuse PROVE IInv'
<1>1. /\ slot' = [slot EXCEPT ![Url.filter] = NoPage] /\ walk' = Over("refused") /\ loading' = FALSE
      /\ SameTable /\ history' = history
  BY DEF Refuse, SameTable
<1>2. /\ DOMAIN NoPage = {"rows", "hasNext", "endCursor"} /\ NoPage.endCursor \in Cursor
      /\ NoPage.rows = <<>> /\ NoPage.hasNext = FALSE
  BY DEF NoPage, NoCursor, Cursor
<1>3. /\ slot'[Url.filter] = NoPage /\ DOMAIN slot' = Filter
      /\ \A g \in Filter \ {Url.filter} : slot'[g] = slot[g]
  BY <1>1, UrlIs DEF IInv, Typed
<1>4. PagesTyped'
  BY <1>2, <1>3 DEF IInv, Typed, PagesTyped, Cursor
<1>5. PagesAreWhole'
  <2>1. Len(<<>>) <= MAX_PAGE_SIZE
    BY DEF ListingAssumption
  <2>2. limit' = limit
    BY <1>1, SameRows
  <2> QED BY <1>2, <1>3, <2>1, <2>2 DEF IInv, PagesAreWhole
<1>6. history' \in Seq(Entry) /\ history' # <<>>
  BY <1>1 DEF IInv, Typed, Entry, Cursor
<1> QED BY <1>1, <1>4, <1>5, <1>6, OverKeeps

----------------------------------------------------------------------------
(* The rows, meanwhile                                                     *)

(* A row comes or changes: no key that was there is another. *)
LEMMA ChangeKeeps ==
    ASSUME ListingAssumption, IInv, NEW r \in Row, NEW f \in Filter,
           (\E k \in Key : Insert(r, k, f)) \/ Update(r, f)
    PROVE  IInv'
<1>0. Typed /\ NumberKeys /\ InOrder /\ Walking /\ PagesAreWhole
  BY DEF IInv
<1>1. PICK to : /\ Change(r, to)
                /\ to \in [key: Key \cup {0}, meets: SUBSET Filter]
                /\ to.key # 0
                /\ table[r].key = 0 \/ to.key = table[r].key
                /\ list.cursor = "number" /\ table[r].key = 0 => \A s \in Present : table[s].key # to.key
  <2>1. ASSUME NEW k \in Key, Insert(r, k, f)
        PROVE  /\ Change(r, [key |-> k, meets |-> {f}])
               /\ [key |-> k, meets |-> {f}] \in [key: Key \cup {0}, meets: SUBSET Filter]
               /\ [key |-> k, meets |-> {f}].key # 0
               /\ table[r].key = 0
               /\ list.cursor = "number" => \A s \in Present : table[s].key # k
    BY <2>1 DEF Insert, ListingAssumption
  <2>2. ASSUME Update(r, f)
        PROVE  /\ Change(r, [table[r] EXCEPT !.meets = {f}])
               /\ [table[r] EXCEPT !.meets = {f}] \in [key: Key \cup {0}, meets: SUBSET Filter]
               /\ [table[r] EXCEPT !.meets = {f}].key = table[r].key
               /\ table[r].key # 0
    <3>1. table[r] \in [key: Key \cup {0}, meets: SUBSET Filter]
      BY <1>0 DEF Typed
    <3> QED BY <2>2, <3>1 DEF Update
  <2>3. CASE \E k \in Key : Insert(r, k, f)
    <3>1. PICK k \in Key : Insert(r, k, f)
      BY <2>3
    <3> DEFINE new == [key |-> k, meets |-> {f}]
    <3>2. new.key = k
      OBVIOUS
    <3> HIDE DEF new
    <3>3. /\ Change(r, new) /\ new \in [key: Key \cup {0}, meets: SUBSET Filter] /\ new.key # 0
          /\ table[r].key = 0 /\ (list.cursor = "number" => \A s \in Present : table[s].key # new.key)
      BY <2>1, <3>1, <3>2 DEF new
    <3> QED BY <3>3
  <2>4. CASE Update(r, f)
    BY <2>2, <2>4
  <2> QED BY <2>3, <2>4
<1>2. /\ table' = [table EXCEPT ![r] = to] /\ walk' = [walk EXCEPT !.there = There(table')]
      /\ list' = list /\ first' = first /\ history' = history /\ slot' = slot /\ loading' = loading
  BY <1>1 DEF Change
<1>3. /\ table' \in [Row -> [key: Key \cup {0}, meets: SUBSET Filter]]
      /\ table'[r] = to /\ \A s \in Row \ {r} : table'[s] = table[s]
  BY <1>0, <1>1, <1>2 DEF Typed
<1>4. ASSUME NEW s \in Present PROVE s \in Row /\ s \in Present' /\ table'[s].key = table[s].key
  BY <1>1, <1>3 DEF Present
<1>5. /\ DOMAIN walk' = {"state", "seen", "there", "ends"} /\ walk'.state = walk.state
      /\ walk'.seen = walk.seen /\ walk'.ends = walk.ends /\ walk'.there = There(table')
  BY <1>0, <1>2 DEF Typed
<1>6. /\ walk'.there \subseteq walk.there
      /\ \A s \in walk'.there : table'[s].key # 0 /\ Url.filter \in table'[s].meets
  BY <1>5 DEF There
<1>7. /\ Url' = Url /\ View' = View /\ Position' = Position /\ limit' = limit
  BY <1>2 DEF Url, View, Position, limit, clampPageSize
<1>8. Typed'
  <2>1. walk'.there \subseteq Row
    BY <1>0, <1>6 DEF Typed
  <2> QED BY <1>0, <1>2, <1>3, <1>5, <2>1 DEF Typed
<1>9. NumberKeys'
  <2>1. SUFFICES ASSUME list.cursor = "number", NEW p \in Present', NEW q \in Present', p # q
                 PROVE  table'[p].key # table'[q].key
    BY <1>2 DEF NumberKeys
  <2>2. p \in Row /\ q \in Row /\ (p # r => p \in Present) /\ (q # r => q \in Present)
    BY <1>3 DEF Present
  <2>3. CASE table[r].key = 0
    <3>1. r \notin Present /\ \A s \in Present : table[s].key # to.key
      BY <1>1, <2>1, <2>3 DEF Present
    <3>2. CASE p = r
      BY <1>3, <1>4, <2>1, <2>2, <3>1, <3>2
    <3>3. CASE q = r
      BY <1>3, <1>4, <2>1, <2>2, <3>1, <3>3
    <3>4. CASE p # r /\ q # r
      BY <1>0, <1>4, <2>1, <2>2, <3>4 DEF NumberKeys
    <3> QED BY <3>2, <3>3, <3>4
  <2>4. CASE table[r].key # 0
    <3>1. p \in Present /\ q \in Present
      BY <2>2, <2>4 DEF Present
    <3> QED BY <1>0, <1>4, <2>1, <3>1 DEF NumberKeys
  <2> QED BY <2>3, <2>4
<1>10. ASSUME NEW p \in Present, NEW q \in Present PROVE Before(p, q)' = Before(p, q)
  BY <1>2, <1>4 DEF Before, Precedes
<1>11. InOrder'
  <2>1. \A i \in DOMAIN walk.seen : walk.seen[i] \in Present
    BY <1>0 DEF InOrder
  <2> QED BY <1>0, <1>4, <1>5, <1>10, <2>1 DEF InOrder
<1>12. PagesAreWhole'
  BY <1>0, <1>2, <1>7 DEF PagesAreWhole
<1>13. ASSUME walk.state = "walking" PROVE Walking'
  <2>1. /\ walk.there \subseteq Matching(Url.filter)
        /\ walk.seen # <<>> => table[Last(walk.seen)].key \in walk.ends
        /\ loading => Begun \/ Reached
        /\ ~loading /\ View.hasNext => Reached /\ View.endCursor # Url.after
        /\ \A s \in walk.there :
             Accounted(s) \/ ((loading \/ View.hasNext) /\ After(s, Position))
    BY <1>0, <1>13 DEF Walking
  <2>2. (walk.there \subseteq Matching(Url.filter))'
    <3>1. \A s \in walk'.there : s \in Row
      BY <1>0, <1>6 DEF Typed
    <3> QED BY <1>6, <1>7, <3>1 DEF Matching, Present
  <2>3. ASSUME walk.seen # <<>> PROVE Last(walk.seen) \in Present
    <3>1. Len(walk.seen) \in DOMAIN walk.seen
      BY <1>0, <2>3 DEF Typed
    <3> QED BY <1>0, <3>1 DEF InOrder, Last
  <2>4. (walk.seen # <<>> => table[Last(walk.seen)].key \in walk.ends)'
    BY <1>4, <1>5, <2>1, <2>3
  <2>5. ASSUME NEW s \in Present PROVE encodeCursor(s)' = encodeCursor(s)
    BY <1>2, <1>4, <2>5 DEF encodeCursor, Truncated
  <2>6. (Begun => Begun') /\ (Reached => Reached')
    <3>1. Begun => Begun'
      BY <1>5, <1>7 DEF Begun
    <3>2. ASSUME Reached PROVE Reached'
      <4>1. walk.seen # <<>> /\ Position = encodeCursor(Last(walk.seen))
        BY <3>2 DEF Reached
      <4>2. encodeCursor(Last(walk.seen))' = encodeCursor(Last(walk.seen))
        BY <1>2, <1>4, <1>5, <2>3, <4>1 DEF encodeCursor, Truncated
      <4> QED BY <1>5, <1>7, <4>1, <4>2 DEF Reached
    <3> QED BY <3>1, <3>2
  <2>7. ASSUME NEW s \in walk'.there
        PROVE  Accounted(s)' \/ ((loading \/ View.hasNext)' /\ After(s, Position)')
    <3>1. s \in walk.there /\ s \in Present /\ table'[s].key = table[s].key
      BY <1>4, <1>6, <2>1, <2>7 DEF Matching
    <3>2. Accounted(s) => Accounted(s)'
      BY <1>2, <1>5, <3>1 DEF Accounted, Seen, LostInGrain, Truncated
    <3>3. After(s, Position) => After(s, Position)'
      BY <1>2, <1>7, <3>1 DEF After, Precedes
    <3>4. (loading \/ View.hasNext) => (loading \/ View.hasNext)'
      BY <1>2, <1>7
    <3> QED BY <2>1, <3>1, <3>2, <3>3, <3>4
  <2> QED BY <1>2, <1>7, <2>1, <2>2, <2>4, <2>6, <2>7 DEF Walking
<1>14. Walking'
  <2>1. walk.state # "walking" => Walking'
    BY <1>5 DEF Walking
  <2> QED BY <1>13, <2>1
<1> QED BY <1>8, <1>9, <1>11, <1>12, <1>14 DEF IInv

(* A walk begins with the page. *)
LEMMA InitKeeps ==
    ASSUME ListingAssumption, Init PROVE IInv
<1> DEFINE f == CHOOSE g \in Filter : TRUE
           e == [filter |-> f, after |-> NoCursor]
<1>1. /\ list \in {Connections[n]: n \in Lists} /\ first \in First
      /\ table \in [Row -> [key: Key, meets: {Filter}] \cup {[key |-> 0, meets |-> {}]}]
      /\ NumberKeys
      /\ history = <<e>> /\ walk = NewWalk(f)
      /\ slot = [g \in Filter |-> NoPage] /\ loading = TRUE
  BY DEF Init, NumberKeys
<1>2. f \in Filter
  BY DEF ListingAssumption
<1>3. /\ NoCursor \in Cursor /\ e \in Entry
  BY <1>2 DEF NoCursor, Cursor, Entry
<1>4. /\ DOMAIN NoPage = {"rows", "hasNext", "endCursor"} /\ NoPage.endCursor \in Cursor
      /\ NoPage.rows = <<>> /\ NoPage.hasNext = FALSE
  BY <1>3 DEF NoPage
<1>5. history \in Seq(Entry) /\ history # <<>> /\ Url = e
  <2> HIDE DEF e
  <2> QED BY <1>1, <1>3 DEF Url, Last
<1>6. /\ walk.state = "walking" /\ walk.seen = <<>> /\ walk.there = Matching(f) /\ walk.ends = {}
      /\ DOMAIN walk = {"state", "seen", "there", "ends"}
  BY <1>1 DEF NewWalk
<1>7. Typed
  <2>1. table \in [Row -> [key: Key \cup {0}, meets: SUBSET Filter]]
    <3>1. [key: Key, meets: {Filter}] \subseteq [key: Key \cup {0}, meets: SUBSET Filter]
      OBVIOUS
    <3>2. [key |-> 0, meets |-> {}] \in [key: Key \cup {0}, meets: SUBSET Filter]
      OBVIOUS
    <3> QED BY <1>1, <3>1, <3>2
  <2>2. /\ walk.seen \in Seq(Row) /\ walk.there \subseteq Row /\ walk.ends \subseteq Key
    BY <1>6 DEF Matching, Present
  <2>3. /\ DOMAIN slot = Filter
        /\ \A g \in Filter: DOMAIN slot[g] = {"rows", "hasNext", "endCursor"} /\ slot[g].endCursor \in Cursor
    BY <1>1, <1>4
  <2> QED BY <1>1, <1>5, <1>6, <2>1, <2>2, <2>3 DEF Typed, Entry, Cursor
<1>8. InOrder
  BY <1>6 DEF InOrder
<1>9. Walking
  <2>1. Position = NoCursor /\ Url.filter = f
    BY <1>1, <1>5 DEF Position
  <2>2. \A r : After(r, NoCursor)
    BY DEF After
  <2> HIDE DEF e, f
  <2> QED BY <1>1, <1>6, <2>1, <2>2 DEF Walking, Begun
<1>10. PagesAreWhole
  <2>1. Len(<<>>) <= MAX_PAGE_SIZE
    BY DEF ListingAssumption
  <2> QED BY <1>1, <1>4, <2>1 DEF PagesAreWhole
<1> QED BY <1>1, <1>7, <1>8, <1>9, <1>10 DEF IInv

(* Nothing happens. *)
LEMMA Stutters ==
    ASSUME IInv, UNCHANGED vars PROVE IInv'
<1>1. SameTable /\ history' = history /\ slot' = slot /\ loading' = loading /\ walk' = walk
  BY DEF vars, SameTable
<1>2. Typed' /\ PagesAreWhole'
  BY <1>1, PagesStay DEF IInv, Typed, SameTable
<1>3. NumberKeys' /\ InOrder'
  <2>1. Present' = Present /\ (\A q, r : Before(q, r)' = Before(q, r)) /\ NumberKeys' = NumberKeys
    BY <1>1, SameRows
  <2> QED BY <1>1, <2>1 DEF IInv, InOrder
<1>4. Walking'
  BY <1>1 DEF IInv, Walking, SameTable, Begun, Reached, Accounted, Seen, LostInGrain, After, Precedes,
              Position, Url, View, Matching, Present, encodeCursor, Truncated
<1> QED BY <1>2, <1>3, <1>4 DEF IInv

(* Who walks to the last page of a list sees every row that was there all      *)
(* along and still is, whatever came or changed meanwhile, but for those that  *)
(* the cursor, cut to milliseconds, has lost (api common/pagination.ts);       *)
(* nothing is listed twice, and no page is larger than may be asked for.       *)
THEOREM WalksSeeAll == ListingAssumption => (Spec => []WalkSeesAll)
<1> SUFFICES ASSUME ListingAssumption PROVE Spec => []WalkSeesAll
  OBVIOUS
<1>1. Init => IInv
  BY InitKeeps
<1>2. IInv /\ [Next]_vars => IInv'
  <2>1. ASSUME IInv, Next PROVE IInv'
    BY <2>1, StartsKeep, PressNextKeeps, AnswerKeeps, RefuseKeeps, ChangeKeeps DEF Next
  <2> QED BY <2>1, Stutters
<1>3. IInv => WalkSeesAll
  <2>1. ASSUME IInv PROVE SeesWhatStayed
    BY <2>1 DEF IInv, Walking, SeesWhatStayed, AtTheEnd, Accounted, Seen
  <2>2. ASSUME IInv PROVE NothingTwice
    <3>1. ASSUME NEW i \in DOMAIN walk.seen, NEW j \in DOMAIN walk.seen, walk.seen[i] = walk.seen[j],
                 i < j
          PROVE  FALSE
      BY <2>2, <3>1, Order DEF IInv, InOrder, Present
    <3>2. DOMAIN walk.seen \subseteq Int
      BY <2>2 DEF IInv, Typed
    <3> QED BY <3>1, <3>2 DEF NothingTwice
  <2> QED BY <2>1, <2>2 DEF WalkSeesAll, IInv
<1> QED BY <1>1, <1>2, <1>3, PTL DEF Spec

----------------------------------------------------------------------------
(***************************************************************************)
(* CsvRows: the rows of an import.  The result is a recursive function of  *)
(* the data rows; that there is one, and what it keeps from row to row, is *)
(* shown of the least row where it would not be so.                        *)
(***************************************************************************)

(* CsvRows counts as this module does. *)
LEMMA SameCsv == \A X: Csv!Cardinality(X) = Cardinality(X)
<1>1. ASSUME NEW X PROVE Csv!Cardinality(X) = Cardinality(X)
  BY DEF Csv!Cardinality, Cardinality
<1> QED BY <1>1

(* The rows that are not blank, up to a row. *)
IsNonEmptyTo(g, lines, k) ==
  g = [n \in 0 .. k |->
         IF n = 0 THEN <<>>
         ELSE IF Csv!IsBlank(lines[n]) THEN g[n - 1] ELSE Append(g[n - 1], lines[n])]

(* There is such a list. *)
LEMMA NonEmptyExists ==
  ASSUME NEW lines, NEW k \in Nat
  PROVE  \E g: IsNonEmptyTo(g, lines, k)
<1> DEFINE T == {m \in Nat: ~ \E g: IsNonEmptyTo(g, lines, m)}
<1>1. SUFFICES ASSUME T # {} PROVE FALSE
  OBVIOUS
<1>2. PICK m \in T: \A l \in T: m <= l
  <2>1. T \subseteq Nat
    OBVIOUS
  <2> HIDE DEF T
  <2> QED BY <1>1, <2>1, LeastNat
<1>3. m \in Nat /\ ~ \E g: IsNonEmptyTo(g, lines, m)
  OBVIOUS
<1>4. m # 0
  <2>1. [n \in 0 .. 0 |-> <<>>] = [n \in 0 .. 0 |->
          IF n = 0 THEN <<>>
          ELSE IF Csv!IsBlank(lines[n]) THEN [i \in 0 .. 0 |-> <<>>][n - 1]
               ELSE Append([i \in 0 .. 0 |-> <<>>][n - 1], lines[n])]
    OBVIOUS
  <2>2. IsNonEmptyTo([n \in 0 .. 0 |-> <<>>], lines, 0)
    BY <2>1 DEF IsNonEmptyTo
  <2> QED BY <1>3, <2>2
<1>5. PICK g: IsNonEmptyTo(g, lines, m - 1)
  <2>1. m - 1 \in Nat /\ m - 1 < m
    BY <1>3, <1>4
  <2>2. m - 1 \notin T
    BY <1>2, <2>1
  <2> QED BY <2>1, <2>2
<1> DEFINE next == IF Csv!IsBlank(lines[m]) THEN g[m - 1] ELSE Append(g[m - 1], lines[m])
           h == [n \in 0 .. m |-> IF n = m THEN next ELSE g[n]]
<1>6. \A n \in 0 .. (m - 1):
        g[n] = IF n = 0 THEN <<>>
               ELSE IF Csv!IsBlank(lines[n]) THEN g[n - 1] ELSE Append(g[n - 1], lines[n])
  BY <1>5 DEF IsNonEmptyTo
<1>7. \A n \in 0 .. (m - 1): h[n] = g[n]
  BY <1>3, <1>4
<1>8. h[m] = next
  BY <1>3
<1>9. \A n \in 0 .. m:
        h[n] = IF n = 0 THEN <<>>
               ELSE IF Csv!IsBlank(lines[n]) THEN h[n - 1] ELSE Append(h[n - 1], lines[n])
  <2>1. SUFFICES ASSUME NEW n \in 0 .. m
                 PROVE h[n] = IF n = 0 THEN <<>>
                              ELSE IF Csv!IsBlank(lines[n]) THEN h[n - 1]
                                   ELSE Append(h[n - 1], lines[n])
    OBVIOUS
  <2> HIDE DEF h
  <2>2. CASE n = m
    <3>1. h[n - 1] = g[m - 1]
      BY <1>3, <1>4, <1>7, <2>2
    <3> QED BY <1>4, <1>8, <2>2, <3>1
  <2>3. CASE n # m
    <3>1. n \in 0 .. (m - 1)
      BY <1>3, <2>1, <2>3
    <3>2. n # 0 => n - 1 \in 0 .. (m - 1)
      BY <3>1
    <3> QED BY <1>6, <1>7, <3>1, <3>2
  <2> QED BY <2>2, <2>3
<1>10. IsNonEmptyTo(h, lines, m)
  <2>1. h = [n \in 0 .. m |-> h[n]]
    OBVIOUS
  <2> HIDE DEF h
  <2> QED BY <1>9, <2>1 DEF IsNonEmptyTo
<1> QED BY <1>3, <1>10

(* What is left of some rows without the blank ones are rows. *)
LEMMA NonEmptyAreRows ==
  ASSUME NEW Line, NEW lines \in Seq(Line)
  PROVE  Csv!NonEmpty(lines) \in Seq(Line)
<1> DEFINE g == CHOOSE f: IsNonEmptyTo(f, lines, Len(lines))
<1>1. Len(lines) \in Nat /\ \A n \in 1 .. Len(lines): lines[n] \in Line
  OBVIOUS
<1>2. IsNonEmptyTo(g, lines, Len(lines))
  BY <1>1, NonEmptyExists
<1>3. Csv!NonEmpty(lines) = g[Len(lines)]
  BY DEF Csv!NonEmpty, IsNonEmptyTo
<1> HIDE DEF g
<1>4. \A n \in 0 .. Len(lines):
        g[n] = IF n = 0 THEN <<>>
               ELSE IF Csv!IsBlank(lines[n]) THEN g[n - 1] ELSE Append(g[n - 1], lines[n])
  BY <1>2 DEF IsNonEmptyTo
<1> DEFINE T == {n \in 0 .. Len(lines): g[n] \notin Seq(Line)}
<1>5. T = {}
  <2>1. SUFFICES ASSUME T # {} PROVE FALSE
    OBVIOUS
  <2>2. PICK n \in T: \A m \in T: n <= m
    <3>1. T \subseteq Nat
      BY <1>1
    <3> HIDE DEF T
    <3> QED BY <2>1, <3>1, LeastNat
  <2>3. n \in 0 .. Len(lines) /\ g[n] \notin Seq(Line)
    OBVIOUS
  <2>4. n # 0
    <3>1. <<>> \in Seq(Line)
      OBVIOUS
    <3>2. n = 0 => g[n] = <<>>
      BY <1>4, <2>3
    <3> HIDE DEF T
    <3> QED BY <2>3, <3>1, <3>2
  <2>5. g[n - 1] \in Seq(Line)
    <3>1. n - 1 \notin T /\ n - 1 \in 0 .. Len(lines)
      BY <1>1, <2>2, <2>3, <2>4
    <3> QED BY <3>1
  <2>6. lines[n] \in Line
    BY <1>1, <2>3, <2>4
  <2> HIDE DEF T
  <2>7. Append(g[n - 1], lines[n]) \in Seq(Line)
    BY <2>5, <2>6
  <2>8. g[n] = g[n - 1] \/ g[n] = Append(g[n - 1], lines[n])
    BY <1>4, <2>3, <2>4
  <2> QED BY <2>3, <2>5, <2>7, <2>8
<1>6. Len(lines) \in 0 .. Len(lines)
  BY <1>1
<1> QED BY <1>3, <1>5, <1>6

(* The result over the data rows up to one. *)
Start == [rows |-> <<>>, errors |-> {}, total |-> Len(Csv!DataRows)]
IsReadTo(g, k) ==
  g = [n \in 0 .. k |-> IF n = 0 THEN Start ELSE Csv!AddRow(g[n - 1], n)]

(* There is such a result. *)
LEMMA ReadExists ==
  ASSUME NEW k \in Nat
  PROVE  \E g: IsReadTo(g, k)
<1> DEFINE T == {m \in Nat: ~ \E g: IsReadTo(g, m)}
<1>1. SUFFICES ASSUME T # {} PROVE FALSE
  OBVIOUS
<1>2. PICK m \in T: \A l \in T: m <= l
  <2>1. T \subseteq Nat
    OBVIOUS
  <2> HIDE DEF T
  <2> QED BY <1>1, <2>1, LeastNat
<1>3. m \in Nat /\ ~ \E g: IsReadTo(g, m)
  OBVIOUS
<1>4. m # 0
  <2>1. [n \in 0 .. 0 |-> Start] = [n \in 0 .. 0 |->
          IF n = 0 THEN Start ELSE Csv!AddRow([i \in 0 .. 0 |-> Start][n - 1], n)]
    OBVIOUS
  <2>2. IsReadTo([n \in 0 .. 0 |-> Start], 0)
    BY <2>1 DEF IsReadTo
  <2> QED BY <1>3, <2>2
<1>5. PICK g: IsReadTo(g, m - 1)
  <2>1. m - 1 \in Nat /\ m - 1 < m
    BY <1>3, <1>4
  <2>2. m - 1 \notin T
    BY <1>2, <2>1
  <2> QED BY <2>1, <2>2
<1> DEFINE next == Csv!AddRow(g[m - 1], m)
           h == [n \in 0 .. m |-> IF n = m THEN next ELSE g[n]]
<1>6. \A n \in 0 .. (m - 1):
        g[n] = IF n = 0 THEN Start ELSE Csv!AddRow(g[n - 1], n)
  BY <1>5 DEF IsReadTo
<1>7. \A n \in 0 .. (m - 1): h[n] = g[n]
  BY <1>3, <1>4
<1>8. h[m] = next
  BY <1>3
<1>9. \A n \in 0 .. m:
        h[n] = IF n = 0 THEN Start ELSE Csv!AddRow(h[n - 1], n)
  <2>1. SUFFICES ASSUME NEW n \in 0 .. m
                 PROVE h[n] = IF n = 0 THEN Start ELSE Csv!AddRow(h[n - 1], n)
    OBVIOUS
  <2> HIDE DEF h
  <2>2. CASE n = m
    <3>1. h[n - 1] = g[m - 1]
      BY <1>3, <1>4, <1>7, <2>2
    <3> QED BY <1>4, <1>8, <2>2, <3>1
  <2>3. CASE n # m
    <3>1. n \in 0 .. (m - 1)
      BY <1>3, <2>1, <2>3
    <3>2. n # 0 => n - 1 \in 0 .. (m - 1)
      BY <3>1
    <3> QED BY <1>6, <1>7, <3>1, <3>2
  <2> QED BY <2>2, <2>3
<1>10. IsReadTo(h, m)
  <2>1. h = [n \in 0 .. m |-> h[n]]
    OBVIOUS
  <2> HIDE DEF h
  <2> QED BY <1>9, <2>1 DEF IsReadTo
<1> QED BY <1>3, <1>10

(* What has been read up to a data row: every row so far is kept or has    *)
(* an error, the ids kept differ, and a duplicate names a row above.       *)
KeptRows == {Csv!Kept(Csv!DataRows[m], m): m \in 1 .. Len(Csv!DataRows)}
ReadFits(r, n) ==
  /\ r = [rows |-> r.rows, errors |-> r.errors, total |-> Len(Csv!DataRows)]
  /\ r.rows \in Seq(KeptRows)
  /\ \A i \in 1 .. Len(r.rows): r.rows[i].number \in 1 .. n
  /\ \A i, j \in 1 .. Len(r.rows):
       r.rows[i].number = r.rows[j].number \/ r.rows[i].id = r.rows[j].id => i = j
  /\ \A m \in 1 .. n: (\E i \in 1 .. Len(r.rows): r.rows[i].number = m)
                        <=> ~ \E e \in r.errors: e[1] = m
  /\ \A e \in r.errors: e[1] \in 1 .. n
  /\ \A e \in r.errors: Len(e) = 3 =>
       /\ e[3] < e[1]
       /\ \E i \in 1 .. Len(r.rows): /\ r.rows[i].number = e[3]
                                     /\ r.rows[i].id = Csv!Cell(Csv!DataRows[e[1]], 1)

(* A row kept keeps its number and its id. *)
LEMMA KeptIs ==
  ASSUME NEW row, NEW n
  PROVE  Csv!Kept(row, n).number = n /\ Csv!Kept(row, n).id = Csv!Cell(row, 1)
BY DEF Csv!Kept

(* A result with other errors, and one with other rows. *)
LEMMA RecordChanges ==
  ASSUME NEW r, NEW m, r = [rows |-> r.rows, errors |-> r.errors, total |-> m], NEW x
  PROVE  /\ [r EXCEPT !.errors = x] = [rows |-> r.rows, errors |-> x, total |-> m]
         /\ [r EXCEPT !.rows = x] = [rows |-> x, errors |-> r.errors, total |-> m]
OBVIOUS

(* Reading one more row keeps all of this. *)
LEMMA AddRowFits ==
  ASSUME NEW r, Len(Csv!DataRows) \in Nat, NEW n \in 1 .. Len(Csv!DataRows),
         ReadFits(r, n - 1)
  PROVE  ReadFits(Csv!AddRow(r, n), n)
<1> DEFINE row == Csv!DataRows[n]
           error == Csv!RowError(row)
           id == Csv!Cell(row, 1)
           earlier == Csv!FirstSeen(r.rows, id)
           k == Len(r.rows)
           s == Csv!AddRow(r, n)
<1>1. /\ r = [rows |-> r.rows, errors |-> r.errors, total |-> Len(Csv!DataRows)]
      /\ r.rows \in Seq(KeptRows) /\ k \in Nat /\ n \in Nat
      /\ \A i \in 1 .. k: r.rows[i].number \in 1 .. (n - 1)
      /\ \A i, j \in 1 .. k:
           r.rows[i].number = r.rows[j].number \/ r.rows[i].id = r.rows[j].id => i = j
      /\ \A m \in 1 .. (n - 1): (\E i \in 1 .. k: r.rows[i].number = m)
                                  <=> ~ \E e \in r.errors: e[1] = m
      /\ \A e \in r.errors: e[1] \in 1 .. (n - 1)
      /\ \A e \in r.errors: Len(e) = 3 =>
           /\ e[3] < e[1]
           /\ \E i \in 1 .. k: /\ r.rows[i].number = e[3]
                               /\ r.rows[i].id = Csv!Cell(Csv!DataRows[e[1]], 1)
  BY DEF ReadFits
<1>2. earlier = {r.rows[i]: i \in {j \in 1 .. k: r.rows[j].id = id}}
  <2>1. DOMAIN r.rows = 1 .. k
    BY <1>1
  <2> QED BY <2>1 DEF Csv!FirstSeen, Csv!ToSet
<1>3. s = IF error # "none" THEN [r EXCEPT !.errors = @ \cup {<<n, error>>}]
          ELSE IF earlier # {}
          THEN [r EXCEPT !.errors =
                  @ \cup {<<n, "DUPLICATE_EXTERNAL_ID_IN_FILE", f.number>>: f \in earlier}]
          ELSE [r EXCEPT !.rows = Append(@, Csv!Kept(row, n))]
  BY DEF Csv!AddRow
<1> HIDE DEF error, earlier, k, s
<1>4. ASSUME NEW new, s = [r EXCEPT !.errors = @ \cup new], new # {},
             \A e \in new: e[1] = n,
             \A e \in new: Len(e) = 3 =>
               \E i \in 1 .. k: r.rows[i].number = e[3] /\ r.rows[i].id = id
      PROVE  ReadFits(s, n)
  <2>1. s.rows = r.rows /\ s.errors = r.errors \cup new
        /\ s = [rows |-> s.rows, errors |-> s.errors, total |-> Len(Csv!DataRows)]
    <3>1. s = [rows |-> r.rows, errors |-> r.errors \cup new, total |-> Len(Csv!DataRows)]
      <4>1. r = [rows |-> r.rows, errors |-> r.errors, total |-> Len(Csv!DataRows)]
        BY <1>1
      <4>2. [r EXCEPT !.errors = r.errors \cup new]
              = [rows |-> r.rows, errors |-> r.errors \cup new, total |-> Len(Csv!DataRows)]
        BY ONLY <4>1, RecordChanges
      <4> QED BY <1>4, <4>2
    <3> HIDE DEF s
    <3> QED BY <3>1
  <2>2. \A i \in 1 .. k: r.rows[i].number \in 1 .. n /\ r.rows[i].number # n
    BY <1>1
  <2>3. \A m \in 1 .. n: (\E i \in 1 .. k: r.rows[i].number = m)
                            <=> ~ \E e \in s.errors: e[1] = m
    <3>1. SUFFICES ASSUME NEW m \in 1 .. n
                   PROVE (\E i \in 1 .. k: r.rows[i].number = m)
                            <=> ~ \E e \in s.errors: e[1] = m
      OBVIOUS
    <3>2. CASE m = n
      BY <1>4, <2>1, <2>2, <3>2
    <3>3. CASE m # n
      <4>1. m \in 1 .. (n - 1)
        BY <1>1, <3>3
      <4>2. (\E e \in s.errors: e[1] = m) <=> \E e \in r.errors: e[1] = m
        BY <1>4, <2>1, <3>3
      <4> QED BY <1>1, <4>1, <4>2
    <3> QED BY <3>2, <3>3
  <2>4. \A e \in s.errors: e[1] \in 1 .. n
    BY <1>1, <1>4, <2>1
  <2>5. ASSUME NEW e \in s.errors, Len(e) = 3
        PROVE  /\ e[3] < e[1]
               /\ \E i \in 1 .. k: /\ r.rows[i].number = e[3]
                                   /\ r.rows[i].id = Csv!Cell(Csv!DataRows[e[1]], 1)
    <3>1. CASE e \in r.errors
      BY <1>1, <2>5, <3>1
    <3>2. CASE e \in new
      BY <1>1, <1>4, <2>5, <3>2
    <3> QED BY <2>1, <2>5, <3>1, <3>2
  <2> QED BY <1>1, <2>1, <2>2, <2>3, <2>4, <2>5 DEF ReadFits, k
<1>5. CASE error # "none"
  <2> DEFINE new == {<<n, error>>}
  <2>1. s = [r EXCEPT !.errors = @ \cup new]
    BY <1>3, <1>5
  <2>2. \A e \in new: e[1] = n /\ Len(e) = 2
    OBVIOUS
  <2>3. new # {}
    OBVIOUS
  <2> HIDE DEF new, id
  <2>4. /\ \A e \in new: e[1] = n
        /\ \A e \in new: Len(e) = 3 =>
               \E i \in 1 .. k: r.rows[i].number = e[3] /\ r.rows[i].id = id
    BY <2>2
  <2> QED BY <1>4, <2>1, <2>3, <2>4 DEF s
<1>6. CASE error = "none" /\ earlier # {}
  <2> DEFINE new == {<<n, "DUPLICATE_EXTERNAL_ID_IN_FILE", f.number>>: f \in earlier}
  <2>1. s = [r EXCEPT !.errors = @ \cup new]
    BY <1>3, <1>6
  <2>2. new # {} /\ \A e \in new: e[1] = n
    <3>1. PICK f: f \in earlier
      BY <1>6
    <3>2. <<n, "DUPLICATE_EXTERNAL_ID_IN_FILE", f.number>> \in new
      BY <3>1
    <3>3. \A f1 \in earlier: <<n, "DUPLICATE_EXTERNAL_ID_IN_FILE", f1.number>>[1] = n
      OBVIOUS
    <3> QED BY <3>2, <3>3
  <2>3. \A e \in new: \E i \in 1 .. k: r.rows[i].number = e[3] /\ r.rows[i].id = id
    BY <1>2
  <2> HIDE DEF new, id
  <2> QED BY <1>4, <2>1, <2>2, <2>3 DEF s
<1>7. CASE error = "none" /\ earlier = {}
  <2> DEFINE kept == Csv!Kept(row, n)
  <2>1. /\ s = [r EXCEPT !.rows = Append(@, kept)]
        /\ kept \in KeptRows /\ kept.number = n /\ kept.id = id
    BY <1>3, <1>7, KeptIs DEF KeptRows
  <2> HIDE DEF kept
  <2>2. /\ s.rows = Append(r.rows, kept) /\ s.errors = r.errors
        /\ s = [rows |-> s.rows, errors |-> s.errors, total |-> Len(Csv!DataRows)]
    <3>1. s = [rows |-> Append(r.rows, kept), errors |-> r.errors, total |-> Len(Csv!DataRows)]
      <4>1. r = [rows |-> r.rows, errors |-> r.errors, total |-> Len(Csv!DataRows)]
        BY <1>1
      <4>2. [r EXCEPT !.rows = Append(r.rows, kept)]
              = [rows |-> Append(r.rows, kept), errors |-> r.errors, total |-> Len(Csv!DataRows)]
        BY ONLY <4>1, RecordChanges
      <4> QED BY <2>1, <4>2
    <3> HIDE DEF s
    <3> QED BY <3>1
  <2>3. /\ s.rows \in Seq(KeptRows) /\ Len(s.rows) = k + 1
        /\ \A i \in 1 .. k: s.rows[i] = r.rows[i]
        /\ s.rows[k + 1] = kept
    BY <1>1, <2>1, <2>2 DEF k
  <2>4. \A i \in 1 .. k: r.rows[i].number # n /\ r.rows[i].id # id
    <3> HIDE DEF id
    <3>1. \A i \in 1 .. k: r.rows[i].id = id => r.rows[i] \in earlier
      BY <1>2
    <3>2. \A i \in 1 .. k: r.rows[i].number # n
      BY <1>1
    <3> QED BY <1>7, <3>1, <3>2
  <2>5. \A i \in 1 .. k + 1: s.rows[i].number \in 1 .. n
    BY <1>1, <2>1, <2>3
  <2>6. \A i, j \in 1 .. k + 1:
          s.rows[i].number = s.rows[j].number \/ s.rows[i].id = s.rows[j].id => i = j
    <3>1. SUFFICES ASSUME NEW i \in 1 .. k + 1, NEW j \in 1 .. k + 1,
                          s.rows[i].number = s.rows[j].number \/ s.rows[i].id = s.rows[j].id
                   PROVE i = j
      OBVIOUS
    <3>2. (i \in 1 .. k \/ i = k + 1) /\ (j \in 1 .. k \/ j = k + 1)
      BY <1>1
    <3> HIDE DEF id
    <3> QED BY <1>1, <2>1, <2>3, <2>4, <3>1, <3>2
  <2>7. \A m \in 1 .. n: (\E i \in 1 .. k + 1: s.rows[i].number = m)
                            <=> ~ \E e \in s.errors: e[1] = m
    <3>1. SUFFICES ASSUME NEW m \in 1 .. n
                   PROVE (\E i \in 1 .. k + 1: s.rows[i].number = m)
                            <=> ~ \E e \in s.errors: e[1] = m
      OBVIOUS
    <3>2. CASE m = n
      <4>1. \E i \in 1 .. k + 1: s.rows[i].number = m
        <5>1. k + 1 \in 1 .. k + 1
          BY <1>1
        <5> QED BY <2>1, <2>3, <3>2, <5>1
      <4>2. \A e \in s.errors: e[1] # m
        BY <1>1, <2>2, <3>2
      <4> QED BY <4>1, <4>2
    <3>3. CASE m # n
      <4>1. m \in 1 .. (n - 1)
        BY <1>1, <3>3
      <4>2. (\E i \in 1 .. k + 1: s.rows[i].number = m)
              <=> \E i \in 1 .. k: r.rows[i].number = m
        <5>1. \A i \in 1 .. k + 1: i \in 1 .. k \/ i = k + 1
          BY <1>1
        <5>2. \A i \in 1 .. k: i \in 1 .. k + 1
          BY <1>1
        <5> QED BY <2>1, <2>3, <3>3, <5>1, <5>2
      <4> QED BY <1>1, <2>2, <4>1, <4>2
    <3> QED BY <3>2, <3>3
  <2>8. \A e \in s.errors: e[1] \in 1 .. n
    BY <1>1, <2>2
  <2>9. ASSUME NEW e \in s.errors, Len(e) = 3
        PROVE  /\ e[3] < e[1]
               /\ \E i \in 1 .. k + 1: /\ s.rows[i].number = e[3]
                                       /\ s.rows[i].id = Csv!Cell(Csv!DataRows[e[1]], 1)
    <3>1. /\ e[3] < e[1]
          /\ \E i \in 1 .. k: /\ r.rows[i].number = e[3]
                              /\ r.rows[i].id = Csv!Cell(Csv!DataRows[e[1]], 1)
      BY <1>1, <2>2, <2>9
    <3>2. \A i \in 1 .. k: i \in 1 .. k + 1
      BY <1>1
    <3> QED BY <2>3, <3>1, <3>2
  <2> QED BY <2>2, <2>3, <2>5, <2>6, <2>7, <2>8, <2>9 DEF ReadFits, s
<1> QED BY <1>5, <1>6, <1>7 DEF s

(* The result over all data rows fits them. *)
LEMMA DataReadFits ==
  ASSUME Len(Csv!DataRows) \in Nat
  PROVE  ReadFits(Csv!DataRead, Len(Csv!DataRows))
<1> DEFINE L == Len(Csv!DataRows)
           g == CHOOSE f: IsReadTo(f, L)
<1>1. IsReadTo(g, L)
  BY ReadExists
<1>2. Csv!DataRead = g[L]
  BY DEF Csv!DataRead, IsReadTo, Start
<1> HIDE DEF g
<1>3. \A n \in 0 .. L: g[n] = IF n = 0 THEN Start ELSE Csv!AddRow(g[n - 1], n)
  BY <1>1 DEF IsReadTo
<1> DEFINE T == {n \in 0 .. L: ~ ReadFits(g[n], n)}
<1>4. T = {}
  <2>1. SUFFICES ASSUME T # {} PROVE FALSE
    OBVIOUS
  <2>2. PICK n \in T: \A m \in T: n <= m
    <3>1. T \subseteq Nat
      OBVIOUS
    <3> HIDE DEF T
    <3> QED BY <2>1, <3>1, LeastNat
  <2>3. n \in 0 .. L /\ ~ ReadFits(g[n], n)
    OBVIOUS
  <2>4. n # 0
    <3>1. ReadFits(Start, 0)
      <4>1. <<>> \in Seq(KeptRows) /\ Len(<<>>) = 0 /\ 1 .. 0 = {}
        OBVIOUS
      <4>2. /\ Start.rows = <<>> /\ Start.errors = {}
            /\ Start = [rows |-> Start.rows, errors |-> Start.errors, total |-> L]
        BY DEF Start
      <4> HIDE DEF L
      <4> QED BY <4>1, <4>2 DEF ReadFits, L
    <3>2. n = 0 => g[n] = Start
      BY <1>3, <2>3
    <3> HIDE DEF T
    <3> QED BY <2>3, <3>1, <3>2
  <2>5. ReadFits(g[n - 1], n - 1)
    <3>1. n - 1 \in 0 .. L /\ n - 1 < n
      BY <2>3, <2>4
    <3>2. n - 1 \notin T
      BY <2>2, <3>1
    <3> QED BY <3>1, <3>2
  <2>6. n \in 1 .. L /\ g[n] = Csv!AddRow(g[n - 1], n)
    BY <1>3, <2>3, <2>4
  <2>7. ReadFits(Csv!AddRow(g[n - 1], n), n)
    BY <2>5, <2>6, AddRowFits
  <2> QED BY <2>3, <2>6, <2>7
<1>5. L \in 0 .. L
  OBVIOUS
<1>6. ReadFits(g[L], L)
  BY <1>4, <1>5
<1> QED BY <1>2, <1>6

(* As many values as indexes, when they differ. *)
LEMMA DistinctValues ==
  ASSUME NEW f, NEW k \in Nat, \A i, j \in 1 .. k: f[i] = f[j] => i = j
  PROVE  Cardinality({f[i]: i \in 1 .. k}) = k
<1> DEFINE V == {f[i]: i \in 1 .. k}
           g == [i \in 1 .. k |-> f[i]]
<1>1. IsFiniteSet(1 .. k) /\ Cardinality(1 .. k) = k
  <2>1. IsFiniteSet(1 .. k) /\ Cardinality(1 .. k) = IF 1 > k THEN 0 ELSE k - 1 + 1
    BY FS_Interval
  <2> QED BY <2>1
<1>2. g \in Surjection(1 .. k, V)
  BY DEF Surjection
<1>3. g \in Injection(1 .. k, V)
  BY DEF Injection, IsInjective
<1> HIDE DEF g, V
<1>4. Cardinality(V) = Cardinality(1 .. k)
  BY <1>1, <1>2, <1>3, FS_Surjection
<1> QED BY <1>1, <1>4 DEF V

(* What the reading keeps: the text read is made of characters, and a      *)
(* result is that of the text as it was read to its end.                   *)
Text == Seq(STRING)
Scans == [at: Nat \ {0}, row: Seq(Text), field: Text, inQuotes: BOOLEAN,
          wasQuoted: BOOLEAN, rows: Seq(Seq(Text)), done: BOOLEAN]
ScanTyped == file \in Files /\ scan \in Scans
CsvInv ==
  /\ ScanTyped
  /\ result # Csv!Unread => scan.done /\ result = Csv!Parsed

(* A file that is read whole accounts for each of its rows. *)
LEMMA EachRowFollows == CsvInv => Csv!EachRowOnce
<1>1. SUFFICES ASSUME CsvInv, result # Csv!Unread, ~ Csv!FileLevel PROVE Csv!EachRowOnce
  BY DEF Csv!EachRowOnce
<1>2. result = Csv!Parsed /\ scan.rows \in Seq(Seq(Text))
  BY <1>1 DEF CsvInv, ScanTyped, Scans
<1>3. Csv!NonEmpty(scan.rows) # <<>> /\ result = Csv!DataRead
  <2>1. \A code: result # Csv!Fails(code)
    <3>1. SUFFICES ASSUME NEW code, result = Csv!Fails(code) PROVE FALSE
      OBVIOUS
    <3>2. <<0, code>> \in result.errors /\ <<0, code>>[1] = 0
      BY <3>1 DEF Csv!Fails
    <3> QED BY <1>1, <3>2 DEF Csv!FileLevel
  <2> QED BY <1>2, <2>1 DEF Csv!Parsed
<1>4. Csv!NonEmpty(scan.rows) \in Seq(Seq(Text))
  BY <1>2, NonEmptyAreRows
<1> DEFINE L == Len(Csv!DataRows)
           k == Len(result.rows)
           kept == {r.number: r \in Csv!ToSet(result.rows)}
           wrong == {e[1]: e \in result.errors}
<1>5. L \in Nat
  <2>1. Tail(Csv!NonEmpty(scan.rows)) \in Seq(Seq(Text))
    BY <1>3, <1>4
  <2> QED BY <2>1 DEF Csv!DataRows
<1>6. ReadFits(result, L)
  BY <1>3, <1>5, DataReadFits
<1>7. /\ result.total = L
      /\ result.rows \in Seq(KeptRows) /\ k \in Nat
      /\ \A i \in 1 .. k: result.rows[i].number \in 1 .. L
      /\ \A i, j \in 1 .. k:
           result.rows[i].number = result.rows[j].number \/ result.rows[i].id = result.rows[j].id
           => i = j
      /\ \A m \in 1 .. L: (\E i \in 1 .. k: result.rows[i].number = m)
                            <=> ~ \E e \in result.errors: e[1] = m
      /\ \A e \in result.errors: e[1] \in 1 .. L
      /\ \A e \in result.errors: Len(e) = 3 =>
           /\ e[3] < e[1]
           /\ \E i \in 1 .. k: /\ result.rows[i].number = e[3]
                               /\ result.rows[i].id = Csv!Cell(Csv!DataRows[e[1]], 1)
  BY <1>6 DEF ReadFits
<1>8. Csv!ToSet(result.rows) = {result.rows[i]: i \in 1 .. k}
  <2>1. DOMAIN result.rows = 1 .. k
    BY <1>7
  <2> QED BY <2>1 DEF Csv!ToSet
<1> HIDE DEF k
<1>9. kept \cup wrong = 1 .. L /\ kept \cap wrong = {}
  <2>1. \A m: m \in kept <=> \E i \in 1 .. k: result.rows[i].number = m
    BY <1>8
  <2>2. \A m: m \in wrong <=> \E e \in result.errors: e[1] = m
    OBVIOUS
  <2>3. kept \subseteq 1 .. L /\ wrong \subseteq 1 .. L
    <3> HIDE DEF kept, wrong, L
    <3> QED BY <1>7, <2>1, <2>2
  <2> HIDE DEF kept, wrong, L
  <2> QED BY <1>7, <2>1, <2>2, <2>3
<1> DEFINE ids == [i \in 1 .. k |-> result.rows[i].id]
           numbers == [i \in 1 .. k |-> result.rows[i].number]
<1>10. Csv!Cardinality({r.id: r \in Csv!ToSet(result.rows)}) = Len(result.rows)
  <2>1. {r.id: r \in Csv!ToSet(result.rows)} = {ids[i]: i \in 1 .. k}
    BY <1>8
  <2>2. \A i, j \in 1 .. k: ids[i] = ids[j] => i = j
    <3> HIDE DEF kept, wrong, L
    <3>1. \A i \in 1 .. k: ids[i] = result.rows[i].id
      OBVIOUS
    <3> HIDE DEF ids
    <3> QED BY <1>7, <3>1
  <2> HIDE DEF ids, kept, wrong, L
  <2>3. k \in Nat
    BY <1>7
  <2>4. Cardinality({ids[i]: i \in 1 .. k}) = k
    BY ONLY <2>2, <2>3, DistinctValues
  <2> QED BY <2>1, <2>4, SameCsv DEF k
<1>11. Csv!Valid(result) => Len(result.rows) = L
  <2>1. SUFFICES ASSUME result.errors = {} PROVE k = L
    BY DEF Csv!Valid, k
  <2>2. kept = {numbers[i]: i \in 1 .. k}
    BY <1>8
  <2>3. \A i, j \in 1 .. k: numbers[i] = numbers[j] => i = j
    <3> HIDE DEF kept, wrong, L
    <3>1. \A i \in 1 .. k: numbers[i] = result.rows[i].number
      OBVIOUS
    <3> HIDE DEF numbers
    <3> QED BY <1>7, <3>1
  <2>4. kept = 1 .. L
    BY <1>9, <2>1
  <2> HIDE DEF numbers, kept, L
  <2>5. Cardinality(1 .. L) = k
    <3>1. k \in Nat
      BY <1>7
    <3>2. Cardinality({numbers[i]: i \in 1 .. k}) = k
      BY ONLY <2>3, <3>1, DistinctValues
    <3> QED BY <2>2, <2>4, <3>2
  <2>6. Cardinality(1 .. L) = IF 1 > L THEN 0 ELSE L - 1 + 1
    BY <1>5, FS_Interval
  <2> QED BY <1>5, <2>5, <2>6
<1>12. \A e \in result.errors: Len(e) = 3 =>
         /\ e[3] < e[1]
         /\ \E r \in Csv!ToSet(result.rows): /\ r.number = e[3]
                                             /\ r.id = Csv!Cell(Csv!DataRows[e[1]], 1)
  <2> HIDE DEF kept, wrong, L
  <2>1. SUFFICES ASSUME NEW e \in result.errors, Len(e) = 3
                 PROVE /\ e[3] < e[1]
                       /\ \E r \in Csv!ToSet(result.rows):
                            r.number = e[3] /\ r.id = Csv!Cell(Csv!DataRows[e[1]], 1)
    OBVIOUS
  <2>2. /\ e[3] < e[1]
        /\ \E i \in 1 .. k: /\ result.rows[i].number = e[3]
                            /\ result.rows[i].id = Csv!Cell(Csv!DataRows[e[1]], 1)
    BY <1>7, <2>1
  <2>3. \A i \in 1 .. k: result.rows[i] \in Csv!ToSet(result.rows)
    BY <1>8
  <2> QED BY <2>2, <2>3
<1> HIDE DEF kept, wrong, L
<1> QED BY <1>7, <1>9, <1>10, <1>11, <1>12 DEF Csv!EachRowOnce, kept, wrong

(* Reading is over once there is a result. *)
LEMMA ParsedStays == scan' = scan => Csv!Parsed' = Csv!Parsed
<1>1. SUFFICES ASSUME scan' = scan PROVE Csv!Parsed' = Csv!Parsed
  OBVIOUS
<1>2. Csv!DataRows' = Csv!DataRows
  BY <1>1 DEF Csv!DataRows
<1>3. Csv!HeaderRow' = Csv!HeaderRow
  BY <1>1 DEF Csv!HeaderRow
<1>4. Csv!HeaderValid' = Csv!HeaderValid
  BY <1>3 DEF Csv!HeaderValid
<1>5. \A r, i: Csv!Cell(r, i)' = Csv!Cell(r, i)
  BY <1>3 DEF Csv!Cell
<1>6. \A r: Csv!RowError(r)' = Csv!RowError(r)
  BY <1>3, <1>5 DEF Csv!RowError
<1>7. \A r, n: Csv!Kept(r, n)' = Csv!Kept(r, n)
  BY <1>5 DEF Csv!Kept
<1>8. \A r, n: Csv!AddRow(r, n)' = Csv!AddRow(r, n)
  BY <1>2, <1>5, <1>6, <1>7 DEF Csv!AddRow
<1>9. Csv!DataRead' = Csv!DataRead
  BY <1>2, <1>8 DEF Csv!DataRead
<1> QED BY <1>1, <1>2, <1>4, <1>9 DEF Csv!Parsed

(* A character read is one of the text. *)
LEMMA HereIsText ==
  ASSUME Csv!CsvAssumption, ScanTyped, Csv!Reading
  PROVE  Csv!Here \in STRING
<1>1. file.text \in Seq(STRING)
  BY DEF Csv!CsvAssumption, ScanTyped
<1>2. Len(file.text) \in Nat /\ \A i \in 1 .. Len(file.text): file.text[i] \in STRING
  BY <1>1
<1>3. scan.at \in Nat \ {0} /\ scan.at <= Len(file.text)
  BY DEF ScanTyped, Scans, Csv!Reading
<1> QED BY <1>2, <1>3 DEF Csv!Here

(* A scan changed in one of its parts. *)
LEMMA ScanChanges ==
  ASSUME NEW s \in Scans
  PROVE  /\ \A n \in Nat \ {0}: [s EXCEPT !.at = n] \in Scans
         /\ \A f \in Text: [s EXCEPT !.field = f] \in Scans
         /\ \A b \in BOOLEAN: /\ [s EXCEPT !.inQuotes = b] \in Scans
                              /\ [s EXCEPT !.inQuotes = b, !.wasQuoted = b] \in Scans
         /\ \A r \in Seq(Text), f \in Text, b \in BOOLEAN:
              [s EXCEPT !.row = r, !.field = f, !.wasQuoted = b] \in Scans
         /\ \A t \in Seq(Seq(Text)), r \in Seq(Text), f \in Text, b \in BOOLEAN:
              [s EXCEPT !.rows = t, !.row = r, !.field = f, !.wasQuoted = b] \in Scans
         /\ [s EXCEPT !.done = TRUE] \in Scans
BY DEF Scans

(* Every step keeps the scan typed. *)
LEMMA ScanKeeps ==
  Csv!CsvAssumption /\ ScanTyped /\ Csv!Scan => ScanTyped' /\ result' = result /\ ~ scan.done
<1>0. SUFFICES ASSUME Csv!CsvAssumption, ScanTyped, Csv!Scan
               PROVE  ScanTyped' /\ result' = result /\ ~ scan.done
  OBVIOUS
<1>1. /\ file \in Files /\ scan \in Scans
      /\ scan.at \in Nat \ {0} /\ scan.row \in Seq(Text) /\ scan.field \in Text
      /\ scan.rows \in Seq(Seq(Text))
  BY <1>0 DEF ScanTyped, Scans
<1>2. <<>> \in Text /\ <<>> \in Seq(Text)
  BY DEF Text
<1>3. Csv!Reading => Csv!AddToField \in Scans
  <2>1. SUFFICES ASSUME Csv!Reading PROVE Csv!AddToField \in Scans
    OBVIOUS
  <2>2. Append(scan.field, Csv!Here) \in Text
    <3>1. \A K: \A f \in Seq(K), c \in K: Append(f, c) \in Seq(K)
      OBVIOUS
    <3>2. Csv!Here \in STRING
      BY <1>0, <2>1, HereIsText
    <3>3. scan.field \in Seq(STRING)
      BY <1>1 DEF Text
    <3>4. Append(scan.field, Csv!Here) \in Seq(STRING)
      BY ONLY <3>1, <3>2, <3>3
    <3> QED BY <3>4 DEF Text
  <2> QED BY <1>1, <2>2, ScanChanges DEF Csv!AddToField
<1>4. Append(scan.row, scan.field) \in Seq(Text)
  BY <1>1
<1>5. Csv!EndOfRow \in Scans
  <2>1. Append(scan.rows, Append(scan.row, scan.field)) \in Seq(Seq(Text))
    BY <1>1, <1>4
  <2> QED BY <1>1, <1>2, <2>1, ScanChanges DEF Csv!EndOfRow
<1>6. ASSUME NEW new \in Scans, NEW steps \in {1, 2}, Csv!Move(steps, new), Csv!Reading
      PROVE  ScanTyped' /\ result' = result /\ ~ scan.done
  <2>1. scan.at + steps \in Nat \ {0}
    BY <1>1
  <2>2. scan' \in Scans /\ file' = file /\ result' = result
    BY <1>6, <2>1, ScanChanges DEF Csv!Move
  <2> QED BY <1>1, <1>6, <2>2 DEF ScanTyped, Scans, Csv!Reading
<1>7. CASE Csv!EscapedQuote
  BY <1>3, <1>6, <1>7 DEF Csv!EscapedQuote
<1>8. CASE Csv!CloseQuote
  <2>1. [scan EXCEPT !.inQuotes = FALSE] \in Scans
    BY <1>1, ScanChanges
  <2> QED BY <1>6, <1>8, <2>1 DEF Csv!CloseQuote
<1>9. CASE Csv!QuotedCharacter
  BY <1>3, <1>6, <1>9 DEF Csv!QuotedCharacter
<1>10. CASE Csv!OpenQuote
  <2>1. [scan EXCEPT !.inQuotes = TRUE, !.wasQuoted = TRUE] \in Scans
    BY <1>1, ScanChanges
  <2> QED BY <1>6, <1>10, <2>1 DEF Csv!OpenQuote
<1>11. CASE Csv!Comma
  <2>1. [scan EXCEPT !.row = Append(scan.row, scan.field), !.field = <<>>, !.wasQuoted = FALSE]
          \in Scans
    BY <1>1, <1>2, <1>4, ScanChanges
  <2> QED BY <1>6, <1>11, <2>1 DEF Csv!Comma
<1>12. CASE Csv!Break
  BY <1>5, <1>6, <1>12 DEF Csv!Break
<1>13. CASE Csv!PlainCharacter
  BY <1>3, <1>6, <1>13 DEF Csv!PlainCharacter
<1>14. CASE Csv!EndOfText
  <2>1. \A s \in Scans: [s EXCEPT !.done = TRUE] \in Scans
    BY ScanChanges
  <2>2. scan' \in Scans /\ file' = file /\ result' = result /\ ~ scan.done
    BY <1>1, <1>5, <1>14, <2>1 DEF Csv!EndOfText
  <2> QED BY <1>1, <2>2 DEF ScanTyped
<1> QED BY <1>0, <1>7, <1>8, <1>9, <1>10, <1>11, <1>12, <1>13, <1>14 DEF Csv!Scan

(* Every step keeps the invariant. *)
LEMMA CsvStepKeeps == Csv!CsvAssumption /\ CsvInv /\ [Csv!Next]_Csv!vars => CsvInv'
<1>1. SUFFICES ASSUME Csv!CsvAssumption, CsvInv, [Csv!Next]_Csv!vars PROVE CsvInv'
  OBVIOUS
<1>2. CASE Csv!Scan
  <2>1. ScanTyped' /\ result' = result /\ ~ scan.done
    BY <1>1, <1>2, ScanKeeps DEF CsvInv
  <2>2. result = Csv!Unread
    BY <1>1, <2>1 DEF CsvInv
  <2> QED BY <2>1, <2>2 DEF CsvInv, Csv!Unread
<1>3. CASE Csv!Parse
  <2>1. scan' = scan /\ file' = file /\ scan.done /\ result' = Csv!Parsed
    BY <1>3 DEF Csv!Parse
  <2>2. Csv!Parsed' = Csv!Parsed
    BY <2>1, ParsedStays
  <2> QED BY <1>1, <2>1, <2>2 DEF CsvInv, ScanTyped
<1>4. CASE UNCHANGED Csv!vars
  <2>1. scan' = scan /\ file' = file /\ result' = result
    BY <1>4 DEF Csv!vars
  <2>2. Csv!Parsed' = Csv!Parsed
    BY <2>1, ParsedStays
  <2> QED BY <1>1, <2>1, <2>2 DEF CsvInv, ScanTyped, Csv!Unread
<1> QED BY <1>1, <1>2, <1>3, <1>4 DEF Csv!Next

(* Reading starts with nothing read. *)
LEMMA CsvStarts == Csv!Init => CsvInv
<1>1. SUFFICES ASSUME Csv!Init PROVE CsvInv
  OBVIOUS
<1>2. <<>> \in Seq(Text) /\ <<>> \in Text /\ <<>> \in Seq(Seq(Text))
  BY DEF Text
<1> QED BY <1>1, <1>2 DEF Csv!Init, Csv!Begun, CsvInv, ScanTyped, Scans

(* Whatever the text of an import is and however many rows it has: of a    *)
(* file whose header is right every row that is not blank is kept or has   *)
(* an error, never both, no id is kept twice, a duplicate names a row kept *)
(* above it with that id, and a valid file is kept whole (parseImportCsv). *)
THEOREM RowsEndOnce == Csv!CsvAssumption => (Csv!Spec => []Csv!EachRowOnce)
<1> SUFFICES ASSUME Csv!CsvAssumption PROVE Csv!Spec => []Csv!EachRowOnce
  OBVIOUS
<1>1. Csv!Init => CsvInv
  BY CsvStarts
<1>2. CsvInv /\ [Csv!Next]_Csv!vars => CsvInv'
  BY CsvStepKeeps
<1>3. CsvInv => Csv!EachRowOnce
  BY EachRowFollows
<1> QED BY <1>1, <1>2, <1>3, PTL DEF Csv!Spec
=============================================================================
