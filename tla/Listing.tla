------------------------------ MODULE Listing -------------------------------
(***************************************************************************)
(* Walking a list page by page (api common/pagination.ts, the connection   *)
(* resolvers, the filters in the URL and the cache of the web client).     *)
(*                                                                         *)
(* Rows come and change while a person presses Next.  A sort key is a      *)
(* number, finer by Grain than what a cursor keeps of an instant.          *)
(***************************************************************************)
EXTENDS Naturals, FiniteSets, SequencesExt

CONSTANTS
    Row,            \* ids, as numbers: the tie-breaker of every sort
    Key,            \* sort keys
    Grain,          \* keys that a cursor of an instant cannot tell apart
    Filter,         \* what the URL may ask for
    DEFAULT_PAGE_SIZE, MAX_PAGE_SIZE,
    First,          \* the page sizes a client may ask for, 0 is none
    Lists,          \* the names of those a run looks at
    MaxTouched, MaxVisits   \* bounds

\* list: which one; first: the page size asked for; table: [row -> its key and
\* the filters it meets]; history: the URLs visited, last the current one;
\* slot: the cached page of each filter; loading: an answer is awaited;
\* walk: what a person has seen since the first page.
VARIABLES list, first, table, history, slot, loading, walk, touched
vars == <<list, first, table, history, slot, loading, walk, touched>>

----------------------------------------------------------------------------
(* The lists: the order of the sort, and what the cursor makes of the key. *)

exceptions     == [order |-> "desc", cursor |-> "instant"]
imports        == [order |-> "desc", cursor |-> "instant"]
listEntries    == [order |-> "desc", cursor |-> "instant"]
auditEvents    == [order |-> "desc", cursor |-> "instant"]
\* The key is a date, and the cursor is made of an instant: the next page's
\* query cannot read it as a date.
receivables    == [order |-> "desc", cursor |-> "unreadable"]
transactions   == [order |-> "desc", cursor |-> "unreadable"]
listProperties == [order |-> "asc",  cursor |-> "exact"]
listUnits      == [order |-> "asc",  cursor |-> "exact"]
importRows     == [order |-> "asc",  cursor |-> "number"]

Connections ==
  [exceptions |-> exceptions, imports |-> imports, listEntries |-> listEntries,
   auditEvents |-> auditEvents, receivables |-> receivables, transactions |-> transactions,
   listProperties |-> listProperties, listUnits |-> listUnits, importRows |-> importRows]

ListingAssumption ==
  /\ IsFiniteSet(Row) /\ Row \subseteq Nat \ {0} /\ Key \subseteq Nat \ {0} /\ Grain \in Nat \ {0}
  /\ Filter # {} /\ First \subseteq Nat /\ Lists \subseteq DOMAIN Connections
  /\ {DEFAULT_PAGE_SIZE, MAX_PAGE_SIZE} \subseteq Nat \ {0} /\ DEFAULT_PAGE_SIZE <= MAX_PAGE_SIZE
  /\ MaxTouched \in Nat /\ MaxVisits \in Nat

----------------------------------------------------------------------------
(* Pages                                                                   *)

clampPageSize(n) ==
  IF n = 0 THEN DEFAULT_PAGE_SIZE ELSE IF n < MAX_PAGE_SIZE THEN n ELSE MAX_PAGE_SIZE
limit == clampPageSize(first)

\* JavaScript instants have milliseconds, PostgreSQL's have microseconds.
Truncated(k) == (k \div Grain) * Grain
NoCursor == [key |-> 0, id |-> 0]
encodeCursor(r) ==
  [key |-> IF list.cursor = "instant" THEN Truncated(table[r].key) ELSE table[r].key, id |-> r]

Precedes(k, i, l, j) ==
  IF list.order = "desc" THEN k > l \/ (k = l /\ i > j) ELSE k < l \/ (k = l /\ i < j)

(* A mutation: rows that share the key of the cursor are not looked for. *)
AfterKeyOnly(r, cursor) ==
  cursor = NoCursor \/ (table[r].key # cursor.key
                        /\ Precedes(cursor.key, cursor.id, table[r].key, r))
After(r, cursor) ==
  \/ cursor = NoCursor
  \/ list.cursor = "number" /\ table[r].key > cursor.key
  \/ list.cursor # "number" /\ Precedes(cursor.key, cursor.id, table[r].key, r)

Present == {r \in Row: table[r].key # 0}
Matching(filter) == {r \in Present: filter \in table[r].meets}
Before(r, s) == Precedes(table[r].key, r, table[s].key, s)
Sorted(rows) ==
  CHOOSE s \in [1 .. Cardinality(rows) -> rows]: \A i, j \in DOMAIN s: i < j => Before(s[i], s[j])

\* One row more than the page tells whether there is a next one.
buildConnection(rows) ==
  LET page == SubSeq(rows, 1, IF Len(rows) > limit THEN limit ELSE Len(rows)) IN
    [rows |-> page, hasNext |-> Len(rows) > limit,
     endCursor |-> IF page = <<>> THEN NoCursor ELSE encodeCursor(Last(page))]
LastRow(page) == IF page.rows = <<>> THEN {} ELSE {Last(page.rows)}
Answered(filter, cursor) ==
  buildConnection(Sorted({r \in Matching(filter): After(r, cursor)}))

----------------------------------------------------------------------------
(* The client                                                              *)

Url == Last(history)
NoPage == [rows |-> <<>>, hasNext |-> FALSE, endCursor |-> NoCursor]
View == slot[Url.filter]

NewWalk(filter) == [state |-> "walking", seen |-> <<>>, there |-> Matching(filter), ends |-> {}]
\* hasty: Next was pressed on a page that was only cached; strayed: the person
\* went back; refused: the server did not understand the cursor.
Over(why) == [state |-> why, seen |-> <<>>, there |-> {}, ends |-> {}]

Init ==
  /\ list \in {Connections[n]: n \in Lists} /\ first \in First
  /\ table \in [Row -> [key: Key, meets: {Filter}] \cup {[key |-> 0, meets |-> {}]}]
  \* The number of an import's row is its own.
  /\ list.cursor = "number" =>
       \A r, s \in Present: r # s => table[r].key # table[s].key
  \* The page opens with the default filters.
  /\ LET f == CHOOSE f \in Filter: TRUE IN
       history = <<[filter |-> f, after |-> NoCursor]>> /\ walk = NewWalk(f)
  /\ slot = [f \in Filter |-> NoPage] /\ loading = TRUE /\ touched = 0

\* setFilters: the entry is replaced, and the cursor goes.
SetFilters(f) ==
  /\ f # Url.filter
  /\ history' = Front(history) \o <<[filter |-> f, after |-> NoCursor]>>
  /\ loading' = TRUE /\ walk' = NewWalk(f)
  /\ UNCHANGED <<list, first, table, slot, touched>>

\* setCursor, by Next.  The pager shows for any page that has rows, the cached
\* one too, and the cache has one page for all cursors of a filter.
PressNext ==
  /\ View.hasNext /\ Len(history) < MaxVisits
  /\ history' = Append(history, [filter |-> Url.filter, after |-> View.endCursor])
  /\ loading' = (loading \/ View.endCursor # Url.after)
  /\ walk' = IF loading THEN Over("hasty") ELSE walk
  /\ UNCHANGED <<list, first, table, slot, touched>>

\* setCursor(null), by the button that starts over.
PressReset ==
  /\ Url.after # NoCursor /\ Len(history) < MaxVisits
  /\ history' = Append(history, [filter |-> Url.filter, after |-> NoCursor])
  /\ loading' = TRUE /\ walk' = NewWalk(Url.filter)
  /\ UNCHANGED <<list, first, table, slot, touched>>

GoBack ==
  /\ Len(history) > 1 /\ history' = Front(history)
  /\ loading' = TRUE /\ walk' = Over("strayed")
  /\ UNCHANGED <<list, first, table, slot, touched>>

\* The answer to the query of the current URL; those of earlier ones are dropped.
Answer ==
  /\ loading /\ (Url.after = NoCursor \/ list.cursor # "unreadable")
  /\ LET page == Answered(Url.filter, Url.after) IN
       /\ slot' = [slot EXCEPT ![Url.filter] = page]
       /\ walk' = IF walk.state # "walking" THEN walk
                  ELSE [walk EXCEPT !.seen = @ \o page.rows,
                               !.ends = @ \cup {table[r].key: r \in LastRow(page)}]
  /\ loading' = FALSE /\ UNCHANGED <<list, first, table, history, touched>>

Refuse ==
  /\ loading /\ Url.after # NoCursor /\ list.cursor = "unreadable"
  /\ slot' = [slot EXCEPT ![Url.filter] = NoPage]
  /\ walk' = Over("refused")
  /\ loading' = FALSE /\ UNCHANGED <<list, first, table, history, touched>>

----------------------------------------------------------------------------
(* The rows, meanwhile.  Instants and dates may lie before rows already    *)
(* there: a transaction commits after a later one, a payment is backdated. *)

There(newTable) ==
  {r \in walk.there: newTable[r].key # 0 /\ Url.filter \in newTable[r].meets}
Change(r, to) ==
  /\ touched < MaxTouched /\ touched' = touched + 1
  /\ table' = [table EXCEPT ![r] = to]
  /\ walk' = [walk EXCEPT !.there = There(table')]
  /\ UNCHANGED <<list, first, history, slot, loading>>

Insert(r, key, f) ==
  /\ table[r].key = 0
  /\ list.cursor = "number" => \A s \in Present: table[s].key # key
  /\ Change(r, [key |-> key, meets |-> {f}])
\* An exception is resolved, a payment reconciled: another filter finds it.
Update(r, f) == table[r].key # 0 /\ table[r].meets # {f} /\ Change(r, [table[r] EXCEPT !.meets = {f}])

Next ==
  \/ \E f \in Filter: SetFilters(f)
  \/ PressNext \/ PressReset \/ GoBack \/ Answer \/ Refuse
  \/ \E r \in Row, f \in Filter: \/ \E k \in Key: Insert(r, k, f)
                                 \/ Update(r, f)

Spec == Init /\ [][Next]_vars

----------------------------------------------------------------------------
(* Properties                                                              *)

AtTheEnd == walk.state = "walking" /\ ~loading /\ ~View.hasNext

\* Lost to the grain of the cursor: a row of the millisecond in which a page
\* ends, when the key of the last row of that page is finer than a millisecond.
LostInGrain(r) ==
  list.cursor = "instant" /\ \E k \in walk.ends: k # Truncated(k) /\ Truncated(table[r].key) = Truncated(k)

\* Who walks to the last page sees every row that was there all along, whatever
\* came or changed meanwhile, unless it was lost to the grain of the cursor.
SeesWhatStayed ==
  AtTheEnd => \A r \in walk.there: r \in ToSet(walk.seen) \/ LostInGrain(r)

\* Nothing is listed twice.
NothingTwice == \A i, j \in DOMAIN walk.seen: walk.seen[i] = walk.seen[j] => i = j

\* A page that has arrived is no larger than asked, and has rows when it says
\* that more follow.
PagesAreWhole ==
  \A f \in Filter: /\ Len(slot[f].rows) <= MAX_PAGE_SIZE
                   /\ slot[f].hasNext => Len(slot[f].rows) = limit

WalkSeesAll == SeesWhatStayed /\ NothingTwice /\ PagesAreWhole
=============================================================================
