-------------------------------- MODULE Paging --------------------------------
(***************************************************************************)
(* GET /odds, /predictions and /bets: a client walks through a listing     *)
(* page by page, by cursor or by offset, while writers insert rows and,    *)
(* in core.predictions, move rows that are already there.                  *)
(*                                                                         *)
(* A request runs two statements, the COUNT of all rows that match and the *)
(* SELECT of the page; at READ COMMITTED each has a snapshot of its own,   *)
(* and writers may commit in between.                                      *)
(*                                                                         *)
(* A row is reduced to its place in the order: the timestamp it is sorted  *)
(* by (captured_at, predicted_at, placed_at) and its id.                   *)
(***************************************************************************)
EXTENDS Naturals, Sequences, FiniteSets

CONSTANTS
  Queries,    \* the listings clients walk through
  Ids,        \* the ids rows can get (random: an order, but not of arrival)
  Times,      \* the timestamps writers send
  Absent      \* the time of a row that is not there

(* What a client asks for, the same on every page: the resource, how it    *)
(* gets from page to page, sort, limit, and the times that ts_from and     *)
(* ts_to let through.  GET /bets has no cursor, no sort and no times.      *)
Requested ==
  [resource : {"odds", "predictions"}, mode : {"cursor", "offset"},
   sort : {"asc", "desc"}, limit : Nat \ {0}, window : SUBSET Times]
  \cup
  [resource : {"bets"}, mode : {"offset"},
   sort : {"desc"}, limit : Nat \ {0}, window : {Times}]

ASSUME PagingAssumption ==
  /\ Queries \subseteq Requested
  /\ Ids \subseteq Nat /\ IsFiniteSet(Ids)
  /\ Times \subseteq Nat
  /\ Absent \notin Times

VARIABLES
  query,      \* what the client asks for
  at,         \* at[i]: the time of row i, Absent if it is not stored
  phase,      \* of the client's request: "count", "page"; "done" after the last
  cursor,     \* next_cursor of the last page: none, or its last row
  offset,     \* next_offset of the last page
  total,      \* the COUNT of the request
  returned,   \* the rows of all pages so far
  changed,    \* history: rows inserted or moved since the walk began
  raced       \* history: a row changed between the last COUNT and its page

vars == <<query, at, phase, cursor, offset, total, returned, changed, raced>>

Entries == [at : Times, id : Ids]
None == <<>>

TypeOK ==
  /\ query \in Queries
  /\ at \in [Ids -> Times \cup {Absent}]
  /\ phase \in {"count", "page", "done"}
  /\ cursor \in Entries \cup {None}
  /\ offset \in 0 .. Cardinality(Ids)
  /\ total \in 0 .. Cardinality(Ids)
  /\ returned \in Seq(Entries)
  /\ changed \subseteq Ids
  /\ raced \in BOOLEAN

Init ==
  /\ query \in Queries
  /\ at \in [Ids -> Times \cup {Absent}]
  /\ phase = "count"
  /\ cursor = None
  /\ offset = 0
  /\ total = 0
  /\ returned = <<>>
  /\ changed = {}
  /\ raced = FALSE

-----------------------------------------------------------------------------
(* The order of the listing: (time, id) up or down; of bets, the latest    *)
(* first and among equals the smallest id.                                 *)
Lower(e, f) == e.at < f.at \/ (e.at = f.at /\ e.id < f.id)

Before(e, f) ==
  IF query.resource = "bets" THEN e.at > f.at \/ (e.at = f.at /\ e.id < f.id)
  ELSE IF query.sort = "asc" THEN Lower(e, f) ELSE Lower(f, e)

(* Mutants of the comparison with the cursor: by time alone; with the      *)
(* operator of the other direction.                                        *)
PastTimeOnly(e) ==
  cursor = None \/ (IF query.sort = "asc" THEN e.at > cursor.at ELSE e.at < cursor.at)

PastAscending(e) == cursor = None \/ Lower(cursor, e)

Past(e) == cursor = None \/ Before(cursor, e)

Matching == {[at |-> at[i], id |-> i] : i \in {j \in Ids : at[j] \in query.window}}

(* The page: OFFSET rows of the order are skipped, LIMIT rows are taken.   *)
Skipped == IF cursor = None THEN offset ELSE 0

Page ==
  LET rows  == {e \in Matching : Past(e)}
      place == [e \in rows |-> Cardinality({f \in rows : Before(f, e)})]
      left  == IF Cardinality(rows) > Skipped THEN Cardinality(rows) - Skipped ELSE 0
  IN  [n \in 1 .. (IF left < query.limit THEN left ELSE query.limit) |->
         CHOOSE e \in rows : place[e] = Skipped + n - 1]

(* next_cursor.  Mutant: an empty page repeats the cursor it was asked     *)
(* with.                                                                   *)
NextCursorAlways(page) == IF page = <<>> THEN cursor ELSE page[Len(page)]

NextCursor(page) == IF Len(page) = query.limit THEN page[Len(page)] ELSE None

(* next_offset, None when this was the last page.  GET /bets advances by   *)
(* the limit, the others by the rows they found.  Mutants: the first row   *)
(* after the page counts as part of it; there is a next page as long as    *)
(* there are rows at all.                                                  *)
Advance(page) == offset + (IF query.resource = "bets" THEN query.limit ELSE Len(page))
HasNextOffsetTooFew(page) == Advance(page) + 1 < total
HasNextOffsetAlways(page) == total > 0
HasNextOffset(page) == Advance(page) < total

-----------------------------------------------------------------------------
(* The client asks for a page: COUNT.                                      *)
Count ==
  /\ phase = "count"
  /\ phase' = "page"
  /\ total' = Cardinality(Matching)
  /\ raced' = FALSE
  /\ UNCHANGED <<query, at, cursor, offset, returned, changed>>

(* The page is selected and sent, and the client takes what it needs for   *)
(* the next request from it, until there is none.                          *)
More(more) == phase' = IF more THEN "count" ELSE "done"

CursorPage ==
  /\ phase = "page" /\ query.mode = "cursor"
  /\ returned' = returned \o Page
  /\ cursor' = NextCursor(Page)
  /\ More(NextCursor(Page) # None)
  /\ UNCHANGED <<query, at, offset, total, changed, raced>>

OffsetPage ==
  /\ phase = "page" /\ query.mode = "offset"
  /\ returned' = returned \o Page
  /\ offset' = IF HasNextOffset(Page) THEN Advance(Page) ELSE offset
  /\ More(HasNextOffset(Page))
  /\ UNCHANGED <<query, at, cursor, total, changed, raced>>

(* A writer commits a row while the client walks.                          *)
Store(i, t) ==
  /\ phase # "done"
  /\ at' = [at EXCEPT ![i] = t]
  /\ changed' = changed \cup {i}
  /\ raced' = (phase = "page")
  /\ UNCHANGED <<query, phase, cursor, offset, total, returned>>

Insert(i, t) == at[i] = Absent /\ Store(i, t)

(* Mutant: the upsert of odds sets captured_at.                            *)
MoveAnything(i, t) == at[i] \notin {Absent, t} /\ Store(i, t)

(* The upsert of predictions sets predicted_at; captured_at is part of the *)
(* key of odds, and no request changes a bet.                              *)
Move(i, t) == query.resource = "predictions" /\ at[i] \notin {Absent, t} /\ Store(i, t)

Finished == phase = "done" /\ UNCHANGED vars

Walk == Count \/ CursorPage \/ OffsetPage

Next ==
  \/ Walk
  \/ \E i \in Ids, t \in Times : Insert(i, t) \/ Move(i, t)
  \/ Finished

Spec == Init /\ [][Next]_vars

(* A client that follows next_cursor as long as it gets one.               *)
FairSpec == Spec /\ WF_vars(Walk)

-----------------------------------------------------------------------------
(* PROPERTIES                                                              *)

Occurrences(i) == {n \in DOMAIN returned : returned[n].id = i}

(* Rows that were there all along and stayed where they were.              *)
Stable == {i \in Ids \ changed : at[i] \in query.window}

ByCursor == query.mode = "cursor"

(* Across all its pages a walk by cursor goes strictly in one direction:   *)
(* no entry twice, none out of order, whatever is written meanwhile.       *)
PagesAreSorted ==
  ByCursor => \A m, n \in DOMAIN returned : m < n => Before(returned[m], returned[n])

(* A finished walk by cursor has shown every row that nobody touched, once *)
(* and once only: rows inserted before or after the cursor, or moved past  *)
(* it, do not push others over a page boundary.                            *)
StableRowsOnce ==
  ByCursor /\ phase = "done" => \A i \in Stable : Cardinality(Occurrences(i)) = 1

(* No row comes twice in a walk by cursor.  A test of the repository       *)
(* expects it of predictions ("Inga dubbletter, stigande predicted_at").   *)
NoRowTwice == ByCursor => \A i \in Ids : Cardinality(Occurrences(i)) <= 1

(* It is true of odds, where the time is part of the unique key: not even  *)
(* a row that arrives during the walk comes twice.                         *)
NoOddsTwice == query.resource = "odds" => NoRowTwice

(* Inserts shift the rows of a walk by offset, so it repeats rows; where   *)
(* rows do not move, it misses an untouched one only when a row came       *)
(* between the COUNT of the last request and its page: the walk ended on a *)
(* total that was too low.                                                 *)
MissingRowsWereRaced ==
  ~ ByCursor /\ query.resource # "predictions" /\ phase = "done" /\ ~ raced =>
    \A i \in Stable : Occurrences(i) # {}

(* A walk by cursor comes to its end although rows keep moving.            *)
WalkEnds == ByCursor ~> phase = "done"

=============================================================================
