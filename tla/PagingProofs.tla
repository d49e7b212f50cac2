------------------------------ MODULE PagingProofs ------------------------------
(***************************************************************************)
(* Proofs about Paging, for any finite set of ids, any times and any page  *)
(* size: what a page is made of, and what a walk over a table that changes *)
(* shows of it.                                                            *)
(***************************************************************************)
EXTENDS Paging, NaturalsLemmas

-----------------------------------------------------------------------------
(* THE ORDER                                                               *)

LEMMA QueryTypes ==
  ASSUME TypeOK
  PROVE  /\ query.resource \in {"odds", "predictions", "bets"}
         /\ query.mode \in {"cursor", "offset"} /\ query.sort \in {"asc", "desc"}
         /\ query.limit \in Nat /\ query.limit > 0 /\ query.window \subseteq Times
         /\ query.resource = "bets" => query.mode = "offset"
<1>1. query \in Requested
  BY PagingAssumption DEF TypeOK
<1>2. CASE query \in [resource : {"bets"}, mode : {"offset"}, sort : {"desc"},
                      limit : Nat \ {0}, window : {Times}]
  BY <1>2
<1>3. CASE query \in [resource : {"odds", "predictions"}, mode : {"cursor", "offset"},
                      sort : {"asc", "desc"}, limit : Nat \ {0}, window : SUBSET Times]
  BY <1>3
<1> QED
  BY <1>1, <1>2, <1>3 DEF Requested

(* Time and id together leave no ties.                                     *)
LEMMA BeforeIsAnOrder ==
  ASSUME TypeOK, NEW e \in Entries, NEW f \in Entries, NEW g \in Entries
  PROVE  /\ ~ Before(e, e)
         /\ Before(e, f) /\ Before(f, g) => Before(e, g)
         /\ e # f => Before(e, f) \/ Before(f, e)
<1>1. /\ e.at \in Nat /\ f.at \in Nat /\ g.at \in Nat
      /\ e.id \in Nat /\ f.id \in Nat /\ g.id \in Nat
  BY PagingAssumption DEF Entries
<1>2. e # f => e.at # f.at \/ e.id # f.id
  BY DEF Entries
<1> QED
  BY <1>1, <1>2 DEF Before, Lower

(* The place of an entry among those of S.                                 *)
Rank(S, e) == Cardinality({f \in S : Before(f, e)})

(* Every place of a finite set is taken by one entry, in the order.        *)
LEMMA RankMonotone ==
  ASSUME TypeOK, NEW S \in SUBSET Entries, IsFiniteSet(S), NEW e \in S, NEW f \in S, Before(e, f)
  PROVE  Rank(S, e) < Rank(S, f)
<1> DEFINE E == {g \in S : Before(g, e)}
           F == {g \in S : Before(g, f)}
<1>1. E \in SUBSET F
  BY BeforeIsAnOrder
<1>2. e \in F /\ e \notin E
  BY BeforeIsAnOrder
<1>3. IsFiniteSet(F)
  BY FS_Subset
<1>4. IsFiniteSet(E) /\ Cardinality(E) <= Cardinality(F) /\ Cardinality(E) # Cardinality(F)
  BY <1>1, <1>2, <1>3, FS_Subset
<1>5. Cardinality(E) \in Nat /\ Cardinality(F) \in Nat
  BY <1>3, <1>4, FS_CardinalityType
<1> QED
  BY <1>4, <1>5 DEF Rank

LEMMA RankType ==
  ASSUME TypeOK, NEW S \in SUBSET Entries, IsFiniteSet(S), NEW e \in S
  PROVE  Rank(S, e) \in 0 .. Cardinality(S) - 1
<1> DEFINE E == {g \in S : Before(g, e)}
<1>1. E \in SUBSET S /\ e \in S /\ e \notin E
  BY BeforeIsAnOrder
<1>2. IsFiniteSet(E) /\ Cardinality(E) <= Cardinality(S) /\ Cardinality(E) # Cardinality(S)
  BY <1>1, FS_Subset
<1>3. Cardinality(E) \in Nat /\ Cardinality(S) \in Nat
  BY <1>2, FS_CardinalityType
<1> QED
  BY <1>2, <1>3 DEF Rank

LEMMA RanksAgree ==
  ASSUME TypeOK, NEW S \in SUBSET Entries, IsFiniteSet(S), NEW e \in S, NEW f \in S
  PROVE  /\ Before(e, f) <=> Rank(S, e) < Rank(S, f)
         /\ Rank(S, e) = Rank(S, f) => e = f
<1>1. Rank(S, e) \in Nat /\ Rank(S, f) \in Nat
  BY RankType, FS_CardinalityType
<1> QED
  BY <1>1, RankMonotone, BeforeIsAnOrder

LEMMA EveryRankTaken ==
  ASSUME TypeOK, NEW S \in SUBSET Entries, IsFiniteSet(S), NEW p \in 0 .. Cardinality(S) - 1
  PROVE  \E e \in S : Rank(S, e) = p
<1> DEFINE N == Cardinality(S)
           rank == [e \in S |-> Rank(S, e)]
<1>1. N \in Nat
  BY FS_CardinalityType
<1>2. rank \in Injection(S, 0 .. N - 1)
  BY RankType, RanksAgree DEF Injection, IsInjective
<1>3. IsFiniteSet(0 .. N - 1) /\ Cardinality(0 .. N - 1) = N
  BY <1>1, FS_Interval
<1> HIDE DEF rank
<1>4. rank \in Surjection(S, 0 .. N - 1)
  BY <1>2, <1>3, FS_Injection
<1>5. \E e \in S : rank[e] = p
  BY <1>4 DEF Surjection
<1> QED
  BY <1>5 DEF rank

-----------------------------------------------------------------------------
(* A PAGE                                                                  *)

Rows == {e \in Matching : Past(e)}

Entry(i) == [at |-> at[i], id |-> i]

LEMMA MatchingTypes ==
  ASSUME TypeOK
  PROVE  /\ Matching \subseteq Entries /\ Rows \subseteq Matching
         /\ IsFiniteSet(Matching) /\ IsFiniteSet(Rows)
         /\ Cardinality(Matching) \in Nat /\ Cardinality(Rows) \in Nat
         /\ Cardinality(Matching) <= Cardinality(Ids) /\ Cardinality(Ids) \in Nat
         /\ \A e \in Matching : e.id \in Ids /\ at[e.id] \in query.window /\ e = Entry(e.id)
         /\ \A i \in Ids : at[i] \in query.window => Entry(i) \in Matching
<1> DEFINE I == {i \in Ids : at[i] \in query.window}
           entry == [i \in I |-> Entry(i)]
<1>1. Matching = {entry[i] : i \in I}
  BY DEF Matching, Entry
<1>2. query.window \subseteq Times
  BY QueryTypes
<1>3. Matching \subseteq Entries
  BY <1>2 DEF Matching, Entries
<1>4. IsFiniteSet(I) /\ Cardinality(I) <= Cardinality(Ids)
  BY PagingAssumption, FS_Subset
<1>5. entry \in Surjection(I, Matching)
  BY <1>1 DEF Surjection
<1>6. IsFiniteSet(Matching) /\ Cardinality(Matching) <= Cardinality(I)
  BY <1>4, <1>5, FS_Surjection
<1>7. Rows \subseteq Matching
  BY DEF Rows
<1>8. IsFiniteSet(Rows)
  BY <1>6, <1>7, FS_Subset
<1>9. /\ Cardinality(I) \in Nat /\ Cardinality(Ids) \in Nat
      /\ Cardinality(Matching) \in Nat /\ Cardinality(Rows) \in Nat
  BY <1>4, <1>6, <1>8, PagingAssumption, FS_CardinalityType
<1>10. \A e \in Matching : e.id \in Ids /\ at[e.id] \in query.window /\ e = Entry(e.id)
  BY DEF Matching, Entry
<1>11. \A i \in Ids : at[i] \in query.window => Entry(i) \in Matching
  BY DEF Matching, Entry
<1> QED
  BY <1>3, <1>4, <1>6, <1>7, <1>8, <1>9, <1>10, <1>11

(* The page holds the rows of the places that were asked for, in order.    *)
LEMMA PageRows ==
  ASSUME TypeOK
  PROVE  /\ Page \in Seq(Rows) /\ Len(Page) \in Nat /\ DOMAIN Page = 1 .. Len(Page)
         /\ Len(Page) <= query.limit
         /\ Len(Page) < query.limit => Cardinality(Rows) <= Skipped + Len(Page)
         /\ \A n \in DOMAIN Page : Page[n] \in Rows /\ Rank(Rows, Page[n]) = Skipped + n - 1
<1> DEFINE N == Cardinality(Rows)
           left == IF N > Skipped THEN N - Skipped ELSE 0
           size == IF left < query.limit THEN left ELSE query.limit
           place == [e \in Rows |-> Rank(Rows, e)]
<1>1. N \in Nat /\ IsFiniteSet(Rows) /\ Rows \in SUBSET Entries
  BY MatchingTypes
<1>2. Skipped \in Nat /\ query.limit \in Nat
  BY QueryTypes, MatchingTypes DEF Skipped, TypeOK
<1>3. size \in Nat /\ size <= query.limit /\ (size < query.limit => N <= Skipped + size)
  BY <1>1, <1>2
<1>4. \A n \in 1 .. size : Skipped + n - 1 \in 0 .. N - 1
  BY <1>1, <1>2
<1>5. Page = [n \in 1 .. size |-> CHOOSE e \in Rows : place[e] = Skipped + n - 1]
  BY DEF Page, Rows, Rank
<1>6. \A n \in 1 .. size : \E e \in Rows : place[e] = Skipped + n - 1
  BY <1>1, <1>4, EveryRankTaken
<1> HIDE DEF N, left, size
<1>7. \A n \in 1 .. size : Page[n] \in Rows /\ place[Page[n]] = Skipped + n - 1
  BY <1>5, <1>6
<1>8. Page \in Seq(Rows) /\ Len(Page) = size /\ DOMAIN Page = 1 .. size
  BY <1>3, <1>5, <1>7
<1> QED
  BY <1>3, <1>7, <1>8 DEF N

(* Which rows it holds.                                                    *)
LEMMA PageHolds ==
  ASSUME TypeOK, NEW e \in Rows, Skipped <= Rank(Rows, e), Rank(Rows, e) < Skipped + query.limit
  PROVE  \E n \in DOMAIN Page : Page[n] = e
<1>1. /\ IsFiniteSet(Rows) /\ Rows \in SUBSET Entries /\ Cardinality(Rows) \in Nat
      /\ query.limit \in Nat /\ Skipped \in Nat
  BY MatchingTypes, QueryTypes DEF Skipped, TypeOK
<1>2. Rank(Rows, e) \in 0 .. Cardinality(Rows) - 1
  BY <1>1, RankType
<1> DEFINE n == Rank(Rows, e) - Skipped + 1
<1>3. n \in DOMAIN Page
  BY <1>1, <1>2, PageRows
<1>4. Page[n] \in Rows /\ Rank(Rows, Page[n]) = Rank(Rows, e)
  BY <1>1, <1>2, <1>3, PageRows
<1> QED
  BY <1>1, <1>3, <1>4, RanksAgree

-----------------------------------------------------------------------------
(* THE INVARIANT                                                           *)

(* A row is where it was when it was shown, unless it has changed.         *)
Genuine ==
  \A n \in DOMAIN returned :
    \/ at[returned[n].id] = returned[n].at
    \/ query.resource = "predictions" /\ returned[n].id \in changed

(* A walk by cursor has shown nothing behind its cursor, and everything    *)
(* that stayed there.                                                      *)
CursorInv ==
  /\ offset = 0
  /\ \A m, n \in DOMAIN returned : m < n => Before(returned[m], returned[n])
  /\ phase # "done" =>
       IF cursor = None THEN returned = <<>>
       ELSE \A n \in DOMAIN returned : returned[n] = cursor \/ Before(returned[n], cursor)
  /\ \A i \in Stable :
       phase = "done" \/ (cursor # None /\ ~ Before(cursor, Entry(i))) => Occurrences(i) # {}

(* A walk by offset has shown what is in the places that it skips: later   *)
(* inserts only move rows to later places.                                 *)
OffsetInv ==
  /\ cursor = None
  /\ phase = "page" /\ ~ raced => total = Cardinality(Matching)
  /\ query.resource # "predictions" =>
       \A i \in Stable :
         \/ phase # "done" /\ Rank(Matching, Entry(i)) < offset
         \/ phase = "done" /\ ~ raced
         => Occurrences(i) # {}

IInv ==
  /\ TypeOK
  /\ Genuine
  /\ ByCursor => CursorInv
  /\ ~ ByCursor => OffsetInv

-----------------------------------------------------------------------------
(* THE STEPS                                                               *)

LEMMA InitIInv ==
  Init => IInv
<1> SUFFICES ASSUME Init PROVE IInv
  OBVIOUS
<1>1. Cardinality(Ids) \in Nat
  BY PagingAssumption, FS_CardinalityType
<1>2. TypeOK
  <2>1. 0 \in 0 .. Cardinality(Ids) /\ <<>> \in Seq(Entries) /\ cursor \in Entries \cup {None}
    BY <1>1 DEF Init
  <2> QED
    BY <2>1 DEF Init, TypeOK
<1>3. Genuine
  BY DEF Init, Genuine
<1>4. CursorInv
  BY DEF Init, CursorInv
<1>5. OffsetInv
  <2>1. ASSUME NEW i \in Stable PROVE ~ (Rank(Matching, Entry(i)) < 0)
    <3>1. Entry(i) \in Matching
      BY <1>2, MatchingTypes DEF Stable
    <3>2. Rank(Matching, Entry(i)) \in 0 .. Cardinality(Matching) - 1
      BY <1>2, <3>1, MatchingTypes, RankType
    <3> QED
      BY <3>2
  <2> QED
    BY <2>1 DEF Init, OffsetInv
<1> QED
  BY <1>2, <1>3, <1>4, <1>5 DEF IInv

(* Without a write, the listing stays what it was.                         *)
LEMMA ListingKept ==
  ASSUME UNCHANGED <<query, at>>
  PROVE  /\ Matching' = Matching
         /\ \A i : Entry(i)' = Entry(i)
         /\ \A e, f : Before(e, f)' <=> Before(e, f)
         /\ \A S, e : Rank(S, e)' = Rank(S, e)
<1>1. \A e, f : Before(e, f)' <=> Before(e, f)
  BY DEF Before
<1>2. \A S, e : Rank(S, e)' = Rank(S, e)
  BY <1>1 DEF Rank
<1> QED
  BY <1>1, <1>2 DEF Matching, Entry

LEMMA CountIInv ==
  ASSUME IInv, Count
  PROVE  IInv'
<1>1. /\ phase = "count" /\ phase' = "page" /\ total' = Cardinality(Matching) /\ raced' = FALSE
      /\ UNCHANGED <<query, at, cursor, offset, returned, changed>>
  BY DEF Count
<1>2. /\ Matching' = Matching /\ \A i : Entry(i)' = Entry(i)
      /\ \A e, f : Before(e, f)' <=> Before(e, f)
      /\ \A S, e : Rank(S, e)' = Rank(S, e)
  BY <1>1, ListingKept
<1>3. Stable' = Stable /\ \A i : Occurrences(i)' = Occurrences(i)
  BY <1>1 DEF Stable, Occurrences
<1>4. TypeOK'
  <2>1. total' \in 0 .. Cardinality(Ids)
    BY <1>1, MatchingTypes DEF IInv
  <2> QED
    BY <1>1, <2>1 DEF IInv, TypeOK
<1>5. Genuine'
  BY <1>1 DEF IInv, Genuine
<1>6. ByCursor' => CursorInv'
  BY <1>1, <1>2, <1>3 DEF IInv, ByCursor, CursorInv
<1>7. ~ ByCursor' => OffsetInv'
  <2> SUFFICES ASSUME ~ ByCursor PROVE OffsetInv'
    BY <1>1 DEF ByCursor
  <2>1. OffsetInv
    BY DEF IInv
  <2> QED
    BY <1>1, <1>2, <1>3, <2>1 DEF OffsetInv
<1> QED
  BY <1>4, <1>5, <1>6, <1>7 DEF IInv

(* The client has its pages one after the other.                           *)
LEMMA Appended ==
  ASSUME NEW s \in Seq(Entries), NEW t \in Seq(Entries)
  PROVE  /\ s \o t \in Seq(Entries)
         /\ \A n \in DOMAIN s : n \in DOMAIN (s \o t) /\ (s \o t)[n] = s[n]
         /\ \A n \in DOMAIN t : Len(s) + n \in DOMAIN (s \o t) /\ (s \o t)[Len(s) + n] = t[n]
         /\ \A n \in DOMAIN (s \o t) :
              n \in DOMAIN s \/ \E m \in DOMAIN t : n = Len(s) + m
<1>1. /\ s \o t \in Seq(Entries) /\ Len(s) \in Nat /\ Len(t) \in Nat
      /\ DOMAIN (s \o t) = 1 .. Len(s) + Len(t)
      /\ DOMAIN s = 1 .. Len(s) /\ DOMAIN t = 1 .. Len(t)
  OBVIOUS
<1>2. \A n \in DOMAIN s : n \in DOMAIN (s \o t) /\ (s \o t)[n] = s[n]
  BY <1>1
<1>3. \A n \in DOMAIN t : Len(s) + n \in DOMAIN (s \o t) /\ (s \o t)[Len(s) + n] = t[n]
  BY <1>1
<1>4. ASSUME NEW n \in DOMAIN (s \o t), n \notin DOMAIN s
      PROVE  \E m \in DOMAIN t : n = Len(s) + m
  <2>1. n - Len(s) \in DOMAIN t /\ n = Len(s) + (n - Len(s))
    BY <1>1, <1>4
  <2> QED
    BY <2>1
<1> QED
  BY <1>1, <1>2, <1>3, <1>4

(* What both kinds of page do: nothing that was shown before is lost.      *)
LEMMA PageShown ==
  ASSUME IInv, returned' = returned \o Page, UNCHANGED <<query, at, changed>>
  PROVE  /\ returned' \in Seq(Entries)
         /\ Genuine'
         /\ Stable' = Stable
         /\ \A i \in Ids : Occurrences(i) # {} => Occurrences(i)' # {}
         /\ \A i \in Ids, n \in DOMAIN Page : Page[n].id = i => Occurrences(i)' # {}
<1>1. /\ Page \in Seq(Rows) /\ Rows \subseteq Matching /\ Matching \subseteq Entries
      /\ DOMAIN Page = 1 .. Len(Page) /\ Len(Page) \in Nat
      /\ \A n \in DOMAIN Page : Page[n] \in Rows
  BY PageRows, MatchingTypes DEF IInv
<1>2. returned \in Seq(Entries) /\ Page \in Seq(Entries)
  BY <1>1 DEF IInv, TypeOK
<1>3. Genuine'
  <2> SUFFICES ASSUME NEW n \in DOMAIN returned'
               PROVE  \/ at[returned'[n].id] = returned'[n].at
                      \/ query.resource = "predictions" /\ returned'[n].id \in changed
    BY DEF Genuine
  <2>1. CASE n \in DOMAIN returned
    <3>1. returned'[n] = returned[n]
      BY <1>2, <2>1, Appended
    <3> QED
      BY <2>1, <3>1 DEF IInv, Genuine
  <2>2. CASE \E m \in DOMAIN Page : n = Len(returned) + m
    <3>1. PICK m \in DOMAIN Page : n = Len(returned) + m
      BY <2>2
    <3>2. returned'[n] = Page[m] /\ Page[m] \in Matching
      BY <1>1, <1>2, <3>1, Appended
    <3> QED
      BY <3>2 DEF Matching
  <2> QED
    BY <1>2, <2>1, <2>2, Appended
<1>4. Stable' = Stable
  BY DEF Stable
<1>5. \A i \in Ids : Occurrences(i) # {} => Occurrences(i)' # {}
  BY <1>2, Appended DEF Occurrences
<1>6. ASSUME NEW i \in Ids, NEW n \in DOMAIN Page, Page[n].id = i PROVE Occurrences(i)' # {}
  <2>1. Len(returned) + n \in DOMAIN returned' /\ returned'[Len(returned) + n].id = i
    BY <1>2, <1>6, Appended
  <2> QED
    BY <2>1 DEF Occurrences
<1> QED
  BY <1>2, <1>3, <1>4, <1>5, <1>6, Appended

LEMMA EntryIsNotNone ==
  ASSUME NEW e \in Entries
  PROVE  e # None
<1>1. DOMAIN e = {"at", "id"} /\ DOMAIN <<>> = {}
  BY DEF Entries
<1> QED
  BY <1>1 DEF None

LEMMA CursorPageIInv ==
  ASSUME IInv, CursorPage
  PROVE  IInv'
<1> DEFINE L == Len(Page)
           C == NextCursor(Page)
<1>1. /\ phase = "page" /\ ByCursor /\ returned' = returned \o Page /\ cursor' = C
      /\ phase' = (IF C # None THEN "count" ELSE "done")
      /\ UNCHANGED <<query, at, offset, total, changed, raced>>
  BY DEF CursorPage, More, ByCursor
<1>2. /\ Page \in Seq(Rows) /\ DOMAIN Page = 1 .. L /\ L \in Nat /\ L <= query.limit
      /\ L < query.limit => Cardinality(Rows) <= Skipped + L
      /\ \A n \in DOMAIN Page : Page[n] \in Rows /\ Rank(Rows, Page[n]) = Skipped + n - 1
  BY PageRows DEF IInv
<1>3. /\ Rows \subseteq Matching /\ Rows \in SUBSET Entries /\ IsFiniteSet(Rows)
      /\ Cardinality(Rows) \in Nat /\ query.limit \in Nat /\ query.limit > 0
  BY MatchingTypes, QueryTypes DEF IInv
<1>4. TypeOK /\ CursorInv /\ offset = 0 /\ Skipped = 0
  BY <1>1 DEF IInv, CursorInv, Skipped
<1>5. /\ returned' \in Seq(Entries) /\ Genuine' /\ Stable' = Stable
      /\ \A i \in Ids : Occurrences(i) # {} => Occurrences(i)' # {}
      /\ \A i \in Ids, n \in DOMAIN Page : Page[n].id = i => Occurrences(i)' # {}
  BY <1>1, PageShown
<1>6. /\ Matching' = Matching /\ \A i : Entry(i)' = Entry(i)
      /\ \A e, f : Before(e, f)' <=> Before(e, f)
  BY <1>1, ListingKept
<1>7. /\ L = query.limit => C = Page[L] /\ L \in DOMAIN Page /\ C \in Entries /\ C # None
      /\ L < query.limit => C = None
  <2>1. CASE L = query.limit
    <3>1. L \in DOMAIN Page /\ C = Page[L]
      BY <1>2, <1>3, <2>1 DEF NextCursor
    <3> QED
      BY <1>2, <1>3, <2>1, <3>1, EntryIsNotNone
  <2>2. CASE L < query.limit
    BY <1>2, <1>3, <2>2 DEF NextCursor
  <2> QED
    BY <1>2, <1>3, <2>1, <2>2
<1>8. returned \in Seq(Entries) /\ Page \in Seq(Entries)
  BY <1>2, <1>3, <1>4 DEF TypeOK
<1>9. \A n \in DOMAIN returned : returned[n] \in Entries
  BY <1>8
<1> HIDE DEF C, L
<1>10. TypeOK'
  <2>1. cursor' \in Entries \cup {None}
    BY <1>1, <1>2, <1>3, <1>7
  <2>2. phase' \in {"count", "page", "done"}
    BY <1>1
  <2> QED
    BY <1>1, <1>4, <1>5, <2>1, <2>2 DEF TypeOK
<1>11. ASSUME NEW n \in DOMAIN returned, NEW m \in DOMAIN Page
       PROVE  Before(returned[n], Page[m])
  <2>1. cursor # None
    BY <1>1, <1>4 DEF CursorInv
  <2>2. Before(cursor, Page[m]) /\ cursor \in Entries /\ Page[m] \in Entries
    BY <1>2, <1>3, <1>4, <2>1 DEF Rows, Past, TypeOK
  <2>3. returned[n] = cursor \/ Before(returned[n], cursor)
    BY <1>1, <1>4, <2>1 DEF CursorInv
  <2> QED
    BY <1>4, <1>9, <2>2, <2>3, BeforeIsAnOrder
<1>12. ASSUME NEW m \in DOMAIN Page, NEW n \in DOMAIN Page, m < n
       PROVE  Before(Page[m], Page[n])
  <2>1. Rank(Rows, Page[m]) < Rank(Rows, Page[n]) /\ Page[m] \in Rows /\ Page[n] \in Rows
    BY <1>2, <1>4, <1>12
  <2> QED
    BY <1>3, <1>4, <2>1, RanksAgree
<1>13. /\ \A n \in DOMAIN returned : n \in DOMAIN returned' /\ returned'[n] = returned[n]
       /\ \A n \in DOMAIN Page : returned'[Len(returned) + n] = Page[n]
       /\ \A n \in DOMAIN returned' :
            n \in DOMAIN returned \/ \E m \in DOMAIN Page : n = Len(returned) + m
       /\ Len(returned) \in Nat /\ DOMAIN returned = 1 .. Len(returned)
  BY <1>1, <1>8, Appended
<1>14. ASSUME NEW m \in DOMAIN returned', NEW n \in DOMAIN returned', m < n
       PROVE  Before(returned'[m], returned'[n])
  <2>1. CASE n \in DOMAIN returned
    <3>1. m \in DOMAIN returned
      BY <1>2, <1>13, <1>14, <2>1
    <3> QED
      BY <1>4, <1>13, <1>14, <2>1, <3>1 DEF CursorInv
  <2>2. CASE \E q \in DOMAIN Page : n = Len(returned) + q
    <3>1. PICK q \in DOMAIN Page : n = Len(returned) + q
      BY <2>2
    <3>2. CASE m \in DOMAIN returned
      BY <1>11, <1>13, <3>1, <3>2
    <3>3. CASE \E p \in DOMAIN Page : m = Len(returned) + p
      <4>1. PICK p \in DOMAIN Page : m = Len(returned) + p
        BY <3>3
      <4>2. p < q
        BY <1>2, <1>13, <1>14, <3>1, <4>1
      <4> QED
        BY <1>12, <1>13, <3>1, <4>1, <4>2
    <3> QED
      BY <1>13, <3>2, <3>3
  <2> QED
    BY <1>13, <2>1, <2>2
<1>15. ASSUME phase' # "done", NEW n \in DOMAIN returned'
       PROVE  C # None /\ (returned'[n] = C \/ Before(returned'[n], C))
  <2>1. L = query.limit /\ C = Page[L] /\ L \in DOMAIN Page /\ C # None
    BY <1>1, <1>2, <1>3, <1>7, <1>15
  <2>2. CASE n \in DOMAIN returned
    BY <1>11, <1>13, <2>1, <2>2
  <2>3. CASE \E m \in DOMAIN Page : n = Len(returned) + m
    <3>1. PICK m \in DOMAIN Page : n = Len(returned) + m
      BY <2>3
    <3>2. m = L \/ m < L
      BY <1>2
    <3> QED
      BY <1>12, <1>13, <2>1, <3>1, <3>2
  <2> QED
    BY <1>13, <2>1, <2>2, <2>3
<1>16. ASSUME NEW i \in Stable, phase' = "done" \/ (C # None /\ ~ Before(C, Entry(i)))
       PROVE  Occurrences(i)' # {}
  <2>1. Entry(i) \in Matching /\ i \in Ids /\ Entry(i).id = i
    BY <1>4, MatchingTypes DEF Stable, Entry
  <2>2. CASE ~ Past(Entry(i))
    BY <1>4, <1>5, <2>1, <2>2 DEF Past, CursorInv
  <2>3. CASE Past(Entry(i))
    <3>1. Entry(i) \in Rows
      BY <2>1, <2>3 DEF Rows
    <3>2. Rank(Rows, Entry(i)) \in 0 .. Cardinality(Rows) - 1
      BY <1>3, <1>4, <3>1, RankType
    <3>3. CASE L < query.limit
      <4>1. Rank(Rows, Entry(i)) < query.limit
        BY <1>2, <1>3, <1>4, <3>2, <3>3
      <4> QED
        BY <1>3, <1>4, <1>5, <2>1, <3>1, <3>2, <4>1, PageHolds
    <3>4. CASE L = query.limit
      <4>1. C = Page[L] /\ C # None /\ L \in DOMAIN Page /\ ~ Before(C, Entry(i))
        BY <1>1, <1>7, <1>16, <3>4
      <4>2. C \in Rows /\ Rank(Rows, C) = L - 1
        BY <1>2, <1>3, <1>4, <4>1
      <4>3. ~ (Rank(Rows, C) < Rank(Rows, Entry(i)))
        BY <1>3, <1>4, <3>1, <4>1, <4>2, RanksAgree
      <4>4. Rank(Rows, Entry(i)) < query.limit
        BY <1>2, <1>3, <3>2, <3>4, <4>2, <4>3
      <4> QED
        BY <1>3, <1>4, <1>5, <2>1, <3>1, <3>2, <4>4, PageHolds
    <3> QED
      BY <1>2, <1>3, <3>3, <3>4
  <2> QED
    BY <2>2, <2>3
<1>17. CursorInv'
  <2>1. offset' = 0
    BY <1>1, <1>4
  <2>2. phase' # "done" =>
          IF cursor' = None THEN returned' = <<>>
          ELSE \A n \in DOMAIN returned' : returned'[n] = cursor' \/ Before(returned'[n], cursor')
    BY <1>1, <1>15
  <2>3. ASSUME NEW i \in Stable', phase' = "done" \/ (cursor' # None /\ ~ Before(cursor', Entry(i)))
        PROVE  Occurrences(i)' # {}
    BY <1>1, <1>5, <1>16, <2>3
  <2> QED
    BY <1>6, <1>14, <2>1, <2>2, <2>3 DEF CursorInv
<1>18. ByCursor'
  BY <1>1 DEF ByCursor
<1> QED
  BY <1>5, <1>10, <1>17, <1>18 DEF IInv

LEMMA OffsetPageIInv ==
  ASSUME IInv, OffsetPage
  PROVE  IInv'
<1> DEFINE L == Len(Page)
           A == Advance(Page)
<1>1. /\ phase = "page" /\ query.mode = "offset" /\ returned' = returned \o Page
      /\ offset' = (IF A < total THEN A ELSE offset)
      /\ phase' = (IF A < total THEN "count" ELSE "done")
      /\ UNCHANGED <<query, at, cursor, total, changed, raced>>
  BY DEF OffsetPage, More, HasNextOffset
<1>2. TypeOK /\ OffsetInv /\ cursor = None /\ offset \in Nat /\ total \in Nat
  BY <1>1 DEF IInv, ByCursor, OffsetInv, TypeOK
<1>3. Rows = Matching /\ Skipped = offset
  BY <1>2 DEF Rows, Past, Skipped
<1>4. L \in Nat /\ L <= query.limit /\ query.limit \in Nat
  BY <1>2, PageRows, QueryTypes
<1>5. A \in Nat /\ A <= offset + query.limit
  BY <1>2, <1>4 DEF Advance
<1>6. /\ returned' \in Seq(Entries) /\ Genuine' /\ Stable' = Stable
      /\ \A i \in Ids : Occurrences(i) # {} => Occurrences(i)' # {}
      /\ \A i \in Ids, n \in DOMAIN Page : Page[n].id = i => Occurrences(i)' # {}
  BY <1>1, PageShown
<1> HIDE DEF A, L
<1>7. TypeOK'
  <2>1. total <= Cardinality(Ids) /\ Cardinality(Ids) \in Nat
    BY <1>2, MatchingTypes DEF TypeOK
  <2>2. offset' \in 0 .. Cardinality(Ids)
    BY <1>1, <1>2, <1>5, <2>1 DEF TypeOK
  <2>3. phase' \in {"count", "page", "done"}
    BY <1>1
  <2> QED
    BY <1>1, <1>2, <1>6, <2>2, <2>3 DEF TypeOK
<1>8. ASSUME query.resource # "predictions", NEW i \in Stable, Rank(Matching, Entry(i)) < A
      PROVE  Occurrences(i)' # {}
  <2>1. /\ Entry(i) \in Matching /\ i \in Ids /\ Entry(i).id = i
        /\ Rank(Matching, Entry(i)) \in 0 .. Cardinality(Matching) - 1
        /\ Cardinality(Matching) \in Nat
    BY <1>2, MatchingTypes, RankType DEF Stable, Entry
  <2>2. CASE Rank(Matching, Entry(i)) < offset
    BY <1>1, <1>2, <1>6, <1>8, <2>1, <2>2 DEF OffsetInv
  <2>3. CASE ~ (Rank(Matching, Entry(i)) < offset)
    <3>1. Skipped <= Rank(Rows, Entry(i)) /\ Rank(Rows, Entry(i)) < Skipped + query.limit
      BY <1>2, <1>3, <1>4, <1>5, <1>8, <2>1, <2>3
    <3> QED
      BY <1>2, <1>3, <1>6, <2>1, <3>1, PageHolds
  <2> QED
    BY <2>2, <2>3
<1>9. /\ Matching' = Matching /\ \A i : Entry(i)' = Entry(i)
      /\ \A S, e : Rank(S, e)' = Rank(S, e)
  BY <1>1, ListingKept
<1>10. OffsetInv'
  <2>1. cursor' = None /\ phase' # "page"
    BY <1>1, <1>2
  <2>2. ASSUME query.resource # "predictions", NEW i \in Stable,
               \/ phase' # "done" /\ Rank(Matching, Entry(i)) < offset'
               \/ phase' = "done" /\ ~ raced
        PROVE  Occurrences(i)' # {}
    <3>1. CASE A < total
      BY <1>1, <1>8, <2>2, <3>1
    <3>2. CASE ~ (A < total)
      <4>1. ~ raced /\ total = Cardinality(Matching)
        BY <1>1, <1>2, <2>2, <3>2 DEF OffsetInv
      <4>2. Rank(Matching, Entry(i)) \in 0 .. Cardinality(Matching) - 1
        BY <1>2, MatchingTypes, RankType DEF Stable
      <4> QED
        BY <1>2, <1>5, <1>8, <2>2, <3>2, <4>1, <4>2
    <3> QED
      BY <3>1, <3>2
  <2> QED
    BY <1>1, <1>6, <1>9, <2>1, <2>2 DEF OffsetInv
<1>11. ~ ByCursor'
  BY <1>1 DEF ByCursor
<1> QED
  BY <1>6, <1>7, <1>10, <1>11 DEF IInv

(* An insert shows no row again and moves no other one to an earlier place.*)
LEMMA StoreIInv ==
  ASSUME IInv, NEW i \in Ids, NEW t \in Times, Insert(i, t) \/ Move(i, t)
  PROVE  IInv'
<1>1. /\ phase # "done" /\ at' = [at EXCEPT ![i] = t] /\ changed' = changed \cup {i}
      /\ raced' = (phase = "page")
      /\ UNCHANGED <<query, phase, cursor, offset, total, returned>>
      /\ query.resource = "predictions" \/ at[i] = Absent
  BY DEF Insert, Move, Store
<1>2. TypeOK /\ Genuine
  BY DEF IInv
<1>3. at'[i] = t /\ \A j \in Ids \ {i} : at'[j] = at[j]
  BY <1>1, <1>2 DEF TypeOK
<1>4. /\ returned \in Seq(Entries)
      /\ \A n \in DOMAIN returned : returned[n].id \in Ids /\ returned[n].at \in Times
  <2>1. returned \in Seq(Entries)
    BY <1>2 DEF TypeOK
  <2>2. \A n \in DOMAIN returned : returned[n] \in Entries
    BY <2>1
  <2> QED
    BY <2>1, <2>2 DEF Entries
<1>5. TypeOK'
  <2>1. at' \in [Ids -> Times \cup {Absent}]
    BY <1>1, <1>2 DEF TypeOK
  <2>2. changed' \subseteq Ids /\ raced' \in BOOLEAN
    BY <1>1, <1>2 DEF TypeOK
  <2> QED
    BY <1>1, <1>2, <2>1, <2>2 DEF TypeOK
<1>6. Genuine'
  <2> SUFFICES ASSUME NEW n \in DOMAIN returned
               PROVE  \/ at'[returned[n].id] = returned[n].at
                      \/ query.resource = "predictions" /\ returned[n].id \in changed'
    BY <1>1 DEF Genuine
  <2>1. CASE returned[n].id # i
    BY <1>1, <1>2, <1>3, <1>4, <2>1 DEF Genuine
  <2>2. CASE returned[n].id = i /\ query.resource = "predictions"
    BY <1>1, <2>2
  <2>3. CASE returned[n].id = i /\ query.resource # "predictions"
    BY <1>1, <1>2, <1>4, <2>3, PagingAssumption DEF Genuine
  <2> QED
    BY <2>1, <2>2, <2>3
<1>7. /\ Stable' \subseteq Stable /\ \A j : Occurrences(j)' = Occurrences(j)
      /\ \A j \in Stable' : Entry(j)' = Entry(j) /\ j \in Ids
  BY <1>1, <1>3 DEF Stable, Occurrences, Entry
<1>8. \A e, f : Before(e, f)' <=> Before(e, f)
  BY <1>1 DEF Before
<1>9. ASSUME ByCursor PROVE CursorInv'
  <2>1. CursorInv
    BY <1>9 DEF IInv
  <2>2. \A m, n \in DOMAIN returned' : m < n => Before(returned'[m], returned'[n])
    BY <1>1, <2>1 DEF CursorInv
  <2>3. ASSUME NEW j \in Stable', phase' = "done" \/ (cursor' # None /\ ~ Before(cursor', Entry(j)'))
        PROVE  Occurrences(j)' # {}
    BY <1>1, <1>7, <2>1, <2>3 DEF CursorInv
  <2> QED
    BY <1>1, <1>8, <2>1, <2>2, <2>3 DEF CursorInv
<1>10. ASSUME ~ ByCursor PROVE OffsetInv'
  <2>0. IsFiniteSet(Matching')
    <3>1. Matching' \subseteq Matching \cup {[at |-> t, id |-> i]}
      BY <1>1, <1>3 DEF Matching
    <3>2. IsFiniteSet(Matching \cup {[at |-> t, id |-> i]})
      BY <1>2, MatchingTypes, FS_AddElement
    <3> QED
      BY <3>1, <3>2, FS_Subset
  <2>1. OffsetInv
    BY <1>10 DEF IInv
  <2>2. ASSUME query.resource # "predictions", NEW j \in Stable'
        PROVE  Rank(Matching, Entry(j)) <= Rank(Matching, Entry(j))'
    <3>1. Matching \subseteq Matching'
      <4>1. \A k \in Ids : at[k] \in query.window => at'[k] = at[k]
        BY <1>1, <1>2, <1>3, <2>2, QueryTypes, PagingAssumption
      <4> QED
        BY <1>1, <4>1 DEF Matching
    <3> DEFINE E == {f \in Matching : Before(f, Entry(j))}
               F == {f \in Matching' : Before(f, Entry(j))}
    <3>2. E \in SUBSET F /\ IsFiniteSet(F)
      BY <2>0, <3>1, FS_Subset
    <3>3. Cardinality(E) <= Cardinality(F)
      BY <3>2, FS_Subset
    <3>4. Rank(Matching, Entry(j))' = Cardinality(F)
      BY <1>7, <1>8 DEF Rank
    <3> QED
      BY <3>3, <3>4 DEF Rank
  <2>3. ASSUME query.resource # "predictions", NEW j \in Stable'
        PROVE  Rank(Matching, Entry(j)) \in Nat /\ Rank(Matching, Entry(j))' \in Nat
    <3>1. Entry(j) \in Matching
      BY <1>2, <1>7, MatchingTypes DEF Stable
    <3>2. Rank(Matching, Entry(j)) \in Nat
      BY <1>2, <3>1, MatchingTypes, RankType
    <3>3. IsFiniteSet({f \in Matching' : Before(f, Entry(j))'})
      BY <2>0, FS_Subset
    <3>4. Rank(Matching, Entry(j))' \in Nat
      BY <3>3, FS_CardinalityType DEF Rank
    <3> QED
      BY <3>2, <3>4
  <2>4. offset \in Nat
    BY <1>2 DEF TypeOK
  <2>5. ASSUME query.resource # "predictions", NEW j \in Stable',
               Rank(Matching, Entry(j))' < offset
        PROVE  Occurrences(j) # {}
    <3>1. Rank(Matching, Entry(j)) < offset
      BY <2>2, <2>3, <2>4, <2>5
    <3> QED
      BY <1>1, <1>7, <2>1, <2>5, <3>1 DEF OffsetInv
  <2> QED
    BY <1>1, <1>7, <2>1, <2>5 DEF OffsetInv
<1>11. ByCursor' <=> ByCursor
  BY <1>1 DEF ByCursor
<1> QED
  BY <1>5, <1>6, <1>9, <1>10, <1>11 DEF IInv

LEMMA NextIInv ==
  IInv /\ [Next]_vars => IInv'
<1> SUFFICES ASSUME IInv, [Next]_vars PROVE IInv'
  OBVIOUS
<1>1. CASE UNCHANGED vars
  <2>1. UNCHANGED <<query, at, phase, cursor, offset, total, returned, changed, raced>>
    BY <1>1 DEF vars
  <2>2. /\ Matching' = Matching /\ \A i : Entry(i)' = Entry(i)
        /\ \A e, f : Before(e, f)' <=> Before(e, f)
        /\ \A S, e : Rank(S, e)' = Rank(S, e)
    BY <2>1, ListingKept
  <2>3. Stable' = Stable /\ \A i : Occurrences(i)' = Occurrences(i)
    BY <2>1 DEF Stable, Occurrences
  <2>4. TypeOK' /\ Genuine' /\ (ByCursor' <=> ByCursor)
    BY <2>1 DEF IInv, TypeOK, Genuine, ByCursor
  <2>5. CursorInv => CursorInv'
    BY <2>1, <2>2, <2>3 DEF CursorInv
  <2>6. OffsetInv => OffsetInv'
    BY <2>1, <2>2, <2>3 DEF OffsetInv
  <2> QED
    BY <2>4, <2>5, <2>6 DEF IInv
<1>2. CASE Walk
  BY <1>2, CountIInv, CursorPageIInv, OffsetPageIInv DEF Walk
<1>3. CASE \E i \in Ids, t \in Times : Insert(i, t) \/ Move(i, t)
  BY <1>3, StoreIInv
<1> QED
  BY <1>1, <1>2, <1>3 DEF Next, Finished

-----------------------------------------------------------------------------
(* THE THEOREMS                                                            *)

(* Whatever is written during a walk: by cursor, all that stayed behind    *)
(* the cursor has been shown, in order; by offset, all that stayed has     *)
(* been shown or is not yet skipped.                                       *)
THEOREM InductiveInvariant == Spec => []IInv
<1>1. Init => IInv
  BY InitIInv
<1>2. IInv /\ [Next]_vars => IInv'
  BY NextIInv
<1> QED
  BY <1>1, <1>2, PTL DEF Spec

(* The variables keep their types; in particular no offset and no total    *)
(* exceeds the number of rows there can be.                                *)
THEOREM TypeInvariant == Spec => []TypeOK
BY InductiveInvariant, PTL DEF IInv

(* A walk by cursor goes in one direction, whatever is written meanwhile:  *)
(* for any number of rows and any page size.                               *)
THEOREM CursorWalksAreSorted == Spec => []PagesAreSorted
<1>1. IInv => PagesAreSorted
  BY DEF IInv, CursorInv, PagesAreSorted
<1> QED
  BY <1>1, InductiveInvariant, PTL

(* A row that stayed where it was is shown at most once.                   *)
LEMMA ShownOnce ==
  ASSUME IInv, ByCursor, NEW i \in Ids, query.resource # "predictions" \/ i \notin changed
  PROVE  /\ IsFiniteSet(Occurrences(i)) /\ Cardinality(Occurrences(i)) <= 1
         /\ Occurrences(i) # {} => Cardinality(Occurrences(i)) = 1
<1>1. returned \in Seq(Entries) /\ TypeOK
  BY DEF IInv, TypeOK
<1>2. \A n \in DOMAIN returned : returned[n] \in Entries /\ n \in Nat
  BY <1>1
<1>3. ASSUME NEW m \in Occurrences(i), NEW n \in Occurrences(i) PROVE m = n
  <2>1. m \in DOMAIN returned /\ n \in DOMAIN returned /\ returned[m].id = i /\ returned[n].id = i
    BY DEF Occurrences
  <2>2. returned[m].at = at[i] /\ returned[n].at = at[i]
    BY <2>1 DEF IInv, Genuine
  <2>3. returned[m] = returned[n]
    BY <1>2, <2>1, <2>2 DEF Entries
  <2>4. ~ Before(returned[m], returned[n]) /\ ~ Before(returned[n], returned[m])
    BY <1>1, <1>2, <2>1, <2>3, BeforeIsAnOrder
  <2>5. ~ (m < n) /\ ~ (n < m)
    BY <2>1, <2>4 DEF IInv, CursorInv
  <2> QED
    BY <1>2, <2>1, <2>5
<1>4. CASE Occurrences(i) = {}
  BY <1>4, FS_EmptySet
<1>5. CASE Occurrences(i) # {}
  <2>1. PICK n : Occurrences(i) = {n}
    BY <1>3, <1>5
  <2>2. IsFiniteSet({n}) /\ Cardinality({n}) = 1
    BY FS_Singleton
  <2> QED
    BY <1>5, <2>1, <2>2
<1> QED
  BY <1>4, <1>5

(* A walk by cursor shows every row that nobody touched exactly once.      *)
THEOREM UntouchedRowsOnce == Spec => []StableRowsOnce
<1>1. IInv => StableRowsOnce
  <2> SUFFICES ASSUME IInv, ByCursor, phase = "done", NEW i \in Stable
               PROVE  Cardinality(Occurrences(i)) = 1
    BY DEF StableRowsOnce
  <2>1. i \in Ids /\ i \notin changed
    BY DEF Stable
  <2>2. Occurrences(i) # {}
    BY DEF IInv, CursorInv
  <2> QED
    BY <2>1, <2>2, ShownOnce
<1> QED
  BY <1>1, InductiveInvariant, PTL

(* No odds row comes twice in a walk by cursor, not even one that arrives  *)
(* while the client walks.                                                 *)
THEOREM OddsOnce == Spec => []NoOddsTwice
<1>1. IInv => NoOddsTwice
  BY ShownOnce DEF NoOddsTwice, NoRowTwice
<1> QED
  BY <1>1, InductiveInvariant, PTL

(* A walk by offset through rows that do not move misses an untouched one  *)
(* only if a row came between the last COUNT and its page.                 *)
THEOREM MissedRowsWereRaced == Spec => []MissingRowsWereRaced
<1>1. IInv => MissingRowsWereRaced
  BY DEF IInv, OffsetInv, MissingRowsWereRaced
<1> QED
  BY <1>1, InductiveInvariant, PTL

=================================================================================
