--------------------------- MODULE ListingProofs ---------------------------
(***************************************************************************)
(* Theorems about Listing, for any table, any sizes of pages and any       *)
(* number of changes: types; that filters hold and calls do what they      *)
(* answer; and for the order by created_at that pages neither repeat nor   *)
(* skip rows, which makes reading them a SortedWalk, and that the way back *)
(* leads to the page before.                                               *)
(***************************************************************************)
EXTENDS MCListing, EntitiesProofs, FiniteSetTheorems, TLAPS

USE KeysAssumption, TimeAssumption, WritesAssumption

(* The table.                                                              *)
RowsOK ==
  /\ rows \subseteq RowSet /\ KeysUnique /\ IsFiniteSet(rows)
  /\ writes \in 0 .. MaxWrites

\* No statement makes a row that is not one, or a second one with its key.
LEMMA NothingKeepsRows == ASSUME RowsOK, NEW c, Nothing(c) PROVE RowsOK' /\ UNCHANGED table
BY DEF RowsOK, Nothing, KeysUnique, table

LEMMA InsertedIsValue == ASSUME NEW sent \in Times \union {Omitted} PROVE Inserted(sent) \in Values
BY DEF Inserted, Values, Zero, Null, Omitted, Times

LEMMA CreateKeepsRows == ASSUME RowsOK, NEW c, Create(c) PROVE RowsOK' /\ UNCHANGED table
<1>1. CASE Nothing(c)
  BY <1>1, NothingKeepsRows
<1>2. ASSUME NEW k \in Keys, At(k) = {}, NEW sent \in Times \union {Omitted}, NEW t \in Times,
             Exec(rows \union {Row(k, t, t, Inserted(sent))},
                  "create", k, sent, Inserted(sent), c)
      PROVE  RowsOK' /\ UNCHANGED table
  <2>1. Row(k, t, t, Inserted(sent)) \in RowSet
    BY InsertedIsValue DEF Row, RowSet
  <2>2. IsFiniteSet(rows \union {Row(k, t, t, Inserted(sent))})
    BY FS_AddElement DEF RowsOK
  <2>3. \A q \in rows : q.pk # k
    BY <1>2 DEF At
  <2>4. Row(k, t, t, Inserted(sent)).pk = k
    BY DEF Row
  <2>5. /\ rows' = rows \union {Row(k, t, t, Inserted(sent))} \/ rows' = rows
        /\ writes' = writes + 1 /\ writes < MaxWrites /\ UNCHANGED table
    BY <1>2 DEF Exec
  <2> HIDE DEF Row, RowSet, Inserted, Exec
  <2> QED
    BY <2>1, <2>2, <2>3, <2>4, <2>5 DEF RowsOK, KeysUnique, table
<1> QED
  BY <1>1, <1>2 DEF Create

LEMMA ReplacedKeepsRows ==
  ASSUME RowsOK, NEW r \in rows, NEW q \in RowSet, q.pk = r.pk, UNCHANGED table,
         rows' = (rows \ {r}) \union {q} \/ rows' = rows, writes' = writes + 1, writes < MaxWrites
  PROVE  RowsOK'
<1>1. IsFiniteSet((rows \ {r}) \union {q})
  BY FS_AddElement, FS_RemoveElement DEF RowsOK
<1> QED
  BY <1>1 DEF RowsOK, KeysUnique, table, RowSet

LEMMA UpdateKeepsRows == ASSUME RowsOK, NEW c, Update(c) PROVE RowsOK' /\ UNCHANGED table
<1>1. CASE Nothing(c)
  BY <1>1, NothingKeepsRows
<1>2. ASSUME NEW r \in rows, NEW sent \in Times \union {Omitted}, NEW t \in Times,
             Exec((rows \ {r}) \union {Updated(r, sent, t)}, "update", r.pk, sent, Null, c)
      PROVE  RowsOK' /\ UNCHANGED table
  <2>1. r \in RowSet
    BY DEF RowsOK
  <2>2. Updated(r, sent, t) \in RowSet /\ Updated(r, sent, t).pk = r.pk
    BY <2>1 DEF Updated, Row, RowSet, Values, Zero, Null, Omitted, Times
  <2>3. /\ rows' = (rows \ {r}) \union {Updated(r, sent, t)} \/ rows' = rows
        /\ writes' = writes + 1 /\ writes < MaxWrites /\ UNCHANGED table
    BY <1>2 DEF Exec
  <2> HIDE DEF Updated, Exec, table, RowSet, RowsOK
  <2> QED
    BY <2>2, <2>3, ReplacedKeepsRows
<1> QED
  BY <1>1, <1>2 DEF Update

LEMMA ArchiveKeepsRows == ASSUME RowsOK, NEW c, Archive(c) PROVE RowsOK' /\ UNCHANGED table
<1>1. CASE Nothing(c)
  BY <1>1, NothingKeepsRows
<1>2. ASSUME NEW r \in rows,
             Exec((rows \ {r}) \union
                    {[r EXCEPT !.value = IF column \in L.archived THEN Archived ELSE @]},
                  "archive", r.pk, Archived, Null, c)
      PROVE  RowsOK' /\ UNCHANGED table
  <2>1. r \in RowSet
    BY DEF RowsOK
  <2> DEFINE q == [r EXCEPT !.value = IF column \in L.archived THEN Archived ELSE @]
  <2>2. q \in RowSet /\ q.pk = r.pk
    BY <2>1 DEF RowSet, Values, Zero, Null, Archived
  <2>3. /\ rows' = (rows \ {r}) \union {q} \/ rows' = rows
        /\ writes' = writes + 1 /\ writes < MaxWrites /\ UNCHANGED table
    BY <1>2 DEF Exec
  <2> HIDE DEF q
  <2> QED
    BY <2>2, <2>3, ReplacedKeepsRows
<1> QED
  BY <1>1, <1>2 DEF Archive

LEMMA DeleteKeepsRows == ASSUME RowsOK, NEW c, Delete(c) PROVE RowsOK' /\ UNCHANGED table
<1>1. CASE Nothing(c)
  BY <1>1, NothingKeepsRows
<1>2. ASSUME NEW r \in rows, Exec(rows \ {r}, "delete", r.pk, Omitted, Null, c)
      PROVE  RowsOK' /\ UNCHANGED table
  <2>1. IsFiniteSet(rows \ {r})
    BY FS_RemoveElement DEF RowsOK
  <2> QED
    BY <1>2, <2>1 DEF RowsOK, Exec, KeysUnique, table
<1> QED
  BY <1>1, <1>2 DEF Delete

LEMMA CallsKeepRows == ASSUME RowsOK, Next PROVE RowsOK' /\ UNCHANGED table
<1>1. ASSUME NEW c, Create(c) \/ Update(c) \/ Delete(c) \/ Archive(c) \/ Get(c) \/ Nothing(c)
      PROVE  RowsOK' /\ UNCHANGED table
  BY <1>1, NothingKeepsRows, CreateKeepsRows, UpdateKeepsRows, DeleteKeepsRows, ArchiveKeepsRows
     DEF Get
<1> QED
  BY <1>1 DEF Next, TasksBridge, UsersBridge, SessionsBridge, MigrationsBridge, TasksRepository,
     UsersRepository, SessionsRepository, MigrationsRepository, UsersArchive, SessionsArchive,
     Handlers, HttpCreate, HttpGetByID, HttpUpdate, HttpDelete, Calls, BadRequest
-----------------------------------------------------------------------------
(* One query.  Ordered by created_at, the places of the rows are ordered   *)
(* strictly and totally.                                                   *)
Spots == Int \X Int
Earlier(by, a, b) == LessBy(by, FALSE, a, b)

LEMMA PairsAreSpots == \A q \in Times \X Keys : q \in Spots
<1>1. \A t \in Times : t \in Int
  BY DEF Times
<1>2. \A k \in Keys : k \in Int
  OBVIOUS
<1> QED
  BY <1>1, <1>2 DEF Spots

LEMMA PlacesStay == ASSUME NEW r PROVE Place(r) = <<r.created, r.pk>> /\ Place(r)' = <<r.created, r.pk>>
BY DEF Place, Key, OrderValue

LEMMA PlacesAreSpots == ASSUME NEW r \in RowSet PROVE Place(r) \in Times \X Keys /\ Place(r) \in Spots
<1>1. r.created \in Times /\ r.pk \in Keys
  BY DEF RowSet
<1>2. <<r.created, r.pk>> \in Times \X Keys
  BY <1>1
<1>3. Place(r) = <<r.created, r.pk>>
  BY PlacesStay
<1> QED
  BY <1>2, <1>3, PairsAreSpots

LEMMA CreatedIsThePlace ==
  ASSUME NEW by, by.field = "created_at", NEW r PROVE Key(by.field, r) = Place(r)
BY DEF Place

LEMMA EarlierIsStrictOrder ==
  ASSUME NEW by, NEW a \in Spots, NEW b \in Spots
  PROVE  /\ ~ Earlier(by, a, a)
         /\ Earlier(by, a, b) \/ Earlier(by, b, a) \/ a = b
         /\ Earlier(by, a, b) => ~ Earlier(by, b, a)
         /\ \A c \in Spots : Earlier(by, a, b) /\ Earlier(by, b, c) => Earlier(by, a, c)
<1>1. ~ Less(a, a) /\ (Less(a, b) \/ Less(b, a) \/ a = b)
  BY DEF Less, Spots
<1>2. Less(a, b) => ~ Less(b, a)
  BY DEF Less, Spots
<1>3. ASSUME NEW c \in Spots
      PROVE  /\ Less(a, b) /\ Less(b, c) => Less(a, c)
             /\ Less(c, b) /\ Less(b, a) => Less(c, a)
  BY DEF Less, Spots
<1>4. Less(b, a) => ~ Less(a, b)
  BY <1>2
<1> QED
  BY <1>1, <1>2, <1>3, <1>4 DEF Earlier, LessBy

\* Fewer than n rows of S come before the first n of S, and no others.
LEMMA FirstOfIsInitial ==
  ASSUME NEW by, by.field = "created_at", NEW S \in SUBSET RowSet, IsFiniteSet(S), NEW n \in Nat,
         NEW x \in FirstOf(by, FALSE, S, n), NEW r \in S \ FirstOf(by, FALSE, S, n)
  PROVE  Earlier(by, Place(x), Place(r))
<1> DEFINE B(q) == Before(by, FALSE, S, q)
<1>1. \A q \in S : B(q) = {p \in S : Earlier(by, Place(p), Place(q))}
  BY CreatedIsThePlace DEF Before, Earlier
<1>2. \A q \in S : IsFiniteSet(B(q)) /\ Cardinality(B(q)) \in Nat
  BY FS_Subset, FS_CardinalityType DEF Before
<1>3. x \in S /\ Cardinality(B(x)) < n /\ ~ Cardinality(B(r)) < n
  BY DEF FirstOf
<1>4. \A q \in S : Place(q) \in Spots
  BY PlacesAreSpots
<1> HIDE DEF B
<1>5. SUFFICES ASSUME ~ Earlier(by, Place(x), Place(r)) PROVE FALSE
  OBVIOUS
<1>6. B(r) \subseteq B(x)
  <2>1. Earlier(by, Place(r), Place(x)) \/ Place(r) = Place(x)
    BY <1>3, <1>4, <1>5, EarlierIsStrictOrder
  <2>2. ASSUME NEW p \in B(r) PROVE p \in B(x)
    <3>1. p \in S /\ Earlier(by, Place(p), Place(r))
      BY <1>1
    <3>2. Earlier(by, Place(p), Place(x))
      BY <1>3, <1>4, <2>1, <3>1, EarlierIsStrictOrder
    <3> QED
      BY <1>1, <1>3, <3>1, <3>2
  <2> QED
    BY <2>2
<1>7. Cardinality(B(r)) <= Cardinality(B(x))
  BY <1>2, <1>3, <1>6, FS_Subset
<1> QED
  BY <1>2, <1>3, <1>7

\* If they are fewer than n, they are all.
LEMMA FewAreAll ==
  ASSUME NEW by, by.field = "created_at", NEW S \in SUBSET RowSet, IsFiniteSet(S), NEW n \in Nat,
         Cardinality(FirstOf(by, FALSE, S, n)) < n
  PROVE  FirstOf(by, FALSE, S, n) = S
<1> DEFINE F == FirstOf(by, FALSE, S, n)
           B(q) == Before(by, FALSE, S, q)
           T == {B(q) : q \in S \ F}
<1>1. \A q \in S : B(q) = {p \in S : Earlier(by, Place(p), Place(q))}
  BY CreatedIsThePlace DEF Before, Earlier
<1>2. \A q \in S : IsFiniteSet(B(q)) /\ Cardinality(B(q)) \in Nat
  BY FS_Subset, FS_CardinalityType DEF Before
<1>3. F = {q \in S : Cardinality(B(q)) < n}
  BY DEF FirstOf
<1>4. \A q \in S : Place(q) \in Spots
  BY PlacesAreSpots
<1>5. SUFFICES ASSUME S \ F # {} PROVE FALSE
  BY <1>3
<1> HIDE DEF B
<1>6. T \subseteq FiniteSubsetsOf(S) /\ T # {}
  BY <1>1, <1>2, <1>5 DEF FiniteSubsetsOf
<1> HIDE DEF F
<1>7. PICK m \in T : \A y \in T : ~ (<<y, m>> \in StrictSubsetOrdering(S))
  BY <1>6, FS_StrictSubsetOrderingWellFounded, WFMin
<1>8. PICK r \in S \ F : m = B(r)
  BY <1>7
<1>9. ASSUME NEW p \in B(r) PROVE p \in F
  <2>1. p \in S /\ Earlier(by, Place(p), Place(r))
    BY <1>1, <1>8, <1>9
  <2>2. SUFFICES ASSUME p \notin F PROVE FALSE
    OBVIOUS
  <2>3. B(p) \in T
    BY <2>1, <2>2
  <2>4. p \notin B(p)
    BY <1>1, <1>4, <2>1, EarlierIsStrictOrder
  <2>5. \A q \in B(p) : q \in B(r)
    BY <1>1, <1>4, <1>8, <2>1, EarlierIsStrictOrder
  <2>6. <<B(p), B(r)>> \in StrictSubsetOrdering(S)
    BY <1>1, <1>8, <1>9, <2>1, <2>4, <2>5 DEF StrictSubsetOrdering
  <2> QED
    BY <1>7, <1>8, <2>3, <2>6
<1>10. IsFiniteSet(F) /\ B(r) \subseteq F
  BY <1>3, <1>9, FS_Subset
<1>11. Cardinality(B(r)) < n
  <2>1. Cardinality(B(r)) <= Cardinality(F)
    BY <1>10, FS_Subset
  <2>2. Cardinality(F) < n /\ Cardinality(F) \in Nat
    BY <1>10, FS_CardinalityType DEF F
  <2> QED
    BY <1>2, <1>8, <2>1, <2>2
<1> QED
  BY <1>3, <1>8, <1>11

\* No more than n rows are all among their first n.
LEMMA AllAreFirst ==
  ASSUME NEW by, by.field = "created_at", NEW S \in SUBSET RowSet, IsFiniteSet(S), NEW n \in Nat,
         Cardinality(S) <= n
  PROVE  FirstOf(by, FALSE, S, n) = S
<1>1. ASSUME NEW r \in S PROVE Cardinality(Before(by, FALSE, S, r)) < n
  <2> DEFINE B == Before(by, FALSE, S, r)
  <2>1. B = {p \in S : Earlier(by, Place(p), Place(r))}
    BY CreatedIsThePlace DEF Before, Earlier
  <2>2. Place(r) \in Spots
    BY PlacesAreSpots
  <2>3. r \notin B
    BY <2>1, <2>2, EarlierIsStrictOrder
  <2> HIDE DEF B
  <2>4. B \subseteq S /\ B # S
    BY <2>1, <2>3
  <2>5. IsFiniteSet(B) /\ Cardinality(B) <= Cardinality(S) /\ Cardinality(B) # Cardinality(S)
    BY <2>4, FS_Subset
  <2>6. Cardinality(B) \in Nat /\ Cardinality(S) \in Nat
    BY <2>5, FS_CardinalityType
  <2>7. Cardinality(B) < n
    BY <2>5, <2>6
  <2> QED
    BY <2>7 DEF B
<1> QED
  BY <1>1 DEF FirstOf
-----------------------------------------------------------------------------
(* The invariant.  While the pages are read, what was shown lies behind    *)
(* the reader, and what was in the list all the time was shown or lies     *)
(* ahead; at the end it was shown.                                         *)
Listed == {r \in rows : InList(r)}
Ahead(p) == ReaderPlace = NoPlace \/ Earlier(By, ReaderPlace, p)

Typed ==
  /\ RowsOK
  /\ request.limit \in Nat \ {0}
  /\ By.direction \in {"ASC", "DESC"}
  /\ phase \in {"idle", "first", "second", "answered"}
  /\ {cursor, next, previous} \subseteq {NoPlace} \union (Times \X Keys)
  /\ page \subseteq RowSet
  /\ stable \union shown \union twice \subseteq Times \X Keys

Phased ==
  /\ phase = "idle" => cursor = NoPlace /\ next = NoPlace /\ stable = {} /\ shown = {} /\ twice = {}
  /\ phase = "first" => next = NoPlace
  /\ phase # "idle" => stable \subseteq Places(Listed)

Walked ==
  OrderIsCreatedAt =>
    /\ twice = {}
    /\ ~ Finished => \A q \in shown : ReaderPlace # NoPlace /\ ~ Earlier(By, ReaderPlace, q)
    /\ \A q \in stable : q \in shown \/ (~ Finished /\ Ahead(q))

IInv == Typed /\ Phased /\ Walked

LEMMA NoPlaceIsNone == \A q \in Times \X Keys : q # NoPlace
BY PairsAreSpots, NoPlaceAssumption DEF Spots

LEMMA ListedStays ==
  ASSUME UNCHANGED <<entity, column, request>>
  PROVE  /\ Listed' = {r \in rows' : InList(r)}
         /\ Places(Listed)' = Places(Listed')
BY PlacesStay DEF Listed, InList, Matches, Filtered, L, Places

LEMMA InitHolds == Init0 => IInv
<1> SUFFICES ASSUME Init0 PROVE IInv
  OBVIOUS
<1>1. Typed
  BY DEF Init0, Init, Typed, RowsOK, By, DefaultOrderBy
<1>2. Phased /\ Walked
  BY DEF Init0, Phased, Walked, Finished
<1> QED
  BY <1>1, <1>2 DEF IInv

\* A step that leaves the reader and the rows of the list as they are.
LEMMA SameHolds ==
  ASSUME IInv, UNCHANGED <<entity, column, rows, writes, reader, page, next, previous, history>>
  PROVE  IInv'
<1> USE DEF reader, history
<1>1. Typed'
  BY DEF IInv, Typed, RowsOK, KeysUnique, By
<1>2. Places(Listed)' = Places(Listed)
  BY ListedStays DEF Listed
<1>3. Phased'
  BY <1>2 DEF IInv, Phased
<1>4. Walked'
  BY DEF IInv, Walked, OrderIsCreatedAt, By, Finished, ReaderPlace, Ahead, Earlier, LessBy
<1> QED
  BY <1>1, <1>3, <1>4 DEF IInv

LEMMA BeginWalkHolds == ASSUME IInv, BeginWalk PROVE IInv'
<1>1. CASE UNCHANGED <<phase, request, stable>>
  BY <1>1, SameHolds DEF BeginWalk, reply, reader, history, table
<1>2. ASSUME NEW order \in Orders, NEW limit \in PageSizes, NEW s \in Selections,
             PageAccepted(limit),
             request' = [order |-> OrderBy(order), limit |-> limit, selection |-> s],
             phase' = "first", stable' = Places({r \in rows : Matches(s, r)})
      PROVE  IInv'
  <2> USE DEF IInv
  <2>1. UNCHANGED <<entity, column, rows, writes, cursor, page, next, previous, shown, twice>>
        /\ phase = "idle"
    BY DEF BeginWalk, reply, table
  <2>2. Listed' = {r \in rows : Matches(s, r)}
    BY <1>2, <2>1 DEF Listed, InList, Matches, Filtered, L
  <2>3. stable' = Places(Listed)'
    BY <1>2, <2>2, PlacesStay DEF Places
  <2>4. limit \in Nat \ {0}
    BY <1>2, PageSizesAssumption DEF PageAccepted
  <2>5. OrderBy(order).direction \in {"ASC", "DESC"}
    BY DEF OrderBy, DefaultOrderBy
  <2>6. stable' \subseteq Times \X Keys
    BY <1>2, PlacesAreSpots DEF Places, Typed, RowsOK
  <2>7. Typed'
    BY <1>2, <2>1, <2>4, <2>5, <2>6 DEF Typed, RowsOK, KeysUnique, By
  <2>8. Phased'
    BY <1>2, <2>1, <2>3 DEF Phased
  <2>9. Walked'
    BY <1>2, <2>1 DEF Phased, Walked, Finished, Ahead, ReaderPlace
  <2> QED
    BY <2>7, <2>8, <2>9
<1> QED
  BY <1>1, <1>2 DEF BeginWalk

\* Others change rows, but a row is only stable as long as it is in the list.
LEMMA OthersHold == ASSUME IInv, Others PROVE IInv'
<1> USE DEF IInv
<1>1. RowsOK' /\ UNCHANGED <<entity, column, reader, page, next, previous, shown, twice>>
  BY CallsKeepRows DEF Others, Typed, reply, table
<1>2. stable' \subseteq stable /\ stable' \subseteq Places(Listed)'
  BY <1>1, PlacesStay, ListedStays DEF Others, Places, reader
<1>3. Typed'
  BY <1>1, <1>2 DEF Typed, reader, By
<1>4. Phased'
  BY <1>1, <1>2 DEF Phased, reader
<1>5. Walked'
  BY <1>1, <1>2 DEF Walked, OrderIsCreatedAt, By, Finished, ReaderPlace, Ahead, Earlier, LessBy, reader
<1> QED
  BY <1>3, <1>4, <1>5

LEMMA NextPageHolds == ASSUME IInv, NextPage PROVE IInv'
<1> USE DEF IInv
<1>1. /\ UNCHANGED <<entity, column, rows, writes, request, history>>
      /\ phase = "answered" /\ next # NoPlace /\ phase' = "first" /\ cursor' = next
      /\ next' = NoPlace /\ previous' = NoPlace /\ page' = {}
  BY DEF NextPage, table, data
<1>2. Typed'
  BY <1>1 DEF Typed, RowsOK, KeysUnique, By, history
<1>3. Phased'
  <2>1. Places(Listed)' = Places(Listed)
    BY <1>1, ListedStays DEF Listed
  <2> QED
    BY <1>1, <2>1 DEF Phased, history
<1>4. Walked'
  BY <1>1 DEF Walked, OrderIsCreatedAt, By, Finished, ReaderPlace, Ahead, Earlier, LessBy, history
<1> QED
  BY <1>2, <1>3, <1>4

\* Neither does the query for the page before concern the walk.
LEMMA SecondQueryHolds == ASSUME IInv, SecondQuery \/ SecondQueryFails PROVE IInv'
<1> USE DEF IInv
<1>1. /\ UNCHANGED <<entity, column, rows, writes, request, cursor, page, next, history>>
      /\ phase = "second" /\ phase' = "answered"
  BY DEF SecondQuery, SecondQueryFails, table, reply
<1>2. previous' \in {NoPlace} \union (Times \X Keys)
  <2>1. CASE SecondQueryFails
    BY <2>1 DEF SecondQueryFails, reply, Typed
  <2>2. CASE SecondQuery
    <3> DEFINE found == StoreList(By, cursor, request.limit, TRUE)
    <3>1. found \subseteq RowSet
      BY DEF StoreList, FirstOf, Candidates, Typed, RowsOK
    <3>2. previous' \in {NoPlace} \union Places(found)
      BY <2>2 DEF SecondQuery
    <3> HIDE DEF found
    <3> QED
      BY <3>1, <3>2, PlacesAreSpots DEF Places
  <2> QED
    BY <2>1, <2>2
<1>3. Typed'
  BY <1>1, <1>2 DEF Typed, RowsOK, KeysUnique, By, history
<1>4. Phased'
  <2>1. Places(Listed)' = Places(Listed)
    BY <1>1, ListedStays DEF Listed
  <2> QED
    BY <1>1, <2>1 DEF Phased, history
<1>5. Walked'
  BY <1>1 DEF Walked, OrderIsCreatedAt, By, Finished, ReaderPlace, Ahead, Earlier, LessBy, history
<1> QED
  BY <1>3, <1>4, <1>5

LEMMA FirstQueryFailsHolds == ASSUME IInv, FirstQueryFails PROVE IInv'
BY SameHolds DEF FirstQueryFails, table, reply

\* The query for the page: the page is the first part of what lies ahead, up
\* to the place of the next cursor, and all of it if there is no next cursor.
AheadRows == {r \in Listed : Ahead(Place(r))}

LEMMA PageIsWhatFollows ==
  ASSUME IInv, FirstQuery, OrderIsCreatedAt
  PROVE  /\ page' \subseteq AheadRows
         /\ next' = NoPlace => page' = AheadRows
         /\ next' # NoPlace =>
              /\ \E r \in page' : next' = Place(r)
              /\ \A r \in AheadRows : r \in page' <=> ~ Earlier(By, next', Place(r))
<1> USE DEF IInv
<1> DEFINE C == Candidates(By, cursor, FALSE)
           n == request.limit
           found == FirstOf(By, FALSE, C, n + 1)
           first == FirstOf(By, FALSE, found, n)
<1>1. phase = "first" /\ next = NoPlace /\ ReaderPlace = cursor
  BY DEF FirstQuery, Phased, ReaderPlace
<1>2. page' = first /\ next' \in {NoPlace} \union Places(found) /\ CursorOf(NextFrom(found), next')
  BY DEF FirstQuery, StoreList, Trimmed
<1>3. By.field = "created_at"
  BY DEF OrderIsCreatedAt
<1>4. C = AheadRows
  <2>1. \A r \in RowSet : OrderValue(By.field, r) # Null
    BY <1>3 DEF OrderValue, RowSet, Times, Null
  <2>2. \A r : Key(By.field, r) = Place(r)
    BY <1>3, CreatedIsThePlace
  <2>3. \A r \in rows : BeyondCursor(By, FALSE, cursor, r) <=> Ahead(Place(r))
    BY <1>1, <2>1, <2>2 DEF BeyondCursor, Ahead, Earlier, Typed, RowsOK
  <2> QED
    BY <2>3 DEF Candidates, AheadRows, Listed
<1>5. C \in SUBSET RowSet /\ IsFiniteSet(C)
  BY FS_Subset DEF Candidates, Typed, RowsOK
<1>6. found \subseteq C /\ found \in SUBSET RowSet /\ IsFiniteSet(found) /\ Cardinality(found) \in Nat
  BY <1>5, FS_Subset, FS_CardinalityType DEF FirstOf
<1>7. first \subseteq found
  BY DEF FirstOf
<1>8. n \in Nat /\ n + 1 \in Nat /\ n # 0
  BY DEF Typed
<1> HIDE DEF C, n, found, first, IInv
<1>9. ASSUME NEW x \in first, NEW r \in C \ first PROVE Earlier(By, Place(x), Place(r))
  <2>1. CASE r \in found
    BY <1>3, <1>6, <1>8, <1>9, <2>1, FirstOfIsInitial DEF first
  <2>2. CASE r \notin found
    BY <1>3, <1>5, <1>7, <1>8, <1>9, <2>2, FirstOfIsInitial DEF found
  <2> QED
    BY <2>1, <2>2
<1>10. CASE Cardinality(found) <= n
  <2> Cardinality(found) < n + 1
    BY <1>6, <1>8, <1>10
  <2>1. found = C
    BY <1>3, <1>5, <1>8, FewAreAll DEF found
  <2>2. first = found
    BY <1>3, <1>6, <1>8, <1>10, AllAreFirst DEF first
  <2>3. ~ (Cardinality(found) > n)
    BY <1>6, <1>8, <1>10
  <2>4. NextFrom(found) = {}
    BY <2>3 DEF NextFrom, n
  <2>5. next' = NoPlace
    BY <1>2, <2>4 DEF CursorOf
  <2> QED
    BY <1>2, <1>4, <2>1, <2>2, <2>5
<1>11. CASE ~ (Cardinality(found) <= n)
  <2> Cardinality(found) > n
    BY <1>6, <1>8, <1>11
  <2>1. NextFrom(found) = first
    BY DEF NextFrom, Trimmed, first, n
  <2>2. first # {}
    <3>1. SUFFICES ASSUME first = {} PROVE FALSE
      OBVIOUS
    <3>2. Cardinality(first) = 0
      BY <3>1, FS_EmptySet
    <3> Cardinality(first) < n
      BY <1>8, <3>2
    <3>3. first = found
      BY <1>3, <1>6, <1>8, FewAreAll DEF first
    <3> QED
      BY <1>8, <1>11, <3>2, <3>3
  <2>3. PICK r \in first : /\ \A q \in first : ~ Earlier(By, Place(r), Place(q))
                           /\ next' = Place(r)
    BY <1>2, <1>3, <2>1, <2>2, CreatedIsThePlace DEF CursorOf, Earlier
  <2>4. \A x \in C : x \in first <=> ~ Earlier(By, next', Place(x))
    BY <1>9, <2>3
  <2>5. next' # NoPlace
    BY <1>6, <1>7, <2>3, PlacesAreSpots, NoPlaceIsNone
  <2> QED
    BY <1>2, <1>4, <1>6, <1>7, <2>3, <2>4, <2>5
<1> QED
  BY <1>10, <1>11

LEMMA FirstQueryHolds == ASSUME IInv, FirstQuery PROVE IInv'
<1>1. /\ UNCHANGED <<entity, column, rows, writes, request, cursor, stable>>
      /\ phase = "first" /\ phase' \in {"second", "answered"} /\ previous' = NoPlace
      /\ shown' = shown \union Places(page')
      /\ twice' = twice \union (shown \intersect Places(page'))
      /\ next = NoPlace
  BY DEF FirstQuery, table, IInv, Phased
<1>2. page' \subseteq RowSet /\ next' \in {NoPlace} \union (Times \X Keys)
  <2> DEFINE found == StoreList(By, cursor, request.limit + 1, FALSE)
  <2>1. found \subseteq RowSet
    BY DEF StoreList, FirstOf, Candidates, IInv, Typed, RowsOK
  <2>2. page' \subseteq found
    BY DEF FirstQuery, Trimmed, FirstOf
  <2>3. next' \in {NoPlace} \union Places(found)
    BY DEF FirstQuery
  <2> HIDE DEF found
  <2> QED
    BY <2>1, <2>2, <2>3, PlacesAreSpots DEF Places
<1>3. Places(page') \subseteq Times \X Keys
  BY <1>2, PlacesAreSpots DEF Places
<1>4. Typed'
  BY <1>1, <1>2, <1>3 DEF IInv, Typed, RowsOK, KeysUnique, By
<1>5. Phased'
  <2>1. Places(Listed)' = Places(Listed)
    BY <1>1, ListedStays DEF Listed
  <2> QED
    BY <1>1, <2>1 DEF IInv, Phased
<1>6. Walked'
  <2>1. SUFFICES ASSUME OrderIsCreatedAt PROVE Walked'
    BY <1>1 DEF Walked, OrderIsCreatedAt, By
  <2>2. /\ page' \subseteq AheadRows
        /\ next' = NoPlace => page' = AheadRows
        /\ next' # NoPlace =>
             /\ \E r \in page' : next' = Place(r)
             /\ \A r \in AheadRows : r \in page' <=> ~ Earlier(By, next', Place(r))
    BY <2>1, PageIsWhatFollows
  <2>3. ReaderPlace = cursor /\ ~ Finished
    BY <1>1 DEF ReaderPlace, Finished
  <2>4. /\ twice = {}
        /\ \A q \in shown : cursor # NoPlace /\ ~ Earlier(By, cursor, q)
        /\ \A q \in stable : q \in shown \/ cursor = NoPlace \/ Earlier(By, cursor, q)
    BY <2>1, <2>3 DEF IInv, Walked, Ahead
  <2>5. \A r \in AheadRows : r \in RowSet /\ (cursor = NoPlace \/ Earlier(By, cursor, Place(r)))
    BY <2>3 DEF AheadRows, Ahead, Listed, IInv, Typed, RowsOK
  <2>6. twice' = {}
    BY <1>1, <2>2, <2>4, <2>5 DEF Places
  <2>7. \A a, b : Earlier(By, a, b)' <=> Earlier(By, a, b)
    BY <1>1 DEF Earlier, LessBy, By
  <2>8. ASSUME NEW q \in stable, q \notin shown PROVE \E r \in AheadRows : q = Place(r)
    <3>1. PICK r \in Listed : q = Place(r)
      BY <1>1 DEF IInv, Phased, Places
    <3> QED
      BY <2>3, <2>4, <2>8, <3>1 DEF AheadRows, Ahead
  <2>9. CASE next' = NoPlace
    <3>1. Finished'
      BY <1>1, <2>9 DEF Finished
    <3>2. \A q \in stable : q \in shown'
      BY <1>1, <2>2, <2>8, <2>9 DEF Places
    <3> QED
      BY <1>1, <2>6, <3>1, <3>2 DEF Walked
  <2>10. CASE next' # NoPlace
    <3>1. ReaderPlace' = next' /\ ~ Finished'
      BY <2>10 DEF ReaderPlace, Finished
    <3>2. ASSUME NEW q \in shown' PROVE ~ Earlier(By, next', q)
      <4>1. CASE q \in Places(page')
        BY <2>2, <2>10, <4>1 DEF Places
      <4>2. CASE q \in shown
        <5>1. PICK r \in AheadRows : next' = Place(r)
          BY <2>2, <2>10
        <5>2. cursor # NoPlace /\ ~ Earlier(By, cursor, q) /\ Earlier(By, cursor, next')
          BY <2>4, <2>5, <4>2, <5>1
        <5>3. cursor \in Spots /\ q \in Spots /\ next' \in Spots
          BY <1>2, <2>10, <4>2, <5>2, PairsAreSpots DEF IInv, Typed
        <5> QED
          BY <5>2, <5>3, EarlierIsStrictOrder
      <4> QED
        BY <1>1, <3>2, <4>1, <4>2
    <3>3. ASSUME NEW q \in stable, q \notin shown' PROVE Earlier(By, next', q)
      BY <1>1, <2>2, <2>8, <2>10, <3>3 DEF Places
    <3> QED
      BY <1>1, <2>6, <2>7, <2>10, <3>1, <3>2, <3>3 DEF Walked, Ahead
  <2> QED
    BY <2>9, <2>10
<1> QED
  BY <1>4, <1>5, <1>6 DEF IInv

LEMMA StepHolds == IInv /\ [Step]_vars => IInv'
<1> SUFFICES ASSUME IInv, [Step]_vars PROVE IInv'
  OBVIOUS
<1>1. CASE UNCHANGED vars
  BY <1>1, SameHolds DEF vars, table, data, reader, reply, history
<1>2. CASE List
  BY <1>2, FirstQueryHolds, FirstQueryFailsHolds, SecondQueryHolds DEF List
<1>3. CASE Others
  BY <1>3, OthersHold
<1>4. CASE BeginWalk \/ NextPage
  BY <1>4, BeginWalkHolds, NextPageHolds
<1> QED
  BY <1>1, <1>2, <1>3, <1>4 DEF Step, Reader, TasksList, UsersList, SessionsList,
     SessionsListByUserId, MigrationsList

THEOREM ListingInvariant == ListSpec => []IInv
BY InitHolds, StepHolds, PTL DEF ListSpec

(* Types, and at most one row for each key (generated.go of every store).  *)
THEOREM ListingTyped == ListSpec => []TypeOK
<1>1. IInv => TypeOK
  BY DEF IInv, Typed, RowsOK, TypeOK
<1> QED
  BY <1>1, ListingInvariant, PTL

(* For any table, pages and changes: the pages of a list ordered by        *)
(* created_at show no row twice (generated.go List).                       *)
THEOREM NoRowTwice == ListSpec => []NothingShownTwice
<1>1. IInv => NothingShownTwice
  BY DEF IInv, Walked, NothingShownTwice
<1> QED
  BY <1>1, ListingInvariant, PTL

(* And when they have come to their end they have shown every row that was *)
(* in the list all the time (generated.go List, encodeCursor).             *)
THEOREM NoRowSkipped == ListSpec => []StableRowsShown
<1>1. IInv => StableRowsShown
  BY DEF IInv, Walked, StableRowsShown
<1> QED
  BY <1>1, ListingInvariant, PTL
-----------------------------------------------------------------------------
(* The refinement.  The query for a page is a turn of the walk, or its     *)
(* end; a new order may only come before the first; all else is a change   *)
(* of the list.                                                            *)
WalkVars == <<IF OrderIsCreatedAt THEN Places({r \in rows : InList(r)}) ELSE {},
              By.direction = "ASC",
              IF OrderIsCreatedAt THEN ReaderPlace ELSE NoPlace,
              IF OrderIsCreatedAt THEN shown ELSE {},
              OrderIsCreatedAt /\ Finished>>

LEMMA WalkAhead ==
  ASSUME IInv, NEW p, NEW q PROVE Walk!Ahead(p, q) <=> Earlier(By, p, q)
BY DEF Walk!Ahead, Walk!Less, Earlier, LessBy, Less, IInv, Typed

LEMMA ListChanges ==
  ASSUME UNCHANGED <<phase, request, cursor, next, shown>>
         \/ (UNCHANGED <<request, shown, ReaderPlace>> /\ Finished' = Finished)
  PROVE  Walk!Next
BY DEF Walk!Next, OrderIsCreatedAt, By, ReaderPlace, Finished

LEMMA PageIsTurn == ASSUME IInv, FirstQuery PROVE Walk!Next
<1>1. /\ UNCHANGED <<entity, column, rows, request, cursor>>
      /\ phase = "first" /\ phase' \in {"second", "answered"}
      /\ shown' = shown \union Places(page') /\ next = NoPlace
      /\ ReaderPlace = cursor /\ ~ Finished
  BY DEF FirstQuery, table, IInv, Phased, ReaderPlace, Finished
<1>2. CASE ~ OrderIsCreatedAt
  BY <1>1, <1>2 DEF Walk!Next, OrderIsCreatedAt, By
<1>3. CASE OrderIsCreatedAt
  <2>1. /\ page' \subseteq AheadRows
        /\ next' = NoPlace => page' = AheadRows
        /\ next' # NoPlace =>
             /\ \E r \in page' : next' = Place(r)
             /\ \A r \in AheadRows : r \in page' <=> ~ Earlier(By, next', Place(r))
    BY <1>3, PageIsWhatFollows
  <2>2. Walk!Remaining = Places(AheadRows)
    BY <1>3, WalkAhead DEF Walk!Remaining, Places, AheadRows, Ahead, Listed
  <2>3. UNCHANGED <<IF OrderIsCreatedAt THEN Places({r \in rows : InList(r)}) ELSE {},
                    By.direction = "ASC">> /\ OrderIsCreatedAt'
    <3>1. Places(Listed)' = Places(Listed)
      BY <1>1, ListedStays DEF Listed
    <3> QED
      BY <1>1, <1>3, <3>1 DEF OrderIsCreatedAt, By, Listed
  <2>4. CASE next' = NoPlace
    <3>1. ReaderPlace' = ReaderPlace /\ Finished'
      BY <1>1, <2>4 DEF ReaderPlace, Finished
    <3>2. shown' = shown \union Walk!Remaining
      BY <1>1, <2>1, <2>2, <2>4
    <3>3. Walk!Finish
      BY <1>3, <2>3, <3>1, <3>2 DEF Walk!Finish
    <3> QED
      BY <1>1, <2>3, <3>3 DEF Walk!Next
  <2>5. CASE next' # NoPlace
    <3>1. ReaderPlace' = next' /\ ~ Finished'
      BY <2>5 DEF ReaderPlace, Finished
    <3>2. next' \in Walk!Remaining
      BY <2>1, <2>2, <2>5 DEF Places
    <3>3. Places(page') = {q \in Walk!Remaining : ~ Walk!Ahead(next', q)}
      BY <2>1, <2>2, <2>5, WalkAhead DEF Places
    <3>4. Walk!Turn(next')
      BY <1>1, <1>3, <2>3, <3>1, <3>2, <3>3 DEF Walk!Turn
    <3>5. next' \in IF OrderIsCreatedAt THEN Places({r \in rows : InList(r)}) ELSE {}
      BY <3>2 DEF Walk!Remaining
    <3> QED
      BY <1>1, <2>3, <3>4, <3>5 DEF Walk!Next
  <2> QED
    BY <2>4, <2>5
<1> QED
  BY <1>2, <1>3

LEMMA StepWalks == IInv /\ [Step]_vars => [Walk!Next]_WalkVars
<1> SUFFICES ASSUME IInv, [Step]_vars PROVE Walk!Next
  BY DEF WalkVars
<1>1. CASE UNCHANGED vars
  BY <1>1, ListChanges DEF vars, reader, reply, history
<1>2. CASE BeginWalk
  <2>1. CASE UNCHANGED <<phase, request, stable>>
    BY <1>2, <2>1, ListChanges DEF BeginWalk, reply
  <2>2. CASE phase' = "first"
    <3>1. cursor = NoPlace /\ next = NoPlace /\ cursor' = NoPlace /\ next' = NoPlace
          /\ shown = {} /\ shown' = {} /\ phase = "idle"
      BY <1>2 DEF BeginWalk, reply, IInv, Phased
    <3> QED
      BY <2>2, <3>1 DEF Walk!Next, ReaderPlace, Finished
  <2> QED
    BY <1>2, <2>1, <2>2 DEF BeginWalk
<1>3. CASE NextPage
  <2>1. UNCHANGED <<request, shown, ReaderPlace>> /\ Finished' = Finished
    BY <1>3 DEF NextPage, history, ReaderPlace, Finished
  <2> QED
    BY <2>1, ListChanges
<1>4. CASE Others
  BY <1>4, ListChanges DEF Others, reader, reply
<1>5. CASE FirstQuery
  BY <1>5, PageIsTurn
<1>6. CASE FirstQueryFails
  BY <1>6, ListChanges DEF FirstQueryFails, reader, reply, history
<1>7. CASE SecondQuery \/ SecondQueryFails
  <2>1. UNCHANGED <<request, shown, ReaderPlace>> /\ Finished' = Finished
    BY <1>7 DEF SecondQuery, SecondQueryFails, reply, history, ReaderPlace, Finished
  <2> QED
    BY <2>1, ListChanges
<1> QED
  BY <1>1, <1>2, <1>3, <1>4, <1>5, <1>6, <1>7 DEF Step, Reader, TasksList, UsersList, SessionsList,
     SessionsListByUserId, MigrationsList, List

(* Ordered by created_at, reading the pages of a changing table is a walk  *)
(* along a sorted list (generated.go List of repository and store).        *)
THEOREM ReadingIsAWalk == ListSpec => KeepsSortedWalk
<1>1. Init0 => Walk!Init
  BY DEF Init0, Walk!Init, ReaderPlace, Finished
<1> QED
  BY <1>1, ListingInvariant, StepWalks, PTL DEF ListSpec, KeepsSortedWalk, Walk!Spec, WalkVars
-----------------------------------------------------------------------------
(* The page.  What it shows was in the list when the query ran, and the    *)
(* request that asked for it is the request that the answer is for.        *)
PageInv ==
  /\ entity \in DOMAIN Layers /\ column \in Plain(entity)
  /\ phase = "idle" => page = {}
  /\ phase = "second" => cursor # NoPlace /\ previous = NoPlace
  /\ \A r \in page : InList(r)

LEMMA FilterStays ==
  ASSUME UNCHANGED <<entity, column, request>>, NEW r PROVE InList(r)' <=> InList(r)
BY DEF InList, Matches, Filtered, L

LEMMA PageStepHolds == IInv /\ PageInv /\ [Step]_vars => PageInv'
<1> SUFFICES ASSUME IInv, PageInv, [Step]_vars PROVE PageInv'
  OBVIOUS
<1>1. ASSUME UNCHANGED <<entity, column, request>>, page' \subseteq page,
             phase' = "idle" => page' = {},
             phase' = "second" => phase = "second" /\ UNCHANGED <<cursor, previous>>
      PROVE  PageInv'
  BY <1>1, FilterStays DEF PageInv
<1>2. CASE UNCHANGED vars
  BY <1>1, <1>2 DEF vars, table, reader, reply, PageInv
<1>3. CASE BeginWalk
  BY <1>3 DEF BeginWalk, PageInv, table, reply, InList
<1>4. CASE NextPage
  BY <1>1, <1>4 DEF NextPage, table
<1>5. CASE Others
  <2>1. UNCHANGED table
    BY <1>5, CallsKeepRows DEF Others, IInv, Typed
  <2> QED
    BY <1>1, <1>5, <2>1 DEF Others, PageInv, table, reader, reply
<1>6. CASE FirstQuery
  <2>1. UNCHANGED <<entity, column, request>> /\ phase' # "idle"
    BY <1>6 DEF FirstQuery, table
  <2>2. page' \subseteq Listed
    BY <1>6 DEF FirstQuery, Trimmed, StoreList, FirstOf, Candidates, Listed
  <2>3. phase' = "second" => cursor' # NoPlace /\ previous' = NoPlace
    BY <1>6 DEF FirstQuery
  <2> QED
    BY <2>1, <2>2, <2>3, FilterStays DEF PageInv, Listed
<1>7. CASE FirstQueryFails \/ SecondQueryFails
  BY <1>1, <1>7 DEF FirstQueryFails, SecondQueryFails, PageInv, table, reader, reply
<1>8. CASE SecondQuery
  BY <1>1, <1>8 DEF SecondQuery, table
<1> QED
  BY <1>2, <1>3, <1>4, <1>5, <1>6, <1>7, <1>8 DEF Step, Reader, TasksList, UsersList, SessionsList,
     SessionsListByUserId, MigrationsList, List

LEMMA PageInvariant == ListSpec => []PageInv
<1>1. Init0 => PageInv
  BY DEF Init0, Init, PageInv
<1> QED
  BY <1>1, PageStepHolds, ListingInvariant, PTL DEF ListSpec

(* Whatever a walk and its calls do, the code that does it is the code     *)
(* that the generators write of the entity's table today.                  *)
THEOREM ShippedAsGenerated == ListSpec => []ShippedIsGenerated
<1>1. PageInv => ShippedIsGenerated
  BY AllAsGenerated DEF PageInv, ShippedIsGenerated
<1> QED
  BY <1>1, PageInvariant, PTL

(* For any entity, column, table and request: a filter that the bridge     *)
(* knows holds of every row of every page (generated.go of bridge,         *)
(* repository and store).                                                  *)
THEOREM FiltersHold == ListSpec => []KnownFiltersHold
<1>1. PageInv => KnownFiltersHold
  <2>1. PageInv /\ column \in L.params => Filtered
    BY EveryParameterIsPassed DEF PageInv, L, Passed, Filtered
  <2> QED
    BY <2>1 DEF PageInv, KnownFiltersHold, InList, Matches
<1> QED
  BY <1>1, PageInvariant, PTL
-----------------------------------------------------------------------------
(* The calls.                                                              *)
\* A step that changes no row, or did not say that it had.
LEMMA SameRowsSay ==
  ASSUME RowsOK, rows' = rows, writes' = writes \/ answer'.code # "OK" PROVE DoesWhatItSays
BY DEF RowsOK, KeysUnique, DoesWhatItSays, OnlyAsSent

LEMMA NothingSays == ASSUME RowsOK, NEW c, Nothing(c) PROVE DoesWhatItSays
BY SameRowsSay DEF Nothing

LEMMA WholeColumn ==
  ASSUME PageInv
  PROVE  /\ column \in L.insertStmt.columns \intersect DOMAIN L.create
         /\ column \in L.updateStmt.set \intersect DOMAIN L.update
BY EveryColumnIsWritten DEF PageInv, L, Written

LEMMA CreateSays == ASSUME RowsOK, PageInv, NEW c, c # "OK", Create(c) PROVE DoesWhatItSays
<1>1. CASE Nothing(c)
  BY <1>1, NothingSays
<1>2. ASSUME NEW k \in Keys, At(k) = {}, NEW sent \in Times \union {Omitted}, NEW t \in Times,
             Exec(rows \union {Row(k, t, t, Inserted(sent))},
                  "create", k, sent, Inserted(sent), c)
      PROVE  DoesWhatItSays
  <2> DEFINE new == Row(k, t, t, Inserted(sent))
  <2>1. new.pk = k /\ new.value = Inserted(sent)
    BY DEF Row
  <2>2. \A q \in rows : q.pk # k
    BY <1>2 DEF At
  <2>3. sent # Omitted => Inserted(sent) = sent
    BY WholeColumn DEF Inserted
  <2>4. CASE rows' = rows /\ answer'.code # "OK"
    BY <2>4, SameRowsSay
  <2>5. CASE rows' = rows \union {new}
    <3>1. OnlyAsSent
      BY <2>1, <2>2, <2>5 DEF OnlyAsSent, RowsOK, KeysUnique
    <3>2. CASE answer'.code # "OK"
      BY <3>1, <3>2 DEF DoesWhatItSays
    <3>3. CASE answer' = Reply("create", k, sent, Inserted(sent), "OK")
      <4>1. ValueAfter(k) = {Inserted(sent)}
        BY <2>1, <2>2, <2>5 DEF ValueAfter
      <4>2. TookEffect(answer')
        BY <1>2, <2>3, <3>3, <4>1 DEF TookEffect, Reply
      <4> QED
        BY <3>1, <4>2 DEF DoesWhatItSays
    <3> QED
      BY <1>2, <3>2, <3>3 DEF Exec, Reply
  <2> QED
    BY <1>2, <2>4, <2>5 DEF Exec, Reply
<1> QED
  BY <1>1, <1>2 DEF Create

LEMMA ReplacedSays ==
  ASSUME RowsOK, NEW r \in rows, NEW q, q.pk = r.pk, q.created = r.created,
         rows' = (rows \ {r}) \union {q}, q.value # r.value => q.value = answer'.sent
  PROVE  OnlyAsSent /\ ValueBefore(r.pk) = {r.value} /\ ValueAfter(r.pk) = {q.value}
<1>1. \A p \in rows : p.pk = r.pk <=> p = r
  BY DEF RowsOK, KeysUnique
<1>2. ValueBefore(r.pk) = {r.value}
  BY <1>1 DEF ValueBefore, At
<1>3. {p \in rows' : p.pk = r.pk} = {q}
  BY <1>1
<1>4. ValueAfter(r.pk) = {q.value}
  BY <1>3 DEF ValueAfter
<1>5. OnlyAsSent
  BY <1>1 DEF OnlyAsSent, RowsOK, KeysUnique
<1> QED
  BY <1>2, <1>4, <1>5

LEMMA UpdateSays == ASSUME RowsOK, PageInv, NEW c, c # "OK", Update(c) PROVE DoesWhatItSays
<1>1. CASE Nothing(c)
  BY <1>1, NothingSays
<1>2. ASSUME NEW r \in rows, NEW sent \in Times \union {Omitted}, NEW t \in Times,
             Exec((rows \ {r}) \union {Updated(r, sent, t)}, "update", r.pk, sent, Null, c)
      PROVE  DoesWhatItSays
  <2> DEFINE q == Updated(r, sent, t)
  <2>1. /\ q.pk = r.pk /\ q.created = r.created
        /\ q.value = IF sent = Omitted THEN r.value ELSE sent
    BY WholeColumn DEF Updated, Row
  <2>2. answer'.sent = sent
    BY <1>2 DEF Exec, Reply
  <2>3. CASE rows' = rows /\ answer'.code # "OK"
    BY <2>3, SameRowsSay
  <2>4. CASE rows' = (rows \ {r}) \union {q}
    <3> HIDE DEF q
    <3>1. OnlyAsSent /\ ValueBefore(r.pk) = {r.value} /\ ValueAfter(r.pk) = {q.value}
      BY <2>1, <2>2, <2>4, ReplacedSays
    <3>2. answer'.code = "OK" => answer'.op = "update" /\ answer'.pk = r.pk
      BY <1>2 DEF Exec, Reply
    <3> QED
      BY <2>1, <2>2, <3>1, <3>2 DEF DoesWhatItSays, TookEffect
  <2> QED
    BY <1>2, <2>3, <2>4 DEF Exec, Reply
<1> QED
  BY <1>1, <1>2 DEF Update

LEMMA ArchiveSays ==
  ASSUME RowsOK, entity \in {"users", "user_sessions"}, NEW c, c # "OK", Archive(c)
  PROVE  DoesWhatItSays
<1>1. CASE Nothing(c)
  BY <1>1, NothingSays
<1>2. ASSUME NEW r \in rows,
             Exec((rows \ {r}) \union
                    {[r EXCEPT !.value = IF column \in L.archived THEN Archived ELSE @]},
                  "archive", r.pk, Archived, Null, c)
      PROVE  DoesWhatItSays
  <2> DEFINE q == [r EXCEPT !.value = IF column \in L.archived THEN Archived ELSE @]
  <2>1. /\ q.pk = r.pk /\ q.created = r.created
        /\ q.value = IF column \in L.archived THEN Archived ELSE r.value
    BY DEF RowsOK, RowSet
  <2>2. answer'.sent = Archived
    BY <1>2 DEF Exec, Reply
  <2>3. column = "status" => column \in L.archived
    BY StatusIsArchived DEF L
  <2>4. CASE rows' = rows /\ answer'.code # "OK"
    BY <2>4, SameRowsSay
  <2>5. CASE rows' = (rows \ {r}) \union {q}
    <3> HIDE DEF q
    <3>1. OnlyAsSent /\ ValueAfter(r.pk) = {q.value}
      BY <2>1, <2>2, <2>5, ReplacedSays
    <3>2. answer'.code = "OK" => answer'.op = "archive" /\ answer'.pk = r.pk
      BY <1>2 DEF Exec, Reply
    <3> QED
      BY <2>1, <2>3, <3>1, <3>2 DEF DoesWhatItSays, TookEffect
  <2> QED
    BY <1>2, <2>4, <2>5 DEF Exec, Reply
<1> QED
  BY <1>1, <1>2 DEF Archive

LEMMA DeleteSays == ASSUME RowsOK, NEW c, c # "OK", Delete(c) PROVE DoesWhatItSays
<1>1. CASE Nothing(c)
  BY <1>1, NothingSays
<1>2. ASSUME NEW r \in rows, Exec(rows \ {r}, "delete", r.pk, Omitted, Null, c)
      PROVE  DoesWhatItSays
  <2>1. CASE rows' = rows /\ answer'.code # "OK"
    BY <2>1, SameRowsSay
  <2>2. CASE rows' = rows \ {r}
    <3>1. OnlyAsSent
      BY <2>2 DEF OnlyAsSent, RowsOK, KeysUnique
    <3>2. At(r.pk) # {} /\ ValueAfter(r.pk) = {}
      BY <2>2 DEF At, ValueAfter, RowsOK, KeysUnique
    <3>3. answer'.code = "OK" => answer'.op = "delete" /\ answer'.pk = r.pk
      BY <1>2 DEF Exec, Reply
    <3> QED
      BY <3>1, <3>2, <3>3 DEF DoesWhatItSays, TookEffect
  <2> QED
    BY <1>2, <2>1, <2>2 DEF Exec, Reply
<1> QED
  BY <1>1, <1>2 DEF Delete

LEMMA GetSays == ASSUME RowsOK, NEW c, Get(c) PROVE DoesWhatItSays
BY NothingSays DEF Get

LEMMA CallsSay == ASSUME RowsOK, PageInv, Next PROVE DoesWhatItSays
<1>1. ASSUME NEW c, c # "OK",
             \/ Create(c) \/ Update(c) \/ Delete(c) \/ Get(c) \/ Nothing(c)
             \/ entity \in {"users", "user_sessions"} /\ Archive(c)
      PROVE  DoesWhatItSays
  BY <1>1, CreateSays, UpdateSays, DeleteSays, GetSays, NothingSays, ArchiveSays
<1> QED
  BY <1>1 DEF Next, TasksBridge, UsersBridge, SessionsBridge, MigrationsBridge, TasksRepository,
     UsersRepository, SessionsRepository, MigrationsRepository, UsersArchive, SessionsArchive,
     Handlers, HttpCreate, HttpGetByID, HttpUpdate, HttpDelete, Calls, BadRequest

(* For any entity, column, keys and number of calls: what a call answers   *)
(* is what it did, a row keeps its created_at, and its value changes only  *)
(* to the one that was sent (generated.go Create, Update, Archive and      *)
(* Delete of bridge, repository and store).                                *)
THEOREM AnswersAreTrue == ListSpec => CallsDoWhatTheySay
<1>1. ASSUME IInv, PageInv, Step PROVE DoesWhatItSays
  <2>1. CASE Others
    BY <1>1, <2>1, CallsSay DEF Others, IInv, Typed
  <2>2. CASE Reader
    <3>1. UNCHANGED <<rows, writes>>
      BY <2>2 DEF Reader, BeginWalk, NextPage, data, TasksList, UsersList, SessionsList,
         SessionsListByUserId, MigrationsList, List, FirstQuery, FirstQueryFails, SecondQuery,
         SecondQueryFails
    <3> QED
      BY <1>1, <3>1, SameRowsSay DEF IInv, Typed
  <2> QED
    BY <1>1, <2>1, <2>2 DEF Step
<1>2. IInv /\ PageInv /\ [Step]_vars => [DoesWhatItSays]_vars
  BY <1>1
<1> QED
  BY <1>2, ListingInvariant, PageInvariant, PTL DEF ListSpec, CallsDoWhatTheySay
-----------------------------------------------------------------------------
(* The page before.  Its query is the query for a page in the opposite     *)
(* order.                                                                  *)
Flip(by) ==
  [field |-> by.field, direction |-> IF by.direction = "DESC" THEN "ASC" ELSE "DESC"]

LEMMA FlipTurnsRound ==
  ASSUME NEW by, NEW S, NEW n
  PROVE  /\ Flip(by).field = by.field
         /\ \A a, b : Earlier(Flip(by), a, b) <=> Earlier(by, b, a)
         /\ \A a, b : LessBy(by, TRUE, a, b) <=> Earlier(by, b, a)
         /\ FirstOf(by, TRUE, S, n) = FirstOf(Flip(by), FALSE, S, n)
<1>1. \A a, b : LessBy(Flip(by), FALSE, a, b) <=> LessBy(by, TRUE, a, b)
  BY DEF Flip, LessBy
<1>2. \A a, b : LessBy(by, TRUE, a, b) <=> LessBy(by, FALSE, b, a)
  BY DEF LessBy
<1>3. Flip(by).field = by.field
  BY DEF Flip
<1>4. \A r : Before(by, TRUE, S, r) = Before(Flip(by), FALSE, S, r)
  BY <1>1, <1>3 DEF Before
<1>5. FirstOf(by, TRUE, S, n) = FirstOf(Flip(by), FALSE, S, n)
  <2> DEFINE F == FirstOf(by, TRUE, S, n)
             G == FirstOf(Flip(by), FALSE, S, n)
  <2>1. \A r : r \in F <=> r \in S /\ Cardinality(Before(by, TRUE, S, r)) < n
    BY DEF FirstOf
  <2>2. \A r : r \in G <=> r \in S /\ Cardinality(Before(Flip(by), FALSE, S, r)) < n
    BY DEF FirstOf
  <2>3. \A r : r \in F <=> r \in G
    BY <1>4, <2>1, <2>2
  <2>4. F \subseteq S /\ G \subseteq S
    BY DEF FirstOf
  <2> HIDE DEF F, G
  <2>5. F = G
    BY <2>3, <2>4
  <2> QED
    BY <2>5 DEF F, G
<1>6. \A a, b : Earlier(Flip(by), a, b) <=> Earlier(by, b, a)
  BY <1>1, <1>2 DEF Earlier
<1>7. \A a, b : LessBy(by, TRUE, a, b) <=> Earlier(by, b, a)
  BY <1>2 DEF Earlier
<1> QED
  BY <1>3, <1>5, <1>6, <1>7

\* n rows before which there are no others are the first n.
Initial(by, S, W) == \A x \in W, r \in S \ W : Earlier(by, Place(x), Place(r))

LEMMA InitialIsFirst ==
  ASSUME NEW by, by.field = "created_at", NEW S \in SUBSET RowSet, IsFiniteSet(S),
         NEW W \in SUBSET S, Initial(by, S, W)
  PROVE  FirstOf(by, FALSE, S, Cardinality(W)) = W
<1> DEFINE B(q) == Before(by, FALSE, S, q)
<1>1. \A q \in S : B(q) = {p \in S : Earlier(by, Place(p), Place(q))}
  BY CreatedIsThePlace DEF Before, Earlier
<1>2. \A q \in S : IsFiniteSet(B(q)) /\ Cardinality(B(q)) \in Nat
  BY FS_Subset, FS_CardinalityType DEF Before
<1>3. \A q \in S : Place(q) \in Spots
  BY PlacesAreSpots
<1>4. IsFiniteSet(W) /\ Cardinality(W) \in Nat
  BY FS_Subset, FS_CardinalityType
<1>5. FirstOf(by, FALSE, S, Cardinality(W)) = {q \in S : Cardinality(B(q)) < Cardinality(W)}
  BY DEF FirstOf
<1> HIDE DEF B
<1>6. ASSUME NEW x \in W PROVE Cardinality(B(x)) < Cardinality(W)
  <2>1. x \notin B(x)
    BY <1>1, <1>3, EarlierIsStrictOrder
  <2>2. B(x) \subseteq W
    BY <1>1, <1>3, EarlierIsStrictOrder DEF Initial
  <2>3. Cardinality(B(x)) <= Cardinality(W) /\ Cardinality(B(x)) # Cardinality(W)
    BY <1>4, <2>1, <2>2, FS_Subset
  <2> QED
    BY <1>2, <1>4, <2>3
<1>7. ASSUME NEW r \in S \ W PROVE ~ (Cardinality(B(r)) < Cardinality(W))
  <2>1. W \subseteq B(r)
    BY <1>1 DEF Initial
  <2>2. Cardinality(W) <= Cardinality(B(r))
    BY <1>2, <2>1, FS_Subset
  <2> QED
    BY <1>2, <1>4, <2>2
<1> QED
  BY <1>5, <1>6, <1>7

\* A row is known by its place.
LEMMA OnePlaceEach ==
  ASSUME RowsOK, NEW r \in rows, NEW q \in rows, Place(r) = Place(q) PROVE r = q
<1>1. <<r.created, r.pk>> = <<q.created, q.pk>>
  BY PlacesStay
<1>2. r.pk = q.pk
  BY <1>1
<1> QED
  BY <1>2 DEF RowsOK, KeysUnique

LEMMA BeyondIsBehind ==
  ASSUME NEW by, by.field = "created_at", NEW r \in RowSet, NEW c, c # NoPlace
  PROVE  /\ BeyondCursor(by, FALSE, c, r) <=> Earlier(by, c, Place(r))
         /\ BeyondCursor(by, TRUE, c, r) <=> Earlier(by, Place(r), c)
<1>1. OrderValue(by.field, r) # Null
  BY DEF OrderValue, RowSet, Times, Null
<1> QED
  BY <1>1, CreatedIsThePlace, FlipTurnsRound DEF BeyondCursor, Earlier

\* A full page before, taken back by one row, is the page that ends here.
LEMMA SecondQueryLeadsBack ==
  ASSUME IInv, PageInv, SecondQuery, OrderIsCreatedAt PROVE LeadsBack
<1> DEFINE n == request.limit
           C == Candidates(By, cursor, TRUE)
           found == FirstOf(By, TRUE, C, n)
           here == {r \in rows : InList(r) /\ Place(r) = cursor}
           D == Candidates(By, previous', FALSE)
<1>1. SUFFICES ASSUME previous' # NoPlace, here # {}
               PROVE  LET back == FirstOf(By, FALSE, D, n) IN
                      /\ here \subseteq back
                      /\ Cardinality(back) = n
                      /\ \A r \in back, h \in here : ~ Earlier(By, Place(h), Place(r))
  BY DEF LeadsBack, StoreList, Earlier
<1>2. By.field = "created_at" /\ n \in Nat
  BY DEF OrderIsCreatedAt, IInv, Typed
<1>3. rows \in SUBSET RowSet /\ IsFiniteSet(rows)
  BY DEF IInv, Typed, RowsOK
<1>4. cursor # NoPlace /\ cursor \in Spots
  BY PairsAreSpots DEF SecondQuery, PageInv, IInv, Typed
<1>5. /\ C = {r \in rows : InList(r) /\ Earlier(By, Place(r), cursor)}
      /\ D = {r \in rows : InList(r) /\ Earlier(By, previous', Place(r))}
  BY <1>1, <1>2, <1>3, <1>4, BeyondIsBehind DEF Candidates
<1>6. \A r \in rows : Place(r) \in Spots
  BY <1>3, PlacesAreSpots
<1>7. C \in SUBSET RowSet /\ IsFiniteSet(C) /\ D \in SUBSET RowSet /\ IsFiniteSet(D)
  BY <1>3, <1>5, FS_Subset
<1>8. found \subseteq C /\ IsFiniteSet(found)
  BY <1>7, FS_Subset DEF FirstOf
<1>9. PICK p \in found : /\ \A q \in found : ~ Earlier(By, Place(q), Place(p))
                         /\ previous' = Place(p) /\ Cardinality(found) = n
  <2>1. PreviousFrom(found) # {} /\ found = StoreList(By, cursor, n, TRUE)
    BY <1>1 DEF SecondQuery, StoreList, PreviousFrom
  <2>2. \A a, b : LessBy(By, TRUE, Key(By.field, a), Key(By.field, b))
                    <=> Earlier(By, Place(b), Place(a))
    BY <1>2, CreatedIsThePlace, FlipTurnsRound
  <2> QED
    BY <2>1, <2>2 DEF SecondQuery, PreviousFrom
<1>10. ASSUME NEW x \in found, NEW r \in C \ found PROVE Earlier(By, Place(r), Place(x))
  <2>1. found = FirstOf(Flip(By), FALSE, C, n) /\ Flip(By).field = "created_at"
    BY <1>2, FlipTurnsRound
  <2>2. Earlier(Flip(By), Place(x), Place(r))
    BY <1>2, <1>7, <1>10, <2>1, FirstOfIsInitial
  <2> QED
    BY <2>2, FlipTurnsRound
<1>11. PICK h \in rows : InList(h) /\ Place(h) = cursor /\ here = {h}
  BY <1>1, OnePlaceEach DEF IInv, Typed
<1> DEFINE W == (found \ {p}) \union {h}
<1> HIDE DEF C, D, found, here, n, IInv
<1>12. p \in C /\ p \in rows /\ Place(p) \in Spots
  BY <1>5, <1>6, <1>8
<1>13. W \subseteq D
  <2>1. ASSUME NEW x \in found, x # p PROVE x \in D
    <3>1. x \in rows /\ InList(x) /\ Place(x) \in Spots
      BY <1>5, <1>6, <1>8, <2>1
    <3>2. Place(x) # Place(p)
      BY <1>12, <2>1, <3>1, OnePlaceEach DEF IInv, Typed
    <3> QED
      BY <1>5, <1>9, <1>12, <2>1, <3>1, <3>2, EarlierIsStrictOrder
  <2>2. h \in D
    BY <1>5, <1>9, <1>11, <1>12
  <2> QED
    BY <2>1, <2>2
<1>14. \A x \in W : ~ Earlier(By, cursor, Place(x))
  BY <1>4, <1>5, <1>6, <1>8, <1>11, EarlierIsStrictOrder
<1>15. ASSUME NEW r \in D \ W PROVE Earlier(By, cursor, Place(r))
  <2>1. r \in rows /\ InList(r) /\ Place(r) \in Spots /\ Earlier(By, Place(p), Place(r))
    BY <1>5, <1>6, <1>9, <1>15
  <2>2. SUFFICES ASSUME ~ Earlier(By, cursor, Place(r)) PROVE FALSE
    OBVIOUS
  <2>3. Place(r) # cursor
    BY <1>11, <1>15, <2>1, OnePlaceEach DEF IInv, Typed
  <2>4. r \in C
    BY <1>4, <1>5, <2>1, <2>2, <2>3, EarlierIsStrictOrder
  <2>5. r # p
    BY <2>1, EarlierIsStrictOrder
  <2>6. Earlier(By, Place(r), Place(p))
    BY <1>10, <1>15, <2>4, <2>5
  <2> QED
    BY <1>12, <2>1, <2>6, EarlierIsStrictOrder
<1>16. Initial(By, D, W)
  <2> SUFFICES ASSUME NEW x \in W, NEW r \in D \ W PROVE Earlier(By, Place(x), Place(r))
    BY DEF Initial
  <2>1. Place(x) \in Spots /\ Place(r) \in Spots
    BY <1>5, <1>6, <1>13
  <2> QED
    BY <1>4, <1>14, <1>15, <2>1, EarlierIsStrictOrder
<1>17. Cardinality(W) = n
  <2>1. Cardinality(found \ {p}) = n - 1 /\ IsFiniteSet(found \ {p})
    BY <1>8, <1>9, FS_RemoveElement
  <2>2. h \notin found
    BY <1>4, <1>5, <1>8, <1>11, EarlierIsStrictOrder
  <2>3. Cardinality(W) = n - 1 + 1
    BY <2>1, <2>2, FS_AddElement
  <2> QED
    BY <1>2, <2>3
<1>18. h \in W /\ W \in SUBSET D
  BY <1>13
<1> HIDE DEF W
<1>19. FirstOf(By, FALSE, D, n) = W
  <2>1. FirstOf(By, FALSE, D, Cardinality(W)) = W
    BY <1>2, <1>7, <1>16, <1>18, InitialIsFirst
  <2> QED
    BY <1>17, <2>1
<1> QED
  BY <1>11, <1>14, <1>17, <1>19, <1>18

(* For any table, size of pages and request: the PreviousCursor of a list  *)
(* ordered by created_at, asked for at once, shows a full page that ends   *)
(* with the row of the cursor that led here (generated.go List).           *)
THEOREM PreviousPageIsBefore == ListSpec => PreviousCursorLeadsBack
<1>1. ASSUME IInv, PageInv, Step PROVE AnswerLeadsBack
  <2>1. SUFFICES ASSUME phase = "second", phase' = "answered", OrderIsCreatedAt
                 PROVE  LeadsBack
    BY DEF AnswerLeadsBack
  <2>2. SecondQuery \/ SecondQueryFails
    BY <1>1, <2>1 DEF Step, Reader, BeginWalk, NextPage, Others, reader, TasksList, UsersList,
       SessionsList, SessionsListByUserId, MigrationsList, List, FirstQuery, FirstQueryFails
  <2>3. CASE SecondQueryFails
    BY <1>1, <2>1, <2>3 DEF SecondQueryFails, reply, PageInv, LeadsBack
  <2> QED
    BY <1>1, <2>1, <2>2, <2>3, SecondQueryLeadsBack
<1>2. IInv /\ PageInv /\ [Step]_vars => [AnswerLeadsBack]_vars
  BY <1>1
<1> QED
  BY <1>2, ListingInvariant, PageInvariant, PTL DEF ListSpec, PreviousCursorLeadsBack
=============================================================================
