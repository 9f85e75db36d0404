------------------------------ MODULE Listing -------------------------------
(***************************************************************************)
(* List and ListBy<foreign key>: a client of the HTTP bridge reads the     *)
(* pages of one list, request by request, while the calls of Records       *)
(* change the table.  A request makes up to two queries, one for the page  *)
(* and, if it has a cursor, one for the page before; the table may change  *)
(* between them and between two requests.                                  *)
(***************************************************************************)
EXTENDS Records

CONSTANTS
  Orders,     \* the order parameters a client may send
  PageSizes,  \* the limit parameters a client may send
  NoPlace     \* the absent cursor

ASSUME OrdersAssumption ==
  Orders \subseteq [field : STRING, direction : {"none", "asc", "desc", "bad"}]
ASSUME PageSizesAssumption == PageSizes \subseteq Int
ASSUME NoPlaceAssumption == NoPlace \notin Int \X Int

VARIABLES
  phase,      \* how far the client and its current request are
  request,    \* the parameters it repeats with every page
  cursor,     \* the cursor of the current request
  page,       \* the rows the current request found
  next,       \* NextCursor of its answer
  previous,   \* PreviousCursor of its answer
  hasPrev,    \* HasPrev of its answer
  stable,     \* history: the rows that were in the list all the time
  shown,      \* history: the rows that were on a page
  twice       \* history: the rows that were on more than one page

reader == <<phase, request, cursor>>
reply == <<page, next, previous, hasPrev>>
history == <<stable, shown, twice>>
vars == <<table, data, reader, reply, history>>
-----------------------------------------------------------------------------
(* The parameters of a request.                                            *)
DefaultOrderBy == [field |-> "created_at", direction |-> "DESC"]

\* parseGeneratedOrderBy: whatever cannot be parsed is the default.
OrderBy(order) ==
  IF order.field \notin L.orderParams \intersect L.orderBy \/ order.direction = "bad"
  THEN DefaultOrderBy
  ELSE [field |-> order.field,
        direction |-> IF order.direction = "desc" THEN "DESC" ELSE "ASC"]

PageAccepted(limit) == limit > 0 /\ limit <= 100

\* A filter is a query parameter named as the column, or the search term; a
\* list by foreign key is asked for by the path of its route, or by other code
\* that calls ListBy<foreign key> of the repository.
Malformed == -2
Selections ==
  [kind : {"all"}, value : {Null}]
    \union [kind : {"filter"}, value : {1, Malformed}]
    \union [kind : {"search"}, value : {1}]
    \union (IF column \in L.path.foreign THEN [kind : {"route", "foreign"}, value : {1}] ELSE {})

\* parseGeneratedPath insists on the primary key, which the path of the route
\* of a foreign key does not have.
PathAccepted(s) == s.kind = "route" => L.path.key = column

FilterAccepted(s) ==
  s.kind = "filter" /\ s.value = Malformed /\ column \in L.params
    => L.parse[column] = "string"

\* What the statement's WHERE demands of a row: the parameter has to get
\* through the bridge's params, its parser, the filter struct and applyFilter.
Filtered ==
  column \in L.params \intersect DOMAIN L.parse
               \intersect DOMAIN L.filter.exact \intersect L.conditions.exact
Matches(s, r) ==
  /\ s.kind = "filter" /\ Filtered => r.value = s.value
  /\ s.kind = "search" => column \in L.search /\ r.value = s.value
  /\ s.kind = "foreign" => r.value = s.value

InList(r) == Matches(request.selection, r)
-----------------------------------------------------------------------------
(* One query of the store.                                                 *)
OrderValue(field, r) ==
  IF field = "created_at" THEN r.created
  ELSE IF field = "updated_at" THEN r.updated
  ELSE IF field = L.pk THEN r.pk ELSE r.value

Key(field, r) == <<OrderValue(field, r), r.pk>>
Place(r) == Key("created_at", r)
Places(S) == {Place(r) : r \in S}
Less(a, b) == a[1] < b[1] \/ (a[1] = b[1] /\ a[2] < b[2])

\* determineOperator and AddOrderByClause: both turn round for the page before.
LessBy(by, forPrevious, a, b) ==
  IF (by.direction = "DESC") # forPrevious THEN Less(b, a) ELSE Less(a, b)

TimesOnly(field) == L.entity[field] \in {"time.Time", "*time.Time"}

\* A cursor holds created_at: PostgreSQL cannot compare it with a column of
\* another type, and a comparison with NULL is not true.
Fits(by, c) == by.field \in L.orderColumns /\ (c = NoPlace \/ TimesOnly(by.field))
FromCursor(by, forPrevious, c, r) ==
  \/ c = NoPlace
  \/ /\ OrderValue(by.field, r) # Null
     /\ ~ LessBy(by, forPrevious, Key(by.field, r), c)

BeyondCursor(by, forPrevious, c, r) ==
  \/ c = NoPlace
  \/ /\ OrderValue(by.field, r) # Null
     /\ LessBy(by, forPrevious, c, Key(by.field, r))

Candidates(by, c, forPrevious) ==
  {r \in rows : InList(r) /\ BeyondCursor(by, forPrevious, c, r)}
Before(by, forPrevious, S, r) ==
  {q \in S : LessBy(by, forPrevious, Key(by.field, q), Key(by.field, r))}
FirstOf(by, forPrevious, S, limit) ==
  {r \in S : Cardinality(Before(by, forPrevious, S, r)) < limit}

StoreList(by, c, limit, forPrevious) ==
  FirstOf(by, forPrevious, Candidates(by, c, forPrevious), limit)
-----------------------------------------------------------------------------
Init0 ==
  /\ Init
  /\ phase = "idle"
  /\ request = [order |-> DefaultOrderBy, limit |-> 1, selection |-> [kind |-> "all", value |-> Null]]
  /\ cursor = NoPlace /\ next = NoPlace /\ previous = NoPlace
  /\ page = {} /\ hasPrev = FALSE
  /\ stable = {} /\ shown = {} /\ twice = {}

By == request.order
ListReply(code) == answer' = Reply("none", 0, Omitted, Null, code)

\* The client asks for the first page of a list.
BeginWalk ==
  /\ phase = "idle"
  /\ UNCHANGED <<table, rows, writes, cursor, reply, shown, twice>>
  /\ \E order \in Orders, limit \in PageSizes, s \in Selections :
       IF PathAccepted(s) /\ PageAccepted(limit) /\ FilterAccepted(s)
       THEN /\ request' = [order |-> OrderBy(order), limit |-> limit, selection |-> s]
            /\ phase' = "first"
            /\ stable' = Places({r \in rows : Matches(s, r)})
            /\ UNCHANGED answer
       ELSE ListReply("InvalidArgument") /\ UNCHANGED <<phase, request, stable>>

Trimmed(found) == FirstOf(By, FALSE, found, request.limit)

NextFromExtra(found) == IF Cardinality(found) > request.limit THEN found ELSE {}

\* A cursor for the next page only if there was one row more than asked for.
NextFrom(found) == IF Cardinality(found) > request.limit THEN Trimmed(found) ELSE {}

CursorOfFirst(S, c) ==
  IF S = {} THEN c = NoPlace
  ELSE \E r \in S : /\ \A q \in S : ~ LessBy(By, FALSE, Key(By.field, q), Key(By.field, r))
                    /\ c = Place(r)

\* encodeCursor of the last row shown.
CursorOf(S, c) ==
  IF S = {} THEN c = NoPlace
  ELSE \E r \in S : /\ \A q \in S : ~ LessBy(By, FALSE, Key(By.field, r), Key(By.field, q))
                    /\ c = Place(r)

\* The query for the page, with one row more than asked for.
FirstQuery ==
  /\ phase = "first"
  /\ Fits(By, cursor)
  /\ LET found == StoreList(By, cursor, request.limit + 1, FALSE)
     IN /\ page' = Trimmed(found)
        /\ next' \in {NoPlace} \union Places(found)
        /\ CursorOf(NextFrom(found), next')
        /\ shown' = shown \union Places(page')
        /\ twice' = twice \union (shown \intersect Places(page'))
  /\ previous' = NoPlace /\ hasPrev' = FALSE
  /\ IF cursor = NoPlace THEN phase' = "answered" /\ ListReply("OK")
                         ELSE phase' = "second" /\ UNCHANGED answer
  /\ UNCHANGED <<table, rows, writes, request, cursor, stable>>

\* An error of the query; the client may repeat the request.
FirstQueryFails ==
  /\ phase = "first"
  /\ ListReply("Internal")
  /\ UNCHANGED <<table, rows, writes, reader, reply, history>>

PreviousFromAny(found) == found

\* PreviousCursor is given for a full page before, and is its first row.
PreviousFrom(found) == IF Cardinality(found) = request.limit THEN found ELSE {}

\* The query for the page before, with the same cursor.
SecondQuery ==
  /\ phase = "second"
  /\ LET found == StoreList(By, cursor, request.limit, TRUE)
     IN /\ hasPrev' = (found # {})
        /\ previous' \in {NoPlace} \union Places(found)
        /\ IF PreviousFrom(found) = {} THEN previous' = NoPlace
           ELSE \E r \in found :
                  /\ \A q \in found : ~ LessBy(By, TRUE, Key(By.field, r), Key(By.field, q))
                  /\ previous' = Place(r)
  /\ phase' = "answered"
  /\ ListReply("OK")
  /\ UNCHANGED <<table, rows, writes, request, cursor, page, next, history>>

\* Its error is not reported: there is just no page before.
SecondQueryFails ==
  /\ phase = "second"
  /\ phase' = "answered"
  /\ ListReply("OK")
  /\ UNCHANGED <<table, rows, writes, request, cursor, reply, history>>

NextPage ==
  /\ phase = "answered" /\ next # NoPlace
  /\ phase' = "first"
  /\ cursor' = next
  /\ next' = NoPlace /\ page' = {} /\ previous' = NoPlace /\ hasPrev' = FALSE
  /\ UNCHANGED <<table, data, request, history>>

List == FirstQuery \/ FirstQueryFails \/ SecondQuery \/ SecondQueryFails

TasksList == entity = "tasks" /\ List
UsersList == entity = "users" /\ List
SessionsList == entity = "user_sessions" /\ request.selection.kind # "foreign" /\ List
SessionsListByUserId == entity = "user_sessions" /\ request.selection.kind = "foreign" /\ List
MigrationsList == entity = "schema_migrations" /\ List

Reader ==
  \/ BeginWalk \/ NextPage
  \/ TasksList \/ UsersList \/ SessionsList \/ SessionsListByUserId \/ MigrationsList

\* Meanwhile others use the same table.
Others ==
  /\ Next
  /\ stable' = stable \intersect Places({r \in rows' : InList(r)})
  /\ UNCHANGED <<reader, reply, shown, twice>>

Step == Reader \/ Others

ListSpec == Init0 /\ [][Step]_vars
-----------------------------------------------------------------------------
OrderIsCreatedAt == By.field = "created_at"
Finished == phase \in {"second", "answered"} /\ next = NoPlace
ReaderPlace == IF next = NoPlace THEN cursor ELSE next

TypeOK ==
  /\ rows \subseteq RowSet /\ KeysUnique
  /\ writes \in 0 .. MaxWrites
  /\ phase \in {"idle", "first", "second", "answered"}
  /\ {cursor, next, previous} \subseteq {NoPlace} \union (Times \X Keys)
  /\ page \subseteq RowSet
  /\ stable \union shown \union twice \subseteq Times \X Keys

(* generated.go List, ordered by created_at: when the pages have come to   *)
(* their end, every row that was in the list from the first request to the *)
(* last was on one of them, whatever was inserted, deleted, changed or     *)
(* failed meanwhile.                                                       *)
StableRowsShown == Finished /\ OrderIsCreatedAt => stable \subseteq shown

(* Ordered by created_at, no row is on two pages of a walk.                *)
NothingShownTwice == OrderIsCreatedAt => twice = {}

(* A parameter that the bridge knows narrows the list on its whole way     *)
(* through filter struct and SQL: every row of every page has the value    *)
(* that was asked for.                                                     *)
KnownFiltersHold ==
  request.selection.kind = "foreign"
    \/ (request.selection.kind = "filter" /\ column \in L.params)
  => \A r \in page : r.value = request.selection.value

(* PreviousCursor leads to the page before: asked for at once, it shows a  *)
(* full page that ends with the row of the cursor that led here, provided  *)
(* that row is still there.                                                *)
LeadsBack ==
  LET back == StoreList(By, previous', request.limit, FALSE)
      here == {r \in rows : InList(r) /\ Place(r) = cursor}
  IN previous' # NoPlace /\ here # {} =>
       /\ here \subseteq back
       /\ Cardinality(back) = request.limit
       /\ \A r \in back, h \in here : ~ LessBy(By, FALSE, Place(h), Place(r))
AnswerLeadsBack == phase = "second" /\ phase' = "answered" /\ OrderIsCreatedAt => LeadsBack
PreviousCursorLeadsBack == [][AnswerLeadsBack]_vars

(* What a call answers is what it did, and nothing else changes: a row's   *)
(* value is that of the request that named the column, its created_at      *)
(* never changes, and a call that was answered with OK has taken effect.   *)
ValueBefore(k) == {r.value : r \in At(k)}
ValueAfter(k) == {r.value : r \in {q \in rows' : q.pk = k}}
OnlyAsSent ==
  \A r \in rows, q \in rows' : r.pk = q.pk =>
    r.created = q.created /\ (r.value # q.value => q.value = answer'.sent)
TookEffect(a) ==
  CASE a.op = "create" ->
         At(a.pk) = {} /\ ValueAfter(a.pk) = {a.value} /\ (a.sent # Omitted => a.value = a.sent)
    [] a.op = "update" ->
         ValueAfter(a.pk) = IF a.sent = Omitted THEN ValueBefore(a.pk) ELSE {a.sent}
    [] a.op = "archive" -> column = "status" => ValueAfter(a.pk) = {Archived}
    [] a.op = "delete" -> At(a.pk) # {} /\ ValueAfter(a.pk) = {}
    [] OTHER -> FALSE
DoesWhatItSays ==
  OnlyAsSent /\ (writes' # writes /\ answer'.code = "OK" => TookEffect(answer'))
CallsDoWhatTheySay == [][DoesWhatItSays]_vars

(* Ordered by created_at, reading the pages is a walk along a sorted list. *)
Walk == INSTANCE SortedWalk WITH
  list <- IF OrderIsCreatedAt THEN Places({r \in rows : InList(r)}) ELSE {},
  ascending <- By.direction = "ASC",
  place <- IF OrderIsCreatedAt THEN ReaderPlace ELSE NoPlace,
  shown <- IF OrderIsCreatedAt THEN shown ELSE {},
  finished <- OrderIsCreatedAt /\ Finished
KeepsSortedWalk == Walk!Spec
=============================================================================
