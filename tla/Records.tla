------------------------------ MODULE Records -------------------------------
(***************************************************************************)
(* The table of one entity and everything but List that its bridge,        *)
(* repository and store do with it.  Each call is one SQL statement, so    *)
(* calls of concurrent clients interleave as whole statements.             *)
(*                                                                         *)
(* Of a row the model keeps the key, the two stamps and the value of one   *)
(* column, which is any column of any entity.  Stamps and values are small *)
(* numbers; the database's clock and the program's are independent and may *)
(* step back, so a new stamp is any time.                                  *)
(***************************************************************************)
EXTENDS Entities, Integers, FiniteSets

CONSTANTS
  Keys,       \* primary keys, as numbers in the order of their collation
  MaxTime,    \* BOUND: times are 1 .. MaxTime
  MaxWrites   \* BOUND: how many statements may change the table

ASSUME KeysAssumption == Keys \subseteq Nat
ASSUME TimeAssumption == MaxTime \in Nat
ASSUME WritesAssumption == MaxWrites \in Nat

VARIABLES
  entity,     \* which of the four
  column,     \* the column whose value the rows show
  rows,       \* the committed rows
  answer,     \* the answer of the last call
  writes      \* how many statements may have changed the table

table == <<entity, column>>
data == <<rows, answer, writes>>

Times == 1 .. MaxTime
Zero == 0              \* "", 0, false or the year 1
Null == MaxTime + 1    \* NULL, which ORDER BY takes for the greatest value
Values == Zero .. Null
Archived == 1          \* postgresdb.StatusArchived among the values
Omitted == -1          \* a field the client left out, or sent as null

L == Layers[entity]
Row(k, created, updated, value) ==
  [pk |-> k, created |-> created, updated |-> updated, value |-> value]
RowSet == [pk : Keys, created : Times, updated : Times, value : Values]
KeysUnique == \A r, q \in rows : r.pk = q.pk => r = q
At(k) == {r \in rows : r.pk = k}

Reply(op, k, sent, value, code) ==
  [op |-> op, pk |-> k, sent |-> sent, value |-> value, code |-> code]
NoReply == Reply("none", 0, Omitted, Null, "none")

Init ==
  /\ entity \in DOMAIN Layers
  /\ column \in Plain(entity)
  /\ rows \in SUBSET RowSet
  /\ KeysUnique /\ IsFiniteSet(rows)
  /\ answer = NoReply
  /\ writes = 0
-----------------------------------------------------------------------------
(* The statements.  pool.Exec or pool.Query may fail before anything       *)
(* happened, or after the statement took effect (the connection breaks,    *)
(* the request's context ends); either way the caller gets an error.       *)
(* Of such an answer only the code matters.                                *)
Nothing(code) ==
  /\ answer' = Reply("none", 0, Omitted, Null, code)
  /\ UNCHANGED <<table, rows, writes>>

Exec(after, op, k, sent, value, onError) ==
  /\ writes < MaxWrites
  /\ writes' = writes + 1
  /\ UNCHANGED table
  /\ \/ rows' = after /\ answer' = Reply(op, k, sent, value, "OK")
     \/ rows' = after /\ answer' = Reply(op, k, sent, Null, onError)
     \/ rows' = rows /\ answer' = Reply(op, k, sent, Null, onError)

InsertedAsSent(sent) == sent

\* What INSERT writes into the column: what the client sent, or the zero value
\* of the field's Go type.  The column's DEFAULT never applies, for the
\* statement names every column of the struct.
Inserted(sent) ==
  IF column \notin L.insertStmt.columns \intersect DOMAIN L.create THEN Null
  ELSE IF sent # Omitted THEN sent
  ELSE IF L.create[column] = Pointer[L.create[column]] THEN Null
  ELSE Zero

Create(onError) ==
  \E k \in Keys :
    \/ L.insertStmt.key = "client" /\ At(k) # {} /\ Nothing(onError)
    \/ /\ At(k) = {}
       /\ \E sent \in Times \union {Omitted}, t \in Times :
            Exec(rows \union {Row(k, t, t, Inserted(sent))},
                 "create", k, sent, Inserted(sent), onError)

Get(onError) == Nothing(onError) \/ (rows # {} /\ Nothing("OK"))

UpdatesEveryField(r, sent, t) ==
  Row(r.pk, r.created, t, IF sent # Omitted THEN sent ELSE Null)

\* One row of UPDATE: only the fields that are not nil, and updated_at.
Updated(r, sent, t) ==
  Row(r.pk, r.created, t,
      IF sent # Omitted /\ column \in L.updateStmt.set \intersect DOMAIN L.update
      THEN sent ELSE r.value)

\* The body may name other columns alone.  t is its updated_at, or else the
\* program's clock.
Update(onError) ==
  \/ Nothing(onError)   \* no fields to update, or no such row
  \/ \E r \in rows, sent \in Times \union {Omitted}, t \in Times :
       Exec((rows \ {r}) \union {Updated(r, sent, t)}, "update", r.pk, sent, Null, onError)

Delete(onError) ==
  \/ Keys \ {r.pk : r \in rows} # {} /\ Nothing(onError)
  \/ \E r \in rows : Exec(rows \ {r}, "delete", r.pk, Omitted, Null, onError)

\* Archive sets the status and leaves updated_at as it is.
Archive(onError) ==
  \/ Keys \ {r.pk : r \in rows} # {} /\ Nothing(onError)
  \/ \E r \in rows :
       Exec((rows \ {r}) \union
              {[r EXCEPT !.value = IF column \in L.archived THEN Archived ELSE @]},
            "archive", r.pk, Archived, Null, onError)
-----------------------------------------------------------------------------
(* The HTTP handlers: what they refuse themselves, and the code they give  *)
(* to an error of the repository.                                          *)
BadRequest == Nothing("InvalidArgument")

HttpCreate == BadRequest \/ Create("Internal")
HttpGetByID == Get("NotFound")
HttpUpdate == BadRequest \/ Update("Internal")
HttpDelete == Delete("Internal")

Handlers == HttpCreate \/ HttpGetByID \/ HttpUpdate \/ HttpDelete

\* Other callers of the repository get an error, whatever its code.
Calls == Create("Internal") \/ Get("Internal") \/ Update("Internal") \/ Delete("Internal")

TasksBridge == entity = "tasks" /\ Handlers
UsersBridge == entity = "users" /\ Handlers
SessionsBridge == entity = "user_sessions" /\ Handlers
MigrationsBridge == entity = "schema_migrations" /\ Handlers

TasksRepository == entity = "tasks" /\ Calls
UsersRepository == entity = "users" /\ Calls
SessionsRepository == entity = "user_sessions" /\ Calls
MigrationsRepository == entity = "schema_migrations" /\ Calls
UsersArchive == entity = "users" /\ Archive("Internal")
SessionsArchive == entity = "user_sessions" /\ Archive("Internal")

Next ==
  \/ TasksBridge \/ UsersBridge \/ SessionsBridge \/ MigrationsBridge
  \/ TasksRepository \/ UsersRepository \/ SessionsRepository \/ MigrationsRepository
  \/ UsersArchive \/ SessionsArchive

Spec == Init /\ [][Next]_<<table, data>>
=============================================================================
