--------------------------- MODULE EntitiesProofs ---------------------------
(***************************************************************************)
(* What the layers of an entity agree on: for the four entities as they    *)
(* are shipped, that no column that a client may write, and no parameter   *)
(* that a bridge knows, is lost on its way through the structs to the      *)
(* statements; for the generators, that what they make of any table fits   *)
(* together; and that the shipped entities are what they make of the       *)
(* tables of the migrations.                                               *)
(***************************************************************************)
EXTENDS GeneratedCode, TLAPS

\* INSERT and UPDATE and the structs behind them have every plain column.
Written(e) ==
  Plain(e) \subseteq Layers[e].insertStmt.columns \intersect DOMAIN Layers[e].create
              \intersect Layers[e].updateStmt.set \intersect DOMAIN Layers[e].update

\* Parser, filter struct and WHERE clause have every parameter of the bridge.
Passed(e) ==
  Layers[e].params \subseteq DOMAIN Layers[e].parse \intersect DOMAIN Layers[e].filter.exact
                      \intersect Layers[e].conditions.exact
-----------------------------------------------------------------------------
LEMMA TasksColumns ==
  DOMAIN TasksEntity =
    {"task_id", "processing_status", "task_type"} \union Stamps \union {"metadata"}
      \union {"priority", "max_retries", "retry_count", "processing_time_ms"}
      \union {"error_message"} \union {"last_run_at"}
BY DEF TasksEntity, Grouped

LEMMA TasksParseColumns ==
  DOMAIN TasksParse =
    {"processing_status", "task_type", "error_message"}
      \union {"priority", "max_retries", "retry_count", "processing_time_ms"}
      \union {"last_run_at"}
BY DEF TasksParse, Grouped

LEMMA TasksAgree == Written("tasks") /\ Passed("tasks")
<1>1. LET l == Layers["tasks"] IN
      /\ l.pk = "task_id" /\ l.entity = TasksEntity
      /\ l.insertStmt = TasksInsertStmt /\ l.create = TasksCreate
      /\ l.updateStmt = TasksUpdateStmt /\ l.update = TasksUpdate
      /\ l.params = TasksParams /\ l.parse = TasksParse
      /\ l.filter = TasksFilter /\ l.conditions = TasksConditions
  BY DEF Layers
<1>2. DOMAIN TasksEntity \ (Stamps \union {"task_id"}) \subseteq
        TasksInsertStmt.columns \intersect DOMAIN TasksCreate
          \intersect TasksUpdateStmt.set \intersect DOMAIN TasksUpdate
  BY DEF TasksInsertStmt, TasksCreate, TasksUpdateStmt, TasksUpdate, Optional, Without, Stamps
<1>3. TasksParams \subseteq DOMAIN TasksParse
  BY TasksParseColumns DEF TasksParams
<1>4. TasksParams \subseteq DOMAIN TasksEntity \ (Stamps \union {"task_id", "metadata"})
  BY TasksColumns DEF TasksParams, Stamps
<1>5. TasksParams \subseteq DOMAIN TasksFilter.exact \intersect TasksConditions.exact
  BY <1>4 DEF TasksFilter, TasksConditions, Optional, Without
<1> QED
  BY <1>1, <1>2, <1>3, <1>5 DEF Written, Passed, Plain
-----------------------------------------------------------------------------
LEMMA UsersColumns ==
  DOMAIN UsersEntity =
    {"user_id", "email", "status"} \union Stamps
      \union {"username", "password_hash", "password_salt", "first_name", "last_name",
              "display_name", "role", "last_login_ip", "password_reset_token"}
      \union {"email_verified"}
      \union {"email_verified_at", "last_login_at", "locked_until", "password_reset_expires_at"}
      \union {"failed_login_attempts"} \union UsersJSON
BY DEF UsersEntity, Grouped

LEMMA UsersParseColumns ==
  DOMAIN UsersParse =
    {"email", "username", "password_hash", "password_salt", "first_name", "last_name",
     "display_name", "role", "last_login_ip", "password_reset_token", "status"}
      \union {"email_verified"} \union {"failed_login_attempts"}
      \union {"email_verified_at", "last_login_at", "locked_until", "password_reset_expires_at"}
BY DEF UsersParse, Grouped

LEMMA UsersAgree == Written("users") /\ Passed("users")
<1>1. LET l == Layers["users"] IN
      /\ l.pk = "user_id" /\ l.entity = UsersEntity
      /\ l.insertStmt = UsersInsertStmt /\ l.create = UsersCreate
      /\ l.updateStmt = UsersUpdateStmt /\ l.update = UsersUpdate
      /\ l.params = UsersParams /\ l.parse = UsersParse
      /\ l.filter = UsersFilter /\ l.conditions = UsersConditions
  BY DEF Layers
<1>2. DOMAIN UsersEntity \ (Stamps \union {"user_id"}) \subseteq
        UsersInsertStmt.columns \intersect DOMAIN UsersCreate
          \intersect UsersUpdateStmt.set \intersect DOMAIN UsersUpdate
  BY DEF UsersInsertStmt, UsersCreate, UsersUpdateStmt, UsersUpdate, Optional, Without, Stamps
<1>3. UsersParams \subseteq DOMAIN UsersParse
  BY UsersColumns, UsersParseColumns DEF UsersParams
<1>4. UsersParams \subseteq DOMAIN UsersFilter.exact \intersect UsersConditions.exact
  BY DEF UsersParams, UsersFilter, UsersConditions, Optional, Without
<1> QED
  BY <1>1, <1>2, <1>3, <1>4 DEF Written, Passed, Plain
-----------------------------------------------------------------------------
LEMMA SessionsColumns ==
  DOMAIN SessionsEntity =
    {"session_id", "user_id", "session_token", "status"}
      \union (Stamps \union {"expires_at", "last_active_at"})
      \union {"refresh_token", "ip_address", "user_agent"}
      \union {"device_info"} \union {"refresh_expires_at"}
BY DEF SessionsEntity, Grouped

LEMMA SessionsParseColumns ==
  DOMAIN SessionsParse =
    {"user_id", "session_token", "refresh_token", "ip_address", "user_agent", "status"}
      \union {"expires_at", "refresh_expires_at", "last_active_at"}
BY DEF SessionsParse, Grouped

LEMMA SessionsAgree == Written("user_sessions") /\ Passed("user_sessions")
<1>1. LET l == Layers["user_sessions"] IN
      /\ l.pk = "session_id" /\ l.entity = SessionsEntity
      /\ l.insertStmt = SessionsInsertStmt /\ l.create = SessionsCreate
      /\ l.updateStmt = SessionsUpdateStmt /\ l.update = SessionsUpdate
      /\ l.params = SessionsParams /\ l.parse = SessionsParse
      /\ l.filter = SessionsFilter /\ l.conditions = SessionsConditions
  BY DEF Layers
<1>2. DOMAIN SessionsEntity \ (Stamps \union {"session_id"}) \subseteq
        SessionsInsertStmt.columns \intersect DOMAIN SessionsCreate
          \intersect SessionsUpdateStmt.set \intersect DOMAIN SessionsUpdate
  BY DEF SessionsInsertStmt, SessionsCreate, SessionsUpdateStmt, SessionsUpdate, Optional,
         Without, Stamps
<1>3. SessionsParams \subseteq DOMAIN SessionsParse
  BY SessionsParseColumns DEF SessionsParams
<1>4. SessionsParams \subseteq DOMAIN SessionsEntity \ (Stamps \union {"session_id", "device_info"})
  BY SessionsColumns DEF SessionsParams, Stamps
<1>5. SessionsParams \subseteq DOMAIN SessionsFilter.exact \intersect SessionsConditions.exact
  BY <1>4 DEF SessionsFilter, SessionsConditions, Optional, Without
<1> QED
  BY <1>1, <1>2, <1>3, <1>5 DEF Written, Passed, Plain
-----------------------------------------------------------------------------
LEMMA MigrationsColumns ==
  DOMAIN MigrationsEntity = {"version", "checksum"} \union (Stamps \union {"applied_at"})
BY DEF MigrationsEntity, Grouped

LEMMA MigrationsParseColumns == DOMAIN MigrationsParse = {"checksum"} \union {"applied_at"}
BY DEF MigrationsParse, Grouped

LEMMA MigrationsAgree == Written("schema_migrations") /\ Passed("schema_migrations")
<1>1. LET l == Layers["schema_migrations"] IN
      /\ l.pk = "version" /\ l.entity = MigrationsEntity
      /\ l.insertStmt = MigrationsInsertStmt /\ l.create = MigrationsCreate
      /\ l.updateStmt = MigrationsUpdateStmt /\ l.update = MigrationsUpdate
      /\ l.params = MigrationsParams /\ l.parse = MigrationsParse
      /\ l.filter = MigrationsFilter /\ l.conditions = MigrationsConditions
  BY DEF Layers
<1>2. DOMAIN MigrationsEntity \ (Stamps \union {"version"}) = {"checksum", "applied_at"}
  BY MigrationsColumns DEF Stamps
<1>3. {"checksum", "applied_at"} \subseteq
        MigrationsInsertStmt.columns \intersect DOMAIN MigrationsCreate
          \intersect MigrationsUpdateStmt.set \intersect DOMAIN MigrationsUpdate
  BY MigrationsColumns DEF MigrationsInsertStmt, MigrationsCreate, MigrationsUpdateStmt,
     MigrationsUpdate, Optional, Without, Stamps
<1>4. MigrationsParams \subseteq DOMAIN MigrationsParse
  BY MigrationsParseColumns DEF MigrationsParams
<1>5. MigrationsParams \subseteq DOMAIN MigrationsFilter.exact \intersect MigrationsConditions.exact
  BY DEF MigrationsParams, MigrationsFilter, MigrationsConditions, Optional, Only
<1> QED
  BY <1>1, <1>2, <1>3, <1>4, <1>5 DEF Written, Passed, Plain
-----------------------------------------------------------------------------
LEMMA FourEntities == DOMAIN Layers = {"tasks", "users", "user_sessions", "schema_migrations"}
BY DEF Layers

(* Every column that a client may write reaches INSERT and UPDATE of its   *)
(* store through the structs in between (generated.go of the repositories  *)
(* and stores).                                                            *)
THEOREM EveryColumnIsWritten == \A e \in DOMAIN Layers : Written(e)
BY FourEntities, TasksAgree, UsersAgree, SessionsAgree, MigrationsAgree

(* Every filter parameter that a bridge knows reaches the WHERE clause of  *)
(* its store (generated.go of bridges, repositories and stores).           *)
THEOREM EveryParameterIsPassed == \A e \in DOMAIN Layers : Passed(e)
BY FourEntities, TasksAgree, UsersAgree, SessionsAgree, MigrationsAgree

\* The two entities with a status that Archive sets.
LEMMA StatusIsArchived ==
  "status" \in Layers["users"].archived /\ "status" \in Layers["user_sessions"].archived
BY DEF Layers, UsersArchiveStmt, SessionsArchiveStmt
-----------------------------------------------------------------------------
(* The generators.                                                         *)
\* Every table of the migrations has its key and the two stamps, which are
\* columns of their own and no JSON.
HasKeyAndStamps(table) ==
  /\ table.pk \in DOMAIN table.columns \ Stamps
  /\ Stamps \subseteq DOMAIN table.columns
  /\ \A c \in Stamps : NormalizedType(table.columns[c].type) \notin {"json", "jsonb"}

\* The repository, the store and the bridge of an entity are about the same
\* columns wherever one hands something to the next.
LayersAgree(l) ==
  /\ l.insertStmt.columns = DOMAIN l.create
  /\ l.updateStmt.set \union l.updateStmt.always = DOMAIN l.update
  /\ l.insertStmt.returning = DOMAIN l.entity
  /\ l.getStmt.select = DOMAIN l.entity /\ l.listStmt.select = DOMAIN l.entity
  /\ l.params = DOMAIN l.parse /\ l.params = DOMAIN l.filter.exact
  /\ l.conditions = [exact |-> l.params, range |-> l.filter.range]
  /\ l.orderParams \subseteq l.orderBy \intersect l.orderColumns
  /\ l.orderColumns \subseteq DOMAIN l.entity
  /\ l.search \union l.archived \subseteq DOMAIN l.entity
  /\ l.path.key = l.pk /\ l.pk \in DOMAIN l.entity /\ l.pk \notin DOMAIN l.update

LEMMA ReflectedTable ==
  ASSUME NEW table, HasKeyAndStamps(table), NEW t, t = Reflect(table)
  PROVE  /\ t.pk = table.pk /\ Names(t) = DOMAIN table.columns
         /\ \A c \in Names(t) : t.columns[c].key <=> c = t.pk
         /\ \A c \in Stamps : ~ IsJSON(t, c)
<1>1. t.pk = table.pk /\ Names(t) = DOMAIN table.columns
  BY DEF Reflect, Names
<1>2. ASSUME NEW c \in DOMAIN table.columns
      PROVE  /\ t.columns[c].key = (c = table.pk)
             /\ t.columns[c].type = NormalizedType(table.columns[c].type)
  BY DEF Reflect, GetColumns
<1> QED
  BY <1>1, <1>2 DEF HasKeyAndStamps, IsJSON

(* For any table with a key and the two stamps, the three generators make  *)
(* structs, statements and parameters of the same columns: nothing is      *)
(* scanned, written, filtered or ordered by in one layer that the next one *)
(* does not know (repositorygen, pgxstores and bridgegen, whose field      *)
(* builders decide each for themselves).                                   *)
THEOREM GeneratorsAgree ==
  ASSUME NEW table, HasKeyAndStamps(table)
  PROVE  LayersAgree(Generated(Reflect(table)))
<1> DEFINE t == Reflect(table)
           l == Generated(t)
<1>1. /\ t.pk = table.pk /\ Names(t) = DOMAIN table.columns
      /\ \A c \in Names(t) : t.columns[c].key <=> c = t.pk
      /\ \A c \in Stamps : ~ IsJSON(t, c)
  BY ReflectedTable
<1>2. t.pk \in Names(t) \ Stamps /\ Stamps \subseteq Names(t)
  BY <1>1 DEF HasKeyAndStamps
<1> HIDE DEF t
<1>3. UpdateColumns(t) = {c \in Names(t) \ Stamps : c # t.pk}
  BY <1>1 DEF UpdateColumns
<1>4. /\ l.insertStmt.columns = DOMAIN l.create
      /\ l.insertStmt.returning = DOMAIN l.entity
      /\ l.getStmt.select = DOMAIN l.entity /\ l.listStmt.select = DOMAIN l.entity
  BY DEF Generated, StoreCreate, RepositoryCreate, EntityFields
<1>5. l.updateStmt.set \union l.updateStmt.always = DOMAIN l.update
  BY DEF Generated, StoreUpdate, RepositoryUpdate
<1>6. l.params = DOMAIN l.parse /\ l.params = DOMAIN l.filter.exact
  BY DEF Generated, BridgeFilter, RepositoryFilter
<1>7. l.conditions = [exact |-> l.params, range |-> l.filter.range]
  <2>1. l.params = {c \in UpdateColumns(t) : ~ IsJSON(t, c)}
    BY DEF Generated, BridgeFilter
  <2>2. l.filter.range = Stamps
    BY <1>2 DEF Generated, RepositoryFilter
  <2>3. LET filterable == {c \in Names(t) : ~ t.columns[c].key /\ ~ IsJSON(t, c)}
        IN /\ filterable \ Stamps = {c \in UpdateColumns(t) : ~ IsJSON(t, c)}
           /\ filterable \intersect Stamps = Stamps
    BY <1>1, <1>2, <1>3
  <2> QED
    BY <2>1, <2>2, <2>3 DEF Generated, StoreFilter
<1>8. l.orderParams \subseteq l.orderBy \intersect l.orderColumns
  BY <1>1, <1>3 DEF Generated, BridgeOrderBy, BridgeFilter, OrderByConstants, StoreOrderBy
<1>9. l.orderColumns \subseteq DOMAIN l.entity
  BY <1>2, <1>3 DEF Generated, StoreOrderBy, EntityFields
<1>10. l.search \union l.archived \subseteq DOMAIN l.entity
  BY DEF Generated, Searchable, StoreArchive, EntityFields
<1>11. l.path.key = l.pk /\ l.pk \in DOMAIN l.entity /\ l.pk \notin DOMAIN l.update
  BY <1>2, <1>3 DEF Generated, BridgePath, EntityFields, RepositoryUpdate, Stamps
<1> QED
  BY <1>4, <1>5, <1>6, <1>7, <1>8, <1>9, <1>10, <1>11 DEF LayersAgree, t
-----------------------------------------------------------------------------
(* From the migrations to the shipped code: a table whose columns are of   *)
(* the types that the migrations use.                                      *)
UsedTypes == {"uuid", "varchar", "text", "inet", "int4", "bool", "jsonb", "timestamp"}

\* A table with a key and stamps as the migrations declare them.
Usual(table) ==
  /\ HasKeyAndStamps(table)
  /\ \A c \in DOMAIN table.columns : table.columns[c].type \in UsedTypes
  /\ \A c \in Stamps : table.columns[c] = Column("timestamp", Filled)

LEMMA PointersAre ==
  /\ Pointer["string"] = "*string" /\ Pointer["*string"] = "*string"
  /\ Pointer["int"] = "*int" /\ Pointer["*int"] = "*int"
  /\ Pointer["bool"] = "*bool" /\ Pointer["*bool"] = "*bool"
  /\ Pointer["time.Time"] = "*time.Time" /\ Pointer["*time.Time"] = "*time.Time"
  /\ Pointer["json.RawMessage"] = "*json.RawMessage"
  /\ Pointer["*json.RawMessage"] = "*json.RawMessage"
BY DEF Pointer, Grouped

LEMMA PointedTypes ==
  DOMAIN Pointer =
    {"string", "*string", "int", "*int", "bool", "*bool", "time.Time", "*time.Time",
     "json.RawMessage", "*json.RawMessage"}
BY DEF Pointer, Grouped

LEMMA SlicesAre ==
  /\ DOMAIN Slices = {"text[]", "varchar[]", "integer[]", "bytea"}
  /\ \A s \in {"text[]", "varchar[]"} : Slices[s] = "[]string"
  /\ Slices["integer[]"] = "[]int" /\ Slices["bytea"] = "[]byte"
BY DEF Slices, Grouped

LEMMA BaseTypesAre ==
  /\ UsedTypes \subseteq DOMAIN BaseGoTypes
  /\ \A type \in {"uuid", "varchar", "text", "inet"} : BaseGoTypes[type] = "string"
  /\ BaseGoTypes["int4"] = "int" /\ BaseGoTypes["bool"] = "bool"
  /\ BaseGoTypes["jsonb"] = "json.RawMessage" /\ BaseGoTypes["timestamp"] = "time.Time"
BY DEF BaseGoTypes, Grouped, UsedTypes

\* The Go type of a column that may not, or may, be null.
Plainly(type) == GoType(type, FALSE)
Pointed(type) == GoType(type, TRUE)

LEMMA GoTypesAre ==
  /\ \A type \in UsedTypes : NormalizedType(type) = type
  /\ \A type \in {"uuid", "varchar", "text", "inet"} :
       Plainly(type) = "string" /\ Pointed(type) = "*string"
  /\ Plainly("int4") = "int" /\ Pointed("int4") = "*int"
  /\ Plainly("bool") = "bool" /\ Pointed("bool") = "*bool"
  /\ Plainly("jsonb") = "json.RawMessage" /\ Pointed("jsonb") = "*json.RawMessage"
  /\ Plainly("timestamp") = "time.Time" /\ Pointed("timestamp") = "*time.Time"
<1>1. \A type \in UsedTypes : NormalizedType(type) = type
  BY DEF UsedTypes, NormalizedType
<1>2. \A type \in UsedTypes :
        /\ Plainly(type) = BaseGoTypes[type]
        /\ BaseGoTypes[type] \in DOMAIN Pointer => Pointed(type) = Pointer[BaseGoTypes[type]]
  <2>1. \A type \in UsedTypes : type \in DOMAIN BaseGoTypes /\ type \notin DOMAIN Slices
    BY BaseTypesAre, SlicesAre DEF UsedTypes
  <2> QED
    BY <2>1 DEF Plainly, Pointed, GoType, PointerTo
<1>3. \A type \in {"uuid", "varchar", "text", "inet"} :
        Plainly(type) = "string" /\ Pointed(type) = "*string"
  <2>1. \A type \in {"uuid", "varchar", "text", "inet"} : type \in UsedTypes
    BY DEF UsedTypes
  <2>2. "string" \in DOMAIN Pointer
    BY PointedTypes
  <2> QED
    BY <1>2, <2>1, <2>2, BaseTypesAre, PointersAre
<1>4. {"int4", "bool", "jsonb", "timestamp"} \subseteq UsedTypes
  BY DEF UsedTypes
<1>5. {"int", "bool", "json.RawMessage", "time.Time"} \subseteq DOMAIN Pointer
  BY PointedTypes
<1> QED
  BY <1>1, <1>2, <1>3, <1>4, <1>5, BaseTypesAre, PointersAre

LEMMA GoTypesArePointed ==
  \A type \in UsedTypes : Plainly(type) \in DOMAIN Pointer /\ Pointed(type) \in DOMAIN Pointer
BY GoTypesAre, PointedTypes DEF UsedTypes

LEMMA FlagsAre ==
  /\ NotNull \in Required \intersect Filled /\ NotNull \notin Nullable \union Defaulted
  /\ Default \in Defaulted \intersect Filled /\ Default \notin Nullable \union Required
BY DEF NotNull, Default, Required, Filled, Nullable, Defaulted

\* A column as the reflector describes it.
LEMMA ReflectedColumn ==
  ASSUME NEW table, NEW c \in DOMAIN table.columns, NEW type \in UsedTypes, NEW flags,
         table.columns[c] = Column(type, flags)
  PROVE  /\ Reflect(table).columns[c].type = type
         /\ Reflect(table).columns[c].go =
              IF NotNull \in flags THEN Plainly(type) ELSE Pointed(type)
<1> DEFINE nullable == NotNull \notin flags
           given == Default \in flags
<1>1. table.columns[c].type = type /\ table.columns[c].flags = flags
  BY DEF Column
<1>2. NormalizedType(type) = type
  BY GoTypesAre
<1>3. GetColumns(table)[c] =
        [type |-> type, go |-> GoType(type, nullable), default |-> given, key |-> FALSE]
  BY <1>1, <1>2 DEF GetColumns
<1>4. Reflect(table).columns[c] = [GetColumns(table)[c] EXCEPT !.key = c = table.pk]
  BY DEF Reflect
<1>5. /\ Reflect(table).columns[c].type = type
      /\ Reflect(table).columns[c].go = GoType(type, nullable)
  BY <1>3, <1>4
<1>6. CASE NotNull \in flags
  <2>1. nullable = FALSE
    BY <1>6
  <2> QED
    BY <1>5, <1>6, <2>1 DEF Plainly
<1>7. CASE NotNull \notin flags
  <2>1. nullable = TRUE
    BY <1>7
  <2> QED
    BY <1>5, <1>7, <2>1 DEF Pointed
<1> QED
  BY <1>6, <1>7

LEMMA ReflectedDefault ==
  ASSUME NEW table, NEW c \in DOMAIN table.columns, NEW type, NEW flags,
         table.columns[c] = Column(type, flags)
  PROVE  Reflect(table).columns[c].default <=> Default \in flags
<1>1. table.columns[c].flags = flags
  BY DEF Column
<1>2. Reflect(table).columns[c] = [GetColumns(table)[c] EXCEPT !.key = c = table.pk]
  BY DEF Reflect
<1>3. Reflect(table).columns[c].default = GetColumns(table)[c].default
  BY <1>2 DEF GetColumns
<1> QED
  BY <1>1, <1>3 DEF GetColumns

LEMMA OptionalTypes ==
  ASSUME NEW go \in DOMAIN Pointer
  PROVE  OptionalType(go) = Pointer[go] /\ PointerTo(go) = Pointer[go]
<1>1. PointerTo(go) = Pointer[go]
  BY DEF PointerTo
<1>2. go \notin {Slices[s] : s \in DOMAIN Slices} => OptionalType(go) = PointerTo(go)
  BY DEF OptionalType
<1>3. go \notin {"[]string", "[]int", "[]byte"}
  BY PointedTypes
<1>4. \A s \in DOMAIN Slices : Slices[s] \in {"[]string", "[]int", "[]byte"}
  BY SlicesAre
<1> QED
  BY <1>1, <1>2, <1>3, <1>4

-----------------------------------------------------------------------------
JSONColumns(t) == {c \in Names(t) : IsJSON(t, c)}

LEMMA UsualTable ==
  ASSUME NEW table, Usual(table), NEW t, t = Reflect(table)
  PROVE  /\ t.pk = table.pk /\ t.foreign = table.foreign /\ Names(t) = DOMAIN table.columns
         /\ t.pk \in Names(t) \ Stamps /\ Stamps \subseteq Names(t)
         /\ \A c \in Names(t) : t.columns[c].key <=> c = t.pk
         /\ \A c \in Names(t) : t.columns[c].go \in DOMAIN Pointer
         /\ \A c \in Stamps : t.columns[c].default /\ t.columns[c].go = "time.Time"
         /\ JSONColumns(t) \intersect Stamps = {}
<1>1. /\ t.pk = table.pk /\ Names(t) = DOMAIN table.columns
      /\ \A c \in Names(t) : t.columns[c].key <=> c = t.pk
      /\ \A c \in Stamps : ~ IsJSON(t, c)
  BY ReflectedTable DEF Usual
<1>2. t.pk \in Names(t) \ Stamps /\ Stamps \subseteq Names(t) /\ t.foreign = table.foreign
  BY <1>1 DEF Usual, HasKeyAndStamps, Reflect
<1>3. ASSUME NEW c \in Names(t) PROVE t.columns[c].go \in DOMAIN Pointer
  <2> DEFINE nullable == NotNull \notin table.columns[c].flags
  <2>1. PICK type \in UsedTypes : type = table.columns[c].type
    BY <1>1, <1>3 DEF Usual
  <2>2. t.columns[c].go = GoType(type, nullable) /\ nullable \in BOOLEAN
    BY <1>1, <1>3, <2>1, GoTypesAre DEF Reflect, GetColumns
  <2> HIDE DEF nullable
  <2>3. t.columns[c].go \in {Plainly(type), Pointed(type)}
    BY <2>2 DEF Plainly, Pointed
  <2> QED
    BY <2>3, GoTypesArePointed
<1>4. ASSUME NEW c \in Stamps PROVE t.columns[c].default /\ t.columns[c].go = "time.Time"
  <2>1. c \in DOMAIN table.columns /\ table.columns[c] = Column("timestamp", Filled)
    BY <1>1, <1>2 DEF Usual
  <2>2. "timestamp" \in UsedTypes
    BY DEF UsedTypes
  <2>3. t.columns[c].go = Plainly("timestamp")
    BY <2>1, <2>2, ReflectedColumn, FlagsAre
  <2>4. t.columns[c].default
    BY <2>1, ReflectedDefault, FlagsAre
  <2> QED
    BY <2>3, <2>4, GoTypesAre
<1> QED
  BY <1>1, <1>2, <1>3, <1>4 DEF JSONColumns

\* The layers l of an entity with the fields E and the key pk: json are the
\* columns that cannot be filtered by, filled those that Create leaves to the
\* database, and key tells where the key comes from.
LayersOf(l, E, pk, json, filled, key) ==
  LET updated == DOMAIN E \ (Stamps \union {pk})
      plain == updated \ json
  IN /\ l.pk = pk /\ l.entity = E
     /\ l.create = Without(E, filled) /\ l.update = Optional(Without(E, {pk, "created_at"}))
     /\ l.orderBy = DOMAIN E /\ l.orderColumns = DOMAIN E
     /\ l.orderParams = (DOMAIN E \ json) \union {pk}
     /\ l.filter = [exact |-> Optional(Only(E, plain)), range |-> Stamps]
     /\ l.insertStmt = [columns |-> DOMAIN E \ filled, key |-> key, returning |-> DOMAIN E]
     /\ l.getStmt = [select |-> DOMAIN E, where |-> pk]
     /\ l.updateStmt = [set |-> updated, always |-> {"updated_at"}, where |-> pk]
     /\ l.deleteStmt = [where |-> pk]
     /\ l.listStmt = [select |-> DOMAIN E, tieBreak |-> pk]
     /\ l.conditions = [exact |-> plain, range |-> Stamps] /\ l.params = plain

(* Of any table of the migrations' types, the generators write these       *)
(* layers: what is in them depends on the fields, the key, the JSON        *)
(* columns and whether the database fills in the key, and on nothing else  *)
(* (the field builders of repositorygen, pgxstores and bridgegen).         *)
THEOREM GeneratorsWrite ==
  ASSUME NEW table, Usual(table), NEW t, t = Reflect(table), NEW E, E = EntityFields(t),
         NEW json, json = JSONColumns(t), NEW pk, pk = t.pk
  PROVE  /\ ~ t.columns[pk].default => LayersOf(Generated(t), E, pk, json, Stamps, "client")
         /\ t.columns[pk].default =>
              LayersOf(Generated(t), E, pk, json, Stamps \union {pk}, "database")
<1> DEFINE l == Generated(t)
           updated == DOMAIN E \ (Stamps \union {pk})
           plain == updated \ json
<1>1. /\ pk \in Names(t) \ Stamps /\ Stamps \subseteq Names(t)
      /\ \A c \in Names(t) : t.columns[c].key <=> c = pk
      /\ \A c \in Names(t) : t.columns[c].go \in DOMAIN Pointer
      /\ \A c \in Stamps : t.columns[c].default /\ t.columns[c].go = "time.Time"
      /\ JSONColumns(t) \intersect Stamps = {}
  BY UsualTable
<1>2. DOMAIN E = Names(t) /\ \A c \in Names(t) : E[c] = t.columns[c].go
  BY DEF EntityFields
<1>3. UpdateColumns(t) = updated
  BY <1>1, <1>2 DEF UpdateColumns
<1>4. BridgeFilter(t) = plain
  BY <1>2, <1>3 DEF BridgeFilter, JSONColumns
<1>5. RepositoryUpdate(t) = Optional(Without(E, {pk, "created_at"}))
  <2> DEFINE U == UpdateColumns(t) \union {"updated_at"}
  <2>1. U = DOMAIN E \ {pk, "created_at"}
    BY <1>1, <1>2, <1>3 DEF Stamps
  <2>2. ASSUME NEW c \in U PROVE RepositoryUpdate(t)[c] = Pointer[E[c]]
    <3>1. CASE c = "updated_at"
      <4>1. RepositoryUpdate(t)[c] = "*time.Time"
        BY <3>1 DEF RepositoryUpdate
      <4>2. E[c] = "time.Time"
        BY <1>1, <1>2, <3>1 DEF Stamps
      <4> QED
        BY <4>1, <4>2, PointersAre
    <3>2. CASE c # "updated_at"
      <4>1. RepositoryUpdate(t)[c] = OptionalType(t.columns[c].go)
        BY <2>2, <3>2 DEF RepositoryUpdate
      <4>2. c \in Names(t)
        BY <2>1, <1>2
      <4> QED
        BY <1>1, <1>2, <4>1, <4>2, OptionalTypes
    <3> QED
      BY <3>1, <3>2
  <2>3. RepositoryUpdate(t) = [c \in U |-> Pointer[E[c]]]
    BY <2>2 DEF RepositoryUpdate
  <2>4. Optional(Without(E, {pk, "created_at"})) =
          [c \in DOMAIN E \ {pk, "created_at"} |-> Pointer[E[c]]]
    BY DEF Optional, Without
  <2> QED
    BY <2>1, <2>3, <2>4
<1>6. RepositoryFilter(t) = [exact |-> Optional(Only(E, plain)), range |-> Stamps]
  <2>1. {d \in UpdateColumns(t) : ~ IsJSON(t, d)} = plain
    BY <1>4 DEF BridgeFilter
  <2>2. \A c \in plain : PointerTo(t.columns[c].go) = Pointer[E[c]]
    BY <1>1, <1>2, OptionalTypes
  <2>3. Optional(Only(E, plain)) = [c \in plain |-> PointerTo(t.columns[c].go)]
    BY <2>2 DEF Optional, Only
  <2>4. Stamps \intersect Names(t) = Stamps
    BY <1>1
  <2> QED
    BY <2>1, <2>3, <2>4 DEF RepositoryFilter
<1>7. OrderByConstants(t) = DOMAIN E /\ StoreOrderBy(t) = DOMAIN E
  BY <1>1, <1>2, <1>3 DEF OrderByConstants, StoreOrderBy
<1>8. BridgeOrderBy(t) = (DOMAIN E \ json) \union {pk}
  BY <1>1, <1>2, <1>4 DEF BridgeOrderBy
<1>9. StoreFilter(t) = [exact |-> plain, range |-> Stamps]
  <2> DEFINE filterable == {c \in Names(t) : ~ t.columns[c].key /\ ~ IsJSON(t, c)}
  <2>1. filterable \ Stamps = plain /\ filterable \intersect Stamps = Stamps
    BY <1>1, <1>2 DEF JSONColumns
  <2> QED
    BY <2>1 DEF StoreFilter
<1>10. ASSUME NEW filled, NEW key, CreateColumns(t) = DOMAIN E \ filled,
              key = IF pk \in CreateColumns(t) THEN "client" ELSE "database"
       PROVE  LayersOf(l, E, pk, json, filled, key)
  <2>1. RepositoryCreate(t) = Without(E, filled)
    BY <1>2, <1>10 DEF RepositoryCreate, Without
  <2>2. StoreCreate(t) = [columns |-> DOMAIN E \ filled, key |-> key, returning |-> DOMAIN E]
    BY <1>2, <1>10 DEF StoreCreate
  <2>3. StoreUpdate(t) = [set |-> updated, always |-> {"updated_at"}, where |-> pk]
    BY <1>3 DEF StoreUpdate
  <2>4. /\ l.pk = pk /\ l.getStmt = [select |-> DOMAIN E, where |-> pk]
        /\ l.deleteStmt = [where |-> pk] /\ l.listStmt = [select |-> DOMAIN E, tieBreak |-> pk]
    BY <1>2 DEF Generated
  <2> QED
    BY <1>2, <1>4, <1>5, <1>6, <1>7, <1>8, <1>9, <2>1, <2>2, <2>3, <2>4 DEF LayersOf, Generated
<1>11. ASSUME ~ t.columns[pk].default
       PROVE  CreateColumns(t) = DOMAIN E \ Stamps /\ pk \in CreateColumns(t)
  BY <1>1, <1>2, <1>11 DEF CreateColumns
<1>12. ASSUME t.columns[pk].default
       PROVE  CreateColumns(t) = DOMAIN E \ (Stamps \union {pk}) /\ pk \notin CreateColumns(t)
  BY <1>1, <1>2, <1>12 DEF CreateColumns
<1> QED
  BY <1>10, <1>11, <1>12
-----------------------------------------------------------------------------
(* The columns of one type, a group at a time.                             *)
Alike(t, columns, type, go) ==
  \A c \in columns : c \in Names(t) /\ t.columns[c].type = type /\ t.columns[c].go = go

LEMMA AlikeColumns ==
  ASSUME NEW table, NEW columns, columns \subseteq DOMAIN table.columns, NEW type \in UsedTypes,
         NEW flags, \A c \in columns : table.columns[c] = Column(type, flags)
  PROVE  Alike(Reflect(table), columns, type,
               IF NotNull \in flags THEN Plainly(type) ELSE Pointed(type))
<1>1. Names(Reflect(table)) = DOMAIN table.columns
  BY DEF Reflect, Names
<1> QED
  BY <1>1, ReflectedColumn DEF Alike

LEMMA PlainColumns ==
  ASSUME NEW table, NEW columns, columns \subseteq DOMAIN table.columns, NEW type \in UsedTypes,
         NEW flags \in {Required, Filled},
         \A c \in columns : table.columns[c] = Column(type, flags)
  PROVE  Alike(Reflect(table), columns, type, Plainly(type))
BY AlikeColumns, FlagsAre

LEMMA PointedColumns ==
  ASSUME NEW table, NEW columns, columns \subseteq DOMAIN table.columns, NEW type \in UsedTypes,
         NEW flags \in {Nullable, Defaulted},
         \A c \in columns : table.columns[c] = Column(type, flags)
  PROVE  Alike(Reflect(table), columns, type, Pointed(type))
BY AlikeColumns, FlagsAre
-----------------------------------------------------------------------------
(* tasks                                                                   *)
LEMMA TasksTableIs ==
  LET column == TasksTable.columns IN
  /\ DOMAIN column = DOMAIN TasksEntity
  /\ \A c \in Stamps : column[c] = Column("timestamp", Filled)
  /\ \A c \in {"task_id", "task_type"} : column[c] = Column("varchar", Required)
  /\ column["processing_status"] = Column("varchar", Filled)
  /\ column["metadata"] = Column("jsonb", Nullable)
  /\ \A c \in {"priority", "max_retries", "retry_count"} :
       column[c] = Column("int4", Defaulted)
  /\ column["processing_time_ms"] = Column("int4", Nullable)
  /\ column["error_message"] = Column("text", Nullable)
  /\ column["last_run_at"] = Column("timestamp", Nullable)
<1> DEFINE column == TasksTable.columns
<1> USE DEF TasksTable, Table, Grouped, Columns, StampColumns, Stamps
<1>1. DOMAIN column = DOMAIN TasksEntity
  BY TasksColumns
<1>2. \A c \in Stamps : column[c] = Column("timestamp", Filled)
  OBVIOUS
<1>3. \A c \in {"task_id", "task_type"} : column[c] = Column("varchar", Required)
  OBVIOUS
<1>4. column["processing_status"] = Column("varchar", Filled)
  OBVIOUS
<1>5. column["metadata"] = Column("jsonb", Nullable)
  OBVIOUS
<1>6. \A c \in {"priority", "max_retries", "retry_count"} :
        column[c] = Column("int4", Defaulted)
  OBVIOUS
<1>7. column["processing_time_ms"] = Column("int4", Nullable)
  OBVIOUS
<1>8. column["error_message"] = Column("text", Nullable)
  OBVIOUS
<1>9. column["last_run_at"] = Column("timestamp", Nullable)
  OBVIOUS
<1> QED
  BY <1>1, <1>2, <1>3, <1>4, <1>5, <1>6, <1>7, <1>8, <1>9

LEMMA TasksEntityIs ==
  /\ \A c \in {"task_id", "processing_status", "task_type"} : TasksEntity[c] = "string"
  /\ \A c \in Stamps : TasksEntity[c] = "time.Time"
  /\ TasksEntity["metadata"] = "*json.RawMessage"
  /\ \A c \in {"priority", "max_retries", "retry_count", "processing_time_ms"} :
       TasksEntity[c] = "*int"
  /\ TasksEntity["error_message"] = "*string"
  /\ TasksEntity["last_run_at"] = "*time.Time"
BY DEF TasksEntity, Grouped, Stamps

LEMMA TasksParseIs ==
  /\ \A c \in {"processing_status", "task_type", "error_message"} : TasksParse[c] = "string"
  /\ \A c \in {"priority", "max_retries", "retry_count", "processing_time_ms"} :
       TasksParse[c] = "int"
  /\ TasksParse["last_run_at"] = "time"
BY DEF TasksParse, Grouped, Stamps

TasksGroups(t) ==
  /\ Alike(t, Stamps, "timestamp", "time.Time")
  /\ Alike(t, {"task_id", "task_type"}, "varchar", "string")
  /\ Alike(t, {"processing_status"}, "varchar", "string")
  /\ Alike(t, {"metadata"}, "jsonb", "*json.RawMessage")
  /\ Alike(t, {"priority", "max_retries", "retry_count"}, "int4", "*int")
  /\ Alike(t, {"processing_time_ms"}, "int4", "*int")
  /\ Alike(t, {"error_message"}, "text", "*string")
  /\ Alike(t, {"last_run_at"}, "timestamp", "*time.Time")

LEMMA TasksReflected == TasksGroups(Reflect(TasksTable))
<1> DEFINE t == Reflect(TasksTable)
           column == TasksTable.columns
<1> HIDE DEF t
<1>1. /\ {"timestamp", "varchar", "jsonb", "int4", "text"} \subseteq UsedTypes
      /\ Plainly("timestamp") = "time.Time"
      /\ Plainly("varchar") = "string"
      /\ Pointed("jsonb") = "*json.RawMessage"
      /\ Pointed("int4") = "*int"
      /\ Pointed("text") = "*string"
      /\ Pointed("timestamp") = "*time.Time"
  BY GoTypesAre DEF UsedTypes
<1>2. /\ Stamps \subseteq DOMAIN column
      /\ {"task_id", "task_type", "processing_status", "metadata", "priority", "max_retries",
           "retry_count", "processing_time_ms", "error_message", "last_run_at"}
           \subseteq DOMAIN column
  BY TasksColumns, TasksTableIs
<1>3. Alike(t, Stamps, "timestamp", "time.Time")
  BY <1>1, <1>2, TasksTableIs, PlainColumns DEF t
<1>4. Alike(t, {"task_id", "task_type"}, "varchar", "string")
  BY <1>1, <1>2, TasksTableIs, PlainColumns DEF t
<1>5. Alike(t, {"processing_status"}, "varchar", "string")
  BY <1>1, <1>2, TasksTableIs, PlainColumns DEF t
<1>6. Alike(t, {"metadata"}, "jsonb", "*json.RawMessage")
  BY <1>1, <1>2, TasksTableIs, PointedColumns DEF t
<1>7. Alike(t, {"priority", "max_retries", "retry_count"}, "int4", "*int")
  BY <1>1, <1>2, TasksTableIs, PointedColumns DEF t
<1>8. Alike(t, {"processing_time_ms"}, "int4", "*int")
  BY <1>1, <1>2, TasksTableIs, PointedColumns DEF t
<1>9. Alike(t, {"error_message"}, "text", "*string")
  BY <1>1, <1>2, TasksTableIs, PointedColumns DEF t
<1>10. Alike(t, {"last_run_at"}, "timestamp", "*time.Time")
  BY <1>1, <1>2, TasksTableIs, PointedColumns DEF t
<1> QED
  BY <1>3, <1>4, <1>5, <1>6, <1>7, <1>8, <1>9, <1>10 DEF TasksGroups, t

LEMMA UsualTasks == Usual(TasksTable)
<1> DEFINE column == TasksTable.columns
<1>1. TasksTable.pk = "task_id"
  BY DEF TasksTable, Table
<1>2. "task_id" \in DOMAIN column \ Stamps /\ Stamps \subseteq DOMAIN column
  BY TasksTableIs, TasksColumns DEF Stamps
<1>3. \A c \in Stamps : column[c] = Column("timestamp", Filled)
  BY TasksTableIs
<1>4. \A c \in Stamps : NormalizedType(column[c].type) \notin {"json", "jsonb"}
  BY <1>3 DEF Column, NormalizedType
<1>5. ASSUME NEW c \in DOMAIN column PROVE column[c].type \in UsedTypes
  <2>1. \E type \in UsedTypes, flags \in {Nullable, Required, Defaulted, Filled} :
          column[c] = Column(type, flags)
    BY TasksTableIs, TasksColumns DEF UsedTypes
  <2> QED
    BY <2>1 DEF Column
<1> QED
  BY <1>1, <1>2, <1>3, <1>4, <1>5 DEF Usual, HasKeyAndStamps

LEMMA TasksGenerated == Generated(Reflect(TasksTable)) = Layers["tasks"]
<1> DEFINE t == Reflect(TasksTable)
           E == TasksEntity
<1>1. /\ Usual(TasksTable) /\ Names(t) = DOMAIN E
      /\ t.pk = "task_id" /\ t.foreign = {}
  <2>1. TasksTable.pk = "task_id" /\ TasksTable.foreign = {}
    BY DEF TasksTable, Table
  <2> QED
    BY <2>1, UsualTasks, UsualTable, TasksTableIs
<1>2. TasksGroups(t)
  BY TasksReflected
<1>3. ~ t.columns["task_id"].default
  <2>1. /\ "task_id" \in DOMAIN TasksTable.columns
        /\ TasksTable.columns["task_id"] = Column("varchar", Required)
    BY TasksTableIs, TasksColumns
  <2> QED
    BY <2>1, ReflectedDefault, FlagsAre
<1> HIDE DEF t, E
<1>4. EntityFields(t) = E
  <2>1. \A c \in DOMAIN E : t.columns[c].go = E[c]
    BY <1>2, TasksColumns, TasksEntityIs DEF TasksGroups, Alike, E
  <2>2. E = [c \in DOMAIN E |-> E[c]]
    BY DEF E, TasksEntity, Grouped
  <2> QED
    BY <1>1, <2>1, <2>2 DEF EntityFields
<1>5. JSONColumns(t) = {"metadata"}
  BY <1>1, <1>2, TasksColumns DEF JSONColumns, IsJSON, TasksGroups, Alike, E
<1>6. Searchable(t) = TasksSearch
  BY <1>1, <1>2, TasksColumns DEF Searchable, TasksGroups, Alike, E, TasksSearch
<1>7. (DOMAIN E \ (Stamps \union {"task_id"})) \ {"metadata"} = TasksParams
  BY TasksColumns DEF TasksParams, E, Stamps
<1>8. [c \in TasksParams |-> BridgeParser(t, c)] = TasksParse
  <2>1. DOMAIN TasksParse = TasksParams
    BY TasksParseColumns DEF TasksParams
  <2>2. TasksParse = [c \in DOMAIN TasksParse |-> TasksParse[c]]
    BY DEF TasksParse, Grouped
  <2>3. \A c \in DOMAIN TasksParse : BridgeParser(t, c) = TasksParse[c]
    BY <1>2, TasksParseColumns, TasksParseIs
    DEF BridgeParser, TasksGroups, Alike
  <2> QED
    BY <2>1, <2>2, <2>3
<1>9. StoreArchive(t) = {}
  BY <1>1, TasksColumns DEF StoreArchive, E, Stamps
<1>10. LayersOf(Generated(t), E, "task_id", {"metadata"},
                Stamps, "client")
  BY <1>1, <1>3, <1>4, <1>5, GeneratorsWrite DEF t
<1>11. Optional(Only(E, TasksParams)) = TasksFilter.exact
  BY <1>7 DEF TasksFilter, E, Optional, Only, Without
<1>12. LET l == Generated(t) IN
       /\ l.entity = E /\ l.create = TasksCreate /\ l.update = TasksUpdate
       /\ l.orderBy = DOMAIN E /\ l.orderColumns = DOMAIN E
       /\ l.orderParams = TasksOrderParams /\ l.params = TasksParams
       /\ l.filter = TasksFilter /\ l.conditions = TasksConditions
       /\ l.insertStmt = TasksInsertStmt /\ l.updateStmt = TasksUpdateStmt
  <2>1. (DOMAIN E \ {"metadata"}) \union {"task_id"} = TasksOrderParams
    BY TasksColumns DEF TasksOrderParams, E
  <2>2. TasksFilter = [exact |-> Optional(Only(E, TasksParams)), range |-> Stamps]
    BY <1>11 DEF TasksFilter
  <2>3. TasksConditions = [exact |-> TasksParams, range |-> Stamps]
    BY <1>7 DEF TasksConditions, E
  <2>4. TasksUpdateStmt.set = DOMAIN E \ (Stamps \union {"task_id"})
    BY TasksColumns DEF TasksUpdateStmt, E, Stamps
  <2>5. TasksInsertStmt.columns = DOMAIN E \ Stamps
    BY TasksColumns DEF TasksInsertStmt, E, Stamps
  <2> QED
    BY <1>7, <1>10, <2>1, <2>2, <2>3, <2>4, <2>5
    DEF LayersOf, E, TasksCreate, TasksUpdate, TasksInsertStmt,
        TasksUpdateStmt
<1>13. LET l == Generated(t) IN
       /\ l.pk = "task_id" /\ l.getStmt = TasksGetStmt /\ l.deleteStmt = TasksDeleteStmt
       /\ l.listStmt = TasksListStmt /\ l.path = TasksPath /\ l.archived = {}
       /\ l.search = TasksSearch /\ l.parse = TasksParse
  BY <1>1, <1>6, <1>8, <1>9, <1>10, <1>12
  DEF Generated, LayersOf, BridgePath, E, TasksGetStmt, TasksDeleteStmt, TasksListStmt,
      TasksPath
<1> QED
  BY <1>12, <1>13
  DEF t, E, Generated, Layers, TasksOrderBy, TasksOrderColumns

-----------------------------------------------------------------------------
(* users                                                                   *)
LEMMA UsersTableIs ==
  LET column == UsersTable.columns IN
  /\ DOMAIN column = DOMAIN UsersEntity
  /\ \A c \in Stamps : column[c] = Column("timestamp", Filled)
  /\ column["user_id"] = Column("uuid", Filled)
  /\ column["email"] = Column("varchar", Required)
  /\ \A c \in {"username", "password_hash", "password_salt", "first_name", "last_name",
               "display_name", "password_reset_token"} :
       column[c] = Column("varchar", Nullable)
  /\ column["email_verified"] = Column("bool", Defaulted)
  /\ \A c \in {"email_verified_at", "last_login_at", "locked_until",
               "password_reset_expires_at"} : column[c] = Column("timestamp", Nullable)
  /\ column["role"] = Column("varchar", Defaulted)
  /\ \A c \in {"permissions", "metadata"} : column[c] = Column("jsonb", Defaulted)
  /\ column["last_login_ip"] = Column("inet", Nullable)
  /\ column["failed_login_attempts"] = Column("int4", Defaulted)
  /\ column["status"] = Column("varchar", Filled)
<1> DEFINE column == UsersTable.columns
<1> USE DEF UsersTable, Table, Grouped, Columns, StampColumns, Stamps
<1>1. DOMAIN column = DOMAIN UsersEntity
  BY UsersColumns DEF UsersJSON
<1>2. \A c \in Stamps : column[c] = Column("timestamp", Filled)
  OBVIOUS
<1>3. column["user_id"] = Column("uuid", Filled)
  OBVIOUS
<1>4. column["email"] = Column("varchar", Required)
  OBVIOUS
<1>5. \A c \in {"username", "password_hash", "password_salt", "first_name", "last_name",
                "display_name", "password_reset_token"} :
        column[c] = Column("varchar", Nullable)
  OBVIOUS
<1>6. column["email_verified"] = Column("bool", Defaulted)
  OBVIOUS
<1>7. \A c \in {"email_verified_at", "last_login_at", "locked_until",
                "password_reset_expires_at"} : column[c] = Column("timestamp", Nullable)
  OBVIOUS
<1>8. column["role"] = Column("varchar", Defaulted)
  OBVIOUS
<1>9. \A c \in {"permissions", "metadata"} : column[c] = Column("jsonb", Defaulted)
  OBVIOUS
<1>10. column["last_login_ip"] = Column("inet", Nullable)
  OBVIOUS
<1>11. column["failed_login_attempts"] = Column("int4", Defaulted)
  OBVIOUS
<1>12. column["status"] = Column("varchar", Filled)
  OBVIOUS
<1> QED
  BY <1>1, <1>2, <1>3, <1>4, <1>5, <1>6, <1>7, <1>8, <1>9, <1>10, <1>11, <1>12

LEMMA UsersEntityIs ==
  /\ \A c \in {"user_id", "email", "status"} : UsersEntity[c] = "string"
  /\ \A c \in Stamps : UsersEntity[c] = "time.Time"
  /\ \A c \in {"username", "password_hash", "password_salt", "first_name", "last_name",
               "display_name", "role", "last_login_ip", "password_reset_token"} :
       UsersEntity[c] = "*string"
  /\ UsersEntity["email_verified"] = "*bool"
  /\ \A c \in {"email_verified_at", "last_login_at", "locked_until",
               "password_reset_expires_at"} : UsersEntity[c] = "*time.Time"
  /\ UsersEntity["failed_login_attempts"] = "*int"
  /\ \A c \in UsersJSON : UsersEntity[c] = "*json.RawMessage"
BY DEF UsersEntity, Grouped, Stamps, UsersJSON

LEMMA UsersParseIs ==
  /\ \A c \in {"email", "username", "password_hash", "password_salt", "first_name",
               "last_name", "display_name", "role", "last_login_ip", "password_reset_token",
               "status"} : UsersParse[c] = "string"
  /\ UsersParse["email_verified"] = "bool"
  /\ UsersParse["failed_login_attempts"] = "int"
  /\ \A c \in {"email_verified_at", "last_login_at", "locked_until",
               "password_reset_expires_at"} : UsersParse[c] = "time"
BY DEF UsersParse, Grouped, Stamps, UsersJSON

UsersGroups(t) ==
  /\ Alike(t, Stamps, "timestamp", "time.Time")
  /\ Alike(t, {"user_id"}, "uuid", "string")
  /\ Alike(t, {"email"}, "varchar", "string")
  /\ Alike(t, {"username", "password_hash", "password_salt", "first_name", "last_name",
               "display_name", "password_reset_token"}, "varchar", "*string")
  /\ Alike(t, {"email_verified"}, "bool", "*bool")
  /\ Alike(t, {"email_verified_at", "last_login_at", "locked_until",
               "password_reset_expires_at"}, "timestamp", "*time.Time")
  /\ Alike(t, {"role"}, "varchar", "*string")
  /\ Alike(t, {"permissions", "metadata"}, "jsonb", "*json.RawMessage")
  /\ Alike(t, {"last_login_ip"}, "inet", "*string")
  /\ Alike(t, {"failed_login_attempts"}, "int4", "*int")
  /\ Alike(t, {"status"}, "varchar", "string")

LEMMA UsersReflected == UsersGroups(Reflect(UsersTable))
<1> DEFINE t == Reflect(UsersTable)
           column == UsersTable.columns
<1> HIDE DEF t
<1>1. /\ {"timestamp", "uuid", "varchar", "bool", "jsonb", "inet", "int4"} \subseteq UsedTypes
      /\ Plainly("timestamp") = "time.Time"
      /\ Plainly("uuid") = "string"
      /\ Plainly("varchar") = "string"
      /\ Pointed("varchar") = "*string"
      /\ Pointed("bool") = "*bool"
      /\ Pointed("timestamp") = "*time.Time"
      /\ Pointed("jsonb") = "*json.RawMessage"
      /\ Pointed("inet") = "*string"
      /\ Pointed("int4") = "*int"
  BY GoTypesAre DEF UsedTypes
<1>2. /\ Stamps \subseteq DOMAIN column
      /\ {"user_id", "email", "username", "password_hash", "password_salt", "first_name",
           "last_name", "display_name", "password_reset_token", "email_verified",
           "email_verified_at", "last_login_at", "locked_until", "password_reset_expires_at",
           "role", "permissions", "metadata", "last_login_ip", "failed_login_attempts",
           "status"}
           \subseteq DOMAIN column
  BY UsersColumns, UsersTableIs DEF UsersJSON
<1>3. Alike(t, Stamps, "timestamp", "time.Time")
  BY <1>1, <1>2, UsersTableIs, PlainColumns DEF t
<1>4. Alike(t, {"user_id"}, "uuid", "string")
  BY <1>1, <1>2, UsersTableIs, PlainColumns DEF t
<1>5. Alike(t, {"email"}, "varchar", "string")
  BY <1>1, <1>2, UsersTableIs, PlainColumns DEF t
<1>6. Alike(t, {"username", "password_hash", "password_salt", "first_name", "last_name",
                "display_name", "password_reset_token"}, "varchar", "*string")
  BY <1>1, <1>2, UsersTableIs, PointedColumns DEF t
<1>7. Alike(t, {"email_verified"}, "bool", "*bool")
  BY <1>1, <1>2, UsersTableIs, PointedColumns DEF t
<1>8. Alike(t, {"email_verified_at", "last_login_at", "locked_until",
                "password_reset_expires_at"}, "timestamp", "*time.Time")
  BY <1>1, <1>2, UsersTableIs, PointedColumns DEF t
<1>9. Alike(t, {"role"}, "varchar", "*string")
  BY <1>1, <1>2, UsersTableIs, PointedColumns DEF t
<1>10. Alike(t, {"permissions", "metadata"}, "jsonb", "*json.RawMessage")
  BY <1>1, <1>2, UsersTableIs, PointedColumns DEF t
<1>11. Alike(t, {"last_login_ip"}, "inet", "*string")
  BY <1>1, <1>2, UsersTableIs, PointedColumns DEF t
<1>12. Alike(t, {"failed_login_attempts"}, "int4", "*int")
  BY <1>1, <1>2, UsersTableIs, PointedColumns DEF t
<1>13. Alike(t, {"status"}, "varchar", "string")
  BY <1>1, <1>2, UsersTableIs, PlainColumns DEF t
<1> QED
  BY <1>3, <1>4, <1>5, <1>6, <1>7, <1>8, <1>9, <1>10, <1>11, <1>12, <1>13 DEF UsersGroups, t

LEMMA UsualUsers == Usual(UsersTable)
<1> DEFINE column == UsersTable.columns
<1>1. UsersTable.pk = "user_id"
  BY DEF UsersTable, Table
<1>2. "user_id" \in DOMAIN column \ Stamps /\ Stamps \subseteq DOMAIN column
  BY UsersTableIs, UsersColumns DEF Stamps
<1>3. \A c \in Stamps : column[c] = Column("timestamp", Filled)
  BY UsersTableIs
<1>4. \A c \in Stamps : NormalizedType(column[c].type) \notin {"json", "jsonb"}
  BY <1>3 DEF Column, NormalizedType
<1>5. ASSUME NEW c \in DOMAIN column PROVE column[c].type \in UsedTypes
  <2>1. \E type \in UsedTypes, flags \in {Nullable, Required, Defaulted, Filled} :
          column[c] = Column(type, flags)
    BY UsersTableIs, UsersColumns DEF UsedTypes, UsersJSON
  <2> QED
    BY <2>1 DEF Column
<1> QED
  BY <1>1, <1>2, <1>3, <1>4, <1>5 DEF Usual, HasKeyAndStamps

LEMMA UsersGenerated == Generated(Reflect(UsersTable)) = Layers["users"]
<1> DEFINE t == Reflect(UsersTable)
           E == UsersEntity
<1>1. /\ Usual(UsersTable) /\ Names(t) = DOMAIN E
      /\ t.pk = "user_id" /\ t.foreign = {}
  <2>1. UsersTable.pk = "user_id" /\ UsersTable.foreign = {}
    BY DEF UsersTable, Table
  <2> QED
    BY <2>1, UsualUsers, UsualTable, UsersTableIs
<1>2. UsersGroups(t)
  BY UsersReflected
<1>3. t.columns["user_id"].default
  <2>1. /\ "user_id" \in DOMAIN UsersTable.columns
        /\ UsersTable.columns["user_id"] = Column("uuid", Filled)
    BY UsersTableIs, UsersColumns
  <2> QED
    BY <2>1, ReflectedDefault, FlagsAre
<1> HIDE DEF t, E
<1>4. EntityFields(t) = E
  <2>1. \A c \in DOMAIN E : t.columns[c].go = E[c]
    BY <1>2, UsersColumns, UsersEntityIs DEF UsersGroups, Alike, E, UsersJSON
  <2>2. E = [c \in DOMAIN E |-> E[c]]
    BY DEF E, UsersEntity, Grouped
  <2> QED
    BY <1>1, <2>1, <2>2 DEF EntityFields
<1>5. JSONColumns(t) = UsersJSON
  BY <1>1, <1>2, UsersColumns DEF JSONColumns, IsJSON, UsersGroups, Alike, E, UsersJSON
<1>6. Searchable(t) = UsersSearch
  BY <1>1, <1>2, UsersColumns DEF Searchable, UsersGroups, Alike, E, UsersSearch, UsersJSON
<1>7. (DOMAIN E \ (Stamps \union {"user_id"})) \ UsersJSON = UsersParams
  BY UsersColumns DEF UsersParams, E, Stamps, UsersJSON
<1>8. [c \in UsersParams |-> BridgeParser(t, c)] = UsersParse
  <2>1. DOMAIN UsersParse = UsersParams
    BY UsersColumns, UsersParseColumns DEF UsersParams, UsersJSON, Stamps
  <2>2. UsersParse = [c \in DOMAIN UsersParse |-> UsersParse[c]]
    BY DEF UsersParse, Grouped
  <2>3. \A c \in DOMAIN UsersParse : BridgeParser(t, c) = UsersParse[c]
    BY <1>2, UsersParseColumns, UsersParseIs
    DEF BridgeParser, UsersGroups, Alike
  <2> QED
    BY <2>1, <2>2, <2>3
<1>9. StoreArchive(t) = {"status"}
  BY <1>1, UsersColumns DEF StoreArchive, E, Stamps, UsersJSON
<1>10. LayersOf(Generated(t), E, "user_id", UsersJSON,
                Stamps \union {"user_id"}, "database")
  BY <1>1, <1>3, <1>4, <1>5, GeneratorsWrite DEF t
<1>11. Optional(Only(E, UsersParams)) = UsersFilter.exact
  BY <1>7 DEF UsersFilter, E, Optional, Only, Without
<1>12. LET l == Generated(t) IN
       /\ l.entity = E /\ l.create = UsersCreate /\ l.update = UsersUpdate
       /\ l.orderBy = DOMAIN E /\ l.orderColumns = DOMAIN E
       /\ l.orderParams = UsersOrderParams /\ l.params = UsersParams
       /\ l.filter = UsersFilter /\ l.conditions = UsersConditions
       /\ l.insertStmt = UsersInsertStmt /\ l.updateStmt = UsersUpdateStmt
  <2>1. (DOMAIN E \ UsersJSON) \union {"user_id"} = UsersOrderParams
    BY UsersColumns DEF UsersOrderParams, E, UsersJSON
  <2>2. UsersFilter = [exact |-> Optional(Only(E, UsersParams)), range |-> Stamps]
    BY <1>11 DEF UsersFilter
  <2>3. UsersConditions = [exact |-> UsersParams, range |-> Stamps]
    BY <1>7 DEF UsersConditions, E
  <2>4. UsersUpdateStmt.set = DOMAIN E \ (Stamps \union {"user_id"})
    BY UsersColumns DEF UsersUpdateStmt, E, Stamps
  <2>5. UsersInsertStmt.columns = DOMAIN E \ (Stamps \union {"user_id"})
    BY UsersColumns DEF UsersInsertStmt, E, Stamps
  <2> QED
    BY <1>7, <1>10, <2>1, <2>2, <2>3, <2>4, <2>5
    DEF LayersOf, E, UsersCreate, UsersUpdate, UsersInsertStmt,
        UsersUpdateStmt
<1>13. LET l == Generated(t) IN
       /\ l.pk = "user_id" /\ l.getStmt = UsersGetStmt /\ l.deleteStmt = UsersDeleteStmt
       /\ l.listStmt = UsersListStmt /\ l.path = UsersPath /\ l.archived = {"status"}
       /\ l.search = UsersSearch /\ l.parse = UsersParse
  BY <1>1, <1>6, <1>8, <1>9, <1>10, <1>12
  DEF Generated, LayersOf, BridgePath, E, UsersGetStmt, UsersDeleteStmt, UsersListStmt,
      UsersPath
<1> QED
  BY <1>12, <1>13
  DEF t, E, Generated, Layers, UsersOrderBy, UsersOrderColumns, UsersArchiveStmt

-----------------------------------------------------------------------------
(* user_sessions                                                           *)
LEMMA SessionsTableIs ==
  LET column == SessionsTable.columns IN
  /\ DOMAIN column = DOMAIN SessionsEntity
  /\ \A c \in Stamps : column[c] = Column("timestamp", Filled)
  /\ column["session_id"] = Column("uuid", Filled)
  /\ column["user_id"] = Column("uuid", Required)
  /\ column["session_token"] = Column("varchar", Required)
  /\ column["refresh_token"] = Column("varchar", Nullable)
  /\ column["ip_address"] = Column("inet", Nullable)
  /\ column["user_agent"] = Column("text", Nullable)
  /\ column["device_info"] = Column("jsonb", Nullable)
  /\ column["expires_at"] = Column("timestamp", Required)
  /\ column["refresh_expires_at"] = Column("timestamp", Nullable)
  /\ column["status"] = Column("varchar", Filled)
  /\ column["last_active_at"] = Column("timestamp", Filled)
<1> DEFINE column == SessionsTable.columns
<1> USE DEF SessionsTable, Table, Grouped, Columns, StampColumns, Stamps
<1>1. DOMAIN column = DOMAIN SessionsEntity
  BY SessionsColumns
<1>2. \A c \in Stamps : column[c] = Column("timestamp", Filled)
  OBVIOUS
<1>3. column["session_id"] = Column("uuid", Filled)
  OBVIOUS
<1>4. column["user_id"] = Column("uuid", Required)
  OBVIOUS
<1>5. column["session_token"] = Column("varchar", Required)
  OBVIOUS
<1>6. column["refresh_token"] = Column("varchar", Nullable)
  OBVIOUS
<1>7. column["ip_address"] = Column("inet", Nullable)
  OBVIOUS
<1>8. column["user_agent"] = Column("text", Nullable)
  OBVIOUS
<1>9. column["device_info"] = Column("jsonb", Nullable)
  OBVIOUS
<1>10. column["expires_at"] = Column("timestamp", Required)
  OBVIOUS
<1>11. column["refresh_expires_at"] = Column("timestamp", Nullable)
  OBVIOUS
<1>12. column["status"] = Column("varchar", Filled)
  OBVIOUS
<1>13. column["last_active_at"] = Column("timestamp", Filled)
  OBVIOUS
<1> QED
  BY <1>1, <1>2, <1>3, <1>4, <1>5, <1>6, <1>7, <1>8, <1>9, <1>10, <1>11, <1>12, <1>13

LEMMA SessionsEntityIs ==
  /\ \A c \in {"session_id", "user_id", "session_token", "status"} :
       SessionsEntity[c] = "string"
  /\ \A c \in Stamps \union {"expires_at", "last_active_at"} : SessionsEntity[c] = "time.Time"
  /\ \A c \in {"refresh_token", "ip_address", "user_agent"} : SessionsEntity[c] = "*string"
  /\ SessionsEntity["device_info"] = "*json.RawMessage"
  /\ SessionsEntity["refresh_expires_at"] = "*time.Time"
BY DEF SessionsEntity, Grouped, Stamps

LEMMA SessionsParseIs ==
  /\ \A c \in {"user_id", "session_token", "refresh_token", "ip_address", "user_agent",
               "status"} : SessionsParse[c] = "string"
  /\ \A c \in {"expires_at", "refresh_expires_at", "last_active_at"} :
       SessionsParse[c] = "time"
BY DEF SessionsParse, Grouped, Stamps

SessionsGroups(t) ==
  /\ Alike(t, Stamps, "timestamp", "time.Time")
  /\ Alike(t, {"session_id"}, "uuid", "string")
  /\ Alike(t, {"user_id"}, "uuid", "string")
  /\ Alike(t, {"session_token"}, "varchar", "string")
  /\ Alike(t, {"refresh_token"}, "varchar", "*string")
  /\ Alike(t, {"ip_address"}, "inet", "*string")
  /\ Alike(t, {"user_agent"}, "text", "*string")
  /\ Alike(t, {"device_info"}, "jsonb", "*json.RawMessage")
  /\ Alike(t, {"expires_at"}, "timestamp", "time.Time")
  /\ Alike(t, {"refresh_expires_at"}, "timestamp", "*time.Time")
  /\ Alike(t, {"status"}, "varchar", "string")
  /\ Alike(t, {"last_active_at"}, "timestamp", "time.Time")

LEMMA SessionsReflected == SessionsGroups(Reflect(SessionsTable))
<1> DEFINE t == Reflect(SessionsTable)
           column == SessionsTable.columns
<1> HIDE DEF t
<1>1. /\ {"timestamp", "uuid", "varchar", "inet", "text", "jsonb"} \subseteq UsedTypes
      /\ Plainly("timestamp") = "time.Time"
      /\ Plainly("uuid") = "string"
      /\ Plainly("varchar") = "string"
      /\ Pointed("varchar") = "*string"
      /\ Pointed("inet") = "*string"
      /\ Pointed("text") = "*string"
      /\ Pointed("jsonb") = "*json.RawMessage"
      /\ Pointed("timestamp") = "*time.Time"
  BY GoTypesAre DEF UsedTypes
<1>2. /\ Stamps \subseteq DOMAIN column
      /\ {"session_id", "user_id", "session_token", "refresh_token", "ip_address", "user_agent",
           "device_info", "expires_at", "refresh_expires_at", "status", "last_active_at"}
           \subseteq DOMAIN column
  BY SessionsColumns, SessionsTableIs
<1>3. Alike(t, Stamps, "timestamp", "time.Time")
  BY <1>1, <1>2, SessionsTableIs, PlainColumns DEF t
<1>4. Alike(t, {"session_id"}, "uuid", "string")
  BY <1>1, <1>2, SessionsTableIs, PlainColumns DEF t
<1>5. Alike(t, {"user_id"}, "uuid", "string")
  BY <1>1, <1>2, SessionsTableIs, PlainColumns DEF t
<1>6. Alike(t, {"session_token"}, "varchar", "string")
  BY <1>1, <1>2, SessionsTableIs, PlainColumns DEF t
<1>7. Alike(t, {"refresh_token"}, "varchar", "*string")
  BY <1>1, <1>2, SessionsTableIs, PointedColumns DEF t
<1>8. Alike(t, {"ip_address"}, "inet", "*string")
  BY <1>1, <1>2, SessionsTableIs, PointedColumns DEF t
<1>9. Alike(t, {"user_agent"}, "text", "*string")
  BY <1>1, <1>2, SessionsTableIs, PointedColumns DEF t
<1>10. Alike(t, {"device_info"}, "jsonb", "*json.RawMessage")
  BY <1>1, <1>2, SessionsTableIs, PointedColumns DEF t
<1>11. Alike(t, {"expires_at"}, "timestamp", "time.Time")
  BY <1>1, <1>2, SessionsTableIs, PlainColumns DEF t
<1>12. Alike(t, {"refresh_expires_at"}, "timestamp", "*time.Time")
  BY <1>1, <1>2, SessionsTableIs, PointedColumns DEF t
<1>13. Alike(t, {"status"}, "varchar", "string")
  BY <1>1, <1>2, SessionsTableIs, PlainColumns DEF t
<1>14. Alike(t, {"last_active_at"}, "timestamp", "time.Time")
  BY <1>1, <1>2, SessionsTableIs, PlainColumns DEF t
<1> QED
  BY <1>3, <1>4, <1>5, <1>6, <1>7, <1>8, <1>9, <1>10, <1>11, <1>12, <1>13, <1>14
  DEF SessionsGroups, t

LEMMA UsualSessions == Usual(SessionsTable)
<1> DEFINE column == SessionsTable.columns
<1>1. SessionsTable.pk = "session_id"
  BY DEF SessionsTable, Table
<1>2. "session_id" \in DOMAIN column \ Stamps /\ Stamps \subseteq DOMAIN column
  BY SessionsTableIs, SessionsColumns DEF Stamps
<1>3. \A c \in Stamps : column[c] = Column("timestamp", Filled)
  BY SessionsTableIs
<1>4. \A c \in Stamps : NormalizedType(column[c].type) \notin {"json", "jsonb"}
  BY <1>3 DEF Column, NormalizedType
<1>5. ASSUME NEW c \in DOMAIN column PROVE column[c].type \in UsedTypes
  <2>1. \E type \in UsedTypes, flags \in {Nullable, Required, Defaulted, Filled} :
          column[c] = Column(type, flags)
    BY SessionsTableIs, SessionsColumns DEF UsedTypes
  <2> QED
    BY <2>1 DEF Column
<1> QED
  BY <1>1, <1>2, <1>3, <1>4, <1>5 DEF Usual, HasKeyAndStamps

LEMMA SessionsGenerated == Generated(Reflect(SessionsTable)) = Layers["user_sessions"]
<1> DEFINE t == Reflect(SessionsTable)
           E == SessionsEntity
<1>1. /\ Usual(SessionsTable) /\ Names(t) = DOMAIN E
      /\ t.pk = "session_id" /\ t.foreign = {"user_id"}
  <2>1. SessionsTable.pk = "session_id" /\ SessionsTable.foreign = {"user_id"}
    BY DEF SessionsTable, Table
  <2> QED
    BY <2>1, UsualSessions, UsualTable, SessionsTableIs
<1>2. SessionsGroups(t)
  BY SessionsReflected
<1>3. t.columns["session_id"].default
  <2>1. /\ "session_id" \in DOMAIN SessionsTable.columns
        /\ SessionsTable.columns["session_id"] = Column("uuid", Filled)
    BY SessionsTableIs, SessionsColumns
  <2> QED
    BY <2>1, ReflectedDefault, FlagsAre
<1> HIDE DEF t, E
<1>4. EntityFields(t) = E
  <2>1. \A c \in DOMAIN E : t.columns[c].go = E[c]
    BY <1>2, SessionsColumns, SessionsEntityIs DEF SessionsGroups, Alike, E
  <2>2. E = [c \in DOMAIN E |-> E[c]]
    BY DEF E, SessionsEntity, Grouped
  <2> QED
    BY <1>1, <2>1, <2>2 DEF EntityFields
<1>5. JSONColumns(t) = {"device_info"}
  BY <1>1, <1>2, SessionsColumns DEF JSONColumns, IsJSON, SessionsGroups, Alike, E
<1>6. Searchable(t) = SessionsSearch
  BY <1>1, <1>2, SessionsColumns DEF Searchable, SessionsGroups, Alike, E, SessionsSearch
<1>7. (DOMAIN E \ (Stamps \union {"session_id"})) \ {"device_info"} = SessionsParams
  BY SessionsColumns DEF SessionsParams, E, Stamps
<1>8. [c \in SessionsParams |-> BridgeParser(t, c)] = SessionsParse
  <2>1. DOMAIN SessionsParse = SessionsParams
    BY SessionsParseColumns DEF SessionsParams
  <2>2. SessionsParse = [c \in DOMAIN SessionsParse |-> SessionsParse[c]]
    BY DEF SessionsParse, Grouped
  <2>3. \A c \in DOMAIN SessionsParse : BridgeParser(t, c) = SessionsParse[c]
    BY <1>2, SessionsParseColumns, SessionsParseIs
    DEF BridgeParser, SessionsGroups, Alike
  <2> QED
    BY <2>1, <2>2, <2>3
<1>9. StoreArchive(t) = {"status"}
  BY <1>1, SessionsColumns DEF StoreArchive, E, Stamps
<1>10. LayersOf(Generated(t), E, "session_id", {"device_info"},
                Stamps \union {"session_id"}, "database")
  BY <1>1, <1>3, <1>4, <1>5, GeneratorsWrite DEF t
<1>11. Optional(Only(E, SessionsParams)) = SessionsFilter.exact
  BY <1>7 DEF SessionsFilter, E, Optional, Only, Without
<1>12. LET l == Generated(t) IN
       /\ l.entity = E /\ l.create = SessionsCreate /\ l.update = SessionsUpdate
       /\ l.orderBy = DOMAIN E /\ l.orderColumns = DOMAIN E
       /\ l.orderParams = SessionsOrderParams /\ l.params = SessionsParams
       /\ l.filter = SessionsFilter /\ l.conditions = SessionsConditions
       /\ l.insertStmt = SessionsInsertStmt /\ l.updateStmt = SessionsUpdateStmt
  <2>1. (DOMAIN E \ {"device_info"}) \union {"session_id"} = SessionsOrderParams
    BY SessionsColumns DEF SessionsOrderParams, E
  <2>2. SessionsFilter = [exact |-> Optional(Only(E, SessionsParams)), range |-> Stamps]
    BY <1>11 DEF SessionsFilter
  <2>3. SessionsConditions = [exact |-> SessionsParams, range |-> Stamps]
    BY <1>7 DEF SessionsConditions, E
  <2>4. SessionsUpdateStmt.set = DOMAIN E \ (Stamps \union {"session_id"})
    BY SessionsColumns DEF SessionsUpdateStmt, E, Stamps
  <2>5. SessionsInsertStmt.columns = DOMAIN E \ (Stamps \union {"session_id"})
    BY SessionsColumns DEF SessionsInsertStmt, E, Stamps
  <2> QED
    BY <1>7, <1>10, <2>1, <2>2, <2>3, <2>4, <2>5
    DEF LayersOf, E, SessionsCreate, SessionsUpdate, SessionsInsertStmt,
        SessionsUpdateStmt
<1>13. LET l == Generated(t) IN
       /\ l.pk = "session_id" /\ l.getStmt = SessionsGetStmt /\ l.deleteStmt = SessionsDeleteStmt
       /\ l.listStmt = SessionsListStmt /\ l.path = SessionsPath /\ l.archived = {"status"}
       /\ l.search = SessionsSearch /\ l.parse = SessionsParse
  BY <1>1, <1>6, <1>8, <1>9, <1>10, <1>12
  DEF Generated, LayersOf, BridgePath, E, SessionsGetStmt, SessionsDeleteStmt, SessionsListStmt,
      SessionsPath
<1> QED
  BY <1>12, <1>13
  DEF t, E, Generated, Layers, SessionsOrderBy, SessionsOrderColumns, SessionsArchiveStmt

-----------------------------------------------------------------------------
(* schema_migrations                                                       *)
LEMMA MigrationsTableIs ==
  LET column == MigrationsTable.columns IN
  /\ DOMAIN column = DOMAIN MigrationsEntity
  /\ \A c \in Stamps : column[c] = Column("timestamp", Filled)
  /\ \A c \in {"version", "checksum"} : column[c] = Column("varchar", Required)
  /\ column["applied_at"] = Column("timestamp", Filled)
<1> DEFINE column == MigrationsTable.columns
<1> USE DEF MigrationsTable, Table, Grouped, Columns, StampColumns, Stamps
<1>1. DOMAIN column = DOMAIN MigrationsEntity
  BY MigrationsColumns
<1>2. \A c \in Stamps : column[c] = Column("timestamp", Filled)
  OBVIOUS
<1>3. \A c \in {"version", "checksum"} : column[c] = Column("varchar", Required)
  OBVIOUS
<1>4. column["applied_at"] = Column("timestamp", Filled)
  OBVIOUS
<1> QED
  BY <1>1, <1>2, <1>3, <1>4

LEMMA MigrationsEntityIs ==
  /\ \A c \in {"version", "checksum"} : MigrationsEntity[c] = "string"
  /\ \A c \in Stamps \union {"applied_at"} : MigrationsEntity[c] = "time.Time"
BY DEF MigrationsEntity, Grouped, Stamps

LEMMA MigrationsParseIs ==
  /\ MigrationsParse["checksum"] = "string"
  /\ MigrationsParse["applied_at"] = "time"
BY DEF MigrationsParse, Grouped, Stamps

MigrationsGroups(t) ==
  /\ Alike(t, Stamps, "timestamp", "time.Time")
  /\ Alike(t, {"version", "checksum"}, "varchar", "string")
  /\ Alike(t, {"applied_at"}, "timestamp", "time.Time")

LEMMA MigrationsReflected == MigrationsGroups(Reflect(MigrationsTable))
<1> DEFINE t == Reflect(MigrationsTable)
           column == MigrationsTable.columns
<1> HIDE DEF t
<1>1. /\ {"timestamp", "varchar"} \subseteq UsedTypes
      /\ Plainly("timestamp") = "time.Time"
      /\ Plainly("varchar") = "string"
  BY GoTypesAre DEF UsedTypes
<1>2. /\ Stamps \subseteq DOMAIN column
      /\ {"version", "checksum", "applied_at"}
           \subseteq DOMAIN column
  BY MigrationsColumns, MigrationsTableIs
<1>3. Alike(t, Stamps, "timestamp", "time.Time")
  BY <1>1, <1>2, MigrationsTableIs, PlainColumns DEF t
<1>4. Alike(t, {"version", "checksum"}, "varchar", "string")
  BY <1>1, <1>2, MigrationsTableIs, PlainColumns DEF t
<1>5. Alike(t, {"applied_at"}, "timestamp", "time.Time")
  BY <1>1, <1>2, MigrationsTableIs, PlainColumns DEF t
<1> QED
  BY <1>3, <1>4, <1>5 DEF MigrationsGroups, t

LEMMA UsualMigrations == Usual(MigrationsTable)
<1> DEFINE column == MigrationsTable.columns
<1>1. MigrationsTable.pk = "version"
  BY DEF MigrationsTable, Table
<1>2. "version" \in DOMAIN column \ Stamps /\ Stamps \subseteq DOMAIN column
  BY MigrationsTableIs, MigrationsColumns DEF Stamps
<1>3. \A c \in Stamps : column[c] = Column("timestamp", Filled)
  BY MigrationsTableIs
<1>4. \A c \in Stamps : NormalizedType(column[c].type) \notin {"json", "jsonb"}
  BY <1>3 DEF Column, NormalizedType
<1>5. ASSUME NEW c \in DOMAIN column PROVE column[c].type \in UsedTypes
  <2>1. \E type \in UsedTypes, flags \in {Nullable, Required, Defaulted, Filled} :
          column[c] = Column(type, flags)
    BY MigrationsTableIs, MigrationsColumns DEF UsedTypes
  <2> QED
    BY <2>1 DEF Column
<1> QED
  BY <1>1, <1>2, <1>3, <1>4, <1>5 DEF Usual, HasKeyAndStamps

LEMMA MigrationsGenerated == Generated(Reflect(MigrationsTable)) = Layers["schema_migrations"]
<1> DEFINE t == Reflect(MigrationsTable)
           E == MigrationsEntity
<1>1. /\ Usual(MigrationsTable) /\ Names(t) = DOMAIN E
      /\ t.pk = "version" /\ t.foreign = {}
  <2>1. MigrationsTable.pk = "version" /\ MigrationsTable.foreign = {}
    BY DEF MigrationsTable, Table
  <2> QED
    BY <2>1, UsualMigrations, UsualTable, MigrationsTableIs
<1>2. MigrationsGroups(t)
  BY MigrationsReflected
<1>3. ~ t.columns["version"].default
  <2>1. /\ "version" \in DOMAIN MigrationsTable.columns
        /\ MigrationsTable.columns["version"] = Column("varchar", Required)
    BY MigrationsTableIs, MigrationsColumns
  <2> QED
    BY <2>1, ReflectedDefault, FlagsAre
<1> HIDE DEF t, E
<1>4. EntityFields(t) = E
  <2>1. \A c \in DOMAIN E : t.columns[c].go = E[c]
    BY <1>2, MigrationsColumns, MigrationsEntityIs DEF MigrationsGroups, Alike, E
  <2>2. E = [c \in DOMAIN E |-> E[c]]
    BY DEF E, MigrationsEntity, Grouped
  <2> QED
    BY <1>1, <2>1, <2>2 DEF EntityFields
<1>5. JSONColumns(t) = {}
  BY <1>1, <1>2, MigrationsColumns DEF JSONColumns, IsJSON, MigrationsGroups, Alike, E
<1>6. Searchable(t) = MigrationsSearch
  BY <1>1, <1>2, MigrationsColumns DEF Searchable, MigrationsGroups, Alike, E, MigrationsSearch
<1>7. (DOMAIN E \ (Stamps \union {"version"})) \ {} = MigrationsParams
  BY MigrationsColumns DEF MigrationsParams, E, Stamps
<1>8. [c \in MigrationsParams |-> BridgeParser(t, c)] = MigrationsParse
  <2>1. DOMAIN MigrationsParse = MigrationsParams
    BY MigrationsParseColumns DEF MigrationsParams
  <2>2. MigrationsParse = [c \in DOMAIN MigrationsParse |-> MigrationsParse[c]]
    BY DEF MigrationsParse, Grouped
  <2>3. \A c \in DOMAIN MigrationsParse : BridgeParser(t, c) = MigrationsParse[c]
    BY <1>2, MigrationsParseColumns, MigrationsParseIs
    DEF BridgeParser, MigrationsGroups, Alike
  <2> QED
    BY <2>1, <2>2, <2>3
<1>9. StoreArchive(t) = {}
  BY <1>1, MigrationsColumns DEF StoreArchive, E, Stamps
<1>10. LayersOf(Generated(t), E, "version", {},
                Stamps, "client")
  BY <1>1, <1>3, <1>4, <1>5, GeneratorsWrite DEF t
<1>11. Optional(Only(E, MigrationsParams)) = MigrationsFilter.exact
  BY <1>7 DEF MigrationsFilter, E, Optional, Only, Without, MigrationsParams
<1>12. LET l == Generated(t) IN
       /\ l.entity = E /\ l.create = MigrationsCreate /\ l.update = MigrationsUpdate
       /\ l.orderBy = DOMAIN E /\ l.orderColumns = DOMAIN E
       /\ l.orderParams = MigrationsOrderParams /\ l.params = MigrationsParams
       /\ l.filter = MigrationsFilter /\ l.conditions = MigrationsConditions
       /\ l.insertStmt = MigrationsInsertStmt /\ l.updateStmt = MigrationsUpdateStmt
  <2>1. (DOMAIN E \ {}) \union {"version"} = MigrationsOrderParams
    BY MigrationsColumns DEF MigrationsOrderParams, E
  <2>2. MigrationsFilter = [exact |-> Optional(Only(E, MigrationsParams)), range |-> Stamps]
    BY <1>11 DEF MigrationsFilter
  <2>3. MigrationsConditions = [exact |-> MigrationsParams, range |-> Stamps]
    BY <1>7 DEF MigrationsConditions, E, MigrationsParams
  <2>4. MigrationsUpdateStmt.set = DOMAIN E \ (Stamps \union {"version"})
    BY MigrationsColumns DEF MigrationsUpdateStmt, E, Stamps
  <2>5. MigrationsInsertStmt.columns = DOMAIN E \ Stamps
    BY MigrationsColumns DEF MigrationsInsertStmt, E, Stamps
  <2> QED
    BY <1>7, <1>10, <2>1, <2>2, <2>3, <2>4, <2>5
    DEF LayersOf, E, MigrationsCreate, MigrationsUpdate, MigrationsInsertStmt,
        MigrationsUpdateStmt
<1>13. LET l == Generated(t) IN
       /\ l.pk = "version" /\ l.getStmt = MigrationsGetStmt /\ l.deleteStmt = MigrationsDeleteStmt
       /\ l.listStmt = MigrationsListStmt /\ l.path = MigrationsPath /\ l.archived = {}
       /\ l.search = MigrationsSearch /\ l.parse = MigrationsParse
  BY <1>1, <1>6, <1>8, <1>9, <1>10, <1>12
  DEF Generated, LayersOf, BridgePath, E, MigrationsGetStmt, MigrationsDeleteStmt,
      MigrationsListStmt, MigrationsPath
<1> QED
  BY <1>12, <1>13
  DEF t, E, Generated, Layers, MigrationsOrderBy, MigrationsOrderColumns
-----------------------------------------------------------------------------
(* The four entities are shipped as the generators would write them from   *)
(* the migrations, in every struct, statement, filter and parameter: the   *)
(* generated.go of the twelve packages is what reflector, repositorygen,   *)
(* pgxstores and bridgegen make of the tables today.                       *)
THEOREM AllAsGenerated == AsGenerated = DOMAIN Layers
<1>1. /\ Tables["tasks"] = TasksTable /\ Tables["users"] = UsersTable
      /\ Tables["user_sessions"] = SessionsTable
      /\ Tables["schema_migrations"] = MigrationsTable
  BY DEF Tables
<1> QED
  BY <1>1, FourEntities, TasksGenerated, UsersGenerated, SessionsGenerated, MigrationsGenerated
  DEF AsGenerated
=============================================================================
