---------------------------- MODULE GeneratedCode ----------------------------
(***************************************************************************)
(* What the code generators make of a table: the reflector describes its   *)
(* columns with Go types, and from that description three generators write *)
(* the structs of the repository, the statements of the store and the      *)
(* parameters of the bridge, each with field builders of its own.  The     *)
(* result has the shape in which Entities records the shipped code.        *)
(***************************************************************************)
EXTENDS Entities, Sequences

(* The tables of the migrations, with the type names of pg_type.           *)
NotNull == "not null"
Default == "default"
\* What a column is declared with: nothing, one of the two or both.
Nullable == {}
Required == {NotNull}
Defaulted == {Default}
Filled == {NotNull, Default}
Column(type, flags) == [type |-> type, flags |-> flags]
Columns(names, type, flags) == <<names, Column(type, flags)>>
Table(pk, foreign, groups) == [pk |-> pk, foreign |-> foreign, columns |-> Grouped(groups)]
StampColumns == Columns(Stamps, "timestamp", Filled)

TasksTable ==
  Table("task_id", {},
    {StampColumns,
     Columns({"task_id", "task_type"}, "varchar", Required),
     Columns({"processing_status"}, "varchar", Filled),
     Columns({"metadata"}, "jsonb", Nullable),
     Columns({"priority", "max_retries", "retry_count"}, "int4", Defaulted),
     Columns({"processing_time_ms"}, "int4", Nullable),
     Columns({"error_message"}, "text", Nullable),
     Columns({"last_run_at"}, "timestamp", Nullable)})

UsersTable ==
  Table("user_id", {},
    {StampColumns,
     Columns({"user_id"}, "uuid", Filled),
     Columns({"email"}, "varchar", Required),
     Columns({"username", "password_hash", "password_salt", "first_name", "last_name",
             "display_name", "password_reset_token"}, "varchar", Nullable),
     Columns({"email_verified"}, "bool", Defaulted),
     Columns({"email_verified_at", "last_login_at", "locked_until",
             "password_reset_expires_at"}, "timestamp", Nullable),
     Columns({"role"}, "varchar", Defaulted),
     Columns({"permissions", "metadata"}, "jsonb", Defaulted),
     Columns({"last_login_ip"}, "inet", Nullable),
     Columns({"failed_login_attempts"}, "int4", Defaulted),
     Columns({"status"}, "varchar", Filled)})

SessionsTable ==
  Table("session_id", {"user_id"},
    {StampColumns,
     Columns({"session_id"}, "uuid", Filled),
     Columns({"user_id"}, "uuid", Required),
     Columns({"session_token"}, "varchar", Required),
     Columns({"refresh_token"}, "varchar", Nullable),
     Columns({"ip_address"}, "inet", Nullable),
     Columns({"user_agent"}, "text", Nullable),
     Columns({"device_info"}, "jsonb", Nullable),
     Columns({"expires_at"}, "timestamp", Required),
     Columns({"refresh_expires_at"}, "timestamp", Nullable),
     Columns({"status"}, "varchar", Filled),
     Columns({"last_active_at"}, "timestamp", Filled)})

MigrationsTable ==
  Table("version", {},
    {StampColumns,
     Columns({"version", "checksum"}, "varchar", Required),
     Columns({"applied_at"}, "timestamp", Filled)})

Tables ==
  [tasks |-> TasksTable, users |-> UsersTable,
   user_sessions |-> SessionsTable, schema_migrations |-> MigrationsTable]
-----------------------------------------------------------------------------
(* The reflector.                                                          *)
\* normalizePostgresType; the length of a type is dropped, as extractBaseType
\* does when the type is looked up.
NormalizedType(udt) ==
  CASE udt = "bpchar" -> "char" [] udt = "decimal" -> "numeric"
    [] udt = "_text" -> "text[]" [] udt = "_varchar" -> "varchar[]"
    [] udt = "_int4" -> "integer[]" [] OTHER -> udt

BaseGoTypes ==
  Grouped({<<{"uuid", "text", "varchar", "char", "inet"}, "string">>,
           <<{"integer", "int", "int4"}, "int">>, <<{"int2"}, "int16">>, <<{"int8"}, "int64">>,
           <<{"float4"}, "float32">>, <<{"float8", "numeric"}, "float64">>,
           <<{"bool"}, "bool">>, <<{"json", "jsonb"}, "json.RawMessage">>,
           <<{"timestamp", "timestamptz", "date", "time"}, "time.Time">>})
Slices ==
  Grouped({<<{"text[]", "varchar[]"}, "[]string">>, <<{"integer[]"}, "[]int">>,
           <<{"bytea"}, "[]byte">>})

PointerTo(goType) == IF goType \in DOMAIN Pointer THEN Pointer[goType] ELSE "*" \o goType

\* mapPostgreSQLTypeToGo: an unknown type is any value at all.
GoType(type, nullable) ==
  LET base == IF type \in DOMAIN BaseGoTypes THEN BaseGoTypes[type] ELSE "interface{}"
  IN CASE type \in DOMAIN Slices -> Slices[type]
       [] nullable -> PointerTo(base)
       [] OTHER -> base

GetColumns(table) ==
  [c \in DOMAIN table.columns |->
     LET type == NormalizedType(table.columns[c].type)
     IN [type |-> type, go |-> GoType(type, NotNull \notin table.columns[c].flags),
         default |-> Default \in table.columns[c].flags, key |-> FALSE]]

\* Reflect marks the key and the foreign keys among the columns.
Reflect(table) ==
  [columns |-> [c \in DOMAIN table.columns |->
                  [GetColumns(table)[c] EXCEPT !.key = c = table.pk]],
   pk |-> table.pk, foreign |-> table.foreign]
-----------------------------------------------------------------------------
(* The generators.  t is a reflected table.                                *)
Names(t) == DOMAIN t.columns
IsJSON(t, c) == t.columns[c].type \in {"json", "jsonb"}
OptionalType(goType) ==
  IF goType \in {Slices[s] : s \in DOMAIN Slices} THEN goType ELSE PointerTo(goType)

CreateColumnsNoDefault(t) == {c \in Names(t) : ~ t.columns[c].default}

\* What the database fills in is not among the fields of Create.
CreateColumns(t) ==
  {c \in Names(t) : ~ (t.columns[c].default /\ (t.columns[c].key \/ c \in Stamps))}
UpdateColumns(t) == {c \in Names(t) \ Stamps : ~ t.columns[c].key}

(* repositorygen *)
EntityFields(t) == [c \in Names(t) |-> t.columns[c].go]
RepositoryCreate(t) == [c \in CreateColumns(t) |-> t.columns[c].go]
\* The template adds updated_at to the fields of the builder.
RepositoryUpdate(t) ==
  [c \in UpdateColumns(t) \union {"updated_at"} |->
     IF c = "updated_at" THEN "*time.Time" ELSE OptionalType(t.columns[c].go)]
OrderByConstants(t) == {t.pk} \union Stamps \union {c \in Names(t) : ~ t.columns[c].key}
RepositoryFilter(t) ==
  [exact |-> [c \in {d \in UpdateColumns(t) : ~ IsJSON(t, d)} |-> PointerTo(t.columns[c].go)],
   range |-> Stamps \intersect Names(t)]

(* pgxstores *)
StoreCreate(t) ==
  [columns |-> CreateColumns(t),
   key |-> IF t.pk \in CreateColumns(t) THEN "client" ELSE "database",
   returning |-> Names(t)]
StoreUpdate(t) == [set |-> UpdateColumns(t), always |-> {"updated_at"}, where |-> t.pk]
StoreFilter(t) ==
  LET filterable == {c \in Names(t) : ~ t.columns[c].key /\ ~ IsJSON(t, c)}
  IN [exact |-> filterable \ Stamps, range |-> filterable \intersect Stamps]
StoreOrderBy(t) == {t.pk} \union Stamps \union UpdateColumns(t)
Searchable(t) ==
  {c \in Names(t) : t.columns[c].type \in {"varchar", "text", "varchar[]", "text[]"}}
StoreArchive(t) == Names(t) \intersect
  (IF "status" \in Names(t) THEN {"status", "deleted_at"} ELSE {})

(* bridgegen *)
BridgeFilter(t) == {c \in UpdateColumns(t) : ~ IsJSON(t, c)}
BridgeParser(t, c) ==
  LET go == t.columns[c].go IN
  CASE go \in {"time.Time", "*time.Time"} -> "time"
    [] go \in {"int", "*int"} -> "int"
    [] go \in {"bool", "*bool"} -> "bool"
    [] OTHER -> "string"
BridgePath(t) == [key |-> t.pk, foreign |-> t.foreign]
BridgeOrderBy(t) == {t.pk} \union Stamps \union BridgeFilter(t)

Generated(t) ==
  [pk |-> t.pk,
   entity |-> EntityFields(t), create |-> RepositoryCreate(t), update |-> RepositoryUpdate(t),
   orderBy |-> OrderByConstants(t), filter |-> RepositoryFilter(t),
   insertStmt |-> StoreCreate(t), getStmt |-> [select |-> Names(t), where |-> t.pk],
   updateStmt |-> StoreUpdate(t), deleteStmt |-> [where |-> t.pk],
   listStmt |-> [select |-> Names(t), tieBreak |-> t.pk], archived |-> StoreArchive(t),
   orderColumns |-> StoreOrderBy(t), conditions |-> StoreFilter(t), search |-> Searchable(t),
   params |-> BridgeFilter(t), parse |-> [c \in BridgeFilter(t) |-> BridgeParser(t, c)],
   path |-> BridgePath(t), orderParams |-> BridgeOrderBy(t)]

\* The entities that the generators write from the migrations as they are shipped.
AsGenerated == {e \in DOMAIN Layers : Generated(Reflect(Tables[e])) = Layers[e]}
=============================================================================
