------------------------------ MODULE Entities ------------------------------
(***************************************************************************)
(* The four generated entities as they are shipped: for each, the structs  *)
(* of its repository, the SQL statements of its store and the parameters   *)
(* of its HTTP bridge.  A struct is a function from columns to Go types, a *)
(* statement a record of the columns it touches; the control flow around   *)
(* them is the same for every entity and is modelled once, in Records and  *)
(* Listing.                                                                *)
(***************************************************************************)

\* The function that has the same value for all of a group: of a struct, the
\* type of its fields.
Grouped(groups) ==
  [x \in UNION {g[1] : g \in groups} |-> (CHOOSE g \in groups : x \in g[1])[2]]

Only(struct, columns) == [c \in columns |-> struct[c]]
Without(struct, columns) == [c \in DOMAIN struct \ columns |-> struct[c]]

\* The Go type of a field that may be left out.
Pointer ==
  Grouped({<<{"string", "*string"}, "*string">>, <<{"int", "*int"}, "*int">>,
           <<{"bool", "*bool"}, "*bool">>, <<{"time.Time", "*time.Time"}, "*time.Time">>,
           <<{"json.RawMessage", "*json.RawMessage"}, "*json.RawMessage">>})

Optional(struct) == [c \in DOMAIN struct |-> Pointer[struct[c]]]

Stamps == {"created_at", "updated_at"}
-----------------------------------------------------------------------------
(* tasks                                                                   *)
TasksEntity ==
  Grouped({<<{"task_id", "processing_status", "task_type"}, "string">>,
           <<Stamps, "time.Time">>,
           <<{"metadata"}, "*json.RawMessage">>,
           <<{"priority", "max_retries", "retry_count", "processing_time_ms"}, "*int">>,
           <<{"error_message"}, "*string">>,
           <<{"last_run_at"}, "*time.Time">>})

TasksCreate == Without(TasksEntity, Stamps)
TasksUpdate == Optional(Without(TasksEntity, {"task_id", "created_at"}))
TasksOrderBy == DOMAIN TasksEntity
TasksFilter ==
  [exact |-> Optional(Without(TasksEntity, Stamps \union {"task_id", "metadata"})),
   range |-> Stamps]

TasksInsertStmt ==
  [columns |-> DOMAIN TasksEntity \ Stamps, key |-> "client", returning |-> DOMAIN TasksEntity]
TasksGetStmt == [select |-> DOMAIN TasksEntity, where |-> "task_id"]
TasksUpdateStmt ==
  [set |-> DOMAIN TasksEntity \ (Stamps \union {"task_id"}),
   always |-> {"updated_at"}, where |-> "task_id"]
TasksDeleteStmt == [where |-> "task_id"]
TasksListStmt == [select |-> DOMAIN TasksEntity, tieBreak |-> "task_id"]
TasksOrderColumns == DOMAIN TasksEntity
TasksConditions ==
  [exact |-> DOMAIN TasksEntity \ (Stamps \union {"task_id", "metadata"}), range |-> Stamps]
TasksSearch == {"task_id", "processing_status", "task_type", "error_message"}

TasksParams ==
  {"processing_status", "task_type", "priority", "max_retries", "retry_count",
   "error_message", "processing_time_ms", "last_run_at"}
TasksParse ==
  Grouped({<<{"processing_status", "task_type", "error_message"}, "string">>,
           <<{"priority", "max_retries", "retry_count", "processing_time_ms"}, "int">>,
           <<{"last_run_at"}, "time">>})
TasksPath == [key |-> "task_id", foreign |-> {}]
TasksOrderParams == DOMAIN TasksEntity \ {"metadata"}
-----------------------------------------------------------------------------
(* users                                                                   *)
UsersJSON == {"permissions", "metadata"}

UsersEntity ==
  Grouped({<<{"user_id", "email", "status"}, "string">>,
           <<Stamps, "time.Time">>,
           <<{"username", "password_hash", "password_salt", "first_name", "last_name",
              "display_name", "role", "last_login_ip", "password_reset_token"}, "*string">>,
           <<{"email_verified"}, "*bool">>,
           <<{"email_verified_at", "last_login_at", "locked_until", "password_reset_expires_at"},
              "*time.Time">>,
           <<{"failed_login_attempts"}, "*int">>,
           <<UsersJSON, "*json.RawMessage">>})

UsersCreate == Without(UsersEntity, Stamps \union {"user_id"})
UsersUpdate == Optional(Without(UsersEntity, {"user_id", "created_at"}))
UsersOrderBy == DOMAIN UsersEntity
UsersFilter ==
  [exact |-> Optional(Without(UsersEntity, Stamps \union UsersJSON \union {"user_id"})),
   range |-> Stamps]

UsersInsertStmt ==
  [columns |-> DOMAIN UsersEntity \ (Stamps \union {"user_id"}), key |-> "database",
   returning |-> DOMAIN UsersEntity]
UsersGetStmt == [select |-> DOMAIN UsersEntity, where |-> "user_id"]
UsersUpdateStmt ==
  [set |-> DOMAIN UsersEntity \ (Stamps \union {"user_id"}),
   always |-> {"updated_at"}, where |-> "user_id"]
UsersDeleteStmt == [where |-> "user_id"]
UsersListStmt == [select |-> DOMAIN UsersEntity, tieBreak |-> "user_id"]
UsersArchiveStmt == [set |-> {"status"}, where |-> "user_id"]
UsersOrderColumns == DOMAIN UsersEntity
UsersConditionsShort ==
  [exact |-> DOMAIN UsersEntity \ (Stamps \union UsersJSON \union {"user_id", "role"}),
   range |-> Stamps]

UsersConditions ==
  [exact |-> DOMAIN UsersEntity \ (Stamps \union UsersJSON \union {"user_id"}),
   range |-> Stamps]
UsersSearch ==
  {"email", "username", "password_hash", "password_salt", "first_name", "last_name",
   "display_name", "role", "password_reset_token", "status"}

UsersParams == DOMAIN UsersEntity \ (Stamps \union UsersJSON \union {"user_id"})
UsersParse ==
  Grouped({<<{"email", "username", "password_hash", "password_salt", "first_name", "last_name",
              "display_name", "role", "last_login_ip", "password_reset_token", "status"},
              "string">>,
           <<{"email_verified"}, "bool">>,
           <<{"failed_login_attempts"}, "int">>,
           <<{"email_verified_at", "last_login_at", "locked_until", "password_reset_expires_at"},
              "time">>})
UsersPath == [key |-> "user_id", foreign |-> {}]
UsersOrderParams == DOMAIN UsersEntity \ UsersJSON
-----------------------------------------------------------------------------
(* user_sessions                                                           *)
SessionsEntity ==
  Grouped({<<{"session_id", "user_id", "session_token", "status"}, "string">>,
           <<Stamps \union {"expires_at", "last_active_at"}, "time.Time">>,
           <<{"refresh_token", "ip_address", "user_agent"}, "*string">>,
           <<{"device_info"}, "*json.RawMessage">>,
           <<{"refresh_expires_at"}, "*time.Time">>})

SessionsCreate == Without(SessionsEntity, Stamps \union {"session_id"})
SessionsUpdate == Optional(Without(SessionsEntity, {"session_id", "created_at"}))
SessionsOrderBy == DOMAIN SessionsEntity
SessionsFilter ==
  [exact |-> Optional(Without(SessionsEntity, Stamps \union {"session_id", "device_info"})),
   range |-> Stamps]

SessionsInsertStmt ==
  [columns |-> DOMAIN SessionsEntity \ (Stamps \union {"session_id"}), key |-> "database",
   returning |-> DOMAIN SessionsEntity]
SessionsGetStmt == [select |-> DOMAIN SessionsEntity, where |-> "session_id"]
SessionsUpdateStmt ==
  [set |-> DOMAIN SessionsEntity \ (Stamps \union {"session_id"}),
   always |-> {"updated_at"}, where |-> "session_id"]
SessionsDeleteStmt == [where |-> "session_id"]
SessionsListStmt == [select |-> DOMAIN SessionsEntity, tieBreak |-> "session_id"]
SessionsArchiveStmt == [set |-> {"status"}, where |-> "session_id"]
SessionsListByUserIdStmt ==
  [select |-> DOMAIN SessionsEntity, tieBreak |-> "session_id", where |-> "user_id"]
SessionsOrderColumns == DOMAIN SessionsEntity
SessionsConditions ==
  [exact |-> DOMAIN SessionsEntity \ (Stamps \union {"session_id", "device_info"}),
   range |-> Stamps]
SessionsSearch == {"session_token", "refresh_token", "user_agent", "status"}

SessionsParams ==
  {"user_id", "session_token", "refresh_token", "ip_address", "user_agent", "expires_at",
   "refresh_expires_at", "status", "last_active_at"}
SessionsParse ==
  Grouped({<<{"user_id", "session_token", "refresh_token", "ip_address", "user_agent", "status"},
              "string">>,
           <<{"expires_at", "refresh_expires_at", "last_active_at"}, "time">>})
SessionsPath == [key |-> "session_id", foreign |-> {"user_id"}]
SessionsOrderParams == DOMAIN SessionsEntity \ {"device_info"}
-----------------------------------------------------------------------------
(* schema_migrations                                                       *)
MigrationsEntity ==
  Grouped({<<{"version", "checksum"}, "string">>, <<Stamps \union {"applied_at"}, "time.Time">>})

MigrationsCreate == Without(MigrationsEntity, Stamps)
MigrationsUpdate == Optional(Without(MigrationsEntity, {"version", "created_at"}))
MigrationsOrderBy == DOMAIN MigrationsEntity
MigrationsFilter ==
  [exact |-> Optional(Only(MigrationsEntity, {"checksum", "applied_at"})), range |-> Stamps]

MigrationsInsertStmt ==
  [columns |-> {"version", "checksum", "applied_at"}, key |-> "client",
   returning |-> DOMAIN MigrationsEntity]
MigrationsGetStmt == [select |-> DOMAIN MigrationsEntity, where |-> "version"]
MigrationsUpdateStmt ==
  [set |-> {"checksum", "applied_at"}, always |-> {"updated_at"}, where |-> "version"]
MigrationsDeleteStmt == [where |-> "version"]
MigrationsListStmt == [select |-> DOMAIN MigrationsEntity, tieBreak |-> "version"]
MigrationsOrderColumns == DOMAIN MigrationsEntity
MigrationsConditions == [exact |-> {"checksum", "applied_at"}, range |-> Stamps]
MigrationsSearch == {"version", "checksum"}

MigrationsParams == {"checksum", "applied_at"}
MigrationsParse == Grouped({<<{"checksum"}, "string">>, <<{"applied_at"}, "time">>})
MigrationsPath == [key |-> "version", foreign |-> {}]
MigrationsOrderParams == DOMAIN MigrationsEntity
-----------------------------------------------------------------------------
(* What the layers of each entity hand to each other.                      *)
Layers ==
  [tasks |->
     [pk |-> "task_id", entity |-> TasksEntity, create |-> TasksCreate,
      update |-> TasksUpdate, orderBy |-> TasksOrderBy, filter |-> TasksFilter,
      insertStmt |-> TasksInsertStmt, getStmt |-> TasksGetStmt,
      updateStmt |-> TasksUpdateStmt, deleteStmt |-> TasksDeleteStmt,
      listStmt |-> TasksListStmt, archived |-> {}, orderColumns |-> TasksOrderColumns,
      conditions |-> TasksConditions, search |-> TasksSearch, params |-> TasksParams,
      parse |-> TasksParse, path |-> TasksPath, orderParams |-> TasksOrderParams],
   users |->
     [pk |-> "user_id", entity |-> UsersEntity, create |-> UsersCreate,
      update |-> UsersUpdate, orderBy |-> UsersOrderBy, filter |-> UsersFilter,
      insertStmt |-> UsersInsertStmt, getStmt |-> UsersGetStmt,
      updateStmt |-> UsersUpdateStmt, deleteStmt |-> UsersDeleteStmt,
      listStmt |-> UsersListStmt, archived |-> UsersArchiveStmt.set,
      orderColumns |-> UsersOrderColumns, conditions |-> UsersConditions,
      search |-> UsersSearch, params |-> UsersParams, parse |-> UsersParse,
      path |-> UsersPath, orderParams |-> UsersOrderParams],
   user_sessions |->
     [pk |-> "session_id", entity |-> SessionsEntity, create |-> SessionsCreate,
      update |-> SessionsUpdate, orderBy |-> SessionsOrderBy, filter |-> SessionsFilter,
      insertStmt |-> SessionsInsertStmt, getStmt |-> SessionsGetStmt,
      updateStmt |-> SessionsUpdateStmt, deleteStmt |-> SessionsDeleteStmt,
      listStmt |-> SessionsListStmt, archived |-> SessionsArchiveStmt.set,
      orderColumns |-> SessionsOrderColumns, conditions |-> SessionsConditions,
      search |-> SessionsSearch, params |-> SessionsParams, parse |-> SessionsParse,
      path |-> SessionsPath, orderParams |-> SessionsOrderParams],
   schema_migrations |->
     [pk |-> "version", entity |-> MigrationsEntity, create |-> MigrationsCreate,
      update |-> MigrationsUpdate, orderBy |-> MigrationsOrderBy, filter |-> MigrationsFilter,
      insertStmt |-> MigrationsInsertStmt, getStmt |-> MigrationsGetStmt,
      updateStmt |-> MigrationsUpdateStmt, deleteStmt |-> MigrationsDeleteStmt,
      listStmt |-> MigrationsListStmt, archived |-> {}, orderColumns |-> MigrationsOrderColumns,
      conditions |-> MigrationsConditions, search |-> MigrationsSearch,
      params |-> MigrationsParams, parse |-> MigrationsParse, path |-> MigrationsPath,
      orderParams |-> MigrationsOrderParams]]

\* The columns a client may write: all but the key and the two stamps.
Plain(e) == DOMAIN Layers[e].entity \ (Stamps \union {Layers[e].pk})
=============================================================================
