------------------------------ MODULE Generator ------------------------------
(***************************************************************************)
(* From the schema of the database to files on disk: migrations change the *)
(* schema, reflect-schema describes it in a JSON file, generate writes the *)
(* three layers of each table, and programmers edit the files that are     *)
(* theirs.  These are programs of their own that meet in the database and  *)
(* in files; any of them may stop half-way.                                *)
(*                                                                         *)
(* A table goes through versions, and a migration may change its columns,  *)
(* its primary key and its foreign keys in any way.  What is in the files  *)
(* made from a description is GeneratedCode.                               *)
(***************************************************************************)
EXTENDS GeneratedCode, Integers

CONSTANTS
  TableNames,  \* the tables of the schema
  Package,     \* the package of a table: its name without "_"
  History,     \* what each version of a table has: columns, a key, foreign keys
  NoTable,     \* the table of a program that is at none
  LayerRequests,  \* what -layers may ask for
  Absent,      \* the content of a file that does not exist,
  Torn,        \* of one whose writing was given up half-way,
  Mangled,     \* of one that goimports was to format and left half-written,
  Scaffold,    \* of a custom file as it was generated,
  Edited,      \* and of one with work of a programmer
  MaxVersion,  \* BOUND: versions of a table
  MaxRuns,     \* BOUND: runs of reflect-schema, and of generate
  MaxFaults,   \* BOUND: failures and crashes
  MaxEdits     \* BOUND: edits by hand

ASSUME PackageAssumption == DOMAIN Package = TableNames
ASSUME NoTableAssumption == NoTable \notin TableNames
ASSUME ContentsAssumption ==
  /\ Absent \notin {Torn, Mangled, Scaffold, Edited} /\ Torn \notin {Mangled, Scaffold, Edited}
  /\ Edited \notin {Mangled, Scaffold}
ASSUME LayerRequestsAssumption == LayerRequests \subseteq SUBSET {"repository", "store", "bridge"}
\* The database has no foreign key on a column that is not there.
ASSUME HistoryAssumption ==
  \A t \in TableNames, v \in 1 .. MaxVersion : History[t][v].foreign \subseteq History[t][v].columns
ASSUME BoundsAssumption == MaxVersion \in Nat \ {0} /\ {MaxRuns, MaxFaults, MaxEdits} \subseteq Nat

VARIABLES
  schema,      \* the version of each table in the database
  json,        \* the reflected schema on disk
  reflector,   \* the reflect-schema program
  generator,   \* the generate program
  disk,        \* the generated and the custom files
  announced,   \* history: which layers of which table were announced complete
  used         \* how much of the bounds is used up

vars == <<schema, json, reflector, generator, disk, announced, used>>

LayerOrder == <<"repository", "store", "bridge">>
CustomFiles ==
  [repository |-> <<"model.go", "fop.go", "repository.go">>,
   store |-> <<"store.go">>,
   bridge |-> <<"model.go", "bridge.go", "http.go">>]
FilesOf(layer) == <<"generated.go">> \o CustomFiles[layer]

Packages == {Package[t] : t \in TableNames}
LayerNames == DOMAIN CustomFiles
Named(s) == {s[i] : i \in DOMAIN s}
GeneratedFiles == {<<p, l, "generated.go">> : p \in Packages, l \in LayerNames}
HandFiles == UNION {Packages \X {l} \X Named(CustomFiles[l]) : l \in LayerNames}

\* What a reflection says of a table: its columns, primary key and foreign keys
\* are read by three queries, and so they may be those of three versions.
NoKey == 0
Description == [columns : 1 .. MaxVersion, key : 0 .. MaxVersion, foreign : 1 .. MaxVersion]
ColumnsOf(t, v) == History[t][v].columns
KeyOf(t, v) == History[t][v].key  \* not among the columns: the table has no key
ForeignKeysOf(t, v) == History[t][v].foreign
NothingRead == [at |-> "idle", read |-> << >>, table |-> NoTable, columns |-> 1, key |-> NoKey]
Idle == [at |-> "idle", todo |-> {}, force |-> FALSE, layers |-> {}, def |-> << >>,
         table |-> NoTable, layer |-> 1, file |-> 1]
With(f, t, d) == [x \in DOMAIN f \union {t} |-> IF x = t THEN d ELSE f[x]]
Spend(what) == used' = [used EXCEPT ![what] = @ + 1]

Init ==
  /\ schema = [t \in TableNames |-> 1]
  /\ json = Absent
  /\ reflector = NothingRead /\ generator = Idle
  /\ disk = [f \in GeneratedFiles \union HandFiles |-> Absent]
  /\ announced = [t \in TableNames |-> [l \in LayerNames |-> Absent]]
  /\ used = [reflections |-> 0, generations |-> 0, faults |-> 0, edits |-> 0]
-----------------------------------------------------------------------------
\* A migration is one transaction.
Migrate(t) ==
  /\ schema[t] < MaxVersion
  /\ schema' = [schema EXCEPT ![t] = @ + 1]
  /\ UNCHANGED <<json, reflector, generator, disk, announced, used>>

\* BOUND: nobody edits while the generator runs.
EditByHand(f) ==
  /\ generator = Idle
  /\ used.edits < MaxEdits /\ Spend("edits")
  /\ disk' = [disk EXCEPT ![f] = Edited]
  /\ UNCHANGED <<schema, json, reflector, generator, announced>>
-----------------------------------------------------------------------------
(* reflect-schema                                                          *)
ReflectorStep(state) ==
  reflector' = state /\ UNCHANGED <<schema, generator, disk, announced>>

BeginReflect ==
  /\ reflector = NothingRead /\ used.reflections < MaxRuns /\ Spend("reflections")
  /\ ReflectorStep([reflector EXCEPT !.at = "columns"])
  /\ UNCHANGED json

ReadColumns(t) ==
  /\ reflector.at = "columns" /\ t \notin DOMAIN reflector.read
  /\ ReflectorStep([reflector EXCEPT !.at = "key", !.table = t, !.columns = schema[t]])
  /\ UNCHANGED <<json, used>>

\* GetPrimaryKey: a key that is not among the columns that were read, and a
\* query that fails, are logged; the table is described without a key.
ReadPrimaryKey ==
  /\ reflector.at = "key"
  /\ LET t == reflector.table
         KeyRead(key) == ReflectorStep([reflector EXCEPT !.at = "foreign", !.key = key])
     IN \/ /\ KeyRead(IF KeyOf(t, schema[t]) \in ColumnsOf(t, reflector.columns)
                      THEN schema[t] ELSE NoKey)
           /\ UNCHANGED used
        \/ KeyRead(NoKey) /\ used.faults < MaxFaults /\ Spend("faults")
  /\ UNCHANGED json

ReadForeignKeys ==
  /\ reflector.at = "foreign"
  /\ LET t == reflector.table
         d == [columns |-> reflector.columns, key |-> reflector.key, foreign |-> schema[t]]
     IN ReflectorStep([NothingRead EXCEPT !.at = "columns", !.read = With(reflector.read, t, d)])
  /\ UNCHANGED <<json, used>>

\* WriteJSON truncates the file before it encodes the schema into it.
CreateJSON ==
  /\ reflector.at = "columns" /\ DOMAIN reflector.read = TableNames
  /\ json' = Torn
  /\ ReflectorStep([reflector EXCEPT !.at = "encode"])
  /\ UNCHANGED used

EncodeJSON ==
  /\ reflector.at = "encode"
  /\ json' = reflector.read
  /\ ReflectorStep(NothingRead)
  /\ UNCHANGED used

\* Another query or a write fails, or the program is killed.
ReflectEnds ==
  /\ reflector # NothingRead
  /\ used.faults < MaxFaults /\ Spend("faults")
  /\ ReflectorStep(NothingRead)
  /\ UNCHANGED json
-----------------------------------------------------------------------------
(* generate                                                                *)
GeneratorStep(state) == generator' = state /\ UNCHANGED <<schema, json, reflector>>

Readable == json \notin {Absent, Torn}

\* -all asks for every table of the file, -table for one.
BeginGenerate(tables, force, layers) ==
  /\ generator = Idle /\ used.generations < MaxRuns /\ Spend("generations")
  /\ Readable
  /\ GeneratorStep([Idle EXCEPT !.at = "load", !.todo = tables, !.force = force,
                                !.layers = layers])
  /\ UNCHANGED <<disk, announced>>

\* Every table is loaded before the first is generated, and the file is read
\* anew for each; the program exits if it cannot be parsed.
LoadTable(t) ==
  /\ generator.at = "load" /\ t \in generator.todo \ DOMAIN generator.def
  /\ GeneratorStep(IF Readable THEN [generator EXCEPT !.def = With(@, t, json[t])] ELSE Idle)
  /\ UNCHANGED <<disk, announced, used>>

TableEnds(t) ==
  [generator EXCEPT !.at = "tables", !.todo = @ \ {t}, !.table = NoTable, !.layer = 1, !.file = 1]
AnyForeignKey(t, def) == def.key # NoKey

\* ValidateSchema: there is a primary key, and every foreign key's column is in
\* the list of columns.
Validated(t, def) ==
  def.key # NoKey /\ ForeignKeysOf(t, def.foreign) \subseteq ColumnsOf(t, def.columns)

BeginTable(t) ==
  /\ \/ generator.at = "load" /\ DOMAIN generator.def = generator.todo
     \/ generator.at = "tables"
  /\ t \in generator.todo
  /\ GeneratorStep(IF Validated(t, generator.def[t])
                   THEN [generator EXCEPT !.at = "layer", !.table = t] ELSE TableEnds(t))
  /\ UNCHANGED <<disk, announced, used>>

\* Where the generator is: a layer of a table, and a file of it.
Layer == LayerOrder[generator.layer]
File(i) == <<Package[generator.table], Layer, FilesOf(Layer)[i]>>
GeneratesAll(i) == i > 0
Generates(i) == i = 1  \* generated.go, and not a custom file

NextLayer == [generator EXCEPT !.at = "layer", !.layer = @ + 1, !.file = 1]
AtFile(state, i) ==
  IF i > Len(FilesOf(Layer)) THEN NextLayer
  ELSE [generator EXCEPT !.at = state, !.file = i]

\* Without -force a generated.go that exists ends the generation of its table.
BeginLayer ==
  /\ generator.at = "layer" /\ generator.layer <= Len(LayerOrder)
  /\ GeneratorStep(
       CASE Layer \notin generator.layers -> NextLayer
         [] Layer \in generator.layers /\ ~ generator.force /\ disk[File(1)] # Absent ->
              TableEnds(generator.table)
         [] OTHER -> AtFile("file", 1))
  /\ UNCHANGED <<disk, announced, used>>

WantedAlways(i) == generator.force

\* A custom file is generated only if it does not exist.
Wanted(i) == Generates(i) \/ disk[File(i)] = Absent

SkipFile ==
  /\ generator.at = "file" /\ ~ Wanted(generator.file)
  /\ GeneratorStep(AtFile("file", generator.file + 1))
  /\ UNCHANGED <<disk, announced, used>>

\* generateFile: os.Create truncates, the template is then executed into the
\* file.  What other tables of the package were announced to have is gone.
CreateFile ==
  /\ generator.at = "file" /\ Wanted(generator.file)
  /\ disk' = [disk EXCEPT ![File(generator.file)] = Torn]
  /\ announced' = [t \in TableNames |-> [l \in LayerNames |->
                     IF Package[t] = Package[generator.table] /\ l = Layer
                     THEN Absent ELSE announced[t][l]]]
  /\ GeneratorStep(AtFile("execute", generator.file))
  /\ UNCHANGED used

\* The template, and goimports -w, which rewrites the file with its formatting.
\* Its failure is logged, whatever it left of the file.
ExecuteTemplate ==
  /\ generator.at = "execute"
  /\ LET Leaves(content) == disk' = [disk EXCEPT ![File(generator.file)] = content]
     IN \/ /\ Leaves(IF Generates(generator.file) THEN generator.def[generator.table]
                                                  ELSE Scaffold)
           /\ UNCHANGED used
        \/ Leaves(Mangled) /\ used.faults < MaxFaults /\ Spend("faults")
  /\ GeneratorStep(AtFile("file", generator.file + 1))
  /\ UNCHANGED announced

\* A directory, a file or a template fails: the table is given up, the next
\* one is begun.
GenerateFails ==
  /\ generator.at \in {"file", "execute"}
  /\ used.faults < MaxFaults /\ Spend("faults")
  /\ GeneratorStep(TableEnds(generator.table))
  /\ UNCHANGED <<disk, announced>>

GeneratorKilled ==
  /\ generator # Idle
  /\ used.faults < MaxFaults /\ Spend("faults")
  /\ GeneratorStep(Idle)
  /\ UNCHANGED <<disk, announced>>

\* PrintSummary: "GENERATION COMPLETE for table".
Announce ==
  /\ generator.at = "layer" /\ generator.layer > Len(LayerOrder)
  /\ announced' = [announced EXCEPT ![generator.table] =
                     [l \in LayerNames |-> IF l \in generator.layers
                                           THEN generator.def[generator.table] ELSE @[l]]]
  /\ GeneratorStep(TableEnds(generator.table))
  /\ UNCHANGED <<disk, used>>

AllTablesDone ==
  /\ generator.at = "tables" /\ generator.todo = {}
  /\ GeneratorStep(Idle)
  /\ UNCHANGED <<disk, announced, used>>
-----------------------------------------------------------------------------
ReflectSchema ==
  \/ BeginReflect \/ (\E t \in TableNames : ReadColumns(t))
  \/ ReadPrimaryKey \/ ReadForeignKeys \/ CreateJSON \/ EncodeJSON \/ ReflectEnds

Requests == {TableNames} \union {{t} : t \in TableNames}
Generate ==
  \/ \E tables \in Requests, force \in BOOLEAN, layers \in LayerRequests :
       BeginGenerate(tables, force, layers)
  \/ \E t \in TableNames : LoadTable(t) \/ BeginTable(t)
  \/ BeginLayer \/ SkipFile \/ CreateFile \/ ExecuteTemplate \/ Announce \/ AllTablesDone
  \/ GenerateFails \/ GeneratorKilled

Next ==
  \/ \E t \in TableNames : Migrate(t)
  \/ \E f \in HandFiles : EditByHand(f)
  \/ ReflectSchema
  \/ Generate

Spec == Init /\ [][Next]_vars
-----------------------------------------------------------------------------
TypeOK ==
  /\ schema \in [TableNames -> 1 .. MaxVersion]
  /\ json \in {Absent, Torn} \/ json \in [TableNames -> Description]
  /\ \A f \in GeneratedFiles : disk[f] \in {Absent, Torn, Mangled} \/ disk[f] \in Description
  /\ \A f \in HandFiles : disk[f] \in {Absent, Torn, Mangled, Scaffold, Edited}
  /\ used.reflections <= MaxRuns /\ used.generations <= MaxRuns
  /\ used.faults <= MaxFaults /\ used.edits <= MaxEdits

(* orchestrator.go PrintSummary: the layers of a table whose generation    *)
(* was announced complete are on disk, all from the description that was   *)
(* announced, unless goimports spoilt a file.  Its columns, primary key    *)
(* and foreign keys are what the table had, one after the other but not    *)
(* always at one time; and every key is on a column that the description   *)
(* has, although migrations, reflections and failures came in between and  *)
(* a package may be shared.                                                *)
WasRead(d, t) == d.columns <= d.key /\ d.key <= d.foreign /\ d.foreign <= schema[t]
KeysHaveColumns(d, t) ==
  {KeyOf(t, d.key)} \union ForeignKeysOf(t, d.foreign) \subseteq ColumnsOf(t, d.columns)
AnnouncedIsWritten ==
  \A t \in TableNames, l \in LayerNames :
    announced[t][l] # Absent =>
      /\ disk[<<Package[t], l, "generated.go">>] \in {announced[t][l], Mangled}
      /\ WasRead(announced[t][l], t)
      /\ KeysHaveColumns(announced[t][l], t)

(* template_model.go, template_store_custom.go and the like, "only         *)
(* generated if it doesn't already exist": work done by hand is never      *)
(* lost, and a generated.go that exists is changed only by a run with      *)
(* -force, or by the run that has just created it.                         *)
BeingWritten(f) == generator.at = "execute" /\ f = File(generator.file)
FilesKept ==
  [][/\ \A f \in HandFiles : disk[f] = Edited => disk'[f] = Edited
     /\ \A f \in GeneratedFiles : disk'[f] # disk[f] =>
          disk[f] = Absent \/ generator.force \/ BeingWritten(f)
    ]_vars
=============================================================================
