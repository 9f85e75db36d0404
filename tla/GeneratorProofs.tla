--------------------------- MODULE GeneratorProofs ---------------------------
(***************************************************************************)
(* Proofs about Generator, for every set of tables, every way to share a   *)
(* package, any history of migrations, and any number of runs, failures    *)
(* and edits: work of a programmer is kept, and what was announced         *)
(* complete is on disk as its description says.                            *)
(*                                                                         *)
(* The inductive invariant follows the generator through a table.  Before  *)
(* the layer it is at, everything asked for is written; in the layer, the  *)
(* generated file is written once the first file is left behind; while a   *)
(* file is written, nothing of its package and layer counts as announced.  *)
(* What it writes comes from a description whose columns are not newer     *)
(* than its primary key, this not newer than its foreign keys, and these   *)
(* not newer than the database.                                            *)
(***************************************************************************)
EXTENDS Generator, TLAPS

Files == GeneratedFiles \union HandFiles
Contents == Description \union {Absent, Torn, Mangled, Scaffold, Edited}
Described == UNION {[s -> Description] : s \in SUBSET TableNames}

ReflectorStates ==
  [at : {"idle", "columns", "key", "foreign", "encode"}, read : Described,
   table : TableNames \union {NoTable}, columns : 1 .. MaxVersion, key : 0 .. MaxVersion]
GeneratorStates ==
  [at : {"idle", "load", "tables", "layer", "file", "execute"},
   todo : SUBSET TableNames, force : BOOLEAN, layers : SUBSET LayerNames, def : Described,
   table : TableNames \union {NoTable}, layer : 1 .. 4, file : 1 .. 4]

Typed ==
  /\ schema \in [TableNames -> 1 .. MaxVersion]
  /\ reflector \in ReflectorStates
  /\ generator \in GeneratorStates
  /\ disk \in [Files -> Contents]
  /\ announced \in [TableNames -> [LayerNames -> Description \union {Absent}]]
  /\ used \in [reflections : 0 .. MaxRuns, generations : 0 .. MaxRuns,
               faults : 0 .. MaxFaults, edits : 0 .. MaxEdits]

DiskTyped ==
  /\ \A f \in GeneratedFiles : disk[f] \in {Absent, Torn, Mangled} \/ disk[f] \in Description
  /\ \A f \in HandFiles : disk[f] \in {Absent, Torn, Mangled, Scaffold, Edited}

\* A key that was read is on a column of the list, and was read after it.
GoodKey(t, columns, key, last) ==
  key # NoKey => columns <= key /\ key <= last /\ KeyOf(t, key) \in ColumnsOf(t, columns)

\* A description of which the columns were read first, and all from this database.
OldEnough(d, t) ==
  d.columns <= d.foreign /\ d.foreign <= schema[t] /\ GoodKey(t, d.columns, d.key, d.foreign)

Reflected ==
  /\ \A t \in DOMAIN reflector.read : OldEnough(reflector.read[t], t)
  /\ reflector.at \in {"key", "foreign"} =>
       reflector.table \in TableNames /\ reflector.columns <= schema[reflector.table]
  /\ reflector.at = "foreign" =>
       GoodKey(reflector.table, reflector.columns, reflector.key, schema[reflector.table])
  /\ reflector.at = "encode" => DOMAIN reflector.read = TableNames

JSONGood ==
  \/ json \in {Absent, Torn}
  \/ json \in [TableNames -> Description] /\ \A t \in TableNames : OldEnough(json[t], t)

Loaded ==
  /\ \A t \in DOMAIN generator.def : OldEnough(generator.def[t], t)
  /\ generator.at \in {"tables", "layer", "file", "execute"} =>
       generator.todo \subseteq DOMAIN generator.def

AtTable == generator.at \in {"layer", "file", "execute"}
InLayer == generator.at \in {"file", "execute"}
Target(l) == <<Package[generator.table], l, "generated.go">>

Position ==
  /\ ~ AtTable => generator.layer = 1
  /\ AtTable => /\ generator.table \in DOMAIN generator.def
                /\ Validated(generator.table, generator.def[generator.table])
  /\ InLayer => /\ generator.layer <= 3 /\ Layer \in generator.layers
                /\ generator.file <= Len(FilesOf(Layer))

\* What was made of a description, unless goimports spoilt it.
MadeFrom(d) == {d, Mangled}
WrittenSoFar ==
  /\ AtTable => \A i \in 1 .. 3 : i < generator.layer /\ LayerOrder[i] \in generator.layers =>
                  disk[Target(LayerOrder[i])] \in MadeFrom(generator.def[generator.table])
  /\ InLayer /\ generator.file > 1 =>
       disk[Target(Layer)] \in MadeFrom(generator.def[generator.table])

\* The file that is written, and the one that is about to be.
AtWork ==
  /\ generator.at = "execute" =>
       /\ disk[File(generator.file)] = Torn
       /\ \A t \in TableNames : Package[t] = Package[generator.table] =>
                                  announced[t][Layer] = Absent
  /\ generator.at = "file" /\ generator.file = 1 /\ ~ generator.force =>
       disk[Target(Layer)] = Absent

IInv ==
  /\ Typed /\ DiskTyped /\ Reflected /\ JSONGood
  /\ Loaded /\ Position /\ WrittenSoFar /\ AtWork
  /\ AnnouncedIsWritten
-----------------------------------------------------------------------------
(* The layers and the files of a layer.                                    *)
LEMMA LayerFacts ==
  /\ LayerNames = {"repository", "store", "bridge"}
  /\ \A i \in 1 .. 3 : LayerOrder[i] \in LayerNames
  /\ \A i, j \in 1 .. 3 : LayerOrder[i] = LayerOrder[j] => i = j
  /\ \A l \in LayerNames : \E i \in 1 .. 3 : LayerOrder[i] = l
  /\ Len(LayerOrder) = 3
<1>1. LayerNames = {"repository", "store", "bridge"}
  BY DEF LayerNames, CustomFiles
<1>2. /\ LayerOrder[1] = "repository" /\ LayerOrder[2] = "store" /\ LayerOrder[3] = "bridge"
      /\ Len(LayerOrder) = 3
  BY DEF LayerOrder
<1>3. \A i \in 1 .. 3 : i = 1 \/ i = 2 \/ i = 3
  OBVIOUS
<1>4. \A i, j \in 1 .. 3 : LayerOrder[i] = LayerOrder[j] => i = j
  BY <1>2, <1>3
<1>5. \A l \in LayerNames : \E i \in 1 .. 3 : LayerOrder[i] = l
  BY <1>1, <1>2
<1> QED BY <1>1, <1>2, <1>3, <1>4, <1>5

LEMMA FilesOfLayer ==
  ASSUME NEW l \in LayerNames
  PROVE  /\ FilesOf(l)[1] = "generated.go"
         /\ Len(FilesOf(l)) \in 2 .. 4
         /\ \A i \in 2 .. Len(FilesOf(l)) :
              FilesOf(l)[i] \in Named(CustomFiles[l]) /\ FilesOf(l)[i] # "generated.go"
<1>1. CASE l = "repository"
  BY <1>1 DEF FilesOf, CustomFiles, Named
<1>2. CASE l = "store"
  BY <1>2 DEF FilesOf, CustomFiles, Named
<1>3. CASE l = "bridge"
  BY <1>3 DEF FilesOf, CustomFiles, Named
<1> QED BY <1>1, <1>2, <1>3, LayerFacts

LEMMA TwoKinds ==
  /\ \A p \in Packages, l \in LayerNames : <<p, l, "generated.go">> \in GeneratedFiles
  /\ \A p \in Packages, l \in LayerNames : <<p, l, "generated.go">> \notin HandFiles
  /\ \A f \in HandFiles : f \notin GeneratedFiles
  /\ \A p \in Packages, l \in LayerNames : \A f \in Named(CustomFiles[l]) :
       <<p, l, f>> \in HandFiles
<1>1. \A l \in LayerNames : "generated.go" \notin Named(CustomFiles[l])
  BY LayerFacts DEF Named, CustomFiles
<1>2. ASSUME NEW p \in Packages, NEW l \in LayerNames, NEW f \in Named(CustomFiles[l])
      PROVE  <<p, l, f>> \in HandFiles
  <2>1. <<p, l, f>> \in Packages \X {l} \X Named(CustomFiles[l])
    OBVIOUS
  <2> QED BY <2>1 DEF HandFiles
<1>3. \A p \in Packages, l \in LayerNames : <<p, l, "generated.go">> \in GeneratedFiles
  BY DEF GeneratedFiles
<1>4. \A f \in HandFiles : f \notin GeneratedFiles
  BY <1>1 DEF GeneratedFiles, HandFiles
<1> QED BY <1>2, <1>3, <1>4

LEMMA DescribedIs ==
  \A d : d \in Described <=> DOMAIN d \subseteq TableNames /\ d \in [DOMAIN d -> Description]
BY DEF Described

LEMMA NothingDescribed == << >> \in Described /\ DOMAIN << >> = {}
<1>1. DOMAIN << >> = {}
  OBVIOUS
<1>2. << >> \in [{} -> Description]
  BY <1>1
<1> QED BY <1>1, <1>2 DEF Described

LEMMA WithIs ==
  ASSUME NEW f \in Described, NEW t \in TableNames, NEW d \in Description
  PROVE  /\ With(f, t, d) \in Described
         /\ DOMAIN With(f, t, d) = DOMAIN f \union {t}
         /\ With(f, t, d)[t] = d
         /\ \A u \in DOMAIN f : u # t => With(f, t, d)[u] = f[u]
BY DescribedIs DEF With
-----------------------------------------------------------------------------
(* Frames.                                                                 *)
LEMMA ReflectorFrame ==
  ASSUME Reflected, JSONGood, UNCHANGED <<schema, json, reflector>>
  PROVE  Reflected' /\ JSONGood'
BY DEF Reflected, JSONGood, OldEnough, GoodKey

LEMMA GeneratorFrame ==
  ASSUME Position, WrittenSoFar, AtWork, UNCHANGED <<generator, disk, announced>>
  PROVE  Position' /\ WrittenSoFar' /\ AtWork'
<1>1. Position'
  BY DEF Position, AtTable, InLayer, Layer, Validated
<1>2. WrittenSoFar'
  BY DEF WrittenSoFar, AtTable, InLayer, Target, Layer
<1>3. AtWork'
  BY DEF AtWork, Target, Layer, File
<1> QED BY <1>1, <1>2, <1>3

\* Nothing is said of a generator that is at no table.
LEMMA AtNoTable ==
  ASSUME generator'.at \in {"idle", "load", "tables"}, generator'.layer = 1
  PROVE  Position' /\ WrittenSoFar' /\ AtWork'
BY DEF Position, WrittenSoFar, AtWork, AtTable, InLayer

LEMMA LoadedFrame ==
  ASSUME Loaded, UNCHANGED <<schema, generator>>
  PROVE  Loaded'
BY DEF Loaded, OldEnough, GoodKey

LEMMA AnnouncedFrame ==
  ASSUME AnnouncedIsWritten, UNCHANGED <<schema, disk, announced>>
  PROVE  AnnouncedIsWritten'
BY DEF AnnouncedIsWritten, WasRead, KeysHaveColumns

LEMMA DiskFrame ==
  ASSUME DiskTyped, UNCHANGED disk
  PROVE  DiskTyped'
BY DEF DiskTyped

(* Where the generator is.                                                 *)
LEMMA Place ==
  ASSUME Typed, generator.table \in TableNames, generator.layer <= 3
  PROVE  /\ Layer \in LayerNames
         /\ Package[generator.table] \in Packages
         /\ \A l \in LayerNames : Target(l) \in GeneratedFiles /\ Target(l) \notin HandFiles
         /\ File(1) = Target(Layer)
         /\ \A i \in 2 .. Len(FilesOf(Layer)) :
              File(i) \in HandFiles /\ \A l \in LayerNames : File(i) # Target(l)
<1>1. Layer \in LayerNames
  BY LayerFacts DEF Layer, Typed, GeneratorStates
<1>2. Package[generator.table] \in Packages
  BY DEF Packages
<1>3. \A l \in LayerNames : Target(l) \in GeneratedFiles /\ Target(l) \notin HandFiles
  BY <1>2, TwoKinds DEF Target
<1>4. File(1) = Target(Layer)
  BY <1>1, FilesOfLayer DEF File, Target
<1>5. ASSUME NEW i \in 2 .. Len(FilesOf(Layer))
      PROVE  File(i) \in HandFiles /\ \A l \in LayerNames : File(i) # Target(l)
  <2>1. FilesOf(Layer)[i] \in Named(CustomFiles[Layer])
    BY <1>1, FilesOfLayer
  <2>2. File(i) = <<Package[generator.table], Layer, FilesOf(Layer)[i]>>
    BY DEF File
  <2>4. File(i) \in HandFiles
    BY <1>1, <1>2, <2>1, <2>2, TwoKinds
  <2> QED BY <2>4, <1>3
<1> QED BY <1>1, <1>2, <1>3, <1>4, <1>5
-----------------------------------------------------------------------------
(* How the generator moves on.                                             *)
LEMMA Ends ==
  ASSUME Typed, Loaded, NEW t, generator.at \in {"load", "tables", "layer", "file", "execute"},
         generator.todo \subseteq DOMAIN generator.def,
         generator' = TableEnds(t), schema' = schema
  PROVE  /\ generator' \in GeneratorStates /\ Loaded'
         /\ Position' /\ WrittenSoFar' /\ AtWork'
<1> generator \in GeneratorStates
  BY DEF Typed
<1>1. /\ generator'.at = "tables" /\ generator'.def = generator.def /\ generator'.layer = 1
      /\ generator'.todo \subseteq generator.todo
  BY DEF GeneratorStates, TableEnds
<1>3. generator' = [at |-> "tables", todo |-> generator.todo \ {t}, force |-> generator.force,
                     layers |-> generator.layers, def |-> generator.def, table |-> NoTable,
                     layer |-> 1, file |-> 1]
  BY DEF GeneratorStates, TableEnds
<1>4. generator' \in GeneratorStates
  BY <1>3 DEF GeneratorStates
<1>2. Loaded'
  BY <1>1 DEF Loaded, OldEnough, GoodKey
<1> QED BY <1>1, <1>2, <1>4, AtNoTable

LEMMA Stops ==
  ASSUME generator' = Idle, BoundsAssumption
  PROVE  /\ generator' \in GeneratorStates /\ Loaded'
         /\ Position' /\ WrittenSoFar' /\ AtWork'
<1>1. << >> \in Described /\ DOMAIN << >> = {}
  BY NothingDescribed
<1>2. generator' \in GeneratorStates
  BY <1>1 DEF Idle, GeneratorStates
<1>3. generator'.at = "idle" /\ generator'.def = << >> /\ generator'.layer = 1
  BY DEF Idle
<1>4. Loaded'
  BY <1>1, <1>3 DEF Loaded
<1> QED BY <1>2, <1>3, <1>4, AtNoTable
-----------------------------------------------------------------------------
(* The steps beside the generator.                                         *)
LEMMA Starts ==
  ASSUME Init, PackageAssumption, BoundsAssumption, ContentsAssumption
  PROVE  IInv
<1>1. << >> \in Described
  BY NothingDescribed
<1>2. reflector \in ReflectorStates /\ generator \in GeneratorStates
  BY <1>1 DEF Init, NothingRead, NoKey, Idle, ReflectorStates, GeneratorStates, BoundsAssumption
<1>3. schema \in [TableNames -> 1 .. MaxVersion]
  BY DEF Init, BoundsAssumption
<1>4. disk \in [Files -> Contents] /\ DiskTyped
  BY DEF Init, Files, Contents, DiskTyped
<1>5. announced \in [TableNames -> [LayerNames -> Description \union {Absent}]]
  BY DEF Init
<1>6. used \in [reflections : 0 .. MaxRuns, generations : 0 .. MaxRuns,
                faults : 0 .. MaxFaults, edits : 0 .. MaxEdits]
  BY DEF Init, BoundsAssumption
<1>7. Typed
  BY <1>2, <1>3, <1>4, <1>5, <1>6 DEF Typed
<1>8. Reflected /\ JSONGood /\ Loaded
  BY NothingDescribed DEF Init, NothingRead, Idle, Reflected, JSONGood, Loaded
<1>9. Position /\ WrittenSoFar /\ AtWork
  BY DEF Init, Idle, Position, WrittenSoFar, AtWork, AtTable, InLayer
<1>10. AnnouncedIsWritten
  BY DEF Init, AnnouncedIsWritten
<1> QED BY <1>4, <1>7, <1>8, <1>9, <1>10 DEF IInv

\* What was old enough remains so.
LEMMA NewerSchema ==
  ASSUME IInv, BoundsAssumption, UNCHANGED <<json, reflector, generator, disk, announced>>,
         NEW t \in TableNames, schema[t] < MaxVersion, schema' = [schema EXCEPT ![t] = @ + 1],
         used' = used
  PROVE  IInv'
<1>1. schema' \in [TableNames -> 1 .. MaxVersion]
      /\ \A u \in TableNames : schema[u] <= schema'[u] /\ schema[u] \in Nat /\ schema'[u] \in Nat
  BY DEF IInv, Typed, BoundsAssumption
<1>2. Typed' /\ DiskTyped'
  BY <1>1, DiskFrame DEF IInv, Typed
<1>3. \A d \in Description, u \in TableNames : OldEnough(d, u) => OldEnough(d, u)'
  BY <1>1 DEF OldEnough, GoodKey, Description, BoundsAssumption
<1>4. \A u \in DOMAIN reflector.read : u \in TableNames /\ reflector.read[u] \in Description
  BY DescribedIs DEF IInv, Typed, ReflectorStates
<1>5. \A u \in DOMAIN generator.def : u \in TableNames /\ generator.def[u] \in Description
  BY DescribedIs DEF IInv, Typed, GeneratorStates
<1>6. reflector.columns \in Nat /\ reflector.key \in Nat
  BY DEF IInv, Typed, ReflectorStates, BoundsAssumption
<1>7. Reflected'
  <2>1. \A u \in DOMAIN reflector.read : OldEnough(reflector.read[u], u)'
    BY <1>3, <1>4 DEF IInv, Reflected, OldEnough, GoodKey
  <2>2. reflector.at \in {"key", "foreign"} =>
          reflector.table \in TableNames /\ reflector.columns <= schema'[reflector.table]
    BY <1>1, <1>6 DEF IInv, Reflected
  <2>3. reflector.at = "foreign" =>
          GoodKey(reflector.table, reflector.columns, reflector.key, schema'[reflector.table])
    BY <1>1, <1>6 DEF IInv, Reflected, GoodKey
  <2> QED BY <2>1, <2>2, <2>3 DEF IInv, Reflected, GoodKey
<1>8. JSONGood'
  BY <1>3 DEF IInv, JSONGood, OldEnough, GoodKey
<1>9. Loaded'
  BY <1>3, <1>5 DEF IInv, Loaded, OldEnough, GoodKey
<1>10. Position' /\ WrittenSoFar' /\ AtWork'
  BY GeneratorFrame DEF IInv
<1>11. AnnouncedIsWritten'
  <2> SUFFICES ASSUME NEW u \in TableNames, NEW l \in LayerNames, announced[u][l] # Absent
               PROVE  /\ disk[<<Package[u], l, "generated.go">>] \in MadeFrom(announced[u][l])
                      /\ WasRead(announced[u][l], u)'
                      /\ KeysHaveColumns(announced[u][l], u)
    BY DEF AnnouncedIsWritten, MadeFrom, WasRead, KeysHaveColumns
  <2>1. announced[u][l] \in Description
    BY DEF IInv, Typed
  <2>2. /\ disk[<<Package[u], l, "generated.go">>] \in MadeFrom(announced[u][l])
        /\ WasRead(announced[u][l], u)
        /\ KeysHaveColumns(announced[u][l], u)
    BY DEF IInv, AnnouncedIsWritten, MadeFrom
  <2>3. WasRead(announced[u][l], u)'
    BY <1>1, <2>1, <2>2 DEF WasRead, Description, BoundsAssumption
  <2> QED BY <2>2, <2>3
<1> QED BY <1>2, <1>7, <1>8, <1>9, <1>10, <1>11 DEF IInv

\* A programmer edits only what is not generated, and not while the generator runs.
LEMMA Edits ==
  ASSUME IInv, BoundsAssumption, NEW f \in HandFiles, EditByHand(f)
  PROVE  IInv'
<1>1. used' \in [reflections : 0 .. MaxRuns, generations : 0 .. MaxRuns,
                 faults : 0 .. MaxFaults, edits : 0 .. MaxEdits]
  BY DEF EditByHand, Spend, IInv, Typed, BoundsAssumption
<1>2. disk' \in [Files -> Contents]
  BY DEF EditByHand, IInv, Typed, Files, Contents
<1>3. \A g \in GeneratedFiles : disk'[g] = disk[g]
  BY TwoKinds DEF EditByHand, IInv, Typed, Files
<1>4. DiskTyped'
  BY <1>3 DEF EditByHand, IInv, Typed, DiskTyped, Files
<1>5. Typed'
  BY <1>1, <1>2 DEF EditByHand, IInv, Typed
<1>6. Position' /\ WrittenSoFar' /\ AtWork'
  <2>1. generator'.at = "idle" /\ generator'.layer = 1
    BY DEF EditByHand, Idle
  <2> QED BY <2>1, AtNoTable
<1>7. AnnouncedIsWritten'
  <2>1. \A u \in TableNames, l \in LayerNames : <<Package[u], l, "generated.go">> \in GeneratedFiles
    BY TwoKinds DEF Packages
  <2> QED BY <1>3, <2>1 DEF EditByHand, IInv, AnnouncedIsWritten, WasRead, KeysHaveColumns
<1>8. Reflected' /\ JSONGood' /\ Loaded'
  BY ReflectorFrame, LoadedFrame DEF EditByHand, IInv
<1> QED BY <1>4, <1>5, <1>6, <1>7, <1>8 DEF IInv
-----------------------------------------------------------------------------
(* reflect-schema.                                                         *)
LEMMA ReflectorSteps ==
  ASSUME IInv, BoundsAssumption, UNCHANGED <<schema, generator, disk, announced>>,
         reflector' \in ReflectorStates, Reflected', JSONGood',
         used' \in [reflections : 0 .. MaxRuns, generations : 0 .. MaxRuns,
                   faults : 0 .. MaxFaults, edits : 0 .. MaxEdits]
  PROVE  IInv'
<1>1. Typed' /\ DiskTyped'
  BY DiskFrame DEF IInv, Typed
<1>2. Position' /\ WrittenSoFar' /\ AtWork'
  BY GeneratorFrame DEF IInv
<1> QED BY <1>1, <1>2, LoadedFrame, AnnouncedFrame DEF IInv

LEMMA NothingReadIs ==
  ASSUME BoundsAssumption
  PROVE  /\ NothingRead \in ReflectorStates
         /\ NothingRead.at = "idle" /\ NothingRead.read = << >>
BY NothingDescribed DEF NothingRead, NoKey, ReflectorStates, BoundsAssumption

LEMMA Reflects ==
  ASSUME IInv, BoundsAssumption, ReflectSchema
  PROVE  IInv'
<1> DEFINE Uses == [reflections : 0 .. MaxRuns, generations : 0 .. MaxRuns,
                    faults : 0 .. MaxFaults, edits : 0 .. MaxEdits]
<1> reflector \in ReflectorStates /\ used \in Uses /\ schema \in [TableNames -> 1 .. MaxVersion]
  BY DEF IInv, Typed
<1>1. CASE BeginReflect
  <2>1. reflector' = [NothingRead EXCEPT !.at = "columns"] /\ UNCHANGED <<schema, json>>
    BY <1>1 DEF BeginReflect, ReflectorStep
  <2>2. /\ reflector' \in ReflectorStates
        /\ reflector'.at = "columns" /\ reflector'.read = << >>
    BY <2>1, NothingReadIs DEF ReflectorStates
  <2>3. Reflected'
    BY <2>2, NothingDescribed DEF Reflected
  <2>4. JSONGood'
    BY <2>1 DEF IInv, JSONGood, OldEnough, GoodKey
  <2>5. used' \in Uses
    BY <1>1 DEF BeginReflect, Spend, BoundsAssumption
  <2> QED BY <1>1, <2>2, <2>3, <2>4, <2>5, ReflectorSteps DEF BeginReflect, ReflectorStep
<1>2. ASSUME NEW t \in TableNames, ReadColumns(t)
      PROVE  IInv'
  <2>1. /\ reflector' = [reflector EXCEPT !.at = "key", !.table = t, !.columns = schema[t]]
        /\ UNCHANGED <<schema, json, used>>
    BY <1>2 DEF ReadColumns, ReflectorStep
  <2>2. /\ reflector' \in ReflectorStates
        /\ reflector'.at = "key" /\ reflector'.read = reflector.read
        /\ reflector'.table = t /\ reflector'.columns = schema[t]
    BY <2>1 DEF ReflectorStates
  <2>3. Reflected'
    BY <2>1, <2>2 DEF IInv, Reflected, OldEnough, GoodKey, BoundsAssumption
  <2>4. JSONGood'
    BY <2>1 DEF IInv, JSONGood, OldEnough, GoodKey
  <2> QED BY <1>2, <2>1, <2>2, <2>3, <2>4, ReflectorSteps DEF ReadColumns, ReflectorStep
<1>3. CASE ReadPrimaryKey
  <2> DEFINE t == reflector.table
             found == IF KeyOf(t, schema[t]) \in ColumnsOf(t, reflector.columns)
                      THEN schema[t] ELSE NoKey
  <2>1. /\ reflector.at = "key" /\ UNCHANGED <<schema, json>>
        /\ \/ reflector' = [reflector EXCEPT !.at = "foreign", !.key = found] /\ used' = used
           \/ /\ reflector' = [reflector EXCEPT !.at = "foreign", !.key = NoKey]
              /\ used.faults < MaxFaults /\ Spend("faults")
    BY <1>3 DEF ReadPrimaryKey, ReflectorStep
  <2>2. t \in TableNames /\ reflector.columns <= schema[t]
    BY <2>1 DEF IInv, Reflected
  <2>3. PICK key \in {found, NoKey} : reflector' = [reflector EXCEPT !.at = "foreign", !.key = key]
    BY <2>1
  <2>4. key \in 0 .. MaxVersion /\ (key # NoKey => key = schema[t] /\ KeyOf(t, key) \in ColumnsOf(t, reflector.columns))
    BY <2>2, <2>3 DEF NoKey, BoundsAssumption
  <2> HIDE DEF found
  <2>5. /\ reflector' \in ReflectorStates
        /\ reflector'.at = "foreign" /\ reflector'.read = reflector.read
        /\ reflector'.table = t /\ reflector'.columns = reflector.columns /\ reflector'.key = key
    BY <2>3, <2>4 DEF ReflectorStates
  <2>6. GoodKey(t, reflector.columns, key, schema[t])
    BY <2>2, <2>4 DEF GoodKey, BoundsAssumption
  <2>7. Reflected'
    BY <2>1, <2>2, <2>5, <2>6 DEF IInv, Reflected, OldEnough, GoodKey
  <2>8. JSONGood'
    BY <2>1 DEF IInv, JSONGood, OldEnough, GoodKey
  <2>9. used' \in Uses
    BY <2>1 DEF Spend, BoundsAssumption
  <2> QED BY <1>3, <2>1, <2>5, <2>7, <2>8, <2>9, ReflectorSteps DEF ReadPrimaryKey, ReflectorStep
<1>4. CASE ReadForeignKeys
  <2> DEFINE t == reflector.table
             d == [columns |-> reflector.columns, key |-> reflector.key, foreign |-> schema[t]]
  <2>1. /\ reflector' = [NothingRead EXCEPT !.at = "columns", !.read = With(reflector.read, t, d)]
        /\ UNCHANGED <<schema, json, used>>
    BY <1>4 DEF ReadForeignKeys, ReflectorStep
  <2>2. t \in TableNames /\ d \in Description /\ OldEnough(d, t)
    BY <1>4 DEF ReadForeignKeys, IInv, Reflected, ReflectorStates, Description, OldEnough,
                GoodKey, BoundsAssumption
  <2>3. reflector.read \in Described
    BY DEF ReflectorStates
  <2> HIDE DEF t, d
  <2>4. /\ reflector' \in ReflectorStates
        /\ reflector'.at = "columns" /\ reflector'.read = With(reflector.read, t, d)
    BY <2>1, <2>2, <2>3, WithIs, NothingReadIs DEF ReflectorStates
  <2>5. \A u \in DOMAIN reflector'.read : OldEnough(reflector'.read[u], u)
    <3>1. /\ DOMAIN reflector'.read = DOMAIN reflector.read \union {t}
          /\ reflector'.read[t] = d
          /\ \A u \in DOMAIN reflector.read : u # t => reflector'.read[u] = reflector.read[u]
      <4> DEFINE g == With(reflector.read, t, d)
      <4>1. DOMAIN g = DOMAIN reflector.read \union {t}
        BY DEF With
      <4>2. g[t] = d
        BY DEF With
      <4>3. \A u \in DOMAIN reflector.read : u # t => g[u] = reflector.read[u]
        BY DEF With
      <4> QED BY <2>4, <4>1, <4>2, <4>3
    <3>2. \A u \in DOMAIN reflector.read : OldEnough(reflector.read[u], u)
      BY DEF IInv, Reflected
    <3> QED BY <2>2, <3>1, <3>2
  <2>6. Reflected'
    BY <2>1, <2>4, <2>5 DEF Reflected, OldEnough, GoodKey
  <2>7. JSONGood'
    BY <2>1 DEF IInv, JSONGood, OldEnough, GoodKey
  <2> QED BY <1>4, <2>1, <2>4, <2>6, <2>7, ReflectorSteps DEF ReadForeignKeys, ReflectorStep
<1>5. CASE CreateJSON
  <2>1. /\ reflector' = [reflector EXCEPT !.at = "encode"] /\ json' = Torn
        /\ DOMAIN reflector.read = TableNames /\ UNCHANGED <<schema, used>>
    BY <1>5 DEF CreateJSON, ReflectorStep
  <2>2. /\ reflector' \in ReflectorStates
        /\ reflector'.at = "encode" /\ reflector'.read = reflector.read
    BY <2>1 DEF ReflectorStates
  <2>3. Reflected' /\ JSONGood'
    BY <2>1, <2>2 DEF IInv, Reflected, JSONGood, OldEnough, GoodKey
  <2> QED BY <1>5, <2>1, <2>2, <2>3, ReflectorSteps DEF CreateJSON, ReflectorStep
<1>6. CASE EncodeJSON
  <2>1. reflector' = NothingRead /\ json' = reflector.read /\ UNCHANGED <<schema, used>>
    BY <1>6 DEF EncodeJSON, ReflectorStep
  <2>2. reflector' \in ReflectorStates /\ Reflected'
    BY <2>1, NothingReadIs, NothingDescribed DEF Reflected
  <2>3. /\ json' \in [TableNames -> Description]
        /\ \A t \in TableNames : OldEnough(json'[t], t)
    BY <1>6, <2>1, DescribedIs DEF EncodeJSON, IInv, Reflected, ReflectorStates
  <2>4. JSONGood'
    BY <2>1, <2>3 DEF JSONGood, OldEnough, GoodKey
  <2> QED BY <1>6, <2>1, <2>2, <2>4, ReflectorSteps DEF EncodeJSON, ReflectorStep
<1>7. CASE ReflectEnds
  <2>1. reflector' = NothingRead /\ UNCHANGED <<schema, json>>
    BY <1>7 DEF ReflectEnds, ReflectorStep
  <2>2. reflector' \in ReflectorStates /\ Reflected'
    BY <2>1, NothingReadIs, NothingDescribed DEF Reflected
  <2>3. JSONGood'
    BY <2>1 DEF IInv, JSONGood, OldEnough, GoodKey
  <2>4. used' \in Uses
    BY <1>7 DEF ReflectEnds, Spend, BoundsAssumption
  <2> QED BY <1>7, <2>2, <2>3, <2>4, ReflectorSteps DEF ReflectEnds, ReflectorStep
<1> QED BY <1>1, <1>2, <1>3, <1>4, <1>5, <1>6, <1>7 DEF ReflectSchema
-----------------------------------------------------------------------------
(* generate.                                                               *)
LEMMA GeneratorSteps ==
  ASSUME IInv, UNCHANGED <<schema, json, reflector, disk, announced>>,
         generator' \in GeneratorStates, Loaded', Position', WrittenSoFar', AtWork',
         used' \in [reflections : 0 .. MaxRuns, generations : 0 .. MaxRuns,
                   faults : 0 .. MaxFaults, edits : 0 .. MaxEdits]
  PROVE  IInv'
<1>1. Typed' /\ DiskTyped'
  BY DiskFrame DEF IInv, Typed
<1> QED BY <1>1, ReflectorFrame, AnnouncedFrame DEF IInv

\* Facts about a generator that is at a layer of a table.
LEMMA AtLayer ==
  ASSUME IInv, AtTable
  PROVE  /\ generator.table \in TableNames /\ generator.table \in DOMAIN generator.def
         /\ generator.def[generator.table] \in Description
         /\ generator.todo \subseteq DOMAIN generator.def
         /\ generator.at \in {"layer", "file", "execute"}
         /\ InLayer => generator.layer <= 3 /\ generator.layer \in 1 .. 3
<1>1. generator \in GeneratorStates
  BY DEF IInv, Typed
<1>2. generator.def \in Described
  BY <1>1 DEF GeneratorStates
<1>3. generator.table \in DOMAIN generator.def /\ generator.todo \subseteq DOMAIN generator.def
  BY DEF IInv, Position, Loaded, AtTable
<1>4. generator.table \in TableNames /\ generator.def[generator.table] \in Description
  BY <1>2, <1>3, DescribedIs
<1>5. InLayer => generator.layer <= 3 /\ generator.layer \in 1 .. 3
  BY <1>1 DEF IInv, Position, GeneratorStates
<1> QED BY <1>3, <1>4, <1>5 DEF AtTable

\* A layer is left when it is not asked for, or written.
LEMMA LayerLeft ==
  ASSUME IInv, AtTable, generator.layer <= 3, generator' = NextLayer, schema' = schema,
         \A l \in LayerNames : l # Layer => disk'[Target(l)] = disk[Target(l)],
         Layer \in generator.layers => disk'[Target(Layer)] \in MadeFrom(generator.def[generator.table])
  PROVE  /\ generator' \in GeneratorStates /\ Loaded'
         /\ Position' /\ WrittenSoFar' /\ AtWork'
<1> generator \in GeneratorStates
  BY DEF IInv, Typed
<1>1. /\ generator'.at = "layer" /\ generator'.layer = generator.layer + 1
      /\ generator'.def = generator.def /\ generator'.table = generator.table
      /\ generator'.layers = generator.layers /\ generator'.todo = generator.todo
  BY DEF GeneratorStates, NextLayer
<1>2. generator.layer + 1 \in 1 .. 4 /\ 1 \in 1 .. 4
  BY DEF GeneratorStates
<1>3. generator' = [at |-> "layer", todo |-> generator.todo, force |-> generator.force,
                    layers |-> generator.layers, def |-> generator.def,
                    table |-> generator.table, layer |-> generator.layer + 1, file |-> 1]
  BY DEF GeneratorStates, NextLayer
<1>4. generator' \in GeneratorStates
  BY <1>2, <1>3 DEF GeneratorStates
<1>5. Loaded'
  BY <1>1, AtLayer DEF IInv, Loaded, OldEnough, GoodKey
<1>6. Position' /\ AtWork'
  BY <1>1, AtLayer DEF IInv, Position, AtWork, AtTable, InLayer, Validated
<1>7. WrittenSoFar'
  <2> SUFFICES ASSUME NEW i \in 1 .. 3, i < generator.layer + 1,
                      LayerOrder[i] \in generator.layers
               PROVE  disk'[Target(LayerOrder[i])] \in MadeFrom(generator.def[generator.table])
    BY <1>1 DEF WrittenSoFar, AtTable, InLayer, Target
  <2>1. LayerOrder[i] \in LayerNames
    BY LayerFacts
  <2>2. CASE i = generator.layer
    BY <2>2 DEF Layer
  <2>3. CASE i # generator.layer
    <3>1. i < generator.layer /\ generator.layer \in 1 .. 3
      BY <2>3 DEF GeneratorStates
    <3>2. LayerOrder[i] # Layer
      BY <2>3, <3>1, LayerFacts DEF Layer
    <3> QED BY <2>1, <3>1, <3>2 DEF IInv, WrittenSoFar
  <2> QED BY <2>2, <2>3
<1> QED BY <1>4, <1>5, <1>6, <1>7

\* A file is left behind: the generated file of the layer is written.
LEMMA FileLeft ==
  ASSUME IInv, InLayer, generator' = AtFile("file", generator.file + 1), schema' = schema,
         \A l \in LayerNames : l # Layer => disk'[Target(l)] = disk[Target(l)],
         disk'[Target(Layer)] \in MadeFrom(generator.def[generator.table])
  PROVE  /\ generator' \in GeneratorStates /\ Loaded'
         /\ Position' /\ WrittenSoFar' /\ AtWork'
<1> generator \in GeneratorStates
  BY DEF IInv, Typed
<1> AtTable /\ generator.layer \in 1 .. 3 /\ generator.layer <= 3
  BY AtLayer DEF AtTable, InLayer
<1>1. Layer \in LayerNames /\ Len(FilesOf(Layer)) \in 2 .. 4
  BY LayerFacts, FilesOfLayer DEF Layer
<1>2. CASE generator.file + 1 > Len(FilesOf(Layer))
  BY <1>2, LayerLeft DEF AtFile
<1>3. CASE ~ (generator.file + 1 > Len(FilesOf(Layer)))
  <2>1. generator' = [generator EXCEPT !.at = "file", !.file = generator.file + 1]
    BY <1>3 DEF AtFile
  <2>2. generator.file + 1 \in 2 .. 4 /\ generator.file + 1 <= Len(FilesOf(Layer))
    <3>1. generator.file \in 1 .. 4
      BY DEF GeneratorStates
    <3>2. \A m \in 2 .. 4, k \in 1 .. 4 : ~ (k + 1 > m) => k + 1 \in 2 .. 4 /\ k + 1 <= m
      OBVIOUS
    <3> QED BY <1>1, <1>3, <3>1, <3>2, Zenon
  <2>3. generator' = [at |-> "file", todo |-> generator.todo, force |-> generator.force,
                      layers |-> generator.layers, def |-> generator.def,
                      table |-> generator.table, layer |-> generator.layer,
                      file |-> generator.file + 1]
    BY <2>1 DEF GeneratorStates
  <2>4. generator' \in GeneratorStates
    BY <2>2, <2>3 DEF GeneratorStates
  <2>5. /\ generator'.at = "file" /\ generator'.file = generator.file + 1
        /\ generator'.def = generator.def /\ generator'.table = generator.table
        /\ generator'.layers = generator.layers /\ generator'.todo = generator.todo
        /\ generator'.layer = generator.layer
    BY <2>3
  <2>6. Loaded'
    BY <2>5, AtLayer DEF IInv, Loaded, OldEnough, GoodKey
  <2>7. Position'
    BY <2>2, <2>5 DEF IInv, Position, AtTable, InLayer, Validated, Layer
  <2>8. WrittenSoFar'
    <3>1. ASSUME NEW i \in 1 .. 3, i < generator.layer, LayerOrder[i] \in generator.layers
          PROVE  disk'[Target(LayerOrder[i])] \in MadeFrom(generator.def[generator.table])
      <4>1. LayerOrder[i] \in LayerNames /\ LayerOrder[i] # Layer
        BY <3>1, LayerFacts DEF Layer
      <4> QED BY <3>1, <4>1 DEF IInv, WrittenSoFar
    <3> QED BY <2>5, <3>1 DEF WrittenSoFar, AtTable, InLayer, Target, Layer
  <2>9. AtWork'
    BY <2>2, <2>5 DEF AtWork
  <2> QED BY <2>4, <2>6, <2>7, <2>8, <2>9
<1> QED BY <1>2, <1>3

\* Before and between tables.
LEMMA Loads ==
  ASSUME IInv, BoundsAssumption, LayerRequestsAssumption, Generate, ~ AtTable
  PROVE  IInv'
<1> DEFINE Uses == [reflections : 0 .. MaxRuns, generations : 0 .. MaxRuns,
                    faults : 0 .. MaxFaults, edits : 0 .. MaxEdits]
<1> generator \in GeneratorStates /\ used \in Uses
  BY DEF IInv, Typed
<1>1. ASSUME NEW tables \in Requests, NEW force \in BOOLEAN, NEW layers \in LayerRequests,
             BeginGenerate(tables, force, layers)
      PROVE  IInv'
  <2>1. tables \subseteq TableNames /\ layers \subseteq LayerNames
    BY <1>1, LayerFacts DEF Requests, LayerRequestsAssumption
  <2>2. generator' = [Idle EXCEPT !.at = "load", !.todo = tables, !.force = force,
                                  !.layers = layers]
        /\ UNCHANGED <<schema, json, reflector, disk, announced>>
    BY <1>1 DEF BeginGenerate, GeneratorStep
  <2>3. generator' = [at |-> "load", todo |-> tables, force |-> force, layers |-> layers,
                      def |-> << >>, table |-> NoTable, layer |-> 1, file |-> 1]
    BY <2>2 DEF Idle
  <2>4. generator' \in GeneratorStates
    BY <2>1, <2>3, NothingDescribed DEF GeneratorStates
  <2>5. generator'.at = "load" /\ generator'.def = << >> /\ generator'.layer = 1
    BY <2>3
  <2>6. Loaded'
    BY <2>5, NothingDescribed DEF Loaded
  <2>7. used' \in Uses
    BY <1>1 DEF BeginGenerate, Spend, BoundsAssumption
  <2> QED BY <2>2, <2>4, <2>5, <2>6, <2>7, AtNoTable, GeneratorSteps
<1>2. ASSUME NEW t \in TableNames, LoadTable(t)
      PROVE  IInv'
  <2>1. UNCHANGED <<schema, json, reflector, disk, announced, used>> /\ generator.at = "load"
    BY <1>2 DEF LoadTable, GeneratorStep
  <2>2. CASE ~ Readable
    BY <1>2, <2>1, <2>2, Stops, GeneratorSteps DEF LoadTable, GeneratorStep
  <2>3. CASE Readable
    <3>1. generator' = [generator EXCEPT !.def = With(generator.def, t, json[t])]
      BY <1>2, <2>3 DEF LoadTable, GeneratorStep
    <3>2. json[t] \in Description /\ OldEnough(json[t], t)
      BY <2>3 DEF IInv, JSONGood, Readable
    <3>3. generator.def \in Described
      BY DEF GeneratorStates
    <3>4. With(generator.def, t, json[t]) \in Described
      BY <3>2, <3>3, WithIs
    <3>5. /\ generator' \in GeneratorStates /\ generator'.at = "load"
          /\ generator'.def = With(generator.def, t, json[t])
          /\ generator'.layer = generator.layer
      BY <2>1, <3>1, <3>4 DEF GeneratorStates
    <3>6. \A u \in DOMAIN generator'.def : OldEnough(generator'.def[u], u)
      <4>1. /\ DOMAIN generator'.def = DOMAIN generator.def \union {t}
            /\ generator'.def[t] = json[t]
            /\ \A u \in DOMAIN generator.def : u # t => generator'.def[u] = generator.def[u]
        <5> DEFINE g == With(generator.def, t, json[t])
        <5>1. DOMAIN g = DOMAIN generator.def \union {t}
          BY DEF With
        <5>2. g[t] = json[t]
          BY DEF With
        <5>3. \A u \in DOMAIN generator.def : u # t => g[u] = generator.def[u]
          BY DEF With
        <5> QED BY <3>5, <5>1, <5>2, <5>3
      <4>2. \A u \in DOMAIN generator.def : OldEnough(generator.def[u], u)
        BY DEF IInv, Loaded
      <4> QED BY <3>2, <4>1, <4>2
    <3>7. Loaded'
      BY <2>1, <3>5, <3>6 DEF Loaded, OldEnough, GoodKey
    <3>8. generator'.layer = 1
      BY <2>1, <3>5 DEF IInv, Position, AtTable
    <3> QED BY <2>1, <3>5, <3>7, <3>8, AtNoTable, GeneratorSteps
  <2> QED BY <2>2, <2>3
<1>3. ASSUME NEW t \in TableNames, BeginTable(t)
      PROVE  IInv'
  <2>1. /\ UNCHANGED <<schema, json, reflector, disk, announced, used>>
        /\ generator.at \in {"load", "tables"} /\ t \in generator.todo
    BY <1>3 DEF BeginTable, GeneratorStep
  <2>2. generator.todo \subseteq DOMAIN generator.def
    BY <1>3 DEF BeginTable, IInv, Loaded
  <2>3. CASE ~ Validated(t, generator.def[t])
    BY <1>3, <2>1, <2>2, <2>3, Ends, GeneratorSteps DEF BeginTable, GeneratorStep, IInv
  <2>4. CASE Validated(t, generator.def[t])
    <3>1. generator' = [generator EXCEPT !.at = "layer", !.table = t]
      BY <1>3, <2>4 DEF BeginTable, GeneratorStep
    <3>2. generator' \in GeneratorStates
      BY <3>1 DEF GeneratorStates
    <3>3. /\ generator'.at = "layer" /\ generator'.table = t /\ generator'.def = generator.def
          /\ generator'.todo = generator.todo /\ generator'.layer = generator.layer
          /\ generator'.file = generator.file /\ generator'.layers = generator.layers
      BY <3>1 DEF GeneratorStates
    <3>4. Loaded'
      BY <2>1, <2>2, <3>3 DEF IInv, Loaded, OldEnough, GoodKey
    <3>5. Position' /\ AtWork'
      BY <2>1, <2>2, <2>4, <3>3 DEF Position, AtWork, AtTable, InLayer, Validated
    <3>6. generator.layer = 1
      BY <2>1 DEF IInv, Position, AtTable
    <3>7. WrittenSoFar'
      BY <3>3, <3>6 DEF WrittenSoFar, AtTable, InLayer
    <3> QED BY <2>1, <3>2, <3>4, <3>5, <3>7, GeneratorSteps
  <2> QED BY <2>3, <2>4
<1>4. ASSUME AllTablesDone \/ GeneratorKilled
      PROVE  IInv'
  <2>1. generator' = Idle /\ UNCHANGED <<schema, json, reflector, disk, announced>>
    BY <1>4 DEF AllTablesDone, GeneratorKilled, GeneratorStep
  <2>2. used' \in Uses
    BY <1>4 DEF AllTablesDone, GeneratorKilled, Spend, BoundsAssumption
  <2> QED BY <2>1, <2>2, Stops, GeneratorSteps
<1> QED
  BY <1>1, <1>2, <1>3, <1>4
  DEF Generate, AtTable, BeginLayer, SkipFile, CreateFile, ExecuteTemplate, Announce, GenerateFails

\* Steps at a table that write nothing.
LEMMA Advances ==
  ASSUME IInv, BoundsAssumption, AtTable,
         BeginLayer \/ SkipFile \/ GenerateFails \/ GeneratorKilled
  PROVE  IInv'
<1> DEFINE Uses == [reflections : 0 .. MaxRuns, generations : 0 .. MaxRuns,
                    faults : 0 .. MaxFaults, edits : 0 .. MaxEdits]
<1> generator \in GeneratorStates /\ used \in Uses
  BY DEF IInv, Typed
<1>1. CASE BeginLayer
  <2>1. /\ UNCHANGED <<schema, json, reflector, disk, announced, used>>
        /\ generator.at = "layer" /\ generator.layer <= 3
    BY <1>1, LayerFacts DEF BeginLayer, GeneratorStep
  <2>2. UNCHANGED disk => \A l \in LayerNames : disk'[Target(l)] = disk[Target(l)]
    OBVIOUS
  <2>3. CASE Layer \notin generator.layers
    <3>1. generator' = NextLayer
      BY <1>1, <2>3 DEF BeginLayer, GeneratorStep
    <3> QED BY <2>1, <2>2, <2>3, <3>1, LayerLeft, GeneratorSteps
  <2>4. CASE Layer \in generator.layers /\ ~ generator.force /\ disk[File(1)] # Absent
    <3>1. generator' = TableEnds(generator.table)
      BY <1>1, <2>4 DEF BeginLayer, GeneratorStep
    <3> QED BY <2>1, <3>1, AtLayer, Ends, GeneratorSteps DEF IInv
  <2>5. CASE Layer \in generator.layers /\ (generator.force \/ disk[File(1)] = Absent)
    <3>1. Layer \in LayerNames /\ File(1) = Target(Layer) /\ Len(FilesOf(Layer)) \in 2 .. 4
      BY <2>1, AtLayer, Place, FilesOfLayer DEF IInv
    <3>9. 1 <= Len(FilesOf(Layer)) /\ ~ (1 > Len(FilesOf(Layer)))
      <4>1. \A m \in 2 .. 4 : 1 <= m /\ ~ (1 > m)
        OBVIOUS
      <4> QED BY <3>1, <4>1, Zenon
    <3>2. generator' = [generator EXCEPT !.at = "file", !.file = 1]
      BY <1>1, <2>5, <3>9 DEF BeginLayer, GeneratorStep, AtFile
    <3>3. generator' \in GeneratorStates
      <4>1. generator' = [at |-> "file", todo |-> generator.todo, force |-> generator.force,
                          layers |-> generator.layers, def |-> generator.def,
                          table |-> generator.table, layer |-> generator.layer, file |-> 1]
        BY <3>2 DEF GeneratorStates
      <4> QED BY <4>1 DEF GeneratorStates
    <3>4. /\ generator'.at = "file" /\ generator'.file = 1
          /\ generator'.def = generator.def /\ generator'.table = generator.table
          /\ generator'.layers = generator.layers /\ generator'.todo = generator.todo
          /\ generator'.layer = generator.layer /\ generator'.force = generator.force
      BY <3>2 DEF GeneratorStates
    <3>5. Loaded'
      BY <2>1, <3>4, AtLayer DEF IInv, Loaded, OldEnough, GoodKey
    <3>6. Position'
      BY <2>1, <2>5, <3>4, <3>9 DEF IInv, Position, AtTable, InLayer, Validated, Layer
    <3>7. WrittenSoFar'
      BY <2>1, <3>4 DEF IInv, WrittenSoFar, AtTable, InLayer, Target
    <3>8. AtWork'
      BY <2>1, <2>5, <3>1, <3>4 DEF AtWork, Target, Layer
    <3> QED BY <2>1, <3>3, <3>5, <3>6, <3>7, <3>8, GeneratorSteps
  <2> QED BY <2>3, <2>4, <2>5
<1>2. CASE SkipFile
  <2>1. /\ UNCHANGED <<schema, json, reflector, disk, announced, used>>
        /\ InLayer /\ generator.file # 1
        /\ generator' = AtFile("file", generator.file + 1)
    BY <1>2 DEF SkipFile, GeneratorStep, InLayer, Wanted, Generates
  <2>2. disk[Target(Layer)] \in MadeFrom(generator.def[generator.table])
    BY <2>1 DEF IInv, WrittenSoFar, GeneratorStates
  <2>3. \A l \in LayerNames : disk'[Target(l)] = disk[Target(l)]
    BY <2>1
  <2>4. disk'[Target(Layer)] \in MadeFrom(generator.def[generator.table])
    BY <2>1, <2>2
  <2> QED BY <2>1, <2>3, <2>4, FileLeft, GeneratorSteps
<1>3. CASE GenerateFails
  <2>1. /\ UNCHANGED <<schema, json, reflector, disk, announced>>
        /\ generator' = TableEnds(generator.table)
    BY <1>3 DEF GenerateFails, GeneratorStep
  <2>2. used' \in Uses
    BY <1>3 DEF GenerateFails, Spend, BoundsAssumption
  <2> QED BY <2>1, <2>2, AtLayer, Ends, GeneratorSteps DEF IInv
<1>4. CASE GeneratorKilled
  <2>1. UNCHANGED <<schema, json, reflector, disk, announced>> /\ generator' = Idle
    BY <1>4 DEF GeneratorKilled, GeneratorStep
  <2>2. used' \in Uses
    BY <1>4 DEF GeneratorKilled, Spend, BoundsAssumption
  <2> QED BY <2>1, <2>2, Stops, GeneratorSteps
<1> QED BY <1>1, <1>2, <1>3, <1>4

\* A file is truncated: nothing of its layer and package counts as announced.
LEMMA Truncates ==
  ASSUME IInv, BoundsAssumption, PackageAssumption, ContentsAssumption, CreateFile
  PROVE  IInv'
<1> generator \in GeneratorStates
  BY DEF IInv, Typed
<1> DEFINE f == File(generator.file)
<1>1. /\ UNCHANGED <<schema, json, reflector, used>> /\ InLayer /\ AtTable
      /\ generator.at = "file" /\ disk' = [disk EXCEPT ![f] = Torn]
      /\ announced' = [t \in TableNames |-> [l \in LayerNames |->
                          IF Package[t] = Package[generator.table] /\ l = Layer
                          THEN Absent ELSE announced[t][l]]]
  BY DEF CreateFile, GeneratorStep, InLayer, AtTable
<1>2. /\ Layer \in LayerNames /\ generator.file \in 1 .. 4
      /\ generator.file <= Len(FilesOf(Layer)) /\ Len(FilesOf(Layer)) \in 2 .. 4
      /\ generator.table \in TableNames
  BY <1>1, AtLayer, Place, FilesOfLayer DEF IInv, Position, GeneratorStates
<1>3. /\ File(1) = Target(Layer) /\ Target(Layer) \in GeneratedFiles
      /\ Target(Layer) \notin HandFiles
      /\ \A i \in 2 .. Len(FilesOf(Layer)) : File(i) \in HandFiles
  BY <1>1, <1>2, AtLayer, Place DEF IInv
<1>4. generator.file = 1 \/ generator.file \in 2 .. Len(FilesOf(Layer))
  BY <1>2
<1>5. f \in Files
  BY <1>3, <1>4 DEF Files
<1>6. disk' \in [Files -> Contents] /\ disk'[f] = Torn /\ \A g \in Files : g # f => disk'[g] = disk[g]
  BY <1>1, <1>5 DEF IInv, Typed, Contents
<1>7. DiskTyped'
  BY <1>6 DEF IInv, DiskTyped, Files
<1>8. generator' = [generator EXCEPT !.at = "execute"]
  <2>1. generator' = AtFile("execute", generator.file)
    BY DEF CreateFile, GeneratorStep
  <2>2. ~ (generator.file > Len(FilesOf(Layer)))
    <3>1. \A m \in 2 .. 4, k \in 1 .. 4 : k <= m => ~ (k > m)
      OBVIOUS
    <3> QED BY <1>2, <3>1, Zenon
  <2> QED BY <2>1, <2>2 DEF AtFile, GeneratorStates
<1>9. /\ generator' \in GeneratorStates /\ generator'.at = "execute"
      /\ generator'.file = generator.file
      /\ generator'.def = generator.def /\ generator'.table = generator.table
      /\ generator'.layers = generator.layers /\ generator'.todo = generator.todo
      /\ generator'.layer = generator.layer
  BY <1>8 DEF GeneratorStates
<1>10. announced' \in [TableNames -> [LayerNames -> Description \union {Absent}]]
  BY <1>1 DEF IInv, Typed
<1>11. Typed'
  BY <1>1, <1>6, <1>9, <1>10 DEF IInv, Typed
<1>12. Reflected' /\ JSONGood'
  BY <1>1, ReflectorFrame DEF IInv
<1>13. Loaded'
  BY <1>1, <1>9, AtLayer DEF IInv, Loaded, OldEnough, GoodKey
<1>14. Position'
  BY <1>1, <1>9 DEF IInv, Position, AtTable, InLayer, Validated, Layer
<1>15. \A l \in LayerNames : /\ Target(l) \in Files
                             /\ l # Layer \/ generator.file > 1 => Target(l) # f
  <2> SUFFICES ASSUME NEW l \in LayerNames
               PROVE  Target(l) \in Files /\ (l # Layer \/ generator.file > 1 => Target(l) # f)
    OBVIOUS
  <2>1. Target(l) \in GeneratedFiles /\ Target(l) \notin HandFiles
    BY <1>1, AtLayer, Place DEF IInv
  <2>2. l # Layer => Target(l) # Target(Layer)
    BY DEF Target
  <2>3. generator.file > 1 => f \in HandFiles
    BY <1>2, <1>3, <1>4
  <2> QED BY <1>3, <1>4, <2>1, <2>2, <2>3 DEF Files
<1>16. WrittenSoFar'
  <2>1. ASSUME NEW i \in 1 .. 3, i < generator.layer, LayerOrder[i] \in generator.layers
        PROVE  disk'[Target(LayerOrder[i])] \in MadeFrom(generator.def[generator.table])
    <3>1. LayerOrder[i] \in LayerNames /\ LayerOrder[i] # Layer
      BY <1>1, <2>1, LayerFacts, AtLayer DEF Layer
    <3> QED BY <1>1, <1>6, <1>15, <2>1, <3>1 DEF IInv, WrittenSoFar
  <2>2. generator.file > 1 => disk'[Target(Layer)] \in MadeFrom(generator.def[generator.table])
    BY <1>1, <1>2, <1>6, <1>15 DEF IInv, WrittenSoFar
  <2> QED BY <1>9, <2>1, <2>2 DEF WrittenSoFar, AtTable, InLayer, Target, Layer
<1>17. AtWork'
  <2>1. \A t \in TableNames : Package[t] = Package[generator.table] => announced'[t][Layer] = Absent
    BY <1>1, <1>2
  <2> QED BY <1>6, <1>9, <2>1 DEF AtWork, File, Layer
<1>18. AnnouncedIsWritten'
  <2> SUFFICES ASSUME NEW t \in TableNames, NEW l \in LayerNames, announced'[t][l] # Absent
               PROVE  /\ disk'[<<Package[t], l, "generated.go">>] \in MadeFrom(announced'[t][l])
                      /\ WasRead(announced'[t][l], t)
                      /\ KeysHaveColumns(announced'[t][l], t)
    <3>1. schema' = schema
      BY <1>1
    <3> QED BY <3>1 DEF AnnouncedIsWritten, MadeFrom, WasRead, KeysHaveColumns
  <2>1. ~ (Package[t] = Package[generator.table] /\ l = Layer) /\ announced'[t][l] = announced[t][l]
    BY <1>1
  <2>2. <<Package[t], l, "generated.go">> \in GeneratedFiles
    BY TwoKinds DEF Packages
  <2>3. <<Package[t], l, "generated.go">> # f
    BY <1>3, <1>4, <2>1, <2>2, TwoKinds DEF Target
  <2> QED BY <1>6, <2>1, <2>2, <2>3 DEF IInv, AnnouncedIsWritten, Files, MadeFrom
<1> QED BY <1>7, <1>11, <1>12, <1>13, <1>14, <1>16, <1>17, <1>18 DEF IInv

\* The file is written: nothing announced was in it.
LEMMA Writes ==
  ASSUME IInv, BoundsAssumption, PackageAssumption, ContentsAssumption, ExecuteTemplate
  PROVE  IInv'
<1> generator \in GeneratorStates
  BY DEF IInv, Typed
<1> DEFINE f == File(generator.file)
           made == IF Generates(generator.file) THEN generator.def[generator.table] ELSE Scaffold
<1>1. /\ UNCHANGED <<schema, json, reflector, announced>> /\ InLayer /\ AtTable
      /\ generator.at = "execute" /\ generator' = AtFile("file", generator.file + 1)
      /\ \/ disk' = [disk EXCEPT ![f] = made] /\ used' = used
         \/ disk' = [disk EXCEPT ![f] = Mangled] /\ used.faults < MaxFaults /\ Spend("faults")
  BY DEF ExecuteTemplate, GeneratorStep, InLayer, AtTable
<1>0. PICK c \in {made, Mangled} : disk' = [disk EXCEPT ![f] = c]
  BY <1>1
<1>14. used' \in [reflections : 0 .. MaxRuns, generations : 0 .. MaxRuns,
                  faults : 0 .. MaxFaults, edits : 0 .. MaxEdits]
  BY <1>1 DEF Spend, IInv, Typed, BoundsAssumption
<1>2. /\ Layer \in LayerNames /\ generator.file \in 1 .. 4
      /\ generator.file <= Len(FilesOf(Layer)) /\ Len(FilesOf(Layer)) \in 2 .. 4
      /\ generator.table \in TableNames /\ generator.def[generator.table] \in Description
  BY <1>1, AtLayer, Place, FilesOfLayer DEF IInv, Position, GeneratorStates
<1>3. /\ File(1) = Target(Layer) /\ Target(Layer) \in GeneratedFiles
      /\ Target(Layer) \notin HandFiles
      /\ \A i \in 2 .. Len(FilesOf(Layer)) : File(i) \in HandFiles
  BY <1>1, <1>2, AtLayer, Place DEF IInv
<1>4. generator.file = 1 \/ generator.file \in 2 .. Len(FilesOf(Layer))
  BY <1>2
<1>5. /\ generator.file = 1 => /\ f = Target(Layer)
                               /\ c \in MadeFrom(generator.def[generator.table])
      /\ generator.file # 1 => f \in HandFiles /\ c \in {Scaffold, Mangled}
  BY <1>0, <1>3, <1>4 DEF Generates, MadeFrom
<1>6. f \in Files /\ c \in Contents
  BY <1>2, <1>3, <1>5 DEF Files, Contents, MadeFrom
<1> HIDE DEF f, made
<1>7. disk' \in [Files -> Contents] /\ disk'[f] = c /\ \A g \in Files : g # f => disk'[g] = disk[g]
  BY <1>0, <1>6 DEF IInv, Typed
<1>8. DiskTyped'
  <2>1. \A g \in GeneratedFiles : g = f => c \in Description \union {Mangled}
    BY <1>2, <1>5, TwoKinds DEF MadeFrom
  <2>2. \A g \in HandFiles : g = f => c \in {Scaffold, Mangled}
    BY <1>3, <1>5
  <2> QED BY <1>7, <2>1, <2>2 DEF IInv, DiskTyped, Files
<1>9. /\ \A l \in LayerNames : l # Layer => disk'[Target(l)] = disk[Target(l)]
      /\ disk'[Target(Layer)] \in MadeFrom(generator.def[generator.table])
  <2>1. \A l \in LayerNames : Target(l) \in GeneratedFiles /\ Target(l) \notin HandFiles
    BY <1>1, AtLayer, Place DEF IInv
  <2>2. \A l \in LayerNames : Target(l) \in Files
    BY <2>1 DEF Files
  <2>3. \A l \in LayerNames : l # Layer => Target(l) # Target(Layer)
    BY DEF Target
  <2>4. \A l \in LayerNames : l # Layer => disk'[Target(l)] = disk[Target(l)]
    BY <1>5, <1>7, <2>1, <2>2, <2>3
  <2>5. CASE generator.file = 1
    BY <1>2, <1>5, <1>7, <2>2, <2>4, <2>5
  <2>6. CASE generator.file # 1
    <3>1. disk[Target(Layer)] \in MadeFrom(generator.def[generator.table])
      BY <1>1, <1>2, <2>6 DEF IInv, WrittenSoFar
    <3> QED BY <1>2, <1>5, <1>7, <2>1, <2>2, <2>4, <2>6, <3>1
  <2> QED BY <2>4, <2>5, <2>6
<1>10. /\ generator' \in GeneratorStates /\ Loaded'
       /\ Position' /\ WrittenSoFar' /\ AtWork'
  BY <1>1, <1>9, FileLeft
<1>11. Typed'
  BY <1>1, <1>7, <1>10, <1>14 DEF IInv, Typed
<1>12. Reflected' /\ JSONGood'
  BY <1>1, ReflectorFrame DEF IInv
<1>13. AnnouncedIsWritten'
  <2> SUFFICES ASSUME NEW t \in TableNames, NEW l \in LayerNames, announced[t][l] # Absent
               PROVE  disk'[<<Package[t], l, "generated.go">>] = disk[<<Package[t], l, "generated.go">>]
    BY <1>1 DEF IInv, AnnouncedIsWritten, WasRead
  <2>1. ~ (Package[t] = Package[generator.table] /\ l = Layer)
    BY <1>1 DEF IInv, AtWork
  <2>2. /\ <<Package[t], l, "generated.go">> \in GeneratedFiles
        /\ <<Package[t], l, "generated.go">> \notin HandFiles
    BY TwoKinds DEF Packages
  <2>3. <<Package[t], l, "generated.go">> # f
    BY <1>5, <2>1, <2>2 DEF Target
  <2> QED BY <1>7, <2>2, <2>3 DEF Files
<1> QED BY <1>8, <1>10, <1>11, <1>12, <1>13 DEF IInv

\* At the end of a table, every layer that was asked for is written.
LEMMA Announces ==
  ASSUME IInv, BoundsAssumption, Announce
  PROVE  IInv'
<1> generator \in GeneratorStates
  BY DEF IInv, Typed
<1> DEFINE d == generator.def[generator.table]
<1>1. /\ UNCHANGED <<schema, json, reflector, used, disk>> /\ AtTable
      /\ generator.layer > 3 /\ generator' = TableEnds(generator.table)
      /\ announced' = [announced EXCEPT ![generator.table] =
                         [l \in LayerNames |-> IF l \in generator.layers THEN d ELSE @[l]]]
  BY LayerFacts DEF Announce, GeneratorStep, AtTable
<1>2. generator.table \in TableNames /\ d \in Description /\ generator.at = "layer"
  BY <1>1, AtLayer DEF Announce
<1>3. OldEnough(d, generator.table) /\ Validated(generator.table, d)
  BY <1>1 DEF IInv, Loaded, Position
<1>4. WasRead(d, generator.table) /\ KeysHaveColumns(d, generator.table)
  BY <1>3 DEF OldEnough, GoodKey, Validated, WasRead, KeysHaveColumns
<1>5. \A l \in LayerNames : l \in generator.layers => disk[Target(l)] \in MadeFrom(d)
  <2> SUFFICES ASSUME NEW l \in LayerNames, l \in generator.layers
               PROVE  disk[Target(l)] \in MadeFrom(d)
    OBVIOUS
  <2>1. PICK i \in 1 .. 3 : LayerOrder[i] = l
    BY LayerFacts
  <2>2. i < generator.layer
    BY <1>1 DEF GeneratorStates
  <2> QED BY <1>1, <2>1, <2>2 DEF IInv, WrittenSoFar
<1> HIDE DEF d
<1>6. announced' \in [TableNames -> [LayerNames -> Description \union {Absent}]]
  BY <1>1, <1>2 DEF IInv, Typed
<1>7. /\ generator' \in GeneratorStates /\ Loaded'
      /\ Position' /\ WrittenSoFar' /\ AtWork'
  BY <1>1, <1>2, AtLayer, Ends DEF IInv
<1>8. Typed' /\ DiskTyped'
  BY <1>1, <1>6, <1>7, DiskFrame DEF IInv, Typed
<1>9. Reflected' /\ JSONGood'
  BY <1>1, ReflectorFrame DEF IInv
<1>10. AnnouncedIsWritten'
  <2> SUFFICES ASSUME NEW t \in TableNames, NEW l \in LayerNames, announced'[t][l] # Absent
               PROVE  /\ disk[<<Package[t], l, "generated.go">>] \in MadeFrom(announced'[t][l])
                      /\ WasRead(announced'[t][l], t)
                      /\ KeysHaveColumns(announced'[t][l], t)
    BY <1>1 DEF AnnouncedIsWritten, MadeFrom, WasRead, KeysHaveColumns
  <2>1. CASE t = generator.table /\ l \in generator.layers
    <3>1. announced'[t][l] = d
      BY <1>1, <1>2, <2>1 DEF IInv, Typed
    <3> QED BY <1>4, <1>5, <2>1, <3>1 DEF Target
  <2>2. CASE ~ (t = generator.table /\ l \in generator.layers)
    <3>1. announced'[t][l] = announced[t][l]
      BY <1>1, <1>2, <2>2 DEF IInv, Typed
    <3> QED BY <3>1 DEF IInv, AnnouncedIsWritten, MadeFrom
  <2> QED BY <2>1, <2>2
<1> QED BY <1>7, <1>8, <1>9, <1>10 DEF IInv
-----------------------------------------------------------------------------
LEMMA Stutters ==
  ASSUME IInv, UNCHANGED vars
  PROVE  IInv'
<1>1. Typed' /\ DiskTyped'
  BY DiskFrame DEF IInv, Typed, vars
<1>2. Position' /\ WrittenSoFar' /\ AtWork'
  BY GeneratorFrame DEF IInv, vars
<1> QED BY <1>1, <1>2, ReflectorFrame, LoadedFrame, AnnouncedFrame DEF IInv, vars

(* The inductive invariant holds in every state: where the generator is,   *)
(* what it has written so far, and that nothing it knows of a table is     *)
(* newer than the database.                                                *)
THEOREM GeneratorInvariant == Spec => []IInv
<1>1. Init => IInv
  BY Starts, PackageAssumption, BoundsAssumption, ContentsAssumption
<1>2. IInv /\ [Next]_vars => IInv'
  <2> SUFFICES ASSUME IInv, [Next]_vars PROVE IInv'
    OBVIOUS
  <2> USE PackageAssumption, BoundsAssumption, ContentsAssumption, LayerRequestsAssumption
  <2>1. CASE UNCHANGED vars
    BY <2>1, Stutters
  <2>2. ASSUME NEW t \in TableNames, Migrate(t)
        PROVE  IInv'
    BY <2>2, NewerSchema DEF Migrate
  <2>3. ASSUME NEW f \in HandFiles, EditByHand(f)
        PROVE  IInv'
    BY <2>3, Edits
  <2>4. CASE ReflectSchema
    BY <2>4, Reflects
  <2>5. CASE Generate /\ ~ AtTable
    BY <2>5, Loads
  <2>6. CASE Generate /\ AtTable
    <3>1. BeginLayer \/ SkipFile \/ GenerateFails \/ GeneratorKilled
            \/ CreateFile \/ ExecuteTemplate \/ Announce
      <4>1. generator.at \in {"layer", "file", "execute"} /\ Idle.at = "idle"
        BY <2>6 DEF AtTable, Idle
      <4>2. \A t \in TableNames : ~ LoadTable(t) /\ ~ BeginTable(t)
        BY <4>1 DEF LoadTable, BeginTable
      <4>3. ~ AllTablesDone /\ generator # Idle
        BY <4>1 DEF AllTablesDone
      <4>4. \A tables, force, layers : ~ BeginGenerate(tables, force, layers)
        BY <4>3 DEF BeginGenerate
      <4> QED BY <2>6, <4>2, <4>3, <4>4 DEF Generate
    <3> QED BY <2>6, <3>1, Advances, Truncates, Writes, Announces
  <2> QED BY <2>1, <2>2, <2>3, <2>4, <2>5, <2>6 DEF Next
<1> QED BY <1>1, <1>2, PTL DEF Spec

(* The types of the schema, of its description on disk and of every file;  *)
(* and no more runs, faults and edits than the bounds allow.               *)
THEOREM GeneratorTyped == Spec => []TypeOK
<1>1. IInv => TypeOK
  BY BoundsAssumption DEF IInv, Typed, DiskTyped, JSONGood, TypeOK
<1> QED BY <1>1, GeneratorInvariant, PTL

(* orchestrator.go PrintSummary: whatever migrations, runs and failures    *)
(* came in between, what was announced complete is on disk as its          *)
(* description says, unless goimports spoilt it, and every key of the      *)
(* description is on a column that it has.                                 *)
THEOREM AnnouncedHolds == Spec => []AnnouncedIsWritten
<1>1. IInv => AnnouncedIsWritten
  BY DEF IInv
<1> QED BY <1>1, GeneratorInvariant, PTL

(* template_store_custom.go and the like: no step of any program takes     *)
(* work of a programmer away, and only -force, or the run that has just    *)
(* created it, changes a generated.go that exists.                         *)
THEOREM WorkIsKept == Spec => FilesKept
<1> DEFINE Kept == /\ \A f \in HandFiles : disk[f] = Edited => disk'[f] = Edited
                   /\ \A f \in GeneratedFiles : disk'[f] # disk[f] =>
                        disk[f] = Absent \/ generator.force \/ BeingWritten(f)
<1>1. IInv /\ [Next]_vars => [Kept]_vars
  <2> SUFFICES ASSUME IInv, Next PROVE Kept
    OBVIOUS
  <2> generator \in GeneratorStates
    BY DEF IInv, Typed
  <2>1. CASE UNCHANGED disk
    BY <2>1
  <2>2. ASSUME NEW g \in HandFiles, EditByHand(g)
        PROVE  Kept
    <3>1. \A f \in Files : disk'[f] = disk[f] \/ (f = g /\ disk'[f] = Edited)
      BY <2>2 DEF EditByHand, IInv, Typed
    <3> QED BY <3>1, TwoKinds DEF Files
  <2>3. CASE CreateFile
    <3>1. AtTable /\ InLayer /\ generator.at = "file" /\ disk' = [disk EXCEPT ![File(generator.file)] = Torn]
          /\ (generator.file = 1 \/ disk[File(generator.file)] = Absent)
      BY <2>3 DEF CreateFile, AtTable, InLayer, Wanted, Generates
    <3>2. \A f \in Files : f # File(generator.file) => disk'[f] = disk[f]
      BY <3>1 DEF IInv, Typed
    <3>3. File(1) = Target(Layer) /\ Target(Layer) \notin HandFiles
      BY <3>1, AtLayer, Place DEF IInv
    <3>4. generator.file = 1 /\ ~ generator.force => disk[File(1)] = Absent
      BY <3>1, <3>3 DEF IInv, AtWork
    <3>5. \A f \in HandFiles : disk[f] = Edited => f # File(generator.file)
      BY <3>1, <3>3, ContentsAssumption
    <3>6. disk[File(generator.file)] = Absent \/ generator.force
      BY <3>1, <3>4 DEF GeneratorStates
    <3> QED BY <3>2, <3>5, <3>6 DEF Files
  <2>4. CASE ExecuteTemplate
    <3>1. generator.at = "execute" /\ \A f \in Files : f # File(generator.file) => disk'[f] = disk[f]
      BY <2>4 DEF ExecuteTemplate, IInv, Typed
    <3>2. disk[File(generator.file)] # Edited
      BY <3>1, ContentsAssumption DEF IInv, AtWork
    <3> QED BY <3>1, <3>2 DEF Files, BeingWritten
  <2> QED
    BY <2>1, <2>2, <2>3, <2>4
    DEF Next, Migrate, ReflectSchema, BeginReflect, ReadColumns, ReadPrimaryKey, ReadForeignKeys,
        CreateJSON, EncodeJSON, ReflectEnds, ReflectorStep, Generate, BeginGenerate, LoadTable, BeginTable,
        BeginLayer, SkipFile, Announce, AllTablesDone, GenerateFails, GeneratorKilled
<1> QED BY <1>1, GeneratorInvariant, PTL DEF Spec, FilesKept
=============================================================================
