\* BOUNDS: two tables, one of up to three versions, two runs of each program, one fault, one edit.
SPECIFICATION MCSpec
CONSTANTS
  LayerRequests <- MCLayerRequests
  Absent = Absent
  NoTable = NoTable
  Torn = Torn
  Mangled = Mangled
  History <- MCHistory
  Scaffold = Scaffold
  Edited = Edited
  TableNames = {"a", "b"}
  Package <- MCPackage
  MaxVersion = 3
  MaxRuns = 2
  MaxFaults = 1
  MaxEdits = 1
CHECK_DEADLOCK FALSE
INVARIANTS TypeOK AnnouncedIsWritten
PROPERTIES FilesKept
