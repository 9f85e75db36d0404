\* Two workers, three tasks of two durations, any number of snapshots.
CONSTANTS
  Workers = {w1, w2}
  Durations = {1, 3}
  Unset = 9
  MaxTasks = 3
SPECIFICATION Spec
SYMMETRY Symmetry
INVARIANTS
  TypeOK
  InProgressNeverNegative
  ShutdownSnapshotExact
  ShutdownAverageWithinExtremes
