\* One Start call, two Stop calls, every kind of worker error: safety.
CONSTANTS
  Workers = {w1, w2}
  Tasks = {t1, t2}
  NoTask = NoTask
  Starters = {s1}
  Stoppers = {p1, p2}
  MaxRetries = 2
  Limited = TRUE
  ErrorLimit = 1
  MaxDeliveries = 2
SPECIFICATION Spec
SYMMETRY Symmetry
INVARIANTS
  TypeOK
  LedgerBalanced
  OneStartNeverCrashes
  ErrorChannelHasRoom
  OneStopCancels
  LimitStopsWorker
