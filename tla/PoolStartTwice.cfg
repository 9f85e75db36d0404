\* workers.go:70 says startMutex protects against multiple Start() calls.
CONSTANTS
  Workers = {w1, w2}
  Tasks = {t1}
  NoTask = NoTask
  Starters = {s1, s2}
  Stoppers = {p1}
  MaxRetries = 1
  Limited = FALSE
  ErrorLimit = 0
  MaxDeliveries = 1
SPECIFICATION Spec
INVARIANT RepeatedStartIsSafe
