\* workers.go:19 and :74 say a worker can shut the pool down.
CONSTANTS
  Workers = {w1, w2}
  Tasks = {t1}
  NoTask = NoTask
  Starters = {s1}
  Stoppers = {p1}
  MaxRetries = 1
  Limited = FALSE
  ErrorLimit = 0
  MaxDeliveries = 1
SPECIFICATION FairSpec
PROPERTY PoolStopIsHonoured
