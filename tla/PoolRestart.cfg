\* Two Start calls that race two Stop calls.
CONSTANTS
  Workers = {w1, w2}
  Tasks = {t1}
  NoTask = NoTask
  Starters = {s1, s2}
  Stoppers = {p1, p2}
  MaxRetries = 0
  Limited = TRUE
  ErrorLimit = 1
  MaxDeliveries = 2
SPECIFICATION Spec
PROPERTY KeepsLedger
