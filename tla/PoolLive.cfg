\* One Start call under fairness: liveness, and the whole promise of TaskLedger.
CONSTANTS
  Workers = {w1, w2}
  Tasks = {t1, t2}
  NoTask = NoTask
  Starters = {s1}
  Stoppers = {p1}
  MaxRetries = 2
  Limited = FALSE
  ErrorLimit = 0
  MaxDeliveries = 2
SPECIFICATION FairSpec
PROPERTIES
  CancelDrains
  AnswersEveryClaim
