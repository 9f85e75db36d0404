\* migrate.go:124 says that only a missing row is ignored.
CONSTANTS
  m1 = m1
  m2 = m2
  m3 = m3
  x = x
  y = y
  Migrators = {m1, m2, m3}
  N = 3
  Contents = {x, y}
  None = None
  Embedded <- MCEmbedded
SPECIFICATION Spec
PROPERTY OnlyPendingGoOn
