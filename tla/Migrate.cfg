\* Three concurrent processes of two releases, with crashes and retries.
CONSTANTS
  m1 = m1
  m2 = m2
  m3 = m3
  x = x
  y = y
  Migrators = {m1, m2, m3}
  N = 3
  Contents = {x, y}
  None = None
  Embedded <- MCEmbedded
SPECIFICATION FairSpec
INVARIANTS
  TypeOK
  AppliedExactlyOnce
  SuccessIsComplete
  AppliedInOrder
PROPERTIES
  KeepsHistory
  EveryRunEnds
