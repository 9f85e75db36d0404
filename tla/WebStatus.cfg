\* The bounds of Web.cfg.
SPECIFICATION MCSpec
CONSTANTS
  Requests = {q1, q2}
  MaxConns = 1
  Settings <- MCSettings
  Signals = 2
  Global <- MCGlobal
  Lists <- MCLists
  MaxGroups = 3
  MaxRoutes = 2
INVARIANT StatusIsTheCodes
CHECK_DEADLOCK FALSE
