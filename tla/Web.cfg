\* BOUNDS: two requests, one connection, two signals; three groups, two routes.
SPECIFICATION MCSpec
CONSTANTS
  Requests = {q1, q2}
  MaxConns = 1
  Settings <- MCSettings
  Signals = 2
  Global <- MCGlobal
  Lists <- MCLists
  MaxGroups = 3
  MaxRoutes = 2
INVARIANTS TypeOK TracesStayInside FailureNeverLooksLikeSuccess CountersAgree CleanExitAnswersAll EmptyIsNotUnset RoutesRunTheirOwn
PROPERTIES NoStatementCut KeepsPromise SignalEndsProcess
CHECK_DEADLOCK FALSE
