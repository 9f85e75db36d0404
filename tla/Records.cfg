\* BOUNDS: three keys, two times, one change of the table, pages of one and two rows.
SPECIFICATION MCSpec
CONSTANTS
  Keys = {1, 2, 3}
  MaxTime = 2
  MaxWrites = 1
  Orders <- MCOrders
  PageSizes = {0, 1, 2}
  NoPlace = NoPlace
INVARIANTS TypeOK StableRowsShown NothingShownTwice KnownFiltersHold ShippedIsGenerated
PROPERTIES PreviousCursorLeadsBack CallsDoWhatTheySay KeepsSortedWalk
