SPECIFICATION Spec
CONSTANTS
  Minute = 3
  Month = 6
  Retention = 1
  Readings = {2}
  CarryOver = {0, 2}
  MaxRestarts = 2
  MaxTime = 6
  MaxCalls = 1
  MaxCount = 2
INVARIANTS TypeOK NeverOvercounts CountersSurvive HistoryFits
