SPECIFICATION Spec
CONSTANTS
  MaxModelCalls = 3
  Limit <- MCLimit
  MaxSeconds = 2
  Reservable <- MCReservable
  Reportable <- MCReportable
  MaxTime = 2
INVARIANT AccountTrue
PROPERTY ImplementsPilotLedger
CHECK_DEADLOCK FALSE
