CONSTANTS
  Clients = {c1, c2}
  Requests <- MCRequests
  MaxSockets = 2
SPECIFICATION Spec
INVARIANTS TypeOK AnswersAreOwn
PROPERTIES SwitchedWhenAnswered MeasuringGoesOn EveryCommandAnswered
CHECK_DEADLOCK FALSE
