CONSTANTS
  Clients = {c1, c2}
  Messages <- MCMessages
  Promise <- MCPromise
  Backlog = 2
  MaxSockets = 3
SPECIFICATION Spec
INVARIANTS TypeOK AnswersAsPromised StoppedOnRequest
PROPERTY EveryoneAnswered
CHECK_DEADLOCK FALSE
