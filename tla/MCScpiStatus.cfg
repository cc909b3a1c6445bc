SPECIFICATION Spec
CONSTANTS
  AppCodes <- MCAppCodes
  QueueSize = 2
  EnableValues <- MCEnableValues
  SreValues <- MCSreValues
  CondValues <- MCCondValues
INVARIANTS
  TypeOK
  SummaryInv
  ServiceInv
  QueueBitInv
PROPERTIES
  ServiceAnnounced
  EventsLatched
VIEW StateView
