SPECIFICATION Spec
CONSTANTS
  AppCodes <- MCAppCodes
  QueueSize = 2
  EnableValues <- MCEnableValues
  SreValues <- MCSreValues
  CondValues <- MCCondValues
PROPERTY PositiveErrorsSetDer
VIEW StateView
