CONSTANTS
  Families <- MCFamilies
  Width = 5
  LongWidth = 7
SPECIFICATION Spec
INVARIANTS TokensAreLongest NoTerminatorSwallowed ParametersReadBack NumbersReadBack TypedParameters TextsReadBack ListsRead
CHECK_DEADLOCK FALSE
