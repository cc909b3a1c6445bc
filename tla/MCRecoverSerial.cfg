CONSTANTS
  MaxEmpty = 30
  MaxLines = 2
  MaxStray = 32
SPECIFICATION Spec
INVARIANT DeadGivenUp
PROPERTY HeardAgain
