SPECIFICATION Spec
CONSTANTS
  Code = {1, 2}
  OverflowCode = 350
  NoErrorCode = 0
  Text = {"t1", "t2"}
  NoText = "none"
  Sizes = {1, 2, 3}
  b1 = b1
  b2 = b2
  b3 = b3
  b4 = b4
  Block <- MCBlock
  NULL = NULL
  Free = Free
  Uninit = Uninit
INVARIANTS
  RingInv
  InfoOwnership
  NoBadFree
PROPERTY
  ImplementsQueue
SYMMETRY Symmetry
