SPECIFICATION Spec
CHECK_DEADLOCK FALSE
CONSTANTS
  Paths = {"f"}
  Words = {"x"}
  Scripts = {"s", "u"}
  Body <- MCBody
  Lines <- MCLines
  Typed <- MCTyped
  Leftovers <- MCLeftovers
  MaxDepth = 2
  MaxText = 2
INVARIANTS
  TypeOK
  BuffersAlive
  CapturesNested
PROPERTY
  Evaluates
