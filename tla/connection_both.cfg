CONSTANTS
  a = a  b = b  c = c
  Actors = {a, b}
  Teams <- MoveAndOpen
  MaxConfig = 1
  Env = {"slow"}

SPECIFICATION Spec
CHECK_DEADLOCK FALSE
INVARIANT NeverOnBoth
