CONSTANTS
  a = a  b = b  c = c
  Actors = {a, b}
  Teams <- WipeAndOpen
  MaxConfig = 1
  Env = {"slow"}

SPECIFICATION Spec
CHECK_DEADLOCK FALSE
INVARIANT WipedIsStopped
