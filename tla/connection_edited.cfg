CONSTANTS
  a = a  b = b  c = c
  Actors = {a, b}
  Teams <- EditAndOpen
  MaxConfig = 2
  Env = {"slow"}

SPECIFICATION Spec
CHECK_DEADLOCK FALSE
INVARIANT SavedIsRunning
