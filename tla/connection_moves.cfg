CONSTANTS
  a = a  b = b  c = c
  Actors = {a, b, c}
  Teams <- MoveTeams
  MaxConfig = 2
  Env = {"slow", "refuse", "down", "db", "crash"}

SPECIFICATION Spec
CHECK_DEADLOCK FALSE
INVARIANTS TypeOK OffColumnIsTransient StillRunning NoOrphan
