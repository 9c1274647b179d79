CONSTANTS
  u1 = u1  u2 = u2  s1 = s1  s2 = s2  s3 = s3
  Users = {u1, u2}
  Streams = {s1}
  UserOf <- OneStream
  MaxMsg = 2
  OwnerOf <- LastForU2
  BufferSize = 2
  ReplayEvents = 2
  Env = {"gone", "shutdown", "query", "ping", "replay", "lost", "lookup", "duplicate"}

SPECIFICATION FairSpec
CHECK_DEADLOCK FALSE
PROPERTIES StoppedStreamEnds ShutdownDrains LiveEventArrives
