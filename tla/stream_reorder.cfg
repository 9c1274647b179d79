CONSTANTS
  u1 = u1  u2 = u2  s1 = s1  s2 = s2  s3 = s3
  Users = {u1}
  Streams = {s1, s2}
  UserOf <- OneUser
  MaxMsg = 2
  OwnerOf <- AllForU1
  BufferSize = 2
  ReplayEvents = 0
  Env = {"ping", "reorder"}

SPECIFICATION Spec
CONSTRAINT SeededInTime
CHECK_DEADLOCK FALSE
INVARIANT LatestCurrent
