CONSTANTS
  u1 = u1  u2 = u2  s1 = s1  s2 = s2  s3 = s3
  Users = {u1, u2}
  Streams = {s1, s2, s3}
  UserOf <- TwoUsers
  MaxMsg = 3
  OwnerOf <- LastForU2
  BufferSize = 1
  ReplayEvents = 0
  Env = {"gone", "ping", "shutdown", "reorder"}

SPECIFICATION MCSpec
SYMMETRY StreamSymmetry
CHECK_DEADLOCK FALSE
INVARIANTS TypeOK RegistryExact LatestOnlyWhileStreaming LatestCoversGot OwnMessagesOnly
PROPERTIES LatestNeverFalls
