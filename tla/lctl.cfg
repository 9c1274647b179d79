CONSTANTS
  w1 = w1
  w2 = w2
  t1 = t1
  t2 = t2
  Writers = {w1, w2}
  Texts = {t1, t2}
  u1 = u1
  u2 = u2
  c1 = c1
  c2 = c2
  n1 = n1
  Users = {u1, u2}
  Conns = {c1, c2, n1}
  NewConns = {n1}
  OwnerOf <- MCOwnerOf
  Invalid = {c1}
  MaxLog = 2
  Batch = 1
  main = main
  next = next
  Ids = {1, 2, 3}
  From = main
  To = next
  Sizes = {1, 2}
  Limits = {2}
  Waits = {3}
  Probe = 2
  Forms <- MCForms
  Answers <- MCAnswers
SPECIFICATION MCSpec
CHECK_DEADLOCK FALSE
INVARIANTS
  ConfigTypeOK
  LostOnlyToStaleReads
  DeletionTypeOK
  AllOrNothing
  LogIsSwept
  Paced
  DormantLeftAlone
  HandledInOrder
  WaitHonoured
  ApiSavesAreValid
PROPERTY RepairKeepsText
