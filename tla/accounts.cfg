CONSTANTS
  Requests = {r1, r2, r3, r4}
  Earlier = {c1, c2, c3}
  Passwords = {pw1, pw2}
  MaxConnections = 2
  Env = {"die", "mail", "liercd"}

SPECIFICATION Spec
SYMMETRY RequestSymmetry
CHECK_DEADLOCK FALSE
INVARIANTS TypeOK FirstNetworkOnce WithinLimit NoSecondNetwork FirstNetworkArrives MailPaced
PROPERTIES OneTime
