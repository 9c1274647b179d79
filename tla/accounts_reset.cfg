CONSTANTS
  Requests = {r1, r2, r3}
  Earlier = {}
  Passwords = {pw1, pw2}
  MaxConnections = 1
  Env = {}

SPECIFICATION Spec

CHECK_DEADLOCK FALSE
INVARIANT PasswordStays
