SPECIFICATION Spec
CONSTANTS
  User = {u1}
  Req = {r1, r2}
  Session = {s1}
  Link = {l1, l2}
  MaxHashes = 1
INVARIANT ResetEndsOldSessions
CHECK_DEADLOCK FALSE
