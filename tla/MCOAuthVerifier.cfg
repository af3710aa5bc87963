SPECIFICATION Spec
CONSTANTS
  Account = {a1, a2, a3}
  Email = {e1, e2}
  Identity = {i1, i2}
  State = {s1, s2, s3}
  Call = {c1, c2}
  MaxMints = 3
INVARIANT PresentsTheVerifier
CHECK_DEADLOCK FALSE
