SPECIFICATION FairSpec
CONSTANTS
  User = {u1}
  Req = {r1, r2}
  Session = {s1}
  Link = {l1, l2}
  MaxHashes = 1
INVARIANTS
  TypeOK
  OneEffectPerLink
  OnlyOverlappingIssuesCoexist
  ResetEndsEarlierSessions
  HashesAreBounded
PROPERTIES
  RevokedIsFinal
  RequestsFinish
CHECK_DEADLOCK FALSE
