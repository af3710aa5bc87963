SPECIFICATION PresenceFairSpec
CONSTANTS
  a1 = a1
  a2 = a2
  alice = alice
  Never = Never
  User = {alice}
  Conn = {a1, a2}
  UserOf <- MCUserOf
  HasCursors = {a1}
  Beats = 1
  LinkRoom = 2
  Ends <- MCEnds
\* When every connection is gone the node is idle.
CHECK_DEADLOCK FALSE
INVARIANTS
  PresenceTypeOK
  ShownOnlineIsReachable
  OneAnnouncer
PROPERTY DeadPeersAreForgotten
