SPECIFICATION Spec
CONSTANTS
  a1 = a1
  a2 = a2
  b1 = b1
  alice = alice
  bob = bob
  v1 = v1
  v2 = v2
  k1 = k1
  k2 = k2
  None = None
  User = {alice, bob}
  Conn = {a1, a2, b1}
  Conv = {v1, v2}
  Key = {k1, k2}
  UserOf <- MCUserOf
  Marks <- MCMarks
  Sends <- MCSends
  Moves <- MCMoves
  Closures = {v1}
  MaxJoins = 2
\* Once the Conversations are dissolved the store rests: no deadlock check.
CHECK_DEADLOCK FALSE
INVARIANTS
  TypeOK
  GaplessStream
  OneMessagePerKey
  ReadStateWithinStream
  AnswersAreFaithful
PROPERTIES
  ReadPositionOnlyAdvances
  ImplementsLog
