SPECIFICATION ServicesSpec
CONSTANTS
  Services = {"limiter", "typing", "lastSeen", "cursors", "direct", "history", "notices",
              "replay", "forms", "provider", "requests", "startup", "shell", "socket", "outbox",
              "authTab"}
  Address = {a1, a2}
  Attempt = {q1, q2}
  MaxFailures = 2
  Window = 2
  Throttle = 1
  MaxThrottles = 2
  Lockout = 2
  MaxTracked = 2
  LongestLockout = 3
  MaxDoublings = 2
  MaxRecorded = 3
  Device = {d1, d2}
  Watcher = {w1}
  Ttl = 4
  Throttling = 2
  QueueLimit = 2
  Person = {p1, p2}
  Writer = {f1, f2}
  Instants = 2
  Wire = {c1, c2}
  Position = 3
  Peer = {u1, u2}
  Opener = {o1, o2, o3}
  Ulid = {i1, i2}
  Reader = {x1}
  Limit <- MCLimit
  DefaultPage = 2
  MaxPage = 3
  MaxNewest = 6
  Fellow = {g1, g2, g3}
  Founder = olga
  Request = {r1, r2}
  GroupCap = 3
  MaxRequests = 3
  ReplayCapacity = 2
  WireRoom = 3
  MaxSent = 6
  MaxLost = 2
  Limits <- MCLimits
  MaxAccounts = 2
  SuffixDigits = 1
  MaxSuffix = 2
  MaxAttempts = 2
  Process = {n1, n2}
  Binary <- MCBinaries
  Varied <- MCVaried
  Talk <- MCTalk
  MaxOpened = 2
  MaxNoticed = 2
  Pair = {b1, b2}
  Third = b3
  MaxQuery = 2
  MaxSockets = 3
  MaxFrames = 2
  Tab = {t1}
  Key = {k1}
  MaxPosts = 2
  MaxTroubles = 1
  Holder = {y1, y2}
  MaxLogins = 2
  MaxChanges = 2
INVARIANTS
  ServicesTypeOK
  
  NothingRecordedIsLost
  PairsShareOneConversation
  RepairsLeaveNoHole
  FormsMeetTheirTables
  AnswersWereTrue
  ProcessesAreSound
PROPERTY
  StoredClocksNeverGoBack
CHECK_DEADLOCK FALSE
