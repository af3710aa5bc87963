---- MODULE ServerProofs ----
EXTENDS AttemptLimiter, LastSeen, SyncCursors, DirectConversations, HistoryPages, Replay,
        Requests, Startup, Typing, ProviderIdentity, FunctionTheorems,
        WellFoundedInduction, NaturalsInduction, FiniteSetTheorems, SequenceTheorems, TLAPS

-----------------------------------------------------------------------------
(* The attempt limiter *)

\* Numbers by size, as a relation: what makes an argument by least counterexample possible.
Below == {e \in Nat \X Nat : e[1] < e[2]}

\* A set of natural numbers that is not empty has a least one.
LEMMA Least ==
  ASSUME NEW T \in SUBSET Nat, T # {}
  PROVE  \E x \in T : \A y \in T : x <= y
<1>1. IsWellFoundedOn(Below, Nat)
  BY NatLessThanWellFounded DEF OpToRel, Below
<1>2. PICK x \in T : \A y \in T : ~ (<<y, x>> \in Below)
  BY <1>1, WFMin, Zenon
<1>3. ASSUME NEW y \in T
      PROVE  x <= y
  <2>1. x \in Nat /\ y \in Nat /\ ~ (<<y, x>> \in Below)
    BY <1>2
  <2>2. ~ (y < x)
    BY <2>1 DEF Below
  <2> QED
    BY <2>1, <2>2
<1> QED
  BY <1>3

\* f is the doubling up to n.
DoublesTo(f, n) ==
  /\ f \in [0 .. n -> Nat \ {0}]
  /\ \A i \in 0 .. n : f[i] = IF i = 0 THEN 1 ELSE 2 * f[i - 1]

\* It exists up to every number: the least n without one could be reached from n - 1.
LEMMA DoublesExist == \A n \in Nat : \E f : DoublesTo(f, n)
<1> DEFINE bad == {n \in Nat : ~ \E f : DoublesTo(f, n)}
<1>1. CASE bad = {}
  BY <1>1
<1>2. CASE bad # {}
  <2>1. PICK n \in bad : \A m \in bad : n <= m
    <3>1. bad \in SUBSET Nat
      OBVIOUS
    <3> HIDE DEF bad
    <3> QED BY <1>2, <3>1, Least
  <2>2. n \in Nat
    OBVIOUS
  <2>3. CASE n = 0
    <3>1. DoublesTo([i \in 0 .. 0 |-> 1], 0)
      BY DEF DoublesTo
    <3> QED BY <2>1, <2>3, <3>1
  <2>4. CASE n # 0
    <3>1. n - 1 \in Nat /\ n - 1 \notin bad
      BY <2>1, <2>2, <2>4
    <3>2. PICK f : DoublesTo(f, n - 1)
      BY <3>1
    <3>3. DoublesTo([i \in 0 .. n |-> IF i = n THEN 2 * f[n - 1] ELSE f[i]], n)
      BY <2>2, <2>4, <3>1, <3>2 DEF DoublesTo
    <3> QED BY <2>1, <3>3
  <2> QED BY <2>3, <2>4
<1> QED BY <1>1, <1>2

\* Two doublings agree as far as both go.
LEMMA DoublesAgree ==
  ASSUME NEW m \in Nat, NEW n \in Nat, m <= n, NEW f, NEW g, DoublesTo(f, m), DoublesTo(g, n)
  PROVE  \A i \in 0 .. m : f[i] = g[i]
<1> DEFINE bad == {i \in 0 .. m : f[i] # g[i]}
<1>1. CASE bad # {}
  <2>1. bad \in SUBSET Nat
    OBVIOUS
  <2>2. PICK i \in bad : \A j \in bad : i <= j
    <3> HIDE DEF bad
    <3> QED BY <1>1, <2>1, Least
  <2>3. CASE i = 0
    BY <2>2, <2>3 DEF DoublesTo
  <2>4. CASE i # 0
    <3>1. i - 1 \in 0 .. m /\ i - 1 \notin bad /\ i \in 0 .. n
      BY <2>2, <2>4
    <3>2. f[i - 1] = g[i - 1]
      BY <3>1
    <3>3. f[i] = 2 * f[i - 1] /\ g[i] = 2 * g[i - 1]
      BY <2>2, <2>4, <3>1 DEF DoublesTo
    <3> QED BY <2>2, <3>2, <3>3
  <2> QED BY <2>3, <2>4
<1> QED BY <1>1

\* What 1 << exponent is: it starts at one and doubles.
LEMMA FactorDoubles ==
  /\ Factor \in [Nat -> Nat \ {0}]
  /\ \A n \in Nat : Factor[n + 1] = 2 * Factor[n]
<1> DEFINE upTo(n) == CHOOSE f : DoublesTo(f, n)
           all == [n \in Nat |-> upTo(n)[n]]
<1>1. ASSUME NEW n \in Nat PROVE DoublesTo(upTo(n), n)
  BY DoublesExist
<1> HIDE DEF upTo
<1>2. ASSUME NEW n \in Nat PROVE all[n] \in Nat \ {0}
  BY <1>1 DEF DoublesTo
<1>3. ASSUME NEW n \in Nat, n # 0 PROVE all[n] = 2 * all[n - 1]
  <2>1. n - 1 \in Nat /\ n - 1 <= n /\ n - 1 \in 0 .. n - 1
    BY <1>3
  <2>2. upTo(n - 1)[n - 1] = upTo(n)[n - 1]
    BY <1>1, <2>1, DoublesAgree
  <2>3. upTo(n)[n] = 2 * upTo(n)[n - 1]
    BY <1>1, <1>3 DEF DoublesTo
  <2> QED BY <2>1, <2>2, <2>3
<1>4. all[0] = 1
  BY <1>1 DEF DoublesTo
<1>5. all = [n \in Nat |-> IF n = 0 THEN 1 ELSE 2 * all[n - 1]]
  BY <1>3, <1>4
<1> HIDE DEF all
<1>6. Factor = [n \in Nat |-> IF n = 0 THEN 1 ELSE 2 * Factor[n - 1]]
  BY <1>5 DEF Factor
<1> QED
  <2>1. ASSUME NEW n \in Nat PROVE Factor[n + 1] = 2 * Factor[n]
    BY <1>6
  <2>2. Factor[0] = 1
    BY <1>6
  <2>3. ASSUME NEW n \in Nat, Factor[n] \notin Nat \ {0} PROVE FALSE
    <3> DEFINE bad == {k \in Nat : Factor[k] \notin Nat \ {0}}
    <3>1. bad \in SUBSET Nat /\ bad # {}
      BY <2>3
    <3>2. PICK k \in bad : \A j \in bad : k <= j
      <4> HIDE DEF bad
      <4> QED BY <3>1, Least
    <3>3. k # 0 /\ k - 1 \in Nat /\ k - 1 \notin bad
      BY <2>2, <3>2
    <3>4. Factor[k] = 2 * Factor[k - 1]
      BY <1>6, <3>3
    <3> QED BY <3>2, <3>3, <3>4
  <2> QED BY <1>6, <2>1, <2>3

\* A lockout is no shorter than a throttle nor than the lockout before it.
LEMMA LockoutsGrow ==
  ASSUME NEW n \in Nat \ {0}
  PROVE  /\ LockoutSeconds(n) \in Lockout .. LongestLockout
         /\ LockoutSeconds(n + 1) >= LockoutSeconds(n)
<1> DEFINE e(k) == IF k - 1 > MaxDoublings THEN MaxDoublings ELSE k - 1
           s(k) == Lockout * Factor[e(k)]
<1>0. Lockout \in Nat \ {0} /\ LongestLockout \in Nat /\ Lockout <= LongestLockout /\ MaxDoublings \in Nat
  BY LimiterAssumption
<1>1. ASSUME NEW k \in Nat \ {0}
      PROVE  e(k) \in Nat /\ Factor[e(k)] \in Nat \ {0} /\ s(k) \in Nat /\ s(k) >= Lockout
  <2>1. e(k) \in Nat
    BY <1>0
  <2>2. Factor[e(k)] \in Nat \ {0}
    BY <2>1, FactorDoubles
  <2> HIDE DEF e
  <2>3. ASSUME NEW x \in Nat \ {0}, NEW y \in Nat \ {0} PROVE x * y \in Nat /\ x * y >= x
    BY <2>3
  <2> QED BY <1>0, <2>1, <2>2, <2>3
<1>2. s(n + 1) >= s(n)
  <2>1. e(n + 1) = e(n) \/ (e(n + 1) = e(n) + 1 /\ Factor[e(n + 1)] = 2 * Factor[e(n)])
    BY <1>0, <1>1, FactorDoubles
  <2>2. CASE e(n + 1) = e(n)
    BY <1>1, <2>2
  <2>3. CASE Factor[e(n + 1)] = 2 * Factor[e(n)]
    <3>1. ASSUME NEW x \in Nat, NEW y \in Nat PROVE x * (2 * y) >= x * y
      BY <3>1
    <3> QED BY <1>0, <1>1, <2>3, <3>1
  <2> QED BY <2>1, <2>2, <2>3
<1>3. \A k \in Nat \ {0} : LockoutSeconds(k) = IF s(k) > LongestLockout THEN LongestLockout ELSE s(k)
  BY DEF LockoutSeconds
<1> HIDE DEF s
<1> QED BY <1>0, <1>1, <1>2, <1>3

\* What a record owes was set by its last lockout or its last throttle.
Owing(r) == r.lockoutLeft > 0 => r.lockouts > 0 /\ r.lockoutLeft <= LockoutSeconds(r.lockouts)

\* The tracked sources are in one order, that in which they were last seen.
SeenInOrder ==
  /\ \A s \in tracked : <<s, s>> \notin colder
  /\ \A s, t \in tracked : s # t => <<s, t>> \in colder \/ <<t, s>> \in colder
  /\ \A s, t, u \in tracked : <<s, t>> \in colder /\ <<t, u>> \in colder => <<s, u>> \in colder

LimiterInv ==
  /\ LimiterTypeOK
  /\ IsFiniteSet(tracked)
  /\ SeenInOrder
  /\ \A s \in Source : Owing(record[s])

\* A failure makes a record of its type that owes no less than before.
LEMMA FailureAdds ==
  ASSUME NEW r \in AttemptRecord, Owing(r)
  PROVE  LET f == AfterFailure(r) IN
         /\ f \in AttemptRecord /\ Owing(f)
         /\ \/ f.lockoutLeft = r.lockoutLeft /\ f.throttleLeft >= r.throttleLeft
            \/ f.lockoutLeft >= r.lockoutLeft /\ f.lockoutLeft >= r.throttleLeft
<1> DEFINE d == Decayed(r)
           f == [d EXCEPT !.failures = @ + 1]
           t == [f EXCEPT !.throttles = @ + 1]
           l == [t EXCEPT !.lockouts = @ + 1, !.lockoutLeft = LockoutSeconds(t.lockouts + 1),
                          !.throttleLeft = 0]
           p == [t EXCEPT !.throttleLeft = Throttle]
<1>0. /\ MaxFailures \in Nat \ {0} /\ Window \in Nat \ {0} /\ Throttle \in Nat \ {0}
      /\ MaxThrottles \in Nat \ {0} /\ Lockout \in Nat \ {0} /\ LongestLockout \in Nat \ {0}
      /\ Throttle <= Lockout
  BY LimiterAssumption
<1>1. d \in AttemptRecord /\ d.lockouts = r.lockouts /\ d.lockoutLeft = r.lockoutLeft
      /\ d.throttleLeft = r.throttleLeft
  <2> DEFINE g == [r EXCEPT !.failures = 0, !.throttles = 0, !.age = 0]
  <2> DEFINE h == [r EXCEPT !.failures = 0, !.throttles = 0]
  <2>1. h \in AttemptRecord /\ h.lockouts = r.lockouts /\ h.lockoutLeft = r.lockoutLeft
        /\ h.throttleLeft = r.throttleLeft
    BY DEF AttemptRecord
  <2>a. g = [h EXCEPT !.age = 0]
    OBVIOUS
  <2> HIDE DEF h, g
  <2>2. g \in AttemptRecord /\ g.lockouts = r.lockouts /\ g.lockoutLeft = r.lockoutLeft
        /\ g.throttleLeft = r.throttleLeft
    BY <1>0, <2>1, <2>a DEF AttemptRecord
  <2>3. d = r \/ d = g
    BY DEF Decayed, g
  <2> QED BY <2>1, <2>2, <2>3
<1> HIDE DEF d
<1>2. f \in AttemptRecord /\ f.lockouts = r.lockouts /\ f.lockoutLeft = r.lockoutLeft
      /\ f.throttleLeft = r.throttleLeft
  BY <1>1 DEF AttemptRecord
<1> HIDE DEF f
<1>3. t \in AttemptRecord /\ t.lockouts = r.lockouts /\ t.lockoutLeft = r.lockoutLeft
      /\ t.throttleLeft = r.throttleLeft
  BY <1>2 DEF AttemptRecord
<1> HIDE DEF t
<1>4. /\ r.lockouts \in Nat /\ r.lockoutLeft \in 0 .. LongestLockout /\ r.throttleLeft \in 0 .. Throttle
  BY DEF AttemptRecord
<1>5. p \in AttemptRecord /\ Owing(p) /\ p.lockoutLeft = r.lockoutLeft /\ p.throttleLeft >= r.throttleLeft
  BY <1>0, <1>3, <1>4 DEF AttemptRecord, Owing
<1>6. l \in AttemptRecord /\ Owing(l) /\ l.lockoutLeft >= r.lockoutLeft /\ l.lockoutLeft >= r.throttleLeft
  <2>1. LockoutSeconds(r.lockouts + 1) \in Lockout .. LongestLockout
    BY <1>4, LockoutsGrow
  <2>a. LockoutSeconds(t.lockouts + 1) \in 0 .. LongestLockout
    BY <1>0, <1>3, <2>1
  <2> DEFINE n == LockoutSeconds(t.lockouts + 1)
             g == [t EXCEPT !.lockouts = @ + 1]
             h == [g EXCEPT !.lockoutLeft = n]
  <2>b. g \in AttemptRecord /\ g.lockouts = r.lockouts + 1
    BY <1>3 DEF AttemptRecord
  <2>c. l = [h EXCEPT !.throttleLeft = 0]
    OBVIOUS
  <2>d. n \in 0 .. LongestLockout /\ n = LockoutSeconds(r.lockouts + 1)
    BY <1>3, <2>a
  <2> HIDE DEF g, n
  <2>e. h \in AttemptRecord /\ h.lockouts = r.lockouts + 1 /\ h.lockoutLeft = n
    BY <2>b, <2>d DEF AttemptRecord
  <2> HIDE DEF h, l
  <2>2. l \in AttemptRecord /\ l.lockouts = r.lockouts + 1 /\ l.lockoutLeft = LockoutSeconds(r.lockouts + 1)
    BY <1>0, <2>c, <2>d, <2>e DEF AttemptRecord
  <2>3. r.lockoutLeft > 0 => LockoutSeconds(r.lockouts + 1) >= r.lockoutLeft
    <3>1. SUFFICES ASSUME r.lockoutLeft > 0 PROVE LockoutSeconds(r.lockouts + 1) >= r.lockoutLeft
      OBVIOUS
    <3>2. r.lockouts \in Nat \ {0} /\ r.lockoutLeft <= LockoutSeconds(r.lockouts)
      BY <1>4, <3>1 DEF Owing
    <3>3. LockoutSeconds(r.lockouts) \in Lockout .. LongestLockout
          /\ LockoutSeconds(r.lockouts + 1) >= LockoutSeconds(r.lockouts)
      BY <3>2, LockoutsGrow
    <3> QED BY <1>0, <1>4, <2>1, <3>2, <3>3
  <2> QED BY <1>0, <1>4, <2>1, <2>2, <2>3 DEF Owing
<1>7. Owing(f)
  BY <1>2 DEF Owing
<1> HIDE DEF l, p
<1>8. AfterFailure(r) = f \/ AfterFailure(r) = l \/ AfterFailure(r) = p
  <2>1. AfterFailure(r) = CASE f.failures < MaxFailures -> f
                            [] f.failures >= MaxFailures /\ t.throttles >= MaxThrottles -> l
                            [] OTHER -> p
    BY Zenon DEF AfterFailure, d, f, t, l, p
  <2> QED BY <2>1
<1> QED BY <1>2, <1>4, <1>5, <1>6, <1>7, <1>8

LEMMA LimiterInitially == LimiterInit => LimiterInv
<1>0. /\ Window \in Nat \ {0} /\ Throttle \in Nat \ {0} /\ LongestLockout \in Nat \ {0}
      /\ MaxTracked \in Nat \ {0}
  BY LimiterAssumption
<1>1. NewRecord \in AttemptRecord /\ NewRecord.lockoutLeft = 0
  BY <1>0 DEF NewRecord, AttemptRecord
<1>2. IsFiniteSet({}) /\ Cardinality({}) <= MaxTracked
  BY <1>0, FS_EmptySet
<1> QED BY <1>1, <1>2 DEF LimiterInit, LimiterInv, LimiterTypeOK, SeenInOrder, Owing

\* Of some tracked sources one was seen before all the others.
LEMMA ColdestIsThere ==
  ASSUME LimiterInv, NEW S \in SUBSET tracked, S # {}
  PROVE  Coldest(S) \in S /\ EarlierIn(S, Coldest(S)) = {}
<1>0. IsFiniteSet(S)
  BY FS_Subset DEF LimiterInv
<1> DEFINE size(s) == Cardinality(EarlierIn(S, s))
           sizes == {size(s) : s \in S}
<1>1. ASSUME NEW s \in S
      PROVE  IsFiniteSet(EarlierIn(S, s)) /\ size(s) \in Nat
  BY <1>0, FS_Subset, FS_CardinalityType DEF EarlierIn
<1>2. PICK s \in S : \A t \in S : size(s) <= size(t)
  <2>1. sizes \in SUBSET Nat /\ sizes # {}
    BY <1>1
  <2>2. PICK n \in sizes : \A m \in sizes : n <= m
    <3> HIDE DEF sizes
    <3> QED BY <2>1, Least
  <2> HIDE DEF size
  <2> QED BY <2>2
<1>3. ASSUME NEW t \in EarlierIn(S, s) PROVE FALSE
  <2>1. t \in S /\ <<t, s>> \in colder
    BY DEF EarlierIn
  <2>2. EarlierIn(S, t) \subseteq EarlierIn(S, s)
    BY <2>1 DEF EarlierIn, LimiterInv, SeenInOrder
  <2>3. t \notin EarlierIn(S, t)
    BY <2>1 DEF EarlierIn, LimiterInv, SeenInOrder
  <2>4. size(t) <= size(s) /\ size(t) # size(s)
    BY <1>1, <2>1, <2>2, <2>3, FS_Subset
  <2> QED BY <1>1, <1>2, <2>1, <2>4
<1>4. EarlierIn(S, s) = {}
  BY <1>3
<1> QED BY <1>4 DEF Coldest

\* Making room leaves room for one more source.
LEMMA RoomIsMade ==
  ASSUME LimiterInv
  PROVE  /\ Kept \subseteq tracked /\ IsFiniteSet(Kept)
         /\ Cardinality(Kept) \in Nat /\ Cardinality(Kept) < MaxTracked
<1>0. /\ MaxTracked \in Nat \ {0} /\ IsFiniteSet(tracked)
      /\ Cardinality(tracked) \in Nat /\ Cardinality(tracked) <= MaxTracked
  BY LimiterAssumption, FS_CardinalityType DEF LimiterInv, LimiterTypeOK
<1>1. StillCounting \subseteq tracked
  BY DEF StillCounting
<1>2. /\ IsFiniteSet(StillCounting) /\ Cardinality(StillCounting) \in Nat
      /\ Cardinality(StillCounting) <= MaxTracked
  BY <1>0, <1>1, FS_Subset, FS_CardinalityType
<1>3. CASE Cardinality(StillCounting) = MaxTracked
  <2>1. StillCounting # {}
    BY <1>0, <1>3, FS_EmptySet
  <2>2. Coldest(StillCounting) \in StillCounting
    BY <1>1, <2>1, ColdestIsThere
  <2> DEFINE R == StillCounting \ {Coldest(StillCounting)}
  <2>3. IsFiniteSet(R) /\ Cardinality(R) = Cardinality(StillCounting) - 1
    BY <1>2, <2>2, FS_RemoveElement
  <2> HIDE DEF R
  <2>4. R \subseteq tracked /\ Cardinality(R) \in Nat
    BY <1>1, <2>3, FS_CardinalityType DEF R
  <2> QED BY <1>0, <1>1, <1>2, <1>3, <2>3, <2>4 DEF Kept, R
<1>4. CASE Cardinality(StillCounting) # MaxTracked
  BY <1>0, <1>1, <1>2, <1>4 DEF Kept
<1> QED BY <1>3, <1>4

\* Seeing a source keeps the order.
LEMMA SeeingKeepsOrder ==
  ASSUME LimiterInv, NEW S \in SUBSET tracked, NEW s \in Source, SeenNow(S, s)
  PROVE  /\ tracked' \subseteq Source /\ IsFiniteSet(tracked')
         /\ colder' \subseteq tracked' \X tracked'
         /\ SeenInOrder'
<1>1. tracked' \subseteq Source
  BY DEF LimiterInv, LimiterTypeOK, SeenNow
<1>2. IsFiniteSet(tracked')
  BY FS_Subset, FS_AddElement DEF LimiterInv, SeenNow
<1>3. \A t, u : <<t, u>> \in colder' <=>
        \/ <<t, u>> \in colder /\ t \in S \ {s} /\ u \in S \ {s}
        \/ t \in S \ {s} /\ u = s
  BY DEF SeenNow
<1>4. colder' \subseteq tracked' \X tracked'
  BY DEF SeenNow, LimiterInv, LimiterTypeOK
<1>5. SeenInOrder'
  BY <1>3 DEF SeenInOrder, SeenNow, LimiterInv
<1> QED BY <1>1, <1>2, <1>4, <1>5

LEMMA SourcesAreSources ==
  ASSUME NEW forwarded \in Forwarded
  PROVE  SourceOf(forwarded) \in Source
<1>1. CASE forwarded = <<>>
  BY <1>1 DEF SourceOf, Source
<1>2. CASE forwarded # <<>>
  <2>1. PICK x \in Address, y \in Address \cup {NoText} : forwarded = <<x, y>>
    BY <1>2 DEF Forwarded
  <2>2. Last(forwarded) = y
    BY <2>1 DEF Last
  <2> QED BY <2>2 DEF SourceOf, Source
<1> QED BY <1>1, <1>2

\* A record grows older by one unit of time.
Aged(r) ==
  [r EXCEPT !.age = IF @ > Window THEN @ ELSE @ + 1,
            !.throttleLeft = Less(@), !.lockoutLeft = Less(@)]

LEMMA TimePays ==
  ASSUME NEW r \in AttemptRecord, Owing(r)
  PROVE  Aged(r) \in AttemptRecord /\ Owing(Aged(r))
<1> DEFINE f == [r EXCEPT !.age = IF @ > Window THEN @ ELSE @ + 1]
           g == [f EXCEPT !.throttleLeft = Less(@)]
           h == [g EXCEPT !.lockoutLeft = Less(@)]
<1>0. Window \in Nat \ {0} /\ Throttle \in Nat \ {0} /\ LongestLockout \in Nat \ {0}
  BY LimiterAssumption
<1>1. Aged(r) = h
  BY DEF Aged
<1>2. f \in AttemptRecord /\ f.lockouts = r.lockouts /\ f.lockoutLeft = r.lockoutLeft
  BY <1>0 DEF AttemptRecord
<1> HIDE DEF f
<1>3. g \in AttemptRecord /\ g.lockouts = r.lockouts /\ g.lockoutLeft = r.lockoutLeft
  BY <1>0, <1>2 DEF AttemptRecord, Less
<1> HIDE DEF g
<1>4. h \in AttemptRecord /\ h.lockouts = r.lockouts /\ h.lockoutLeft = Less(r.lockoutLeft)
  BY <1>0, <1>3 DEF AttemptRecord, Less
<1> HIDE DEF h
<1>5. r.lockoutLeft \in Nat /\ r.lockouts \in Nat
  BY DEF AttemptRecord
<1>6. Owing(h)
  <2>1. SUFFICES ASSUME h.lockoutLeft > 0
                 PROVE  h.lockouts > 0 /\ h.lockoutLeft <= LockoutSeconds(h.lockouts)
    BY DEF Owing
  <2>2. r.lockoutLeft > 0 /\ h.lockoutLeft < r.lockoutLeft
    BY <1>4, <1>5, <2>1 DEF Less
  <2>3. r.lockouts > 0 /\ r.lockoutLeft <= LockoutSeconds(r.lockouts)
    BY <2>2 DEF Owing
  <2>4. LockoutSeconds(r.lockouts) \in Lockout .. LongestLockout /\ Lockout \in Nat
    BY <1>5, <2>3, LockoutsGrow, LimiterAssumption
  <2> QED BY <1>0, <1>4, <1>5, <2>2, <2>3, <2>4 DEF Less
<1> QED BY <1>1, <1>4, <1>6

LEMMA NothingIsOwedAtFirst == NewRecord \in AttemptRecord /\ Owing(NewRecord)
BY LimiterAssumption DEF NewRecord, AttemptRecord, Owing

LEMMA LimiterStep == LimiterInv /\ [LimiterNext]_limiterVars => LimiterInv'
<1> SUFFICES ASSUME LimiterInv, [LimiterNext]_limiterVars PROVE LimiterInv'
  OBVIOUS
<1>0. /\ record \in [Source -> AttemptRecord] /\ tracked \subseteq Source
      /\ Cardinality(tracked) \in Nat /\ Cardinality(tracked) <= MaxTracked
      /\ colder \subseteq tracked \X tracked /\ attempt \in [Attempt -> Source \cup {NoSource}]
      /\ MaxTracked \in Nat
      /\ \A s \in Source \ tracked : record[s] = NewRecord
      /\ \A s \in Source : Owing(record[s])
  BY FS_CardinalityType, LimiterAssumption DEF LimiterInv, LimiterTypeOK
<1>1. ASSUME NEW a \in Attempt, NEW forwarded \in Forwarded, Ask(a, SourceOf(forwarded))
      PROVE  LimiterInv'
  <2> DEFINE s == SourceOf(forwarded)
  <2>1. s \in Source
    BY SourcesAreSources
  <2> HIDE DEF s
  <2>2. Ask(a, s)
    BY <1>1 DEF s
  <2>3. attempt' \in [Attempt -> Source \cup {NoSource}] /\ record' = record
    BY <1>0, <2>1, <2>2 DEF Ask
  <2>4. CASE s \in tracked
    <3>1. SeenNow(tracked, s)
      BY <2>2, <2>4 DEF Ask
    <3>2. tracked' = tracked
      BY <2>4, <3>1 DEF SeenNow
    <3>3. IsFiniteSet(tracked') /\ colder' \subseteq tracked' \X tracked' /\ SeenInOrder'
      BY <2>1, <3>1, SeeingKeepsOrder
    <3> QED BY <1>0, <2>3, <3>2, <3>3 DEF LimiterInv, LimiterTypeOK, Owing
  <2>5. CASE s \notin tracked
    BY <1>0, <2>2, <2>3, <2>5 DEF Ask, LimiterInv, LimiterTypeOK, SeenInOrder, Owing
  <2> QED BY <2>4, <2>5
<1>2. ASSUME NEW a \in Attempt, Fail(a)
      PROVE  LimiterInv'
  <2> DEFINE s == attempt[a]
  <2>1. s \in Source
    BY <1>0, <1>2 DEF Fail
  <2>2. attempt' \in [Attempt -> Source \cup {NoSource}]
    BY <1>0, <1>2 DEF Fail
  <2>3. CASE s \in tracked
    <3>1. SeenNow(tracked, s) /\ record' = [record EXCEPT ![s] = AfterFailure(record[s])]
      BY <1>2, <2>3 DEF Fail
    <3>2. AfterFailure(record[s]) \in AttemptRecord /\ Owing(AfterFailure(record[s]))
      BY <1>0, <2>1, FailureAdds
    <3>3. tracked' = tracked
      BY <2>3, <3>1 DEF SeenNow
    <3>4. IsFiniteSet(tracked') /\ colder' \subseteq tracked' \X tracked' /\ SeenInOrder'
      BY <2>1, <3>1, SeeingKeepsOrder
    <3> HIDE DEF s
    <3>5. \A t \in Source : record'[t] = IF t = s THEN AfterFailure(record[s]) ELSE record[t]
      BY <1>0, <3>1
    <3>6. record' \in [Source -> AttemptRecord]
      BY <1>0, <3>1, <3>2
    <3>7. \A t \in Source : Owing(record[t])'
      BY <1>0, <3>2, <3>5 DEF Owing
    <3>8. \A t \in Source \ tracked : record'[t] = NewRecord
      BY <1>0, <2>3, <3>5
    <3> QED BY <1>0, <2>2, <3>3, <3>4, <3>6, <3>7, <3>8 DEF LimiterInv, LimiterTypeOK
  <2>4. CASE s \notin tracked
    <3>1. /\ SeenNow(Kept, s)
          /\ record' = [t \in Source |-> IF t = s THEN AfterFailure(NewRecord)
                                         ELSE IF t \in Kept THEN record[t] ELSE NewRecord]
      BY <1>2, <2>4 DEF Fail
    <3>2. AfterFailure(NewRecord) \in AttemptRecord /\ Owing(AfterFailure(NewRecord))
      BY FailureAdds, NothingIsOwedAtFirst
    <3>3. Kept \subseteq tracked /\ IsFiniteSet(Kept) /\ Cardinality(Kept) \in Nat /\ Cardinality(Kept) < MaxTracked
      BY RoomIsMade
    <3>4. tracked' \subseteq Source /\ IsFiniteSet(tracked')
          /\ colder' \subseteq tracked' \X tracked' /\ SeenInOrder'
      BY <2>1, <3>1, <3>3, SeeingKeepsOrder
    <3>5. tracked' = Kept \cup {s}
      BY <3>1 DEF SeenNow
    <3>6. Cardinality(tracked') <= MaxTracked
      <4>1. Cardinality(Kept \cup {s}) = IF s \in Kept THEN Cardinality(Kept) ELSE Cardinality(Kept) + 1
        BY <3>3, FS_AddElement
      <4> HIDE DEF s
      <4> QED BY <1>0, <3>3, <3>5, <4>1
    <3> HIDE DEF s
    <3>7. record' \in [Source -> AttemptRecord]
      BY <1>0, <3>1, <3>2, NothingIsOwedAtFirst
    <3>8. \A t \in Source : record'[t] = IF t = s THEN AfterFailure(NewRecord)
                                         ELSE IF t \in Kept THEN record[t] ELSE NewRecord
      BY <3>1
    <3>9. \A t \in Source : Owing(record[t])'
      BY <1>0, <3>2, <3>8, NothingIsOwedAtFirst DEF Owing
    <3>10. \A t \in Source \ tracked' : record'[t] = NewRecord
      BY <3>5, <3>8
    <3> QED BY <2>2, <3>4, <3>6, <3>7, <3>9, <3>10 DEF LimiterInv, LimiterTypeOK
  <2> QED BY <2>3, <2>4
<1>3. ASSUME NEW a \in Attempt, Succeed(a)
      PROVE  LimiterInv'
  <2> DEFINE s == attempt[a]
  <2>1. s \in Source
    BY <1>0, <1>3 DEF Succeed
  <2>2. /\ attempt' = [attempt EXCEPT ![a] = NoSource] /\ record' = [record EXCEPT ![s] = NewRecord]
        /\ tracked' = tracked \ {s} /\ colder' = {e \in colder : s \notin {e[1], e[2]}}
    BY <1>3 DEF Succeed
  <2> HIDE DEF s
  <2>3. attempt' \in [Attempt -> Source \cup {NoSource}] /\ record' \in [Source -> AttemptRecord]
    BY <1>0, <2>2, NothingIsOwedAtFirst
  <2>4. IsFiniteSet(tracked') /\ Cardinality(tracked') <= MaxTracked
    <3>1. IsFiniteSet(tracked') /\ Cardinality(tracked') <= Cardinality(tracked) /\ Cardinality(tracked') \in Nat
      BY <2>2, FS_Subset, FS_CardinalityType DEF LimiterInv
    <3> QED BY <1>0, <3>1
  <2>5. \A t, u : <<t, u>> \in colder' <=> <<t, u>> \in colder /\ t # s /\ u # s
    BY <2>2
  <2>6. SeenInOrder'
    BY <2>2, <2>5 DEF LimiterInv, SeenInOrder
  <2>7. colder' \subseteq tracked' \X tracked'
    BY <1>0, <2>2
  <2>8. \A t \in Source : Owing(record[t])'
    BY <1>0, <2>2, NothingIsOwedAtFirst DEF Owing
  <2>9. \A t \in Source \ tracked' : record'[t] = NewRecord
    BY <1>0, <2>2
  <2> QED BY <1>0, <2>2, <2>3, <2>4, <2>6, <2>7, <2>8, <2>9 DEF LimiterInv, LimiterTypeOK
<1>4. ASSUME NEW a \in Attempt, Drop(a)
      PROVE  LimiterInv'
  BY <1>0, <1>4 DEF Drop, LimiterInv, LimiterTypeOK, SeenInOrder, Owing
<1>5. CASE Pass
  <2>1. record' = [s \in Source |-> IF s \in tracked THEN Aged(record[s]) ELSE record[s]]
        /\ UNCHANGED <<tracked, colder, attempt>>
    BY <1>5 DEF Pass, Aged
  <2>2. ASSUME NEW s \in Source
        PROVE  record'[s] \in AttemptRecord /\ Owing(record'[s])
    <3>1. Aged(record[s]) \in AttemptRecord /\ Owing(Aged(record[s]))
      BY <1>0, TimePays
    <3> QED BY <1>0, <2>1, <3>1
  <2>3. record' \in [Source -> AttemptRecord]
    BY <2>1, <2>2
  <2> QED BY <1>0, <2>1, <2>2, <2>3 DEF LimiterInv, LimiterTypeOK, SeenInOrder, Owing
<1>6. CASE UNCHANGED limiterVars
  BY <1>6 DEF LimiterInv, LimiterTypeOK, SeenInOrder, Owing, limiterVars
<1> QED BY <1>1, <1>2, <1>3, <1>4, <1>5, <1>6 DEF LimiterNext

LEMMA PenaltyElapses ==
  ASSUME LimiterInv, [LimiterNext]_limiterVars, NEW s \in Source, Left(s) > 0
  PROVE  \/ Left(s)' >= Left(s)
         \/ Pass
         \/ \E a \in Attempt : attempt[a] = s /\ Succeed(a)
         \/ /\ Cardinality(tracked) = MaxTracked
            /\ s = Coldest(tracked)
            /\ \A t \in tracked : ~ Stale(record[t])
<1>0. /\ record \in [Source -> AttemptRecord] /\ tracked \subseteq Source /\ IsFiniteSet(tracked)
      /\ Cardinality(tracked) \in Nat /\ Cardinality(tracked) <= MaxTracked
      /\ attempt \in [Attempt -> Source \cup {NoSource}]
      /\ MaxTracked \in Nat /\ Throttle \in Nat /\ LongestLockout \in Nat
      /\ \A t \in Source \ tracked : record[t] = NewRecord
      /\ \A t \in Source : Owing(record[t])
  BY FS_CardinalityType, LimiterAssumption DEF LimiterInv, LimiterTypeOK
<1>1. /\ record[s].lockoutLeft \in Nat /\ record[s].throttleLeft \in Nat
      /\ Left(s) \in Nat
  BY <1>0 DEF AttemptRecord, Left
<1>2. s \in tracked /\ ~ Stale(record[s])
  BY <1>0, <1>1 DEF Left, NewRecord, Stale, Locked_out, Throttled
<1>3. CASE record'[s] = record[s]
  BY <1>1, <1>3 DEF Left
<1>4. ASSUME NEW a \in Attempt, Fail(a), record'[s] # record[s]
      PROVE  \/ Left(s)' >= Left(s)
             \/ /\ Cardinality(tracked) = MaxTracked
                /\ s = Coldest(tracked)
                /\ \A t \in tracked : ~ Stale(record[t])
  <2>1. CASE attempt[a] \in tracked
    <3>1. record' = [record EXCEPT ![attempt[a]] = AfterFailure(record[attempt[a]])]
      BY <1>4, <2>1 DEF Fail
    <3>2. s = attempt[a] /\ record'[s] = AfterFailure(record[s])
      BY <1>0, <1>4, <3>1
    <3> DEFINE f == AfterFailure(record[s])
    <3>3. /\ f \in AttemptRecord
          /\ \/ f.lockoutLeft = record[s].lockoutLeft /\ f.throttleLeft >= record[s].throttleLeft
             \/ f.lockoutLeft >= record[s].lockoutLeft /\ f.lockoutLeft >= record[s].throttleLeft
      BY <1>0, FailureAdds
    <3> HIDE DEF f
    <3>4. f.lockoutLeft \in Nat /\ f.throttleLeft \in Nat
      BY <1>0, <3>3 DEF AttemptRecord
    <3>5. record'[s] = f
      BY <3>2 DEF f
    <3> QED BY <1>1, <3>3, <3>4, <3>5 DEF Left
  <2>2. CASE attempt[a] \notin tracked
    <3>1. record' = [t \in Source |-> IF t = attempt[a] THEN AfterFailure(NewRecord)
                                      ELSE IF t \in Kept THEN record[t] ELSE NewRecord]
      BY <1>4, <2>2 DEF Fail
    <3>2. s \notin Kept
      BY <1>2, <1>4, <2>2, <3>1
    <3>3. s \in StillCounting /\ StillCounting \subseteq tracked
      BY <1>2 DEF StillCounting
    <3>4. /\ ~ (Cardinality(StillCounting) < MaxTracked)
          /\ s = Coldest(StillCounting) /\ ~ (Cardinality(tracked) < MaxTracked)
      BY <1>2, <3>2, <3>3 DEF Kept
    <3>5. /\ Cardinality(StillCounting) \in Nat /\ Cardinality(StillCounting) <= Cardinality(tracked)
          /\ Cardinality(tracked) = Cardinality(StillCounting) => tracked = StillCounting
      BY <1>0, <3>3, FS_Subset, FS_CardinalityType
    <3>6. Cardinality(tracked) = MaxTracked /\ tracked = StillCounting
      BY <1>0, <3>4, <3>5
    <3>7. \A t \in tracked : ~ Stale(record[t])
      BY <3>6 DEF StillCounting
    <3> QED BY <3>4, <3>6, <3>7
  <2> QED BY <2>1, <2>2
<1>5. ASSUME NEW a \in Attempt, Succeed(a), record'[s] # record[s]
      PROVE  attempt[a] = s
  BY <1>0, <1>5 DEF Succeed
<1>6. ASSUME NEW a \in Attempt, (\E f \in Forwarded : Ask(a, SourceOf(f))) \/ Drop(a)
      PROVE  record'[s] = record[s]
  BY <1>6 DEF Ask, Drop
<1>7. UNCHANGED limiterVars => record'[s] = record[s]
  BY DEF limiterVars
<1> QED BY <1>3, <1>4, <1>5, <1>6, <1>7 DEF LimiterNext

LEMMA LimiterInvariance == LimiterSpec => []LimiterInv
BY LimiterInitially, LimiterStep, PTL DEF LimiterSpec

-----------------------------------------------------------------------------
(* The presence checkpoint *)

\* What a departure rests on until it is stored: a write of its own that is no older.
StampUnderWay(p) ==
  \E f \in Writer : /\ writer[f].pc = "write" /\ writer[f].whose = p
                    /\ p \in writer[f].batch /\ writer[f].at >= leftAt[p]

LastSeenInv ==
  /\ LastSeenTypeOK
  /\ \A p \in Person : leftAt[p] <= clock
  /\ \A p \in Person \ (present \cup leaving \cup excused) :
       StampUnderWay(p) \/ lastSeen[p] >= leftAt[p]

\* A writer's record has its fields, idle or not.
LEMMA WriterFields ==
  ASSUME LastSeenTypeOK, NEW f \in Writer
  PROVE  /\ writer[f].at \in Nat /\ writer[f].batch \subseteq Person
         /\ writer[f].pc # "idle" => writer[f].pc \in {"write", "clear"}
BY DEF LastSeenTypeOK, NoWrite

LEMMA NewestIsNewer ==
  ASSUME NEW a \in Nat, NEW b \in Nat
  PROVE  Newest(a, b) \in Nat /\ Newest(a, b) >= a /\ Newest(a, b) >= b
BY DEF Newest

\* What an upsert does to the table.
LEMMA StampWrites ==
  ASSUME LastSeenTypeOK, NEW f \in Writer, Stamp(f), NEW p \in Person
  PROVE  /\ lastSeen'[p] \in Nat /\ lastSeen'[p] >= lastSeen[p]
         /\ p \in writer[f].batch => lastSeen'[p] >= writer[f].at
<1>1. lastSeen'[p] = IF p \in writer[f].batch
                     THEN Newest(lastSeen[p], writer[f].at) ELSE lastSeen[p]
  BY DEF Stamp
<1>2. lastSeen[p] \in Nat
  BY DEF LastSeenTypeOK
<1>3. writer[f].at \in Nat
  BY WriterFields
<1>4. LET n == Newest(lastSeen[p], writer[f].at)
      IN  n \in Nat /\ n >= lastSeen[p] /\ n >= writer[f].at
  BY <1>2, <1>3, NewestIsNewer
<1>5. CASE p \in writer[f].batch
  BY <1>1, <1>4, <1>5
<1>6. CASE p \notin writer[f].batch
  BY <1>1, <1>2, <1>6
<1> QED BY <1>5, <1>6

LEMMA LastSeenInitially == LastSeenInit => LastSeenInv
BY LastSeenAssumption DEF LastSeenInit, LastSeenInv, LastSeenTypeOK, NoWrite

LEMMA LastSeenStep == LastSeenInv /\ [LastSeenNext]_lastSeenVars => LastSeenInv'
<1> SUFFICES ASSUME LastSeenInv, [LastSeenNext]_lastSeenVars PROVE LastSeenInv'
  OBVIOUS
<1> USE DEF LastSeenInv
<1>1. ASSUME NEW p \in Person, ComeOnline(p) PROVE LastSeenInv'
  BY <1>1 DEF ComeOnline, Marked, LastSeenTypeOK, StampUnderWay
<1>2. ASSUME NEW p \in Person, LastDeviceGone(p) PROVE LastSeenInv'
  BY <1>2 DEF LastDeviceGone, LastSeenTypeOK, StampUnderWay
<1>3. ASSUME NEW f \in Writer, NEW p \in Person, WentOffline(f, p) PROVE LastSeenInv'
  <2>0. /\ writer[f] = NoWrite /\ p \in leaving /\ leaving' = leaving \ {p}
        /\ marked' = marked \cup {p}
        /\ writer' = [writer EXCEPT ![f] = [pc |-> "write", kind |-> "leave", whose |-> p,
                                            batch |-> marked \cup {p}, at |-> clock]]
        /\ UNCHANGED <<clock, present, leftAt, excused, lastSeen>>
    BY <1>3 DEF WentOffline, Batch, Marked
  <2>1. LastSeenTypeOK'
    BY <2>0 DEF LastSeenTypeOK
  <2>2. StampUnderWay(p)'
    BY <2>0 DEF LastSeenTypeOK, StampUnderWay
  <2>3. ASSUME NEW q \in Person, q # p, StampUnderWay(q) PROVE StampUnderWay(q)'
    BY <2>0, <2>3 DEF LastSeenTypeOK, StampUnderWay, NoWrite
  <2> QED BY <2>0, <2>1, <2>2, <2>3
<1>4. ASSUME NEW f \in Writer, BeatFlush(f) PROVE LastSeenInv'
  <2>0. /\ writer[f] = NoWrite
        /\ marked' = marked \cup present
        /\ writer' = [writer EXCEPT ![f] = [pc |-> "write", kind |-> "beat", whose |-> "none",
                                            batch |-> marked \cup present, at |-> clock]]
        /\ UNCHANGED <<clock, present, leftAt, leaving, excused, lastSeen>>
    BY <1>4 DEF BeatFlush, Batch, Marked
  <2>1. LastSeenTypeOK'
    BY <2>0 DEF LastSeenTypeOK
  <2>2. ASSUME NEW q \in Person, StampUnderWay(q) PROVE StampUnderWay(q)'
    BY <2>0, <2>2 DEF LastSeenTypeOK, StampUnderWay, NoWrite
  <2> QED BY <2>0, <2>1, <2>2
<1>5. ASSUME NEW f \in Writer, Stamp(f) PROVE LastSeenInv'
  <2>0. \A p \in Person : /\ lastSeen'[p] \in Nat /\ lastSeen'[p] >= lastSeen[p]
                          /\ p \in writer[f].batch => lastSeen'[p] >= writer[f].at
    BY <1>5, StampWrites
  <2>1. LastSeenTypeOK'
    <3> DEFINE spent == [pc |-> "clear", kind |-> writer[f].kind, whose |-> "none",
                         batch |-> {}, at |-> 0]
               records == [pc : {"write", "clear"}, kind : {"leave", "beat"},
                           whose : Person \cup {"none"}, batch : SUBSET Person, at : Nat]
    <3>1. spent \in records
      BY <1>5 DEF Stamp, LastSeenTypeOK, NoWrite
    <3>2. writer' = [writer EXCEPT ![f] = spent]
      BY <1>5 DEF Stamp
    <3>3. lastSeen' \in [Person -> Nat]
      <4>1. lastSeen' = [p \in Person |-> IF p \in writer[f].batch
                                          THEN Newest(lastSeen[p], writer[f].at) ELSE lastSeen[p]]
        BY <1>5 DEF Stamp
      <4> QED BY <2>0, <4>1
    <3>4. writer' \in [Writer -> records \cup {NoWrite}]
      <4> HIDE DEF spent, records
      <4>1. writer \in [Writer -> records \cup {NoWrite}]
        BY DEF LastSeenTypeOK, records
      <4> QED BY <3>1, <3>2, <4>1
    <3> QED BY <1>5, <3>3, <3>4 DEF Stamp, LastSeenTypeOK
  <2>2. ASSUME NEW q \in Person, StampUnderWay(q) PROVE StampUnderWay(q)' \/ lastSeen'[q] >= leftAt[q]
    <3>1. PICK g \in Writer : /\ writer[g].pc = "write" /\ writer[g].whose = q
                              /\ q \in writer[g].batch /\ writer[g].at >= leftAt[q]
      BY <2>2 DEF StampUnderWay
    <3>2. CASE g = f
      BY <2>0, <3>1, <3>2, WriterFields DEF LastSeenTypeOK
    <3>3. CASE g # f
      BY <1>5, <3>1, <3>3 DEF Stamp, StampUnderWay, LastSeenTypeOK
    <3> QED BY <3>2, <3>3
  <2>3. \A q \in Person : lastSeen[q] >= leftAt[q] => lastSeen'[q] >= leftAt[q]
    BY <2>0 DEF LastSeenTypeOK
  <2> QED BY <1>5, <2>1, <2>2, <2>3 DEF Stamp
<1>6. ASSUME NEW f \in Writer, StampFails(f) PROVE LastSeenInv'
  <2>1. LastSeenTypeOK'
    BY <1>6 DEF StampFails, LastSeenTypeOK
  <2>2. ASSUME NEW q \in Person \ (present \cup leaving), q \notin excused', StampUnderWay(q)
         PROVE  StampUnderWay(q)'
    BY <1>6, <2>2 DEF StampFails, LastSeenTypeOK, StampUnderWay
  <2> QED BY <1>6, <2>1, <2>2 DEF StampFails
<1>7. ASSUME NEW f \in Writer, ClearMarks(f) PROVE LastSeenInv'
  <2>1. LastSeenTypeOK'
    BY <1>7 DEF ClearMarks, LastSeenTypeOK
  <2>2. ASSUME NEW q \in Person, StampUnderWay(q) PROVE StampUnderWay(q)'
    BY <1>7, <2>2 DEF ClearMarks, LastSeenTypeOK, StampUnderWay
  <2> QED BY <1>7, <2>1, <2>2 DEF ClearMarks
<1>8. CASE NextInstant
  BY <1>8, LastSeenAssumption DEF NextInstant, LastSeenTypeOK, StampUnderWay
<1>9. CASE NodeRestart
  BY <1>9 DEF NodeRestart, LastSeenTypeOK
<1>10. CASE UNCHANGED lastSeenVars
  BY <1>10 DEF lastSeenVars, LastSeenTypeOK, StampUnderWay
<1> QED BY <1>1, <1>2, <1>3, <1>4, <1>5, <1>6, <1>7, <1>8, <1>9, <1>10 DEF LastSeenNext

LEMMA LastSeenMeans == LastSeenInv => DeparturesAreStamped
BY DEF LastSeenInv, DeparturesAreStamped, StampUnderWay, LastSeenTypeOK

\* The stored instant of a User never moves back, in whatever order the upserts commit.
LEMMA LastSeenForward ==
  LastSeenInv /\ [LastSeenNext]_lastSeenVars => \A p \in Person : lastSeen'[p] >= lastSeen[p]
<1> SUFFICES ASSUME LastSeenInv, [LastSeenNext]_lastSeenVars, NEW p \in Person
             PROVE  lastSeen'[p] >= lastSeen[p]
  OBVIOUS
<1>1. ASSUME NEW f \in Writer, Stamp(f) PROVE lastSeen'[p] >= lastSeen[p]
  BY <1>1, StampWrites DEF LastSeenInv
<1>2. lastSeen[p] \in Nat
  BY DEF LastSeenInv, LastSeenTypeOK
<1>3. CASE UNCHANGED lastSeen
  BY <1>2, <1>3
<1> QED BY <1>1, <1>3 DEF LastSeenNext, lastSeenVars, ComeOnline, LastDeviceGone, WentOffline,
                          BeatFlush, StampFails, ClearMarks, NextInstant, NodeRestart

LEMMA LastSeenInvariance == LastSeenSpec => []LastSeenInv
BY LastSeenInitially, LastSeenStep, PTL DEF LastSeenSpec

-----------------------------------------------------------------------------
(* Sync Cursors *)

\* A flush carries the whole buffer, which nobody adds to meanwhile; a connection that is
\* down was told nothing.
CursorInv ==
  /\ CursorTypeOK
  /\ ReportsAreKept
  /\ \A c \in Wire : /\ wire[c] = "down" => told[c] = 0
                     /\ flush[c] > 0 => flush[c] = buffer[c]

LEMMA FurtherIsFurther ==
  ASSUME NEW a \in 0 .. Position, NEW b \in 0 .. Position
  PROVE  /\ Further(a, b) \in 0 .. Position
         /\ Further(a, b) >= a /\ Further(a, b) >= b
         /\ Further(a, b) \in {a, b}
BY CursorAssumption DEF Further

LEMMA CursorInitially == CursorInit => CursorInv
BY CursorAssumption DEF CursorInit, CursorInv, CursorTypeOK, ReportsAreKept

LEMMA CursorStep == CursorInv /\ [CursorNext]_cursorVars => CursorInv'
<1> SUFFICES ASSUME CursorInv, [CursorNext]_cursorVars PROVE CursorInv'
  OBVIOUS
<1> USE CursorAssumption DEF CursorInv, CursorTypeOK, ReportsAreKept
<1>1. CASE ConsumeMore
  BY <1>1 DEF ConsumeMore
<1>2. CASE CursorRestart
  BY <1>2 DEF CursorRestart
<1>3. ASSUME NEW c \in Wire, OpenWire(c) PROVE CursorInv'
  BY <1>3 DEF OpenWire
<1>4. ASSUME NEW c \in Wire, CloseWire(c) PROVE CursorInv'
  BY <1>4 DEF CloseWire
<1>5. ASSUME NEW c \in Wire, WireDown(c) PROVE CursorInv'
  BY <1>5 DEF WireDown
<1>6. ASSUME NEW c \in Wire, NEW seq \in 1 .. Position, RecordCursor(c, seq) PROVE CursorInv'
  BY <1>6 DEF RecordCursor, Coalesced, Further
<1>7. ASSUME NEW c \in Wire, FlushStarts(c) PROVE CursorInv'
  BY <1>7 DEF FlushStarts
<1>8. ASSUME NEW c \in Wire, FlushCommits(c) PROVE CursorInv'
  <2>1. cursor' \in 0 .. Position /\ cursor' >= cursor /\ cursor' >= flush[c] /\ cursor' \in {cursor, flush[c]}
    BY <1>8, FurtherIsFurther DEF FlushCommits, Stored
  <2> QED BY <1>8, <2>1 DEF FlushCommits
<1>9. ASSUME NEW c \in Wire, FlushFails(c) PROVE CursorInv'
  <2>1. cursor' \in 0 .. Position /\ cursor' >= cursor /\ cursor' \in {cursor, flush[c]}
    <3>1. cursor \in 0 .. Position /\ flush[c] \in 0 .. Position
      OBVIOUS
    <3>2. cursor' = cursor \/ cursor' = Further(cursor, flush[c])
      BY <1>9 DEF FlushFails, Stored
    <3>3. LET k == Further(cursor, flush[c])
          IN  k \in 0 .. Position /\ k >= cursor /\ k \in {cursor, flush[c]}
      BY <3>1, FurtherIsFurther
    <3>4. cursor >= cursor
      BY <3>1
    <3> QED BY <3>1, <3>2, <3>3, <3>4
  <2> QED BY <1>9, <2>1 DEF FlushFails
<1>10. CASE UNCHANGED cursorVars
  BY <1>10 DEF cursorVars
<1> QED BY <1>1, <1>2, <1>3, <1>4, <1>5, <1>6, <1>7, <1>8, <1>9, <1>10 DEF CursorNext

\* The stored cursor never moves back, whichever of two flushes commits last.
LEMMA CursorForward == CursorInv /\ [CursorNext]_cursorVars => cursor' >= cursor
<1> SUFFICES ASSUME CursorInv, [CursorNext]_cursorVars PROVE cursor' >= cursor
  OBVIOUS
<1> USE DEF CursorInv, CursorTypeOK
<1>1. ASSUME NEW c \in Wire, FlushCommits(c) \/ FlushFails(c) PROVE cursor' >= cursor
  <2>1. cursor \in 0 .. Position /\ flush[c] \in 0 .. Position
    OBVIOUS
  <2>2. cursor' = cursor \/ cursor' = Further(cursor, flush[c])
    BY <1>1 DEF FlushCommits, FlushFails, Stored
  <2>3. Further(cursor, flush[c]) >= cursor
    BY <2>1, FurtherIsFurther
  <2>4. cursor >= cursor
    BY <2>1, CursorAssumption
  <2> QED BY <2>2, <2>3, <2>4
<1>2. CASE UNCHANGED cursor
  BY <1>2, CursorAssumption
<1> QED BY <1>1, <1>2 DEF CursorNext, cursorVars, ConsumeMore, CursorRestart, OpenWire, CloseWire,
                          WireDown, RecordCursor, FlushStarts

LEMMA CursorInvariance == CursorSpec => []CursorInv
BY CursorInitially, CursorStep, PTL DEF CursorSpec

-----------------------------------------------------------------------------
(* Direct Conversations *)

AtWork(o) == opener[o].pc # "idle"
KeyOf(o) == DirectKey(opener[o].by, opener[o].peer)

\* A key belongs to one row and is a pair; only its two Users are members; a request that
\* has an id works on the row of its own pair, and what was answered is in the tables.
KeysAreUnique == \A i, j \in Ulid : directKey[i] = directKey[j] /\ directKey[i] # NoPair => i = j
KeysArePairs == \A i \in Ulid : directKey[i] # NoPair => \E u, v \in Peer : directKey[i] = {u, v}
MembersAreOfTheKey == \A i \in Ulid : joined[i] \subseteq directKey[i]
OpenersHoldTheirRow ==
  \A o \in Opener :
    /\ AtWork(o) => opener[o].by \in Peer /\ opener[o].peer \in Peer /\ opener[o].by # opener[o].peer
    /\ opener[o].pc \in {"join", "answer"} => opener[o].id \in Ulid /\ directKey[opener[o].id] = KeyOf(o)
    /\ opener[o].pc = "answer" => KeyOf(o) \subseteq joined[opener[o].id]
AnsweredIsStored ==
  \A a \in opened : a[1] # a[2] /\ directKey[a[3]] = {a[1], a[2]} /\ {a[1], a[2]} \subseteq joined[a[3]]

DirectInv ==
  /\ DirectTypeOK
  /\ KeysAreUnique /\ KeysArePairs /\ MembersAreOfTheKey
  /\ OpenersHoldTheirRow /\ AnsweredIsStored

LEMMA DirectInitially == DirectInit => DirectInv
BY DEF DirectInit, DirectInv, DirectTypeOK, KeysAreUnique, KeysArePairs, MembersAreOfTheKey,
       OpenersHoldTheirRow, AnsweredIsStored, AtWork, NotOpening, NoPair, NoUlid

LEMMA DirectStep == DirectInv /\ [DirectNext]_directVars => DirectInv'
<1> SUFFICES ASSUME DirectInv, [DirectNext]_directVars PROVE DirectInv'
  OBVIOUS
<1>0. /\ DirectTypeOK /\ KeysAreUnique /\ KeysArePairs /\ MembersAreOfTheKey
      /\ OpenersHoldTheirRow /\ AnsweredIsStored
  BY DEF DirectInv
<1>a. UNCHANGED <<directKey, joined>> => KeysAreUnique' /\ KeysArePairs' /\ MembersAreOfTheKey'
  BY <1>0 DEF KeysAreUnique, KeysArePairs, MembersAreOfTheKey
<1>1. ASSUME NEW o \in Opener, NEW by \in Peer, NEW peer \in Peer, FindPeers(o, by, peer) PROVE DirectInv'
  <2>1. DirectTypeOK'
    BY <1>0, <1>1 DEF FindPeers, DirectTypeOK, NotOpening
  <2>2. OpenersHoldTheirRow'
    BY <1>0, <1>1 DEF FindPeers, DirectTypeOK, NotOpening, OpenersHoldTheirRow, AtWork, KeyOf
  <2>3. AnsweredIsStored'
    BY <1>0, <1>1 DEF FindPeers, AnsweredIsStored
  <2> QED BY <1>1, <1>a, <2>1, <2>2, <2>3 DEF FindPeers, DirectInv
<1>2. ASSUME NEW o \in Opener, InsertDirect(o) PROVE DirectInv'
  <2> DEFINE key == KeyOf(o)
  <2>0. opener[o].pc = "insert" /\ AtWork(o) /\ opener[o].by \in Peer /\ opener[o].peer \in Peer
        /\ UNCHANGED <<joined, opened>>
    BY <1>0, <1>2 DEF InsertDirect, OpenersHoldTheirRow, AtWork
  <2>1. CASE WithKey(key) # {} /\ UNCHANGED directKey /\ opener' = [opener EXCEPT ![o].pc = "find"]
    <3>1. DirectTypeOK'
      BY <1>0, <2>0, <2>1 DEF DirectTypeOK
    <3>2. OpenersHoldTheirRow'
      BY <1>0, <2>0, <2>1 DEF DirectTypeOK, OpenersHoldTheirRow, AtWork, KeyOf
    <3>3. AnsweredIsStored'
      BY <1>0, <2>0, <2>1 DEF AnsweredIsStored
    <3> QED BY <1>a, <2>0, <2>1, <3>1, <3>2, <3>3 DEF DirectInv
  <2>2. CASE \E i \in WithKey(NoPair) :
               /\ WithKey(key) = {}
               /\ directKey' = [directKey EXCEPT ![i] = key]
               /\ opener' = [opener EXCEPT ![o].pc = "join", ![o].id = i, ![o].created = TRUE]
    <3>1. PICK i \in Ulid : /\ directKey[i] = NoPair /\ WithKey(key) = {}
                            /\ directKey' = [directKey EXCEPT ![i] = key]
                            /\ opener' = [opener EXCEPT ![o].pc = "join", ![o].id = i, ![o].created = TRUE]
      BY <2>2 DEF WithKey
    <3>2. key \in SUBSET Peer /\ key # NoPair /\ \A j \in Ulid : directKey[j] # key
      BY <2>0, <3>1 DEF KeyOf, DirectKey, WithKey, NoPair
    <3>3. joined[i] = {}
      BY <1>0, <3>1 DEF MembersAreOfTheKey, NoPair
    <3>a. /\ opener' \in [Opener -> [pc : {"idle", "insert", "find", "join", "answer"},
                            by : Peer \cup {NoUlid}, peer : Peer \cup {NoUlid},
                            id : Ulid \cup {NoUlid}, created : BOOLEAN]]
          /\ \A q \in Opener : q # o => opener'[q] = opener[q]
          /\ opener'[o] = [opener[o] EXCEPT !.pc = "join", !.id = i, !.created = TRUE]
      <4>1. opener' = [opener EXCEPT ![o] = [opener[o] EXCEPT !.pc = "join", !.id = i, !.created = TRUE]]
        BY <1>0, <3>1 DEF DirectTypeOK
      <4> QED BY <1>0, <4>1 DEF DirectTypeOK
    <3>4. DirectTypeOK'
      BY <1>0, <2>0, <3>1, <3>2, <3>a DEF DirectTypeOK
    <3>5. KeysAreUnique'
      BY <1>0, <3>1, <3>2 DEF DirectTypeOK, KeysAreUnique
    <3>6. KeysArePairs'
      <4>1. key = {opener[o].by, opener[o].peer}
        BY DEF KeyOf, DirectKey
      <4> QED BY <1>0, <2>0, <3>1, <4>1 DEF DirectTypeOK, KeysArePairs
    <3>7. MembersAreOfTheKey'
      BY <1>0, <2>0, <3>1, <3>3 DEF DirectTypeOK, MembersAreOfTheKey
    <3>8. OpenersHoldTheirRow'
      <4> SUFFICES ASSUME NEW q \in Opener PROVE
            /\ AtWork(q)' => opener'[q].by \in Peer /\ opener'[q].peer \in Peer /\ opener'[q].by # opener'[q].peer
            /\ opener'[q].pc \in {"join", "answer"} =>
                 opener'[q].id \in Ulid /\ directKey'[opener'[q].id] = KeyOf(q)'
            /\ opener'[q].pc = "answer" => KeyOf(q)' \subseteq joined'[opener'[q].id]
        BY DEF OpenersHoldTheirRow
      <4>1. CASE q = o
        BY <1>0, <2>0, <3>1, <4>1 DEF DirectTypeOK, OpenersHoldTheirRow, AtWork, KeyOf
      <4>2. CASE q # o
        <5>1. opener'[q] = opener[q]
          BY <3>a, <4>2
        <5>2. opener[q].pc \in {"join", "answer"} => opener[q].id # i
          BY <1>0, <3>1 DEF OpenersHoldTheirRow, AtWork, KeyOf, DirectKey, NoPair
        <5> QED BY <1>0, <2>0, <3>1, <5>1, <5>2 DEF DirectTypeOK, OpenersHoldTheirRow, AtWork, KeyOf
      <4> QED BY <4>1, <4>2
    <3>9. AnsweredIsStored'
      <4> SUFFICES ASSUME NEW a \in opened PROVE
            a[1] # a[2] /\ directKey'[a[3]] = {a[1], a[2]} /\ {a[1], a[2]} \subseteq joined[a[3]]
        BY <2>0 DEF AnsweredIsStored
      <4>1. a[3] \in Ulid /\ a[3] # i
        BY <1>0, <3>1 DEF AnsweredIsStored, NoPair, DirectTypeOK
      <4> QED BY <1>0, <3>1, <4>1 DEF AnsweredIsStored, DirectTypeOK
    <3> QED BY <3>4, <3>5, <3>6, <3>7, <3>8, <3>9 DEF DirectInv
  <2> QED BY <1>2, <2>1, <2>2 DEF InsertDirect, KeyOf
<1>3. ASSUME NEW o \in Opener, FindByDirectKey(o) PROVE DirectInv'
  <2>1. PICK i \in Ulid : /\ directKey[i] = KeyOf(o) /\ opener[o].pc = "find"
                          /\ opener' = [opener EXCEPT ![o].pc = "join", ![o].id = i]
                          /\ UNCHANGED <<directKey, joined, opened>>
    BY <1>3 DEF FindByDirectKey, WithKey, KeyOf
  <2>2. DirectTypeOK'
    BY <1>0, <2>1 DEF DirectTypeOK
  <2>3. OpenersHoldTheirRow'
    BY <1>0, <2>1 DEF DirectTypeOK, OpenersHoldTheirRow, AtWork, KeyOf
  <2>4. AnsweredIsStored'
    BY <1>0, <2>1 DEF AnsweredIsStored
  <2> QED BY <1>a, <2>1, <2>2, <2>3, <2>4 DEF DirectInv
<1>4. ASSUME NEW o \in Opener, AddMembers(o) PROVE DirectInv'
  <2> DEFINE i == opener[o].id
  <2>1. /\ opener[o].pc = "join" /\ i \in Ulid /\ directKey[i] = KeyOf(o)
        /\ KeyOf(o) \subseteq Peer
        /\ joined' = [joined EXCEPT ![i] = @ \cup KeyOf(o)]
        /\ opener' = [opener EXCEPT ![o].pc = "answer"]
        /\ UNCHANGED <<directKey, opened>>
    BY <1>0, <1>4 DEF AddMembers, OpenersHoldTheirRow, KeyOf, DirectKey, AtWork
  <2> HIDE DEF i
  <2>2. DirectTypeOK'
    BY <1>0, <2>1 DEF DirectTypeOK
  <2>3. KeysAreUnique' /\ KeysArePairs'
    BY <1>0, <2>1 DEF KeysAreUnique, KeysArePairs
  <2>4. MembersAreOfTheKey'
    BY <1>0, <2>1 DEF DirectTypeOK, MembersAreOfTheKey
  <2>5. \A j \in Ulid : joined[j] \subseteq joined'[j]
    BY <1>0, <2>1 DEF DirectTypeOK
  <2>6. OpenersHoldTheirRow'
    <3> SUFFICES ASSUME NEW q \in Opener PROVE
          /\ AtWork(q)' => opener'[q].by \in Peer /\ opener'[q].peer \in Peer /\ opener'[q].by # opener'[q].peer
          /\ opener'[q].pc \in {"join", "answer"} =>
               opener'[q].id \in Ulid /\ directKey'[opener'[q].id] = KeyOf(q)'
          /\ opener'[q].pc = "answer" => KeyOf(q)' \subseteq joined'[opener'[q].id]
      BY DEF OpenersHoldTheirRow
    <3>1. CASE q = o
      <4>1. opener'[q].by = opener[o].by /\ opener'[q].peer = opener[o].peer /\ opener'[q].id = i
            /\ opener'[q].pc = "answer" /\ KeyOf(q)' = KeyOf(o)
        BY <1>0, <2>1, <3>1 DEF DirectTypeOK, KeyOf, i
      <4>2. KeyOf(o) \subseteq joined'[i]
        BY <1>0, <2>1 DEF DirectTypeOK
      <4> QED BY <1>0, <2>1, <4>1, <4>2 DEF OpenersHoldTheirRow, AtWork
    <3>2. CASE q # o
      <4>1. opener'[q] = opener[q] /\ KeyOf(q)' = KeyOf(q)
        BY <2>1, <3>2 DEF DirectTypeOK, KeyOf
      <4> QED BY <1>0, <2>1, <2>5, <4>1 DEF OpenersHoldTheirRow, AtWork
    <3> QED BY <3>1, <3>2
  <2>7. AnsweredIsStored'
    BY <1>0, <2>1, <2>5 DEF AnsweredIsStored, DirectTypeOK
  <2> QED BY <2>2, <2>3, <2>4, <2>6, <2>7 DEF DirectInv
<1>5. ASSUME NEW o \in Opener, AnswerOpened(o) PROVE DirectInv'
  <2> DEFINE r == opener[o]
  <2>1. /\ r.pc = "answer" /\ r.by \in Peer /\ r.peer \in Peer /\ r.id \in Ulid /\ r.by # r.peer
        /\ directKey[r.id] = {r.by, r.peer} /\ {r.by, r.peer} \subseteq joined[r.id]
        /\ opener' = [opener EXCEPT ![o] = NotOpening]
        /\ UNCHANGED <<directKey, joined>>
        /\ \A a \in opened' : a \in opened \/ a = <<r.by, r.peer, r.id>> \/ a = <<r.peer, r.by, r.id>>
    BY <1>0, <1>5 DEF AnswerOpened, OpenersHoldTheirRow, AtWork, KeyOf, DirectKey
  <2> HIDE DEF r
  <2>2. DirectTypeOK'
    BY <1>0, <2>1 DEF DirectTypeOK, NotOpening
  <2>3. OpenersHoldTheirRow'
    BY <1>0, <2>1 DEF DirectTypeOK, OpenersHoldTheirRow, NotOpening, AtWork, KeyOf
  <2>4. AnsweredIsStored'
    BY <1>0, <2>1 DEF AnsweredIsStored
  <2> QED BY <1>a, <2>1, <2>2, <2>3, <2>4 DEF DirectInv
<1>6. ASSUME NEW o \in Opener, OpenFails(o) PROVE DirectInv'
  <2>1. DirectTypeOK'
    BY <1>0, <1>6 DEF OpenFails, DirectTypeOK, NotOpening
  <2>2. OpenersHoldTheirRow'
    BY <1>0, <1>6 DEF OpenFails, DirectTypeOK, OpenersHoldTheirRow, NotOpening, AtWork, KeyOf
  <2>3. AnsweredIsStored'
    BY <1>0, <1>6 DEF OpenFails, AnsweredIsStored
  <2> QED BY <1>6, <1>a, <2>1, <2>2, <2>3 DEF OpenFails, DirectInv
<1>7. CASE UNCHANGED directVars
  BY <1>0, <1>7 DEF directVars, DirectInv, DirectTypeOK, KeysAreUnique, KeysArePairs, MembersAreOfTheKey,
                    OpenersHoldTheirRow, AnsweredIsStored, AtWork, KeyOf
<1> QED BY <1>1, <1>2, <1>3, <1>4, <1>5, <1>6, <1>7 DEF DirectNext

LEMMA DirectMeans == DirectInv => PairsShareOneConversation
<1> SUFFICES ASSUME DirectInv PROVE PairsShareOneConversation
  OBVIOUS
<1>1. ASSUME NEW a \in opened
      PROVE  <<a[3], a[2]>> \in DirectList(a[1]) /\ <<a[3], a[1]>> \in DirectList(a[2])
  BY <1>1 DEF DirectInv, DirectTypeOK, AnsweredIsStored, DirectList
<1>2. ASSUME NEW u \in Peer, NEW x \in DirectList(u), NEW y \in DirectList(u), x[2] = y[2]
      PROVE  x = y
  <2>1. /\ x = <<x[1], x[2]>> /\ y = <<y[1], y[2]>>
        /\ x[1] \in Ulid /\ y[1] \in Ulid /\ x[2] # u
        /\ u \in joined[x[1]] /\ x[2] \in joined[x[1]]
        /\ u \in joined[y[1]] /\ x[2] \in joined[y[1]]
    BY <1>2 DEF DirectList
  <2>2. ASSUME NEW i \in Ulid, u \in joined[i], x[2] \in joined[i] PROVE directKey[i] = {u, x[2]}
    <3>1. u \in directKey[i] /\ x[2] \in directKey[i]
      BY <2>2 DEF DirectInv, MembersAreOfTheKey
    <3>2. PICK v, w \in Peer : directKey[i] = {v, w}
      BY <3>1 DEF DirectInv, KeysArePairs, NoPair
    <3> QED BY <2>1, <3>1, <3>2
  <2>3. x[1] = y[1]
    BY <2>1, <2>2 DEF DirectInv, KeysAreUnique, NoPair
  <2> QED BY <1>2, <2>1, <2>3
<1> QED BY <1>1, <1>2 DEF PairsShareOneConversation

LEMMA DirectInvariance == DirectSpec => []DirectInv
BY DirectInitially, DirectStep, PTL DEF DirectSpec

-----------------------------------------------------------------------------
(* History pages *)

\* What a walk has got so far is one run of Sequence Numbers, that ends where the walk is
\* to go on.
OneRun(w) ==
  /\ w.way = "none" => ~ w.more
  /\ w.way = "before" =>
       /\ w.from = 0 /\ w.upto <= newest
       /\ IF w.more THEN \/ w.cursor = NoCursor /\ w.got = {}
                         \/ w.cursor \in 1 .. w.upto /\ w.got = w.cursor .. w.upto
          ELSE w.got = 1 .. w.upto
  /\ w.way = "after" =>
       IF w.more THEN w.cursor \in w.from .. newest /\ w.got = (w.from + 1) .. w.cursor
       ELSE w.got = (w.from + 1) .. w.upto

HistoryInv == HistoryTypeOK /\ \A r \in Reader : OneRun(walk[r])

LEMMA PagesAreSized ==
  ASSUME NEW limit \in Limit
  PROVE  PageSize(limit) \in 1 .. MaxPage
BY HistoryAssumption DEF PageSize, NoLimit

\* The rows an index scan returns from the end of a run, and from its start.
LEMMA HighestOfRun ==
  ASSUME NEW a \in Int, NEW b \in Int, NEW n \in Nat
  PROVE  Highest(a .. b, n) = {s \in a .. b : b - s < n}
<1>1. ASSUME NEW s \in a .. b
      PROVE  Cardinality({x \in a .. b : x > s}) = b - s
  <2>1. {x \in a .. b : x > s} = (s + 1) .. b
    OBVIOUS
  <2>2. Cardinality((s + 1) .. b) = IF s + 1 > b THEN 0 ELSE b - (s + 1) + 1
    <3>1. s + 1 \in Int
      OBVIOUS
    <3> QED BY <3>1, FS_Interval
  <2>3. Cardinality({x \in a .. b : x > s}) = Cardinality((s + 1) .. b)
    BY <2>1, Zenon
  <2> QED BY <2>2, <2>3
<1> QED BY <1>1 DEF Highest

LEMMA LowestOfRun ==
  ASSUME NEW a \in Int, NEW b \in Int, NEW n \in Nat
  PROVE  Lowest(a .. b, n) = {s \in a .. b : s - a < n}
<1>1. ASSUME NEW s \in a .. b
      PROVE  Cardinality({x \in a .. b : x < s}) = s - a
  <2>1. {x \in a .. b : x < s} = a .. (s - 1)
    OBVIOUS
  <2>2. Cardinality(a .. (s - 1)) = IF a > s - 1 THEN 0 ELSE s - 1 - a + 1
    <3>1. s - 1 \in Int
      OBVIOUS
    <3> QED BY <3>1, FS_Interval
  <2>3. Cardinality({x \in a .. b : x < s}) = Cardinality(a .. (s - 1))
    BY <2>1, Zenon
  <2> QED BY <2>2, <2>3
<1> QED BY <1>1 DEF Lowest

\* One row more than the page tells whether the run goes on beyond it.
LEMMA PageFromTheTop ==
  ASSUME NEW m \in Nat, NEW n \in Nat \ {0}, NEW found, found = Highest(1 .. m, n + 1)
  PROVE  /\ HasMore(found, n) <=> m > n
         /\ Highest(found, n) = IF m > n THEN (m - n + 1) .. m ELSE 1 .. m
<1>0. found = {s \in 1 .. m : m - s < n + 1}
  BY HighestOfRun
<1>1. CASE m > n
  <2>a. {s \in 1 .. m : m - s < n + 1} = (m - n) .. m /\ m - n \in Int
    BY <1>1
  <2>1. found = (m - n) .. m /\ m - n \in Int
    BY <1>0, <2>a, Zenon
  <2>2. Cardinality(found) = IF m - n > m THEN 0 ELSE m - (m - n) + 1
    BY <2>1, FS_Interval
  <2>3. Highest(found, n) = {s \in (m - n) .. m : m - s < n}
    BY <2>1, HighestOfRun
  <2>b. {s \in (m - n) .. m : m - s < n} = (m - n + 1) .. m
    BY <1>1
  <2>4. Highest(found, n) = (m - n + 1) .. m
    BY <2>3, <2>b, Zenon
  <2> QED BY <1>1, <2>2, <2>4 DEF HasMore
<1>2. CASE ~ (m > n)
  <2>a. {s \in 1 .. m : m - s < n + 1} = 1 .. m
    BY <1>2
  <2>1. found = 1 .. m
    BY <1>0, <2>a, Zenon
  <2>2. Cardinality(found) = IF 1 > m THEN 0 ELSE m - 1 + 1
    BY <2>1, FS_Interval
  <2>3. Highest(found, n) = {s \in 1 .. m : m - s < n}
    BY <2>1, HighestOfRun
  <2>b. {s \in 1 .. m : m - s < n} = 1 .. m
    BY <1>2
  <2>4. Highest(found, n) = 1 .. m
    BY <2>3, <2>b, Zenon
  <2> QED BY <1>2, <2>2, <2>4 DEF HasMore
<1> QED BY <1>1, <1>2

LEMMA PageFromTheBottom ==
  ASSUME NEW a \in Nat, NEW b \in Nat, a <= b, NEW n \in Nat \ {0},
         NEW found, found = Lowest((a + 1) .. b, n + 1)
  PROVE  /\ HasMore(found, n) <=> b - a > n
         /\ Lowest(found, n) = IF b - a > n THEN (a + 1) .. (a + n) ELSE (a + 1) .. b
<1>a. a + 1 \in Int /\ n + 1 \in Nat /\ a + n + 1 \in Int
  OBVIOUS
<1>0. found = {s \in (a + 1) .. b : s - (a + 1) < n + 1}
  BY <1>a, LowestOfRun
<1>1. CASE b - a > n
  <2>a. {s \in (a + 1) .. b : s - (a + 1) < n + 1} = (a + 1) .. (a + n + 1)
    BY <1>1
  <2>1. found = (a + 1) .. (a + n + 1)
    BY <1>0, <2>a, Zenon
  <2>2. Cardinality(found) = IF a + 1 > a + n + 1 THEN 0 ELSE a + n + 1 - (a + 1) + 1
    BY <1>a, <2>1, FS_Interval
  <2>3. Lowest(found, n) = {s \in (a + 1) .. (a + n + 1) : s - (a + 1) < n}
    BY <1>a, <2>1, LowestOfRun
  <2>b. {s \in (a + 1) .. (a + n + 1) : s - (a + 1) < n} = (a + 1) .. (a + n)
    BY <1>1
  <2>4. Lowest(found, n) = (a + 1) .. (a + n)
    BY <2>3, <2>b, Zenon
  <2> QED BY <1>1, <2>2, <2>4 DEF HasMore
<1>2. CASE ~ (b - a > n)
  <2>a. {s \in (a + 1) .. b : s - (a + 1) < n + 1} = (a + 1) .. b
    BY <1>2
  <2>1. found = (a + 1) .. b
    BY <1>0, <2>a, Zenon
  <2>2. Cardinality(found) = IF a + 1 > b THEN 0 ELSE b - (a + 1) + 1
    BY <1>a, <2>1, FS_Interval
  <2>3. Lowest(found, n) = {s \in (a + 1) .. b : s - (a + 1) < n}
    BY <1>a, <2>1, LowestOfRun
  <2>b. {s \in (a + 1) .. b : s - (a + 1) < n} = (a + 1) .. b
    BY <1>2
  <2>4. Lowest(found, n) = (a + 1) .. b
    BY <2>3, <2>b, Zenon
  <2> QED BY <1>2, <2>2, <2>4 DEF HasMore
<1> QED BY <1>1, <1>2

LEMMA LeastOfRun ==
  ASSUME NEW a \in Int, NEW b \in Int, a <= b
  PROVE  (CHOOSE s \in a .. b : \A x \in a .. b : s <= x) = a
OBVIOUS

LEMMA GreatestOfRun ==
  ASSUME NEW a \in Int, NEW b \in Int, a <= b
  PROVE  (CHOOSE s \in a .. b : \A x \in a .. b : s >= x) = b
OBVIOUS

LEMMA HistoryInitially == HistoryInit => HistoryInv
BY HistoryAssumption DEF HistoryInit, HistoryInv, HistoryTypeOK, OneRun, NoWalk, NoCursor

Walk == [way : {"none", "before", "after"}, cursor : NoCursor .. MaxNewest,
         got : SUBSET (1 .. MaxNewest), from : 0 .. MaxNewest,
         upto : 0 .. MaxNewest, more : BOOLEAN]

\* The step of one walk keeps the invariant when what it becomes does.
LEMMA OneWalkMoves ==
  ASSUME HistoryInv, NEW r \in Reader, NEW w \in Walk, OneRun(w),
         walk' = [walk EXCEPT ![r] = w], UNCHANGED <<newest, reads>>
  PROVE  HistoryInv'
<1>1. HistoryTypeOK'
  BY DEF HistoryInv, HistoryTypeOK, Walk
<1>2. ASSUME NEW q \in Reader
      PROVE  OneRun(walk[q])'
  <2>1. walk'[q] = IF q = r THEN w ELSE walk[q]
    BY DEF HistoryInv, HistoryTypeOK
  <2>2. OneRun(walk'[q])
    BY <2>1 DEF HistoryInv
  <2> QED BY <2>2 DEF OneRun
<1> QED BY <1>1, <1>2 DEF HistoryInv

LEMMA HistoryStep == HistoryInv /\ [HistoryNext]_historyVars => HistoryInv'
<1> SUFFICES ASSUME HistoryInv, [HistoryNext]_historyVars PROVE HistoryInv'
  OBVIOUS
<1>0. /\ newest \in 0 .. MaxNewest /\ reads \in [Reader -> BOOLEAN] /\ walk \in [Reader -> Walk]
      /\ MaxNewest \in Nat
  BY HistoryAssumption DEF HistoryInv, HistoryTypeOK, Walk
<1>1. CASE StoreMessage
  <2>1. newest' = newest + 1 /\ newest' \in 0 .. MaxNewest /\ UNCHANGED <<reads, walk>>
    BY <1>0, <1>1 DEF StoreMessage
  <2>2. ASSUME NEW r \in Reader
        PROVE  OneRun(walk[r])'
    <3> DEFINE w == walk[r]
    <3>1. w \in Walk /\ OneRun(w)
      BY <1>0 DEF HistoryInv
    <3> HIDE DEF w
    <3>2. w.upto \in Nat /\ w.from \in Nat /\ w.cursor \in Int
      BY <3>1 DEF Walk, NoCursor
    <3>3. walk'[r] = w
      BY <2>1 DEF w
    <3> QED BY <1>0, <2>1, <3>1, <3>2, <3>3 DEF OneRun
  <2> QED BY <2>1, <2>2 DEF HistoryInv, HistoryTypeOK
<1>2. ASSUME NEW r \in Reader, NEW way \in {"before", "after"}, NEW after \in {NoCursor} \cup 0 .. MaxNewest,
             StartWalk(r, way, after)
      PROVE  HistoryInv'
  <2> DEFINE w == [way |-> way, cursor |-> after, got |-> {},
                   from |-> IF way = "after" THEN after ELSE 0, upto |-> 0, more |-> TRUE]
  <2>1. walk' = [walk EXCEPT ![r] = w] /\ UNCHANGED <<newest, reads>>
    BY <1>2 DEF StartWalk
  <2>2. /\ way = "before" => after = NoCursor
        /\ way = "after" => after \in 0 .. newest
    BY <1>2 DEF StartWalk
  <2>3. w \in Walk
    BY <1>0, <2>2 DEF Walk, NoCursor
  <2>4. OneRun(w)
    BY <1>0, <2>2 DEF OneRun
  <2> HIDE DEF w
  <2> QED BY <2>1, <2>3, <2>4, OneWalkMoves
<1>3. ASSUME NEW r \in Reader, NEW limit \in Limit, PageBefore(r, limit)
      PROVE  HistoryInv'
  <2> DEFINE w == walk[r]
             n == PageSize(limit)
             found == RowsBefore(w.cursor, n + 1)
             page == Highest(found, n)
             m == IF w.cursor = NoCursor THEN newest ELSE w.cursor - 1
             c == IF HasMore(found, n) THEN CHOOSE s \in page : \A x \in page : s <= x ELSE NoCursor
             u == IF w.got = {} THEN newest ELSE w.upto
  <2>1. w \in Walk /\ OneRun(w) /\ n \in Nat \ {0}
    BY <1>0, PagesAreSized, HistoryAssumption DEF HistoryInv
  <2>2. /\ w.way = "before" /\ w.more /\ UNCHANGED <<newest, reads>>
        /\ walk' = [walk EXCEPT ![r] = Turned(w, page, HasMore(found, n), c, u)]
    BY <1>3 DEF PageBefore
  <2> DEFINE v == [way |-> "before", cursor |-> c, got |-> w.got \cup page, from |-> w.from,
                   upto |-> u, more |-> HasMore(found, n)]
  <2>3. walk' = [walk EXCEPT ![r] = v]
    BY <2>2 DEF Turned
  <2>5. /\ w.from = 0 /\ w.upto \in 0 .. newest
        /\ \/ w.cursor = NoCursor /\ w.got = {}
           \/ w.cursor \in 1 .. w.upto /\ w.got = w.cursor .. w.upto
    BY <2>1, <2>2 DEF OneRun, Walk
  <2> HIDE DEF w, n
  <2>c. ASSUME w.cursor = NoCursor /\ w.got = {}
        PROVE  m \in Nat /\ u \in 0 .. newest /\ m <= u /\ w.got = (m + 1) .. u
    BY <1>0, <2>5, <2>c
  <2>d. ASSUME w.cursor \in 1 .. w.upto /\ w.got = w.cursor .. w.upto
        PROVE  m \in Nat /\ u \in 0 .. newest /\ m <= u /\ w.got = (m + 1) .. u
    <3>1. m = w.cursor - 1 /\ w.cursor \in w.got
      BY <2>5, <2>d DEF NoCursor
    <3>2. u = w.upto
      BY <3>1
    <3> QED BY <2>5, <2>d, <3>1, <3>2
  <2>6. m \in Nat /\ u \in 0 .. newest /\ m <= u /\ w.got = (m + 1) .. u
    BY <2>5, <2>c, <2>d
  <2>7. {s \in Stream : w.cursor # NoCursor => s < w.cursor} = 1 .. m
    BY <1>0, <2>5 DEF Stream, NoCursor
  <2>8. found = Highest(1 .. m, n + 1)
    BY <2>7 DEF RowsBefore
  <2> HIDE DEF found, m
  <2>9. /\ HasMore(found, n) <=> m > n
        /\ page = IF m > n THEN (m - n + 1) .. m ELSE 1 .. m
    BY <2>1, <2>6, <2>8, PageFromTheTop
  <2>b. HasMore(found, n) \in BOOLEAN
    BY DEF HasMore
  <2> HIDE DEF page, u
  <2>10. CASE m > n
    <3>1. m - n + 1 \in 1 .. m
      BY <2>1, <2>6, <2>10
    <3>2. c = m - n + 1
      BY <2>6, <2>9, <2>10, <3>1, LeastOfRun
    <3>3. w.got \cup page = c .. u /\ c \in 1 .. u
      BY <2>6, <2>9, <2>10, <3>1, <3>2
    <3> HIDE DEF c
    <3>4. v \in Walk
      BY <1>0, <2>5, <2>6, <2>b, <3>3 DEF Walk, NoCursor
    <3>5. OneRun(v)
      BY <1>0, <2>5, <2>6, <2>9, <2>10, <3>3 DEF OneRun
    <3> HIDE DEF v
    <3> QED BY <2>2, <2>3, <3>4, <3>5, OneWalkMoves
  <2>11. CASE ~ (m > n)
    <3>1. c = NoCursor
      BY <2>9, <2>11
    <3>2. w.got \cup page = 1 .. u
      BY <2>6, <2>9, <2>11
    <3> HIDE DEF c
    <3>4. v \in Walk
      BY <1>0, <2>5, <2>6, <2>b, <3>1, <3>2 DEF Walk, NoCursor
    <3>5. OneRun(v)
      BY <1>0, <2>5, <2>6, <2>9, <2>11, <3>2 DEF OneRun
    <3> HIDE DEF v
    <3> QED BY <2>2, <2>3, <3>4, <3>5, OneWalkMoves
  <2> QED BY <2>10, <2>11
<1>4. ASSUME NEW r \in Reader, NEW limit \in Limit, PageAfter(r, limit)
      PROVE  HistoryInv'
  <2> DEFINE w == walk[r]
             n == PageSize(limit)
             found == RowsAfter(w.cursor, n + 1)
             page == Lowest(found, n)
             c == IF HasMore(found, n) THEN CHOOSE s \in page : \A x \in page : s >= x ELSE NoCursor
  <2>1. w \in Walk /\ OneRun(w) /\ n \in Nat \ {0}
    BY <1>0, PagesAreSized, HistoryAssumption DEF HistoryInv
  <2>2. /\ w.way = "after" /\ w.more /\ UNCHANGED <<newest, reads>>
        /\ walk' = [walk EXCEPT ![r] = Turned(w, page, HasMore(found, n), c, newest)]
    BY <1>4 DEF PageAfter
  <2> DEFINE v == [way |-> "after", cursor |-> c, got |-> w.got \cup page, from |-> w.from,
                   upto |-> newest, more |-> HasMore(found, n)]
  <2>3. walk' = [walk EXCEPT ![r] = v]
    BY <2>2 DEF Turned
  <2>5. /\ w.from \in 0 .. MaxNewest /\ w.cursor \in w.from .. newest
        /\ w.got = (w.from + 1) .. w.cursor
    BY <2>1, <2>2 DEF OneRun, Walk
  <2> HIDE DEF w, n
  <2>7. {s \in Stream : s > w.cursor} = (w.cursor + 1) .. newest
    BY <1>0, <2>5 DEF Stream
  <2>8. found = Lowest((w.cursor + 1) .. newest, n + 1)
    BY <2>7 DEF RowsAfter
  <2> HIDE DEF found
  <2>9. /\ HasMore(found, n) <=> newest - w.cursor > n
        /\ page = IF newest - w.cursor > n THEN (w.cursor + 1) .. (w.cursor + n) ELSE (w.cursor + 1) .. newest
    <3>1. w.cursor \in Nat /\ newest \in Nat /\ w.cursor <= newest
      BY <1>0, <2>5
    <3> QED BY <2>1, <2>8, <3>1, PageFromTheBottom
  <2>b. HasMore(found, n) \in BOOLEAN
    BY DEF HasMore
  <2> HIDE DEF page
  <2>10. CASE newest - w.cursor > n
    <3>1. w.cursor + 1 \in Int /\ w.cursor + n \in Int /\ w.cursor + 1 <= w.cursor + n
      BY <1>0, <2>1, <2>5
    <3>2. c = w.cursor + n
      BY <2>9, <2>10, <3>1, GreatestOfRun
    <3>a. w.got \cup page = (w.from + 1) .. (w.cursor + n) /\ w.cursor + n \in w.from .. newest
      BY <1>0, <2>1, <2>5, <2>9, <2>10
    <3>3. w.got \cup page = (w.from + 1) .. c /\ c \in w.from .. newest
      BY <3>2, <3>a
    <3> HIDE DEF c
    <3>4. v \in Walk
      BY <1>0, <2>5, <2>b, <3>3 DEF Walk, NoCursor
    <3>5. OneRun(v)
      BY <1>0, <2>5, <2>9, <2>10, <3>3 DEF OneRun
    <3> HIDE DEF v
    <3> QED BY <2>2, <2>3, <3>4, <3>5, OneWalkMoves
  <2>11. CASE ~ (newest - w.cursor > n)
    <3>1. c = NoCursor
      BY <2>9, <2>11
    <3>2. w.got \cup page = (w.from + 1) .. newest
      BY <1>0, <2>5, <2>9, <2>11
    <3> HIDE DEF c
    <3>4. v \in Walk
      BY <1>0, <2>5, <2>b, <3>1, <3>2 DEF Walk, NoCursor
    <3>5. OneRun(v)
      BY <1>0, <2>5, <2>9, <2>11, <3>2 DEF OneRun
    <3> HIDE DEF v
    <3> QED BY <2>2, <2>3, <3>4, <3>5, OneWalkMoves
  <2> QED BY <2>10, <2>11
<1>5. ASSUME NEW r \in Reader, PageRefused(r)
      PROVE  HistoryInv'
  <2>1. NoWalk \in Walk /\ OneRun(NoWalk)
    BY <1>0 DEF NoWalk, Walk, OneRun, NoCursor
  <2> QED BY <1>5, <2>1, OneWalkMoves DEF PageRefused
<1>6. ASSUME NEW r \in Reader, MembershipMoves(r)
      PROVE  HistoryInv'
  BY <1>0, <1>6 DEF MembershipMoves, HistoryInv, HistoryTypeOK, OneRun
<1>7. CASE UNCHANGED historyVars
  BY <1>7 DEF historyVars, HistoryInv, HistoryTypeOK, OneRun
<1> QED BY <1>1, <1>2, <1>3, <1>4, <1>5, <1>6, <1>7 DEF HistoryNext

LEMMA HistoryMeans == HistoryInv => WalksLeaveNoHole
<1> SUFFICES ASSUME HistoryInv, NEW r \in Reader
             PROVE  LET w == walk[r] IN
                    /\ w.way = "before" => \A s \in w.got : \A x \in s .. w.upto : x \in w.got
                    /\ w.way = "after" => \A s \in w.got : \A x \in (w.from + 1) .. s : x \in w.got
                    /\ w.way # "none" /\ ~ w.more => w.got = (w.from + 1) .. w.upto
  BY DEF WalksLeaveNoHole
<1> DEFINE w == walk[r]
<1>1. w \in Walk /\ OneRun(w) /\ newest \in Nat /\ MaxNewest \in Nat
  BY HistoryAssumption DEF HistoryInv, HistoryTypeOK, Walk
<1>2. w.upto \in Nat /\ w.from \in Nat /\ w.cursor \in Int /\ w.more \in BOOLEAN
      /\ w.way \in {"none", "before", "after"}
  BY <1>1 DEF Walk, NoCursor
<1> HIDE DEF w
<1>3. /\ w.way = "before" => \A s \in w.got : \A x \in s .. w.upto : x \in w.got
      /\ w.way = "after" => \A s \in w.got : \A x \in (w.from + 1) .. s : x \in w.got
      /\ w.way # "none" /\ ~ w.more => w.got = (w.from + 1) .. w.upto
  <2>1. CASE w.way = "before"
    <3>1. w.from = 0
      BY <1>1, <2>1 DEF OneRun
    <3>2. CASE w.more
      <4>1. w.got = {} \/ (w.cursor \in 1 .. w.upto /\ w.got = w.cursor .. w.upto)
        BY <1>1, <2>1, <3>2 DEF OneRun
      <4> QED BY <1>2, <2>1, <3>2, <4>1
    <3>3. CASE ~ w.more
      <4>1. w.got = 1 .. w.upto
        BY <1>1, <2>1, <3>3 DEF OneRun
      <4> QED BY <1>2, <2>1, <3>1, <4>1
    <3> QED BY <3>2, <3>3
  <2>2. CASE w.way = "after"
    <3>1. CASE w.more
      <4>1. w.got = (w.from + 1) .. w.cursor
        BY <1>1, <2>2, <3>1 DEF OneRun
      <4> QED BY <1>2, <2>2, <3>1, <4>1
    <3>2. CASE ~ w.more
      <4>1. w.got = (w.from + 1) .. w.upto
        BY <1>1, <2>2, <3>2 DEF OneRun
      <4> QED BY <1>2, <2>2, <4>1
    <3> QED BY <3>1, <3>2
  <2> QED BY <1>2, <2>1, <2>2
<1> QED BY <1>3 DEF w

LEMMA HistoryInvariance == HistorySpec => []HistoryInv
BY HistoryInitially, HistoryStep, PTL DEF HistorySpec

\* A queue whose first entry is taken, and one that another is put to.
LEMMA TakenFrom ==
  ASSUME NEW S, NEW q \in Seq(S), q # <<>>
  PROVE  /\ 1 \in DOMAIN q /\ DOMAIN q = 1 .. Len(q) /\ Len(q) \in Nat \ {0}
         /\ Head(q) = q[1] /\ q[1] \in S
         /\ Tail(q) \in Seq(S) /\ Len(Tail(q)) = Len(q) - 1
         /\ DOMAIN Tail(q) = 1 .. Len(q) - 1
         /\ \A i \in DOMAIN Tail(q) : i + 1 \in DOMAIN q /\ Tail(q)[i] = q[i + 1]
         /\ \A i \in DOMAIN q : i = 1 \/ (i - 1 \in DOMAIN Tail(q) /\ Tail(q)[i - 1] = q[i])
<1>1. Len(q) \in Nat \ {0} /\ DOMAIN q = 1 .. Len(q)
  OBVIOUS
<1>2. Head(q) = q[1] /\ q[1] \in S
  BY <1>1
<1>3. /\ Tail(q) \in Seq(S) /\ Len(Tail(q)) = Len(q) - 1
      /\ \A i \in 1 .. Len(Tail(q)) : Tail(q)[i] = q[i + 1]
  BY HeadTailProperties
<1>4. DOMAIN Tail(q) = 1 .. Len(q) - 1
  BY <1>3
<1>5. \A i \in 1 .. Len(q) - 1 : i + 1 \in DOMAIN q /\ Tail(q)[i] = q[i + 1]
  BY <1>1, <1>3
<1>6. ASSUME NEW i \in DOMAIN q, i # 1
      PROVE  i - 1 \in DOMAIN Tail(q) /\ Tail(q)[i - 1] = q[i]
  <2>1. i - 1 \in 1 .. Len(q) - 1 /\ i - 1 + 1 = i
    BY <1>1, <1>6
  <2> QED BY <1>4, <1>5, <2>1
<1> QED BY <1>1, <1>2, <1>3, <1>4, <1>5, <1>6

LEMMA PutTo ==
  ASSUME NEW S, NEW q \in Seq(S), NEW x \in S
  PROVE  /\ Append(q, x) \in Seq(S) /\ Len(Append(q, x)) = Len(q) + 1 /\ Len(q) \in Nat
         /\ DOMAIN q = 1 .. Len(q) /\ DOMAIN Append(q, x) = 1 .. Len(q) + 1
         /\ \A i \in DOMAIN q : i \in DOMAIN Append(q, x) /\ Append(q, x)[i] = q[i]
         /\ Len(q) + 1 \in DOMAIN Append(q, x) /\ Append(q, x)[Len(q) + 1] = x
         /\ \A i \in DOMAIN Append(q, x) : i \in DOMAIN q \/ i = Len(q) + 1
<1>1. Append(q, x) \in Seq(S) /\ Len(Append(q, x)) = Len(q) + 1 /\ Len(q) \in Nat
      /\ DOMAIN q = 1 .. Len(q) /\ DOMAIN Append(q, x) = 1 .. Len(q) + 1
  OBVIOUS
<1>2. ASSUME NEW i \in 1 .. Len(q) PROVE Append(q, x)[i] = q[i]
  OBVIOUS
<1>3. Append(q, x)[Len(q) + 1] = x
  OBVIOUS
<1> QED BY <1>1, <1>2, <1>3
-----------------------------------------------------------------------------
(* The replay ring *)

\* Everything that is on its way is an envelope the connection has numbered.
CopiesAreNumbered ==
  /\ previous \in 0 .. 1
  /\ ring \in Seq(Frame)
  /\ \A i \in DOMAIN frames : frames[i].s \in 1 .. sequence
  /\ \A i \in 1 .. Len(resending) - 1 : resending[i].s \in 1 .. sequence
  /\ \A i \in DOMAIN requests : requests[i].here => requests[i].p > 0

\* An envelope has arrived, was lost, or is on its way, and before anything newer.
Reached(s) == s \in held \/ \E k \in DOMAIN lost : lost[k] = s
FramesComeInOrder ==
  /\ \A s \in 1 .. sequence : Reached(s) \/ \E j \in DOMAIN frames : frames[j].s = s
  /\ \A i \in DOMAIN frames : \A s \in 1 .. frames[i].s :
       Reached(s) \/ \E j \in 1 .. i : frames[j].s = s
  /\ \A s \in 1 .. last : Reached(s)

\* Before its first envelope a client asks for nothing.
Opening ==
  last = 0 => /\ held = {} /\ requests = <<>> /\ resending = NotResuming
              /\ \A i, j \in DOMAIN frames : i < j => frames[i].s < frames[j].s

\* Whatever is on its way, or asked for, is not older than the first that was applied.
AfterTheFirst(s) == \E t \in held : t <= s
NothingOlder ==
  held # {} =>
    /\ \A i \in DOMAIN frames : AfterTheFirst(frames[i].s)
    /\ \A i \in 1 .. Len(resending) - 1 : AfterTheFirst(resending[i].s)
    /\ \A i \in DOMAIN requests : requests[i].here => AfterTheFirst(requests[i].p)

\* A hole is being filled, or has been accounted for.
UnderWay(s) ==
  \/ \E i \in DOMAIN frames : frames[i].s = s
  \/ \E i \in 1 .. Len(resending) - 1 : resending[i].s = s
  \/ \E i \in DOMAIN requests : requests[i].here /\ requests[i].p < s

HolesAreKnown ==
  \A s \in 1 .. last :
    s \in held \cup refused \/ LostTwice(s) \/ UnderWay(s) \/ \A t \in 1 .. s : t \notin held

ReplayInv ==
  /\ ReplayTypeOK /\ CopiesAreNumbered /\ FramesComeInOrder
  /\ Opening /\ NothingOlder /\ HolesAreKnown
  /\ last > 0 => last \in held

LEMMA ReplayInitially == ReplayInit => ReplayInv
BY ReplayAssumption
   DEF ReplayInit, ReplayInv, ReplayTypeOK, CopiesAreNumbered, FramesComeInOrder, Opening,
       NothingOlder, HolesAreKnown, NotResuming, Reached

LEMMA ReplayMeans == ReplayInv => ReplaysLeaveNoHole
BY DEF ReplayInv, HolesAreKnown, UnderWay, ReplaysLeaveNoHole, NotResuming

\* The sets the state is in, as facts.
LEMMA ReplayTyped ==
  ASSUME ReplayInv
  PROVE  /\ sequence \in Nat /\ MaxSent \in Nat /\ sequence <= MaxSent /\ last \in Nat /\ last <= sequence
         /\ ring \in Seq(Frame) /\ resending \in Seq(Frame) /\ frames \in Seq(Frame)
         /\ requests \in Seq([p : 0 .. MaxSent, here : BOOLEAN])
         /\ held \subseteq 1 .. sequence /\ refused \subseteq 1 .. sequence
         /\ lost \in Seq(1 .. sequence)
BY ReplayAssumption DEF ReplayInv, ReplayTypeOK, CopiesAreNumbered

\* A new envelope is numbered, recorded and queued.
LEMMA EnqueueKeeps ==
  ASSUME ReplayInv, NEW e \in {"event", "replayed", "unavailable", "fresh"}, Enqueue(e)
  PROVE  /\ sequence' \in 0 .. MaxSent /\ sequence' = sequence + 1
         /\ ring' \in Seq(Frame) /\ frames' \in Seq(Frame) /\ Len(frames') <= WireRoom
         /\ Len(ring') <= sequence' /\ Len(ring') <= (IF ReplayCapacity = 0 THEN 1 ELSE ReplayCapacity)
         /\ \A i \in DOMAIN ring' : ring'[i].s = sequence' - Len(ring') + i
         /\ DOMAIN frames' = 1 .. Len(frames) + 1
         /\ \A i \in DOMAIN frames : frames'[i] = frames[i]
         /\ frames'[Len(frames) + 1].s = sequence'
<1> DEFINE f == [s |-> sequence + 1, e |-> e]
<1>1. /\ sequence < MaxSent /\ Len(frames) < WireRoom /\ sequence' = sequence + 1
      /\ ring' = Recorded(f) /\ frames' = Append(frames, f)
  BY DEF Enqueue
<1>2. /\ sequence \in Nat /\ MaxSent \in Nat /\ ring \in Seq(Frame) /\ frames \in Seq(Frame)
      /\ ReplayCapacity \in Nat /\ WireRoom \in Nat
  BY ReplayTyped, ReplayAssumption
<1>3. f \in Frame /\ f.s = sequence + 1
  BY <1>1, <1>2 DEF Frame
<1> HIDE DEF f
<1>4. /\ Len(ring) <= sequence /\ Len(ring) <= (IF ReplayCapacity = 0 THEN 1 ELSE ReplayCapacity)
      /\ \A i \in DOMAIN ring : ring[i].s = sequence - Len(ring) + i
  BY DEF ReplayInv, ReplayTypeOK
<1>5. /\ frames' \in Seq(Frame) /\ Len(frames') = Len(frames) + 1
      /\ \A i \in 1 .. Len(frames) : frames'[i] = frames[i]
      /\ frames'[Len(frames) + 1] = f
  BY <1>1, <1>2, <1>3
<1>6. CASE Len(ring) > 0 /\ Len(ring) >= ReplayCapacity
  <2>1. ring' = Append(Tail(ring), f)
    BY <1>1, <1>6 DEF Recorded
  <2>2. /\ Tail(ring) \in Seq(Frame) /\ Len(Tail(ring)) = Len(ring) - 1
        /\ \A i \in 1 .. Len(ring) - 1 : Tail(ring)[i] = ring[i + 1]
    BY <1>2, <1>6
  <2>3. /\ ring' \in Seq(Frame) /\ Len(ring') = Len(ring)
        /\ \A i \in 1 .. Len(ring) - 1 : ring'[i] = ring[i + 1]
        /\ ring'[Len(ring)] = f
    BY <1>2, <1>3, <1>6, <2>1, <2>2
  <2>4. ASSUME NEW i \in DOMAIN ring' PROVE ring'[i].s = sequence' - Len(ring') + i
    <3>1. CASE i = Len(ring)
      BY <1>1, <1>2, <1>3, <2>3, <3>1
    <3>2. CASE i # Len(ring)
      <4>1. i \in 1 .. Len(ring) - 1 /\ i + 1 \in DOMAIN ring
        BY <1>2, <2>3, <3>2
      <4>2. ring'[i].s = sequence - Len(ring) + (i + 1)
        BY <1>4, <2>3, <4>1
      <4> QED BY <1>1, <1>2, <2>3, <4>1, <4>2
    <3> QED BY <3>1, <3>2
  <2> QED BY <1>1, <1>2, <1>3, <1>4, <1>5, <2>3, <2>4
<1>7. CASE ~ (Len(ring) > 0 /\ Len(ring) >= ReplayCapacity)
  <2>1. ring' = Append(ring, f)
    BY <1>1, <1>7 DEF Recorded
  <2>2. /\ ring' \in Seq(Frame) /\ Len(ring') = Len(ring) + 1
        /\ \A i \in 1 .. Len(ring) : ring'[i] = ring[i]
        /\ ring'[Len(ring) + 1] = f
    BY <1>2, <1>3, <2>1
  <2>3. ASSUME NEW i \in DOMAIN ring' PROVE ring'[i].s = sequence' - Len(ring') + i
    <3>1. CASE i = Len(ring) + 1
      BY <1>1, <1>2, <1>3, <2>2, <3>1
    <3>2. CASE i # Len(ring) + 1
      <4>1. i \in DOMAIN ring
        BY <1>2, <2>2, <3>2
      <4> QED BY <1>1, <1>2, <1>4, <2>2, <4>1
    <3> QED BY <3>1, <3>2
  <2> QED BY <1>1, <1>2, <1>3, <1>4, <1>5, <1>7, <2>2, <2>3
<1> QED BY <1>6, <1>7

LEMMA NothingIsASequence ==
  NotResuming \in Seq(Frame) /\ Len(NotResuming) = 0 /\ DOMAIN NotResuming = {}
BY DEF NotResuming

\* ... and everything under way stays so, if what else the step does lets it.
LEMMA EnqueueStep ==
  ASSUME ReplayInv, NEW e \in {"event", "replayed", "unavailable", "fresh"}, Enqueue(e),
         UNCHANGED <<clientSide, lost>>,
         resending' = resending \/ resending' = NotResuming,
         requests' \in Seq([p : 0 .. MaxSent, here : BOOLEAN]),
         \A i \in DOMAIN requests' : \E j \in DOMAIN requests : requests'[i] = requests[j],
         refused \subseteq refused', refused' \subseteq 1 .. sequence,
         \A n \in 1 .. last :
           UnderWay(n) => \/ n \in refused'
                          \/ \E i \in DOMAIN frames : frames[i].s = n
                          \/ \E i \in 1 .. Len(resending') - 1 : resending'[i].s = n
                          \/ \E i \in DOMAIN requests' : requests'[i].here /\ requests'[i].p < n
  PROVE  ReplayInv'
<1>0. /\ sequence \in Nat /\ MaxSent \in Nat /\ last \in Nat /\ last <= sequence
      /\ ring \in Seq(Frame) /\ frames \in Seq(Frame) /\ resending \in Seq(Frame)
      /\ requests \in Seq([p : 0 .. MaxSent, here : BOOLEAN])
      /\ held \subseteq 1 .. sequence /\ lost \in Seq(1 .. sequence)
  BY ReplayTyped
<1>1. /\ sequence' \in 0 .. MaxSent /\ sequence' = sequence + 1
      /\ ring' \in Seq(Frame) /\ frames' \in Seq(Frame) /\ Len(frames') <= WireRoom
      /\ Len(ring') <= sequence' /\ Len(ring') <= (IF ReplayCapacity = 0 THEN 1 ELSE ReplayCapacity)
      /\ \A i \in DOMAIN ring' : ring'[i].s = sequence' - Len(ring') + i
      /\ DOMAIN frames' = 1 .. Len(frames) + 1
      /\ \A i \in DOMAIN frames : frames'[i] = frames[i]
      /\ frames'[Len(frames) + 1].s = sequence'
  BY EnqueueKeeps
<1>2. previous' = previous /\ last' = last /\ held' = held /\ lost' = lost
  BY DEF clientSide
<1>a. /\ Len(frames) \in Nat /\ DOMAIN frames = 1 .. Len(frames)
      /\ \A i \in DOMAIN frames : i \in DOMAIN frames'
  BY <1>0, <1>1
<1>3. ReplayTypeOK'
  <2>1. resending' \in Seq(Frame)
    BY <1>0, NothingIsASequence
  <2>2. lost' \in Seq(1 .. sequence') /\ Len(lost') <= MaxLost
    BY <1>0, <1>1, <1>2 DEF ReplayInv, ReplayTypeOK
  <2> QED BY <1>0, <1>1, <1>2, <2>1, <2>2 DEF ReplayTypeOK
<1>4. CopiesAreNumbered'
  <2>1. \A i \in DOMAIN frames' : frames'[i].s \in 1 .. sequence'
    <3>1. ASSUME NEW i \in DOMAIN frames' PROVE frames'[i].s \in 1 .. sequence'
      <4>1. CASE i \in DOMAIN frames
        BY <1>0, <1>1, <4>1 DEF ReplayInv, CopiesAreNumbered
      <4>2. CASE i \notin DOMAIN frames
        BY <1>0, <1>1, <1>a, <4>2
      <4> QED BY <4>1, <4>2
    <3> QED BY <3>1
  <2>2. \A i \in 1 .. Len(resending') - 1 : resending'[i].s \in 1 .. sequence'
    <3>1. CASE resending' = resending
      BY <1>0, <1>1, <3>1 DEF ReplayInv, CopiesAreNumbered
    <3>2. CASE resending' = NotResuming
      BY <3>2, NothingIsASequence
    <3> QED BY <3>1, <3>2
  <2>3. \A i \in DOMAIN requests' : requests'[i].here => requests'[i].p > 0
    BY DEF ReplayInv, CopiesAreNumbered
  <2> QED BY <1>1, <1>2, <2>1, <2>2, <2>3 DEF CopiesAreNumbered, ReplayInv
<1>5. \A n : Reached(n)' <=> Reached(n)
  BY <1>2 DEF Reached
<1>6. FramesComeInOrder'
  <2>1. ASSUME NEW n \in 1 .. sequence
        PROVE  Reached(n) \/ \E j \in DOMAIN frames : frames'[j].s = n
    BY <1>1 DEF ReplayInv, FramesComeInOrder
  <2>2. ASSUME NEW n \in 1 .. sequence'
        PROVE  Reached(n) \/ \E j \in DOMAIN frames' : frames'[j].s = n
    <3>1. CASE n = sequence'
      BY <1>1, <1>a, <3>1
    <3>2. CASE n # sequence'
      BY <1>0, <1>1, <1>a, <2>1, <3>2
    <3> QED BY <3>1, <3>2
  <2>3. ASSUME NEW i \in DOMAIN frames', NEW n \in 1 .. frames'[i].s
        PROVE  Reached(n) \/ \E j \in 1 .. i : frames'[j].s = n
    <3>1. CASE i \in DOMAIN frames
      <4>1. Reached(n) \/ \E j \in 1 .. i : frames[j].s = n
        BY <1>1, <3>1 DEF ReplayInv, FramesComeInOrder
      <4> QED BY <1>1, <1>a, <3>1, <4>1
    <3>2. CASE i \notin DOMAIN frames
      <4>1. i = Len(frames) + 1
        BY <1>1, <1>a, <3>2
      <4> QED BY <1>1, <1>a, <2>2, <4>1
    <3> QED BY <3>1, <3>2
  <2>4. \A n \in 1 .. last' : Reached(n)
    BY <1>2 DEF ReplayInv, FramesComeInOrder
  <2> QED BY <1>5, <2>2, <2>3, <2>4 DEF FramesComeInOrder
<1>7. Opening'
  <2>1. SUFFICES ASSUME last = 0
                 PROVE  /\ held = {} /\ requests' = <<>> /\ resending' = NotResuming
                        /\ \A i, j \in DOMAIN frames' : i < j => frames'[i].s < frames'[j].s
    BY <1>2 DEF Opening, NotResuming
  <2>2. /\ held = {} /\ requests = <<>> /\ resending = NotResuming
        /\ \A i, j \in DOMAIN frames : i < j => frames[i].s < frames[j].s
    BY <2>1 DEF ReplayInv, Opening
  <2>3. DOMAIN requests' = {}
    <3>1. DOMAIN requests = {}
      BY <2>2
    <3> QED BY <3>1
  <2>4. requests' = <<>>
    BY <2>3
  <2>5. ASSUME NEW i \in DOMAIN frames', NEW j \in DOMAIN frames', i < j
        PROVE  frames'[i].s < frames'[j].s
    <3>1. i \in DOMAIN frames
      BY <1>1, <1>a, <2>5
    <3>2. frames[i].s \in 1 .. sequence
      BY <3>1 DEF ReplayInv, CopiesAreNumbered
    <3>3. CASE j \in DOMAIN frames
      BY <1>1, <2>2, <2>5, <3>1, <3>3
    <3>4. CASE j \notin DOMAIN frames
      <4>1. j = Len(frames) + 1
        BY <1>1, <1>a, <3>4
      <4> QED BY <1>0, <1>1, <3>1, <3>2, <4>1
    <3> QED BY <3>3, <3>4
  <2> QED BY <2>2, <2>4, <2>5
<1>8. NothingOlder'
  <2>1. SUFFICES ASSUME held # {}
                 PROVE  /\ \A i \in DOMAIN frames' : AfterTheFirst(frames'[i].s)
                        /\ \A i \in 1 .. Len(resending') - 1 : AfterTheFirst(resending'[i].s)
                        /\ \A i \in DOMAIN requests' : requests'[i].here => AfterTheFirst(requests'[i].p)
    BY <1>2 DEF NothingOlder, AfterTheFirst
  <2>2. /\ \A i \in DOMAIN frames : AfterTheFirst(frames[i].s)
        /\ \A i \in 1 .. Len(resending) - 1 : AfterTheFirst(resending[i].s)
        /\ \A i \in DOMAIN requests : requests[i].here => AfterTheFirst(requests[i].p)
    BY <2>1 DEF ReplayInv, NothingOlder
  <2>3. AfterTheFirst(sequence')
    <3>1. PICK t \in held : TRUE
      BY <2>1
    <3>2. t <= sequence'
      BY <1>0, <1>1
    <3> QED BY <3>2 DEF AfterTheFirst
  <2>4. \A i \in DOMAIN frames' : AfterTheFirst(frames'[i].s)
    <3>1. \A i \in DOMAIN frames' : i \in DOMAIN frames \/ i = Len(frames) + 1
      BY <1>1, <1>a
    <3> QED BY <1>1, <2>2, <2>3, <3>1
  <2>5. \A i \in 1 .. Len(resending') - 1 : AfterTheFirst(resending'[i].s)
    BY <2>2 DEF NotResuming
  <2>6. \A i \in DOMAIN requests' : requests'[i].here => AfterTheFirst(requests'[i].p)
    BY <2>2
  <2> QED BY <2>4, <2>5, <2>6
<1>9. HolesAreKnown'
  <2>1. ASSUME NEW n \in 1 .. last
        PROVE  n \in held \cup refused' \/ LostTwice(n) \/ UnderWay(n)' \/ \A t \in 1 .. n : t \notin held
    <3>1. n \in held \cup refused \/ LostTwice(n) \/ UnderWay(n) \/ \A t \in 1 .. n : t \notin held
      BY DEF ReplayInv, HolesAreKnown
    <3>2. UnderWay(n) => n \in refused' \/ UnderWay(n)'
      BY <1>1, <1>a DEF UnderWay
    <3> QED BY <3>1, <3>2
  <2>2. \A n : LostTwice(n)' <=> LostTwice(n)
    BY <1>2 DEF LostTwice
  <2> QED BY <1>2, <2>1, <2>2 DEF HolesAreKnown
<1>10. last' > 0 => last' \in held'
  BY <1>2 DEF ReplayInv
<1> QED BY <1>3, <1>4, <1>6, <1>7, <1>8, <1>9, <1>10 DEF ReplayInv

\* What is sent again from a position is the ring's end, from the next envelope on.
LEMMA RingEndsAfter ==
  ASSUME ReplayInv, NEW p \in Nat \ {0}, Provable(p)
  PROVE  LET a == After(p) IN
         /\ a \in Seq(Frame) /\ MaxSent > 0
         /\ \A i \in DOMAIN a : a[i].s \in 1 .. sequence /\ a[i].s > p
         /\ \A n \in p + 1 .. sequence : \E i \in DOMAIN a : a[i].s = n
<1> DEFINE first == sequence - Len(ring) + 1
           k == p - first + 1
           earlier == {i \in DOMAIN ring : ring[i].s <= p}
           a == SubSeq(ring, k + 1, Len(ring))
<1>0. /\ sequence \in Nat /\ MaxSent \in Nat /\ sequence <= MaxSent /\ ring \in Seq(Frame)
      /\ Len(ring) \in Nat /\ Len(ring) <= sequence /\ DOMAIN ring = 1 .. Len(ring)
      /\ \A i \in DOMAIN ring : ring[i].s = sequence - Len(ring) + i
  BY ReplayTyped DEF ReplayInv, ReplayTypeOK
<1>1. /\ Len(ring) > 0 /\ ring[1].s = first /\ ring[Len(ring)].s = sequence
      /\ p + 1 >= first /\ p <= sequence
  BY <1>0 DEF Provable
<1>2. first \in Nat /\ k \in 0 .. Len(ring)
  BY <1>0, <1>1
<1>3. earlier = 1 .. k
  <2>1. \A i \in DOMAIN ring : ring[i].s <= p <=> i <= k
    BY <1>0, <1>1, <1>2
  <2> HIDE DEF k
  <2> QED BY <1>0, <1>2, <2>1
<1>4. Cardinality(1 .. k) = IF 1 > k THEN 0 ELSE k - 1 + 1
  <2> HIDE DEF k
  <2> QED BY <1>2, FS_Interval
<1>5. Cardinality(earlier) = k
  <2>1. Cardinality(earlier) = Cardinality(1 .. k)
    BY <1>3, Zenon
  <2> HIDE DEF earlier, k
  <2> QED BY <1>2, <1>4, <2>1
<1>6. After(p) = a
  BY <1>5, Zenon DEF After
<1>7. /\ Len(a) = Len(ring) - k /\ a \in Seq(Frame)
      /\ \A i \in 1 .. Len(a) : a[i] = ring[k + i]
      /\ DOMAIN a = 1 .. Len(a)
  <2> HIDE DEF k
  <2>1. k + 1 \in 1 .. Len(ring) + 1 /\ k \in Nat
    BY <1>0, <1>2
  <2>2. Len(a) = Len(ring) - k
    <3>1. k + 1 \in Int /\ Len(ring) \in Int /\ \A i \in k + 1 .. Len(ring) : ring[i] \in Frame
      BY <1>0, <2>1
    <3>2. Len(a) = IF k + 1 <= Len(ring) THEN Len(ring) - (k + 1) + 1 ELSE 0
      BY <3>1, SubSeqProperties
    <3>3. k \in Nat /\ Len(ring) \in Nat /\ k <= Len(ring)
      BY <1>0, <1>2, <2>1
    <3> HIDE DEF a
    <3> QED BY <3>2, <3>3
  <2>3. \A i \in 1 .. Len(ring) - k : a[i] = ring[k + i]
    <3>1. k + 1 \in Int /\ Len(ring) \in Int /\ \A i \in k + 1 .. Len(ring) : ring[i] \in Frame
      BY <1>0, <2>1
    <3>2. \A i \in 1 .. Len(ring) - (k + 1) + 1 : a[i] = ring[k + 1 + i - 1]
      BY <3>1, SubSeqProperties
    <3>3. ASSUME NEW i \in 1 .. Len(ring) - k PROVE a[i] = ring[k + i]
      <4>1. i \in 1 .. Len(ring) - (k + 1) + 1 /\ k + 1 + i - 1 = k + i
        BY <1>0, <2>1
      <4> HIDE DEF a
      <4> QED BY <3>2, <4>1
    <3> QED BY <3>3
  <2>4. a \in Seq(Frame)
    <3>1. k + 1 \in Int /\ Len(ring) \in Int /\ \A i \in k + 1 .. Len(ring) : ring[i] \in Frame
      BY <1>0, <2>1
    <3> QED BY <3>1, SubSeqProperties
  <2>5. DOMAIN a = 1 .. Len(a)
    BY <2>4
  <2> QED BY <2>2, <2>3, <2>4, <2>5
<1> HIDE DEF a
<1>8. ASSUME NEW i \in DOMAIN a PROVE a[i].s = p + i /\ p + i \in 1 .. sequence
  <2>1. i \in 1 .. Len(ring) - k /\ k + i \in DOMAIN ring
    <3> HIDE DEF k
    <3> QED BY <1>0, <1>2, <1>7
  <2>2. a[i].s = sequence - Len(ring) + (k + i)
    BY <1>0, <1>7, <2>1
  <2> QED BY <1>0, <1>1, <1>2, <2>1, <2>2
<1>9. ASSUME NEW n \in p + 1 .. sequence PROVE \E i \in DOMAIN a : a[i].s = n
  <2>1. n - p \in DOMAIN a
    BY <1>0, <1>1, <1>2, <1>7
  <2>2. a[n - p].s = p + (n - p)
    BY <1>8, <2>1
  <2> QED BY <2>1, <2>2
<1>10. \A i \in DOMAIN a : a[i].s \in 1 .. sequence /\ a[i].s > p
  BY <1>7, <1>8
<1> QED BY <1>0, <1>1, <1>6, <1>7, <1>9, <1>10

\* The parts of the invariant that a step may disturb, when the numbers stay.
LEMMA QuietStep ==
  ASSUME ReplayInv, UNCHANGED <<sequence, ring, previous>>,
         resending' \in Seq(Frame), frames' \in Seq(Frame), Len(frames') <= WireRoom,
         requests' \in Seq([p : 0 .. MaxSent, here : BOOLEAN]),
         last' \in 0 .. sequence, held' \subseteq 1 .. sequence, refused' \subseteq 1 .. sequence,
         lost' \in Seq(1 .. sequence), Len(lost') <= MaxLost
  PROVE  ReplayTypeOK'
BY DEF ReplayInv, ReplayTypeOK

LEMMA ReplayStep == ReplayInv /\ [ReplayNext]_replayVars => ReplayInv'
<1> SUFFICES ASSUME ReplayInv, [ReplayNext]_replayVars PROVE ReplayInv'
  OBVIOUS
<1>0. /\ sequence \in Nat /\ MaxSent \in Nat /\ last \in Nat /\ last <= sequence /\ sequence <= MaxSent
      /\ ring \in Seq(Frame) /\ frames \in Seq(Frame) /\ resending \in Seq(Frame)
      /\ requests \in Seq([p : 0 .. MaxSent, here : BOOLEAN])
      /\ held \subseteq 1 .. sequence /\ refused \subseteq 1 .. sequence /\ lost \in Seq(1 .. sequence)
      /\ WireRoom \in Nat /\ MaxLost \in Nat /\ Len(frames) <= WireRoom /\ Len(lost) <= MaxLost
  BY ReplayTyped, ReplayAssumption DEF ReplayInv, ReplayTypeOK
<1>1. CASE SendEvent
  <2>1. /\ Enqueue("event") /\ UNCHANGED <<clientSide, lost>> /\ resending' = resending
        /\ requests' = requests /\ refused' = refused
    BY <1>1 DEF SendEvent
  <2>2. \A n \in 1 .. last :
           UnderWay(n) => \/ \E i \in DOMAIN frames : frames[i].s = n
                          \/ \E i \in 1 .. Len(resending') - 1 : resending'[i].s = n
                          \/ \E i \in DOMAIN requests' : requests'[i].here /\ requests'[i].p < n
    BY <2>1 DEF UnderWay
  <2>3. refused \subseteq refused' /\ refused' \subseteq 1 .. sequence
        /\ requests' \in Seq([p : 0 .. MaxSent, here : BOOLEAN])
        /\ \A i \in DOMAIN requests' : \E j \in DOMAIN requests : requests'[i] = requests[j]
    BY <1>0, <2>1
  <2> QED BY <2>1, <2>2, <2>3, EnqueueStep
<1>2. CASE Resume
  <2> DEFINE request == Head(requests)
  <2>1. /\ resending = NotResuming /\ requests # <<>> /\ requests' = Tail(requests)
        /\ UNCHANGED <<clientSide, lost>>
    BY <1>2 DEF Resume
  <2>2. /\ request \in [p : 0 .. MaxSent, here : BOOLEAN] /\ request = requests[1] /\ 1 \in DOMAIN requests
        /\ requests' \in Seq([p : 0 .. MaxSent, here : BOOLEAN])
        /\ \A i \in DOMAIN requests' : i + 1 \in DOMAIN requests /\ requests'[i] = requests[i + 1]
        /\ \A i \in DOMAIN requests : i # 1 => i - 1 \in DOMAIN requests' /\ requests'[i - 1] = requests[i]
    <3>1. requests \in Seq([p : 0 .. MaxSent, here : BOOLEAN]) /\ requests # <<>>
      BY <1>0, <2>1
    <3> DEFINE S == [p : 0 .. MaxSent, here : BOOLEAN]
    <3> HIDE DEF S
    <3>2. requests \in Seq(S)
      BY <3>1 DEF S
    <3>3. /\ request \in S /\ request = requests[1] /\ 1 \in DOMAIN requests
          /\ requests' \in Seq(S)
          /\ \A i \in DOMAIN requests' : i + 1 \in DOMAIN requests /\ requests'[i] = requests[i + 1]
          /\ \A i \in DOMAIN requests : i = 1 \/ (i - 1 \in DOMAIN requests' /\ requests'[i - 1] = requests[i])
      BY <2>1, <3>1, <3>2, TakenFrom
    <3> HIDE DEF request
    <3> QED BY <3>3 DEF S
  <2>3. /\ request.p \in 0 .. MaxSent /\ request.here \in BOOLEAN
        /\ request.here => request.p > 0
        /\ last # 0
    BY <2>1, <2>2 DEF ReplayInv, CopiesAreNumbered, Opening
  <2>4. \A i \in DOMAIN requests' : \E j \in DOMAIN requests : requests'[i] = requests[j]
    BY <2>2
  <2>5. ASSUME NEW n \in 1 .. last, UnderWay(n)
        PROVE  \/ \E i \in DOMAIN frames : frames[i].s = n
               \/ request.here /\ request.p < n
               \/ \E i \in DOMAIN requests' : requests'[i].here /\ requests'[i].p < n
    <3>1. ~ \E i \in 1 .. Len(resending) - 1 : resending[i].s = n
      BY <2>1, NothingIsASequence
    <3> QED BY <2>2, <2>5, <3>1 DEF UnderWay
  <2> HIDE DEF request
  <2>6. CASE ResumePlan(request) = "replay"
    <3>1. /\ resending' = Append(After(request.p), [s |-> MaxSent, e |-> "replayed"])
          /\ UNCHANGED <<sequence, ring, frames, refused>>
      BY <1>2, <2>6 DEF Resume, request, Enqueue
    <3>2. request.p > 0 /\ request.here /\ Provable(request.p)
      BY <2>3, <2>6 DEF ResumePlan
    <3> DEFINE a == After(request.p)
    <3>3. /\ a \in Seq(Frame) /\ MaxSent > 0
          /\ \A i \in DOMAIN a : a[i].s \in 1 .. sequence /\ a[i].s > request.p
          /\ \A n \in request.p + 1 .. sequence : \E i \in DOMAIN a : a[i].s = n
      BY <2>3, <3>2, RingEndsAfter
    <3> HIDE DEF a
    <3>4. resending' = Append(a, [s |-> MaxSent, e |-> "replayed"])
      BY <3>1 DEF a
    <3>5. [s |-> MaxSent, e |-> "replayed"] \in Frame
      BY <1>0, <3>3 DEF Frame
    <3>6. /\ resending' \in Seq(Frame) /\ Len(resending') - 1 = Len(a) /\ DOMAIN a = 1 .. Len(a)
          /\ \A i \in DOMAIN a : resending'[i] = a[i]
      BY <3>3, <3>4, <3>5
    <3>7. previous' = previous /\ last' = last /\ held' = held /\ lost' = lost
      BY <2>1 DEF clientSide
    <3>8. ReplayTypeOK'
      BY <1>0, <2>2, <3>1, <3>6, <3>7, QuietStep
    <3>9. CopiesAreNumbered'
      BY <2>4, <3>1, <3>3, <3>6, <3>7 DEF ReplayInv, CopiesAreNumbered
    <3>10. FramesComeInOrder'
      BY <3>1, <3>7 DEF ReplayInv, FramesComeInOrder, Reached
    <3>11. NothingOlder'
      <4>1. SUFFICES ASSUME held # {}
                     PROVE  /\ \A i \in DOMAIN frames : AfterTheFirst(frames[i].s)
                            /\ \A i \in DOMAIN a : AfterTheFirst(a[i].s)
                            /\ \A i \in DOMAIN requests' : requests'[i].here => AfterTheFirst(requests'[i].p)
        BY <3>1, <3>6, <3>7 DEF NothingOlder, AfterTheFirst
      <4>2. /\ \A i \in DOMAIN frames : AfterTheFirst(frames[i].s)
            /\ \A i \in DOMAIN requests : requests[i].here => AfterTheFirst(requests[i].p)
        BY <4>1 DEF ReplayInv, NothingOlder
      <4>3. AfterTheFirst(request.p)
        BY <2>2, <3>2, <4>2 DEF request
      <4>4. ASSUME NEW i \in DOMAIN a PROVE AfterTheFirst(a[i].s)
        <5>1. PICK t \in held : t <= request.p
          BY <4>3 DEF AfterTheFirst
        <5>2. t <= a[i].s
          BY <1>0, <2>3, <3>3, <5>1
        <5> QED BY <5>2 DEF AfterTheFirst
      <4> QED BY <2>4, <4>2, <4>4
    <3>12. HolesAreKnown'
      <4>1. ASSUME NEW n \in 1 .. last, UnderWay(n)
            PROVE  UnderWay(n)'
        <5>1. request.p < n => \E i \in DOMAIN a : a[i].s = n
          <6>1. request.p < n => n \in request.p + 1 .. sequence
            BY <1>0, <2>3
          <6> QED BY <3>3, <6>1
        <5> QED BY <2>5, <3>1, <3>6, <4>1, <5>1 DEF UnderWay
      <4>2. \A n : LostTwice(n)' <=> LostTwice(n)
        BY <3>7 DEF LostTwice
      <4> QED BY <3>1, <3>7, <4>1, <4>2 DEF ReplayInv, HolesAreKnown
    <3>13. Opening' /\ (last' > 0 => last' \in held')
      BY <2>3, <3>7 DEF ReplayInv, Opening
    <3> QED BY <3>8, <3>9, <3>10, <3>11, <3>12, <3>13 DEF ReplayInv
  <2>7. CASE ResumePlan(request) = "unavailable"
    <3>1. /\ Enqueue("unavailable") /\ resending' = resending
          /\ refused' = IF request.here THEN refused \cup (request.p + 1 .. sequence) ELSE refused
      BY <1>2, <2>7 DEF Resume, request
    <3>2. refused \subseteq refused' /\ refused' \subseteq 1 .. sequence
      <4>1. request.p + 1 .. sequence \subseteq 1 .. sequence
        BY <1>0, <2>3
      <4> QED BY <1>0, <3>1, <4>1
    <3>3. \A n \in 1 .. last : request.here /\ request.p < n => n \in refused'
      BY <1>0, <2>3, <3>1
    <3>4. \A n \in 1 .. last :
           UnderWay(n) => \/ n \in refused'
                          \/ \E i \in DOMAIN frames : frames[i].s = n
                          \/ \E i \in 1 .. Len(resending') - 1 : resending'[i].s = n
                          \/ \E i \in DOMAIN requests' : requests'[i].here /\ requests'[i].p < n
      BY <2>5, <3>3
    <3> QED BY <2>1, <2>2, <2>4, <3>1, <3>2, <3>4, EnqueueStep
  <2>8. CASE ResumePlan(request) = "fresh"
    <3>1. Enqueue("fresh") /\ resending' = resending /\ refused' = refused
      BY <1>2, <2>8 DEF Resume, request
    <3>2. ~ request.here
      BY <2>3, <2>8 DEF ResumePlan
    <3>3. \A n \in 1 .. last :
           UnderWay(n) => \/ n \in refused'
                          \/ \E i \in DOMAIN frames : frames[i].s = n
                          \/ \E i \in 1 .. Len(resending') - 1 : resending'[i].s = n
                          \/ \E i \in DOMAIN requests' : requests'[i].here /\ requests'[i].p < n
      BY <2>5, <3>2
    <3> QED BY <1>0, <2>1, <2>2, <2>4, <3>1, <3>3, EnqueueStep
  <2> QED BY <1>2, <2>6, <2>7, <2>8 DEF Resume, request
<1>3. CASE Resend
  <2>1. /\ Len(resending) > 1 /\ Len(frames) < WireRoom
        /\ frames' = Append(frames, Head(resending)) /\ resending' = Tail(resending)
        /\ UNCHANGED <<sequence, ring, requests, lost, refused>>
        /\ previous' = previous /\ last' = last /\ held' = held
    BY <1>3 DEF Resend, clientSide
  <2> DEFINE f == resending[1]
  <2>2. /\ f \in Frame /\ Head(resending) = f /\ 1 \in 1 .. Len(resending) - 1
        /\ resending' \in Seq(Frame) /\ Len(resending') = Len(resending) - 1
        /\ \A i \in 1 .. Len(resending) - 1 : resending'[i] = resending[i + 1]
    BY <1>0, <2>1
  <2>3. /\ frames' \in Seq(Frame) /\ Len(frames') = Len(frames) + 1 /\ Len(frames') <= WireRoom
        /\ DOMAIN frames' = 1 .. Len(frames) + 1 /\ DOMAIN frames = 1 .. Len(frames)
        /\ \A i \in DOMAIN frames : i \in DOMAIN frames' /\ frames'[i] = frames[i]
        /\ frames'[Len(frames) + 1] = f /\ Len(frames) + 1 \in DOMAIN frames'
        /\ \A i \in DOMAIN frames' : i \in DOMAIN frames \/ i = Len(frames) + 1
    BY <1>0, <2>1, <2>2
  <2>4. f.s \in 1 .. sequence
    BY <2>2 DEF ReplayInv, CopiesAreNumbered
  <2>5. \A i \in 1 .. Len(resending') - 1 : i + 1 \in 1 .. Len(resending) - 1 /\ resending'[i] = resending[i + 1]
    BY <1>0, <2>1, <2>2
  <2>6. \A i \in 1 .. Len(resending) - 1 : i = 1 \/ (i - 1 \in 1 .. Len(resending') - 1 /\ resending'[i - 1] = resending[i])
    BY <1>0, <2>1, <2>2
  <2> HIDE DEF f
  <2>7. ReplayTypeOK'
    BY <1>0, <2>1, <2>2, <2>3, QuietStep
  <2>8. CopiesAreNumbered'
    BY <2>1, <2>3, <2>4, <2>5 DEF ReplayInv, CopiesAreNumbered
  <2>9. FramesComeInOrder'
    <3>1. \A n : Reached(n)' <=> Reached(n)
      BY <2>1 DEF Reached
    <3>2. ASSUME NEW n \in 1 .. sequence
          PROVE  Reached(n) \/ \E j \in DOMAIN frames : frames'[j].s = n
      BY <2>3 DEF ReplayInv, FramesComeInOrder
    <3>3. ASSUME NEW i \in DOMAIN frames', NEW n \in 1 .. frames'[i].s
          PROVE  Reached(n) \/ \E j \in 1 .. i : frames'[j].s = n
      <4>1. CASE i \in DOMAIN frames
        <5>1. Reached(n) \/ \E j \in 1 .. i : frames[j].s = n
          BY <2>3, <4>1 DEF ReplayInv, FramesComeInOrder
        <5> QED BY <2>3, <4>1, <5>1
      <4>2. CASE i = Len(frames) + 1
        <5>1. n \in 1 .. sequence
          BY <1>0, <2>3, <2>4, <4>2
        <5> QED BY <2>3, <3>2, <4>2, <5>1
      <4> QED BY <2>3, <4>1, <4>2
    <3>4. \A n \in 1 .. last : Reached(n)
      BY DEF ReplayInv, FramesComeInOrder
    <3> QED BY <2>1, <2>3, <3>1, <3>2, <3>3, <3>4 DEF FramesComeInOrder
  <2>10. last # 0
    BY <2>1, NothingIsASequence DEF ReplayInv, Opening
  <2>11. NothingOlder'
    <3>1. SUFFICES ASSUME held # {}
                   PROVE  /\ \A i \in DOMAIN frames' : AfterTheFirst(frames'[i].s)
                          /\ \A i \in 1 .. Len(resending') - 1 : AfterTheFirst(resending'[i].s)
                          /\ \A i \in DOMAIN requests : requests[i].here => AfterTheFirst(requests[i].p)
      BY <2>1 DEF NothingOlder, AfterTheFirst
    <3>2. /\ \A i \in DOMAIN frames : AfterTheFirst(frames[i].s)
          /\ \A i \in 1 .. Len(resending) - 1 : AfterTheFirst(resending[i].s)
          /\ \A i \in DOMAIN requests : requests[i].here => AfterTheFirst(requests[i].p)
      BY <3>1 DEF ReplayInv, NothingOlder
    <3>3. AfterTheFirst(f.s)
      BY <2>2, <3>2 DEF f
    <3> QED BY <2>3, <2>5, <3>2, <3>3
  <2>12. HolesAreKnown'
    <3>1. ASSUME NEW n, UnderWay(n) PROVE UnderWay(n)'
      <4>1. CASE \E i \in DOMAIN frames : frames[i].s = n
        BY <2>3, <4>1 DEF UnderWay
      <4>2. CASE \E i \in DOMAIN requests : requests[i].here /\ requests[i].p < n
        BY <2>1, <4>2 DEF UnderWay
      <4>3. ASSUME NEW i \in 1 .. Len(resending) - 1, resending[i].s = n PROVE UnderWay(n)'
        <5>1. CASE i = 1
          BY <2>3, <4>3, <5>1 DEF UnderWay, f
        <5>2. CASE i # 1
          BY <2>6, <4>3, <5>2 DEF UnderWay
        <5> QED BY <5>1, <5>2
      <4> QED BY <3>1, <4>1, <4>2, <4>3 DEF UnderWay
    <3>2. \A n : LostTwice(n)' <=> LostTwice(n)
      BY <2>1 DEF LostTwice
    <3> QED BY <2>1, <3>1, <3>2 DEF ReplayInv, HolesAreKnown
  <2>13. Opening' /\ (last' > 0 => last' \in held')
    BY <2>1, <2>10 DEF ReplayInv, Opening
  <2> QED BY <2>7, <2>8, <2>9, <2>11, <2>12, <2>13 DEF ReplayInv
<1>4. CASE AnswerReplayed
  <2>1. /\ Len(resending) = 1 /\ Enqueue("replayed") /\ resending' = NotResuming
        /\ requests' = requests /\ refused' = refused /\ UNCHANGED <<clientSide, lost>>
    BY <1>4 DEF AnswerReplayed
  <2>2. \A n \in 1 .. last :
           UnderWay(n) => \/ \E i \in DOMAIN frames : frames[i].s = n
                          \/ \E i \in DOMAIN requests' : requests'[i].here /\ requests'[i].p < n
    BY <2>1 DEF UnderWay
  <2>3. refused \subseteq refused' /\ refused' \subseteq 1 .. sequence
        /\ requests' \in Seq([p : 0 .. MaxSent, here : BOOLEAN])
        /\ \A i \in DOMAIN requests' : \E j \in DOMAIN requests : requests'[i] = requests[j]
    BY <1>0, <2>1
  <2> QED BY <2>1, <2>2, <2>3, EnqueueStep
<1>5. CASE Consume
  <2> DEFINE f == frames[1]
  <2>1. /\ frames # <<>> /\ frames' = Tail(frames) /\ Head(frames) = f
        /\ sequence' = sequence /\ ring' = ring /\ resending' = resending /\ refused' = refused
        /\ previous' = previous /\ lost' = lost
        /\ held' = held \cup {f.s}
        /\ last' = IF f.s > last THEN f.s ELSE last
        /\ requests' = CASE last = 0 -> Append(requests, [p |-> previous, here |-> FALSE])
                         [] last > 0 /\ f.s > last + 1 -> Append(requests, [p |-> last, here |-> TRUE])
                         [] OTHER -> requests
    BY <1>0, <1>5 DEF Consume, serverSide
  <2>2. /\ Len(frames) > 0 /\ DOMAIN frames = 1 .. Len(frames) /\ 1 \in DOMAIN frames
        /\ frames' \in Seq(Frame) /\ Len(frames') = Len(frames) - 1
        /\ DOMAIN frames' = 1 .. Len(frames) - 1
        /\ \A i \in DOMAIN frames' : i + 1 \in DOMAIN frames /\ frames'[i] = frames[i + 1]
        /\ \A i \in DOMAIN frames : i = 1 \/ (i - 1 \in DOMAIN frames' /\ frames'[i - 1] = frames[i])
    <3>1. frames \in Seq(Frame) /\ frames # <<>> /\ frames' = Tail(frames)
      BY <1>0, <2>1
    <3> QED BY <3>1, TakenFrom
  <2>3. f.s \in 1 .. sequence
    BY <2>2 DEF ReplayInv, CopiesAreNumbered
  <2> HIDE DEF f
  <2>4. /\ last' \in 0 .. sequence /\ last' > 0 /\ last' \in held' /\ held' \subseteq 1 .. sequence
        /\ last' >= last
    <3>1. last > 0 => last \in held
      BY DEF ReplayInv
    <3>2. held' \subseteq 1 .. sequence
      BY <1>0, <2>1, <2>3
    <3>3. CASE f.s > last
      BY <1>0, <2>1, <2>3, <3>2, <3>3
    <3>4. CASE ~ (f.s > last)
      BY <1>0, <2>1, <2>3, <3>1, <3>2, <3>4
    <3> QED BY <3>3, <3>4
  <2>5. \/ last = 0 /\ requests' = Append(requests, [p |-> previous, here |-> FALSE])
        \/ last > 0 /\ f.s > last + 1 /\ requests' = Append(requests, [p |-> last, here |-> TRUE])
        \/ last > 0 /\ ~ (f.s > last + 1) /\ requests' = requests
    BY <1>0, <2>1
  <2>6. previous \in 0 .. MaxSent /\ last \in 0 .. MaxSent
    BY <1>0, <2>3 DEF ReplayInv, CopiesAreNumbered
  <2>7. /\ requests' \in Seq([p : 0 .. MaxSent, here : BOOLEAN])
        /\ \A i \in DOMAIN requests : i \in DOMAIN requests' /\ requests'[i] = requests[i]
        /\ \A i \in DOMAIN requests' :
             i \in DOMAIN requests \/ (requests'[i].here => last > 0 /\ requests'[i].p = last)
        /\ last > 0 /\ f.s > last + 1 =>
             \E i \in DOMAIN requests' : requests'[i].here /\ requests'[i].p = last
    <3>1. CASE requests' = requests /\ ~ (last > 0 /\ f.s > last + 1)
      BY <1>0, <3>1
    <3>2. ASSUME NEW r \in [p : 0 .. MaxSent, here : BOOLEAN], requests' = Append(requests, r)
          PROVE  /\ requests' \in Seq([p : 0 .. MaxSent, here : BOOLEAN])
                 /\ \A i \in DOMAIN requests : i \in DOMAIN requests' /\ requests'[i] = requests[i]
                 /\ \A i \in DOMAIN requests' : i \in DOMAIN requests \/ requests'[i] = r
                 /\ \E i \in DOMAIN requests' : requests'[i] = r
      <4> DEFINE S == [p : 0 .. MaxSent, here : BOOLEAN]
      <4> HIDE DEF S
      <4>1. requests \in Seq(S) /\ r \in S
        BY <1>0 DEF S
      <4>2. /\ requests' \in Seq(S)
            /\ \A i \in DOMAIN requests : i \in DOMAIN requests' /\ requests'[i] = requests[i]
            /\ \A i \in DOMAIN requests' : i \in DOMAIN requests \/ requests'[i] = r
            /\ \E i \in DOMAIN requests' : requests'[i] = r
        BY <3>2, <4>1, PutTo
      <4> QED BY <4>2 DEF S
    <3>3. CASE last = 0 /\ requests' = Append(requests, [p |-> previous, here |-> FALSE])
      <4> DEFINE r == [p |-> previous, here |-> FALSE]
      <4>1. r \in [p : 0 .. MaxSent, here : BOOLEAN] /\ ~ r.here
        BY <2>6
      <4> HIDE DEF r
      <4>2. requests' = Append(requests, r)
        BY <3>3 DEF r
      <4>3. /\ requests' \in Seq([p : 0 .. MaxSent, here : BOOLEAN])
            /\ \A i \in DOMAIN requests : i \in DOMAIN requests' /\ requests'[i] = requests[i]
            /\ \A i \in DOMAIN requests' : i \in DOMAIN requests \/ requests'[i] = r
        BY <3>2, <4>1, <4>2
      <4>4. ~ (last > 0)
        BY <3>3
      <4> QED BY <4>1, <4>3, <4>4
    <3>4. CASE last > 0 /\ requests' = Append(requests, [p |-> last, here |-> TRUE])
      <4> DEFINE r == [p |-> last, here |-> TRUE]
      <4>1. r \in [p : 0 .. MaxSent, here : BOOLEAN] /\ r.here /\ r.p = last
        BY <2>6
      <4> HIDE DEF r
      <4>2. requests' = Append(requests, r)
        BY <3>4 DEF r
      <4> QED BY <3>2, <3>4, <4>1, <4>2
    <3> QED BY <2>5, <3>1, <3>3, <3>4
  <2>8. ReplayTypeOK'
    BY <1>0, <2>1, <2>2, <2>4, <2>7, QuietStep
  <2>9. CopiesAreNumbered'
    BY <2>1, <2>2, <2>7 DEF ReplayInv, CopiesAreNumbered
  <2>10. ASSUME NEW n, Reached(n) \/ n = f.s PROVE Reached(n)'
    BY <2>1, <2>10 DEF Reached
  <2>11. \A n \in 1 .. f.s : Reached(n)'
    <3>1. ASSUME NEW n \in 1 .. f.s PROVE Reached(n)'
      <4>1. Reached(n) \/ \E j \in 1 .. 1 : frames[j].s = n
        BY <2>2 DEF ReplayInv, FramesComeInOrder, f
      <4> QED BY <2>10, <4>1 DEF f
    <3> QED BY <3>1
  <2>12. FramesComeInOrder'
    <3>1. ASSUME NEW n \in 1 .. sequence
          PROVE  Reached(n)' \/ \E j \in DOMAIN frames' : frames'[j].s = n
      <4>1. Reached(n) \/ \E j \in DOMAIN frames : frames[j].s = n
        BY DEF ReplayInv, FramesComeInOrder
      <4> QED BY <2>2, <2>10, <4>1 DEF f
    <3>2. ASSUME NEW i \in DOMAIN frames', NEW n \in 1 .. frames'[i].s
          PROVE  Reached(n)' \/ \E j \in 1 .. i : frames'[j].s = n
      <4>1. Reached(n) \/ \E j \in 1 .. i + 1 : frames[j].s = n
        BY <2>2 DEF ReplayInv, FramesComeInOrder
      <4>2. ASSUME NEW j \in 1 .. i + 1, frames[j].s = n
            PROVE  Reached(n)' \/ \E k \in 1 .. i : frames'[k].s = n
        <5>1. CASE j = 1
          BY <2>10, <4>2, <5>1 DEF f
        <5>2. CASE j # 1
          <6>1. j - 1 \in 1 .. i /\ j \in DOMAIN frames
            BY <2>2, <5>2
          <6> QED BY <2>2, <4>2, <5>2, <6>1
        <5> QED BY <5>1, <5>2
      <4> QED BY <2>10, <4>1, <4>2
    <3>3. ASSUME NEW n \in 1 .. last' PROVE Reached(n)'
      <4>1. n \in 1 .. f.s \/ n \in 1 .. last
        BY <1>0, <2>1, <2>3
      <4>2. n \in 1 .. last => Reached(n)
        BY DEF ReplayInv, FramesComeInOrder
      <4> QED BY <2>10, <2>11, <4>1, <4>2
    <3> QED BY <2>1, <3>1, <3>2, <3>3 DEF FramesComeInOrder
  <2>13. Opening'
    BY <1>0, <2>4 DEF Opening
  <2> DEFINE later(n) == \E t \in held' : t <= n
  <2>14. ASSUME NEW n \in Int, AfterTheFirst(n) \/ n >= f.s PROVE later(n)
    BY <2>1, <2>3, <2>14 DEF AfterTheFirst
  <2>15. NothingOlder'
    <3> HIDE DEF later
    <3>1. \A i \in DOMAIN frames : frames[i].s \in 1 .. sequence
      BY DEF ReplayInv, CopiesAreNumbered
    <3>2. \A i \in 1 .. Len(resending) - 1 : resending[i].s \in 1 .. sequence
      BY DEF ReplayInv, CopiesAreNumbered
    <3>3. CASE last = 0
      <4>1. /\ held = {} /\ requests = <<>> /\ resending = NotResuming
            /\ \A i, j \in DOMAIN frames : i < j => frames[i].s < frames[j].s
        BY <3>3 DEF ReplayInv, Opening
      <4>2. ASSUME NEW i \in DOMAIN frames' PROVE later(frames'[i].s)
        <5>1. frames'[i].s \in Int /\ frames'[i].s >= f.s
          <6>1. i + 1 \in DOMAIN frames /\ frames'[i] = frames[i + 1] /\ 1 \in DOMAIN frames /\ 1 < i + 1
            BY <2>2
          <6>2. frames[1].s < frames[i + 1].s /\ frames[1].s \in 1 .. sequence /\ frames[i + 1].s \in 1 .. sequence
            BY <3>1, <4>1, <6>1
          <6> QED BY <6>1, <6>2 DEF f
        <5> QED BY <2>14, <5>1
      <4>3. ~ \E i \in 1 .. Len(resending') - 1 : TRUE
        BY <2>1, <4>1, NothingIsASequence
      <4>4. DOMAIN requests = {}
        BY <4>1
      <4>5. \A i \in DOMAIN requests' : ~ requests'[i].here
        BY <2>7, <3>3, <4>4
      <4> QED BY <4>2, <4>3, <4>5 DEF NothingOlder, AfterTheFirst, later
    <3>4. CASE last # 0
      <4>1. last \in held /\ held # {}
        BY <1>0, <3>4 DEF ReplayInv
      <4>2. /\ \A i \in DOMAIN frames : AfterTheFirst(frames[i].s)
            /\ \A i \in 1 .. Len(resending) - 1 : AfterTheFirst(resending[i].s)
            /\ \A i \in DOMAIN requests : requests[i].here => AfterTheFirst(requests[i].p)
        BY <4>1 DEF ReplayInv, NothingOlder
      <4>3. ASSUME NEW i \in DOMAIN frames' PROVE later(frames'[i].s)
        BY <2>2, <2>14, <3>1, <4>2
      <4>4. ASSUME NEW i \in 1 .. Len(resending') - 1 PROVE later(resending'[i].s)
        BY <2>1, <2>14, <3>2, <4>2
      <4>5. ASSUME NEW i \in DOMAIN requests', requests'[i].here PROVE later(requests'[i].p)
        <5>1. CASE i \in DOMAIN requests
          <6>1. requests[i].p \in Int
            <7> DEFINE S == [p : 0 .. MaxSent, here : BOOLEAN]
            <7>1. \A q \in S : q.p \in Int
              BY <1>0
            <7> HIDE DEF S
            <7>2. requests \in Seq(S)
              BY <1>0 DEF S
            <7>3. requests[i] \in S
              BY <5>1, <7>2
            <7> QED BY <7>1, <7>3
          <6> QED BY <2>7, <2>14, <4>2, <4>5, <5>1, <6>1
        <5>2. CASE i \notin DOMAIN requests
          <6>1. requests'[i].p = last
            BY <2>7, <4>5, <5>2
          <6>2. AfterTheFirst(last)
            BY <1>0, <4>1 DEF AfterTheFirst
          <6> QED BY <1>0, <2>14, <6>1, <6>2
        <5> QED BY <5>1, <5>2
      <4> QED BY <4>3, <4>4, <4>5 DEF NothingOlder, AfterTheFirst, later
    <3> QED BY <3>3, <3>4
  <2>16. HolesAreKnown'
    <3>1. ASSUME NEW n \in 1 .. last'
          PROVE  \/ n \in held' \cup refused' \/ LostTwice(n)' \/ UnderWay(n)'
                 \/ \A t \in 1 .. n : t \notin held'
      <4>1. CASE n = f.s
        BY <2>1, <4>1
      <4>2. CASE n > last
        <5>1. n <= f.s
          BY <1>0, <2>1, <2>3, <4>2
        <5>2. CASE last = 0
          <6>1. held = {}
            BY <5>2 DEF ReplayInv, Opening
          <6>2. n # f.s => \A t \in 1 .. n : t \notin held'
            BY <2>1, <2>3, <5>1, <6>1
          <6> QED BY <4>1, <6>2
        <5>3. CASE last # 0 /\ n # f.s
          <6>1. last > 0 /\ f.s > last + 1
            BY <1>0, <2>3, <4>2, <5>1, <5>3
          <6>2. UnderWay(n)'
            BY <2>7, <4>2, <6>1 DEF UnderWay
          <6> QED BY <6>2
        <5> QED BY <4>1, <5>2, <5>3
      <4>3. CASE n \in 1 .. last /\ n # f.s
        <5>1. n \in held \cup refused \/ LostTwice(n) \/ UnderWay(n) \/ \A t \in 1 .. n : t \notin held
          BY <4>3 DEF ReplayInv, HolesAreKnown
        <5>2. CASE UnderWay(n)
          <6>1. ASSUME NEW i \in DOMAIN frames, frames[i].s = n PROVE UnderWay(n)'
            BY <2>2, <4>3, <6>1 DEF UnderWay, f
          <6> QED BY <2>1, <2>7, <5>2, <6>1 DEF UnderWay
        <5>3. CASE \A t \in 1 .. n : t \notin held
          <6>1. last # 0 /\ held # {}
            BY <1>0, <4>3 DEF ReplayInv
          <6>2. AfterTheFirst(f.s)
            BY <2>2, <6>1 DEF ReplayInv, NothingOlder, f
          <6>3. ~ (f.s <= n)
            BY <1>0, <2>3, <5>3, <6>2 DEF AfterTheFirst
          <6> QED BY <2>1, <2>3, <5>3, <6>3
        <5>4. LostTwice(n)' <=> LostTwice(n)
          BY <2>1 DEF LostTwice
        <5> QED BY <2>1, <5>1, <5>2, <5>3, <5>4
      <4> QED BY <1>0, <4>1, <4>2, <4>3
    <3> QED BY <3>1 DEF HolesAreKnown
  <2> QED BY <2>4, <2>8, <2>9, <2>12, <2>13, <2>15, <2>16 DEF ReplayInv
<1>6. CASE LoseFrame
  <2> DEFINE f == frames[1]
  <2>1. /\ frames # <<>> /\ frames' = Tail(frames) /\ Head(frames) = f
        /\ UNCHANGED <<sequence, ring, resending, refused, previous, last, held, requests>>
        /\ Len(lost) < MaxLost /\ lost' = Append(lost, f.s)
    BY <1>0, <1>6 DEF LoseFrame, serverSide, clientSide
  <2>2. /\ Len(frames) > 0 /\ DOMAIN frames = 1 .. Len(frames) /\ 1 \in DOMAIN frames
        /\ frames' \in Seq(Frame) /\ Len(frames') = Len(frames) - 1
        /\ DOMAIN frames' = 1 .. Len(frames) - 1
        /\ \A i \in DOMAIN frames' : i + 1 \in DOMAIN frames /\ frames'[i] = frames[i + 1]
        /\ \A i \in DOMAIN frames : i = 1 \/ (i - 1 \in DOMAIN frames' /\ frames'[i - 1] = frames[i])
    <3>1. frames \in Seq(Frame) /\ frames # <<>> /\ frames' = Tail(frames)
      BY <1>0, <2>1
    <3> QED BY <3>1, TakenFrom
  <2>3. f.s \in 1 .. sequence
    BY <2>2 DEF ReplayInv, CopiesAreNumbered
  <2>a. \A n \in 1 .. f.s : Reached(n) \/ n = f.s
    <3>1. ASSUME NEW n \in 1 .. f.s PROVE Reached(n) \/ n = f.s
      <4>1. Reached(n) \/ \E j \in 1 .. 1 : frames[j].s = n
        BY <2>2 DEF ReplayInv, FramesComeInOrder
      <4> QED BY <4>1
    <3> QED BY <3>1
  <2> HIDE DEF f
  <2>4. /\ lost' \in Seq(1 .. sequence) /\ Len(lost') = Len(lost) + 1
        /\ DOMAIN lost = 1 .. Len(lost) /\ DOMAIN lost' = 1 .. Len(lost) + 1
        /\ \A k \in DOMAIN lost : k \in DOMAIN lost' /\ lost'[k] = lost[k]
        /\ lost'[Len(lost) + 1] = f.s /\ Len(lost) + 1 \in DOMAIN lost'
    BY <1>0, <2>1, <2>3
  <2>5. ReplayTypeOK'
    BY <1>0, <2>1, <2>2, <2>4, QuietStep DEF ReplayInv, ReplayTypeOK
  <2>6. CopiesAreNumbered'
    BY <2>1, <2>2 DEF ReplayInv, CopiesAreNumbered
  <2>7. ASSUME NEW n, Reached(n) \/ n = f.s PROVE Reached(n)'
    BY <2>1, <2>4, <2>7 DEF Reached
  <2>8. FramesComeInOrder'
    <3>1. ASSUME NEW n \in 1 .. sequence
          PROVE  Reached(n)' \/ \E j \in DOMAIN frames' : frames'[j].s = n
      <4>1. Reached(n) \/ \E j \in DOMAIN frames : frames[j].s = n
        BY DEF ReplayInv, FramesComeInOrder
      <4> QED BY <2>2, <2>7, <4>1 DEF f
    <3>2. ASSUME NEW i \in DOMAIN frames', NEW n \in 1 .. frames'[i].s
          PROVE  Reached(n)' \/ \E j \in 1 .. i : frames'[j].s = n
      <4>1. Reached(n) \/ \E j \in 1 .. i + 1 : frames[j].s = n
        BY <2>2 DEF ReplayInv, FramesComeInOrder
      <4>2. ASSUME NEW j \in 1 .. i + 1, frames[j].s = n
            PROVE  Reached(n)' \/ \E k \in 1 .. i : frames'[k].s = n
        <5>1. CASE j = 1
          BY <2>7, <4>2, <5>1 DEF f
        <5>2. CASE j # 1
          <6>1. j - 1 \in 1 .. i /\ j \in DOMAIN frames
            BY <2>2, <5>2
          <6> QED BY <2>2, <4>2, <5>2, <6>1
        <5> QED BY <5>1, <5>2
      <4> QED BY <2>7, <4>1, <4>2
    <3>3. \A n \in 1 .. last : Reached(n)'
      BY <2>7 DEF ReplayInv, FramesComeInOrder
    <3> QED BY <2>1, <3>1, <3>2, <3>3 DEF FramesComeInOrder
  <2>9. Opening'
    <3>1. ASSUME last = 0, NEW i \in DOMAIN frames', NEW j \in DOMAIN frames', i < j
          PROVE  frames'[i].s < frames'[j].s
      <4>1. i + 1 \in DOMAIN frames /\ j + 1 \in DOMAIN frames /\ i + 1 < j + 1
        BY <2>2, <3>1
      <4> QED BY <2>2, <3>1, <4>1 DEF ReplayInv, Opening
    <3> QED BY <2>1, <3>1 DEF ReplayInv, Opening, NotResuming
  <2>10. NothingOlder'
    BY <2>1, <2>2 DEF ReplayInv, NothingOlder, AfterTheFirst
  <2>11. HolesAreKnown'
    <3>1. ASSUME NEW n \in 1 .. last
          PROVE  \/ n \in held \cup refused \/ LostTwice(n)' \/ UnderWay(n)'
                 \/ \A t \in 1 .. n : t \notin held
      <4>1. n \in held \cup refused \/ LostTwice(n) \/ UnderWay(n) \/ \A t \in 1 .. n : t \notin held
        BY DEF ReplayInv, HolesAreKnown
      <4>2. LostTwice(n) => LostTwice(n)'
        BY <2>4 DEF LostTwice
      <4>3. CASE UnderWay(n)
        <5>1. ASSUME NEW i \in DOMAIN frames, frames[i].s = n
              PROVE  n \in held \/ LostTwice(n)' \/ UnderWay(n)'
          <6>1. CASE i # 1
            BY <2>2, <5>1, <6>1 DEF UnderWay
          <6>2. CASE i = 1
            <7>1. n = f.s
              BY <5>1, <6>2 DEF f
            <7>2. Reached(n)
              BY DEF ReplayInv, FramesComeInOrder
            <7>3. ASSUME NEW k \in DOMAIN lost, lost[k] = n PROVE LostTwice(n)'
              <8>1. k \in DOMAIN lost' /\ lost'[k] = n /\ k < Len(lost) + 1
                BY <2>4, <7>3
              <8> QED BY <2>4, <7>1, <8>1 DEF LostTwice
            <7> QED BY <7>2, <7>3 DEF Reached
          <6> QED BY <6>1, <6>2
        <5> QED BY <2>1, <4>3, <5>1 DEF UnderWay
      <4> QED BY <4>1, <4>2, <4>3
    <3> QED BY <2>1, <3>1 DEF HolesAreKnown
  <2> QED BY <2>1, <2>5, <2>6, <2>8, <2>9, <2>10, <2>11 DEF ReplayInv
<1>7. CASE UNCHANGED replayVars
  <2>1. /\ sequence' = sequence /\ ring' = ring /\ resending' = resending /\ frames' = frames
        /\ requests' = requests /\ previous' = previous /\ last' = last /\ held' = held
        /\ lost' = lost /\ refused' = refused
    BY <1>7 DEF replayVars
  <2>2. ReplayTypeOK' /\ CopiesAreNumbered'
    BY <2>1 DEF ReplayInv, ReplayTypeOK, CopiesAreNumbered, NotResuming
  <2>3. FramesComeInOrder'
    BY <2>1 DEF ReplayInv, FramesComeInOrder, Reached
  <2>4. Opening' /\ NothingOlder'
    BY <2>1 DEF ReplayInv, Opening, NothingOlder, AfterTheFirst, NotResuming
  <2>5. HolesAreKnown'
    BY <2>1 DEF ReplayInv, HolesAreKnown, UnderWay, AfterTheFirst, LostTwice
  <2> QED BY <2>1, <2>2, <2>3, <2>4, <2>5 DEF ReplayInv
<1> QED BY <1>1, <1>2, <1>3, <1>4, <1>5, <1>6, <1>7 DEF ReplayNext

-----------------------------------------------------------------------------
(* Filtered lists *)

Rank(S, i) == Cardinality({j \in S : j <= i})

\* Positions by rank: each has one, and each number up to the number of positions is the
\* rank of one.
LEMMA RanksCount ==
  ASSUME NEW S \in SUBSET Nat, IsFiniteSet(S)
  PROVE  /\ Cardinality(S) \in Nat
         /\ \A i \in S : Rank(S, i) \in 1 .. Cardinality(S)
         /\ \A i, j \in S : i < j => Rank(S, i) < Rank(S, j)
         /\ \A n \in 1 .. Cardinality(S) : \E i \in S : Rank(S, i) = n
<1>1. ASSUME NEW i \in S
      PROVE  Rank(S, i) \in 1 .. Cardinality(S)
  <2> DEFINE B == {j \in S : j <= i}
  <2>1. B \subseteq S /\ i \in B
    OBVIOUS
  <2>2. IsFiniteSet(B) /\ Cardinality(B) <= Cardinality(S) /\ Cardinality(B) \in Nat /\ Cardinality(S) \in Nat
    BY <2>1, FS_Subset, FS_CardinalityType
  <2>3. Cardinality(B) # 0
    BY <2>1, <2>2, FS_EmptySet
  <2> QED BY <2>2, <2>3 DEF Rank
<1>2. ASSUME NEW i \in S, NEW j \in S, i < j
      PROVE  Rank(S, i) < Rank(S, j)
  <2> DEFINE B == {k \in S : k <= i}
             C == {k \in S : k <= j}
  <2>1. B \subseteq C /\ C \subseteq S /\ j \in C /\ j \notin B
    <3>1. i \in Nat /\ j \in Nat /\ i < j
      BY <1>2
    <3>2. \A k \in S : k \in Nat
      OBVIOUS
    <3>3. \A k \in S : k <= i => k <= j
      BY <3>1, <3>2
    <3>4. ~ (j <= i) /\ j <= j
      BY <3>1
    <3> QED BY <3>3, <3>4, Zenon
  <2>2. IsFiniteSet(C)
    BY <2>1, FS_Subset
  <2>3. Cardinality(B) < Cardinality(C)
    <3>1. B # C /\ B \in SUBSET C
      BY <2>1
    <3> HIDE DEF B, C
    <3> QED BY <2>2, <3>1, FS_Subset, FS_CardinalityType
  <2> QED BY <2>3 DEF Rank
<1>3. Cardinality(S) \in Nat
  BY FS_CardinalityType
<1>4. \A n \in 1 .. Cardinality(S) : \E i \in S : Rank(S, i) = n
  <2> DEFINE T == 1 .. Cardinality(S)
             f == [i \in S |-> Rank(S, i)]
  <2>1. IsFiniteSet(T) /\ Cardinality(T) = Cardinality(S)
    BY <1>3, FS_Interval
  <2>2. f \in Injection(S, T)
    <3>1. f \in [S -> T]
      BY <1>1
    <3>2. \A i, j \in S : f[i] = f[j] => i = j
      <4> SUFFICES ASSUME NEW i \in S, NEW j \in S, i # j PROVE f[i] # f[j]
        OBVIOUS
      <4>1. i < j \/ j < i
        OBVIOUS
      <4>2. f[i] \in Nat /\ f[j] \in Nat /\ f[i] = Rank(S, i) /\ f[j] = Rank(S, j)
        BY <1>1
      <4> QED BY <1>2, <4>1, <4>2
    <3> HIDE DEF f, T
    <3> QED BY <3>1, <3>2 DEF Injection, IsInjective
  <2>3. f \in Surjection(S, T)
    <3> HIDE DEF f, T
    <3> QED BY <2>1, <2>2, FS_Injection
  <2>4. \A n \in T : \E i \in S : f[i] = n
    <3> HIDE DEF f, T
    <3> QED BY <2>3 DEF Surjection
  <2> QED BY <2>4
<1> QED BY <1>1, <1>2, <1>3, <1>4

LEMMA NthOf ==
  ASSUME NEW S \in SUBSET Nat, IsFiniteSet(S)
  PROVE  /\ \A n \in 1 .. Cardinality(S) : Nth(S, n) \in S /\ Rank(S, Nth(S, n)) = n
         /\ \A i \in S : i = Nth(S, Rank(S, i))
<1>1. \A n \in 1 .. Cardinality(S) : Nth(S, n) \in S /\ Rank(S, Nth(S, n)) = n
  <2> SUFFICES ASSUME NEW n \in 1 .. Cardinality(S) PROVE Nth(S, n) \in S /\ Rank(S, Nth(S, n)) = n
    OBVIOUS
  <2>1. \E i \in S : Cardinality({j \in S : j <= i}) = n
    BY RanksCount DEF Rank
  <2> QED BY <2>1, Zenon DEF Nth, Rank
<1>2. \A i \in S : i = Nth(S, Rank(S, i))
  <2> SUFFICES ASSUME NEW i \in S PROVE i = Nth(S, Rank(S, i))
    OBVIOUS
  <2> DEFINE m == Nth(S, Rank(S, i))
  <2>1. Rank(S, i) \in 1 .. Cardinality(S)
    BY RanksCount
  <2>2. m \in S /\ Rank(S, m) = Rank(S, i)
    BY <1>1, <2>1
  <2> HIDE DEF m
  <2>3. ~ (m < i) /\ ~ (i < m)
    <3>1. Rank(S, m) \in Nat /\ Rank(S, i) \in Nat
      BY <2>1, <2>2
    <3> QED BY <2>2, <3>1, RanksCount
  <2>4. m \in Nat /\ i \in Nat
    BY <2>2
  <2>5. m = i
    BY <2>3, <2>4
  <2> QED BY <2>5 DEF m
<1> QED BY <1>1, <1>2

\* A filtered list holds what stood at the positions kept, each once and in their order.
LEMMA FilteredHolds ==
  ASSUME NEW D, NEW list \in Seq(D), NEW kept \in SUBSET DOMAIN list
  PROVE  /\ Filtered(list, kept) \in Seq(D)
         /\ Len(Filtered(list, kept)) = Cardinality(kept)
         /\ \A n \in DOMAIN Filtered(list, kept) :
              Nth(kept, n) \in kept /\ Filtered(list, kept)[n] = list[Nth(kept, n)]
         /\ \A i \in kept : \E n \in DOMAIN Filtered(list, kept) : i = Nth(kept, n)
         /\ \A m, n \in DOMAIN Filtered(list, kept) : Nth(kept, m) = Nth(kept, n) => m = n
<1>1. kept \in SUBSET Nat /\ IsFiniteSet(kept)
  <2>1. DOMAIN list = 1 .. Len(list) /\ Len(list) \in Nat
    OBVIOUS
  <2>2. IsFiniteSet(1 .. Len(list))
    BY <2>1, FS_Interval
  <2> QED BY <2>1, <2>2, FS_Subset
<1>2. Cardinality(kept) \in Nat
  BY <1>1, FS_CardinalityType
<1>3. \A n \in 1 .. Cardinality(kept) : Nth(kept, n) \in kept /\ Rank(kept, Nth(kept, n)) = n
  BY <1>1, NthOf
<1>4. \A i \in kept : i = Nth(kept, Rank(kept, i)) /\ Rank(kept, i) \in 1 .. Cardinality(kept)
  BY <1>1, NthOf, RanksCount
<1> DEFINE f == Filtered(list, kept)
<1>5. f = [n \in 1 .. Cardinality(kept) |-> list[Nth(kept, n)]]
  BY DEF Filtered
<1>6. \A n \in 1 .. Cardinality(kept) : list[Nth(kept, n)] \in D
  BY <1>3
<1> HIDE DEF f
<1>7. f \in Seq(D) /\ Len(f) = Cardinality(kept) /\ DOMAIN f = 1 .. Cardinality(kept)
  BY <1>2, <1>5, <1>6
<1>8. \A n \in DOMAIN f : Nth(kept, n) \in kept /\ f[n] = list[Nth(kept, n)]
  BY <1>3, <1>5, <1>7
<1>9. \A i \in kept : \E n \in DOMAIN f : i = Nth(kept, n)
  BY <1>4, <1>7
<1>10. \A m, n \in DOMAIN f : Nth(kept, m) = Nth(kept, n) => m = n
  BY <1>3, <1>7
<1> QED BY <1>7, <1>8, <1>9, <1>10 DEF f

\* A filter that keeps everything changes nothing.
LEMMA AllKept ==
  ASSUME NEW D, NEW list \in Seq(D)
  PROVE  Filtered(list, DOMAIN list) = list
<1> DEFINE S == DOMAIN list
<1>1. S = 1 .. Len(list) /\ Len(list) \in Nat
  OBVIOUS
<1>2. IsFiniteSet(S) /\ S \in SUBSET Nat
  BY <1>1, FS_Interval
<1>3. Cardinality(S) = Len(list)
  <2>1. Cardinality(1 .. Len(list)) = Len(list)
    BY <1>1, FS_Interval
  <2> QED BY <1>1, <2>1, Zenon
<1>4. \A n \in S : Rank(S, n) = n
  <2> SUFFICES ASSUME NEW n \in 1 .. Len(list) PROVE Rank(S, n) = n
    BY <1>1
  <2>1. {j \in 1 .. Len(list) : j <= n} = 1 .. n
    OBVIOUS
  <2>2. Cardinality(1 .. n) = n
    BY FS_Interval
  <2>3. {j \in S : j <= n} = 1 .. n
    BY <1>1, <2>1, Zenon
  <2> QED BY <2>2, <2>3, Zenon DEF Rank
<1>5. \A n \in S : Nth(S, n) = n
  BY <1>2, <1>4, NthOf
<1>6. Filtered(list, S) = [n \in 1 .. Len(list) |-> list[Nth(S, n)]]
  BY <1>3 DEF Filtered
<1>7. \A n \in 1 .. Len(list) : list[Nth(S, n)] = list[n]
  BY <1>1, <1>5
<1>8. list = [n \in 1 .. Len(list) |-> list[n]]
  OBVIOUS
<1>9. [n \in 1 .. Len(list) |-> list[Nth(S, n)]] = [n \in 1 .. Len(list) |-> list[n]]
  BY <1>7
<1> QED BY <1>6, <1>8, <1>9

\* A function on 1 .. n is a sequence.
LEMMA IsSequence ==
  ASSUME NEW D, NEW n \in Nat, NEW f, f = [i \in 1 .. n |-> f[i]], \A i \in 1 .. n : f[i] \in D
  PROVE  f \in Seq(D) /\ Len(f) = n /\ DOMAIN f = 1 .. n
<1>1. f \in [1 .. n -> D]
  BY Zenon
<1>2. DOMAIN f = 1 .. n
  BY Zenon
<1> QED BY <1>1, <1>2

-----------------------------------------------------------------------------
(* The start of the server *)

\* A variable as the process reads it holds nothing, blanks or one of its own texts.
LEMMA ReadsAreTexts ==
  ASSUME NEW real \in Reals, NEW file \in Files, NEW v \in Variables
  PROVE  Dotenv(real, file)[v] \in {"absent", "blank", "garbled"} \cup Texts(v)
<1> DEFINE Read(i) == \A j \in 1 .. i : file[j].v # "malformed"
           Setting == {i \in DOMAIN file : Read(i) /\ file[i].v = v}
           first == CHOOSE i \in Setting : \A j \in Setting : i <= j
<1>1. real[v] \in {"absent", "blank", "garbled"} \cup Texts(v)
  <2>1. CASE real = Sound
    BY <2>1 DEF Sound, Texts, Ttls, Urls
  <2>2. ASSUME NEW u \in Varied, NEW t \in {"absent", "blank", "garbled"} \cup Texts(u),
               real = [Sound EXCEPT ![u] = t]
        PROVE  real[v] \in {"absent", "blank", "garbled"} \cup Texts(v)
    <3>1. real[v] = IF v = u THEN t ELSE Sound[v]
      BY <2>2 DEF Sound
    <3>2. Sound[v] \in {"absent", "blank", "garbled"} \cup Texts(v)
      BY DEF Sound, Texts, Ttls, Urls
    <3>3. CASE v = u
      BY <2>2, <3>1, <3>3
    <3>4. CASE v # u
      BY <3>1, <3>2, <3>4
    <3> QED BY <3>3, <3>4
  <2> QED BY <2>1, <2>2 DEF Reals
<1>2. Setting # {} => file[first].text \in {"absent", "blank", "garbled"} \cup Texts(v)
  <2> SUFFICES ASSUME Setting # {} PROVE file[first].text \in {"absent", "blank", "garbled"} \cup Texts(v)
    OBVIOUS
  <2>1. DOMAIN file \subseteq 1 .. 2 /\ \A i \in DOMAIN file : file[i] \in EnvLines
    BY DEF Files
  <2>2. \E i \in Setting : \A j \in Setting : i <= j
    BY <2>1
  <2>3. first \in Setting
    BY <2>2
  <2>4. file[first] \in EnvLines /\ file[first].v = v
    BY <2>1, <2>3
  <2> HIDE DEF first
  <2>5. v # "malformed"
    BY DEF Variables, Ttls, Urls, Providers, Client, Secret
  <2> QED BY <2>4, <2>5 DEF EnvLines
<1>3. Dotenv(real, file)[v] = IF real[v] \notin {"absent", "garbled"} \/ Setting = {} THEN real[v] ELSE file[first].text
  BY DEF Dotenv
<1> HIDE DEF Setting, first
<1> QED BY <1>1, <1>2, <1>3

\* What a configuration that was accepted holds in the variables a serving process rests on.
ConfigIsSound(config) ==
  /\ \A r \in Providers : config[Client(r)] \in {"absent", "set"} /\ config[Secret(r)] \in {"absent", "set"}
  /\ \A v \in Ttls : config[v] \in {"default", "proper"}
  /\ config["app_base"] \in {"default", "origin"} /\ config["callback_base"] \in {"absent", "origin"}

LEMMA AcceptedIsSound ==
  ASSUME NEW config \in FromEnv
  PROVE  ConfigIsSound(config)
<1>1. PICK real \in Reals, file \in Files :
        /\ config = FromRaw(Dotenv(real, file))
        /\ \A v \in Variables : Dotenv(real, file)[v] # "garbled"
        /\ \A v \in Variables : config[v] # "error"
  BY DEF FromEnv
<1> DEFINE raw == Dotenv(real, file)
<1>2. \A v \in Variables : raw[v] \in {"absent", "blank"} \cup Texts(v)
  BY <1>1, ReadsAreTexts
<1> HIDE DEF raw
<1>3. \A v \in Variables : config[v] = FromRaw(raw)[v] /\ config[v] # "error"
  BY <1>1 DEF raw
<1>4. ASSUME NEW r \in Providers
      PROVE  config[Client(r)] \in {"absent", "set"} /\ config[Secret(r)] \in {"absent", "set"}
  <2>1. ASSUME NEW v \in {Client(r), Secret(r)}
        PROVE  config[v] \in {"absent", "set"}
    <3>1. v \in Variables /\ v \notin {"database", "jwt", "port", "log", "app_base", "callback_base"} \cup Ttls
          /\ v \notin Urls
      BY DEF Variables, Client, Secret, Providers, Ttls, Urls
    <3>2. raw[v] \in {"absent", "blank", "set"}
      BY <1>2, <3>1 DEF Texts
    <3>3. config[v] = NonEmpty(raw[v])
      BY <1>3, <3>1 DEF FromRaw
    <3> QED BY <3>2, <3>3 DEF NonEmpty
  <2> QED BY <2>1
<1>5. ASSUME NEW v \in Ttls
      PROVE  config[v] \in {"default", "proper"}
  <2>1. v \in Variables /\ v \notin {"database", "jwt", "app_base", "callback_base"} \cup Urls /\ v \in Ttls \cup {"port", "log"}
    BY DEF Variables, Ttls, Urls
  <2>2. raw[v] \in {"absent", "blank", "proper", "typo"}
    <3>1. Texts(v) = {"proper", "typo"}
      BY <2>1 DEF Texts
    <3> QED BY <1>2, <2>1, <3>1
  <2>3. config[v] = Parsed(raw[v]) /\ config[v] # "error"
    BY <1>3, <2>1 DEF FromRaw
  <2> QED BY <2>2, <2>3 DEF Parsed, NonEmpty
<1>6. config["app_base"] \in {"default", "origin"}
  <2>1. "app_base" \in Variables
    BY DEF Variables, Urls
  <2>2. config["app_base"] = BaseUrl(raw["app_base"]) /\ config["app_base"] # "error"
    BY <1>3, <2>1 DEF FromRaw, Ttls
  <2> QED BY <2>2 DEF BaseUrl, AbsoluteOrigin
<1>7. config["callback_base"] \in {"absent", "origin"}
  <2>1. "callback_base" \in Variables
    BY DEF Variables, Urls
  <2>2. config["callback_base"] = OptionalBaseUrl(raw["callback_base"]) /\ config["callback_base"] # "error"
    BY <1>3, <2>1 DEF FromRaw, Ttls
  <2> QED BY <2>2 DEF OptionalBaseUrl, AbsoluteOrigin
<1> QED BY <1>4, <1>5, <1>6, <1>7 DEF ConfigIsSound

Running == [pc : {"configured", "migrating", "migrated", "built", "serving"}, build : Binary,
            config : FromEnv, offered : SUBSET Providers,
            callback : {"none", "absent", "default", "origin"}]

\* The schema of a build stands at the start of what was applied.
Applied(build) == Len(build) <= Len(applied) /\ \A i \in 1 .. Len(build) : applied[i] = build[i]

\* A process that is past its migrations found its schema, one that is built took its
\* configuration, and those that serve have a port each.
StartupInv ==
  /\ applied \in Seq(STRING) /\ proc \in [Process -> {Down} \cup Running]
  /\ locked \subseteq Process /\ StartupTypeOK
  /\ \A p \in Process :
       proc[p] # Down =>
         /\ proc[p].config["smtp"] = "absent"
         /\ proc[p].pc \in {"migrated", "built", "serving"} => Applied(proc[p].build)
         /\ proc[p].pc \in {"built", "serving"} =>
              /\ SecretFits(proc[p].config)
              /\ proc[p].offered = Configured(proc[p].config)
              /\ proc[p].callback = SignInAt(proc[p].config)
  /\ \A p, q \in Serving : Port(q) = Port(p) => q = p

LEMMA StartupInitially == StartupInit => StartupInv
  BY DEF StartupInit, StartupInv, StartupTypeOK, Serving, Down

LEMMA DownIsNotRunning == Down \notin Running /\ Down.pc = "down" /\ \A r \in Running : r.pc # "down"
  BY DEF Down, Running

\* Elements for elements, a start of a sequence is a subsequence.
LEMMA StartIsSubSeq ==
  ASSUME NEW D, NEW long \in Seq(D), NEW short \in Seq(D), Len(short) <= Len(long),
         \A i \in 1 .. Len(short) : long[i] = short[i]
  PROVE  SubSeq(long, 1, Len(short)) = short
<1> DEFINE s == SubSeq(long, 1, Len(short))
<1>1. s \in Seq(D) /\ Len(s) = Len(short) /\ \A i \in 1 .. Len(short) : s[i] = long[i]
  OBVIOUS
<1> HIDE DEF s
<1>2. \A i \in 1 .. Len(short) : s[i] = short[i]
  BY <1>1
<1>3. s = short
  BY <1>1, <1>2
<1> QED BY <1>3 DEF s

LEMMA StartupMeans == StartupInv => ServesOnlyWhenSound
<1> SUFFICES ASSUME StartupInv, NEW p \in Serving
             PROVE  LET config == proc[p].config  build == proc[p].build IN
                    /\ Len(build) <= Len(applied) /\ SubSeq(applied, 1, Len(build)) = build
                    /\ config["jwt"] = "long" /\ config["smtp"] = "absent"
                    /\ \A r \in Providers :
                         r \in proc[p].offered <=> {config[Client(r)], config[Secret(r)]} = {"set"}
                    /\ proc[p].offered # {} => proc[p].callback \in {"default", "origin"}
                    /\ \A v \in Ttls : config[v] \in {"default", "proper"}
                    /\ \A q \in Serving : Port(q) = Port(p) => q = p
  BY DEF ServesOnlyWhenSound
<1> DEFINE config == proc[p].config
           build == proc[p].build
<1>1. p \in Process /\ proc[p].pc = "serving" /\ proc[p] # Down
  BY DEF Serving, Down
<1>2. proc[p] \in Running
  BY <1>1 DEF StartupInv
<1>3. config \in FromEnv /\ build \in Seq(STRING) /\ applied \in Seq(STRING)
  BY <1>2, StartupAssumption DEF Running, StartupInv
<1>4. /\ config["smtp"] = "absent" /\ Applied(build) /\ SecretFits(config)
      /\ proc[p].offered = Configured(config) /\ proc[p].callback = SignInAt(config)
  BY <1>1 DEF StartupInv
<1>5. \A q \in Serving : Port(q) = Port(p) => q = p
  BY DEF StartupInv
<1> HIDE DEF config, build
<1>6. ConfigIsSound(config)
  BY <1>3, AcceptedIsSound
<1>7. Len(build) <= Len(applied) /\ SubSeq(applied, 1, Len(build)) = build
  BY <1>3, <1>4, StartIsSubSeq DEF Applied
<1>8. \A r \in Providers : r \in Configured(config) <=> {config[Client(r)], config[Secret(r)]} = {"set"}
  BY <1>6 DEF ConfigIsSound, Configured, IsConfigured
<1>9. Configured(config) # {} => SignInAt(config) \in {"default", "origin"}
  BY <1>6 DEF SignInAt, CallbackBase, ConfigIsSound
<1> QED BY <1>4, <1>5, <1>6, <1>7, <1>8, <1>9 DEF ConfigIsSound, SecretFits, config, build

\* One process moves and the schema stands.
LEMMA OneProcessMoves ==
  ASSUME StartupInv, NEW p \in Process, NEW r \in {Down} \cup Running,
         proc' = [proc EXCEPT ![p] = r], applied' = applied, locked' \subseteq Process,
         locked' \ {p} = locked \ {p},
         p \in locked' <=> r.pc = "migrating", p \in locked' => locked' = {p},
         r # Down =>
           /\ r.config["smtp"] = "absent"
           /\ r.pc \in {"migrated", "built", "serving"} => Applied(r.build)
           /\ r.pc \in {"built", "serving"} =>
                /\ SecretFits(r.config) /\ r.offered = Configured(r.config) /\ r.callback = SignInAt(r.config)
           /\ r.pc = "serving" => \A q \in Serving : Port(q) # r.config["port"]
  PROVE  StartupInv'
<1>1. /\ proc \in [Process -> {Down} \cup Running] /\ applied \in Seq(STRING)
      /\ \A q \in locked : proc[q].pc = "migrating"
      /\ \A q \in Process : proc[q].pc = "migrating" => locked = {q}
  BY DEF StartupInv, StartupTypeOK
<1>2. /\ proc' \in [Process -> {Down} \cup Running] /\ proc'[p] = r
      /\ \A q \in Process : q # p => proc'[q] = proc[q]
  BY <1>1
<1>3. StartupTypeOK'
  <2>1. \A q \in locked' : proc'[q].pc = "migrating"
    BY <1>1, <1>2
  <2>2. ASSUME NEW q \in Process, proc'[q].pc = "migrating" PROVE locked' = {q}
    <3>1. CASE q = p
      BY <1>2, <2>2, <3>1
    <3>2. CASE q # p
      <4>1. locked = {q}
        BY <1>1, <1>2, <2>2, <3>2
      <4>2. p \notin locked'
        BY <3>2, <4>1
      <4> QED BY <3>2, <4>1, <4>2
    <3> QED BY <3>1, <3>2
  <2> QED BY <2>1, <2>2 DEF StartupTypeOK
<1>4. \A build : Applied(build)' = Applied(build)
  BY DEF Applied
<1>5. ASSUME NEW q \in Process, proc'[q] # Down
      PROVE  /\ proc'[q].config["smtp"] = "absent"
             /\ proc'[q].pc \in {"migrated", "built", "serving"} => Applied(proc'[q].build)
             /\ proc'[q].pc \in {"built", "serving"} =>
                  /\ SecretFits(proc'[q].config)
                  /\ proc'[q].offered = Configured(proc'[q].config)
                  /\ proc'[q].callback = SignInAt(proc'[q].config)
  <2>1. CASE q = p
    BY <1>2, <1>5, <2>1
  <2>2. CASE q # p
    BY <1>2, <1>5, <2>2 DEF StartupInv
  <2> QED BY <2>1, <2>2
<1>6. \A u, q \in Serving' : proc'[q].config["port"] = proc'[u].config["port"] => q = u
  <2> SUFFICES ASSUME NEW u \in Process, NEW q \in Process, proc'[u].pc = "serving", proc'[q].pc = "serving",
                      proc'[q].config["port"] = proc'[u].config["port"], q # u
               PROVE  FALSE
    BY DEF Serving
  <2>1. CASE u # p /\ q # p
    BY <1>2, <2>1 DEF StartupInv, Serving, Port
  <2>2. CASE u = p
    <3>1. q \in Serving /\ Port(q) = r.config["port"] /\ r.pc = "serving"
      BY <1>2, <2>2 DEF Serving, Port
    <3> QED BY <3>1, DownIsNotRunning DEF Down
  <2>3. CASE q = p
    <3>1. u \in Serving /\ Port(u) = r.config["port"] /\ r.pc = "serving"
      BY <1>2, <2>3 DEF Serving, Port
    <3> QED BY <3>1, DownIsNotRunning DEF Down
  <2> QED BY <2>1, <2>2, <2>3
<1>7. (\A u, q \in Serving : Port(q) = Port(u) => q = u)'
  BY <1>6 DEF Port
<1> QED BY <1>1, <1>2, <1>3, <1>4, <1>5, <1>7 DEF StartupInv, SecretFits, Configured, IsConfigured, SignInAt, CallbackBase

LEMMA StartupStep == StartupInv /\ [StartupNext]_startupVars => StartupInv'
<1> SUFFICES ASSUME StartupInv, [StartupNext]_startupVars PROVE StartupInv'
  OBVIOUS
<1>0. /\ proc \in [Process -> {Down} \cup Running] /\ applied \in Seq(STRING) /\ locked \subseteq Process
      /\ \A q \in locked : proc[q].pc = "migrating"
      /\ \A q \in Process : proc[q].pc = "migrating" => locked = {q}
  BY DEF StartupInv, StartupTypeOK
<1>a. ASSUME NEW p \in Process, NEW s \in {"configured", "migrating", "migrated", "built", "serving"},
             proc[p].pc # "down", NEW t, t = [proc[p] EXCEPT !.pc = s]
      PROVE  /\ proc[p] # Down /\ t \in Running /\ t # Down /\ t.pc = s /\ t.build = proc[p].build
             /\ t.config = proc[p].config /\ t.offered = proc[p].offered /\ t.callback = proc[p].callback
  <2>1. proc[p] # Down /\ proc[p] \in Running
    BY <1>0, <1>a, DownIsNotRunning
  <2>2. t \in Running /\ t.pc = s /\ t.build = proc[p].build
        /\ t.config = proc[p].config /\ t.offered = proc[p].offered /\ t.callback = proc[p].callback
    BY <1>a, <2>1 DEF Running
  <2> QED BY <2>1, <2>2, DownIsNotRunning
<1>1. ASSUME NEW p \in Process, NEW build \in Binary, NEW config \in FromEnv, Load(p, build, config)
      PROVE  StartupInv'
  <2> DEFINE r == [pc |-> "configured", build |-> build, config |-> config,
                   offered |-> {}, callback |-> "none"]
  <2>1. r \in Running /\ r.pc = "configured" /\ r.config = config
    BY DEF Running
  <2>2. proc' = [proc EXCEPT ![p] = r] /\ applied' = applied /\ locked' = locked
        /\ proc[p].pc = "down" /\ config["smtp"] = "absent"
    BY <1>1 DEF Load
  <2> HIDE DEF r
  <2>3. p \notin locked
    BY <1>0, <2>2
  <2> QED BY <1>0, <2>1, <2>2, <2>3, OneProcessMoves
<1>2. ASSUME NEW p \in Process, Connect(p)
      PROVE  StartupInv'
  <2> DEFINE r == [proc[p] EXCEPT !.pc = "migrating"]
  <2>1. proc' = [proc EXCEPT ![p] = r] /\ applied' = applied /\ locked = {} /\ locked' = {p}
        /\ proc[p].pc = "configured"
    BY <1>2 DEF Connect, Goes
  <2>2. proc[p] # Down /\ r \in Running /\ r # Down /\ r.pc = "migrating" /\ r.config = proc[p].config
    BY <1>a, <2>1
  <2>3. r.config["smtp"] = "absent"
    BY <2>2 DEF StartupInv
  <2> HIDE DEF r
  <2> QED BY <2>1, <2>2, <2>3, OneProcessMoves
<1>3. ASSUME NEW p \in Process, Migrate(p)
      PROVE  StartupInv'
  <2> DEFINE build == proc[p].build
             n == Len(applied)
  <2>1. proc[p].pc = "migrating" /\ n <= Len(build) /\ applied = SubSeq(build, 1, n)
    BY <1>3 DEF Migrate
  <2>2. proc[p] # Down /\ proc[p] \in Running /\ build \in Seq(STRING) /\ n \in Nat
    BY <1>0, <2>1, DownIsNotRunning, StartupAssumption DEF Running
  <2>3. CASE n < Len(build)
    <3> DEFINE m == build[n + 1]
    <3>1. applied' = Append(applied, m) /\ UNCHANGED <<locked, proc>>
      BY <1>3, <2>3 DEF Migrate
    <3>2. m \in STRING
      BY <2>2, <2>3
    <3> HIDE DEF m, build
    <3>3. /\ applied' \in Seq(STRING) /\ Len(applied') = n + 1
          /\ \A i \in 1 .. n : applied'[i] = applied[i]
      BY <1>0, <3>1, <3>2
    <3>4. ASSUME NEW b \in Seq(STRING), Applied(b)
          PROVE  Applied(b)'
      BY <2>2, <3>3, <3>4 DEF Applied
    <3>5. \A q \in Process : proc[q] # Down => proc[q].build \in Seq(STRING)
      BY <1>0, StartupAssumption DEF Running
    <3> QED BY <3>1, <3>3, <3>4, <3>5 DEF StartupInv, StartupTypeOK, Serving, Port, SecretFits, Configured, IsConfigured, SignInAt, CallbackBase
  <2>4. CASE ~ (n < Len(build))
    <3> DEFINE r == [proc[p] EXCEPT !.pc = "migrated"]
    <3>1. proc' = [proc EXCEPT ![p] = r] /\ applied' = applied /\ locked' = locked \ {p}
      BY <1>3, <2>4 DEF Migrate, Goes
    <3>2. r \in Running /\ r # Down /\ r.pc = "migrated" /\ r.config = proc[p].config /\ r.build = build
      BY <1>a, <2>1
    <3>3. r.config["smtp"] = "absent"
      BY <2>2, <3>2 DEF StartupInv
    <3> HIDE DEF r, build
    <3>4. n = Len(build) /\ \A i \in 1 .. n : SubSeq(build, 1, n)[i] = build[i]
      BY <2>1, <2>2, <2>4
    <3>5. Applied(r.build)
      BY <2>1, <2>2, <3>2, <3>4 DEF Applied
    <3> QED BY <1>0, <3>1, <3>2, <3>3, <3>5, OneProcessMoves
  <2> QED BY <2>3, <2>4
<1>4. ASSUME NEW p \in Process, Build(p)
      PROVE  StartupInv'
  <2> DEFINE config == proc[p].config
             r == [pc |-> "built", build |-> proc[p].build, config |-> config,
                   offered |-> Configured(config), callback |-> SignInAt(config)]
  <2>1. proc' = [proc EXCEPT ![p] = r] /\ applied' = applied /\ locked' = locked
        /\ proc[p].pc = "migrated" /\ SecretFits(config)
    BY <1>4 DEF Build
  <2>2. proc[p] # Down /\ proc[p] \in Running /\ config \in FromEnv /\ proc[p].build \in Binary
    BY <1>0, <2>1, DownIsNotRunning DEF Running
  <2>3. config["smtp"] = "absent" /\ Applied(proc[p].build)
    BY <2>1, <2>2 DEF StartupInv
  <2> HIDE DEF config
  <2>4. Configured(config) \subseteq Providers /\ SignInAt(config) \in {"none", "absent", "default", "origin"}
    BY <2>2, AcceptedIsSound DEF Configured, SignInAt, CallbackBase, ConfigIsSound
  <2>5. /\ r.pc = "built" /\ r.build = proc[p].build /\ r.config = config
        /\ r.offered = Configured(config) /\ r.callback = SignInAt(config) /\ r # Down /\ r \in Running
    <3>1. r \in Running
      BY <2>2, <2>4 DEF Running
    <3> QED BY <3>1, DownIsNotRunning
  <2>6. p \notin locked
    BY <1>0, <2>1
  <2> HIDE DEF r
  <2> QED BY <1>0, <2>1, <2>3, <2>5, <2>6, OneProcessMoves
<1>5. ASSUME NEW p \in Process, Serve(p)
      PROVE  StartupInv'
  <2> DEFINE r == [proc[p] EXCEPT !.pc = "serving"]
  <2>1. proc' = [proc EXCEPT ![p] = r] /\ applied' = applied /\ locked' = locked
        /\ proc[p].pc = "built" /\ \A q \in Serving : Port(q) # Port(p)
    BY <1>5 DEF Serve, Goes
  <2>2. /\ proc[p] # Down /\ r \in Running /\ r # Down /\ r.pc = "serving" /\ r.config = proc[p].config
        /\ r.build = proc[p].build /\ r.offered = proc[p].offered /\ r.callback = proc[p].callback
    BY <1>a, <2>1
  <2>3. /\ r.config["smtp"] = "absent" /\ Applied(r.build) /\ SecretFits(r.config)
        /\ r.offered = Configured(r.config) /\ r.callback = SignInAt(r.config)
    BY <2>1, <2>2 DEF StartupInv
  <2>4. p \notin locked
    BY <1>0, <2>1
  <2>5. \A q \in Serving : Port(q) # r.config["port"]
    BY <2>1, <2>2 DEF Port
  <2> HIDE DEF r
  <2> QED BY <1>0, <2>1, <2>2, <2>3, <2>4, <2>5, OneProcessMoves
<1>6. ASSUME NEW p \in Process, Exit(p)
      PROVE  StartupInv'
  <2>1. proc' = [proc EXCEPT ![p] = Down] /\ applied' = applied /\ locked' = locked \ {p}
    BY <1>6 DEF Exit
  <2> QED BY <1>0, <2>1, DownIsNotRunning, OneProcessMoves
<1>7. CASE UNCHANGED startupVars
  BY <1>7 DEF startupVars, StartupInv, StartupTypeOK, Serving, Port, Applied, SecretFits, Configured, IsConfigured, SignInAt, CallbackBase
<1> QED BY <1>1, <1>2, <1>3, <1>4, <1>5, <1>6, <1>7 DEF StartupNext

-----------------------------------------------------------------------------
(* Requests that read *)

Spaces == {"direct", "group"}
Routes == {"me", "list", "reach", "receipts", "presence"}
Askable == User \cup Spaces \cup {NoId}
MemberRows == [c : Spaces, u : User, unread : Nat, receipt : Nat]
Unlooked == [p : User, at : Nat]
Looked == [p : User, online : BOOLEAN, at : Nat]

TablesTyped ==
  /\ rows \subseteq MemberRows
  /\ lastSeq \in [Spaces -> Nat] /\ stamped \in [User -> Nat]

AskingTyped ==
  /\ asking.pc \in Routes \cup {"none", "token", "groups", "rows", "instants", "statuses", "answered"}
  /\ asking.pc # "none" => asking.who \in User /\ asking.of \in Routes /\ asking.raw \in Seq(Askable)

\* While a request runs, what holds has held since it was made, and what has held all along
\* still does.
Witnessed ==
  asking.pc \notin {"none", "answered"} =>
    always \subseteq Facts(asking.who) /\ Facts(asking.who) \subseteq since

\* Behind the gate there is a session.
PastTheGate ==
  asking.pc \notin {"none", "token", "answered"} => <<"session">> \in since

\* The Users of a presence answer under way: asked for, seen, once each, and all that could be
\* seen all along.
Found(list) ==
  /\ \A i \in DOMAIN list : Requested(list[i]) /\ <<"peer", list[i]>> \in since
  /\ \A i, j \in DOMAIN list : list[i] = list[j] => i = j
  /\ \A fact \in always :
       fact[1] = "peer" /\ Requested(fact[2]) => \E i \in DOMAIN list : list[i] = fact[2]
Viewed(views) == [i \in DOMAIN views |-> views[i].p]

InstantWas(view) == view \in Unlooked /\ <<"instant", view.p, view.at>> \in since
StatusWas(view) ==
  /\ view \in Looked
  /\ <<"status", view.p, view.online>> \in since
  /\ ~ view.online => <<"instant", view.p, view.at>> \in since

\* What a request holds at each of its stages.
HeldSoFar ==
  /\ asking.pc \in Routes => asking.of = asking.pc
  /\ asking.pc = "groups" =>
       /\ asking.of = "list"
       /\ \A s \in asking.got : <<"summary", s>> \in since
       /\ \A fact \in always : fact[1] = "summary" /\ fact[2].c = "direct" => fact[2] \in asking.got
  /\ asking.pc = "rows" => asking.of = "receipts" /\ <<"member", asking.raw[1]>> \in since
  /\ asking.pc = "instants" =>
       /\ asking.of = "presence" /\ asking.got \in Seq(User)
       /\ Found(asking.got)
  /\ asking.pc = "statuses" =>
       /\ asking.of = "presence" /\ asking.got \in Seq(Unlooked \cup Looked)
       /\ Found(Viewed(asking.got))
       /\ \E k \in 0 .. Len(asking.got) :
            /\ \A i \in 1 .. k : StatusWas(asking.got[i])
            /\ \A i \in k + 1 .. Len(asking.got) : InstantWas(asking.got[i])

RequestsInv ==
  /\ TablesTyped /\ RequestsTypeOK /\ AskingTyped
  /\ Witnessed /\ PastTheGate /\ HeldSoFar /\ AnswersWereTrue

\* What a request may be told, kind by kind.
LEMMA FactsAre ==
  ASSUME NEW u \in User
  PROVE  /\ u \in usable => <<"session">> \in Facts(u)
         /\ u \in verified => <<"verified">> \in Facts(u)
         /\ \A s \in DirectSummaries(u) \cup GroupSummaries(u) : <<"summary", s>> \in Facts(u)
         /\ \A c \in Spaces : u \in In(c) => <<"member", c>> \in Facts(u)
         /\ \A c \in Spaces : \A r \in ReceiptRows(c, u) : <<"receipt", c, r>> \in Facts(u)
         /\ \A p \in Audience(u) : <<"peer", p>> \in Facts(u)
         /\ \A p \in User : /\ <<"status", p, p \in reachable>> \in Facts(u)
                            /\ <<"instant", p, stamped[p]>> \in Facts(u)
<1>1. u \in usable => <<"session">> \in Facts(u)
  <2>1. u \in usable => <<"session">> \in {<<"session">> : s \in usable \cap {u}}
    OBVIOUS
  <2> QED BY <2>1, Zenon DEF Facts
<1>2. u \in verified => <<"verified">> \in Facts(u)
  <2>1. u \in verified => <<"verified">> \in {<<"verified">> : s \in verified \cap {u}}
    OBVIOUS
  <2> QED BY <2>1, Zenon DEF Facts
<1>3. \A s \in DirectSummaries(u) \cup GroupSummaries(u) : <<"summary", s>> \in Facts(u)
  BY Zenon DEF Facts
<1>4. \A c \in Spaces : u \in In(c) => <<"member", c>> \in Facts(u)
  <2> SUFFICES ASSUME NEW c \in Spaces, u \in In(c) PROVE <<"member", c>> \in Facts(u)
    OBVIOUS
  <2>1. PICK r \in rows : r.c = c /\ r.u = u
    BY DEF In
  <2>2. r \in RowsOf(u)
    BY <2>1 DEF RowsOf
  <2> QED BY <2>1, <2>2, Zenon DEF Facts
<1>5. \A c \in Spaces : \A r \in ReceiptRows(c, u) : <<"receipt", c, r>> \in Facts(u)
  <2> SUFFICES ASSUME NEW c \in Spaces, NEW r \in ReceiptRows(c, u) PROVE <<"receipt", c, r>> \in Facts(u)
    OBVIOUS
  <2> DEFINE Of(d) == {<<"receipt", d, x>> : x \in ReceiptRows(d, u)}
  <2>1. <<"receipt", c, r>> \in Of(c)
    OBVIOUS
  <2>2. Of(c) \in {Of(d) : d \in {"direct", "group"}}
    BY DEF Spaces
  <2>3. <<"receipt", c, r>> \in UNION {Of(d) : d \in {"direct", "group"}}
    BY <2>1, <2>2
  <2> QED BY <2>3 DEF Facts
<1>6. \A p \in Audience(u) : <<"peer", p>> \in Facts(u)
  BY Zenon DEF Facts
<1>7. \A p \in User : /\ <<"status", p, p \in reachable>> \in Facts(u)
                      /\ <<"instant", p, stamped[p]>> \in Facts(u)
  BY Zenon DEF Facts
<1> QED BY <1>1, <1>2, <1>3, <1>4, <1>5, <1>6, <1>7

\* ... and the other way round.
LEMMA FactsMean ==
  ASSUME NEW u \in User, NEW fact \in Facts(u)
  PROVE  /\ fact[1] = "verified" => u \in verified
         /\ fact[1] = "summary" => fact[2] \in DirectSummaries(u) \cup GroupSummaries(u)
         /\ \A c : fact[1] = "receipt" /\ fact[2] = c => fact[3] \in ReceiptRows(c, u)
         /\ fact[1] = "peer" => fact[2] \in Audience(u)
<1>1. \/ fact = <<"session">>
      \/ fact = <<"verified">> /\ u \in verified
      \/ \E s \in DirectSummaries(u) \cup GroupSummaries(u) : fact = <<"summary", s>>
      \/ \E r \in RowsOf(u) : fact = <<"member", r.c>>
      \/ \E c \in {"direct", "group"} : \E r \in ReceiptRows(c, u) : fact = <<"receipt", c, r>>
      \/ \E p \in Audience(u) : fact = <<"peer", p>>
      \/ \E p \in User : fact = <<"status", p, p \in reachable>> \/ fact = <<"instant", p, stamped[p]>>
  <2>1. fact \in {<<"session">> : s \in usable \cap {u}} => fact = <<"session">>
    OBVIOUS
  <2>2. fact \in {<<"verified">> : s \in verified \cap {u}} => fact = <<"verified">> /\ u \in verified
    OBVIOUS
  <2>3. fact \in UNION {{<<"receipt", c, r>> : r \in ReceiptRows(c, u)} : c \in {"direct", "group"}}
          => \E c \in {"direct", "group"} : \E r \in ReceiptRows(c, u) : fact = <<"receipt", c, r>>
    OBVIOUS
  <2>4. fact \in {<<"status", p, p \in reachable>> : p \in User}
          => \E p \in User : fact = <<"status", p, p \in reachable>>
    BY Zenon
  <2> QED BY <2>1, <2>2, <2>3, <2>4, Zenon DEF Facts
<1>2. CASE fact = <<"session">>
  BY <1>2
<1>3. CASE fact = <<"verified">> /\ u \in verified
  BY <1>3
<1>4. CASE \E s \in DirectSummaries(u) \cup GroupSummaries(u) : fact = <<"summary", s>>
  BY <1>4
<1>5. CASE \E r \in RowsOf(u) : fact = <<"member", r.c>>
  BY <1>5
<1>6. CASE \E c \in {"direct", "group"} : \E r \in ReceiptRows(c, u) : fact = <<"receipt", c, r>>
  BY <1>6
<1>7. CASE \E p \in Audience(u) : fact = <<"peer", p>>
  BY <1>7
<1>8. CASE \E p \in User : fact = <<"status", p, p \in reachable>> \/ fact = <<"instant", p, stamped[p]>>
  <2>1. PICK p \in User : fact = <<"status", p, p \in reachable>> \/ fact = <<"instant", p, stamped[p]>>
    BY <1>8
  <2>2. fact[1] \in {"status", "instant"}
    BY <2>1
  <2> QED BY <2>2
<1> QED BY <1>1, <1>2, <1>3, <1>4, <1>5, <1>6, <1>7, <1>8

LEMMA RequestsInitially == RequestsInit => RequestsInv
<1> SUFFICES ASSUME RequestsInit PROVE RequestsInv
  OBVIOUS
<1>1. TablesTyped /\ RequestsTypeOK
  <2>1. rows \subseteq MemberRows
    BY DEF RequestsInit, MemberRows, Spaces, User
  <2>2. \A r \in rows : r.unread = 0 /\ r.receipt = 0
    BY DEF RequestsInit
  <2>3. \A r, s \in rows : r.c = s.c /\ r.u = s.u => r = s
    BY DEF RequestsInit
  <2>4. lastSeq \in [Spaces -> Nat] /\ stamped \in [User -> Nat] /\ \A c \in Spaces : lastSeq[c] = 0
    BY DEF RequestsInit, Spaces
  <2> QED BY <2>1, <2>2, <2>3, <2>4 DEF TablesTyped, RequestsTypeOK, MemberRows, RequestsInit
<1>2. asking.pc = "none"
  BY DEF RequestsInit
<1> QED BY <1>1, <1>2 DEF RequestsInv, AskingTyped, Witnessed, PastTheGate, HeldSoFar, AnswersWereTrue, Routes

\* What is known only grows, and what has been true all along only shrinks: what a request
\* holds stays true of them.
LEMMA KnowledgeGrows ==
  ASSUME RequestsInv, asking' = asking, since \subseteq since', always' \subseteq always
  PROVE  AskingTyped' /\ PastTheGate' /\ HeldSoFar' /\ (asking.pc # "answered" => AnswersWereTrue')
<1>1. AskingTyped' /\ PastTheGate'
  BY DEF RequestsInv, AskingTyped, PastTheGate
<1>2. \A p : Requested(p)' = Requested(p)
  BY DEF Requested
<1>3. \A list : Found(list) => Found(list)'
  BY <1>2 DEF Found
<1>4. \A view : InstantWas(view) => InstantWas(view)'
  BY DEF InstantWas
<1>5. \A view : StatusWas(view) => StatusWas(view)'
  BY DEF StatusWas
<1>6. HeldSoFar'
  <2>1. (asking.pc \in Routes => asking.of = asking.pc)'
    BY DEF RequestsInv, HeldSoFar
  <2>2. (asking.pc = "groups" =>
       /\ asking.of = "list"
       /\ \A s \in asking.got : <<"summary", s>> \in since
       /\ \A fact \in always : fact[1] = "summary" /\ fact[2].c = "direct" => fact[2] \in asking.got)'
    BY DEF RequestsInv, HeldSoFar
  <2>3. (asking.pc = "rows" => asking.of = "receipts" /\ <<"member", asking.raw[1]>> \in since)'
    BY DEF RequestsInv, HeldSoFar
  <2>4. (asking.pc = "instants" =>
       /\ asking.of = "presence" /\ asking.got \in Seq(User)
       /\ Found(asking.got))'
    BY <1>3 DEF RequestsInv, HeldSoFar
  <2>5. (asking.pc = "statuses" =>
       /\ asking.of = "presence" /\ asking.got \in Seq(Unlooked \cup Looked)
       /\ Found(Viewed(asking.got))
       /\ \E k \in 0 .. Len(asking.got) :
            /\ \A i \in 1 .. k : StatusWas(asking.got[i])
            /\ \A i \in k + 1 .. Len(asking.got) : InstantWas(asking.got[i]))'
    BY <1>3, <1>4, <1>5 DEF RequestsInv, HeldSoFar
  <2> QED BY <2>1, <2>2, <2>3, <2>4, <2>5 DEF HeldSoFar
<1> QED BY <1>1, <1>6 DEF AnswersWereTrue

\* A step of a running request reads and changes nothing, so that it learns nothing new.
LEMMA ReadsOnly ==
  ASSUME RequestsInv, UNCHANGED tables, Witness,
         asking.pc \notin {"none", "answered"}, asking'.pc # "none", asking'.who = asking.who
  PROVE  /\ since' = since /\ always' = always
         /\ TablesTyped' /\ RequestsTypeOK' /\ Witnessed'
<1>2. Facts(asking.who)' = Facts(asking.who)
  <2>1. /\ rows' = rows /\ reachable' = reachable /\ stamped' = stamped
        /\ usable' = usable /\ verified' = verified
    BY DEF tables
  <2> QED BY <2>1 DEF Facts, DirectSummaries, GroupSummaries, RowsOf, In, ReceiptRows, Audience
<1>3. always \subseteq Facts(asking.who) /\ Facts(asking.who) \subseteq since
  BY DEF RequestsInv, Witnessed
<1>4. since' = since /\ always' = always
  BY <1>2, <1>3 DEF Witness
<1>5. Witnessed'
  BY <1>2, <1>3, <1>4 DEF Witnessed
<1>6. TablesTyped' /\ RequestsTypeOK'
  BY <1>4 DEF tables, RequestsInv, TablesTyped, RequestsTypeOK
<1> QED BY <1>4, <1>5, <1>6


\* The repeats dropped, each name asked for stands at one place.
LEMMA ParsedIds ==
  ASSUME NEW raw \in Seq(Askable)
  PROVE  /\ ParseUserIds(raw) \in Seq(Askable)
         /\ \A i \in DOMAIN ParseUserIds(raw) : \E j \in DOMAIN raw : raw[j] = ParseUserIds(raw)[i]
         /\ \A i, j \in DOMAIN ParseUserIds(raw) : ParseUserIds(raw)[i] = ParseUserIds(raw)[j] => i = j
         /\ \A j \in DOMAIN raw : raw[j] # NoId =>
              \E i \in DOMAIN ParseUserIds(raw) : ParseUserIds(raw)[i] = raw[j]
<1> DEFINE first == {i \in DOMAIN raw : raw[i] # NoId /\ \A j \in 1 .. i - 1 : raw[j] # raw[i]}
           ids == Filtered(raw, first)
<1>1. ids = ParseUserIds(raw)
  BY DEF ParseUserIds
<1>2. first \in SUBSET DOMAIN raw
  OBVIOUS
<1>3. \A i, j \in first : raw[i] = raw[j] => i = j
  <2> SUFFICES ASSUME NEW i \in first, NEW j \in first, raw[i] = raw[j] PROVE i = j
    OBVIOUS
  <2>1. i \in Nat \ {0} /\ j \in Nat \ {0}
    OBVIOUS
  <2>2. ~ i < j /\ ~ j < i
    BY <2>1
  <2> QED BY <2>1, <2>2
<1>4. \A j \in DOMAIN raw : raw[j] # NoId => \E i \in first : raw[i] = raw[j]
  <2> SUFFICES ASSUME NEW j \in DOMAIN raw, raw[j] # NoId PROVE \E i \in first : raw[i] = raw[j]
    OBVIOUS
  <2> DEFINE S == {i \in DOMAIN raw : raw[i] = raw[j]}
  <2>1. S \subseteq Nat /\ j \in S
    OBVIOUS
  <2>2. PICK i \in S : \A k \in S : i <= k
    <3> HIDE DEF S
    <3> QED BY <2>1, Least
  <2>3. \A k \in 1 .. i - 1 : raw[k] # raw[i]
    BY <2>2
  <2> QED BY <2>2, <2>3
<1> HIDE DEF first
<1>5. /\ ids \in Seq(Askable)
      /\ \A n \in DOMAIN ids : Nth(first, n) \in first /\ ids[n] = raw[Nth(first, n)]
      /\ \A i \in first : \E n \in DOMAIN ids : i = Nth(first, n)
      /\ \A m, n \in DOMAIN ids : Nth(first, m) = Nth(first, n) => m = n
  BY <1>2, FilteredHolds
<1> HIDE DEF ids
<1>6. \A i \in DOMAIN ids : \E j \in DOMAIN raw : raw[j] = ids[i]
  BY <1>2, <1>5
<1>7. \A i, j \in DOMAIN ids : ids[i] = ids[j] => i = j
  BY <1>3, <1>5
<1>8. \A j \in DOMAIN raw : raw[j] # NoId => \E i \in DOMAIN ids : ids[i] = raw[j]
  <2> SUFFICES ASSUME NEW j \in DOMAIN raw, raw[j] # NoId PROVE \E i \in DOMAIN ids : ids[i] = raw[j]
    OBVIOUS
  <2>1. PICK k \in first : raw[k] = raw[j]
    BY <1>4
  <2> QED BY <1>5, <2>1
<1> QED BY <1>1, <1>5, <1>6, <1>7, <1>8


\* What happens meanwhile keeps the tables in order: a row for a member and a Conversation.
LEMMA ChangesKeepTables ==
  ASSUME TablesTyped, RequestsTypeOK, Change, always' \subseteq always, since \subseteq since'
  PROVE  TablesTyped' /\ RequestsTypeOK'
<1>1. always' \subseteq since'
  BY DEF RequestsTypeOK
<1>0. /\ rows \subseteq MemberRows /\ lastSeq \in [Spaces -> Nat] /\ stamped \in [User -> Nat]
      /\ \A r, s \in rows : r.c = s.c /\ r.u = s.u => r = s
      /\ \A r \in rows : r.receipt <= lastSeq[r.c] /\ r.unread <= lastSeq[r.c]
  BY DEF TablesTyped, RequestsTypeOK
<1>2. ASSUME NEW c \in Spaces, NEW u \in User, NewMessage(c, u)
      PROVE  TablesTyped' /\ RequestsTypeOK'
  <2> DEFINE next == lastSeq[c] + 1
             Rewritten(r) == IF r.c = c /\ r.u # u THEN [r EXCEPT !.unread = @ + 1] ELSE r
  <2>1. /\ lastSeq' = [lastSeq EXCEPT ![c] = next] /\ rows' = {Rewritten(r) : r \in rows} /\ stamped' = stamped
        /\ next \in Nat
    BY <1>0, <1>2 DEF NewMessage
  <2> HIDE DEF next
  <2>2. lastSeq' \in [Spaces -> Nat]
    BY <1>0, <2>1
  <2>3. \A d \in Spaces : /\ lastSeq[d] \in Nat /\ lastSeq'[d] \in Nat /\ lastSeq[d] <= lastSeq'[d]
                          /\ d = c => lastSeq'[d] = lastSeq[d] + 1
    BY <1>0, <2>1 DEF next
  <2>4. ASSUME NEW r \in rows
        PROVE  /\ Rewritten(r) \in MemberRows /\ Rewritten(r).c = r.c /\ Rewritten(r).u = r.u
               /\ Rewritten(r).receipt <= lastSeq'[r.c] /\ Rewritten(r).unread <= lastSeq'[r.c]
    <3>1. r \in MemberRows /\ r.unread \in Nat /\ r.receipt \in Nat /\ r.c \in Spaces
      BY <1>0 DEF MemberRows
    <3>2. r.receipt <= lastSeq[r.c] /\ r.unread <= lastSeq[r.c]
      BY <1>0
    <3>3. CASE Rewritten(r) = r
      BY <2>3, <3>1, <3>2, <3>3
    <3>4. CASE Rewritten(r) = [r EXCEPT !.unread = @ + 1] /\ r.c = c
      <4> DEFINE more == r.unread + 1
      <4>1. more \in Nat /\ more <= lastSeq'[r.c] /\ r.receipt <= lastSeq'[r.c]
        BY <2>3, <3>1, <3>2, <3>4
      <4>2. Rewritten(r) = [r EXCEPT !.unread = more]
        BY <3>4
      <4> HIDE DEF more, Rewritten
      <4> QED BY <3>1, <4>1, <4>2 DEF MemberRows
    <3> QED BY <3>3, <3>4
  <2> HIDE DEF Rewritten
  <2>5. \A r, s \in rows' : r.c = s.c /\ r.u = s.u => r = s
    BY <1>0, <2>1, <2>4
  <2>6. rows' \subseteq MemberRows /\ \A r \in rows' : r.receipt <= lastSeq'[r.c] /\ r.unread <= lastSeq'[r.c]
    BY <2>1, <2>4
  <2> QED BY <1>0, <1>1, <2>1, <2>2, <2>5, <2>6 DEF TablesTyped, RequestsTypeOK
<1>3. ASSUME NEW c \in Spaces, NEW u \in User, MarkRead(c, u)
      PROVE  TablesTyped' /\ RequestsTypeOK'
  <2> DEFINE Rewritten(r) == IF r.c = c /\ r.u = u THEN [r EXCEPT !.unread = 0, !.receipt = lastSeq[c]] ELSE r
  <2>1. lastSeq' = lastSeq /\ rows' = {Rewritten(r) : r \in rows} /\ stamped' = stamped
    BY <1>3 DEF MarkRead
  <2>4. ASSUME NEW r \in rows
        PROVE  /\ Rewritten(r) \in MemberRows /\ Rewritten(r).c = r.c /\ Rewritten(r).u = r.u
               /\ Rewritten(r).receipt <= lastSeq[r.c] /\ Rewritten(r).unread <= lastSeq[r.c]
    <3>1. r \in MemberRows /\ r.unread \in Nat /\ r.receipt \in Nat /\ r.c \in Spaces
      BY <1>0 DEF MemberRows
    <3>2. r.receipt <= lastSeq[r.c] /\ r.unread <= lastSeq[r.c] /\ lastSeq[c] \in Nat
      BY <1>0
    <3>3. CASE Rewritten(r) = r
      BY <3>1, <3>2, <3>3
    <3>4. CASE Rewritten(r) = [r EXCEPT !.unread = 0, !.receipt = lastSeq[c]] /\ r.c = c
      <4> DEFINE upTo == lastSeq[c]
             new == [r EXCEPT !.unread = 0, !.receipt = upTo]
      <4>a. upTo \in Nat
        BY <3>2
      <4>b. upTo = lastSeq[r.c]
        BY <3>4
      <4> HIDE DEF upTo
      <4>1. new \in MemberRows
        BY <3>1, <4>a DEF MemberRows
      <4>0. new = Rewritten(r)
        BY <3>4 DEF upTo
      <4> HIDE DEF Rewritten
      <4>2. Rewritten(r).c = r.c /\ Rewritten(r).u = r.u
        BY <3>1, <4>0 DEF MemberRows
      <4>3. Rewritten(r).unread = 0 /\ Rewritten(r).receipt = upTo
        BY <3>1, <4>0 DEF MemberRows
      <4> HIDE DEF new
      <4>4. 0 <= upTo /\ upTo <= upTo
        BY <4>a
      <4> QED BY <4>0, <4>b, <4>1, <4>2, <4>3, <4>4
    <3> QED BY <3>3, <3>4
  <2> HIDE DEF Rewritten
  <2>5. \A r, s \in rows' : r.c = s.c /\ r.u = s.u => r = s
    BY <1>0, <2>1, <2>4
  <2>6. rows' \subseteq MemberRows /\ \A r \in rows' : r.receipt <= lastSeq'[r.c] /\ r.unread <= lastSeq'[r.c]
    BY <2>1, <2>4
  <2> QED BY <1>0, <1>1, <2>1, <2>5, <2>6 DEF TablesTyped, RequestsTypeOK
<1>4. ASSUME NEW u \in User, LeaveOrReturn(u)
      PROVE  TablesTyped' /\ RequestsTypeOK'
  <2> DEFINE new == [c |-> "group", u |-> u, unread |-> 0, receipt |-> 0]
  <2>1. lastSeq' = lastSeq /\ stamped' = stamped
        /\ (rows' \subseteq rows \/ (u \notin In("group") /\ rows' = rows \cup {new}))
    BY <1>4 DEF LeaveOrReturn
  <2>2. CASE rows' \subseteq rows
    BY <1>0, <1>1, <2>1, <2>2 DEF TablesTyped, RequestsTypeOK
  <2>3. CASE u \notin In("group") /\ rows' = rows \cup {new}
    <3>1. new \in MemberRows /\ new.c = "group" /\ new.u = u /\ new.unread = 0 /\ new.receipt = 0
      BY DEF MemberRows, Spaces
    <3>2. \A r \in rows : ~ (r.c = "group" /\ r.u = u)
      BY <2>3 DEF In
    <3>3. lastSeq["group"] \in Nat
      BY <1>0 DEF Spaces
    <3> HIDE DEF new
    <3> QED BY <1>0, <1>1, <2>1, <2>3, <3>1, <3>2, <3>3 DEF TablesTyped, RequestsTypeOK
  <2> QED BY <2>1, <2>2, <2>3
<1>5. ASSUME NEW u \in User, ComeOrGo(u)
      PROVE  TablesTyped' /\ RequestsTypeOK'
  <2>1. rows' = rows /\ lastSeq' = lastSeq /\ stamped' \in [User -> Nat]
    <3> DEFINE later == stamped[u] + 1
    <3>1. later \in Nat /\ (stamped' = stamped \/ stamped' = [stamped EXCEPT ![u] = later])
      BY <1>0, <1>5 DEF ComeOrGo
    <3> HIDE DEF later
    <3> QED BY <1>0, <1>5, <3>1 DEF ComeOrGo
  <2> QED BY <1>0, <1>1, <2>1 DEF TablesTyped, RequestsTypeOK
<1>6. ASSUME NEW u \in User, RevokeSession(u) \/ VerifyAddress(u)
      PROVE  TablesTyped' /\ RequestsTypeOK'
  <2>1. rows' = rows /\ lastSeq' = lastSeq /\ stamped' = stamped
    BY <1>6 DEF RevokeSession, VerifyAddress
  <2> QED BY <1>0, <1>1, <2>1 DEF TablesTyped, RequestsTypeOK
<1> QED BY <1>2, <1>3, <1>4, <1>5, <1>6 DEF Change, Spaces

LEMMA RequestsStep == RequestsInv /\ [RequestsNext]_requestVars => RequestsInv'
<1> SUFFICES ASSUME RequestsInv, [RequestsNext]_requestVars PROVE RequestsInv'
  OBVIOUS
<1>0. /\ TablesTyped /\ RequestsTypeOK /\ AskingTyped
      /\ Witnessed /\ PastTheGate /\ HeldSoFar /\ AnswersWereTrue
  BY DEF RequestsInv
\* A route is asked for.
<1>1. ASSUME NEW who \in User, NEW of \in Routes, NEW raw \in Seq(Askable), AskFor(who, of, raw)
      PROVE  RequestsInv'
  <2>1. /\ asking'.pc = "token" /\ asking'.who = who /\ asking'.of = of /\ asking'.raw = raw
        /\ since' = Facts(who) /\ always' = Facts(who) /\ UNCHANGED tables
    BY <1>1 DEF AskFor
  <2>2. TablesTyped' /\ RequestsTypeOK'
    BY <1>0, <2>1 DEF tables, TablesTyped, RequestsTypeOK
  <2>3. AskingTyped' /\ PastTheGate' /\ HeldSoFar' /\ AnswersWereTrue'
    BY <2>1 DEF AskingTyped, PastTheGate, HeldSoFar, AnswersWereTrue, Routes
  <2>4. Facts(asking.who)' = Facts(who)
    <3>1. /\ rows' = rows /\ reachable' = reachable /\ stamped' = stamped
          /\ usable' = usable /\ verified' = verified
      BY <2>1 DEF tables
    <3> QED BY <2>1, <3>1 DEF Facts, DirectSummaries, GroupSummaries, RowsOf, In, ReceiptRows, Audience
  <2>5. Witnessed'
    BY <2>1, <2>4 DEF Witnessed
  <2> QED BY <2>2, <2>3, <2>5 DEF RequestsInv
\* What a step of a request leaves to prove.
<1>a. ASSUME UNCHANGED tables, Witness, asking.pc \notin {"none", "answered"},
             NEW pc, NEW is, NEW got, Reach(pc, is, got),
             pc \in {"groups", "rows", "instants", "statuses", "answered"} \cup Routes,
             <<"session">> \in since \/ pc = "answered",
             HeldSoFar', AnswersWereTrue'
      PROVE  RequestsInv'
  <2>1. /\ asking'.pc = pc /\ asking'.who = asking.who /\ asking'.of = asking.of
        /\ asking'.raw = asking.raw
    BY <1>a DEF Reach
  <2>2. asking'.pc # "none"
    BY <1>a, <2>1 DEF Routes
  <2>3. since' = since /\ TablesTyped' /\ RequestsTypeOK' /\ Witnessed'
    BY <1>a, <2>1, <2>2, ReadsOnly
  <2>4. AskingTyped'
    BY <1>0, <1>a, <2>1 DEF AskingTyped
  <2>5. PastTheGate'
    BY <1>a, <2>1, <2>3 DEF PastTheGate
  <2> QED BY <1>a, <2>3, <2>4, <2>5 DEF RequestsInv
\* Where every step of a running request begins.
<1>b. ASSUME UNCHANGED tables, Witness, asking.pc \notin {"none", "answered"},
             NEW pc, NEW is, NEW got, Reach(pc, is, got), pc # "none"
      PROVE  /\ asking'.pc = pc /\ asking'.who = asking.who /\ asking'.of = asking.of
             /\ asking'.raw = asking.raw /\ asking'.is = is /\ asking'.got = got
             /\ since' = since /\ always' = always
             /\ asking.who \in User /\ asking.of \in Routes /\ asking.raw \in Seq(Askable)
             /\ always \subseteq Facts(asking.who) /\ Facts(asking.who) \subseteq since
  <2>1. /\ asking'.pc = pc /\ asking'.who = asking.who /\ asking'.of = asking.of
        /\ asking'.raw = asking.raw /\ asking'.is = is /\ asking'.got = got
    BY <1>b DEF Reach
  <2>2. since' = since /\ always' = always
    BY <1>b, <2>1, ReadsOnly
  <2> QED BY <1>0, <1>b, <2>1, <2>2 DEF AskingTyped, Witnessed
\* An answer holds nothing more.
<1>c. ASSUME asking'.pc = "answered"
      PROVE  HeldSoFar'
  BY <1>c DEF HeldSoFar, Routes
<1>d. ASSUME asking'.pc # "answered"
      PROVE  AnswersWereTrue'
  BY <1>d DEF AnswersWereTrue
<1>2. ASSUME NEW token \in Tokens, Authenticate(token)
      PROVE  RequestsInv'
  <2>1. asking.pc = "token" /\ UNCHANGED tables /\ Witness
    BY <1>2 DEF Authenticate
  <2>2. CASE SessionFound(asking.who) /\ GoOn(asking.of, {})
    <3>1. Reach(asking.of, "open", {})
      BY <2>2 DEF GoOn
    <3>2. asking.of \in Routes /\ asking.of \notin {"none", "answered", "groups", "rows", "instants", "statuses"}
      BY <1>0, <2>1 DEF AskingTyped, Routes
    <3>3. /\ asking'.pc = asking.of /\ asking'.of = asking.of
          /\ asking.who \in User /\ Facts(asking.who) \subseteq since
      BY <1>b, <2>1, <3>1, <3>2
    <3>4. <<"session">> \in since
      BY <2>2, <3>3, FactsAre DEF SessionFound
    <3>5. HeldSoFar' /\ AnswersWereTrue'
      BY <1>d, <3>2, <3>3 DEF HeldSoFar
    <3> QED BY <1>a, <2>1, <3>1, <3>2, <3>4, <3>5
  <2>3. CASE Answered("unauthenticated", {})
    <3>1. Reach("answered", "unauthenticated", {})
      BY <2>3 DEF Answered
    <3>2. asking'.pc = "answered" /\ asking'.is = "unauthenticated"
      BY <1>b, <2>1, <3>1
    <3>3. HeldSoFar' /\ AnswersWereTrue'
      BY <1>c, <3>2 DEF AnswersWereTrue
    <3> QED BY <1>a, <2>1, <3>1, <3>3
  <2> QED BY <1>2, <2>2, <2>3 DEF Authenticate
<1>3. CASE CheckVerified
  <2> DEFINE is == IF asking.who \in verified THEN "served" ELSE "unverified"
  <2>1. asking.pc = "reach" /\ UNCHANGED tables /\ Witness /\ Reach("answered", is, {})
    BY <1>3 DEF CheckVerified, Answered
  <2>2. /\ asking'.pc = "answered" /\ asking'.of = asking.of /\ asking'.is = is /\ since' = since
        /\ asking.who \in User /\ Facts(asking.who) \subseteq since
    BY <1>b, <2>1
  <2>3. asking.of = "reach" /\ <<"session">> \in since
    BY <1>0, <2>1 DEF HeldSoFar, PastTheGate, Routes
  <2>4. asking'.is = "served" => <<"verified">> \in since
    BY <2>2, FactsAre
  <2>5. AnswersWereTrue'
    BY <2>2, <2>3, <2>4 DEF AnswersWereTrue
  <2> HIDE DEF is
  <2> QED BY <1>a, <1>c, <2>1, <2>2, <2>5
<1>4. CASE ReadProfile
  <2> DEFINE got == asking.who \in verified
  <2>1. asking.pc = "me" /\ UNCHANGED tables /\ Witness /\ Reach("answered", "served", got)
    BY <1>4, Zenon DEF ReadProfile, Answered
  <2> HIDE DEF got
  <2>2. /\ asking'.pc = "answered" /\ asking'.of = asking.of /\ since' = since /\ always' = always
        /\ asking.who \in User /\ Facts(asking.who) \subseteq since /\ always \subseteq Facts(asking.who)
    BY <1>b, <2>1
  <2>3. asking.of = "me" /\ <<"session">> \in since
    BY <1>0, <2>1 DEF HeldSoFar, PastTheGate, Routes
  <2>4. asking'.got = (asking.who \in verified)
    <3>1. asking'.got = got
      BY <1>b, <2>1
    <3> QED BY <3>1, Zenon DEF got
  <2>5. asking.who \in verified => <<"verified">> \in since
    BY <2>2, FactsAre
  <2>6. <<"verified">> \in always => asking.who \in verified
    <3>1. <<"verified">>[1] = "verified"
      OBVIOUS
    <3> QED BY <2>2, <3>1, FactsMean
  <2>7. IF asking'.got THEN <<"verified">> \in since ELSE <<"verified">> \notin always
    BY <2>4, <2>5, <2>6, Zenon
  <2>8. AnswersWereTrue'
    BY <2>2, <2>3, <2>7 DEF AnswersWereTrue
  <2> QED BY <1>a, <1>c, <2>1, <2>2, <2>8
<1>5. CASE ReadDirect
  <2> DEFINE got == DirectSummaries(asking.who)
  <2>1. asking.pc = "list" /\ UNCHANGED tables /\ Witness /\ Reach("groups", "open", got)
    BY <1>5 DEF ReadDirect, GoOn
  <2>2. /\ asking'.pc = "groups" /\ asking'.of = asking.of /\ asking'.got = got
        /\ since' = since /\ always' = always
        /\ asking.who \in User /\ Facts(asking.who) \subseteq since /\ always \subseteq Facts(asking.who)
    BY <1>b, <2>1
  <2>3. asking.of = "list" /\ <<"session">> \in since
    BY <1>0, <2>1 DEF HeldSoFar, PastTheGate, Routes
  <2>4. \A s \in got : <<"summary", s>> \in since
    BY <2>2, FactsAre
  <2>5. \A fact \in always : fact[1] = "summary" /\ fact[2].c = "direct" => fact[2] \in got
    <3>1. \A s \in GroupSummaries(asking.who) : s.c # "direct"
      BY DEF GroupSummaries
    <3> QED BY <2>2, <3>1, FactsMean
  <2> HIDE DEF got
  <2>6. HeldSoFar'
    BY <2>2, <2>3, <2>4, <2>5 DEF HeldSoFar, Routes
  <2> QED BY <1>a, <1>d, <2>1, <2>2, <2>3, <2>6
<1>6. CASE ReadGroups
  <2> DEFINE got == asking.got \cup GroupSummaries(asking.who)
  <2>1. asking.pc = "groups" /\ UNCHANGED tables /\ Witness /\ Reach("answered", "served", got)
    BY <1>6 DEF ReadGroups, Answered
  <2>2. /\ asking'.pc = "answered" /\ asking'.of = asking.of /\ asking'.got = got
        /\ since' = since /\ always' = always
        /\ asking.who \in User /\ Facts(asking.who) \subseteq since /\ always \subseteq Facts(asking.who)
    BY <1>b, <2>1
  <2>3. /\ asking.of = "list" /\ <<"session">> \in since
        /\ \A s \in asking.got : <<"summary", s>> \in since
        /\ \A fact \in always : fact[1] = "summary" /\ fact[2].c = "direct" => fact[2] \in asking.got
    BY <1>0, <2>1 DEF HeldSoFar, PastTheGate, Routes
  <2>4. \A s \in got : <<"summary", s>> \in since
    BY <2>2, <2>3, FactsAre
  <2>5. \A fact \in always : fact[1] = "summary" => fact[2] \in got
    <3>1. \A s \in DirectSummaries(asking.who) : s.c = "direct"
      BY DEF DirectSummaries
    <3> QED BY <2>2, <2>3, <3>1, FactsMean
  <2> HIDE DEF got
  <2>6. AnswersWereTrue'
    BY <2>2, <2>3, <2>4, <2>5 DEF AnswersWereTrue
  <2> QED BY <1>a, <1>c, <2>1, <2>2, <2>6
<1>7. CASE CheckMember
  <2>1. asking.pc = "receipts" /\ UNCHANGED tables /\ Witness
    BY <1>7 DEF CheckMember
  <2>2. asking.of = "receipts" /\ <<"session">> \in since
    BY <1>0, <2>1 DEF HeldSoFar, PastTheGate, Routes
  <2>3. CASE asking.who \in In(asking.raw[1]) /\ GoOn("rows", {})
    <3>1. Reach("rows", "open", {})
      BY <2>3 DEF GoOn
    <3>2. /\ asking'.pc = "rows" /\ asking'.of = asking.of /\ asking'.raw = asking.raw /\ since' = since
          /\ asking.who \in User /\ Facts(asking.who) \subseteq since
      BY <1>b, <2>1, <3>1
    <3>3. asking.raw[1] \in Spaces
      <4>1. PICK r \in rows : r.c = asking.raw[1]
        BY <2>3 DEF In
      <4> QED BY <1>0, <4>1 DEF TablesTyped, MemberRows
    <3>4. <<"member", asking.raw[1]>> \in since
      BY <2>3, <3>2, <3>3, FactsAre
    <3>5. HeldSoFar' /\ AnswersWereTrue'
      BY <1>d, <2>2, <3>2, <3>4 DEF HeldSoFar, Routes
    <3> QED BY <1>a, <2>1, <2>2, <3>1, <3>5
  <2>4. CASE Answered("refused", {})
    <3>1. Reach("answered", "refused", {})
      BY <2>4 DEF Answered
    <3>2. asking'.pc = "answered" /\ asking'.is = "refused"
      BY <1>b, <2>1, <3>1
    <3>3. HeldSoFar' /\ AnswersWereTrue'
      BY <1>c, <3>2 DEF AnswersWereTrue
    <3> QED BY <1>a, <2>1, <3>1, <3>3
  <2> QED BY <1>7, <2>3, <2>4 DEF CheckMember
<1>8. CASE ReadReceipts
  <2> DEFINE c == asking.raw[1]
             got == ReceiptRows(c, asking.who)
  <2>1. asking.pc = "rows" /\ UNCHANGED tables /\ Witness /\ Reach("answered", "served", got)
    BY <1>8 DEF ReadReceipts, Answered
  <2>2. /\ asking'.pc = "answered" /\ asking'.of = asking.of /\ asking'.got = got /\ asking'.raw = asking.raw
        /\ since' = since /\ always' = always
        /\ asking.who \in User /\ Facts(asking.who) \subseteq since /\ always \subseteq Facts(asking.who)
    BY <1>b, <2>1
  <2>3. asking.of = "receipts" /\ <<"session">> \in since /\ <<"member", c>> \in since
    BY <1>0, <2>1 DEF HeldSoFar, PastTheGate, Routes
  <2>4. \A r \in got : <<"receipt", c, r>> \in since
    <3> SUFFICES ASSUME NEW r \in got PROVE <<"receipt", c, r>> \in since
      OBVIOUS
    <3>1. c \in Spaces
      BY <1>0 DEF ReceiptRows, TablesTyped, MemberRows
    <3> QED BY <2>2, <3>1, FactsAre
  <2>5. \A fact \in always : fact[1] = "receipt" /\ fact[2] = c => fact[3] \in got
    BY <2>2, FactsMean
  <2> HIDE DEF got
  <2>6. AnswersWereTrue'
    BY <2>2, <2>3, <2>4, <2>5 DEF AnswersWereTrue
  <2> QED BY <1>a, <1>c, <2>1, <2>2, <2>6
<1>9. CASE ReadVisible
  <2> DEFINE ids == ParseUserIds(asking.raw)
             kept == {i \in DOMAIN ids : ids[i] \in Audience(asking.who)}
             got == Filtered(ids, kept)
  <2>1. asking.pc = "presence" /\ UNCHANGED tables /\ Witness
    BY <1>9 DEF ReadVisible
  <2>2. asking.of = "presence" /\ <<"session">> \in since
    BY <1>0, <2>1 DEF HeldSoFar, PastTheGate, Routes
  <2>3. CASE Answered("refused", {})
    <3>1. Reach("answered", "refused", {})
      BY <2>3 DEF Answered
    <3>2. asking'.pc = "answered" /\ asking'.is = "refused"
      BY <1>b, <2>1, <3>1
    <3>3. HeldSoFar' /\ AnswersWereTrue'
      BY <1>c, <3>2 DEF AnswersWereTrue
    <3> QED BY <1>a, <2>1, <3>1, <3>3
  <2>4. CASE GoOn("instants", got)
    <3>1. Reach("instants", "open", got)
      BY <2>4 DEF GoOn
    <3>2. /\ asking'.pc = "instants" /\ asking'.of = asking.of /\ asking'.got = got /\ asking'.raw = asking.raw
          /\ since' = since /\ always' = always /\ asking.raw \in Seq(Askable)
          /\ asking.who \in User /\ Facts(asking.who) \subseteq since /\ always \subseteq Facts(asking.who)
      BY <1>b, <2>1, <3>1
    <3>3. /\ ids \in Seq(Askable)
          /\ \A i \in DOMAIN ids : \E j \in DOMAIN asking.raw : asking.raw[j] = ids[i]
          /\ \A i, j \in DOMAIN ids : ids[i] = ids[j] => i = j
          /\ \A j \in DOMAIN asking.raw : asking.raw[j] # NoId =>
               \E i \in DOMAIN ids : ids[i] = asking.raw[j]
      BY <3>2, ParsedIds
    <3>4. kept \in SUBSET DOMAIN ids /\ \A i \in kept : ids[i] \in Audience(asking.who)
      OBVIOUS
    <3>5. Audience(asking.who) \subseteq User
      BY <1>0 DEF Audience, TablesTyped, MemberRows
    <3>6. \A i \in DOMAIN ids : ids[i] \in Audience(asking.who) => i \in kept
      OBVIOUS
    <3> HIDE DEF ids, kept
    <3>7. /\ got \in Seq(Askable)
          /\ \A n \in DOMAIN got : Nth(kept, n) \in kept /\ got[n] = ids[Nth(kept, n)]
          /\ \A i \in kept : \E n \in DOMAIN got : i = Nth(kept, n)
          /\ \A m, n \in DOMAIN got : Nth(kept, m) = Nth(kept, n) => m = n
      BY <3>3, <3>4, FilteredHolds
    <3> HIDE DEF got
    <3>8. \A n \in DOMAIN got : got[n] \in Audience(asking.who)
      BY <3>4, <3>7
    <3>9. got \in Seq(User)
      <4>1. DOMAIN got = 1 .. Len(got) /\ Len(got) \in Nat /\ got = [i \in DOMAIN got |-> got[i]]
        BY <3>7
      <4>2. \A n \in 1 .. Len(got) : got[n] \in User
        BY <3>5, <3>8, <4>1
      <4> QED BY <4>1, <4>2
    <3>10. \A n \in DOMAIN got : Requested(got[n])
      <4> SUFFICES ASSUME NEW n \in DOMAIN got PROVE Requested(got[n])
        OBVIOUS
      <4>1. Nth(kept, n) \in DOMAIN ids
        BY <3>4, <3>7
      <4> QED BY <3>3, <3>7, <4>1 DEF Requested
    <3>11. \A n \in DOMAIN got : <<"peer", got[n]>> \in since
      BY <3>2, <3>8, FactsAre
    <3>12. \A m, n \in DOMAIN got : got[m] = got[n] => m = n
      BY <3>3, <3>4, <3>7
    <3>13. \A fact \in always :
             fact[1] = "peer" /\ Requested(fact[2]) => \E n \in DOMAIN got : got[n] = fact[2]
      <4> SUFFICES ASSUME NEW fact \in always, fact[1] = "peer", Requested(fact[2])
                   PROVE  \E n \in DOMAIN got : got[n] = fact[2]
        OBVIOUS
      <4>1. fact[2] \in Audience(asking.who)
        BY <3>2, FactsMean
      <4>2. PICK j \in DOMAIN asking.raw : asking.raw[j] = fact[2]
        BY DEF Requested
      <4>3. fact[2] # NoId
        BY <3>5, <4>1, RequestsAssumption
      <4>4. PICK i \in DOMAIN ids : ids[i] = fact[2]
        BY <3>3, <4>2, <4>3
      <4> QED BY <3>6, <3>7, <4>1, <4>4
    <3>14. Found(asking.got)'
      <4>1. \A p : Requested(p)' = Requested(p)
        BY <3>2 DEF Requested
      <4> QED BY <3>2, <3>10, <3>11, <3>12, <3>13, <4>1 DEF Found
    <3>15. HeldSoFar' /\ AnswersWereTrue'
      <4>1. asking'.of = "presence" /\ asking'.got \in Seq(User)
        BY <2>2, <3>2, <3>9
      <4> QED BY <1>d, <3>2, <3>14, <4>1 DEF HeldSoFar, Routes
    <3> QED BY <1>a, <2>1, <2>2, <3>1, <3>15
  <2> QED BY <1>9, <2>3, <2>4 DEF ReadVisible
<1>10. CASE ReadInstants
  <2> DEFINE list == asking.got
             got == [i \in DOMAIN list |-> [p |-> list[i], at |-> stamped[list[i]]]]
  <2>1. asking.pc = "instants" /\ UNCHANGED tables /\ Witness /\ Reach("statuses", "open", got)
    BY <1>10 DEF ReadInstants, GoOn
  <2>2. /\ asking'.pc = "statuses" /\ asking'.of = asking.of /\ asking'.got = got /\ asking'.raw = asking.raw
        /\ since' = since /\ always' = always
        /\ asking.who \in User /\ Facts(asking.who) \subseteq since /\ always \subseteq Facts(asking.who)
    BY <1>b, <2>1
  <2>3. asking.of = "presence" /\ <<"session">> \in since /\ list \in Seq(User) /\ Found(list)
    BY <1>0, <2>1 DEF HeldSoFar, PastTheGate, Routes
  <2>4. \A i \in DOMAIN list : got[i] \in Unlooked /\ got[i].p = list[i] /\ got[i].at = stamped[list[i]]
    BY <1>0, <2>3 DEF TablesTyped, Unlooked
  <2>5. DOMAIN list = 1 .. Len(list) /\ Len(list) \in Nat /\ DOMAIN got = DOMAIN list
    BY <2>3
  <2>6. got \in Seq(Unlooked \cup Looked) /\ Len(got) = Len(list)
    <3> DEFINE V == Unlooked \cup Looked
    <3>1. got = [i \in 1 .. Len(list) |-> got[i]] /\ \A i \in 1 .. Len(list) : got[i] \in V
      BY <2>4, <2>5
    <3> HIDE DEF got, list, V
    <3>2. got \in Seq(V) /\ Len(got) = Len(list)
      BY <2>5, <3>1, IsSequence
    <3> QED BY <3>2 DEF V
  <2>7. Viewed(got) = list
    <3>1. list = [i \in DOMAIN list |-> list[i]]
      BY <2>3
    <3>2. Viewed(got) = [i \in DOMAIN list |-> got[i].p]
      BY <2>5 DEF Viewed
    <3> QED BY <2>4, <3>1, <3>2
  <2>8. \A i \in 1 .. Len(list) : InstantWas(got[i])
    <3> SUFFICES ASSUME NEW i \in 1 .. Len(list) PROVE InstantWas(got[i])
      OBVIOUS
    <3> HIDE DEF got
    <3>1. got[i] \in Unlooked /\ got[i].p = list[i] /\ got[i].at = stamped[list[i]] /\ list[i] \in User
      BY <2>3, <2>4, <2>5
    <3> HIDE DEF list
    <3>2. <<"instant", list[i], stamped[list[i]]>> \in since
      BY <2>2, <3>1, FactsAre
    <3> QED BY <3>1, <3>2 DEF InstantWas
  <2>9. Viewed(asking'.got) = list
    BY <2>2, <2>7, Zenon
  <2> HIDE DEF got, list
  <2>10. Found(Viewed(asking.got))'
    <3>1. \A p : Requested(p)' = Requested(p)
      BY <2>2 DEF Requested
    <3>2. Viewed(asking.got)' = list
      BY <2>9 DEF Viewed
    <3> QED BY <2>2, <2>3, <3>1, <3>2 DEF Found
  <2>11. \A i \in 1 .. 0 : StatusWas(got[i])
    OBVIOUS
  <2>12. HeldSoFar' /\ AnswersWereTrue'
    BY <1>d, <2>2, <2>3, <2>5, <2>6, <2>8, <2>10, <2>11 DEF HeldSoFar, Routes, InstantWas, StatusWas
  <2> QED BY <1>a, <2>1, <2>2, <2>3, <2>12
<1>11. CASE LookOnline
  <2> DEFINE list == asking.got
             done == Cardinality({i \in DOMAIN list : "online" \in DOMAIN list[i]})
             next == list[done + 1]
             seen == [p |-> next.p, online |-> next.p \in reachable,
                      at |-> IF next.p \in reachable THEN 0 ELSE next.at]
             got == [list EXCEPT ![done + 1] = seen]
  <2>1. /\ asking.pc = "statuses" /\ UNCHANGED tables /\ Witness
        /\ IF done = Len(list) THEN Answered("served", list) ELSE GoOn("statuses", got)
    BY <1>11, Zenon DEF LookOnline
  <2>2. /\ asking.of = "presence" /\ <<"session">> \in since
        /\ list \in Seq(Unlooked \cup Looked) /\ Found(Viewed(list))
    BY <1>0, <2>1 DEF HeldSoFar, PastTheGate, Routes
  <2>3. PICK k \in 0 .. Len(list) : /\ \A i \in 1 .. k : StatusWas(list[i])
                                   /\ \A i \in k + 1 .. Len(list) : InstantWas(list[i])
    BY <1>0, <2>1 DEF HeldSoFar
  <2>4. DOMAIN list = 1 .. Len(list) /\ Len(list) \in Nat /\ k \in Nat
    BY <2>2
  <2>5. done = k
    <3>1. \A i \in 1 .. k : "online" \in DOMAIN list[i]
      <4> SUFFICES ASSUME NEW i \in 1 .. k PROVE "online" \in DOMAIN list[i]
        OBVIOUS
      <4>1. list[i] \in Looked
        BY <2>3 DEF StatusWas
      <4> QED BY <4>1 DEF Looked
    <3>2. \A i \in k + 1 .. Len(list) : "online" \notin DOMAIN list[i]
      <4> SUFFICES ASSUME NEW i \in k + 1 .. Len(list) PROVE "online" \notin DOMAIN list[i]
        OBVIOUS
      <4>1. list[i] \in Unlooked
        BY <2>3 DEF InstantWas
      <4> QED BY <4>1 DEF Unlooked
    <3>3. {i \in DOMAIN list : "online" \in DOMAIN list[i]} = 1 .. k
      BY <2>3, <2>4, <3>1, <3>2
    <3>4. Cardinality(1 .. k) = k
      BY <2>4, FS_Interval
    <3> QED BY <3>3, <3>4, Zenon
  <2> HIDE DEF list, done
  <2>6. CASE done = Len(list)
    <3>1. Reach("answered", "served", list)
      BY <2>1, <2>6 DEF Answered
    <3>2. /\ asking'.pc = "answered" /\ asking'.of = asking.of /\ asking'.got = list /\ asking'.raw = asking.raw
          /\ since' = since /\ always' = always
      BY <1>b, <2>1, <3>1
    <3>3. \A i \in DOMAIN list : StatusWas(list[i])
      BY <2>3, <2>4, <2>5, <2>6
    <3>4. \A i \in DOMAIN list : Viewed(list)[i] = list[i].p
      BY DEF Viewed
    <3>5. DOMAIN Viewed(list) = DOMAIN list
      BY DEF Viewed
    <3>7. \A i \in DOMAIN list :
              LET view == list[i] IN
              /\ Requested(view.p) /\ <<"peer", view.p>> \in since
              /\ <<"status", view.p, view.online>> \in since
              /\ ~ view.online => <<"instant", view.p, view.at>> \in since
              /\ \A j \in DOMAIN list : list[j].p = view.p => i = j
      <4> SUFFICES ASSUME NEW i \in DOMAIN list
                   PROVE  /\ Requested(list[i].p) /\ <<"peer", list[i].p>> \in since
                          /\ <<"status", list[i].p, list[i].online>> \in since
                          /\ ~ list[i].online => <<"instant", list[i].p, list[i].at>> \in since
                          /\ \A j \in DOMAIN list : list[j].p = list[i].p => i = j
        OBVIOUS
      <4>1. StatusWas(list[i])
        BY <3>3
      <4>2. /\ Requested(list[i].p) /\ <<"peer", list[i].p>> \in since
            /\ \A j \in DOMAIN list : list[j].p = list[i].p => i = j
        BY <2>2, <3>4, <3>5 DEF Found
      <4>3. /\ <<"status", list[i].p, list[i].online>> \in since
            /\ ~ list[i].online => <<"instant", list[i].p, list[i].at>> \in since
        BY <4>1, Zenon DEF StatusWas
      <4> QED BY <4>2, <4>3
    <3>8. \A fact \in always :
              fact[1] = "peer" /\ Requested(fact[2]) => \E i \in DOMAIN list : list[i].p = fact[2]
      BY <2>2, <3>4, <3>5 DEF Found
    <3>9. AnswersWereTrue'
      <4>1. asking'.of = "presence" /\ <<"session">> \in since'
        BY <2>2, <3>2
      <4>2. (\A i \in DOMAIN asking.got :
              LET view == asking.got[i] IN
              /\ Requested(view.p) /\ <<"peer", view.p>> \in since
              /\ <<"status", view.p, view.online>> \in since
              /\ ~ view.online => <<"instant", view.p, view.at>> \in since
              /\ \A j \in DOMAIN asking.got : asking.got[j].p = view.p => i = j)'
        BY <3>2, <3>7 DEF Requested
      <4>3. (\A fact \in always :
              fact[1] = "peer" /\ Requested(fact[2]) => \E i \in DOMAIN asking.got : asking.got[i].p = fact[2])'
        BY <3>2, <3>8, Zenon DEF Requested
      <4>4. asking'.of \notin {"reach", "me", "list", "receipts"}
        BY <4>1
      <4> QED BY <4>1, <4>2, <4>3, <4>4, Zenon DEF AnswersWereTrue
    <3> QED BY <1>a, <1>c, <2>1, <3>1, <3>2, <3>9
  <2>7. CASE done # Len(list)
    <3>1. Reach("statuses", "open", got)
      BY <2>1, <2>7 DEF GoOn
    <3>2. /\ asking'.pc = "statuses" /\ asking'.of = asking.of /\ asking'.got = got /\ asking'.raw = asking.raw
          /\ since' = since /\ always' = always
          /\ asking.who \in User /\ Facts(asking.who) \subseteq since
      BY <1>b, <2>1, <3>1
    <3>3. k + 1 \in DOMAIN list /\ k + 1 \in k + 1 .. Len(list) /\ next = list[k + 1]
      <4> DEFINE size == Len(list)
      <4>c. k # size
        BY <2>5, <2>7
      <4>d. k <= size
        BY <2>4
      <4>e. k \in Nat
        BY <2>4
      <4>f. size \in Nat
        BY <2>4
      <4>a. k # size /\ k <= size /\ k \in Nat /\ size \in Nat
        BY <4>c, <4>d, <4>e, <4>f
      <4> HIDE DEF size
      <4>b. k < size
        BY <4>a
      <4>0. k < Len(list)
        BY <4>b DEF size
      <4>1. k + 1 \in DOMAIN list /\ k + 1 \in k + 1 .. Len(list)
        BY <2>4, <4>0
      <4> QED BY <2>5, <4>1
    <3>4. next \in Unlooked /\ <<"instant", next.p, next.at>> \in since
      BY <2>3, <3>3 DEF InstantWas
    <3> HIDE DEF next
    <3>5. seen \in Looked /\ seen.p = next.p
      BY <3>4 DEF Looked, Unlooked
    <3>6. <<"status", next.p, next.p \in reachable>> \in since /\ next.p \in User
      BY <3>2, <3>4, FactsAre DEF Unlooked
    <3>7. seen.online = (next.p \in reachable) /\ (~ seen.online => seen.at = next.at)
      OBVIOUS
    <3>8. StatusWas(seen)
      <4>1. <<"status", seen.p, seen.online>> \in since
        BY <3>5, <3>6, <3>7, Zenon
      <4>2. ~ seen.online => <<"instant", seen.p, seen.at>> \in since
        BY <3>4, <3>5, <3>7
      <4> QED BY <3>5, <4>1, <4>2 DEF StatusWas
    <3> HIDE DEF seen
    <3>9. /\ DOMAIN got = DOMAIN list /\ got[k + 1] = seen /\ \A i \in DOMAIN list : i # k + 1 => got[i] = list[i]
          /\ got \in Seq(Unlooked \cup Looked) /\ Len(got) = Len(list)
      BY <2>2, <2>5, <3>3, <3>5
    <3> HIDE DEF got
    <3>10. /\ \A i \in 1 .. k + 1 : StatusWas(got[i])
           /\ \A i \in k + 2 .. Len(list) : InstantWas(got[i])
      BY <2>3, <2>4, <3>3, <3>8, <3>9
    <3>11. Viewed(got) = Viewed(list)
      <4>1. \A i \in DOMAIN list : got[i].p = list[i].p
        BY <3>3, <3>5, <3>9
      <4> QED BY <3>9, <4>1 DEF Viewed
    <3>12. Found(Viewed(asking.got))'
      <4>1. \A p : Requested(p)' = Requested(p)
        BY <3>2 DEF Requested
      <4>2. Viewed(asking.got)' = Viewed(list)
        BY <3>2, <3>11 DEF Viewed
      <4> QED BY <2>2, <3>2, <4>1, <4>2 DEF Found
    <3>13. \E n \in 0 .. Len(got) : /\ \A i \in 1 .. n : StatusWas(got[i])
                                   /\ \A i \in n + 1 .. Len(got) : InstantWas(got[i])
      <4>1. k + 1 \in 0 .. Len(got) /\ (k + 1) + 1 = k + 2
        BY <2>4, <3>3, <3>9
      <4> QED BY <3>9, <3>10, <4>1
    <3>14. HeldSoFar'
      <4>1. asking'.of = "presence" /\ asking'.got \in Seq(Unlooked \cup Looked)
        BY <2>2, <3>2, <3>9
      <4>2. (\E n \in 0 .. Len(asking.got) : /\ \A i \in 1 .. n : StatusWas(asking.got[i])
                                             /\ \A i \in n + 1 .. Len(asking.got) : InstantWas(asking.got[i]))'
        BY <3>2, <3>13 DEF StatusWas, InstantWas
      <4> QED BY <3>2, <3>12, <4>1, <4>2 DEF HeldSoFar, Routes
    <3>15. AnswersWereTrue'
      BY <1>d, <3>2
    <3> QED BY <1>a, <2>1, <2>2, <3>1, <3>14, <3>15
  <2> QED BY <2>6, <2>7
<1>12. CASE Change
  <2>1. asking.pc # "answered" /\ asking' = asking /\ Witness
    BY <1>12 DEF Change
  <2>2. since \subseteq since' /\ always' \subseteq always
    BY <2>1 DEF Witness
  <2>3. AskingTyped' /\ PastTheGate' /\ HeldSoFar' /\ AnswersWereTrue'
    BY <2>1, <2>2, KnowledgeGrows
  <2>4. Witnessed'
    <3>1. CASE asking.pc = "none"
      BY <2>1, <3>1 DEF Witnessed
    <3>2. CASE asking.pc # "none"
      <4>2. since' = since \cup Facts(asking.who)' /\ always' = always \cap Facts(asking.who)'
        BY <2>1, <3>2 DEF Witness
      <4> QED BY <4>2 DEF Witnessed
    <3> QED BY <3>1, <3>2
  <2>5. TablesTyped' /\ RequestsTypeOK'
    BY <1>0, <1>12, <2>2, ChangesKeepTables
  <2> QED BY <2>3, <2>4, <2>5 DEF RequestsInv
<1>13. CASE UNCHANGED requestVars
  <2>1. TablesTyped' /\ RequestsTypeOK'
    BY <1>0, <1>13 DEF requestVars, TablesTyped, RequestsTypeOK
  <2>2. /\ rows' = rows /\ reachable' = reachable /\ stamped' = stamped
        /\ usable' = usable /\ verified' = verified /\ asking' = asking /\ since' = since /\ always' = always
    BY <1>13 DEF requestVars
  <2>3. Facts(asking.who)' = Facts(asking.who)
    BY <2>2 DEF Facts, DirectSummaries, GroupSummaries, RowsOf, In, ReceiptRows, Audience
  <2>4. Witnessed'
    BY <1>0, <2>2, <2>3 DEF Witnessed
  <2>5. AskingTyped' /\ PastTheGate' /\ HeldSoFar'
    BY <2>2, KnowledgeGrows
  <2>6. AnswersWereTrue'
    BY <1>0, <2>2 DEF AnswersWereTrue, Requested
  <2> QED BY <2>1, <2>4, <2>5, <2>6 DEF RequestsInv
<1>14. ASSUME NEW raw \in Queries
       PROVE  raw \in Seq(Askable)
  <2>1. \A p, q \in Askable : <<>> \in Seq(Askable) /\ <<p>> \in Seq(Askable) /\ <<p, q>> \in Seq(Askable)
    OBVIOUS
  <2>2. \A p, q, r \in Askable : <<p, q, r>> \in Seq(Askable)
    OBVIOUS
  <2>3. NoId \in Askable /\ Third \in Askable /\ \A p \in Pair : p \in Askable
    BY DEF Askable, User
  <2>4. \/ raw = <<>> \/ raw = <<NoId>> \/ raw = <<Third, NoId, Third>>
        \/ \E p \in Pair : raw = <<p, Third>>
        \/ \E p, q \in Pair : raw = <<p, q, Third>>
    BY DEF Queries
  <2> QED BY <2>1, <2>2, <2>3, <2>4
<1>15. ASSUME NEW c \in {"direct", "group"}
       PROVE  <<c>> \in Seq(Askable)
  BY DEF Askable, Spaces
<1>16. <<>> \in Seq(Askable)
  OBVIOUS
<1> QED
  <2>1. ASSUME RequestsNext PROVE RequestsInv'
    <3>1. Routes = {"me", "list", "reach", "receipts", "presence"}
      BY DEF Routes
    <3> QED BY <2>1, <3>1, <1>1, <1>2, <1>3, <1>4, <1>5, <1>6, <1>7, <1>8, <1>9, <1>10, <1>11, <1>12,
            <1>14, <1>15, <1>16 DEF RequestsNext, AskForProfile, AskForList, AskToReachOut, AskForReceipts
  <2> QED BY <2>1, <1>13

-----------------------------------------------------------------------------
(* Typing Indicators *)

Entries == [held : BOOLEAN, active : BOOLEAN, age : 0 .. Ttl]
States == {"Started", "Stopped"}
InHand == [phase : {"audience", "deliver"}, state : States, since : 0 .. Ttl]

\* The lock has one holder, and what it delivers is what it recorded.
OneSignal ==
  /\ \A d, e \in Device : signal[d] # NoSignal /\ signal[e] # NoSignal => d = e
  /\ \A d \in Device :
       Holds(d, "deliver") => entry.held /\ (entry.active <=> signal[d].state = "Started")

Delivering == \E d \in Device : Holds(d, "deliver")

\* A watcher who took the newest event has it last in the queue, or shows an indicator that
\* outlives the entry, or none.
Follows(w) ==
  IF inbox[w] # <<>> THEN entry.active <=> Last(inbox[w]) = "Started"
  ELSE IF entry.active THEN screen[w] + entry.age >= Ttl
  ELSE screen[w] = 0

WatchersFollow == \A w \in Watcher : ~ missed[w] /\ ~ Delivering /\ entry.held => Follows(w)

TypingInv == TypingTypeOK /\ OneSignal /\ WatchersFollow

LEMMA TypingInitially == TypingInit => TypingInv
<1> SUFFICES ASSUME TypingInit PROVE TypingInv
  OBVIOUS
<1>1. ~ entry.held /\ entry \in Entries
  BY TypingAssumption DEF TypingInit, NoEntry, Entries
<1>2. \A d \in Device : signal[d] = NoSignal
  BY DEF TypingInit
<1>3. NoSignal.phase = "none"
  BY DEF NoSignal
<1>4. TypingTypeOK
  BY <1>1, TypingAssumption DEF TypingInit, TypingTypeOK, Entries
<1> QED BY <1>1, <1>2, <1>3, <1>4 DEF TypingInv, OneSignal, WatchersFollow, Holds

\* So a screen follows the directory.
LEMMA TypingMeans == TypingInv => ScreensFollowTheDirectory
<1> SUFFICES ASSUME TypingInv, NEW w \in Watcher, ~ missed[w] \/ Delivering
             PROVE  /\ IsActive => WillShow(w)
                    /\ entry.held /\ ~ entry.active => ~ WillShow(w)
  BY DEF ScreensFollowTheDirectory, Delivering
<1>1. CASE Delivering
  <2>1. PICK d \in Device : Holds(d, "deliver")
    BY <1>1 DEF Delivering
  <2>2. \A e \in Device : Holds(e, "deliver") => e = d
    BY <2>1 DEF TypingInv, OneSignal, Holds, NoSignal
  <2>3. WillShow(w) <=> signal[d].state = "Started"
    BY <2>1, <2>2 DEF WillShow
  <2> QED BY <2>1, <2>3 DEF TypingInv, OneSignal, IsActive
<1>2. CASE ~ Delivering
  <2>1. entry.held => Follows(w)
    BY <1>2 DEF TypingInv, WatchersFollow
  <2>2. WillShow(w) <=> IF inbox[w] # <<>> THEN Last(inbox[w]) = "Started" ELSE screen[w] > 0
    BY <1>2 DEF WillShow, Delivering
  <2>3. entry.age \in 0 .. Ttl /\ screen[w] \in 0 .. Ttl
    BY DEF TypingInv, TypingTypeOK
  <2> QED BY <2>1, <2>2, <2>3, TypingAssumption DEF Follows, IsActive
<1> QED BY <1>1, <1>2

LEMMA TypingStep == TypingInv /\ [TypingNext]_typingVars => TypingInv'
<1> SUFFICES ASSUME TypingInv, [TypingNext]_typingVars PROVE TypingInv'
  OBVIOUS
<1>0. /\ entry \in Entries /\ signal \in [Device -> InHand \cup {NoSignal}]
      /\ inbox \in [Watcher -> Seq(States)] /\ \A w \in Watcher : Len(inbox[w]) <= QueueLimit
      /\ missed \in [Watcher -> BOOLEAN] /\ screen \in [Watcher -> 0 .. Ttl]
  BY DEF TypingInv, TypingTypeOK, Entries, InHand, States
<1>a. /\ Throttling \in Nat \ {0} /\ Ttl \in Nat /\ Ttl > Throttling /\ QueueLimit \in Nat \ {0}
  BY TypingAssumption
<1>b. NoSignal.phase = "none" /\ NoEntry \in Entries /\ ~ NoEntry.held
  BY <1>a DEF NoSignal, NoEntry, Entries
<1>c. \A d \in Device : (signal[d] = NoSignal /\ signal[d].phase = "none") \/ signal[d] \in InHand
  BY <1>0, <1>b
<1>o. OneSignal /\ WatchersFollow /\ TypingTypeOK
  BY DEF TypingInv
\* What is left to prove of the types.
<1>t. ASSUME entry' \in Entries, signal' \in [Device -> InHand \cup {NoSignal}], participant' \in BOOLEAN,
             inbox' \in [Watcher -> Seq(States)], \A w \in Watcher : Len(inbox'[w]) <= QueueLimit,
             missed' \in [Watcher -> BOOLEAN], screen' \in [Watcher -> 0 .. Ttl]
      PROVE  TypingTypeOK'
  BY <1>t DEF TypingTypeOK, Entries, InHand, States
\* The queues and the screens stand still.
<1>u. ASSUME inbox' = inbox, missed' = missed, screen' = screen, entry' = entry, (Delivering' <=> Delivering)
      PROVE  WatchersFollow'
  <2>1. \A w : Follows(w)' = Follows(w)
    BY <1>u DEF Follows
  <2> QED BY <1>o, <1>u, <2>1 DEF WatchersFollow
\* A directory without the entry promises nothing.
<1>v. ASSUME entry' = NoEntry
      PROVE  WatchersFollow' /\ entry' \in Entries
  BY <1>b, <1>v DEF WatchersFollow
<1>1. ASSUME NEW d \in Device, NEW state \in States, Signal(d, state)
      PROVE  TypingInv'
  <2> DEFINE new == [phase |-> "audience", state |-> state, since |-> 0]
  <2>1. /\ \A e \in Device : signal[e] = NoSignal
        /\ signal' = [signal EXCEPT ![d] = new]
        /\ UNCHANGED <<entry, participant, inbox, missed, screen>>
    BY <1>1 DEF Signal, LockFree
  <2>2. new \in InHand /\ new.phase = "audience"
    BY <1>a DEF InHand
  <2> HIDE DEF new
  <2>3. \A e \in Device : signal'[e] = IF e = d THEN new ELSE NoSignal
    BY <1>0, <2>1
  <2>4. ~ Delivering /\ ~ Delivering'
    BY <1>b, <2>1, <2>2, <2>3 DEF Delivering, Holds
  <2>5. OneSignal'
    BY <1>b, <2>2, <2>3 DEF OneSignal, Holds
  <2>6. TypingTypeOK'
    BY <1>0, <1>o, <1>t, <2>1, <2>2 DEF TypingTypeOK
  <2> QED BY <1>u, <2>1, <2>4, <2>5, <2>6 DEF TypingInv
\* The lock is let go of.
<1>r. ASSUME NEW d \in Device, Holds(d, "audience") \/ Holds(d, "deliver"), Release(d)
      PROVE  /\ \A e \in Device : signal'[e] = NoSignal
             /\ signal' \in [Device -> InHand \cup {NoSignal}] /\ ~ Delivering' /\ OneSignal'
  <2>1. signal[d] # NoSignal
    BY <1>b, <1>r DEF Holds
  <2>2. \A e \in Device : e # d => signal[e] = NoSignal
    BY <1>o, <2>1 DEF OneSignal
  <2>3. \A e \in Device : signal'[e] = NoSignal
    BY <1>0, <1>r, <2>2 DEF Release
  <2>4. signal' \in [Device -> InHand \cup {NoSignal}]
    BY <1>0, <1>r DEF Release
  <2>5. ~ Delivering' /\ OneSignal'
    BY <1>b, <2>3 DEF Delivering, Holds, OneSignal
  <2> QED BY <2>3, <2>4, <2>5
<1>2. ASSUME NEW d \in Device, Forget(d)
      PROVE  TypingInv'
  <2>1. entry' = NoEntry /\ UNCHANGED <<participant, inbox, missed, screen>>
    BY <1>2 DEF Forget
  <2>2. signal' \in [Device -> InHand \cup {NoSignal}] /\ OneSignal'
    BY <1>2, <1>r DEF Forget
  <2>3. TypingTypeOK'
    BY <1>0, <1>o, <1>t, <1>v, <2>1, <2>2 DEF TypingTypeOK
  <2> QED BY <1>v, <2>1, <2>2, <2>3 DEF TypingInv
<1>3. ASSUME NEW d \in Device, Record(d)
      PROVE  TypingInv'
  <2> DEFINE started == signal[d].state = "Started"
             begun == signal[d].since
             handing == [signal[d] EXCEPT !.phase = "deliver"]
  <2>1. /\ signal[d].phase = "audience" /\ entry' = [held |-> TRUE, active |-> started, age |-> begun]
        /\ signal' = [signal EXCEPT ![d] = handing] /\ UNCHANGED <<participant, inbox, missed, screen>>
    BY <1>3, Zenon DEF Record, Holds
  <2>2. signal[d] \in InHand
    BY <1>b, <1>c, <2>1
  <2>3. handing \in InHand /\ handing.phase = "deliver" /\ handing.state = signal[d].state
    BY <2>2 DEF InHand
  <2>4. entry' \in Entries /\ entry'.held /\ (entry'.active <=> started)
    <3>1. started \in BOOLEAN /\ begun \in 0 .. Ttl
      BY <2>2 DEF InHand
    <3> HIDE DEF started, begun
    <3> QED BY <2>1, <3>1 DEF Entries
  <2> HIDE DEF handing
  <2>5. \A e \in Device : e # d => signal[e] = NoSignal
    BY <1>b, <1>o, <2>1 DEF OneSignal
  <2>6. \A e \in Device : signal'[e] = IF e = d THEN handing ELSE NoSignal
    BY <1>0, <2>1, <2>5
  <2>7. OneSignal'
    BY <1>b, <2>3, <2>4, <2>6 DEF OneSignal, Holds
  <2>8. Delivering'
    BY <2>3, <2>6 DEF Delivering, Holds
  <2>9. TypingTypeOK'
    BY <1>0, <1>o, <1>t, <2>1, <2>3, <2>4 DEF TypingTypeOK
  <2> QED BY <2>7, <2>8, <2>9 DEF TypingInv, WatchersFollow
<1>4. ASSUME NEW d \in Device, FanOut(d)
      PROVE  TypingInv'
  <2> DEFINE state == signal[d].state
  <2>1. /\ Holds(d, "deliver") /\ Release(d) /\ UNCHANGED <<entry, participant, screen>>
        /\ inbox' = [w \in Watcher |-> IF Len(inbox[w]) < QueueLimit THEN Append(inbox[w], state) ELSE inbox[w]]
        /\ missed' = [w \in Watcher |-> Len(inbox[w]) >= QueueLimit]
    BY <1>4 DEF FanOut
  <2>2. signal[d] \in InHand
    BY <1>b, <1>c, <2>1 DEF Holds
  <2>3. state \in States /\ entry.held /\ (entry.active <=> state = "Started")
    BY <1>o, <2>1, <2>2 DEF OneSignal, InHand
  <2>4. signal' \in [Device -> InHand \cup {NoSignal}] /\ OneSignal'
    BY <1>r, <2>1
  <2> HIDE DEF state
  <2>5. ASSUME NEW w \in Watcher
        PROVE  /\ inbox'[w] \in Seq(States) /\ Len(inbox'[w]) <= QueueLimit
               /\ missed'[w] = (Len(inbox[w]) >= QueueLimit)
               /\ ~ missed'[w] => inbox'[w] # <<>> /\ Last(inbox'[w]) = state
    <3>1. inbox[w] \in Seq(States) /\ Len(inbox[w]) \in Nat /\ Len(inbox[w]) <= QueueLimit
      BY <1>0
    <3>2. missed'[w] = (Len(inbox[w]) >= QueueLimit)
      BY <2>1, Zenon
    <3>3. inbox'[w] = IF Len(inbox[w]) < QueueLimit THEN Append(inbox[w], state) ELSE inbox[w]
      BY <2>1
    <3>4. CASE Len(inbox[w]) < QueueLimit
      <4>1. /\ inbox'[w] = Append(inbox[w], state) /\ Append(inbox[w], state) \in Seq(States)
            /\ Len(Append(inbox[w], state)) = Len(inbox[w]) + 1
            /\ Append(inbox[w], state)[Len(inbox[w]) + 1] = state
        BY <2>3, <3>1, <3>3, <3>4
      <4>2. Len(inbox'[w]) <= QueueLimit
        BY <1>a, <3>1, <3>4, <4>1
      <4>3. inbox'[w] # <<>> /\ Last(inbox'[w]) = state
        BY <3>1, <4>1 DEF Last
      <4> QED BY <3>2, <4>1, <4>2, <4>3
    <3>5. CASE ~ (Len(inbox[w]) < QueueLimit)
      <4>1. Len(inbox[w]) >= QueueLimit
        BY <1>a, <3>1, <3>5
      <4> QED BY <3>1, <3>2, <3>3, <3>5, <4>1
    <3> QED BY <3>4, <3>5
  <2>6. inbox' \in [Watcher -> Seq(States)] /\ missed' \in [Watcher -> BOOLEAN]
    <3>1. missed' \in [Watcher -> BOOLEAN]
      BY <2>1
    <3>2. inbox' = [w \in Watcher |-> inbox'[w]]
      BY <2>1
    <3> QED BY <2>5, <3>1, <3>2
  <2>7. TypingTypeOK'
    BY <1>0, <1>o, <1>t, <2>1, <2>4, <2>5, <2>6 DEF TypingTypeOK
  <2>8. WatchersFollow'
    BY <2>1, <2>3, <2>5 DEF WatchersFollow, Follows
  <2> QED BY <2>4, <2>7, <2>8 DEF TypingInv
<1>5. ASSUME NEW w \in Watcher, ApplyTyping(w)
      PROVE  TypingInv'
  <2> DEFINE first == Head(inbox[w])
             rest == Tail(inbox[w])
             shown == IF first = "Started" THEN Ttl ELSE 0
  <2>1. /\ inbox[w] # <<>> /\ inbox' = [inbox EXCEPT ![w] = rest] /\ screen' = [screen EXCEPT ![w] = shown]
        /\ UNCHANGED <<entry, signal, participant, missed>>
    BY <1>5 DEF ApplyTyping
  <2>2. /\ inbox[w] \in Seq(States) /\ rest \in Seq(States) /\ Len(rest) = Len(inbox[w]) - 1
        /\ Len(inbox[w]) \in Nat /\ first = inbox[w][1] /\ Len(inbox[w]) <= QueueLimit
        /\ \A i \in 1 .. Len(rest) : rest[i] = inbox[w][i + 1]
    BY <1>0, <2>1
  <2>3. shown \in 0 .. Ttl
    BY <1>a
  <2>4. IF rest # <<>> THEN Last(rest) = Last(inbox[w]) ELSE first = Last(inbox[w])
    <3>1. CASE rest # <<>>
      <4>1. Len(rest) \in Nat \ {0}
        <5> HIDE DEF rest
        <5> QED BY <2>2, <3>1, EmptySeq
      <4>2. rest[Len(rest)] = inbox[w][Len(rest) + 1] /\ Len(rest) + 1 = Len(inbox[w])
        <5> DEFINE n == Len(rest)
        <5>a. n \in Nat \ {0}
          BY <4>1
        <5>b. n = Len(inbox[w]) - 1 /\ Len(inbox[w]) \in Nat
          BY <2>2
        <5>2. \A i \in 1 .. n : rest[i] = inbox[w][i + 1]
          BY <2>2
        <5> HIDE DEF rest, n
        <5>1. n \in 1 .. n
          BY <5>a
        <5>3. rest[n] = inbox[w][n + 1] /\ n + 1 = Len(inbox[w])
          BY <5>b, <5>1, <5>2
        <5> QED BY <5>3 DEF n
      <4> QED BY <3>1, <4>2 DEF Last
    <3>2. CASE rest = <<>>
      <4>1. Len(rest) = 0
        <5> HIDE DEF rest
        <5> QED BY <2>2, <3>2, EmptySeq
      <4>2. Len(inbox[w]) = 1
        BY <2>2, <4>1
      <4> QED BY <2>2, <3>2, <4>2 DEF Last
    <3> QED BY <3>1, <3>2
  <2>5. Len(rest) <= QueueLimit
    BY <1>a, <2>2
  <2>6. first # "Started" => shown = 0
    OBVIOUS
  <2>7. first = "Started" => shown = Ttl
    OBVIOUS
  <2> HIDE DEF first, rest, shown
  <2>8. /\ \A x \in Watcher : inbox'[x] = IF x = w THEN rest ELSE inbox[x]
        /\ \A x \in Watcher : screen'[x] = IF x = w THEN shown ELSE screen[x]
        /\ inbox' \in [Watcher -> Seq(States)] /\ screen' \in [Watcher -> 0 .. Ttl]
    BY <1>0, <2>1, <2>2, <2>3
  <2>9. \A x \in Watcher : Len(inbox'[x]) <= QueueLimit
    BY <1>0, <2>5, <2>8
  <2>10. TypingTypeOK'
    BY <1>0, <1>o, <1>t, <2>1, <2>8, <2>9 DEF TypingTypeOK
  <2>11. OneSignal'
    BY <1>o, <2>1 DEF OneSignal, Holds
  <2>12. (Delivering' <=> Delivering)
    BY <2>1 DEF Delivering, Holds
  <2>13. entry.age \in 0 .. Ttl
    BY <1>0 DEF Entries
  <2>14. ASSUME NEW x \in Watcher, ~ missed[x], ~ Delivering, entry.held
         PROVE  Follows(x)'
    <3>1. Follows(x)
      BY <1>o, <2>14 DEF WatchersFollow
    <3>2. CASE x # w
      BY <2>1, <2>8, <3>1, <3>2 DEF Follows
    <3>3. CASE x = w
      <4>1. entry.active <=> Last(inbox[w]) = "Started"
        BY <2>1, <3>1, <3>3 DEF Follows
      <4>2. inbox'[w] = rest /\ screen'[w] = shown /\ entry' = entry
        BY <2>1, <2>8
      <4>3. CASE rest # <<>>
        BY <2>4, <3>3, <4>1, <4>2, <4>3 DEF Follows
      <4>4. CASE rest = <<>>
        <5>0. first = Last(inbox[w])
          BY <2>4, <4>4
        <5>1. (entry.active => shown = Ttl) /\ (~ entry.active => shown = 0)
          <6>1. (first = "Started" => shown = Ttl) /\ (first # "Started" => shown = 0)
            BY <2>6, <2>7
          <6> QED BY <4>1, <5>0, <6>1
        <5>2. entry.active => shown + entry.age >= Ttl
          BY <1>a, <2>13, <5>1
        <5> QED BY <3>3, <4>2, <4>4, <5>1, <5>2 DEF Follows
      <4> QED BY <4>3, <4>4
    <3> QED BY <3>2, <3>3
  <2>15. WatchersFollow'
    BY <2>1, <2>12, <2>14 DEF WatchersFollow
  <2> QED BY <2>10, <2>11, <2>15 DEF TypingInv
<1>6. CASE SweepTyping
  <2>1. /\ \A d \in Device : signal[d] = NoSignal
        /\ entry' = NoEntry /\ UNCHANGED <<signal, participant, inbox, missed, screen>>
    BY <1>6 DEF SweepTyping, LockFree
  <2>2. OneSignal'
    BY <1>b, <2>1 DEF OneSignal, Holds
  <2>3. TypingTypeOK'
    BY <1>0, <1>o, <1>t, <1>v, <2>1 DEF TypingTypeOK
  <2> QED BY <1>v, <2>1, <2>2, <2>3 DEF TypingInv
<1>7. ASSUME UNCHANGED <<entry, signal, inbox, missed, screen>>, participant' \in BOOLEAN
      PROVE  TypingInv'
  <2>1. OneSignal' /\ (Delivering' <=> Delivering)
    BY <1>o, <1>7 DEF OneSignal, Holds, Delivering
  <2>2. TypingTypeOK'
    BY <1>0, <1>7, <1>t
  <2> QED BY <1>7, <1>u, <2>1, <2>2 DEF TypingInv
<1>8. CASE Elapse
  <2> DEFINE age == Older(entry.age)
             Aged1(d) == [signal[d] EXCEPT !.since = Older(signal[d].since)]
  <2>1. /\ entry' = IF entry.held THEN [entry EXCEPT !.age = age] ELSE entry
        /\ signal' = [d \in Device |-> IF Holds(d, "audience") THEN Aged1(d) ELSE signal[d]]
        /\ screen' = [w \in Watcher |-> IF screen[w] > 0 THEN screen[w] - 1 ELSE 0]
        /\ UNCHANGED <<participant, inbox, missed>>
    BY <1>8 DEF Elapse
  <2>2. entry.age \in 0 .. Ttl /\ age \in 0 .. Ttl /\ (age = Ttl \/ age = entry.age + 1)
    BY <1>0, <1>a DEF Entries, Older
  <2> HIDE DEF age
  <2>3. /\ entry' \in Entries /\ entry'.held = entry.held /\ entry'.active = entry.active
        /\ entry.held => entry'.age = age
    BY <1>0, <2>1, <2>2 DEF Entries
  <2>4. ASSUME NEW d \in Device
        PROVE  /\ signal'[d] \in InHand \cup {NoSignal}
               /\ signal'[d].phase = signal[d].phase /\ signal'[d].state = signal[d].state
               /\ signal'[d] = NoSignal <=> signal[d] = NoSignal
    <3>1. CASE Holds(d, "audience")
      <4>1. signal[d] \in InHand
        BY <1>b, <1>c, <3>1 DEF Holds
      <4> DEFINE begun == Older(signal[d].since)
      <4>2. begun \in 0 .. Ttl
        BY <1>a, <4>1 DEF InHand, Older
      <4>3. signal'[d] = [signal[d] EXCEPT !.since = begun]
        BY <2>1, <3>1
      <4> HIDE DEF begun
      <4>4. signal'[d] \in InHand /\ signal'[d].phase = signal[d].phase /\ signal'[d].state = signal[d].state
        BY <4>1, <4>2, <4>3 DEF InHand
      <4> QED BY <1>b, <3>1, <4>4 DEF Holds
    <3>2. CASE ~ Holds(d, "audience")
      BY <1>0, <2>1, <3>2
    <3> QED BY <3>1, <3>2
  <2> HIDE DEF Aged1
  <2>5. signal' \in [Device -> InHand \cup {NoSignal}]
    BY <2>1, <2>4
  <2>6. OneSignal' /\ (Delivering' <=> Delivering)
    BY <1>o, <2>3, <2>4 DEF OneSignal, Delivering, Holds
  <2>7. ASSUME NEW w \in Watcher
        PROVE  screen'[w] \in 0 .. Ttl /\ screen[w] \in 0 .. Ttl
               /\ (screen'[w] = screen[w] - 1 \/ (screen'[w] = 0 /\ screen[w] = 0))
    BY <1>0, <1>a, <2>1
  <2>8. screen' \in [Watcher -> 0 .. Ttl]
    BY <2>1, <2>7
  <2>9. TypingTypeOK'
    BY <1>0, <1>o, <1>t, <2>1, <2>3, <2>5, <2>8 DEF TypingTypeOK
  <2>10. ASSUME NEW w \in Watcher, ~ missed[w], ~ Delivering, entry.held
         PROVE  Follows(w)'
    <3>1. Follows(w)
      BY <1>o, <2>10 DEF WatchersFollow
    <3>2. CASE inbox[w] # <<>>
      BY <2>1, <2>3, <3>1, <3>2 DEF Follows
    <3>3. CASE inbox[w] = <<>> /\ entry.active
      <4>1. screen[w] + entry.age >= Ttl
        BY <3>1, <3>3 DEF Follows
      <4>2. screen'[w] + age >= Ttl
        BY <1>a, <2>2, <2>7, <4>1
      <4> QED BY <2>1, <2>3, <2>10, <3>3, <4>2 DEF Follows
    <3>4. CASE inbox[w] = <<>> /\ ~ entry.active
      <4>1. screen[w] = 0
        BY <3>1, <3>4 DEF Follows
      <4>2. screen'[w] = 0
        BY <2>7, <4>1
      <4> QED BY <2>1, <2>3, <3>4, <4>2 DEF Follows
    <3> QED BY <3>2, <3>3, <3>4
  <2>11. WatchersFollow'
    BY <2>1, <2>3, <2>6, <2>10 DEF WatchersFollow
  <2> QED BY <2>6, <2>9, <2>11 DEF TypingInv
<1>9. CASE TypingRestart
  <2>1. /\ entry' = NoEntry /\ signal' = [d \in Device |-> NoSignal] /\ inbox' = [w \in Watcher |-> <<>>]
        /\ missed' = [w \in Watcher |-> FALSE] /\ UNCHANGED <<participant, screen>>
    BY <1>9 DEF TypingRestart
  <2>2. OneSignal'
    BY <1>b, <2>1 DEF OneSignal, Holds
  <2>3. /\ signal' \in [Device -> InHand \cup {NoSignal}] /\ inbox' \in [Watcher -> Seq(States)]
        /\ \A w \in Watcher : Len(inbox'[w]) <= QueueLimit
        /\ missed' \in [Watcher -> BOOLEAN]
    BY <1>a, <2>1
  <2>4. TypingTypeOK'
    BY <1>0, <1>o, <1>t, <1>v, <2>1, <2>3 DEF TypingTypeOK
  <2> QED BY <1>v, <2>1, <2>2, <2>4 DEF TypingInv
<1>10. CASE UNCHANGED typingVars
  BY <1>7, <1>10, <1>o DEF typingVars, TypingTypeOK
<1>11. CASE JoinOrLeave
  BY <1>7, <1>11, <1>o DEF JoinOrLeave, TypingTypeOK
<1>12. ASSUME NEW d \in Device, ClearTyping(d)
       PROVE  TypingInv'
  BY <1>1, <1>12 DEF ClearTyping, States
<1> QED
  BY <1>1, <1>2, <1>3, <1>4, <1>5, <1>6, <1>8, <1>9, <1>10, <1>11, <1>12 DEF TypingNext, States

-----------------------------------------------------------------------------
(* What people type *)

Letter == {"a", "A", "b", "1", "_", "@", ".", "?", "~", "/"}
Text == Seq(Letter)
UserRow == [id : Nat, typed : Text, handle : Text, mail : Text, email : Text, name : Text,
            verified : BOOLEAN]
FormRow == [username : Text, email : Text, password : Text, display : SUBSET Text]

LEMMA FirstOf ==
  ASSUME NEW S \in SUBSET Nat, S # {}
  PROVE  Min(S) \in S /\ \A y \in S : Min(S) <= y
BY Least DEF Min

LEMMA LastOf ==
  ASSUME NEW n \in Nat, NEW S \in SUBSET (1 .. n), S # {}
  PROVE  Max(S) \in S /\ \A y \in S : Max(S) >= y
<1> DEFINE T == {n - x : x \in S}
<1>0. \A x \in S : x \in Nat /\ n - x \in Nat
  OBVIOUS
<1>1. T \in SUBSET Nat /\ T # {}
  BY <1>0
<1>2. PICK z \in T : \A y \in T : z <= y
  BY <1>1, Least
<1>3. PICK x \in S : z = n - x
  BY <1>2
<1>4. ASSUME NEW y \in S PROVE x >= y
  <2>1. n - y \in T /\ x \in 1 .. n /\ y \in 1 .. n
    OBVIOUS
  <2>2. n - x <= n - y
    BY <1>2, <1>3, <2>1
  <2> QED BY <2>1, <2>2
<1> QED BY <1>4 DEF Max

LEMMA Between ==
  ASSUME NEW t \in Text, NEW m \in 1 .. Len(t), NEW n \in 1 .. Len(t), m <= n
  PROVE  /\ SubSeq(t, m, n) \in Text /\ Len(SubSeq(t, m, n)) = n - m + 1
         /\ \A i \in 1 .. (n - m + 1) : SubSeq(t, m, n)[i] = t[m + i - 1]
<1>1. m \in Int /\ n \in Int /\ \A i \in m .. n : t[i] \in Letter
  BY DEF Text
<1> QED BY <1>1, SubSeqProperties DEF Text

\* Trimming leaves a text, no longer than it was, and nothing of a blank one only.
LEMMA TrimIs ==
  ASSUME NEW t \in Text
  PROVE  /\ Trim(t) \in Text /\ Len(Trim(t)) <= Len(t)
         /\ (Trim(t) = <<>>) <=> (\A i \in 1 .. Len(t) : t[i] = "~")
<1> DEFINE ink == {i \in DOMAIN t : t[i] # "~"}
<1>0. DOMAIN t = 1 .. Len(t) /\ Len(t) \in Nat
  BY DEF Text
<1>1. CASE ink = {}
  <2>1. Trim(t) = <<>>
    BY <1>1 DEF Trim
  <2>2. \A i \in 1 .. Len(t) : t[i] = "~"
    BY <1>0, <1>1
  <2>3. Trim(t) \in Text /\ Len(Trim(t)) = 0
    BY <2>1 DEF Text
  <2> QED BY <1>0, <2>1, <2>2, <2>3
<1>2. CASE ink # {}
  <2>0. \A i \in ink : i \in 1 .. Len(t)
    BY <1>0
  <2>1. ink \in SUBSET Nat /\ ink \in SUBSET (1 .. Len(t))
    BY <1>0, <2>0
  <2>2. Min(ink) \in ink /\ Max(ink) \in ink /\ Min(ink) <= Max(ink)
    BY <1>0, <1>2, <2>1, FirstOf, LastOf
  <2>3. Trim(t) = SubSeq(t, Min(ink), Max(ink))
    BY <1>2 DEF Trim
  <2>4. ~ \A i \in 1 .. Len(t) : t[i] = "~"
    BY <1>0, <1>2
  <2> HIDE DEF ink
  <2>5. Min(ink) \in 1 .. Len(t) /\ Max(ink) \in 1 .. Len(t)
    BY <2>1, <2>2
  <2>6. Trim(t) \in Text /\ Len(Trim(t)) = Max(ink) - Min(ink) + 1
    BY <2>2, <2>3, <2>5, Between
  <2>7. Len(Trim(t)) <= Len(t) /\ Len(Trim(t)) # 0
    BY <1>0, <2>2, <2>5, <2>6
  <2>8. Trim(t) # <<>>
    BY <2>7
  <2> QED BY <2>4, <2>6, <2>7, <2>8
<1> QED BY <1>1, <1>2

\* Lowercase twice is lowercase once.
LEMMA LowerIs ==
  ASSUME NEW t \in Text
  PROVE  /\ Lower(t) \in Text /\ Len(Lower(t)) = Len(t) /\ DOMAIN Lower(t) = 1 .. Len(t)
         /\ Lower(Lower(t)) = Lower(t)
         /\ (\A i \in 1 .. Len(t) : t[i] # "A") => Lower(t) = t
<1>0. DOMAIN t = 1 .. Len(t) /\ Len(t) \in Nat /\ \A i \in 1 .. Len(t) : t[i] \in Letter
  BY DEF Text
<1>1. Lower(t) \in [1 .. Len(t) -> Letter]
  <2>1. ASSUME NEW i \in 1 .. Len(t) PROVE (IF t[i] = "A" THEN "a" ELSE t[i]) \in Letter
    <3>1. "a" \in Letter
      BY DEF Letter
    <3> QED BY <1>0, <3>1
  <2> QED BY <1>0, <2>1 DEF Lower
<1>2. Lower(t) \in Text /\ Len(Lower(t)) = Len(t) /\ DOMAIN Lower(t) = 1 .. Len(t)
  BY <1>0, <1>1 DEF Text
<1>3. \A i \in 1 .. Len(t) : Lower(t)[i] # "A"
  BY <1>0 DEF Lower
<1>4. ASSUME NEW s \in Text, \A i \in 1 .. Len(s) : s[i] # "A" PROVE Lower(s) = s
  <2>1. DOMAIN s = 1 .. Len(s) /\ s = [i \in DOMAIN s |-> s[i]]
    BY DEF Text
  <2> QED BY <1>4, <2>1 DEF Lower
<1>5. Lower(Lower(t)) = Lower(t)
  <2> DEFINE s == Lower(t)
  <2>1. s \in Text /\ \A i \in 1 .. Len(s) : s[i] # "A"
    BY <1>2, <1>3
  <2> HIDE DEF s
  <2>2. Lower(s) = s
    BY <1>4, <2>1
  <2> QED BY <2>2 DEF s
<1> QED BY <1>2, <1>4, <1>5

LEMMA FoldedIs ==
  ASSUME NEW t \in Text
  PROVE  /\ Lower(Trim(t)) \in Text /\ Lower(Lower(Trim(t))) = Lower(Trim(t))
         /\ (Lower(Trim(t)) = <<>>) <=> (Trim(t) = <<>>)
<1> DEFINE s == Trim(t)
<1>1. s \in Text
  BY TrimIs
<1> HIDE DEF s
<1>2. Lower(s) \in Text /\ Len(Lower(s)) = Len(s) /\ Lower(Lower(s)) = Lower(s)
  BY <1>1, LowerIs
<1>3. Lower(s) = <<>> <=> s = <<>>
  BY <1>1, <1>2, EmptySeq DEF Text
<1> QED BY <1>1, <1>2, <1>3 DEF s

LEMMA PartOf ==
  ASSUME NEW t \in Text, NEW m \in Nat, NEW n \in Nat, 1 <= m, n <= Len(t)
  PROVE  SubSeq(t, m, n) \in Text
<1>1. m \in Int /\ n \in Int
  OBVIOUS
<1>2. \A i \in m .. n : t[i] \in Letter
  BY DEF Text
<1> QED BY <1>1, <1>2, SubSeqProperties DEF Text

LEMMA Joined ==
  ASSUME NEW s \in Text, NEW t \in Text
  PROVE  /\ s \o t \in Text /\ Len(s \o t) = Len(s) + Len(t)
         /\ \A i \in 1 .. (Len(s) + Len(t)) : (s \o t)[i] = IF i <= Len(s) THEN s[i] ELSE t[i - Len(s)]
BY DEF Text

LEMMA SlipsAreTexts ==
  ASSUME NEW t \in Text, NEW alphabet \in SUBSET Letter
  PROVE  Slips(t, alphabet) \subseteq Text
<1>0. DOMAIN t = 1 .. Len(t) /\ Len(t) \in Nat
  BY DEF Text
<1>1. ASSUME NEW i \in 1 .. Len(t) PROVE RemoveAt(t, i) \in Text
  <2>1. SubSeq(t, 1, i - 1) \in Text
    BY <1>0, PartOf
  <2>2. SubSeq(t, i + 1, Len(t)) \in Text
    BY <1>0, PartOf
  <2> QED BY <2>1, <2>2, Joined DEF RemoveAt
<1>2. ASSUME NEW i \in 1 .. Len(t), NEW c \in alphabet PROVE ReplaceAt(t, i, c) \in Text
  <2>1. c \in Letter
    OBVIOUS
  <2> QED BY <1>0, <2>1 DEF ReplaceAt, Text
<1>3. ASSUME NEW i \in 1 .. (Len(t) + 1), NEW c \in alphabet PROVE InsertAt(t, i, c) \in Text
  <2>1. SubSeq(t, 1, i - 1) \in Text
    BY <1>0, PartOf
  <2>2. SubSeq(t, i, Len(t)) \in Text
    BY <1>0, PartOf
  <2>3. c \in Letter
    OBVIOUS
  <2>4. <<c>> \in Text
    BY <2>3 DEF Text
  <2>5. SubSeq(t, 1, i - 1) \o <<c>> \in Text
    BY <2>1, <2>4, Joined
  <2> QED BY <2>2, <2>5, Joined DEF InsertAt
<1> QED BY <1>0, <1>1, <1>2, <1>3 DEF Slips

LEMMA Words ==
  /\ Handle \in Text /\ LongHandle \in Text /\ Blank \in Text /\ Password \in Text /\ <<>> \in Text
  /\ \A u \in Letter : Mail(u) \in Text /\ Padded(u) \in Text
<1>1. \A x, y \in Letter : <<x>> \in Text /\ <<x, y>> \in Text
  BY DEF Text
<1>2. {"a", "A", "b", "1", "_", "@", ".", "?", "~", "/"} \subseteq Letter
  BY DEF Letter
<1>3. Handle \in Text /\ Blank \in Text /\ Password \in Text /\ <<>> \in Text
  <2>1. "a" \in Letter /\ "b" \in Letter /\ "1" \in Letter /\ "~" \in Letter
    BY <1>2
  <2>2. Handle \in Text
    BY <1>1, <2>1 DEF Handle
  <2>3. Blank \in Text
    BY <1>1, <2>1 DEF Blank
  <2>4. Password \in Text
    BY <1>1, <2>1 DEF Password
  <2>5. <<>> \in Text
    BY DEF Text
  <2> QED BY <2>2, <2>3, <2>4, <2>5
<1>4. LongHandle \in Text
  <2>1. <<"1">> \in Text
    BY <1>1, <1>2
  <2> QED BY <1>3, <2>1, Joined DEF LongHandle
<1>5. ASSUME NEW u \in Letter PROVE Mail(u) \in Text
  <2>1. u \in Letter /\ "@" \in Letter /\ "a" \in Letter /\ "." \in Letter /\ "b" \in Letter
    BY <1>2
  <2>2. \A p, q, r, s, v \in Letter : <<p, q, r, s, v>> \in Text
    BY DEF Text
  <2> QED BY <2>1, <2>2 DEF Mail
<1>6. ASSUME NEW u \in Letter PROVE Padded(u) \in Text
  <2>1. u \in Letter /\ "@" \in Letter /\ "~" \in Letter /\ "." \in Letter /\ "b" \in Letter
    BY <1>2
  <2>2. \A p, q, r, s, v, w \in Letter : <<p, q, r, s, v, w>> \in Text
    BY DEF Text
  <2> QED BY <2>1, <2>2 DEF Padded
<1> QED BY <1>3, <1>4, <1>5, <1>6

\* Whatever is typed is a text.
LEMMA TypedTexts ==
  /\ HandleTexts \subseteq Text /\ MailTexts \subseteq Text
  /\ \A form \in Registrations : form \in FormRow /\ \A s, t \in form.display : s = t
<1>1. {"a", "A", "b", "1", "_", "@", ".", "?", "~", "/"} \subseteq Letter
  BY DEF Letter
<1>2. HandleTexts \subseteq Text
  <2>1. Slips(Handle, {"A", "?", "~"}) \subseteq Text /\ Slips(LongHandle, {"A", "_"}) \subseteq Text
    BY <1>1, Words, SlipsAreTexts
  <2> QED BY <2>1, Words DEF HandleTexts
<1>3. MailTexts \subseteq Text
  <2>1. Mail("a") \in Text /\ Mail("b") \in Text
    BY <1>1, Words
  <2>2. Slips(Mail("a"), {"A", "@", ".", "~"}) \subseteq Text
    BY <1>1, <2>1, SlipsAreTexts
  <2> QED BY <2>1, <2>2, Words DEF MailTexts
<1>4. ASSUME NEW u \in Text, NEW m \in Text
      PROVE  /\ Registration(u, m) \in FormRow /\ Registration(u, m).display = {}
             /\ \A p \in Text : /\ [Registration(u, m) EXCEPT !.password = p] \in FormRow
                               /\ [Registration(u, m) EXCEPT !.password = p].display = {}
             /\ \A d \in SUBSET Text : /\ [Registration(u, m) EXCEPT !.display = d] \in FormRow
                                      /\ [Registration(u, m) EXCEPT !.display = d].display = d
  <2>1. Registration(u, m) \in FormRow /\ Registration(u, m).display = {}
    BY Words DEF Registration, FormRow
  <2> QED BY <2>1 DEF FormRow
<1>5. Mail("a") \in Text /\ Handle \in Text /\ <<"b", "1">> \in Text
  <2>1. "b" \in Letter /\ "1" \in Letter /\ "a" \in Letter
    BY <1>1
  <2> QED BY <2>1, Words DEF Text
<1>6. /\ Slips(Password, {"b", "?"}) \subseteq Text /\ Slips(<<"a", "1", "?">>, {"b"}) \subseteq Text
      /\ Slips(<<"?", "A">>, {"~", "a"}) \cup {Blank} \subseteq Text
  <2>1. "a" \in Letter /\ "1" \in Letter /\ "A" \in Letter /\ "?" \in Letter
    BY <1>1
  <2>2. <<"a", "1", "?">> \in Text /\ <<"?", "A">> \in Text
    BY <2>1 DEF Text
  <2> QED BY <1>1, <2>2, Words, SlipsAreTexts
<1>7. ASSUME NEW form \in Registrations
      PROVE  form \in FormRow /\ \A s, t \in form.display : s = t
  <2>1. CASE form \in {Registration(u, Mail("a")) : u \in HandleTexts}
    BY <1>2, <1>4, <1>5, <2>1
  <2>2. CASE form \in {Registration(<<"b", "1">>, m) : m \in MailTexts}
    BY <1>3, <1>4, <1>5, <2>2
  <2>3. CASE form \in {[Registration(Handle, Mail("a")) EXCEPT !.password = p] :
                        p \in Slips(Password, {"b", "?"}) \cup Slips(<<"a", "1", "?">>, {"b"})}
    <3>1. PICK p \in Text : form = [Registration(Handle, Mail("a")) EXCEPT !.password = p]
      BY <1>6, <2>3
    <3>2. /\ [Registration(Handle, Mail("a")) EXCEPT !.password = p] \in FormRow
          /\ [Registration(Handle, Mail("a")) EXCEPT !.password = p].display = {}
      BY <1>4, <1>5
    <3>3. form \in FormRow /\ form.display = {}
      BY <3>1, <3>2
    <3> QED BY <3>3
  <2>4. CASE form \in {[Registration(Handle, Mail("a")) EXCEPT !.display = d] :
                        d \in {{t} : t \in Slips(<<"?", "A">>, {"~", "a"}) \cup {Blank}}}
    <3>1. PICK t \in Text : form = [Registration(Handle, Mail("a")) EXCEPT !.display = {t}]
      BY <1>6, <2>4
    <3> DEFINE r == Registration(Handle, Mail("a"))
               d == {t}
    <3>0. \A e \in SUBSET Text : [r EXCEPT !.display = e] \in FormRow /\ [r EXCEPT !.display = e].display = e
      <4>1. Handle \in Text /\ Mail("a") \in Text
        BY <1>5
      <4> QED BY <1>4, <4>1
    <3>2. d \in SUBSET Text
      OBVIOUS
    <3> HIDE DEF d
    <3>3. /\ [Registration(Handle, Mail("a")) EXCEPT !.display = d] \in FormRow
          /\ [Registration(Handle, Mail("a")) EXCEPT !.display = d].display = d
      BY <3>0, <3>2
    <3>4. form \in FormRow /\ form.display = d
      BY <3>1, <3>3 DEF d
    <3> QED BY <3>4 DEF d
  <2> QED BY <2>1, <2>2, <2>3, <2>4 DEF Registrations
<1> QED BY <1>2, <1>3, <1>7

\* A display name that fits, or the handle it falls back to, is one the column takes.
LEMMA NamesFit ==
  ASSUME NEW d \in SUBSET Text, \A s, t \in d : s = t, DisplayNameFits(d), NEW u \in Text, UsernameFits(u)
  PROVE  DisplayName(d, u) \in Text /\ Len(DisplayName(d, u)) \in 1 .. Limits.name
<1>1. /\ Limits.handleMin \in Nat /\ Limits.handleMax \in Nat /\ Limits.name \in Nat
      /\ 1 <= Limits.handleMin /\ Limits.handleMax <= Limits.name
  BY FormsAssumption
<1>2. CASE \E t \in d : Trim(t) # <<>>
  <2>1. PICK t \in d : Trim(t) # <<>> /\ d = {t}
    BY <1>2
  <2>2. DisplayName(d, u) = Trim(t)
    BY <1>2, <2>1 DEF DisplayName
  <2>3. t \in Text /\ Trim(t) \in Text /\ Len(Trim(t)) <= Limits.name
    BY <2>1, TrimIs DEF DisplayNameFits
  <2>4. Len(Trim(t)) \in Nat /\ Len(Trim(t)) # 0
    BY <2>1, <2>3, EmptySeq DEF Text
  <2> QED BY <1>1, <2>2, <2>3, <2>4
<1>3. CASE ~ \E t \in d : Trim(t) # <<>>
  <2>1. DisplayName(d, u) = u
    BY <1>3 DEF DisplayName
  <2>2. Len(u) \in Nat /\ Len(u) \in Limits.handleMin .. Limits.handleMax
    BY DEF UsernameFits, Text
  <2> QED BY <1>1, <2>1, <2>2
<1> QED BY <1>2, <1>3

\* What validation.rs lets through, the CHECKs of users take: for every text, not the typed ones only.
LEMMA FittingForm ==
  ASSUME NEW form \in FormRow, \A s, t \in form.display : s = t, NEW id \in Nat, RegistrationFits(form)
  PROVE  LET row == AccountRow(form, id) IN
         /\ row \in UserRow /\ UsersCheck(row)
         /\ row.handle = Lower(Trim(row.typed)) /\ row.email = Lower(Trim(row.mail)) /\ EmailFits(row.email)
<1> DEFINE row == AccountRow(form, id)
           u == NormalizeUsername(form.username)
           m == NormalizeEmail(form.email)
           n == DisplayName(form.display, u)
<1>1. form.username \in Text /\ form.email \in Text /\ form.display \in SUBSET Text
  BY DEF FormRow
<1>2. u \in Text /\ m \in Text /\ Lower(m) = m /\ u = Lower(Trim(form.username)) /\ m = Lower(Trim(form.email))
  BY <1>1, FoldedIs DEF NormalizeUsername, NormalizeEmail
<1>3. UsernameFits(u) /\ EmailFits(m) /\ DisplayNameFits(form.display)
  BY DEF RegistrationFits
<1>4. n \in Text /\ Len(n) \in 1 .. Limits.name
  BY <1>1, <1>2, <1>3, NamesFit
<1>5. row = [id |-> id, typed |-> form.username, handle |-> u, mail |-> form.email, email |-> m,
             name |-> n, verified |-> FALSE]
  BY DEF AccountRow
<1> HIDE DEF u, m, n, row
<1>6. row \in UserRow /\ row.handle = u /\ row.email = m /\ row.name = n
      /\ row.typed = form.username /\ row.mail = form.email
  BY <1>1, <1>2, <1>4, <1>5 DEF UserRow
<1>7. UsersCheck(row)
  BY <1>2, <1>3, <1>4, <1>6 DEF UsersCheck, UsernameFits
<1> QED BY <1>2, <1>3, <1>6, <1>7 DEF row

Rows ==
  /\ accounts \in SUBSET UserRow /\ IsFiniteSet(accounts)
  /\ \A a \in accounts : UsersCheck(a)

AnswersFit ==
  /\ answer.is \in {"refused", "misfit", "taken", "stored", "found"}
  /\ answer.found \subseteq accounts
  /\ TablesTakeWhatIsWritten

\* An account is kept as it was typed, folded, under an address that fits.
AsTyped ==
  \A a \in accounts : /\ a.handle = Lower(Trim(a.typed)) /\ a.email = Lower(Trim(a.mail))
                      /\ EmailFits(a.email)

FormsInv == Rows /\ AnswersFit /\ AsTyped /\ RetypedTextFindsTheAccount

LEMMA Numbered == Rows => Cardinality(accounts) + 1 \in Nat
BY FS_CardinalityType DEF Rows

LEMMA Inserted ==
  ASSUME Rows, NEW of, NEW row \in UserRow, Insert(of, row)
  PROVE  /\ Rows' /\ answer'.of = of /\ answer'.is \in {"misfit", "taken", "stored"}
         /\ answer'.found \subseteq accounts'
         /\ answer'.is = "misfit" => ~ UsersCheck(row) /\ answer'.asked = row.name
         /\ answer'.is = "stored" => accounts' = accounts \cup {row} /\ UsersCheck(row)
         /\ answer'.is # "stored" => accounts' = accounts
<1>1. CASE ~ UsersCheck(row) /\ answer' = Answer(of, row.name, "misfit", {}) /\ UNCHANGED accounts
  <2>1. answer'.of = of /\ answer'.is = "misfit" /\ answer'.found = {} /\ answer'.asked = row.name
    BY <1>1 DEF Answer
  <2> QED BY <1>1, <2>1 DEF Rows, UsersCheck
<1>2. CASE /\ answer' = Answer(of, row.handle, "taken", ByHandle(row.handle) \cup ByEmail(row.email))
           /\ UNCHANGED accounts
  <2>1. answer'.of = of /\ answer'.is = "taken" /\ answer'.found = ByHandle(row.handle) \cup ByEmail(row.email)
    BY <1>2 DEF Answer
  <2>2. answer'.found \subseteq accounts
    BY <2>1 DEF ByHandle, ByEmail
  <2> QED BY <1>2, <2>1, <2>2 DEF Rows, UsersCheck
<1>3. CASE UsersCheck(row) /\ accounts' = accounts \cup {row} /\ answer' = Answer(of, row.handle, "stored", {row})
  <2>1. answer'.of = of /\ answer'.is = "stored" /\ answer'.found = {row}
    BY <1>3 DEF Answer
  <2>2. IsFiniteSet(accounts')
    BY <1>3, FS_AddElement DEF Rows
  <2>3. Rows'
    BY <1>3, <2>2 DEF Rows, UsersCheck
  <2> QED BY <1>3, <2>1, <2>3
<1> QED BY <1>1, <1>2, <1>3 DEF Insert

LEMMA FormsInitially == FormsInit => FormsInv
<1> SUFFICES ASSUME FormsInit PROVE FormsInv
  OBVIOUS
<1>1. accounts = {} /\ answer.of = "nothing" /\ answer.is = "refused" /\ answer.found = {}
  BY DEF FormsInit, NoAnswer, Answer
<1>2. Rows
  BY <1>1, FS_EmptySet DEF Rows
<1> QED BY <1>1, <1>2 DEF FormsInv, AnswersFit, AsTyped, TablesTakeWhatIsWritten, RetypedTextFindsTheAccount

LEMMA LookedUp ==
  ASSUME NEW of, NEW asked, NEW fits \in BOOLEAN, NEW found, Look(of, asked, fits, found)
  PROVE  /\ accounts' = accounts /\ answer'.of = of /\ answer'.asked = asked
         /\ fits => answer'.is = "found" /\ answer'.found = found
         /\ ~ fits => answer'.is = "refused" /\ answer'.found = {}
BY DEF Look, Answer

\* A handler that leaves the accounts alone keeps everything but what it answers.
LEMMA Unwritten ==
  ASSUME FormsInv, accounts' = accounts
  PROVE  Rows' /\ AsTyped'
BY DEF FormsInv, Rows, AsTyped, UsersCheck, EmailFits

LEMMA AnsweredOtherwise ==
  ASSUME FormsInv, accounts' = accounts, answer'.of \notin {"handle", "email"},
         answer'.is \in {"refused", "stored", "found"}, answer'.found \subseteq accounts
  PROVE  FormsInv'
<1>1. Rows' /\ AsTyped'
  BY Unwritten
<1>2. TablesTakeWhatIsWritten'
  BY DEF TablesTakeWhatIsWritten
<1>3. RetypedTextFindsTheAccount'
  BY DEF RetypedTextFindsTheAccount
<1>4. AnswersFit'
  BY <1>2 DEF AnswersFit
<1> QED BY <1>1, <1>3, <1>4 DEF FormsInv

LEMMA RegisteringKept ==
  ASSUME FormsInv, NEW form \in Registrations, RegisterForm(form)
  PROVE  FormsInv'
<1> DEFINE id == Cardinality(accounts) + 1
           row == AccountRow(form, id)
<1>1. id \in Nat /\ Rows
  BY Numbered DEF FormsInv
<1>2. RegistrationFits(form) /\ Insert("register", row)
  BY DEF RegisterForm
<1>3. form \in FormRow /\ \A s, t \in form.display : s = t
  BY TypedTexts
<1> HIDE DEF id
<1>4. /\ row \in UserRow /\ UsersCheck(row)
      /\ row.handle = Lower(Trim(row.typed)) /\ row.email = Lower(Trim(row.mail)) /\ EmailFits(row.email)
  BY <1>1, <1>2, <1>3, FittingForm
<1> HIDE DEF row
<1>5. /\ Rows' /\ answer'.of = "register" /\ answer'.is \in {"taken", "stored"}
      /\ answer'.found \subseteq accounts'
      /\ answer'.is = "stored" => accounts' = accounts \cup {row}
      /\ answer'.is # "stored" => accounts' = accounts
  BY <1>1, <1>2, <1>4, Inserted
<1>6. AsTyped'
  <2>1. CASE accounts' = accounts
    BY <2>1, Unwritten
  <2>2. CASE accounts' = accounts \cup {row}
    <3>1. \A a \in accounts : /\ a.handle = Lower(Trim(a.typed)) /\ a.email = Lower(Trim(a.mail))
                              /\ EmailFits(a.email)
      BY DEF FormsInv, AsTyped
    <3>2. \A a \in accounts' : /\ a.handle = Lower(Trim(a.typed)) /\ a.email = Lower(Trim(a.mail))
                               /\ EmailFits(a.email)
      BY <1>4, <2>2, <3>1
    <3> QED BY <3>2 DEF AsTyped, EmailFits
  <2> QED BY <1>5, <2>1, <2>2
<1>7. TablesTakeWhatIsWritten' /\ RetypedTextFindsTheAccount'
  BY <1>5 DEF TablesTakeWhatIsWritten, RetypedTextFindsTheAccount
<1>8. AnswersFit'
  BY <1>5, <1>7 DEF AnswersFit
<1> QED BY <1>5, <1>6, <1>7, <1>8 DEF FormsInv

\* An address that was asked for, whatever its case and padding.
LEMMA AddressAsked ==
  ASSUME FormsInv, NEW of \in {"login", "email"}, NEW m, NEW fits \in BOOLEAN,
         fits => EmailFits(NormalizeEmail(m)), of = "email" => (fits <=> EmailFits(NormalizeEmail(m))),
         Look(of, m, fits, ByEmail(NormalizeEmail(m)))
  PROVE  FormsInv'
<1>1. /\ accounts' = accounts /\ answer'.of = of /\ answer'.asked = m
      /\ fits => answer'.is = "found" /\ answer'.found = ByEmail(NormalizeEmail(m))
      /\ ~ fits => answer'.is = "refused" /\ answer'.found = {}
  BY LookedUp
<1>2. \A a \in accounts : a.email = Lower(Trim(a.mail)) /\ EmailFits(a.email)
  BY DEF FormsInv, AsTyped
<1>3. CASE of = "login"
  <2>1. answer'.of \notin {"handle", "email"} /\ answer'.is \in {"refused", "stored", "found"}
    BY <1>1, <1>3
  <2>2. answer'.found \subseteq accounts
    BY <1>1 DEF ByEmail
  <2> QED BY <1>1, <2>1, <2>2, AnsweredOtherwise
<1>4. CASE of = "email"
  <2>1. Rows' /\ AsTyped'
    BY <1>1, Unwritten
  <2>2. TablesTakeWhatIsWritten'
    BY <1>1 DEF TablesTakeWhatIsWritten
  <2>3. AnswersFit'
    BY <1>1, <2>2 DEF AnswersFit, ByEmail
  <2>4. RetypedTextFindsTheAccount'
    <3>1. CASE fits
      <4>1. answer'.found = {a \in accounts : a.email = Lower(Trim(m))}
        BY <1>1, <3>1 DEF ByEmail, NormalizeEmail
      <4>2. answer'.found = {a \in accounts' : Same(a.mail, answer'.asked)}
        BY <1>1, <1>2, <4>1 DEF Same
      <4>3. answer'.is = "found" /\ answer'.of = "email"
        BY <1>1, <1>4, <3>1
      <4> QED BY <4>2, <4>3 DEF RetypedTextFindsTheAccount
    <3>2. CASE ~ fits
      <4>1. ~ EmailFits(Lower(Trim(m)))
        BY <1>4, <3>2 DEF NormalizeEmail
      <4>2. \A a \in accounts' : ~ Same(a.mail, answer'.asked)
        BY <1>1, <1>2, <4>1 DEF Same
      <4>3. answer'.is = "refused" /\ answer'.of = "email"
        BY <1>1, <1>4, <3>2
      <4> QED BY <4>2, <4>3 DEF RetypedTextFindsTheAccount
    <3> QED BY <3>1, <3>2
  <2> QED BY <2>1, <2>3, <2>4 DEF FormsInv
<1> QED BY <1>3, <1>4

LEMMA PeerNamed ==
  ASSUME FormsInv, NEW u \in Text, NamePeer(u)
  PROVE  FormsInv'
<1> DEFINE sought == Lower(Trim(u))
<1>1. /\ accounts' = accounts /\ answer'.of = "handle" /\ answer'.asked = u
      /\ sought # <<>> => answer'.is = "found" /\ answer'.found = ByHandle(sought)
      /\ ~ (sought # <<>>) => answer'.is = "refused" /\ answer'.found = {}
  <2> DEFINE fits == sought # <<>>
  <2>1. Look("handle", u, fits, ByHandle(sought)) /\ fits \in BOOLEAN
    BY DEF NamePeer
  <2> HIDE DEF fits, sought
  <2>2. /\ accounts' = accounts /\ answer'.of = "handle" /\ answer'.asked = u
        /\ fits => answer'.is = "found" /\ answer'.found = ByHandle(sought)
        /\ ~ fits => answer'.is = "refused" /\ answer'.found = {}
    BY <2>1, LookedUp
  <2> QED BY <2>2 DEF fits
<1>2. \A a \in accounts : a.handle = Lower(Trim(a.typed))
  BY DEF FormsInv, AsTyped
<1>3. \A a \in accounts : a.handle # <<>>
  <2>1. ASSUME NEW a \in accounts PROVE a.handle # <<>>
    <3>1. Len(a.handle) \in Limits.handleMin .. Limits.handleMax
      BY DEF FormsInv, Rows, UsersCheck
    <3>2. a.handle \in Text
      BY DEF FormsInv, Rows, UserRow
    <3>3. 1 <= Limits.handleMin /\ Limits.handleMin \in Nat /\ Limits.handleMax \in Nat
      BY FormsAssumption
    <3>4. Len(a.handle) # 0
      BY <3>1, <3>2, <3>3 DEF Text
    <3> QED BY <3>4
  <2> QED BY <2>1
<1> HIDE DEF sought
<1>4. answer'.found = {a \in accounts : a.handle = sought}
  BY <1>1, <1>3 DEF ByHandle
<1>5. answer'.found = {a \in accounts' : Same(a.typed, answer'.asked)}
  BY <1>1, <1>2, <1>4 DEF Same, sought
<1>6. Rows' /\ AsTyped'
  BY <1>1, Unwritten
<1>7. TablesTakeWhatIsWritten' /\ answer'.is \in {"refused", "found"}
  BY <1>1 DEF TablesTakeWhatIsWritten
<1>8. AnswersFit'
  BY <1>1, <1>4, <1>7 DEF AnswersFit
<1>9. RetypedTextFindsTheAccount'
  BY <1>1, <1>5 DEF RetypedTextFindsTheAccount
<1> QED BY <1>6, <1>8, <1>9 DEF FormsInv

LEMMA GroupNamed ==
  ASSUME FormsInv, NEW t \in Text, NEW us, NameGroup(t, us)
  PROVE  FormsInv'
<1> DEFINE stored == Trim(t)
           named == UNION {ByHandle(u) : u \in Invited(us)}
<1>1. stored \in Text /\ Len(stored) \in Nat /\ Limits.title \in Nat
  BY TrimIs, FormsAssumption DEF Text
<1>2. named \subseteq accounts
  BY DEF ByHandle
<1>3. accounts' = accounts
  BY DEF NameGroup
<1>4. \/ answer' = Answer("group", t, "refused", {})
      \/ /\ Len(stored) \in 1 .. Limits.title
         /\ answer' = Answer("group", t, IF TitleCheck(stored) THEN "stored" ELSE "misfit", named)
  BY DEF NameGroup
<1> HIDE DEF named, stored
<1>5. \/ answer' = Answer("group", t, "refused", {})
      \/ answer' = Answer("group", t, "stored", named)
  BY <1>4 DEF TitleCheck
<1>6. /\ answer'.of = "group" /\ answer'.is \in {"refused", "stored", "found"}
      /\ answer'.found \subseteq accounts
  BY <1>2, <1>5 DEF Answer
<1>7. answer'.of \notin {"handle", "email"}
  BY <1>6
<1> QED BY <1>3, <1>6, <1>7, AnsweredOtherwise

LEMMA NoticeTyped ==
  ASSUME FormsInv, NEW text \in SUBSET Text, Announce(text)
  PROVE  FormsInv'
<1> DEFINE stored == NormaliseAnnouncement(text)
<1>1. accounts' = accounts
  BY DEF Announce
<1>2. \A t \in stored : t \in Text /\ t # <<>>
  BY TrimIs DEF NormaliseAnnouncement
<1>3. \A t \in stored : Len(t) \in Nat /\ Len(t) # 0
  BY <1>2, EmptySeq DEF Text
<1>4. \/ answer' = Answer("notice", <<>>, "refused", {})
      \/ /\ \A t \in stored : ~ Len(t) > Limits.notice
         /\ answer' = Answer("notice", <<>>, IF AnnouncementCheck(stored) THEN "stored" ELSE "misfit", {})
  BY DEF Announce
<1> HIDE DEF stored
<1>5. Limits.notice \in Nat
  BY FormsAssumption
<1>6. (\A t \in stored : ~ Len(t) > Limits.notice) => AnnouncementCheck(stored)
  BY <1>3, <1>5 DEF AnnouncementCheck
<1>7. \/ answer' = Answer("notice", <<>>, "refused", {})
      \/ answer' = Answer("notice", <<>>, "stored", {})
  BY <1>4, <1>6
<1>8. /\ answer'.of \notin {"handle", "email"} /\ answer'.is \in {"refused", "stored", "found"}
      /\ answer'.found \subseteq accounts
  BY <1>7 DEF Answer
<1> QED BY <1>1, <1>8, AnsweredOtherwise

\* A text has no fewer bytes than letters.
LEMMA BytesBound ==
  ASSUME NEW t \in Text
  PROVE  Bytes(t) \in Nat /\ Len(t) <= Bytes(t)
<1> DEFINE wide == {i \in DOMAIN t : t[i] = "?"}
<1>1. DOMAIN t = 1 .. Len(t) /\ Len(t) \in Nat
  BY DEF Text
<1>2. IsFiniteSet(1 .. Len(t))
  BY <1>1, FS_Interval
<1>3. IsFiniteSet(wide)
  BY <1>1, <1>2, FS_Subset
<1>4. Cardinality(wide) \in Nat
  BY <1>3, FS_CardinalityType
<1> QED BY <1>1, <1>4 DEF Bytes

LEMMA MessageTyped ==
  ASSUME FormsInv, NEW k \in Text, NEW b \in Text, SendForm(k, b)
  PROVE  FormsInv'
<1>1. accounts' = accounts
  BY DEF SendForm
<1>2. Limits.keyBytes \in Nat /\ Limits.body \in Nat
  BY FormsAssumption
<1>3. SendFits(k, b) => MessageCheck(k, b)
  <2> SUFFICES ASSUME SendFits(k, b) PROVE MessageCheck(k, b)
    OBVIOUS
  <2>1. k # <<>> /\ Bytes(k) <= Limits.keyBytes /\ Trim(b) # <<>> /\ Len(b) <= Limits.body
    BY DEF SendFits
  <2>2. Len(k) \in Nat /\ Len(k) # 0 /\ Len(b) \in Nat
    BY <2>1, EmptySeq DEF Text
  <2>3. Len(b) # 0
    <3>1. \E i \in 1 .. Len(b) : b[i] # "~"
      BY <2>1, TrimIs
    <3> QED BY <3>1
  <2>4. Len(k) <= Limits.keyBytes
    BY <1>2, <2>1, <2>2, BytesBound
  <2> QED BY <1>2, <2>1, <2>2, <2>3, <2>4 DEF MessageCheck
<1>4. \/ answer' = Answer("message", b, "refused", {})
      \/ answer' = Answer("message", b, "stored", {})
  BY <1>3 DEF SendForm
<1>5. /\ answer'.of \notin {"handle", "email"} /\ answer'.is \in {"refused", "stored", "found"}
      /\ answer'.found \subseteq accounts
  BY <1>4 DEF Answer
<1> QED BY <1>1, <1>5, AnsweredOtherwise

\* "/" is the one relative path that its table refuses.
LEMMA PathTyped ==
  ASSUME FormsInv, NEW p \in Text, ReturnTo(p)
  PROVE  FormsInv'
<1> DEFINE trimmed == Trim(p)
<1>1. accounts' = accounts
  BY DEF ReturnTo
<1>2. trimmed \in Text
  BY TrimIs
<1>3. \/ answer' = Answer("return", trimmed, "refused", {})
      \/ answer' = Answer("return", trimmed, "stored", {})
      \/ /\ answer' = Answer("return", trimmed, "misfit", {})
         /\ trimmed # <<>> /\ RelativePath(trimmed) /\ ~ RedirectCheck(trimmed)
  BY DEF ReturnTo
<1> HIDE DEF trimmed
<1>4. ASSUME RelativePath(trimmed), ~ RedirectCheck(trimmed) PROVE trimmed = <<"/">>
  <2>1. trimmed # <<>> /\ trimmed[1] = "/" /\ (Len(trimmed) > 1 => trimmed[2] # "/")
    BY <1>4 DEF RelativePath
  <2>2. ~ Len(trimmed) > 1
    BY <1>4, <2>1 DEF RedirectCheck
  <2>3. Len(trimmed) \in Nat /\ Len(trimmed) # 0
    BY <1>2, <2>1, EmptySeq DEF Text
  <2>4. Len(trimmed) = 1
    <3>1. \A n \in Nat : n # 0 /\ ~ (n > 1) => n = 1
      OBVIOUS
    <3> QED BY <2>2, <2>3, <3>1
  <2>5. trimmed \in Seq(Letter)
    BY <1>2 DEF Text
  <2>6. trimmed = <<trimmed[1]>>
    BY <2>4, <2>5
  <2> QED BY <2>1, <2>6
<1>5. /\ answer'.of = "return" /\ answer'.found = {}
      /\ answer'.is \in {"refused", "stored", "misfit"}
      /\ answer'.is = "misfit" => answer'.asked = <<"/">>
  BY <1>3, <1>4 DEF Answer
<1>6. Rows' /\ AsTyped'
  BY <1>1, Unwritten
<1>7. TablesTakeWhatIsWritten'
  BY <1>5 DEF TablesTakeWhatIsWritten
<1>8. RetypedTextFindsTheAccount'
  BY <1>5 DEF RetypedTextFindsTheAccount
<1>9. AnswersFit'
  BY <1>5, <1>7 DEF AnswersFit
<1> QED BY <1>6, <1>8, <1>9 DEF FormsInv

\* Every text of the other forms is one, too.
LEMMA OtherTexts ==
  /\ Slips(<<"?", "a">>, {"~"}) \cup {Blank, <<>>, <<"~", "~">>} \subseteq Text
  /\ {<<>>} \cup Slips(<<"?">>, {"a"}) \subseteq Text
  /\ Slips(<<"/", "a">>, {"/", "?", "~"}) \cup {<<>>, <<"/">>, Blank} \subseteq Text
<1>1. "a" \in Letter /\ "?" \in Letter /\ "~" \in Letter /\ "/" \in Letter
  BY DEF Letter
<1>2. <<"?", "a">> \in Text /\ <<"~", "~">> \in Text /\ <<"?">> \in Text /\ <<"/", "a">> \in Text /\ <<"/">> \in Text
  BY <1>1 DEF Text
<1>3. {"~"} \subseteq Letter /\ {"a"} \subseteq Letter /\ {"/", "?", "~"} \subseteq Letter
  BY <1>1
<1>4. Slips(<<"?", "a">>, {"~"}) \subseteq Text
  BY <1>2, <1>3, SlipsAreTexts
<1>5. Slips(<<"?">>, {"a"}) \subseteq Text
  BY <1>2, <1>3, SlipsAreTexts
<1>6. Slips(<<"/", "a">>, {"/", "?", "~"}) \subseteq Text
  BY <1>2, <1>3, SlipsAreTexts
<1> QED BY <1>2, <1>4, <1>5, <1>6, Words

LEMMA FormsKept == FormsInv /\ [FormsNext]_formVars => FormsInv'
<1> SUFFICES ASSUME FormsInv, [FormsNext]_formVars PROVE FormsInv'
  OBVIOUS
<1>1. ASSUME NEW form \in Registrations, RegisterForm(form) PROVE FormsInv'
  BY <1>1, RegisteringKept
<1>2. ASSUME NEW m \in MailTexts, NEW p \in {<<>>, Password}, SignIn(m, p) PROVE FormsInv'
  <2> DEFINE of == IF p = <<>> THEN "login" ELSE "email"
             fits == LoginFits(m, p)
  <2>1. of \in {"login", "email"} /\ fits \in BOOLEAN /\ (fits => EmailFits(NormalizeEmail(m)))
    BY DEF LoginFits
  <2>2. of = "email" => (fits <=> EmailFits(NormalizeEmail(m)))
    BY DEF LoginFits
  <2>3. Look(of, m, fits, ByEmail(NormalizeEmail(m)))
    BY <1>2 DEF SignIn
  <2> HIDE DEF of, fits
  <2> QED BY <2>1, <2>2, <2>3, AddressAsked
<1>3. ASSUME NEW m \in MailTexts, AskForMail(m) PROVE FormsInv'
  <2> DEFINE fits == MailFormFits(m)
  <2>1. fits \in BOOLEAN /\ (fits <=> EmailFits(NormalizeEmail(m)))
    BY DEF MailFormFits, EmailFits
  <2>2. Look("email", m, fits, ByEmail(NormalizeEmail(m))) /\ "email" \in {"login", "email"}
    BY <1>3 DEF AskForMail
  <2> HIDE DEF fits
  <2> QED BY <2>1, <2>2, AddressAsked
<1>4. ASSUME NEW u \in HandleTexts, NamePeer(u) PROVE FormsInv'
  BY <1>4, TypedTexts, PeerNamed
<1>5. ASSUME NEW t \in Slips(<<"?", "a">>, {"~"}) \cup {Blank}, NEW us, NameGroup(t, us) PROVE FormsInv'
  <2>1. t \in Text
    BY OtherTexts
  <2> QED BY <1>5, <2>1, GroupNamed
<1>6. ASSUME NEW t \in Slips(<<"?", "a">>, {"~"}) \cup {Blank, <<>>}, Announce({t}) PROVE FormsInv'
  <2>1. {t} \in SUBSET Text
    BY OtherTexts
  <2> QED BY <1>6, <2>1, NoticeTyped
<1>7. ASSUME Announce({}) PROVE FormsInv'
  <2>1. {} \in SUBSET Text
    OBVIOUS
  <2> QED BY <1>7, <2>1, NoticeTyped
<1>8. ASSUME NEW k \in {<<>>} \cup Slips(<<"?">>, {"a"}),
             NEW b \in Slips(<<"?", "a">>, {"~"}) \cup {Blank, <<"~", "~">>}, SendForm(k, b)
      PROVE  FormsInv'
  <2>1. k \in Text /\ b \in Text
    BY OtherTexts
  <2> QED BY <1>8, <2>1, MessageTyped
<1>9. ASSUME NEW p \in Slips(<<"/", "a">>, {"/", "?", "~"}) \cup {<<>>, <<"/">>, Blank}, ReturnTo(p) PROVE FormsInv'
  <2>1. p \in Text
    BY OtherTexts
  <2> QED BY <1>9, <2>1, PathTyped
<1>10. ASSUME UNCHANGED formVars PROVE FormsInv'
  <2>1. accounts' = accounts /\ answer' = answer
    BY <1>10 DEF formVars
  <2>2. Rows' /\ AsTyped'
    BY <2>1, Unwritten
  <2>3. TablesTakeWhatIsWritten' /\ RetypedTextFindsTheAccount'
    BY <2>1 DEF FormsInv, AnswersFit, TablesTakeWhatIsWritten, RetypedTextFindsTheAccount
  <2>4. AnswersFit'
    BY <2>1, <2>3 DEF FormsInv, AnswersFit
  <2> QED BY <2>2, <2>3, <2>4 DEF FormsInv
<1> QED BY <1>1, <1>2, <1>3, <1>4, <1>5, <1>6, <1>7, <1>8, <1>9, <1>10, Zenon DEF FormsNext

-----------------------------------------------------------------------------
(* What providers answer *)

EntryRow == [email : Text, primary : BOOLEAN, verified : BOOLEAN]

ProfileRow(p) ==
  /\ p.email \in SUBSET Text /\ p.name \in SUBSET Text /\ p.verified \in BOOLEAN
  /\ p.verified => AddressText(p.email) # {}

AnswerRow(a) ==
  a.provider \in {"github", "google"} /\ ProfileRow(a.profile) /\ a.emails \in Seq(EntryRow)

\* A text that starts with a letter is not blank.
LEMMA Inked ==
  ASSUME NEW t \in Text, NEW i \in 1 .. Len(t), t[i] # "~"
  PROVE  Trim(t) # <<>> /\ AddressText({t}) # {}
<1>1. Trim(t) # <<>>
  BY TrimIs
<1>2. Lower(Trim(t)) # <<>>
  BY <1>1, FoldedIs
<1> QED BY <1>1, <1>2 DEF AddressText

LEMMA MailsInked == \A u \in {"a", "A", "b"} :
  /\ Mail(u) \in Text /\ Padded(u) \in Text
  /\ AddressText({Mail(u)}) # {} /\ AddressText({Padded(u)}) # {}
<1> SUFFICES ASSUME NEW u \in {"a", "A", "b"}
             PROVE  /\ Mail(u) \in Text /\ Padded(u) \in Text
                    /\ AddressText({Mail(u)}) # {} /\ AddressText({Padded(u)}) # {}
  OBVIOUS
<1>1. u \in Letter /\ u # "~"
  BY DEF Letter
<1>2. Mail(u) \in Text /\ Padded(u) \in Text
  BY <1>1, Words
<1>3. Len(Mail(u)) = 5 /\ Mail(u)[1] = u
  BY DEF Mail
<1>4. Len(Padded(u)) = 6 /\ Padded(u)[2] = u
  BY DEF Padded
<1>5. AddressText({Mail(u)}) # {}
  <2>1. 1 \in 1 .. Len(Mail(u)) /\ Mail(u)[1] # "~"
    BY <1>1, <1>3
  <2> QED BY <1>2, <2>1, Inked
<1>6. AddressText({Padded(u)}) # {}
  <2>1. 2 \in 1 .. Len(Padded(u)) /\ Padded(u)[2] # "~"
    BY <1>1, <1>4
  <2> QED BY <1>2, <2>1, Inked
<1> QED BY <1>2, <1>5, <1>6

LEMMA AddressesAreTexts ==
  /\ \A e \in Addresses : e \in SUBSET Text
  /\ \A n \in Names : n \in SUBSET Text
  /\ Entry \subseteq EntryRow
<1>1. {"a", "A", "b", "_", "?"} \subseteq Letter
  BY DEF Letter
<1>2. "a" \in {"a", "A", "b"} /\ "A" \in {"a", "A", "b"}
  OBVIOUS
<1>3. Mail("a") \in Text /\ Padded("A") \in Text
  BY <1>2, MailsInked
<1>4. \A e \in Addresses : e \in SUBSET Text
  BY <1>3, Words DEF Addresses
<1>5. \A n \in Names : n \in SUBSET Text
  <2>1. "a" \in Letter /\ "A" \in Letter /\ "b" \in Letter /\ "_" \in Letter /\ "?" \in Letter
    BY <1>1
  <2>2. \A p, q, r, s \in Letter : <<p>> \in Text /\ <<p, q>> \in Text /\ <<p, q, r, s>> \in Text
    BY DEF Text
  <2>3. <<"?">> \in Text /\ <<"A", "_">> \in Text
    BY <2>1, <2>2
  <2>4. <<"_", "?", "a", "b">> \in Text
    BY <2>1, <2>2
  <2> QED BY <2>3, <2>4, Words DEF Names
<1>6. Entry \subseteq EntryRow
  BY <1>3, Words DEF Entry, EntryRow
<1> QED BY <1>4, <1>5, <1>6

LEMMA ProfilesRow ==
  /\ \A e \in SUBSET Text, n \in SUBSET Text : ProfileRow(Telling(e, n))
  /\ \A e \in SUBSET Text : AddressText(e) # {} => ProfileRow([Telling(e, {}) EXCEPT !.verified = TRUE])
  /\ ProfileRow(Profile)
  /\ ProfileRow([Profile EXCEPT !.ok = FALSE]) /\ ProfileRow([Profile EXCEPT !.subject = FALSE])
<1>1. \A e \in SUBSET Text, n \in SUBSET Text : ProfileRow(Telling(e, n))
  BY DEF Telling, ProfileRow
<1>2. \A e \in SUBSET Text : AddressText(e) # {} => ProfileRow([Telling(e, {}) EXCEPT !.verified = TRUE])
  BY DEF Telling, ProfileRow
<1>3. ProfileRow(Profile)
  BY <1>1 DEF Profile
<1>4. ProfileRow([Profile EXCEPT !.ok = FALSE]) /\ ProfileRow([Profile EXCEPT !.subject = FALSE])
  BY DEF Profile, Telling, ProfileRow
<1> QED BY <1>1, <1>2, <1>3, <1>4

LEMMA HeardRow ==
  ASSUME NEW p \in {"github", "google"}, NEW q, ProfileRow(q), NEW l \in Seq(EntryRow)
  PROVE  /\ AnswerRow(Heard(p, q, l))
         /\ \A t : AnswerRow([Heard(p, q, l) EXCEPT !.token = t])
         /\ AnswerRow([Heard(p, q, l) EXCEPT !.listed = FALSE])
BY DEF Heard, AnswerRow

LEMMA AnswersRow == \A a \in ProviderAnswers : AnswerRow(a)
<1> SUFFICES ASSUME NEW a \in ProviderAnswers PROVE AnswerRow(a)
  OBVIOUS
<1>0. <<>> \in Seq(EntryRow) /\ "github" \in {"github", "google"} /\ "google" \in {"github", "google"}
  OBVIOUS
<1> DEFINE A1 == {Heard(p, Telling(e, n), <<>>) :
                   p \in {"github", "google"}, e \in Addresses, n \in Names}
           A2 == {Heard("google", [Telling({m}, {}) EXCEPT !.verified = TRUE], <<>>) :
                   m \in {Mail("a"), Padded("A")}}
           A3 == {Heard("github", Telling(e, {}), l) : e \in {{}, {Mail("b")}}, l \in Lists}
           A4 == {[Heard("github", Profile, <<>>) EXCEPT !.token = t] : t \in {"form", "empty", "error"}}
           A5 == {[Heard("github", Profile, <<>>) EXCEPT !.listed = FALSE]}
           A6 == {Heard(p, q, <<>>) : p \in {"github", "google"},
                   q \in {[Profile EXCEPT !.ok = FALSE], [Profile EXCEPT !.subject = FALSE]}}
<1>1. a \in A1 \/ a \in A2 \/ a \in A3 \/ a \in A4 \/ a \in A5 \/ a \in A6
  <2>1. ProviderAnswers = A1 \cup A2 \cup A3 \cup A4 \cup A5 \cup A6
    BY DEF ProviderAnswers
  <2> HIDE DEF A1, A2, A3, A4, A5, A6
  <2> QED BY <2>1
<1> HIDE DEF A1, A2, A3, A4, A5, A6
<1>2. CASE a \in A1
  <2>1. PICK p \in {"github", "google"}, e \in Addresses, n \in Names :
          a = Heard(p, Telling(e, n), <<>>)
    BY <1>2 DEF A1
  <2> DEFINE q == Telling(e, n)
  <2>2. ProfileRow(q) /\ a = Heard(p, q, <<>>)
    BY <2>1, AddressesAreTexts, ProfilesRow
  <2> HIDE DEF q
  <2> QED BY <1>0, <2>2, HeardRow
<1>3. CASE a \in A2
  <2>1. PICK m \in {Mail("a"), Padded("A")} :
          a = Heard("google", [Telling({m}, {}) EXCEPT !.verified = TRUE], <<>>)
    BY <1>3 DEF A2
  <2> DEFINE e == {m}
             q == [Telling(e, {}) EXCEPT !.verified = TRUE]
  <2>2. e \in SUBSET Text /\ AddressText(e) # {}
    <3>1. "a" \in {"a", "A", "b"} /\ "A" \in {"a", "A", "b"}
      OBVIOUS
    <3>2. \A x \in {Mail("a"), Padded("A")} : x \in Text /\ AddressText({x}) # {}
      BY <3>1, MailsInked
    <3> QED BY <3>2
  <2>3. a = Heard("google", q, <<>>)
    BY <2>1
  <2> HIDE DEF e
  <2>4. ProfileRow(q)
    BY <2>2, ProfilesRow
  <2> HIDE DEF q
  <2> QED BY <1>0, <2>3, <2>4, HeardRow
<1>4. CASE a \in A3
  <2>1. PICK e \in {{}, {Mail("b")}}, l \in Lists : a = Heard("github", Telling(e, {}), l)
    BY <1>4 DEF A3
  <2> DEFINE q == Telling(e, {})
  <2>2. e \in SUBSET Text
    <3>1. "b" \in {"a", "A", "b"}
      OBVIOUS
    <3>2. Mail("b") \in Text
      BY <3>1, MailsInked
    <3> QED BY <3>2
  <2>3. l \in Seq(EntryRow)
    <3>1. \A x, y \in EntryRow : <<x>> \in Seq(EntryRow) /\ <<x, y>> \in Seq(EntryRow)
      OBVIOUS
    <3>2. CASE l = <<>>
      BY <1>0, <3>2
    <3>3. CASE l \in {<<e1>> : e1 \in Entry}
      BY <3>1, <3>3, AddressesAreTexts
    <3>4. CASE l \in {<<d, e1>> : d, e1 \in Entry}
      <4>1. PICK d \in Entry, e1 \in Entry : l = <<d, e1>>
        BY <3>4
      <4>2. d \in EntryRow /\ e1 \in EntryRow
        BY AddressesAreTexts
      <4> QED BY <3>1, <4>1, <4>2
    <3> QED BY <3>2, <3>3, <3>4 DEF Lists
  <2>4. ProfileRow(q) /\ a = Heard("github", q, l)
    BY <2>1, <2>2, ProfilesRow
  <2> HIDE DEF q
  <2> QED BY <1>0, <2>3, <2>4, HeardRow
<1>5. CASE a \in A4
  <2>1. PICK t : a = [Heard("github", Profile, <<>>) EXCEPT !.token = t]
    BY <1>5 DEF A4
  <2>2. \A x : AnswerRow([Heard("github", Profile, <<>>) EXCEPT !.token = x])
    BY <1>0, ProfilesRow, HeardRow
  <2>3. AnswerRow([Heard("github", Profile, <<>>) EXCEPT !.token = t])
    BY <2>2
  <2> QED BY <2>1, <2>3
<1>6. CASE a \in A5
  <2>1. a = [Heard("github", Profile, <<>>) EXCEPT !.listed = FALSE]
    BY <1>6 DEF A5
  <2> QED BY <1>0, <2>1, ProfilesRow, HeardRow
<1>7. CASE a \in A6
  <2>1. PICK p \in {"github", "google"}, q \in {[Profile EXCEPT !.ok = FALSE], [Profile EXCEPT !.subject = FALSE]} :
          a = Heard(p, q, <<>>)
    BY <1>7 DEF A6
  <2>2. ProfileRow(q)
    BY ProfilesRow
  <2> QED BY <1>0, <2>1, <2>2, HeardRow
<1> QED BY <1>1, <1>2, <1>3, <1>4, <1>5, <1>6, <1>7

\* An address that is read is a folded text.
LEMMA AddressesFolded ==
  ASSUME NEW text \in SUBSET Text
  PROVE  \A e \in AddressText(text) : e \in Text /\ Lower(e) = e
BY FoldedIs DEF AddressText

LEMMA FirstIs ==
  ASSUME NEW entries \in Seq(EntryRow), NEW wanted \in SUBSET (DOMAIN entries)
  PROVE  \A c \in First(entries, wanted) : \E i \in DOMAIN entries :
           /\ c.email = Lower(Trim(entries[i].email)) /\ c.verified = entries[i].verified
           /\ c.email \in Text /\ Lower(c.email) = c.email
<1> SUFFICES ASSUME NEW c \in First(entries, wanted)
             PROVE  \E i \in DOMAIN entries :
                      /\ c.email = Lower(Trim(entries[i].email)) /\ c.verified = entries[i].verified
                      /\ c.email \in Text /\ Lower(c.email) = c.email
  OBVIOUS
<1>1. wanted # {} /\ c \in AddressOf(entries[Min(wanted)])
  BY DEF First
<1>2. wanted \in SUBSET Nat
  OBVIOUS
<1>3. PICK i \in wanted : i = Min(wanted)
  BY <1>1, <1>2, FirstOf
<1>4. i \in DOMAIN entries /\ entries[i] \in EntryRow
  OBVIOUS
<1>5. entries[i].email \in Text
  BY <1>4 DEF EntryRow
<1>6. PICK e \in AddressText({entries[i].email}) : c = [email |-> e, verified |-> entries[i].verified]
  BY <1>1, <1>3 DEF AddressOf
<1>7. e = Lower(Trim(entries[i].email))
  BY <1>6 DEF AddressText
<1>8. e \in Text /\ Lower(e) = e
  BY <1>5, <1>7, FoldedIs
<1>9. c.email = e /\ c.verified = entries[i].verified
  BY <1>6
<1> QED BY <1>4, <1>7, <1>8, <1>9

\* Whatever is picked is one entry of the list, taken whole.
LEMMA PickedIs ==
  ASSUME NEW entries \in Seq(EntryRow)
  PROVE  \A c \in PickGithubAddress(entries) : \E i \in DOMAIN entries :
           /\ c.email = Lower(Trim(entries[i].email)) /\ c.verified = entries[i].verified
           /\ c.email \in Text /\ Lower(c.email) = c.email
<1> DEFINE P == {i \in DOMAIN entries : entries[i].primary}
           V == {i \in DOMAIN entries : entries[i].verified}
           D == DOMAIN entries
<1>1. /\ P \in SUBSET (DOMAIN entries) /\ V \in SUBSET (DOMAIN entries) /\ D \in SUBSET (DOMAIN entries)
  OBVIOUS
<1>2. PickGithubAddress(entries) \in {First(entries, P), First(entries, V), First(entries, D)}
  <2>1. CASE First(entries, P) # {}
    BY <2>1 DEF PickGithubAddress
  <2>2. CASE First(entries, P) = {} /\ First(entries, V) # {}
    BY <2>2 DEF PickGithubAddress
  <2>3. CASE First(entries, P) = {} /\ First(entries, V) = {}
    BY <2>3 DEF PickGithubAddress
  <2> QED BY <2>1, <2>2, <2>3
<1> HIDE DEF P, V, D
<1>3. PICK w \in SUBSET (DOMAIN entries) : PickGithubAddress(entries) = First(entries, w)
  BY <1>1, <1>2
<1> QED BY <1>3, FirstIs

\* What is known of a provider's person, and from which answer.
Identified(who, a) ==
  /\ \A e \in who.email : e \in Text /\ Lower(e) = e
  /\ \A t \in who.name : t \in Text /\ t # <<>>
  /\ who.verified \in BOOLEAN
  /\ who.verified => \E e \in who.email : Vouched(a, e)

LEMMA NamesRead ==
  ASSUME NEW text \in SUBSET Text
  PROVE  \A t \in NameText(text) : t \in Text /\ t # <<>>
<1>1. Trim(<<>>) = <<>>
  BY DEF Trim
<1> QED BY <1>1 DEF NameText

LEMMA GitHubIdentified ==
  ASSUME NEW a, AnswerRow(a), a.provider = "github"
  PROVE  Identified(GitHubIdentity(a.profile, a.emails), a)
<1> DEFINE chosen == PickGithubAddress(a.emails)
           who == GitHubIdentity(a.profile, a.emails)
<1>1. a.profile.email \in SUBSET Text /\ a.profile.name \in SUBSET Text /\ a.emails \in Seq(EntryRow)
  BY DEF AnswerRow, ProfileRow
<1>2. \A c \in chosen : \E i \in DOMAIN a.emails :
           /\ c.email = Lower(Trim(a.emails[i].email)) /\ c.verified = a.emails[i].verified
           /\ c.email \in Text /\ Lower(c.email) = c.email
  BY <1>1, PickedIs
<1>3. /\ who.email = IF chosen = {} THEN AddressText(a.profile.email) ELSE {c.email : c \in chosen}
      /\ who.name = NameText(a.profile.name)
  BY DEF GitHubIdentity
<1>4. who.verified = \E c \in chosen : c.verified
  BY DEF GitHubIdentity
<1> HIDE DEF chosen, who
<1>5. \A e \in who.email : e \in Text /\ Lower(e) = e
  <2>1. CASE chosen = {}
    BY <1>1, <1>3, <2>1, AddressesFolded
  <2>2. CASE chosen # {}
    BY <1>2, <1>3, <2>2
  <2> QED BY <2>1, <2>2
<1>6. \A t \in who.name : t \in Text /\ t # <<>>
  BY <1>1, <1>3, NamesRead
<1>7. who.verified => \E e \in who.email : Vouched(a, e)
  <2> SUFFICES ASSUME who.verified PROVE \E e \in who.email : Vouched(a, e)
    OBVIOUS
  <2>1. PICK c \in chosen : c.verified
    BY <1>4
  <2>2. PICK i \in DOMAIN a.emails : c.email = Lower(Trim(a.emails[i].email)) /\ c.verified = a.emails[i].verified
    BY <1>2
  <2>3. c.email \in who.email
    BY <1>3
  <2>4. a.emails[i].verified
    BY <2>1, <2>2
  <2>5. Vouched(a, c.email)
    BY <2>2, <2>4 DEF Vouched
  <2> QED BY <2>3, <2>5
<1>8. who.verified \in BOOLEAN
  BY <1>4
<1> QED BY <1>5, <1>6, <1>7, <1>8 DEF Identified, who

LEMMA GoogleIdentified ==
  ASSUME NEW a, AnswerRow(a), a.provider = "google"
  PROVE  Identified(GoogleIdentity(a.profile), a)
<1> DEFINE who == GoogleIdentity(a.profile)
<1>1. ProfileRow(a.profile) /\ a.profile.email \in SUBSET Text /\ a.profile.name \in SUBSET Text
  BY DEF AnswerRow, ProfileRow
<1>2. /\ who.email = AddressText(a.profile.email) /\ who.name = NameText(a.profile.name)
      /\ who.verified = a.profile.verified
  BY DEF GoogleIdentity
<1> HIDE DEF who
<1>3. \A e \in who.email : e \in Text /\ Lower(e) = e
  BY <1>1, <1>2, AddressesFolded
<1>4. \A t \in who.name : t \in Text /\ t # <<>>
  BY <1>1, <1>2, NamesRead
<1>5. who.verified \in BOOLEAN
  BY <1>1, <1>2 DEF ProfileRow
<1>6. who.verified => \E e \in who.email : Vouched(a, e)
  <2> SUFFICES ASSUME who.verified PROVE \E e \in who.email : Vouched(a, e)
    OBVIOUS
  <2>1. a.profile.verified /\ AddressText(a.profile.email) # {}
    BY <1>1, <1>2 DEF ProfileRow
  <2>2. PICK e \in AddressText(a.profile.email) : TRUE
    BY <2>1
  <2>3. Vouched(a, e)
    BY <2>1, <2>2 DEF Vouched
  <2> QED BY <1>2, <2>3
<1> QED BY <1>3, <1>4, <1>5, <1>6 DEF Identified, who

-----------------------------------------------------------------------------
(* The handle that is made up *)

LEMMA Piece ==
  ASSUME NEW S, NEW t \in Seq(S), NEW m \in Nat, NEW n \in Nat, 1 <= m, n <= Len(t)
  PROVE  SubSeq(t, m, n) \in Seq(S) /\ Len(SubSeq(t, m, n)) = IF m <= n THEN n - m + 1 ELSE 0
<1>1. m \in Int /\ n \in Int
  OBVIOUS
<1>2. \A i \in m .. n : t[i] \in S
  OBVIOUS
<1> QED BY <1>1, <1>2, SubSeqProperties

LEMMA TakeIs ==
  ASSUME NEW S, NEW t \in Seq(S), NEW n \in Nat
  PROVE  Take(t, n) \in Seq(S) /\ Len(Take(t, n)) = IF Len(t) < n THEN Len(t) ELSE n
<1> DEFINE k == IF Len(t) < n THEN Len(t) ELSE n
<1>1. k \in Nat /\ k <= Len(t) /\ 1 \in Nat /\ 1 <= 1
  OBVIOUS
<1>2. Take(t, n) = SubSeq(t, 1, k)
  BY DEF Take
<1> HIDE DEF k
<1>3. SubSeq(t, 1, k) \in Seq(S) /\ Len(SubSeq(t, 1, k)) = IF 1 <= k THEN k - 1 + 1 ELSE 0
  BY <1>1, Piece
<1>4. Len(SubSeq(t, 1, k)) = k
  BY <1>1, <1>3
<1> QED BY <1>2, <1>3, <1>4 DEF k

LEMMA LettersAreText ==
  /\ HandleLetters \subseteq Letter
  /\ \A t \in Seq(HandleLetters) : t \in Text /\ Only(t, HandleLetters) /\ Lower(t) = t
<1>1. HandleLetters \subseteq Letter /\ \A c \in HandleLetters : c # "A"
  BY DEF HandleLetters, Letter
<1>2. ASSUME NEW t \in Seq(HandleLetters) PROVE t \in Text /\ Only(t, HandleLetters) /\ Lower(t) = t
  <2>1. DOMAIN t = 1 .. Len(t) /\ \A i \in 1 .. Len(t) : t[i] \in HandleLetters
    OBVIOUS
  <2>2. t \in Text
    BY <1>1, <2>1 DEF Text
  <2>3. Only(t, HandleLetters)
    BY <2>1 DEF Only
  <2>4. \A i \in 1 .. Len(t) : t[i] # "A"
    BY <1>1, <2>1
  <2> QED BY <2>2, <2>3, <2>4, LowerIs
<1> QED BY <1>1, <1>2

\* Whatever the provider calls a person, what is left of it is letters of a handle.
LEMMA Sanitised ==
  ASSUME NEW t \in Text
  PROVE  Sanitise(t) \in Seq(HandleLetters)
<1> DEFINE lower == Lower(t)
           clean == [i \in DOMAIN lower |-> IF lower[i] \in HandleLetters THEN lower[i] ELSE "_"]
           n == Limits.handleMax - SuffixDigits
           cut == Take(clean, n)
           ink == {i \in DOMAIN cut : cut[i] # "_"}
<1>1. n \in Nat
  BY FormsAssumption, SuffixAssumption
<1>2. DOMAIN lower = 1 .. Len(t) /\ Len(t) \in Nat
  BY LowerIs DEF Text
<1>3. clean \in Seq(HandleLetters)
  <2>1. "_" \in HandleLetters
    BY DEF HandleLetters
  <2>2. clean \in [1 .. Len(t) -> HandleLetters]
    BY <1>2, <2>1
  <2> HIDE DEF clean
  <2> QED BY <1>2, <2>2
<1>4. Sanitise(t) = IF ink = {} THEN <<>> ELSE SubSeq(cut, Min(ink), Max(ink))
  BY DEF Sanitise
<1> HIDE DEF n, clean
<1>5. cut \in Seq(HandleLetters)
  BY <1>1, <1>3, TakeIs
<1> HIDE DEF cut
<1>6. CASE ink = {}
  <2> HIDE DEF ink
  <2>1. Sanitise(t) = <<>>
    BY <1>4, <1>6
  <2> QED BY <2>1
<1>7. CASE ink # {}
  <2>1. DOMAIN cut = 1 .. Len(cut) /\ Len(cut) \in Nat
    BY <1>5
  <2>0. \A i \in ink : i \in 1 .. Len(cut)
    BY <2>1
  <2> HIDE DEF ink
  <2>2. ink \in SUBSET Nat /\ ink \in SUBSET (1 .. Len(cut))
    BY <2>0, <2>1
  <2>3. Min(ink) \in ink /\ Max(ink) \in ink
    BY <1>7, <2>1, <2>2, FirstOf, LastOf
  <2>4. Min(ink) \in 1 .. Len(cut) /\ Max(ink) \in 1 .. Len(cut)
    BY <2>2, <2>3
  <2>5. Min(ink) \in Nat /\ Max(ink) \in Nat /\ 1 <= Min(ink) /\ Max(ink) <= Len(cut)
    BY <2>1, <2>4
  <2>6. SubSeq(cut, Min(ink), Max(ink)) \in Seq(HandleLetters)
    BY <1>5, <2>5, Piece
  <2> QED BY <1>4, <1>7, <2>6
<1> QED BY <1>6, <1>7

LEMMA LocalIs ==
  ASSUME NEW e \in Text
  PROVE  LocalPart(e) \in Text
<1> DEFINE at == {i \in DOMAIN e : e[i] = "@"}
<1>1. DOMAIN e = 1 .. Len(e) /\ Len(e) \in Nat
  BY DEF Text
<1>2. LocalPart(e) = IF at = {} THEN e ELSE SubSeq(e, 1, Min(at) - 1)
  BY DEF LocalPart
<1>3. CASE at # {}
  <2>1. at \in SUBSET Nat
    BY <1>1
  <2>2. Min(at) \in at
    BY <1>3, <2>1, FirstOf
  <2>3. Min(at) \in 1 .. Len(e)
    BY <1>1, <2>2
  <2> HIDE DEF at
  <2>4. Min(at) - 1 \in Nat /\ Min(at) - 1 <= Len(e) /\ 1 \in Nat /\ 1 <= 1
    BY <1>1, <2>3
  <2>5. SubSeq(e, 1, Min(at) - 1) \in Text
    BY <2>4, PartOf
  <2> QED BY <1>2, <1>3, <2>5
<1> QED BY <1>2, <1>3

LEMMA Suggested ==
  ASSUME NEW who, \A e \in who.email : e \in Text, \A t \in who.name : t \in Text, NEW provider
  PROVE  SuggestedUsername(who, provider) \in Seq(HandleLetters) /\ SuggestedUsername(who, provider) # <<>>
<1> DEFINE preferred == IF who.name # {} THEN who.name ELSE {LocalPart(e) : e \in who.email}
           clean == {Sanitise(t) : t \in preferred} \ {<<>>}
<1>1. \A t \in preferred : t \in Text
  BY LocalIs
<1>2. SuggestedUsername(who, provider) = IF clean = {} THEN ProviderName(provider) ELSE CHOOSE t \in clean : TRUE
  BY DEF SuggestedUsername
<1> HIDE DEF preferred
<1>3. \A t \in clean : t \in Seq(HandleLetters) /\ t # <<>>
  BY <1>1, Sanitised
<1> HIDE DEF clean
<1>4. ProviderName(provider) \in Seq(HandleLetters) /\ ProviderName(provider) # <<>>
  <2>1. "a" \in HandleLetters /\ "b" \in HandleLetters
    BY DEF HandleLetters
  <2>2. <<"a", "a">> \in Seq(HandleLetters) /\ <<"b", "b">> \in Seq(HandleLetters)
    BY <2>1
  <2>3. <<"a", "a">> # <<>> /\ <<"b", "b">> # <<>>
    OBVIOUS
  <2> QED BY <2>2, <2>3 DEF ProviderName
<1>5. CASE clean = {}
  BY <1>2, <1>4, <1>5
<1>6. CASE clean # {}
  <2>1. (CHOOSE t \in clean : TRUE) \in clean
    BY <1>6
  <2>2. SuggestedUsername(who, provider) \in clean
    BY <1>2, <1>6, <2>1
  <2> QED BY <1>3, <2>2
<1> QED BY <1>5, <1>6

LEMMA Followed ==
  ASSUME NEW S, NEW s \in Seq(S), NEW t \in Seq(S)
  PROVE  s \o t \in Seq(S) /\ Len(s \o t) = Len(s) + Len(t)
OBVIOUS

\* A name and a suffix make a handle that users takes, however often it is tried.
LEMMA Generated ==
  ASSUME tries \in Nat, NEW suffix \in [1 .. SuffixLength -> {"1", "a"}],
         NEW base \in Seq(HandleLetters), base # <<>>
  PROVE  LET made == GeneratedUsername(base, suffix) IN
         made \in Seq(HandleLetters) /\ Len(made) \in Limits.handleMin .. Limits.handleMax
<1> DEFINE made == GeneratedUsername(base, suffix)
           room == Limits.handleMax - Len(suffix)
           cut == Take(base, room)
<1>1. /\ Limits.handleMin \in Nat /\ Limits.handleMax \in Nat /\ SuffixDigits \in Nat /\ MaxSuffix \in Nat
      /\ Limits.handleMin <= SuffixDigits + 1 /\ SuffixDigits <= MaxSuffix /\ MaxSuffix < Limits.handleMax
  BY FormsAssumption, SuffixAssumption
<1>2. SuffixLength \in Nat /\ SuffixDigits <= SuffixLength /\ SuffixLength <= MaxSuffix
  BY <1>1 DEF SuffixLength, Smaller
<1>3. suffix \in Seq(HandleLetters) /\ Len(suffix) = SuffixLength
  <2>1. {"1", "a"} \subseteq HandleLetters
    BY DEF HandleLetters
  <2>2. suffix \in [1 .. SuffixLength -> HandleLetters]
    BY <2>1
  <2> HIDE DEF SuffixLength
  <2> QED BY <1>2, <2>2
<1>4. room \in Nat /\ room >= 1 /\ room + Len(suffix) = Limits.handleMax
  BY <1>1, <1>2, <1>3
<1>5. made = cut \o suffix
  BY DEF GeneratedUsername
<1> HIDE DEF made
<1>6. Len(base) \in Nat /\ Len(base) >= 1
  <2>1. Len(base) \in Nat /\ Len(base) # 0
    BY EmptySeq
  <2> QED BY <2>1
<1> HIDE DEF room
<1>7. cut \in Seq(HandleLetters) /\ Len(cut) = IF Len(base) < room THEN Len(base) ELSE room
  BY <1>4, TakeIs
<1> HIDE DEF cut
<1>8. Len(cut) \in Nat /\ Len(cut) >= 1 /\ Len(cut) <= room
  BY <1>4, <1>6, <1>7
<1>9. made \in Seq(HandleLetters) /\ Len(made) = Len(cut) + Len(suffix)
  BY <1>3, <1>5, <1>7, Followed
<1>10. Len(made) \in Limits.handleMin .. Limits.handleMax
  BY <1>1, <1>2, <1>3, <1>4, <1>8, <1>9
<1> QED BY <1>9, <1>10 DEF made

-----------------------------------------------------------------------------
(* The sign-in that makes an account *)

\* One person at a time, and the answer that names it.
OnePerson ==
  \/ identity = {} /\ heard = {}
  \/ \E who, a : identity = {who} /\ heard = {a} /\ Identified(who, a)

Waiting == unfinished \subseteq {a.id : a \in accounts}

ProviderInv ==
  /\ Rows /\ AnswersFit
  /\ answer.of \in {"nothing", "exchange", "provider", "choice"}
  /\ OnePerson
  /\ tries \in 0 .. MaxAttempts - 1
  /\ Waiting

\* The row of a made-up handle fails the CHECKs of users for its name alone.
LEMMA MadeUp ==
  ASSUME NEW who, NEW a, Identified(who, a), tries \in Nat, Rows,
         NEW suffix \in [1 .. SuffixLength -> {"1", "a"}], NEW provider
  PROVE  LET row == ProviderRow(who, provider, suffix) IN
         row \in UserRow /\ (~ UsersCheck(row) => Len(row.name) > Limits.name)
<1> DEFINE base == SuggestedUsername(who, provider)
           made == GeneratedUsername(base, suffix)
           email == IF who.email = {} THEN made \o <<"@", "?">> ELSE CHOOSE e \in who.email : TRUE
           name == IF who.name = {} THEN made ELSE CHOOSE t \in who.name : TRUE
           row == ProviderRow(who, provider, suffix)
           id == Cardinality(accounts) + 1
<1>1. row = [id |-> id, typed |-> made, handle |-> made, mail |-> email, email |-> email,
             verified |-> who.verified, name |-> name]
  BY DEF ProviderRow
<1>2. /\ \A e \in who.email : e \in Text /\ Lower(e) = e
      /\ \A t \in who.name : t \in Text /\ t # <<>>
      /\ who.verified \in BOOLEAN
  BY DEF Identified
<1>3. base \in Seq(HandleLetters) /\ base # <<>>
  BY <1>2, Suggested
<1>4. id \in Nat
  BY Numbered
<1> HIDE DEF base, row, id
<1>5. made \in Seq(HandleLetters) /\ Len(made) \in Limits.handleMin .. Limits.handleMax
  BY <1>3, Generated
<1> HIDE DEF made
<1>6. made \in Text /\ Only(made, HandleLetters)
  BY <1>5, LettersAreText
<1>7. email \in Text /\ Lower(email) = email
  <2>1. CASE who.email = {}
    <3>1. "@" \in Letter /\ "?" \in Letter
      BY DEF Letter
    <3>2. <<"@", "?">> \in Text
      BY <3>1 DEF Text
    <3> DEFINE full == made \o <<"@", "?">>
    <3>3. /\ full \in Text /\ Len(full) = Len(made) + 2
          /\ \A i \in 1 .. (Len(made) + 2) : full[i] = IF i <= Len(made) THEN made[i] ELSE <<"@", "?">>[i - Len(made)]
      <4>1. Len(<<"@", "?">>) = 2
        OBVIOUS
      <4> DEFINE tail == <<"@", "?">>
      <4>2. tail \in Text /\ Len(tail) = 2 /\ full = made \o tail
        BY <3>2, <4>1
      <4> HIDE DEF tail, full
      <4>3. made \o tail \in Text /\ Len(made \o tail) = Len(made) + 2
        <5>1. made \o tail \in Text /\ Len(made \o tail) = Len(made) + Len(tail)
          BY <1>6, <4>2, Joined
        <5> QED BY <4>2, <5>1
      <4>4. \A i \in 1 .. (Len(made) + 2) : (made \o tail)[i] = IF i <= Len(made) THEN made[i] ELSE tail[i - Len(made)]
        <5>1. \A i \in 1 .. (Len(made) + Len(tail)) :
                (made \o tail)[i] = IF i <= Len(made) THEN made[i] ELSE tail[i - Len(made)]
          BY <1>6, <4>2, Joined
        <5> QED BY <4>2, <5>1
      <4> QED BY <4>2, <4>3, <4>4 DEF tail
    <3> HIDE DEF full
    <3>4. ASSUME NEW i \in 1 .. Len(full) PROVE full[i] # "A"
      <4>1. Len(made) \in Nat
        BY <1>5
      <4>2. i \in 1 .. (Len(made) + 2)
        BY <3>3
      <4>3. CASE i <= Len(made)
        <5>1. i \in 1 .. Len(made) /\ full[i] = made[i]
          BY <3>3, <4>1, <4>2, <4>3
        <5>2. made[i] \in HandleLetters
          BY <1>5, <5>1
        <5> QED BY <5>1, <5>2 DEF HandleLetters
      <4>4. CASE ~ (i <= Len(made))
        <5>1. i - Len(made) \in {1, 2}
          BY <4>1, <4>2, <4>4
        <5>2. full[i] = <<"@", "?">>[i - Len(made)]
          BY <3>3, <4>2, <4>4
        <5>3. \A k \in {1, 2} : <<"@", "?">>[k] # "A"
          OBVIOUS
        <5> QED BY <5>1, <5>2, <5>3
      <4> QED BY <4>3, <4>4
    <3>5. Lower(full) = full
      BY <3>3, <3>4, LowerIs
    <3> QED BY <2>1, <3>3, <3>5 DEF full
  <2>2. CASE who.email # {}
    <3>1. (CHOOSE e \in who.email : TRUE) \in who.email
      BY <2>2
    <3> QED BY <1>2, <2>2, <3>1
  <2> QED BY <2>1, <2>2
<1>8. name \in Text /\ (Len(name) \in 1 .. Limits.name \/ Len(name) > Limits.name)
  <2>0. /\ Limits.name \in Nat /\ Limits.handleMin \in Nat /\ Limits.handleMax \in Nat
        /\ 1 <= Limits.handleMin /\ Limits.handleMax <= Limits.name
    BY FormsAssumption
  <2>1. CASE who.name = {}
    <3>1. name = made
      BY <2>1
    <3>2. Len(made) \in 1 .. Limits.name
      BY <1>5, <2>0
    <3> HIDE DEF name
    <3> QED BY <1>6, <3>1, <3>2
  <2>2. CASE who.name # {}
    <3>1. (CHOOSE t \in who.name : TRUE) \in who.name
      BY <2>2
    <3>2. name \in Text /\ name # <<>>
      BY <1>2, <2>2, <3>1
    <3> HIDE DEF name
    <3>3. Len(name) \in Nat /\ Len(name) # 0
      BY <3>2, EmptySeq DEF Text
    <3> QED BY <2>0, <3>2, <3>3
  <2> QED BY <2>1, <2>2
<1> HIDE DEF email, name
<1>9. row \in UserRow /\ row.handle = made /\ row.email = email /\ row.name = name
  BY <1>1, <1>2, <1>4, <1>6, <1>7, <1>8 DEF UserRow
<1>10. ~ UsersCheck(row) => Len(row.name) > Limits.name
  BY <1>5, <1>6, <1>7, <1>8, <1>9 DEF UsersCheck
<1> QED BY <1>9, <1>10 DEF row

\* An answer of the sign-in that no table refuses for a new reason.
LEMMA ProviderAnswered ==
  ASSUME Rows', answer'.of \in {"nothing", "exchange", "provider", "choice"},
         answer'.is \in {"refused", "taken", "stored", "misfit"}, answer'.found \subseteq accounts',
         answer'.is = "misfit" => answer'.of = "provider" /\ Len(answer'.asked) > Limits.name
  PROVE  AnswersFit'
<1>1. TablesTakeWhatIsWritten'
  BY DEF TablesTakeWhatIsWritten
<1> QED BY <1>1 DEF AnswersFit

LEMMA ExchangeKept ==
  ASSUME ProviderInv, NEW a \in ProviderAnswers, ExchangeAnswers(a)
  PROVE  ProviderInv'
<1>1. accounts' = accounts /\ tries' = tries /\ unfinished' = unfinished
  BY DEF ExchangeAnswers
<1>2. Rows' /\ Waiting' /\ tries' \in 0 .. MaxAttempts - 1
  BY <1>1 DEF ProviderInv, Rows, UsersCheck, Waiting
<1>3. AnswerRow(a)
  BY AnswersRow
<1>4. \/ /\ identity' = {IF a.provider = "github" THEN GitHubIdentity(a.profile, a.emails)
                         ELSE GoogleIdentity(a.profile)}
         /\ heard' = {a} /\ answer' = answer
      \/ /\ answer' = Answer("exchange", <<>>, "refused", {})
         /\ identity' = identity /\ heard' = heard
  BY DEF ExchangeAnswers
<1>5. CASE /\ identity' = {IF a.provider = "github" THEN GitHubIdentity(a.profile, a.emails)
                           ELSE GoogleIdentity(a.profile)}
           /\ heard' = {a} /\ answer' = answer
  <2> DEFINE who == IF a.provider = "github" THEN GitHubIdentity(a.profile, a.emails)
                    ELSE GoogleIdentity(a.profile)
  <2>1. Identified(who, a)
    <3>1. CASE a.provider = "github"
      BY <1>3, <3>1, GitHubIdentified
    <3>2. CASE a.provider # "github"
      <4>1. a.provider = "google"
        BY <1>3, <3>2 DEF AnswerRow
      <4> QED BY <1>3, <3>2, <4>1, GoogleIdentified
    <3> QED BY <3>1, <3>2
  <2>2. identity' = {who} /\ heard' = {a}
    BY <1>5
  <2> HIDE DEF who
  <2>3. OnePerson'
    <3>1. \E w, b : identity' = {w} /\ heard' = {b} /\ Identified(w, b)
      BY <2>1, <2>2
    <3> QED BY <3>1 DEF OnePerson, Identified, Vouched
  <2>4. TablesTakeWhatIsWritten'
    BY <1>5 DEF ProviderInv, AnswersFit, TablesTakeWhatIsWritten
  <2>5. AnswersFit' /\ answer'.of \in {"nothing", "exchange", "provider", "choice"}
    BY <1>1, <1>5, <2>4 DEF ProviderInv, AnswersFit
  <2> QED BY <1>2, <2>3, <2>5 DEF ProviderInv
<1>6. CASE /\ answer' = Answer("exchange", <<>>, "refused", {})
           /\ identity' = identity /\ heard' = heard
  <2>1. answer'.of = "exchange" /\ answer'.is = "refused" /\ answer'.found = {}
    BY <1>6 DEF Answer
  <2>2. AnswersFit'
    BY <1>2, <2>1, ProviderAnswered
  <2>3. OnePerson'
    BY <1>6 DEF ProviderInv, OnePerson, Identified, Vouched
  <2> QED BY <1>2, <2>1, <2>2, <2>3 DEF ProviderInv
<1> QED BY <1>4, <1>5, <1>6

LEMMA CreationKept ==
  ASSUME ProviderInv, NEW suffix \in [1 .. SuffixLength -> {"1", "a"}], CreateProviderAccount(suffix)
  PROVE  ProviderInv'
<1>0. tries \in Nat /\ tries <= MaxAttempts - 1 /\ MaxAttempts \in Nat \ {0} /\ Rows /\ OnePerson /\ Waiting
  BY SuffixAssumption DEF ProviderInv
<1>1. PICK who \in identity, a \in heard :
        LET row == ProviderRow(who, a.provider, suffix) IN
        \/ /\ \E e \in who.email : ByEmail(e) # {}
           /\ answer' = Answer("provider", <<>>, "taken", {})
           /\ Done /\ UNCHANGED <<accounts, unfinished>>
        \/ /\ \A e \in who.email : ByEmail(e) = {}
           /\ Insert("provider", row)
           /\ IF answer'.is = "taken" /\ tries + 1 < MaxAttempts
              THEN tries' = tries + 1 /\ UNCHANGED <<identity, heard>>
              ELSE Done
           /\ unfinished' = IF answer'.is = "stored" THEN unfinished \cup {row.id} ELSE unfinished
  BY DEF CreateProviderAccount
<1> DEFINE row == ProviderRow(who, a.provider, suffix)
<1>2. Identified(who, a)
  BY <1>0, <1>1 DEF OnePerson
<1>3. row \in UserRow /\ (~ UsersCheck(row) => Len(row.name) > Limits.name)
  BY <1>0, <1>2, MadeUp
<1>4. \/ /\ answer' = Answer("provider", <<>>, "taken", {})
         /\ Done /\ accounts' = accounts /\ unfinished' = unfinished
      \/ /\ Insert("provider", row)
         /\ IF answer'.is = "taken" /\ tries + 1 < MaxAttempts
            THEN tries' = tries + 1 /\ identity' = identity /\ heard' = heard
            ELSE Done
         /\ unfinished' = IF answer'.is = "stored" THEN unfinished \cup {row.id} ELSE unfinished
  BY <1>1
<1> HIDE DEF row
<1>5. Done => OnePerson' /\ tries' \in 0 .. MaxAttempts - 1
  BY <1>0 DEF Done, OnePerson
<1>6. CASE /\ answer' = Answer("provider", <<>>, "taken", {})
           /\ Done /\ accounts' = accounts /\ unfinished' = unfinished
  <2>1. answer'.of = "provider" /\ answer'.is = "taken" /\ answer'.found = {}
    BY <1>6 DEF Answer
  <2>2. Rows' /\ Waiting'
    BY <1>0, <1>6 DEF Rows, UsersCheck, Waiting
  <2>3. AnswersFit'
    BY <2>1, <2>2, ProviderAnswered
  <2> QED BY <1>5, <1>6, <2>1, <2>2, <2>3 DEF ProviderInv
<1>7. CASE /\ Insert("provider", row)
           /\ IF answer'.is = "taken" /\ tries + 1 < MaxAttempts
              THEN tries' = tries + 1 /\ identity' = identity /\ heard' = heard
              ELSE Done
           /\ unfinished' = IF answer'.is = "stored" THEN unfinished \cup {row.id} ELSE unfinished
  <2>1. /\ Rows' /\ answer'.of = "provider" /\ answer'.is \in {"misfit", "taken", "stored"}
        /\ answer'.found \subseteq accounts'
        /\ answer'.is = "misfit" => ~ UsersCheck(row) /\ answer'.asked = row.name
        /\ answer'.is = "stored" => accounts' = accounts \cup {row} /\ UsersCheck(row)
        /\ answer'.is # "stored" => accounts' = accounts
    BY <1>0, <1>3, <1>7, Inserted
  <2>2. answer'.is = "misfit" => Len(answer'.asked) > Limits.name
    BY <1>3, <2>1
  <2>3. AnswersFit'
    BY <2>1, <2>2, ProviderAnswered
  <2>4. OnePerson' /\ tries' \in 0 .. MaxAttempts - 1
    <3>1. CASE answer'.is = "taken" /\ tries + 1 < MaxAttempts
      <4>1. tries' = tries + 1 /\ identity' = identity /\ heard' = heard
        BY <1>7, <3>1
      <4>2. OnePerson'
        BY <1>0, <4>1 DEF OnePerson, Identified, Vouched
      <4> QED BY <1>0, <3>1, <4>1, <4>2
    <3>2. CASE ~ (answer'.is = "taken" /\ tries + 1 < MaxAttempts)
      <4>1. Done
        BY <1>7, <3>2
      <4> QED BY <1>5, <4>1
    <3> QED BY <3>1, <3>2
  <2>5. Waiting'
    <3>1. CASE answer'.is = "stored"
      <4>1. accounts' = accounts \cup {row} /\ unfinished' = unfinished \cup {row.id}
        BY <1>7, <2>1, <3>1
      <4> QED BY <1>0, <4>1 DEF Waiting
    <3>2. CASE answer'.is # "stored"
      <4>1. accounts' = accounts /\ unfinished' = unfinished
        BY <1>7, <2>1, <3>2
      <4> QED BY <1>0, <4>1 DEF Waiting
    <3> QED BY <3>1, <3>2
  <2> QED BY <2>1, <2>3, <2>4, <2>5 DEF ProviderInv
<1> QED BY <1>4, <1>6, <1>7

LEMMA ChosenTexts ==
  \A d \in {{}, {Blank}, {<<"~", "?">>}} : d \in SUBSET Text /\ \A s, t \in d : s = t
<1>1. "~" \in Letter /\ "?" \in Letter
  BY DEF Letter
<1>2. <<"~", "?">> \in Text
  BY <1>1 DEF Text
<1> QED BY <1>2, Words

LEMMA ChoiceKept ==
  ASSUME ProviderInv, NEW typed \in HandleTexts, NEW display \in {{}, {Blank}, {<<"~", "?">>}},
         CompleteSignIn(typed, display)
  PROVE  ProviderInv'
<1> DEFINE u == NormalizeUsername(typed)
           n == DisplayName(display, u)
<1>1. heard' = heard /\ identity' = identity /\ tries' = tries
  BY DEF CompleteSignIn
<1>2. PICK old \in accounts :
        LET row == [old EXCEPT !.typed = typed, !.handle = u, !.name = n] IN
        /\ UsernameFits(u) /\ DisplayNameFits(display)
        /\ IF ~ UsersCheck(row)
           THEN answer' = Answer("choice", row.name, "misfit", {}) /\ accounts' = accounts /\ unfinished' = unfinished
           ELSE IF ByHandle(u) \ {old} # {}
           THEN /\ answer' = Answer("choice", u, "taken", ByHandle(u) \ {old})
                /\ accounts' = accounts /\ unfinished' = unfinished
           ELSE /\ accounts' = (accounts \ {old}) \cup {row}
                /\ unfinished' = unfinished \ {old.id}
                /\ answer' = Answer("choice", u, "stored", {row})
  BY DEF CompleteSignIn
<1> DEFINE row == [old EXCEPT !.typed = typed, !.handle = u, !.name = n]
<1>3. Rows /\ OnePerson /\ tries \in 0 .. MaxAttempts - 1 /\ Waiting
  BY DEF ProviderInv
<1>4. typed \in Text /\ display \in SUBSET Text /\ \A s, t \in display : s = t
  BY TypedTexts, ChosenTexts
<1>5. u \in Text
  BY <1>4, FoldedIs DEF NormalizeUsername
<1>6. UsernameFits(u) /\ DisplayNameFits(display)
  BY <1>2
<1> HIDE DEF u
<1>7. n \in Text /\ Len(n) \in 1 .. Limits.name
  BY <1>4, <1>5, <1>6, NamesFit
<1> HIDE DEF n
<1>8. old \in UserRow /\ UsersCheck(old)
  BY <1>3 DEF Rows
<1>9. row \in UserRow /\ row.handle = u /\ row.name = n /\ row.email = old.email /\ row.id = old.id
  BY <1>4, <1>5, <1>7, <1>8 DEF UserRow
<1>10. \/ ~ UsersCheck(row)
       \/ /\ answer' = Answer("choice", u, "taken", ByHandle(u) \ {old})
          /\ accounts' = accounts /\ unfinished' = unfinished
       \/ /\ accounts' = (accounts \ {old}) \cup {row}
          /\ unfinished' = unfinished \ {old.id}
          /\ answer' = Answer("choice", u, "stored", {row})
  BY <1>2
<1> HIDE DEF row
<1>11. UsersCheck(row)
  BY <1>6, <1>7, <1>8, <1>9 DEF UsersCheck, UsernameFits
<1>12. OnePerson' /\ tries' \in 0 .. MaxAttempts - 1
  BY <1>1, <1>3 DEF OnePerson, Identified, Vouched
<1>13. CASE /\ answer' = Answer("choice", u, "taken", ByHandle(u) \ {old})
            /\ accounts' = accounts /\ unfinished' = unfinished
  <2>1. answer'.of = "choice" /\ answer'.is = "taken" /\ answer'.found = ByHandle(u) \ {old}
    BY <1>13 DEF Answer
  <2>2. Rows' /\ Waiting' /\ answer'.found \subseteq accounts'
    BY <1>3, <1>13, <2>1 DEF Rows, UsersCheck, Waiting, ByHandle
  <2>3. AnswersFit'
    BY <2>1, <2>2, ProviderAnswered
  <2> QED BY <1>12, <2>1, <2>2, <2>3 DEF ProviderInv
<1>14. CASE /\ accounts' = (accounts \ {old}) \cup {row}
            /\ unfinished' = unfinished \ {old.id}
            /\ answer' = Answer("choice", u, "stored", {row})
  <2>1. answer'.of = "choice" /\ answer'.is = "stored" /\ answer'.found = {row}
    BY <1>14 DEF Answer
  <2>2. IsFiniteSet(accounts')
    <3>1. IsFiniteSet(accounts \ {old})
      BY <1>3, FS_Subset DEF Rows
    <3> QED BY <1>14, <3>1, FS_AddElement
  <2>3. Rows'
    BY <1>3, <1>9, <1>11, <1>14, <2>2 DEF Rows, UsersCheck
  <2>4. Waiting' /\ answer'.found \subseteq accounts'
    BY <1>3, <1>9, <1>14, <2>1 DEF Waiting
  <2>5. AnswersFit'
    BY <2>1, <2>3, <2>4, ProviderAnswered
  <2> QED BY <1>12, <2>1, <2>3, <2>4, <2>5 DEF ProviderInv
<1> QED BY <1>10, <1>11, <1>13, <1>14

LEMMA ProviderInitially == ProviderInit => ProviderInv
<1> SUFFICES ASSUME ProviderInit PROVE ProviderInv
  OBVIOUS
<1>1. /\ \A a \in accounts : UsersCheck(a)
      /\ answer = NoAnswer /\ heard = {} /\ identity = {} /\ tries = 0 /\ unfinished = {}
  BY DEF ProviderInit
<1>2. accounts \in SUBSET UserRow /\ IsFiniteSet(accounts)
  <2>1. \A u \in {"a", "1", "b"} : u \in Letter
    BY DEF Letter
  <2>2. \A x, y, z \in Letter : <<x, y>> \in Text /\ <<x, y, z>> \in Text
    BY DEF Text
  <2>3. <<"a", "1">> \in Text /\ <<"a", "1", "1">> \in Text
    BY <2>1, <2>2
  <2>4. ASSUME NEW h \in Text, NEW c \in {"a", "1", "b"}, NEW id \in Nat
        PROVE  Registered(h, c, id) \in UserRow
    <3> DEFINE form == Registration(h, Mail(c))
    <3>1. Mail(c) \in Text
      BY <2>1, Words
    <3>2. form.username = h /\ form.email = Mail(c) /\ form.display = {}
      BY DEF Registration
    <3>3. Registered(h, c, id) = AccountRow(form, id)
      BY DEF Registered
    <3> HIDE DEF form
    <3>4. NormalizeUsername(h) \in Text /\ NormalizeEmail(Mail(c)) \in Text
      BY <3>1, FoldedIs DEF NormalizeUsername, NormalizeEmail
    <3>5. DisplayName(form.display, NormalizeUsername(h)) = NormalizeUsername(h)
      BY <3>2 DEF DisplayName
    <3> QED BY <3>1, <3>2, <3>3, <3>4, <3>5 DEF AccountRow, UserRow
  <2>5. "a" \in {"a", "1", "b"} /\ "1" \in {"a", "1", "b"} /\ "b" \in {"a", "1", "b"} /\ 1 \in Nat /\ 2 \in Nat
    OBVIOUS
  <2>6. /\ Registered(<<"a", "1">>, "a", 1) \in UserRow /\ Registered(<<"a", "1">>, "1", 1) \in UserRow
        /\ Registered(<<"a", "1", "1">>, "b", 2) \in UserRow
    BY <2>3, <2>4, <2>5
  <2>7. /\ IsFiniteSet({})
        /\ \A x, y : IsFiniteSet({x}) /\ IsFiniteSet({x, y})
    <3>1. IsFiniteSet({})
      BY FS_EmptySet
    <3>2. ASSUME NEW x, NEW y PROVE IsFiniteSet({x}) /\ IsFiniteSet({x, y})
      <4>1. IsFiniteSet({} \cup {x})
        BY <3>1, FS_AddElement
      <4>2. {} \cup {x} = {x} /\ {x} \cup {y} = {x, y}
        OBVIOUS
      <4>3. IsFiniteSet({x})
        BY <4>1, <4>2
      <4>4. IsFiniteSet({x} \cup {y})
        BY <4>3, FS_AddElement
      <4> QED BY <4>2, <4>3, <4>4
    <3> QED BY <3>1, <3>2
  <2> DEFINE r == Registered(<<"a", "1">>, "a", 1)
             p == Registered(<<"a", "1">>, "1", 1)
             q == Registered(<<"a", "1", "1">>, "b", 2)
  <2>8. accounts \in {{}, {r}, {p, q}}
    BY DEF ProviderInit
  <2>9. r \in UserRow /\ p \in UserRow /\ q \in UserRow
    BY <2>6
  <2> HIDE DEF r, p, q
  <2> QED BY <2>7, <2>8, <2>9
<1>3. answer.of = "nothing" /\ answer.is = "refused" /\ answer.found = {}
  BY <1>1 DEF NoAnswer, Answer
<1>4. Rows
  BY <1>1, <1>2 DEF Rows
<1>5. AnswersFit
  BY <1>3 DEF AnswersFit, TablesTakeWhatIsWritten
<1>6. OnePerson /\ Waiting
  BY <1>1 DEF OnePerson, Waiting
<1>7. tries \in 0 .. MaxAttempts - 1
  BY <1>1, SuffixAssumption
<1> QED BY <1>3, <1>4, <1>5, <1>6, <1>7 DEF ProviderInv

LEMMA ProviderKept == ProviderInv /\ [ProviderNext]_<<formVars, providerVars>> => ProviderInv'
<1> SUFFICES ASSUME ProviderInv, [ProviderNext]_<<formVars, providerVars>> PROVE ProviderInv'
  OBVIOUS
<1>1. ASSUME NEW a \in ProviderAnswers, ExchangeAnswers(a) PROVE ProviderInv'
  BY <1>1, ExchangeKept
<1>2. ASSUME NEW suffix \in [1 .. SuffixLength -> {"1", "a"}], CreateProviderAccount(suffix) PROVE ProviderInv'
  BY <1>2, CreationKept
<1>3. ASSUME NEW t \in HandleTexts, NEW d \in {{}, {Blank}, {<<"~", "?">>}}, CompleteSignIn(t, d) PROVE ProviderInv'
  BY <1>3, ChoiceKept
<1>4. ASSUME UNCHANGED <<formVars, providerVars>> PROVE ProviderInv'
  <2>1. /\ accounts' = accounts /\ answer' = answer /\ heard' = heard /\ identity' = identity
        /\ tries' = tries /\ unfinished' = unfinished
    BY <1>4 DEF formVars, providerVars
  <2>2. Rows' /\ Waiting' /\ tries' \in 0 .. MaxAttempts - 1
    BY <2>1 DEF ProviderInv, Rows, UsersCheck, Waiting
  <2>3. TablesTakeWhatIsWritten'
    BY <2>1 DEF ProviderInv, AnswersFit, TablesTakeWhatIsWritten
  <2>4. AnswersFit' /\ answer'.of \in {"nothing", "exchange", "provider", "choice"}
    BY <2>1, <2>3 DEF ProviderInv, AnswersFit
  <2>5. OnePerson'
    BY <2>1 DEF ProviderInv, OnePerson, Identified, Vouched
  <2> QED BY <2>2, <2>4, <2>5 DEF ProviderInv
<1> QED BY <1>1, <1>2, <1>3, <1>4, Zenon DEF ProviderNext

LEMMA FormsShow ==
  FormsInv /\ identity = {} /\ heard = {} /\ tries = 0 /\ unfinished = {}
    => FormsTypeOK /\ ProviderTypeOK /\ TablesTakeWhatIsWritten /\ RetypedTextFindsTheAccount /\ VerifiedIsTheAddressesOwn
<1> SUFFICES ASSUME FormsInv, identity = {}, heard = {}, tries = 0, unfinished = {}
             PROVE  /\ FormsTypeOK /\ ProviderTypeOK /\ TablesTakeWhatIsWritten
                    /\ RetypedTextFindsTheAccount /\ VerifiedIsTheAddressesOwn
  OBVIOUS
<1>1. FormsTypeOK
  BY DEF FormsInv, Rows, AnswersFit, FormsTypeOK
<1>2. ProviderTypeOK
  BY FS_EmptySet, SuffixAssumption DEF ProviderTypeOK
<1>3. TablesTakeWhatIsWritten /\ RetypedTextFindsTheAccount
  BY DEF FormsInv, AnswersFit
<1>4. VerifiedIsTheAddressesOwn
  BY DEF VerifiedIsTheAddressesOwn
<1> QED BY <1>1, <1>2, <1>3, <1>4

LEMMA ProviderShows ==
  ProviderInv => FormsTypeOK /\ ProviderTypeOK /\ TablesTakeWhatIsWritten /\ RetypedTextFindsTheAccount /\ VerifiedIsTheAddressesOwn
<1> SUFFICES ASSUME ProviderInv
             PROVE  /\ FormsTypeOK /\ ProviderTypeOK /\ TablesTakeWhatIsWritten
                    /\ RetypedTextFindsTheAccount /\ VerifiedIsTheAddressesOwn
  OBVIOUS
<1>1. FormsTypeOK
  BY DEF ProviderInv, Rows, AnswersFit, FormsTypeOK
<1>2. ProviderTypeOK
  <2>1. Cardinality(identity) <= 1 /\ Cardinality(heard) = Cardinality(identity)
    <3>1. CASE identity = {} /\ heard = {}
      <4>1. Cardinality({}) = 0
        BY FS_EmptySet
      <4> QED BY <3>1, <4>1
    <3>2. CASE \E who, a : identity = {who} /\ heard = {a} /\ Identified(who, a)
      <4>1. PICK who, a : identity = {who} /\ heard = {a}
        BY <3>2
      <4>2. Cardinality({who}) = 1 /\ Cardinality({a}) = 1
        BY FS_Singleton
      <4> QED BY <4>1, <4>2
    <3> QED BY <3>1, <3>2 DEF ProviderInv, OnePerson
  <2> QED BY <2>1 DEF ProviderInv, Waiting, ProviderTypeOK
<1>3. TablesTakeWhatIsWritten
  BY DEF ProviderInv, AnswersFit
<1>4. RetypedTextFindsTheAccount
  BY DEF ProviderInv, RetypedTextFindsTheAccount
<1>5. VerifiedIsTheAddressesOwn
  BY DEF ProviderInv, OnePerson, Identified, VerifiedIsTheAddressesOwn
<1> QED BY <1>1, <1>2, <1>3, <1>4, <1>5
====
