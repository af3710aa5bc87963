--------------------------- MODULE AttemptLimiter ---------------------------
(***************************************************************************)
(* The attempt limiter: crates/auth/src/limiter.rs, as service.rs uses it. *)
(* A request asks for a verdict, checks a credential, and records what came *)
(* of it; other requests of the same source run in between.  Instants are  *)
(* kept as what the code compares them for: the age of a failure window    *)
(* and what is left of a penalty.  last_seen is kept as which of two       *)
(* tracked sources was seen earlier.                                       *)
(***************************************************************************)
EXTENDS Integers, Sequences, FiniteSets, SequencesExt

CONSTANTS Address, Attempt,    \* client addresses, and the requests in flight at once
          MaxFailures, Window, Throttle, MaxThrottles, Lockout, MaxTracked,
          LongestLockout,      \* MAX_LOCKOUT_SECS
          MaxDoublings,        \* MAX_LOCKOUT_DOUBLINGS
          MaxRecorded          \* bound: failures and lockouts recorded for one source

\* LoginAttemptPolicy::sanitized, and a lockout that is no shorter than a throttle.
ASSUME LimiterAssumption ==
  /\ {MaxFailures, Window, Throttle, MaxThrottles, Lockout, LongestLockout, MaxTracked}
       \subseteq Nat \ {0}
  /\ MaxDoublings \in Nat
  /\ Throttle <= Lockout /\ Lockout <= LongestLockout

\* Requests whose address is not known share one bucket.
UnknownSource == "unknown"
Source == Address \cup {UnknownSource}

VARIABLES record,    \* [Source -> AttemptRecord]
          tracked,   \* the sources in the map
          colder,    \* the pairs of them whose first was seen before the second
          attempt    \* [Attempt -> the source a request was allowed to try from]

limiterVars == <<record, tracked, colder, attempt>>

NoSource == "none"

NewRecord == [failures |-> 0, throttles |-> 0, lockouts |-> 0, age |-> 0,
              throttleLeft |-> 0, lockoutLeft |-> 0]

LimiterInit ==
  /\ record = [s \in Source |-> NewRecord]
  /\ tracked = {} /\ colder = {}
  /\ attempt = [a \in Attempt |-> NoSource]

-----------------------------------------------------------------------------
\* lockout_seconds: the base doubled per earlier lockout, up to a day.
Factor[exponent \in Nat] == IF exponent = 0 THEN 1 ELSE 2 * Factor[exponent - 1]
LockoutSeconds(lockouts) ==
  LET exponent == IF lockouts - 1 > MaxDoublings THEN MaxDoublings ELSE lockouts - 1
      seconds == Lockout * Factor[exponent]
  IN IF seconds > LongestLockout THEN LongestLockout ELSE seconds

\* decay_window
Decayed(r) ==
  IF r.age > Window THEN [r EXCEPT !.failures = 0, !.throttles = 0, !.age = 0] ELSE r

Locked_out(r) == r.lockoutLeft > 0
Throttled(r) == r.throttleLeft > 0

\* AttemptRecord::record_failure
AfterFailure(r) ==
  LET d == Decayed(r)
      f == [d EXCEPT !.failures = @ + 1]
      t == [f EXCEPT !.throttles = @ + 1]
  IN CASE f.failures < MaxFailures -> f
       [] f.failures >= MaxFailures /\ t.throttles >= MaxThrottles ->
            [t EXCEPT !.lockouts = @ + 1, !.lockoutLeft = LockoutSeconds(t.lockouts + 1),
                      !.throttleLeft = 0]
       [] OTHER -> [t EXCEPT !.throttleLeft = Throttle]

\* is_stale
Stale(r) == r.age > Window /\ ~ Locked_out(r) /\ ~ Throttled(r)

\* make_room: nothing below the cap; else every stale record, and if that freed nothing
\* the coldest one.
StillCounting == {s \in tracked : ~ Stale(record[s])}
EarlierIn(S, s) == {t \in S : <<t, s>> \in colder}
Coldest(S) == CHOOSE s \in S : EarlierIn(S, s) = {}
\* Mutant: pruning the stale records is taken for making room.
Kept_prunes_only == IF Cardinality(tracked) < MaxTracked THEN tracked ELSE StillCounting
Kept ==
  IF Cardinality(tracked) < MaxTracked THEN tracked
  ELSE IF Cardinality(StillCounting) < MaxTracked THEN StillCounting
  ELSE StillCounting \ {Coldest(StillCounting)}

\* The map holds S and s, which is seen now.
SeenNow(S, s) ==
  /\ tracked' = S \cup {s}
  /\ colder' = {e \in colder : {e[1], e[2]} \subseteq S \ {s}} \cup ((S \ {s}) \X {s})

-----------------------------------------------------------------------------
\* X-Forwarded-For: the proxy appends what it saw to whatever the client sent, so only
\* the last entry counts.
NoText == ""
Forwarded == {<<>>} \cup {<<x, y>> : x \in Address, y \in Address \cup {NoText}}
SourceOf(forwarded) ==
  IF forwarded = <<>> \/ Last(forwarded) = NoText THEN UnknownSource ELSE Last(forwarded)

\* refuse_while_limited: a tracked source is seen, and only an unpenalised one goes on.
Ask(a, s) ==
  /\ attempt[a] = NoSource
  /\ IF s \in tracked THEN SeenNow(tracked, s) ELSE UNCHANGED <<tracked, colder>>
  /\ attempt' = IF s \in tracked /\ (Locked_out(record[s]) \/ Throttled(record[s]))
                THEN attempt ELSE [attempt EXCEPT ![a] = s]
  /\ UNCHANGED record

\* record_failure: a wrong password, or a request for mail, which always counts.
Fail(a) ==
  /\ attempt[a] # NoSource
  /\ attempt' = [attempt EXCEPT ![a] = NoSource]
  /\ LET s == attempt[a] IN
     IF s \in tracked
     THEN /\ record[s].failures < MaxRecorded /\ record[s].lockouts < MaxRecorded
          /\ record' = [record EXCEPT ![s] = AfterFailure(@)]
          /\ SeenNow(tracked, s)
     ELSE /\ record' = [t \in Source |-> IF t = s THEN AfterFailure(NewRecord)
                                         ELSE IF t \in Kept THEN record[t] ELSE NewRecord]
          /\ SeenNow(Kept, s)

\* record_success forgives the source.
Succeed(a) ==
  /\ attempt[a] # NoSource
  /\ attempt' = [attempt EXCEPT ![a] = NoSource]
  /\ record' = [record EXCEPT ![attempt[a]] = NewRecord]
  /\ tracked' = tracked \ {attempt[a]}
  /\ colder' = {e \in colder : attempt[a] \notin {e[1], e[2]}}

\* The request is refused for another reason, or dropped: nothing is recorded.
Drop(a) ==
  /\ attempt[a] # NoSource
  /\ attempt' = [attempt EXCEPT ![a] = NoSource]
  /\ UNCHANGED <<record, tracked, colder>>

Less(n) == IF n > 0 THEN n - 1 ELSE 0

\* One unit of time, for every record at once; a window's age stops mattering past Window.
Pass ==
  /\ record' = [s \in Source |->
       IF s \in tracked
       THEN [record[s] EXCEPT !.age = IF @ > Window THEN @ ELSE @ + 1,
                              !.throttleLeft = Less(@), !.lockoutLeft = Less(@)]
       ELSE record[s]]
  /\ UNCHANGED <<tracked, colder, attempt>>

LimiterNext ==
  \/ \E a \in Attempt, forwarded \in Forwarded : Ask(a, SourceOf(forwarded))
  \/ \E a \in Attempt : Fail(a) \/ Succeed(a) \/ Drop(a)
  \/ Pass

LimiterSpec == LimiterInit /\ [][LimiterNext]_limiterVars

-----------------------------------------------------------------------------
AttemptRecord ==
  [failures : Nat, throttles : Nat, lockouts : Nat, age : 0 .. Window + 1,
   throttleLeft : 0 .. Throttle, lockoutLeft : 0 .. LongestLockout]

\* Types, the hard cap on tracked sources, and that an untracked one owes nothing.
LimiterTypeOK ==
  /\ record \in [Source -> AttemptRecord]
  /\ tracked \subseteq Source /\ Cardinality(tracked) <= MaxTracked
  /\ colder \subseteq tracked \X tracked
  /\ attempt \in [Attempt -> Source \cup {NoSource}]
  /\ \A s \in Source \ tracked : record[s] = NewRecord

\* What is left of the penalty that the next verdict would enforce.
Left(s) ==
  IF record[s].lockoutLeft > record[s].throttleLeft THEN record[s].lockoutLeft
  ELSE record[s].throttleLeft

\* A penalty only elapses.  However attempts that were allowed before it overlap with it,
\* none of their failures shortens it; it goes early only when such an attempt turns out
\* right, or when a new source finds the map full of sources that all still count.
PenaltyOnlyElapses ==
  [][\A s \in Source :
       Left(s) > 0 =>
         \/ Left(s)' >= Left(s)
         \/ Pass
         \/ \E a \in Attempt : attempt[a] = s /\ Succeed(a)
         \/ /\ Cardinality(tracked) = MaxTracked
            /\ s = Coldest(tracked)
            /\ \A t \in tracked : ~ Stale(record[t])]_limiterVars
=============================================================================
