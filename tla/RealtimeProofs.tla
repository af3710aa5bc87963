--------------------------- MODULE RealtimeProofs ---------------------------
(***************************************************************************)
(* What holds of reachability, for any Users, Devices, deadline and link,   *)
(* and of delivery: the queues stay within their capacities and the         *)
(* positions of loads and repairs within the stream, for every capacity and *)
(* page size and any number of Messages, sockets and failures.              *)
(***************************************************************************)
EXTENDS Presence, Delivery, WellFoundedInduction, TLAPS

-----------------------------------------------------------------------------
(* Reachability *)


\* A registration lasts from register to unregister, or, for a task that left by
\* its first send error, for good.
RegisteredWhileServed ==
  \A c \in Conn :
    /\ pc[c] \in Opening \cup Serving \cup {"leave"} => c \in registry
    /\ pc[c] \in {"new", "store", "farewell"} => c \notin registry

\* A task that waits in its loop has a peer that is within the deadline.
WithinDeadline ==
  \A c \in Conn :
    pc[c] \notin {"sweep"} \cup Leaving \cup {"gone"} =>
      quiet[c] = Never \/ quiet[c] <= Beats

PresenceIInv == /\ PresenceTypeOK
                /\ RegisteredWhileServed
                /\ WithinDeadline
                /\ OneAnnouncer
                /\ ShownOnlineIsReachable

USE DEF Opening, Serving, Leaving

LEMMA PresenceInitially == PresenceInit => PresenceIInv
<1> SUFFICES ASSUME PresenceInit PROVE PresenceIInv
  OBVIOUS
<1> USE PresenceAssumption
<1>1. PresenceTypeOK
  BY DEF PresenceInit, PresenceTypeOK, Phase
<1>2. RegisteredWhileServed
  BY DEF PresenceInit, RegisteredWhileServed
<1>3. WithinDeadline
  BY DEF PresenceInit, WithinDeadline
<1>4. OneAnnouncer
  BY DEF PresenceInit, OneAnnouncer
<1>5. ShownOnlineIsReachable
  BY DEF PresenceInit, ShownOnlineIsReachable
<1> QED
  BY <1>1, <1>2, <1>3, <1>4, <1>5 DEF PresenceIInv

LEMMA PresenceTypeStep == PresenceIInv /\ [PresenceNext]_presenceVars => PresenceTypeOK'
<1> SUFFICES ASSUME PresenceIInv, [PresenceNext]_presenceVars PROVE PresenceTypeOK'
  OBVIOUS
<1> USE PresenceAssumption DEF Phase
<1>1. PresenceTypeOK /\ WithinDeadline
  BY DEF PresenceIInv
<1>2. CASE UNCHANGED presenceVars
  BY <1>1, <1>2 DEF presenceVars, wires, PresenceTypeOK
<1>3. ASSUME NEW c \in Conn, Silence(c) \/ Shut(c) \/ BreakWriter(c)
      PROVE  PresenceTypeOK'
  <2>1. CASE Silence(c) \/ Shut(c)
    BY <1>1, <2>1 DEF Silence, Shut, PresenceTypeOK
  <2>2. CASE BreakWriter(c)
    <3>1. writer' \in [Conn -> BOOLEAN]
      BY <1>1, <2>2 DEF BreakWriter, PresenceTypeOK
    <3> QED
      BY <1>1, <2>2, <3>1 DEF BreakWriter, PresenceTypeOK
  <2> QED
    BY <1>3, <2>1, <2>2
<1>4. ASSUME NEW c \in Conn, Register(c) \/ Unregister(c) \/ StoreLastSeen(c)
      PROVE  PresenceTypeOK'
  BY <1>1, <1>4 DEF Register, Unregister, StoreLastSeen, Goto, PresenceTypeOK, wires
<1>5. ASSUME NEW c \in Conn, TellOnline(c) \/ TellOffline(c)
      PROVE  PresenceTypeOK'
  BY <1>1, <1>5 DEF TellOnline, TellOffline, Broadcast, Goto, PresenceTypeOK, wires
<1>6. ASSUME NEW c \in Conn, Sent(c)
      PROVE  room' \in [Conn -> 0 .. LinkRoom]
  <2>1. room \in [Conn -> 0 .. LinkRoom]
    BY <1>1 DEF PresenceTypeOK
  <2> QED
    BY <1>6, <2>1 DEF Sent
<1>7. ASSUME NEW c \in Conn, OpeningPing(c)
      PROVE  PresenceTypeOK'
  BY <1>1, <1>6, <1>7 DEF OpeningPing, Goto, PresenceTypeOK
<1>8. ASSUME NEW c \in Conn, SendSyncState(c)
      PROVE  PresenceTypeOK'
  BY <1>1, <1>6, <1>8 DEF SendSyncState, Goto, PresenceTypeOK
<1>9. ASSUME NEW c \in Conn, ForwardEvent(c)
      PROVE  PresenceTypeOK'
  BY <1>1, <1>6, <1>9 DEF ForwardEvent, Goto, PresenceTypeOK
<1>10. ASSUME NEW c \in Conn, Beat(c) \/ ReadClose(c) \/ Sweep(c)
       PROVE  PresenceTypeOK'
  BY <1>1, <1>10 DEF Beat, ReadClose, Sweep, Goto, PresenceTypeOK, wires
<1>11. ASSUME NEW c \in Conn, Heartbeat(c)
       PROVE  PresenceTypeOK'
  <2>1. quiet[c] \in (0 .. Beats) \cup {Never}
    BY <1>1, <1>11 DEF Heartbeat, WithinDeadline, PresenceTypeOK
  <2>2. quiet' \in [Conn -> (0 .. (Beats + 1)) \cup {Never}]
    BY <1>1, <1>11, <2>1 DEF Heartbeat, PresenceTypeOK
  <2> QED
    BY <1>1, <1>6, <1>11, <2>2 DEF Heartbeat, Goto, PresenceTypeOK
<1> QED
  BY <1>2, <1>3, <1>4, <1>5, <1>7, <1>8, <1>9, <1>10, <1>11 DEF PresenceNext, Step

LEMMA RegisteredStep == PresenceIInv /\ [PresenceNext]_presenceVars => RegisteredWhileServed'
<1> SUFFICES ASSUME PresenceIInv, [PresenceNext]_presenceVars PROVE RegisteredWhileServed'
  OBVIOUS
<1>1. PresenceTypeOK /\ RegisteredWhileServed
  BY DEF PresenceIInv
<1>2. CASE UNCHANGED presenceVars
  BY <1>1, <1>2 DEF presenceVars, wires, RegisteredWhileServed
<1>3. ASSUME NEW c \in Conn, Silence(c) \/ Shut(c) \/ BreakWriter(c) \/ Beat(c)
      PROVE  RegisteredWhileServed'
  BY <1>1, <1>3 DEF Silence, Shut, BreakWriter, Beat, RegisteredWhileServed, wires
<1>4. ASSUME NEW c \in Conn, Register(c) \/ Unregister(c)
      PROVE  RegisteredWhileServed'
  BY <1>1, <1>4 DEF Register, Unregister, Goto, RegisteredWhileServed, PresenceTypeOK
<1>5. ASSUME NEW c \in Conn,
             \/ TellOnline(c) \/ OpeningPing(c) \/ SendSyncState(c)
             \/ ForwardEvent(c) \/ ReadClose(c) \/ Heartbeat(c) \/ Sweep(c)
      PROVE  RegisteredWhileServed'
  BY <1>1, <1>5 DEF TellOnline, OpeningPing, SendSyncState, ForwardEvent, ReadClose,
     Heartbeat, Sweep, Goto, RegisteredWhileServed, PresenceTypeOK
<1>6. ASSUME NEW c \in Conn, StoreLastSeen(c) \/ TellOffline(c)
      PROVE  RegisteredWhileServed'
  BY <1>1, <1>6 DEF StoreLastSeen, TellOffline, Goto, RegisteredWhileServed, PresenceTypeOK
<1> QED
  BY <1>2, <1>3, <1>4, <1>5, <1>6 DEF PresenceNext, Step

LEMMA WithinDeadlineStep == PresenceIInv /\ [PresenceNext]_presenceVars => WithinDeadline'
<1> SUFFICES ASSUME PresenceIInv, [PresenceNext]_presenceVars PROVE WithinDeadline'
  OBVIOUS
<1> USE PresenceAssumption
<1>1. PresenceTypeOK /\ WithinDeadline
  BY DEF PresenceIInv
<1>2. CASE UNCHANGED presenceVars
  BY <1>1, <1>2 DEF presenceVars, WithinDeadline
<1>3. ASSUME NEW c \in Conn, Silence(c) \/ Shut(c) \/ BreakWriter(c)
      PROVE  WithinDeadline'
  BY <1>1, <1>3 DEF Silence, Shut, BreakWriter, WithinDeadline
<1>4. ASSUME NEW c \in Conn,
             \/ Register(c) \/ TellOnline(c) \/ OpeningPing(c) \/ SendSyncState(c)
             \/ ForwardEvent(c) \/ ReadClose(c) \/ Unregister(c)
             \/ StoreLastSeen(c) \/ TellOffline(c)
      PROVE  WithinDeadline'
  BY <1>1, <1>4 DEF Register, TellOnline, OpeningPing, SendSyncState, ForwardEvent,
     ReadClose, Unregister, StoreLastSeen, TellOffline, Goto, WithinDeadline, PresenceTypeOK
<1>5. ASSUME NEW c \in Conn, Beat(c)
      PROVE  WithinDeadline'
  BY <1>1, <1>5 DEF Beat, WithinDeadline, PresenceTypeOK
<1>6. ASSUME NEW c \in Conn, Heartbeat(c)
      PROVE  WithinDeadline'
  BY <1>1, <1>6 DEF Heartbeat, Goto, WithinDeadline, PresenceTypeOK
<1>7. ASSUME NEW c \in Conn, Sweep(c)
      PROVE  WithinDeadline'
  BY <1>1, <1>7 DEF Sweep, Goto, WithinDeadline, PresenceTypeOK
<1> QED
  BY <1>2, <1>3, <1>4, <1>5, <1>6, <1>7 DEF PresenceNext, Step

LEMMA OneAnnouncerStep == PresenceIInv /\ [PresenceNext]_presenceVars => OneAnnouncer'
<1> SUFFICES ASSUME PresenceIInv, [PresenceNext]_presenceVars PROVE OneAnnouncer'
  OBVIOUS
<1>1. PresenceTypeOK /\ RegisteredWhileServed /\ OneAnnouncer
  BY DEF PresenceIInv
<1>2. CASE UNCHANGED presenceVars
  BY <1>1, <1>2 DEF presenceVars, OneAnnouncer
<1>3. ASSUME NEW c \in Conn, Register(c)
      PROVE  OneAnnouncer'
  <2>1. ASSUME NEW d \in Conn, pc[d] = "announce", UserOf[d] = UserOf[c]
        PROVE  Live(UserOf[c]) # {}
    BY <1>1, <2>1 DEF RegisteredWhileServed, Live
  <2> QED
    BY <1>1, <1>3, <2>1 DEF Register, Goto, OneAnnouncer, PresenceTypeOK
<1>4. ASSUME NEW c \in Conn,
             Silence(c) \/ Shut(c) \/ BreakWriter(c) \/ Beat(c)
      PROVE  OneAnnouncer'
  BY <1>1, <1>4 DEF Silence, Shut, BreakWriter, Beat, OneAnnouncer
<1>5. ASSUME NEW c \in Conn, NEW l, l # "announce", pc' = [pc EXCEPT ![c] = l]
      PROVE  OneAnnouncer'
  BY <1>1, <1>5 DEF OneAnnouncer, PresenceTypeOK
<1>6. ASSUME NEW c \in Conn, Step(c) \/ ForwardEvent(c)
      PROVE  \E l : l # "announce" /\ pc' = [pc EXCEPT ![c] = l]
  BY <1>6 DEF Step, TellOnline, OpeningPing, SendSyncState, ForwardEvent, ReadClose,
     Heartbeat, Sweep, Unregister, StoreLastSeen, TellOffline, Goto
<1> QED
  BY <1>2, <1>3, <1>4, <1>5, <1>6 DEF PresenceNext

LEMMA ReachableStep == PresenceIInv /\ [PresenceNext]_presenceVars => ShownOnlineIsReachable'
<1> SUFFICES ASSUME PresenceIInv, [PresenceNext]_presenceVars,
                    NEW u \in User, told'[u] = "online"
             PROVE  \/ Live(u)' # {}
                    \/ \E c \in Conn : /\ UserOf[c] = u
                                       /\ pc'[c] \in {"store", "farewell"}
  BY DEF ShownOnlineIsReachable
<1>1. PresenceTypeOK /\ RegisteredWhileServed /\ ShownOnlineIsReachable
  BY DEF PresenceIInv
<1>2. ASSUME told'[u] = told[u], registry \subseteq registry',
             \A c \in Conn : pc[c] \in {"store", "farewell"} =>
                               pc'[c] \in {"store", "farewell"}
      PROVE  \/ Live(u)' # {}
             \/ \E c \in Conn : UserOf[c] = u /\ pc'[c] \in {"store", "farewell"}
  BY <1>1, <1>2 DEF ShownOnlineIsReachable, Live
<1>3. CASE UNCHANGED presenceVars
  BY <1>2, <1>3 DEF presenceVars
<1>4. ASSUME NEW c \in Conn,
             \/ Silence(c) \/ Shut(c) \/ BreakWriter(c) \/ Beat(c)
             \/ Register(c) \/ OpeningPing(c) \/ SendSyncState(c) \/ ForwardEvent(c)
             \/ ReadClose(c) \/ Heartbeat(c) \/ Sweep(c) \/ StoreLastSeen(c)
      PROVE  /\ told'[u] = told[u] /\ registry \subseteq registry'
             /\ \A d \in Conn : pc[d] \in {"store", "farewell"} =>
                                  pc'[d] \in {"store", "farewell"}
  BY <1>1, <1>4 DEF Silence, Shut, BreakWriter, Beat, Register, OpeningPing,
     SendSyncState, ForwardEvent, ReadClose, Heartbeat, Sweep, StoreLastSeen, Goto,
     PresenceTypeOK
<1>5. ASSUME NEW c \in Conn, TellOnline(c)
      PROVE  Live(u)' # {} \/ \E d \in Conn : /\ UserOf[d] = u
                                              /\ pc'[d] \in {"store", "farewell"}
  <2>1. CASE UserOf[c] = u
    BY <1>1, <1>5, <2>1 DEF TellOnline, RegisteredWhileServed, Live
  <2>2. CASE UserOf[c] # u
    <3>1. told'[u] = told[u]
      BY <1>1, <1>5, <2>2 DEF TellOnline, Broadcast, PresenceTypeOK
    <3> QED
      BY <1>1, <1>2, <1>5, <3>1 DEF TellOnline, Goto, PresenceTypeOK
  <2> QED
    BY <2>1, <2>2
<1>6. ASSUME NEW c \in Conn, Unregister(c)
      PROVE  Live(u)' # {} \/ \E d \in Conn : /\ UserOf[d] = u
                                              /\ pc'[d] \in {"store", "farewell"}
  <2>1. CASE UserOf[c] = u /\ Live(u) = {c}
    BY <1>1, <1>6, <2>1 DEF Unregister, Goto, PresenceTypeOK
  <2>2. CASE UserOf[c] = u /\ Live(u) # {c}
    <3>1. c \in Live(u)
      BY <1>1, <1>6, <2>2 DEF Unregister, RegisteredWhileServed, Live
    <3>2. PICK d \in Live(u) : d # c
      BY <2>2, <3>1
    <3> QED
      BY <1>6, <3>2 DEF Unregister, Live
  <2>3. CASE UserOf[c] # u
    <3>1. told'[u] = told[u]
      BY <1>6 DEF Unregister
    <3>2. Live(u)' = Live(u)
      BY <1>6, <2>3 DEF Unregister, Live
    <3>3. \A d \in Conn : pc[d] \in {"store", "farewell"} => pc'[d] = pc[d]
      BY <1>1, <1>6 DEF Unregister, Goto, PresenceTypeOK
    <3> QED
      BY <1>1, <3>1, <3>2, <3>3 DEF ShownOnlineIsReachable
  <2> QED
    BY <2>1, <2>2, <2>3
<1>7. ASSUME NEW c \in Conn, TellOffline(c)
      PROVE  Live(u)' # {} \/ \E d \in Conn : /\ UserOf[d] = u
                                              /\ pc'[d] \in {"store", "farewell"}
  <2>1. UserOf[c] # u /\ told'[u] = told[u]
    BY <1>1, <1>7 DEF TellOffline, Broadcast, PresenceTypeOK
  <2>2. Live(u)' = Live(u)
    BY <1>7 DEF TellOffline, Live
  <2>3. \A d \in Conn : d # c => pc'[d] = pc[d]
    BY <1>1, <1>7 DEF TellOffline, Goto, PresenceTypeOK
  <2> QED
    BY <1>1, <2>1, <2>2, <2>3 DEF ShownOnlineIsReachable
<1> QED
  BY <1>2, <1>3, <1>4, <1>5, <1>6, <1>7 DEF PresenceNext, Step

\* The invariant behind the ones below: registration follows the task's position,
\* which is what makes register's and unregister's verdicts mean what they say.
THEOREM PresenceInvariance == PresenceSpec => []PresenceIInv
<1>1. PresenceIInv /\ [PresenceNext]_presenceVars => PresenceIInv'
  BY PresenceTypeStep, RegisteredStep, WithinDeadlineStep, OneAnnouncerStep, ReachableStep
     DEF PresenceIInv
<1> QED
  BY PresenceInitially, <1>1, PTL DEF PresenceSpec

\* Among others: no peer is kept past its deadline by more than one heartbeat
\* (the range of quiet), whatever the deadline is.
THEOREM PresenceTypeCorrect == PresenceSpec => []PresenceTypeOK
<1>1. PresenceIInv => PresenceTypeOK
  BY DEF PresenceIInv
<1> QED
  BY PresenceInvariance, <1>1, PTL

\* However many Devices connect and leave at once, the audience hears of one arrival.
THEOREM AnnouncedByOne == PresenceSpec => []OneAnnouncer
<1>1. PresenceIInv => OneAnnouncer
  BY DEF PresenceIInv
<1> QED
  BY PresenceInvariance, <1>1, PTL

\* Nobody stays shown as online after the last registered Device was torn down.
THEOREM OnlineIsReachable == PresenceSpec => []ShownOnlineIsReachable
<1>1. PresenceIInv => ShownOnlineIsReachable
  BY DEF PresenceIInv
<1> QED
  BY PresenceInvariance, <1>1, PTL

-----------------------------------------------------------------------------
(* Where a repair starts *)

Below == {ss \in Nat \X Nat : ss[1] < ss[2]}

\* A non-empty set of numbers has a least one.
LEMMA LeastNumber ==
  ASSUME NEW T \in SUBSET Nat, T # {}
  PROVE  \E x \in T : \A y \in T : x <= y
<1>1. IsWellFoundedOn(Below, Nat)
  BY NatLessThanWellFounded DEF OpToRel, Below
<1>2. PICK x \in T : \A y \in T : ~ (<<y, x>> \in Below)
  BY <1>1, WFMin, Zenon
<1>3. ASSUME NEW y \in T
      PROVE  x <= y
  <2>1. x \in Nat /\ y \in Nat /\ ~ (<<y, x>> \in Below)
    BY <1>2
  <2>2. ~ (y < x)
    BY <2>1 DEF Below
  <2> QED
    BY <2>1, <2>2
<1> QED
  BY <1>3

\* A non-empty list has a last Message before a hole, and a first one of those.
LEMMA RepairStartsInList ==
  ASSUME NEW S \in SUBSET Msg, S # {}
  PROVE  RepairStart(S) \in S
<1> DEFINE bounds == {k \in 0 .. MaxMessages : \A m \in S : m <= k}
           ends   == {m \in S : m + 1 \notin S}
<1>1. MaxMessages \in Nat /\ \A m \in S : m \in Nat /\ 1 <= m /\ m <= MaxMessages
  BY DeliveryAssumption DEF Msg
<1>2. MaxMessages \in bounds /\ bounds \in SUBSET Nat
  BY <1>1
<1>3. PICK k \in bounds : \A j \in bounds : k <= j
  <2> HIDE DEF bounds
  <2> QED
    BY <1>2, LeastNumber
<1>4. k \in Nat /\ k <= MaxMessages /\ \A m \in S : m <= k
  BY <1>1, <1>3
<1>5. k \in S
  <2>1. k # 0
    BY <1>1, <1>4
  <2>2. k - 1 \in 0 .. MaxMessages /\ ~ (k <= k - 1)
    BY <1>1, <1>4, <2>1
  <2>3. ~ \A m \in S : m <= k - 1
    BY <1>3, <2>2
  <2> QED
    BY <1>1, <1>4, <2>3
<1>6. k \in ends /\ ends \in SUBSET Nat
  <2>1. ~ (k + 1 <= k)
    BY <1>4
  <2> QED
    BY <1>1, <1>4, <1>5, <2>1
<1>7. RepairStart(S) = Min(ends)
  BY DEF RepairStart
<1>8. ends \subseteq S
  OBVIOUS
<1> HIDE DEF ends
<1>9. \E m \in ends : \A j \in ends : m <= j
  BY <1>6, LeastNumber
<1>10. Min(ends) \in ends
  BY <1>9 DEF Min
<1> QED
  BY <1>7, <1>8, <1>10

-----------------------------------------------------------------------------
(* The parts of the type invariant, by who changes them *)

ServerOK == /\ stored \in 0 .. MaxMessages /\ fanning \subseteq Msg /\ dropped \subseteq Msg

LinkOK == /\ session \in {"none", "open", "pump"}
          /\ control \in Seq(Msg) /\ Len(control) <= ControlRoom
          /\ outbox \in Seq(Envelope) /\ Len(outbox) <= SendRoom
          /\ resumes \in Seq({"zero", "earlier"})
          /\ conns \in 0 .. MaxConn

SocketOK == consumed \in BOOLEAN /\ reopened \in BOOLEAN

HeldOK == known \in BOOLEAN /\ list \subseteq Msg /\ reported \in BOOLEAN

LoaderOK == load \in {"none", "asked", "answer"} /\ page \in 0 .. MaxMessages

FixerOK == /\ repair \in {"idle", "list", "load", "asked", "answer"}
           /\ cursor \in 0 .. MaxMessages
           /\ answer \in [upto : 0 .. MaxMessages, more : BOOLEAN]

FaultsOK == faults \in 0 .. MaxFaults

LEMMA TypeParts ==
  /\ TypeOK <=> ServerOK /\ LinkOK /\ SocketOK /\ HeldOK /\ LoaderOK /\ FixerOK /\ FaultsOK
  /\ TypeOK' <=> /\ ServerOK' /\ LinkOK' /\ SocketOK' /\ HeldOK' /\ LoaderOK'
                 /\ FixerOK' /\ FaultsOK'
  BY DEF TypeOK, ServerOK, LinkOK, SocketOK, HeldOK, LoaderOK, FixerOK, FaultsOK

\* A part nobody touches stays as it is.
LEMMA PartsKept ==
  /\ ServerOK /\ UNCHANGED server => ServerOK'
  /\ LinkOK /\ UNCHANGED link => LinkOK'
  /\ SocketOK /\ UNCHANGED socket => SocketOK'
  /\ HeldOK /\ UNCHANGED held => HeldOK'
  /\ LoaderOK /\ UNCHANGED loader => LoaderOK'
  /\ FixerOK /\ UNCHANGED fixer => FixerOK'
  /\ FaultsOK /\ UNCHANGED faults => FaultsOK'
  BY DEF ServerOK, LinkOK, SocketOK, HeldOK, LoaderOK, FixerOK, FaultsOK,
         server, link, socket, held, loader, fixer

LEMMA UnansweredTyped == Unanswered \in [upto : 0 .. MaxMessages, more : BOOLEAN]
<1>1. 0 \in 0 .. MaxMessages
  BY DeliveryAssumption
<1> QED
  BY <1>1 DEF Unanswered

\* A repair that is over has typed locals.
LEMMA RepairOverTyped ==
  ASSUME RepairOver
  PROVE  FixerOK'
  BY DeliveryAssumption, UnansweredTyped DEF RepairOver, FixerOK

\* Taking an envelope shortens the queue and leaves its kind known.
LEMMA TookTyped ==
  ASSUME LinkOK, NEW kind, Took(kind)
  PROVE  /\ outbox' \in Seq(Envelope) /\ Len(outbox') <= SendRoom
         /\ consumed' \in BOOLEAN
         /\ kind = "NewMessage" => Head(outbox).seq \in Msg
<1>1. outbox \in Seq(Envelope) /\ outbox # <<>> /\ Len(outbox) <= SendRoom /\ SendRoom \in Nat
  BY DeliveryAssumption DEF LinkOK, Took
<1>2. outbox' \in Seq(Envelope) /\ Len(outbox') = Len(outbox) - 1 /\ Len(outbox) \in Nat
  BY <1>1 DEF Took
<1>3. Head(outbox) \in Envelope
  BY <1>1
<1>4. kind = "NewMessage" => Head(outbox).seq \in Msg
  BY <1>3 DEF Took, Envelope
<1> QED
  BY <1>1, <1>2, <1>4 DEF Took

\* Sending one envelope into a queue with room for it.
LEMMA SendTyped ==
  ASSUME LinkOK, NEW e \in Envelope, Len(outbox) < SendRoom
  PROVE  Append(outbox, e) \in Seq(Envelope) /\ Len(Append(outbox, e)) <= SendRoom
<1>1. outbox \in Seq(Envelope) /\ Len(outbox) \in Nat /\ SendRoom \in Nat
  BY DeliveryAssumption DEF LinkOK
<1>2. Append(outbox, e) \in Seq(Envelope) /\ Len(Append(outbox, e)) = Len(outbox) + 1
  BY <1>1
<1> QED
  BY <1>1, <1>2

-----------------------------------------------------------------------------
(* Every step preserves the types *)

LEMMA ServerSteps ==
  ASSUME TypeOK, Store \/ ServerStep
  PROVE  TypeOK'
<1> USE DeliveryAssumption
<1>0. ServerOK /\ LinkOK /\ SocketOK /\ HeldOK /\ LoaderOK /\ FixerOK /\ FaultsOK
  BY TypeParts
<1>a. UNCHANGED chat => HeldOK' /\ LoaderOK' /\ FixerOK' /\ FaultsOK'
  BY <1>0, PartsKept DEF chat
<1>1. CASE Store
  <2>1. ServerOK'
    BY <1>0, <1>1 DEF Store, ServerOK, Msg
  <2> QED
    BY <1>0, <1>1, <1>a, <2>1, PartsKept, TypeParts DEF Store
<1>2. ASSUME NEW m \in Msg, FanOut(m)
      PROVE  TypeOK'
  <2>1. control \in Seq(Msg) /\ Len(control) \in Nat /\ Len(control) <= ControlRoom
        /\ ControlRoom \in Nat
    BY <1>0 DEF LinkOK
  <2>2. /\ Append(control, m) \in Seq(Msg) /\ Len(Append(control, m)) = Len(control) + 1
    BY <2>1
  <2>3. /\ control' = control \/ (control' = Append(control, m) /\ Len(control) < ControlRoom)
        /\ dropped' = dropped \/ dropped' = dropped \cup {m}
    BY <1>2 DEF FanOut, Queue
  <2>a. control' \in Seq(Msg) /\ Len(control') <= ControlRoom
    BY <2>1, <2>2, <2>3
  <2>4. LinkOK'
    BY <1>0, <1>2, <2>a DEF FanOut, LinkOK
  <2>5. ServerOK'
    BY <1>0, <1>2, <2>3 DEF FanOut, ServerOK
  <2> QED
    BY <1>0, <1>2, <1>a, <2>4, <2>5, PartsKept, TypeParts DEF FanOut
<1>3. CASE OpenSession
  <2>1. /\ <<[t |-> "Ping"]>> \in Seq(Envelope)
        /\ <<[t |-> "Ping"], [t |-> "SyncState"]>> \in Seq(Envelope)
    BY DEF Envelope
  <2>2. Len(<<[t |-> "Ping"]>>) = 1 /\ Len(<<[t |-> "Ping"], [t |-> "SyncState"]>>) = 2
    OBVIOUS
  <2>3. outbox' \in Seq(Envelope) /\ Len(outbox') <= SendRoom
    <3>1. 1 <= SendRoom /\ 2 <= SendRoom
      OBVIOUS
    <3>2. CASE outbox' = <<[t |-> "Ping"]>>
      BY <2>1, <2>2, <3>1, <3>2
    <3>3. CASE outbox' = <<[t |-> "Ping"], [t |-> "SyncState"]>>
      BY <2>1, <2>2, <3>1, <3>3
    <3> QED
      BY <1>3, <3>2, <3>3 DEF OpenSession
  <2>4. LinkOK'
    BY <1>0, <1>3, <2>3 DEF OpenSession, LinkOK
  <2> QED
    BY <1>0, <1>3, <1>a, <2>4, PartsKept, TypeParts DEF OpenSession
<1>4. CASE Forward
  <2>1. control \in Seq(Msg) /\ control # <<>> /\ Len(control) <= ControlRoom /\ ControlRoom \in Nat
    BY <1>0, <1>4 DEF LinkOK, Forward
  <2>2. /\ Head(control) \in Msg /\ Tail(control) \in Seq(Msg)
        /\ Len(Tail(control)) = Len(control) - 1 /\ Len(control) \in Nat
    BY <2>1
  <2>3. [t |-> "NewMessage", seq |-> Head(control)] \in Envelope
    BY <2>2 DEF Envelope
  <2>4. outbox' \in Seq(Envelope) /\ Len(outbox') <= SendRoom
    BY <1>0, <1>4, <2>3, SendTyped DEF Forward
  <2>5. LinkOK'
    BY <1>0, <1>4, <2>1, <2>2, <2>4 DEF Forward, LinkOK
  <2> QED
    BY <1>0, <1>4, <1>a, <2>5, PartsKept, TypeParts DEF Forward
<1>5. CASE AnswerResume
  <2>1. [t |-> "Resync", reason |-> Plan(Head(resumes))] \in Envelope
    BY DEF Envelope, Plan
  <2>2. outbox' \in Seq(Envelope) /\ Len(outbox') <= SendRoom
    BY <1>0, <1>5, <2>1, SendTyped DEF AnswerResume
  <2>3. resumes' \in Seq({"zero", "earlier"})
    <3>1. resumes \in Seq({"zero", "earlier"}) /\ resumes # <<>> /\ resumes' = Tail(resumes)
      BY <1>0, <1>5 DEF LinkOK, AnswerResume
    <3> QED
      BY <3>1
  <2>4. LinkOK'
    BY <1>0, <1>5, <2>2, <2>3 DEF AnswerResume, LinkOK
  <2> QED
    BY <1>0, <1>5, <1>a, <2>4, PartsKept, TypeParts DEF AnswerResume
<1> QED
  BY <1>1, <1>2, <1>3, <1>4, <1>5 DEF ServerStep

\* The client takes what its socket brings, and asks for repairs.
LEMMA SocketSteps ==
  ASSUME TypeOK, SocketStep
  PROVE  TypeOK'
<1> USE DeliveryAssumption
<1>0. ServerOK /\ LinkOK /\ SocketOK /\ HeldOK /\ LoaderOK /\ FixerOK /\ FaultsOK
  BY TypeParts
<1>a. ASSUME NEW wanted \in BOOLEAN, RequestRepair(wanted), UNCHANGED <<cursor, answer>>
      PROVE  FixerOK'
  BY <1>0, <1>a DEF FixerOK, RequestRepair
<1>1. CASE Connect
  <2>1. LinkOK'
    BY <1>0, <1>1 DEF Connect, LinkOK
  <2> QED
    BY <1>0, <1>1, <2>1, PartsKept, TypeParts DEF Connect, chat
<1>2. CASE TakePing
  <2>1. resumes' \in Seq({"zero", "earlier"})
    <3>1. resumes \in Seq({"zero", "earlier"})
          /\ \E p \in {"zero", "earlier"} : resumes' = Append(resumes, p)
      BY <1>0, <1>2 DEF LinkOK, TakePing
    <3> QED
      BY <3>1
  <2>2. LinkOK' /\ SocketOK'
    BY <1>0, <1>2, <2>1, TookTyped DEF TakePing, LinkOK, SocketOK
  <2>3. FixerOK'
    BY <1>0, <1>2, <1>a DEF TakePing, SocketOK
  <2> QED
    BY <1>0, <1>2, <2>2, <2>3, PartsKept, TypeParts DEF TakePing
<1>3. CASE TakeSyncState
  <2>1. LinkOK' /\ SocketOK'
    BY <1>0, <1>3, TookTyped DEF TakeSyncState, LinkOK, SocketOK
  <2>2. FixerOK'
    BY <1>3, <1>a DEF TakeSyncState
  <2> QED
    BY <1>0, <1>3, <2>1, <2>2, PartsKept, TypeParts DEF TakeSyncState
<1>4. CASE TakeResync
  <2>1. LinkOK' /\ SocketOK'
    BY <1>0, <1>4, TookTyped DEF TakeResync, LinkOK, SocketOK
  <2>2. FixerOK'
    BY <1>4, <1>a DEF TakeResync
  <2> QED
    BY <1>0, <1>4, <2>1, <2>2, PartsKept, TypeParts DEF TakeResync
<1>5. CASE TakeMessage
  <2>1. LinkOK' /\ SocketOK' /\ Head(outbox).seq \in Msg
    BY <1>0, <1>5, TookTyped DEF TakeMessage, LinkOK, SocketOK
  <2>2. HeldOK'
    BY <1>0, <1>5, <2>1 DEF TakeMessage, Hold, HeldOK
  <2>3. FixerOK'
    <3>1. (list # {} /\ Head(outbox).seq > NewestHeld(list) + 1) \in BOOLEAN
      OBVIOUS
    <3>2. UNCHANGED <<cursor, answer>>
      BY <1>5 DEF TakeMessage
    <3> QED
      BY <1>0, <1>5, <3>2 DEF TakeMessage, RequestRepair, FixerOK
  <2> QED
    BY <1>0, <1>5, <2>1, <2>2, <2>3, PartsKept, TypeParts DEF TakeMessage
<1> QED
  BY <1>1, <1>2, <1>3, <1>4, <1>5 DEF SocketStep

\* Loads and repairs stay within what is stored.
LEMMA HttpSteps ==
  ASSUME TypeOK, HttpStep \/ OpenConversation \/ RequestFails
  PROVE  TypeOK'
<1> USE DeliveryAssumption
<1>0. ServerOK /\ LinkOK /\ SocketOK /\ HeldOK /\ LoaderOK /\ FixerOK /\ FaultsOK
  BY TypeParts
<1>1. CASE OpenConversation
  <2>1. LoaderOK'
    BY <1>0, <1>1 DEF OpenConversation, LoaderOK
  <2> QED
    BY <1>0, <1>1, <2>1, PartsKept, TypeParts DEF OpenConversation
<1>2. CASE LoadRead
  <2>1. LoaderOK'
    BY <1>0, <1>2 DEF LoadRead, LoaderOK, ServerOK
  <2> QED
    BY <1>0, <1>2, <2>1, PartsKept, TypeParts DEF LoadRead
<1>3. CASE LoadApply
  <2>1. LoaderOK'
    BY <1>0, <1>3 DEF LoadApply, LoaderOK
  <2>2. {m \in 1 .. page : m + NewestPage > page} \subseteq Msg
    BY <1>0 DEF LoaderOK, Msg
  <2>3. HeldOK'
    BY <1>0, <1>3, <2>2 DEF LoadApply, Hold, HeldOK
  <2>4. FixerOK'
    BY <1>0, <1>3, RepairOverTyped, PartsKept DEF LoadApply
  <2> QED
    BY <1>0, <1>3, <2>1, <2>3, <2>4, PartsKept, TypeParts DEF LoadApply
<1>4. CASE BeginRepair
  <2>1. LoaderOK'
    BY <1>0, <1>4 DEF BeginRepair, LoaderOK
  <2>2. list # {} => RepairStart(list) \in 0 .. MaxMessages
    <3>1. list # {} => RepairStart(list) \in Msg
      BY <1>0, RepairStartsInList DEF HeldOK
    <3> QED
      BY <3>1 DEF Msg
  <2>3. FixerOK'
    BY <1>0, <1>4, <2>2 DEF BeginRepair, FixerOK
  <2> QED
    BY <1>0, <1>4, <2>1, <2>3, PartsKept, TypeParts DEF BeginRepair
<1>5. CASE RepairRead
  <2>1. Lower(stored, cursor + RepairPage) \in 0 .. MaxMessages
    BY <1>0 DEF ServerOK, FixerOK, Lower
  <2>2. FixerOK'
    BY <1>0, <1>5, <2>1 DEF RepairRead, FixerOK
  <2> QED
    BY <1>0, <1>5, <2>2, PartsKept, TypeParts DEF RepairRead
<1>6. CASE RepairApply
  <2>1. answer.upto \in 0 .. MaxMessages /\ list \cup (cursor + 1) .. answer.upto \subseteq Msg
    <3>1. answer.upto \in 0 .. MaxMessages /\ cursor \in 0 .. MaxMessages
      BY <1>0 DEF FixerOK
    <3>2. (cursor + 1) .. answer.upto \subseteq 1 .. MaxMessages
      BY <3>1
    <3> QED
      BY <1>0, <3>1, <3>2 DEF HeldOK, Msg
  <2>2. HeldOK'
    BY <1>0, <1>6, <2>1 DEF RepairApply, Hold, HeldOK
  <2>3. FixerOK'
    <3>1. CASE answer.more
      BY <1>0, <1>6, <2>1, <3>1, UnansweredTyped DEF RepairApply, FixerOK
    <3>2. CASE ~ answer.more
      BY <1>6, <3>2, RepairOverTyped DEF RepairApply
    <3> QED
      BY <3>1, <3>2
  <2> QED
    BY <1>0, <1>6, <2>2, <2>3, PartsKept, TypeParts DEF RepairApply
<1>7. CASE RequestFails
  <2>1. FaultsOK'
    BY <1>0, <1>7 DEF RequestFails, FaultsOK
  <2>2. LoaderOK'
    BY <1>0, <1>7, PartsKept DEF RequestFails, LoaderOK
  <2>3. FixerOK'
    BY <1>0, <1>7, RepairOverTyped, PartsKept DEF RequestFails
  <2> QED
    BY <1>0, <1>7, <2>1, <2>2, <2>3, PartsKept, TypeParts DEF RequestFails
<1> QED
  BY <1>1, <1>2, <1>3, <1>4, <1>5, <1>6, <1>7 DEF HttpStep

\* What dies with a socket, and with the server.
LEMMA CutSteps ==
  ASSUME TypeOK, Disconnect \/ Restart
  PROVE  TypeOK'
<1> USE DeliveryAssumption
<1>0. ServerOK /\ LinkOK /\ SocketOK /\ HeldOK /\ LoaderOK /\ FixerOK /\ FaultsOK
  BY TypeParts
<1>1. Cut
  BY DEF Disconnect, Restart
<1>2. LinkOK'
  <2>1. <<>> \in Seq(Msg) /\ <<>> \in Seq(Envelope) /\ <<>> \in Seq({"zero", "earlier"})
        /\ Len(<<>>) = 0
    OBVIOUS
  <2> QED
    BY <1>0, <1>1, <2>1 DEF Cut, LinkOK
<1>3. CASE Disconnect
  BY <1>0, <1>2, <1>3, PartsKept, TypeParts DEF Disconnect, chat
<1>4. CASE Restart
  <2>1. ServerOK' /\ LoaderOK' /\ FaultsOK'
    BY <1>0, <1>4 DEF Restart, ServerOK, LoaderOK, FaultsOK
  <2>2. FixerOK'
    BY <1>0, <1>4, RepairOverTyped, PartsKept DEF Restart
  <2> QED
    BY <1>0, <1>2, <1>4, <2>1, <2>2, PartsKept, TypeParts DEF Restart
<1> QED
  BY <1>3, <1>4

-----------------------------------------------------------------------------
\* Whatever is fanned out, lost, reloaded and repaired, the queues keep to their
\* capacities and every position a client asks from or is answered with is one of
\* the stream.
THEOREM QueuesAndPositionsBounded == Spec => []TypeOK
<1>1. Init => TypeOK
  <2> SUFFICES ASSUME Init PROVE TypeOK
    OBVIOUS
  <2>1. <<>> \in Seq(Msg) /\ <<>> \in Seq(Envelope) /\ <<>> \in Seq({"zero", "earlier"})
        /\ Len(<<>>) = 0
    OBVIOUS
  <2>2. LinkOK
    BY <2>1, DeliveryAssumption DEF Init, LinkOK
  <2>3. ServerOK
    <3>1. 0 \in 0 .. MaxMessages /\ {} \subseteq Msg
      BY DeliveryAssumption
    <3> QED
      BY <3>1 DEF Init, ServerOK
  <2>31. SocketOK
    BY DeliveryAssumption DEF Init, SocketOK
  <2>32. HeldOK
    BY DeliveryAssumption DEF Init, HeldOK
  <2>33. LoaderOK
    BY DeliveryAssumption DEF Init, LoaderOK
  <2>34. FaultsOK
    BY DeliveryAssumption DEF Init, FaultsOK
  <2>4. FixerOK
    BY DeliveryAssumption, UnansweredTyped DEF Init, FixerOK
  <2> QED
    BY <2>2, <2>3, <2>31, <2>32, <2>33, <2>34, <2>4, TypeParts
<1>2. TypeOK /\ [Next]_vars => TypeOK'
  <2>1. TypeOK /\ UNCHANGED vars => TypeOK'
    BY DEF TypeOK, vars, server, link, socket, chat, held, loader, fixer
  <2> QED
    BY <2>1, ServerSteps, SocketSteps, HttpSteps, CutSteps DEF Next
<1> QED
  BY <1>1, <1>2, PTL DEF Spec
=============================================================================
