------------------------ MODULE MessageStreamProofs ------------------------
(***************************************************************************)
(* TLAPS proofs about MessageStream, for every set of Users, connections,   *)
(* Conversations and keys: its types, the gapless Sequence Numbers and the  *)
(* once-only idempotency keys; then, on top of that inductive invariant,    *)
(* its Read State, and last what a send makes known.                        *)
(***************************************************************************)
EXTENDS MessageStream, FiniteSetTheorems, TLAPS

-----------------------------------------------------------------------------
(* The inductive invariant *)

\* A handler past its first statement has its request, and what it has read.
HasRead(c) ==
  /\ pc[c] \in Sending => req[c] \in [conv : Conv, key : Key]
  /\ pc[c] = "marking" => /\ req[c] \in Request
                          /\ snap[c] \in Snap
                          /\ snap[c].others \subseteq 1 .. snap[c].newest
  /\ pc[c] = "acked" => reply[c] \in Reply

WellFormed == \A c \in Conn : HasRead(c)

\* The conversations row lock is exclusive.
OneLockHolder ==
  \A c, d \in Conn : \A v \in Conv : HoldsConv(c, v) /\ HoldsConv(d, v) => c = d

\* The holder's number is still the next one, and its Conversation still exists.
NumberIsNext ==
  \A c \in Conn : pc[c] \in {"insert", "bump", "commit"} =>
    /\ live[req[c].conv]
    /\ seq[c] = nextSeq[req[c].conv] + 1

\* An inserted, uncommitted row is the only one of its key.
DraftIsNew ==
  \A c \in Conn : pc[c] \in {"bump", "commit"} =>
    WithKey(UserOf[c], req[c].key) = {} /\ ~ KeyPending(c)

IInv == /\ TypeOK
        /\ WellFormed
        /\ OneLockHolder
        /\ NumberIsNext
        /\ DraftIsNew
        /\ GaplessStream
        /\ OneMessagePerKey

-----------------------------------------------------------------------------
(* Types *)

\* The initial state satisfies every part of the invariant.
LEMMA InitEstablishes == Init => IInv
<1> SUFFICES ASSUME Init PROVE IInv
  OBVIOUS
<1>1. TypeOK
  BY DEF Init, TypeOK, Phase
<1>2. WellFormed /\ OneLockHolder /\ NumberIsNext /\ DraftIsNew
  BY DEF Init, WellFormed, HasRead, OneLockHolder, NumberIsNext, DraftIsNew, Sending, HoldsConv
<1>3. GaplessStream /\ OneMessagePerKey
  BY DEF Init, GaplessStream, OneMessagePerKey
<1> QED
  BY <1>1, <1>2, <1>3 DEF IInv

\* What a draft contains once its transaction holds the lock.
LEMMA DraftType ==
  ASSUME IInv, NEW c \in Conn, pc[c] \in {"bump", "commit"}
  PROVE  Draft(c) \in Row /\ Draft(c).seq = nextSeq[req[c].conv] + 1
  BY MessageStreamAssumption
  DEF IInv, TypeOK, WellFormed, HasRead, NumberIsNext, Draft, Row, Sending

\* The badge a mark computes is the size of a finite set.
LEMMA MarkCountType ==
  ASSUME IInv, NEW c \in Conn, pc[c] = "marking", NEW m \in Nat
  PROVE  Cardinality({i \in snap[c].others : i > m}) \in Nat
<1>1. snap[c] \in Snap /\ snap[c].others \subseteq 1 .. snap[c].newest
  BY DEF IInv, WellFormed, HasRead
<1>2. IsFiniteSet(1 .. snap[c].newest)
  BY <1>1, FS_Interval DEF Snap
<1>3. IsFiniteSet({i \in snap[c].others : i > m})
  BY <1>1, <1>2, FS_Subset
<1> QED
  BY <1>3, FS_CardinalityType

\* The handlers' half of the type invariant.
LocalsOK == /\ pc \in [Conn -> Phase]
            /\ req \in [Conn -> Request \cup {None}]
            /\ seq \in [Conn -> Nat]
            /\ bumped \in [Conn -> SUBSET User]
            /\ snap \in [Conn -> Snap \cup {None}]
            /\ reply \in [Conn -> Reply \cup {None}]

\* The tables' half.
TableOK == /\ live \in [Conv -> BOOLEAN]
           /\ nextSeq \in [Conv -> Nat]
           /\ messages \subseteq Row
           /\ members \in [Conv -> SUBSET User]
           /\ joins \in [Conv -> [User -> Nat]]
           /\ marker \in [Conv -> [User -> Nat]]
           /\ unread \in [Conv -> [User -> Nat]]
           /\ announced \in [Conv -> Seq(Nat)]

LEMMA TypeHalves == /\ TypeOK => TableOK /\ LocalsOK
                    /\ TableOK' /\ LocalsOK' => TypeOK'
  BY DEF TypeOK, TableOK, LocalsOK

\* Returning resets the handler's locals to typed values.
LEMMA ReturnTypes ==
  ASSUME TypeOK, NEW c \in Conn, Return(c)
  PROVE  LocalsOK'
  BY DEF TypeOK, LocalsOK, Return, Phase

\* So does answering with a row.
LEMMA AnswerTypes ==
  ASSUME TypeOK, NEW c \in Conn, NEW r \in Row, NEW b \in BOOLEAN, Answer(c, r, b)
  PROVE  LocalsOK'
<1>1. [row |-> r, created |-> b] \in Reply
  BY DEF Reply
<1> QED
  BY <1>1 DEF TypeOK, LocalsOK, Answer, Phase, Sending

\* A step of a handler alone leaves the tables typed.
LEMMA TableUnchanged ==
  ASSUME TypeOK, UNCHANGED <<table, announced>>
  PROVE  TableOK'
  BY DEF TypeOK, TableOK, table

\* Every step preserves the types.
LEMMA TypeStep ==
  ASSUME IInv, [Next]_vars
  PROVE  TypeOK'
<1> USE MessageStreamAssumption
<1>0. TypeOK /\ TableOK /\ LocalsOK /\ WellFormed
  BY TypeHalves DEF IInv
<1>1. ASSUME NEW c \in Conn, NEW v \in Conv, NEW k \in Key, StartSend(c, v, k)
      PROVE  TypeOK'
  <2>1. TableOK'
    BY <1>0, <1>1, TableUnchanged DEF StartSend
  <2>2. [conv |-> v, key |-> k] \in Request
    BY DEF Request
  <2>3. LocalsOK'
    BY <1>0, <1>1, <2>2 DEF LocalsOK, StartSend, Phase, Sending
  <2> QED
    BY <2>1, <2>3, TypeHalves
<1>2. ASSUME NEW c \in Conn, FindExisting(c)
      PROVE  TypeOK'
  <2>1. TableOK'
    BY <1>0, <1>2, TableUnchanged DEF FindExisting
  <2>2. ASSUME NEW r \in WithKey(UserOf[c], req[c].key), Answer(c, r, FALSE)
        PROVE  LocalsOK'
    <3>1. r \in Row
      BY <1>0, <2>2 DEF TableOK, WithKey
    <3> QED
      BY <1>0, <2>2, <3>1, AnswerTypes
  <2>3. ASSUME pc' = [pc EXCEPT ![c] = "allocate"], UNCHANGED local
        PROVE  LocalsOK'
    BY <1>0, <2>3 DEF LocalsOK, local, Phase, Sending
  <2> QED
    BY <1>2, <2>1, <2>2, <2>3, TypeHalves DEF FindExisting
<1>3. ASSUME NEW c \in Conn, AllocateSeq(c)
      PROVE  TypeOK'
  <2>1. TableOK'
    BY <1>0, <1>3, TableUnchanged DEF AllocateSeq
  <2>2. CASE Return(c)
    BY <1>0, <2>1, <2>2, ReturnTypes, TypeHalves
  <2>3. CASE /\ seq' = [seq EXCEPT ![c] = nextSeq[req[c].conv] + 1]
             /\ pc' = [pc EXCEPT ![c] = "insert"]
             /\ UNCHANGED <<req, bumped, snap, reply>>
    <3>1. req[c].conv \in Conv
      BY <1>0, <1>3 DEF WellFormed, HasRead, AllocateSeq, Sending
    <3>2. nextSeq[req[c].conv] + 1 \in Nat
      BY <1>0, <3>1 DEF TableOK
    <3>3. LocalsOK'
      BY <1>0, <2>3, <3>2 DEF LocalsOK, Phase, Sending
    <3> QED
      BY <2>1, <3>3, TypeHalves
  <2> QED
    BY <1>3, <2>2, <2>3 DEF AllocateSeq
<1>4. ASSUME NEW c \in Conn, InsertMessage(c)
      PROVE  TypeOK'
  BY <1>0, <1>4, TableUnchanged, TypeHalves
  DEF LocalsOK, InsertMessage, local, Phase, Sending
<1>5. ASSUME NEW c \in Conn, BumpUnread(c)
      PROVE  TypeOK'
  <2>1. TableOK'
    BY <1>0, <1>5, TableUnchanged DEF BumpUnread
  <2>2. req[c].conv \in Conv
    BY <1>0, <1>5 DEF WellFormed, HasRead, BumpUnread, Sending
  <2>3. members[req[c].conv] \subseteq User
    BY <1>0, <2>2 DEF TableOK
  <2>4. LocalsOK'
    BY <1>0, <1>5, <2>3 DEF LocalsOK, BumpUnread, Phase, Sending
  <2> QED
    BY <2>1, <2>4, TypeHalves
<1>6. ASSUME NEW c \in Conn, CommitSend(c)
      PROVE  TypeOK'
  <2>1. Draft(c) \in Row
    BY <1>6, DraftType DEF CommitSend
  <2>2. LocalsOK'
    BY <1>0, <1>6, <2>1, AnswerTypes DEF CommitSend
  <2>3. req[c].conv \in Conv
    BY <1>0, <1>6 DEF WellFormed, HasRead, CommitSend, Sending
  <2>4. unread' \in [Conv -> [User -> Nat]]
    <3> DEFINE raised == [u \in User |-> IF u \in bumped[c] THEN unread[req[c].conv][u] + 1
                                        ELSE unread[req[c].conv][u]]
    <3>1. unread \in [Conv -> [User -> Nat]]
      BY <1>0 DEF TableOK
    <3>2. raised \in [User -> Nat]
      BY <2>3, <3>1
    <3>3. unread' = [unread EXCEPT ![req[c].conv] = raised]
      BY <1>6 DEF CommitSend
    <3> HIDE DEF raised
    <3> QED
      BY <2>3, <3>1, <3>2, <3>3
  <2>5. TableOK'
    BY <1>0, <1>6, <2>1, <2>4 DEF TableOK, LocalsOK, CommitSend
  <2> QED
    BY <2>2, <2>5, TypeHalves
<1>7. ASSUME NEW c \in Conn, RollbackSend(c)
      PROVE  TypeOK'
  BY <1>0, <1>7, TableUnchanged, TypeHalves
  DEF LocalsOK, RollbackSend, Phase, Sending
<1>8. ASSUME NEW c \in Conn, RereadExisting(c)
      PROVE  TypeOK'
  <2>1. TableOK'
    BY <1>0, <1>8, TableUnchanged DEF RereadExisting
  <2>2. ASSUME NEW r \in WithKey(UserOf[c], req[c].key), Answer(c, r, FALSE)
        PROVE  LocalsOK'
    <3>1. r \in Row
      BY <1>0, <2>2 DEF TableOK, WithKey
    <3> QED
      BY <1>0, <2>2, <3>1, AnswerTypes
  <2>3. ASSUME Return(c) PROVE LocalsOK'
    BY <1>0, <2>3, ReturnTypes
  <2> QED
    BY <1>8, <2>1, <2>2, <2>3, TypeHalves DEF RereadExisting
<1>9. ASSUME NEW c \in Conn, Acknowledge(c)
      PROVE  TypeOK'
  <2>1. LocalsOK'
    BY <1>0, <1>9, ReturnTypes DEF Acknowledge
  <2>2. reply[c].row.conv \in Conv /\ reply[c].row.seq \in Nat
    BY <1>0, <1>9 DEF WellFormed, HasRead, Acknowledge, Reply, Row
  <2>3. announced' \in [Conv -> Seq(Nat)]
    <3>1. announced \in [Conv -> Seq(Nat)]
      BY <1>0 DEF TableOK
    <3>2. CASE announced' = announced
      BY <3>1, <3>2
    <3>3. CASE announced' = [announced EXCEPT ![reply[c].row.conv] =
                               Append(announced[reply[c].row.conv], reply[c].row.seq)]
      BY <2>2, <3>1, <3>3
    <3> QED
      BY <1>9, <3>2, <3>3 DEF Acknowledge
  <2>4. UNCHANGED table
    BY <1>9 DEF Acknowledge
  <2>5. TableOK'
    BY <1>0, <2>3, <2>4 DEF TableOK, table
  <2> QED
    BY <2>1, <2>5, TypeHalves
<1>10. ASSUME NEW c \in Conn, Fail(c)
       PROVE  TypeOK'
  BY <1>0, <1>10, TableUnchanged, ReturnTypes, TypeHalves DEF Fail
<1>11. ASSUME NEW c \in Conn, NEW v \in Conv, NEW p \in Reported(v), SnapshotMark(c, v, p)
       PROVE  TypeOK'
  <2>1. TableOK'
    BY <1>0, <1>11, TableUnchanged DEF SnapshotMark
  <2>2. [newest |-> nextSeq[v], others |-> OthersSeqs(v, UserOf[c]),
         joins |-> joins[v][UserOf[c]]] \in Snap
    <3>1. OthersSeqs(v, UserOf[c]) \subseteq Nat
      BY <1>0 DEF TableOK, OthersSeqs, Row
    <3> QED
      BY <1>0, <3>1 DEF TableOK, Snap
  <2>3. [conv |-> v, key |-> None] \in Request /\ p \in Nat
    BY <1>0 DEF Request, Reported, TableOK
  <2>4. LocalsOK'
    BY <1>0, <1>11, <2>2, <2>3 DEF LocalsOK, SnapshotMark, Phase
  <2> QED
    BY <2>1, <2>4, TypeHalves
<1>12. ASSUME NEW c \in Conn, ApplyMark(c)
       PROVE  TypeOK'
  <2> DEFINE m == Larger(marker[req[c].conv][UserOf[c]],
                         Smaller(seq[c], snap[c].newest))
  <2>1. req[c].conv \in Conv /\ snap[c] \in Snap
    BY <1>0, <1>12 DEF WellFormed, HasRead, ApplyMark, Request
  <2>2. m \in Nat
    BY <1>0, <2>1 DEF TableOK, LocalsOK, Larger, Smaller, Snap
  <2>3. Cardinality({i \in snap[c].others : i > m}) \in Nat
    BY <1>12, <2>2, MarkCountType DEF ApplyMark
  <2>4. LocalsOK'
    BY <1>0, <1>12, ReturnTypes DEF ApplyMark
  <2>5. marker' \in [Conv -> [User -> Nat]] /\ unread' \in [Conv -> [User -> Nat]]
    <3>1. CASE UNCHANGED <<marker, unread>>
      BY <1>0, <3>1 DEF TableOK
    <3>2. CASE /\ marker' = [marker EXCEPT ![req[c].conv][UserOf[c]] = m]
               /\ unread' = [unread EXCEPT ![req[c].conv][UserOf[c]] =
                               Cardinality({i \in snap[c].others : i > m})]
      <4> HIDE DEF m
      <4> QED
        BY <1>0, <2>1, <2>2, <2>3, <3>2 DEF TableOK
    <3> QED
      BY <1>12, <3>1, <3>2 DEF ApplyMark
  <2>6. TableOK'
    BY <1>0, <1>12, <2>5 DEF TableOK, ApplyMark
  <2> QED
    BY <2>4, <2>6, TypeHalves
<1>13. ASSUME NEW v \in Conv, NEW u \in User, Join(v, u)
       PROVE  TypeOK'
  <2>1. /\ joins' \in [Conv -> [User -> Nat]]
        /\ marker' \in [Conv -> [User -> Nat]]
        /\ unread' \in [Conv -> [User -> Nat]]
    BY <1>0, <1>13 DEF TableOK, Join
  <2>2. members' \in [Conv -> SUBSET User]
    BY <1>0, <1>13 DEF TableOK, Join
  <2>3. TableOK'
    BY <1>0, <1>13, <2>1, <2>2 DEF TableOK, Join
  <2>4. LocalsOK'
    BY <1>0, <1>13 DEF LocalsOK, Join, local
  <2> QED
    BY <2>3, <2>4, TypeHalves
<1>14. ASSUME NEW v \in Conv, NEW u \in User, Remove(v, u)
       PROVE  TypeOK'
  BY <1>0, <1>14, TypeHalves DEF TableOK, LocalsOK, Remove, local
<1>15. ASSUME NEW v \in Conv, Dissolve(v)
       PROVE  TypeOK'
  BY <1>0, <1>15, TypeHalves DEF TableOK, LocalsOK, Dissolve, local
<1>16. CASE UNCHANGED vars
  BY <1>16 DEF IInv, TypeOK, vars, table, local
<1> QED
  BY <1>1, <1>2, <1>3, <1>4, <1>5, <1>6, <1>7, <1>8, <1>9, <1>10, <1>11, <1>12,
     <1>13, <1>14, <1>15, <1>16 DEF Next, Step

-----------------------------------------------------------------------------
(* What handlers keep in their locals *)

\* Every step leaves each handler with the values its next statement uses.
LEMMA WellFormedStep ==
  ASSUME IInv, [Next]_vars
  PROVE  WellFormed'
<1> USE MessageStreamAssumption
<1>0. TypeOK /\ WellFormed /\ GaplessStream
  BY DEF IInv
<1>a. ASSUME NEW c \in Conn, Return(c)
      PROVE  WellFormed'
  BY <1>0, <1>a DEF TypeOK, WellFormed, HasRead, Return, Sending
<1>b. ASSUME NEW c \in Conn, NEW r \in Row, NEW b \in BOOLEAN, pc[c] \in Sending,
             Answer(c, r, b)
      PROVE  WellFormed'
  <2>1. [row |-> r, created |-> b] \in Reply
    BY DEF Reply
  <2> QED
    BY <1>0, <1>b, <2>1 DEF TypeOK, WellFormed, HasRead, Answer, Sending
<1>1. ASSUME NEW c \in Conn, NEW v \in Conv, NEW k \in Key, StartSend(c, v, k)
      PROVE  WellFormed'
  BY <1>0, <1>1 DEF TypeOK, WellFormed, HasRead, StartSend, Sending
<1>2. ASSUME NEW c \in Conn, FindExisting(c)
      PROVE  WellFormed'
  <2>1. ASSUME NEW r \in WithKey(UserOf[c], req[c].key), Answer(c, r, FALSE)
        PROVE  WellFormed'
    <3>1. r \in Row /\ pc[c] \in Sending
      BY <1>0, <1>2, <2>1 DEF TypeOK, WithKey, FindExisting, Sending
    <3> QED
      BY <1>b, <2>1, <3>1
  <2>2. ASSUME pc' = [pc EXCEPT ![c] = "allocate"], UNCHANGED local
        PROVE  WellFormed'
    BY <1>0, <1>2, <2>2
    DEF TypeOK, WellFormed, HasRead, FindExisting, local, Sending
  <2> QED
    BY <1>2, <2>1, <2>2 DEF FindExisting
<1>3. ASSUME NEW c \in Conn, AllocateSeq(c)
      PROVE  WellFormed'
  <2>1. CASE Return(c)
    BY <1>a, <2>1
  <2>2. CASE /\ pc' = [pc EXCEPT ![c] = "insert"]
             /\ UNCHANGED <<req, bumped, snap, reply>>
    BY <1>0, <1>3, <2>2 DEF TypeOK, WellFormed, HasRead, AllocateSeq, Sending
  <2> QED
    BY <1>3, <2>1, <2>2 DEF AllocateSeq
<1>4. ASSUME NEW c \in Conn, InsertMessage(c)
      PROVE  WellFormed'
  BY <1>0, <1>4 DEF TypeOK, WellFormed, HasRead, InsertMessage, local, Sending
<1>5. ASSUME NEW c \in Conn, BumpUnread(c)
      PROVE  WellFormed'
  BY <1>0, <1>5 DEF TypeOK, WellFormed, HasRead, BumpUnread, Sending
<1>6. ASSUME NEW c \in Conn, CommitSend(c)
      PROVE  WellFormed'
  <2>1. Draft(c) \in Row /\ pc[c] \in Sending
    BY <1>6, DraftType DEF CommitSend, Sending
  <2> QED
    BY <1>b, <1>6, <2>1 DEF CommitSend
<1>7. ASSUME NEW c \in Conn, RollbackSend(c)
      PROVE  WellFormed'
  BY <1>0, <1>7 DEF TypeOK, WellFormed, HasRead, RollbackSend, Sending
<1>8. ASSUME NEW c \in Conn, RereadExisting(c)
      PROVE  WellFormed'
  <2>1. ASSUME NEW r \in WithKey(UserOf[c], req[c].key), Answer(c, r, FALSE)
        PROVE  WellFormed'
    <3>1. r \in Row /\ pc[c] \in Sending
      BY <1>0, <1>8, <2>1 DEF TypeOK, WithKey, RereadExisting, Sending
    <3> QED
      BY <1>b, <2>1, <3>1
  <2> QED
    BY <1>8, <1>a, <2>1 DEF RereadExisting
<1>9. ASSUME NEW c \in Conn, \/ Acknowledge(c) \/ Fail(c) \/ ApplyMark(c)
      PROVE  WellFormed'
  BY <1>9, <1>a DEF Acknowledge, Fail, ApplyMark
<1>10. ASSUME NEW c \in Conn, NEW v \in Conv, NEW p \in Reported(v), SnapshotMark(c, v, p)
       PROVE  WellFormed'
  <2>1. OthersSeqs(v, UserOf[c]) \subseteq 1 .. nextSeq[v]
    BY <1>0 DEF OthersSeqs, GaplessStream
  <2>2. [newest |-> nextSeq[v], others |-> OthersSeqs(v, UserOf[c]),
         joins |-> joins[v][UserOf[c]]] \in Snap
    BY <1>0, <2>1 DEF TypeOK, Snap
  <2>3. [conv |-> v, key |-> None] \in Request
    BY DEF Request
  <2> QED
    BY <1>0, <1>10, <2>1, <2>2, <2>3
    DEF TypeOK, WellFormed, HasRead, SnapshotMark, Sending
<1>11. CASE UNCHANGED <<pc, local>>
  BY <1>0, <1>11 DEF WellFormed, HasRead, local
<1>12. ASSUME NEW v \in Conv, NEW u \in User, Join(v, u) \/ Remove(v, u)
       PROVE  WellFormed'
  BY <1>11, <1>12 DEF Join, Remove
<1>13. ASSUME NEW v \in Conv, Dissolve(v)
       PROVE  WellFormed'
  BY <1>11, <1>13 DEF Dissolve
<1> QED
  BY <1>1, <1>2, <1>3, <1>4, <1>5, <1>6, <1>7, <1>8, <1>9, <1>10, <1>11, <1>12, <1>13
  DEF Next, Step, vars

-----------------------------------------------------------------------------
(* The lock and the number it protects *)

\* Only ALLOCATE_SEQ takes the lock; every other step leaves it or gives it up.
LEMMA LockStep ==
  ASSUME IInv, [Next]_vars
  PROVE  OneLockHolder'
<1>0. TypeOK /\ OneLockHolder
  BY DEF IInv
<1>2. ASSUME \A d \in Conn : \A v \in Conv : HoldsConv(d, v)' => HoldsConv(d, v)
      PROVE  OneLockHolder'
  BY <1>0, <1>2 DEF OneLockHolder
<1>1. ASSUME NEW c \in Conn, AllocateSeq(c)
      PROVE  OneLockHolder'
  <2>1. CASE Return(c)
    <3>1. \A d \in Conn : \A v \in Conv : HoldsConv(d, v)' => HoldsConv(d, v)
      BY <1>0, <2>1 DEF TypeOK, HoldsConv, Return
    <3> QED
      BY <1>2, <3>1
  <2>2. CASE pc' = [pc EXCEPT ![c] = "insert"] /\ UNCHANGED req
    <3>1. \A d \in Conn : ~ HoldsConv(d, req[c].conv)
      BY <1>1 DEF AllocateSeq, ConvFree
    <3>2. \A d \in Conn \ {c} : \A v \in Conv : HoldsConv(d, v)' => HoldsConv(d, v)
      BY <1>0, <2>2 DEF TypeOK, HoldsConv
    <3>3. \A v \in Conv : HoldsConv(c, v)' => v = req[c].conv
      BY <2>2 DEF HoldsConv
    <3> QED
      BY <1>0, <3>1, <3>2, <3>3 DEF OneLockHolder
  <2> QED
    BY <1>1, <2>1, <2>2 DEF AllocateSeq
<1>3. ASSUME NEW c \in Conn,
             \/ FindExisting(c) \/ InsertMessage(c) \/ BumpUnread(c)
             \/ CommitSend(c) \/ RollbackSend(c) \/ RereadExisting(c)
      PROVE  \A d \in Conn : \A v \in Conv : HoldsConv(d, v)' => HoldsConv(d, v)
  BY <1>0, <1>3
  DEF TypeOK, HoldsConv, FindExisting, InsertMessage, BumpUnread, CommitSend,
      RollbackSend, RereadExisting, Return, Answer, local
<1>4. ASSUME NEW c \in Conn, \/ Acknowledge(c) \/ Fail(c) \/ ApplyMark(c)
      PROVE  \A d \in Conn : \A v \in Conv : HoldsConv(d, v)' => HoldsConv(d, v)
  BY <1>0, <1>4 DEF TypeOK, HoldsConv, Acknowledge, Fail, ApplyMark, Return
<1>5. ASSUME NEW c \in Conn, NEW w \in Conv,
             \/ \E k \in Key : StartSend(c, w, k)
             \/ \E p \in Reported(w) : SnapshotMark(c, w, p)
      PROVE  \A d \in Conn : \A v \in Conv : HoldsConv(d, v)' => HoldsConv(d, v)
  <2>1. /\ pc' \in {[pc EXCEPT ![c] = "find"], [pc EXCEPT ![c] = "marking"]}
        /\ \E r : req' = [req EXCEPT ![c] = r]
    BY <1>5 DEF StartSend, SnapshotMark
  <2> QED
    BY <1>0, <2>1 DEF TypeOK, HoldsConv
<1>6. CASE UNCHANGED <<pc, local>>
  BY <1>0, <1>6 DEF OneLockHolder, HoldsConv, local
<1>7. ASSUME NEW v \in Conv, NEW u \in User, Join(v, u) \/ Remove(v, u)
      PROVE  OneLockHolder'
  BY <1>6, <1>7 DEF Join, Remove
<1>8. ASSUME NEW v \in Conv, Dissolve(v)
      PROVE  OneLockHolder'
  BY <1>6, <1>8 DEF Dissolve
<1> QED
  BY <1>1, <1>2, <1>3, <1>4, <1>5, <1>6, <1>7, <1>8, MessageStreamAssumption
  DEF Next, Step, vars

\* A step that changes neither the numbers, the existence of Conversations, nor
\* who holds one keeps the holders' numbers next.
LEMMA NumberKept ==
  ASSUME IInv, UNCHANGED <<live, nextSeq>>,
         \A d \in Conn : pc'[d] \in {"insert", "bump", "commit"} =>
           /\ pc[d] \in {"insert", "bump", "commit"}
           /\ req'[d] = req[d] /\ seq'[d] = seq[d]
  PROVE  NumberIsNext'
  BY DEF IInv, NumberIsNext

\* The lock holder's number is the next one after every step.
LEMMA NumberStep ==
  ASSUME IInv, [Next]_vars
  PROVE  NumberIsNext'
<1>0. TypeOK /\ OneLockHolder /\ NumberIsNext /\ WellFormed
  BY DEF IInv
<1> DEFINE Kept == \A d \in Conn : pc'[d] \in {"insert", "bump", "commit"} =>
                     /\ pc[d] \in {"insert", "bump", "commit"}
                     /\ req'[d] = req[d] /\ seq'[d] = seq[d]
<1>1. ASSUME NEW c \in Conn, AllocateSeq(c)
      PROVE  NumberIsNext'
  <2>1. UNCHANGED <<live, nextSeq>>
    BY <1>1 DEF AllocateSeq, table
  <2>2. CASE Return(c)
    <3>1. Kept
      BY <1>0, <2>2 DEF TypeOK, Return
    <3> QED
      BY <2>1, <3>1, NumberKept
  <2>3. CASE /\ live[req[c].conv]
             /\ seq' = [seq EXCEPT ![c] = nextSeq[req[c].conv] + 1]
             /\ pc' = [pc EXCEPT ![c] = "insert"]
             /\ UNCHANGED <<req, bumped, snap, reply>>
    BY <1>0, <2>1, <2>3 DEF TypeOK, NumberIsNext
  <2> QED
    BY <1>1, <2>2, <2>3 DEF AllocateSeq
<1>2. ASSUME NEW c \in Conn, CommitSend(c)
      PROVE  NumberIsNext'
  <2>1. HoldsConv(c, req[c].conv) /\ req[c].conv \in Conv
    BY <1>0, <1>2 DEF HoldsConv, CommitSend, WellFormed, HasRead, Sending
  <2>2. ASSUME NEW d \in Conn, pc'[d] \in {"insert", "bump", "commit"}
        PROVE  /\ pc[d] \in {"insert", "bump", "commit"} /\ d # c
               /\ req'[d] = req[d] /\ seq'[d] = seq[d]
    BY <1>0, <1>2, <2>2 DEF TypeOK, CommitSend, Answer
  <2>3. ASSUME NEW d \in Conn, pc'[d] \in {"insert", "bump", "commit"}
        PROVE  nextSeq'[req[d].conv] = nextSeq[req[d].conv]
    <3>1. HoldsConv(d, req[d].conv)
      BY <2>2, <2>3 DEF HoldsConv
    <3>2. req[d].conv # req[c].conv
      BY <1>0, <2>1, <2>2, <2>3, <3>1 DEF OneLockHolder
    <3> QED
      BY <1>0, <1>2, <3>2 DEF TypeOK, CommitSend
  <2> QED
    BY <1>0, <1>2, <2>2, <2>3 DEF NumberIsNext, CommitSend
<1>3. ASSUME NEW c \in Conn,
             \/ FindExisting(c) \/ InsertMessage(c) \/ BumpUnread(c)
             \/ RollbackSend(c) \/ RereadExisting(c)
      PROVE  NumberIsNext'
  <2>1. UNCHANGED <<live, nextSeq>>
    BY <1>3 DEF FindExisting, InsertMessage, BumpUnread, RollbackSend,
                RereadExisting, table
  <2>2. Kept
    BY <1>0, <1>3 DEF TypeOK, FindExisting, InsertMessage, BumpUnread,
                      RollbackSend, RereadExisting, Return, Answer, local
  <2> QED
    BY <2>1, <2>2, NumberKept
<1>4. ASSUME NEW c \in Conn, \/ Acknowledge(c) \/ Fail(c) \/ ApplyMark(c)
      PROVE  NumberIsNext'
  <2>1. UNCHANGED <<live, nextSeq>>
    BY <1>4 DEF Acknowledge, Fail, ApplyMark, table
  <2>2. Kept
    BY <1>0, <1>4 DEF TypeOK, Acknowledge, Fail, ApplyMark, Return
  <2> QED
    BY <2>1, <2>2, NumberKept
<1>5. ASSUME NEW c \in Conn, NEW w \in Conv,
             \/ \E k \in Key : StartSend(c, w, k)
             \/ \E p \in Reported(w) : SnapshotMark(c, w, p)
      PROVE  NumberIsNext'
  <2>1. UNCHANGED <<live, nextSeq>>
    BY <1>5 DEF StartSend, SnapshotMark, table
  <2>2. Kept
    BY <1>0, <1>5 DEF TypeOK, StartSend, SnapshotMark
  <2> QED
    BY <2>1, <2>2, NumberKept
<1>6. CASE UNCHANGED <<live, nextSeq, pc, local>>
  BY <1>6, NumberKept DEF local
<1>7. ASSUME NEW v \in Conv, NEW u \in User, Join(v, u) \/ Remove(v, u)
      PROVE  NumberIsNext'
  BY <1>6, <1>7 DEF Join, Remove
<1>8. ASSUME NEW v \in Conv, Dissolve(v)
      PROVE  NumberIsNext'
  <2>1. \A d \in Conn : pc[d] \in {"insert", "bump", "commit"} => req[d].conv # v
    BY <1>8 DEF Dissolve, ConvFree, HoldsConv
  <2> QED
    BY <1>0, <1>8, <2>1 DEF TypeOK, NumberIsNext, Dissolve, local
<1> QED
  BY <1>1, <1>2, <1>3, <1>4, <1>5, <1>6, <1>7, <1>8, MessageStreamAssumption
  DEF Next, Step, vars, table

-----------------------------------------------------------------------------
(* The uncommitted row of a key *)

\* A step that writes no Message and inserts no row keeps the drafts new.
LEMMA DraftKept ==
  ASSUME IInv, messages' \subseteq messages,
         \A d \in Conn : pc'[d] \in {"bump", "commit"} =>
           pc[d] \in {"bump", "commit"} /\ req'[d] = req[d]
  PROVE  DraftIsNew'
  BY DEF IInv, DraftIsNew, WithKey, KeyPending

\* Inserting and committing a row keep it the only one of its key.
LEMMA DraftStep ==
  ASSUME IInv, [Next]_vars
  PROVE  DraftIsNew'
<1>0. TypeOK /\ DraftIsNew
  BY DEF IInv
<1> DEFINE Kept == \A d \in Conn : pc'[d] \in {"bump", "commit"} =>
                     pc[d] \in {"bump", "commit"} /\ req'[d] = req[d]
<1>1. ASSUME NEW c \in Conn, InsertMessage(c)
      PROVE  DraftIsNew'
  <2>1. messages' = messages /\ req' = req
    BY <1>1 DEF InsertMessage, table, local
  <2>2. CASE WithKey(UserOf[c], req[c].key) # {}
    <3>1. Kept
      BY <1>0, <1>1, <2>1, <2>2 DEF TypeOK, InsertMessage
    <3> QED
      BY <2>1, <3>1, DraftKept
  <2>3. CASE WithKey(UserOf[c], req[c].key) = {}
    <3>1. pc' = [pc EXCEPT ![c] = "bump"] /\ ~ KeyPending(c)
      BY <1>1, <2>3 DEF InsertMessage
    <3>2. \A d \in Conn \ {c} : pc'[d] \in {"bump", "commit"} =>
            /\ pc[d] \in {"bump", "commit"}
            /\ ~ (UserOf[d] = UserOf[c] /\ req[d].key = req[c].key)
      BY <1>0, <3>1 DEF TypeOK, KeyPending
    <3>3. ASSUME NEW d \in Conn, pc'[d] \in {"bump", "commit"}
          PROVE  WithKey(UserOf[d], req[d].key)' = {} /\ ~ KeyPending(d)'
      <4>1. CASE d = c
        BY <1>0, <2>1, <2>3, <3>2, <4>1 DEF WithKey, KeyPending
      <4>2. CASE d # c
        BY <1>0, <2>1, <3>1, <3>2, <3>3, <4>2
        DEF TypeOK, DraftIsNew, WithKey, KeyPending
      <4> QED
        BY <4>1, <4>2
    <3> QED
      BY <2>1, <3>3 DEF DraftIsNew, WithKey, KeyPending
  <2> QED
    BY <2>2, <2>3
<1>2. ASSUME NEW c \in Conn, CommitSend(c)
      PROVE  DraftIsNew'
  <2>1. /\ messages' = messages \cup {Draft(c)} /\ req' = req
        /\ pc' = [pc EXCEPT ![c] = "acked"] /\ pc[c] = "commit"
    BY <1>2 DEF CommitSend, Answer
  <2>2. ~ KeyPending(c)
    BY <1>0, <2>1 DEF DraftIsNew
  <2>3. ASSUME NEW d \in Conn, pc'[d] \in {"bump", "commit"}
        PROVE  WithKey(UserOf[d], req[d].key)' = {} /\ ~ KeyPending(d)'
    <3>1. d # c /\ pc[d] \in {"bump", "commit"}
      BY <1>0, <2>1, <2>3 DEF TypeOK
    <3>2. ~ (UserOf[d] = UserOf[c] /\ req[d].key = req[c].key)
      BY <2>2, <3>1 DEF KeyPending
    <3>3. WithKey(UserOf[d], req[d].key)' = {}
      BY <1>0, <2>1, <3>1, <3>2 DEF DraftIsNew, WithKey, Draft
    <3>4. ~ KeyPending(d)'
      BY <1>0, <2>1, <3>1 DEF TypeOK, DraftIsNew, KeyPending
    <3> QED
      BY <3>3, <3>4
  <2> QED
    BY <2>1, <2>3 DEF DraftIsNew, WithKey, KeyPending
<1>3. ASSUME NEW c \in Conn,
             \/ FindExisting(c) \/ AllocateSeq(c) \/ BumpUnread(c)
             \/ RollbackSend(c) \/ RereadExisting(c)
      PROVE  DraftIsNew'
  <2>1. messages' = messages
    BY <1>3 DEF FindExisting, AllocateSeq, BumpUnread, RollbackSend,
                RereadExisting, table
  <2>2. Kept
    BY <1>0, <1>3 DEF TypeOK, FindExisting, AllocateSeq, BumpUnread,
                      RollbackSend, RereadExisting, Return, Answer, local
  <2> QED
    BY <2>1, <2>2, DraftKept
<1>4. ASSUME NEW c \in Conn, \/ Acknowledge(c) \/ Fail(c) \/ ApplyMark(c)
      PROVE  DraftIsNew'
  <2>1. messages' = messages
    BY <1>4 DEF Acknowledge, Fail, ApplyMark, table
  <2>2. Kept
    BY <1>0, <1>4 DEF TypeOK, Acknowledge, Fail, ApplyMark, Return
  <2> QED
    BY <2>1, <2>2, DraftKept
<1>5. ASSUME NEW c \in Conn, NEW w \in Conv,
             \/ \E k \in Key : StartSend(c, w, k)
             \/ \E p \in Reported(w) : SnapshotMark(c, w, p)
      PROVE  DraftIsNew'
  <2>1. messages' = messages
    BY <1>5 DEF StartSend, SnapshotMark, table
  <2>2. Kept
    BY <1>0, <1>5 DEF TypeOK, StartSend, SnapshotMark
  <2> QED
    BY <2>1, <2>2, DraftKept
<1>6. CASE UNCHANGED <<pc, local>> /\ messages' \subseteq messages
  BY <1>6, DraftKept DEF local
<1>7. ASSUME NEW v \in Conv, NEW u \in User, Join(v, u) \/ Remove(v, u)
      PROVE  DraftIsNew'
  BY <1>6, <1>7 DEF Join, Remove
<1>8. ASSUME NEW v \in Conv, Dissolve(v)
      PROVE  DraftIsNew'
  BY <1>6, <1>8 DEF Dissolve
<1> QED
  BY <1>1, <1>2, <1>3, <1>4, <1>5, <1>6, <1>7, <1>8, MessageStreamAssumption
  DEF Next, Step, vars, table

-----------------------------------------------------------------------------
(* The stream *)

\* Only a commit and a dissolution touch the numbers or the stored Messages.
LEMMA OnlyCommitWrites ==
  ASSUME [Next]_vars
  PROVE  \/ \E c \in Conn : CommitSend(c)
         \/ \E v \in Conv : Dissolve(v)
         \/ UNCHANGED <<nextSeq, messages>>
<1>1. ASSUME NEW c \in Conn, Step(c)
      PROVE  CommitSend(c) \/ UNCHANGED <<nextSeq, messages>>
  BY <1>1 DEF Step, FindExisting, AllocateSeq, InsertMessage, BumpUnread,
              RollbackSend, RereadExisting, Acknowledge, ApplyMark, table
<1>2. ASSUME NEW c \in Conn, Fail(c)
      PROVE  UNCHANGED <<nextSeq, messages>>
  BY <1>2 DEF Fail, table
<1>3. ASSUME NEW c, NEW v, \/ \E k : StartSend(c, v, k)
                           \/ \E p : SnapshotMark(c, v, p)
      PROVE  UNCHANGED <<nextSeq, messages>>
  BY <1>3 DEF StartSend, SnapshotMark, table
<1>4. ASSUME NEW v, NEW u, Join(v, u) \/ Remove(v, u)
      PROVE  UNCHANGED <<nextSeq, messages>>
  BY <1>4 DEF Join, Remove
<1>5. CASE UNCHANGED vars
  BY <1>5 DEF vars, table
<1> QED
  BY <1>1, <1>2, <1>3, <1>4, <1>5, MessageStreamAssumption DEF Next

\* The numbers stay gapless: a commit fills exactly the next one.
LEMMA GaplessStep ==
  ASSUME IInv, [Next]_vars
  PROVE  GaplessStream'
<1>0. TypeOK /\ WellFormed /\ GaplessStream
  BY DEF IInv
<1> DEFINE In(v) == {m \in messages : m.conv = v}
<1>1. ASSUME NEW c \in Conn, CommitSend(c)
      PROVE  GaplessStream'
  <2> DEFINE w == req[c].conv
  <2>1. /\ Draft(c).conv = w /\ Draft(c).seq = nextSeq[w] + 1
        /\ nextSeq' = [nextSeq EXCEPT ![w] = nextSeq[w] + 1]
        /\ messages' = messages \cup {Draft(c)}
    <3>1. Draft(c).seq = seq[c] /\ Draft(c).conv = w
      BY DEF Draft
    <3>2. Draft(c).seq = nextSeq[w] + 1
      BY <1>1, DraftType DEF CommitSend
    <3> QED
      BY <1>1, <3>1, <3>2 DEF CommitSend
  <2>2. w \in Conv /\ nextSeq[w] \in Nat
    BY <1>0, <1>1 DEF TypeOK, WellFormed, HasRead, CommitSend, Sending
  <2>3. ASSUME NEW v \in Conv
        PROVE  /\ {m.seq : m \in In(v)'} = 1 .. nextSeq'[v]
               /\ \A m, n \in messages' :
                    m.conv = v /\ n.conv = v /\ m.seq = n.seq => m = n
    <3>1. CASE v # w
      <4>1. In(v)' = In(v) /\ nextSeq'[v] = nextSeq[v]
        BY <1>0, <2>1, <3>1 DEF TypeOK
      <4>2. \A m, n \in messages' : m.conv = v /\ n.conv = v => m \in messages /\ n \in messages
        BY <2>1, <3>1
      <4> QED
        BY <1>0, <4>1, <4>2 DEF GaplessStream
    <3>2. CASE v = w
      <4>1. In(v)' = In(v) \cup {Draft(c)} /\ nextSeq'[v] = nextSeq[v] + 1
        BY <1>0, <2>1, <3>2 DEF TypeOK
      <4>2. {m.seq : m \in In(v)} = 1 .. nextSeq[v]
        BY <1>0 DEF GaplessStream
      <4>3. {m.seq : m \in In(v)'} = {m.seq : m \in In(v)} \cup {nextSeq[v] + 1}
        BY <2>1, <3>2, <4>1
      <4>4. {m.seq : m \in In(v)'} = 1 .. nextSeq'[v]
        BY <2>2, <3>2, <4>1, <4>2, <4>3
      <4>5. \A m \in messages : m.conv = v => m.seq # Draft(c).seq
        <5>1. \A m \in messages : m.conv = v => m.seq \in 1 .. nextSeq[v]
          BY <4>2
        <5> QED
          BY <2>1, <2>2, <3>2, <5>1
      <4>6. \A m, n \in messages : m.conv = v /\ n.conv = v /\ m.seq = n.seq => m = n
        BY <1>0 DEF GaplessStream
      <4> QED
        BY <2>1, <4>4, <4>5, <4>6
    <3> QED
      BY <3>1, <3>2
  <2> QED
    BY <2>3 DEF GaplessStream
<1>2. ASSUME NEW w \in Conv, Dissolve(w)
      PROVE  GaplessStream'
  <2>1. nextSeq' = [nextSeq EXCEPT ![w] = 0] /\ messages' = {m \in messages : m.conv # w}
    BY <1>2 DEF Dissolve
  <2>2. ASSUME NEW v \in Conv
        PROVE  {m.seq : m \in In(v)'} = 1 .. nextSeq'[v]
    <3>1. CASE v = w
      BY <1>0, <2>1, <3>1 DEF TypeOK
    <3>2. CASE v # w
      <4>1. In(v)' = In(v) /\ nextSeq'[v] = nextSeq[v]
        BY <1>0, <2>1, <3>2 DEF TypeOK
      <4> QED
        BY <1>0, <4>1 DEF GaplessStream
    <3> QED
      BY <3>1, <3>2
  <2>3. \A v \in Conv : \A m, n \in messages' :
          m.conv = v /\ n.conv = v /\ m.seq = n.seq => m = n
    BY <1>0, <2>1 DEF GaplessStream
  <2> QED
    BY <2>2, <2>3 DEF GaplessStream
<1>3. CASE UNCHANGED <<nextSeq, messages>>
  BY <1>0, <1>3 DEF GaplessStream
<1> QED
  BY <1>1, <1>2, <1>3, OnlyCommitWrites

\* A commit writes under a key that has written nothing yet.
LEMMA OnceStep ==
  ASSUME IInv, [Next]_vars
  PROVE  OneMessagePerKey'
<1>0. DraftIsNew /\ OneMessagePerKey
  BY DEF IInv
<1>1. ASSUME NEW c \in Conn, CommitSend(c)
      PROVE  OneMessagePerKey'
  <2>1. messages' = messages \cup {Draft(c)} /\ WithKey(UserOf[c], req[c].key) = {}
    BY <1>0, <1>1 DEF CommitSend, DraftIsNew
  <2>2. Draft(c).sender = UserOf[c] /\ Draft(c).key = req[c].key
    BY DEF Draft
  <2>3. \A m \in messages : ~ (m.sender = Draft(c).sender /\ m.key = Draft(c).key)
    BY <2>1, <2>2 DEF WithKey
  <2> QED
    BY <1>0, <2>1, <2>3 DEF OneMessagePerKey
<1>2. CASE messages' \subseteq messages
  BY <1>0, <1>2 DEF OneMessagePerKey
<1>3. ASSUME NEW v \in Conv, Dissolve(v)
      PROVE  OneMessagePerKey'
  BY <1>2, <1>3 DEF Dissolve
<1> QED
  BY <1>1, <1>2, <1>3, OnlyCommitWrites

-----------------------------------------------------------------------------
(* The theorems *)

\* The invariant is inductive: every reachable state satisfies it.
THEOREM Invariance == Spec => []IInv
<1>1. IInv /\ [Next]_vars => IInv'
  BY TypeStep, WellFormedStep, LockStep, NumberStep, DraftStep, GaplessStep,
     OnceStep DEF IInv
<1> QED
  BY <1>1, InitEstablishes, PTL DEF Spec

\* Every variable of the message store keeps its type, whatever interleaves.
THEOREM TypeCorrect == Spec => []TypeOK
<1>1. IInv => TypeOK
  BY DEF IInv
<1> QED
  BY <1>1, Invariance, PTL

\* Sequence Numbers of a Conversation have no hole and no duplicate, for any
\* number of connections, retries, failures and dissolutions.
THEOREM StreamIsGapless == Spec => []GaplessStream
<1>1. IInv => GaplessStream
  BY DEF IInv
<1> QED
  BY <1>1, Invariance, PTL

\* One idempotency key of one sender never writes two Messages.
THEOREM SendIsIdempotent == Spec => []OneMessagePerKey
<1>1. IInv => OneMessagePerKey
  BY DEF IInv
<1> QED
  BY <1>1, Invariance, PTL

-----------------------------------------------------------------------------
(***************************************************************************)
(* Read State.  A badge never counts what is not there to read, a Read      *)
(* Marker never passes the stream and never moves back.                     *)
(***************************************************************************)

\* A dissolved Conversation has lost its Participants with its row.
NobodyOutlivesIt == \A v \in Conv : ~ live[v] => members[v] = {}

\* Until a send commits, the rows it has incremented and locked are memberships
\* of others whose markers are still below its number.
BumpedIsBehind ==
  \A c \in Conn : pc[c] = "commit" =>
    \A u \in bumped[c] : /\ u # UserOf[c]
                         /\ u \in members[req[c].conv]
                         /\ marker[req[c].conv][u] < seq[c]

\* What the snapshot of MARK_READ saw is still in the stream when it is used.
SnapshotIsPast ==
  \A c \in Conn : pc[c] = "marking" /\ live[req[c].conv] =>
    /\ snap[c].newest <= nextSeq[req[c].conv]
    /\ snap[c].others \subseteq OthersSeqs(req[c].conv, UserOf[c])

RInv == /\ NobodyOutlivesIt
        /\ BumpedIsBehind
        /\ SnapshotIsPast
        /\ UnreadNeverInflated
        /\ MarkerNeverAheadOfStream

-----------------------------------------------------------------------------
(* What a step can touch *)

\* The handler of d is where it was, with the locals it had.
Carries(d) == /\ pc'[d] = pc[d] /\ req'[d] = req[d] /\ seq'[d] = seq[d]
              /\ bumped'[d] = bumped[d] /\ snap'[d] = snap[d]

\* Nobody but c arrives at a commit or in a read report.
OthersCarry(c) ==
  \A d \in Conn \ {c} : pc'[d] \in {"commit", "marking"} => Carries(d)

Quiet == /\ UNCHANGED table
         /\ \A d \in Conn : pc'[d] \in {"commit", "marking"} => Carries(d)

\* Every other step of a handler neither writes a table nor begins to hold rows.
LEMMA QuietSteps ==
  ASSUME IInv, NEW c \in Conn,
         \/ \E v \in Conv : \E k \in Key : StartSend(c, v, k)
         \/ FindExisting(c) \/ AllocateSeq(c) \/ InsertMessage(c)
         \/ RollbackSend(c) \/ RereadExisting(c) \/ Acknowledge(c) \/ Fail(c)
  PROVE  Quiet
<1>0. TypeOK
  BY DEF IInv
<1>1. UNCHANGED table
  BY DEF StartSend, FindExisting, AllocateSeq, InsertMessage, RollbackSend,
         RereadExisting, Acknowledge, Fail
<1>2. ASSUME NEW d \in Conn, d # c
      PROVE  Carries(d)
  <2>1. CASE \/ \E v \in Conv : \E k \in Key : StartSend(c, v, k)
             \/ AllocateSeq(c) \/ InsertMessage(c) \/ RollbackSend(c)
    BY <1>0, <1>2, <2>1 DEF TypeOK, Carries, StartSend, AllocateSeq, InsertMessage,
                            RollbackSend, Return, local
  <2>2. CASE FindExisting(c) \/ RereadExisting(c)
    BY <1>0, <1>2, <2>2 DEF TypeOK, Carries, FindExisting, RereadExisting, Answer,
                            Return, local
  <2>3. CASE Acknowledge(c) \/ Fail(c)
    <3>1. Return(c)
      BY <2>3 DEF Acknowledge, Fail
    <3> QED
      BY <1>0, <1>2, <3>1 DEF TypeOK, Carries, Return
  <2> QED
    BY <2>1, <2>2, <2>3
<1>3. pc'[c] \notin {"commit", "marking"}
  <2>1. CASE \/ \E v \in Conv : \E k \in Key : StartSend(c, v, k)
             \/ AllocateSeq(c) \/ InsertMessage(c) \/ RollbackSend(c)
    BY <1>0, <2>1 DEF TypeOK, StartSend, AllocateSeq, InsertMessage, RollbackSend, Return
  <2>2. CASE FindExisting(c) \/ RereadExisting(c)
    BY <1>0, <2>2 DEF TypeOK, FindExisting, RereadExisting, Answer, Return
  <2>3. CASE Acknowledge(c) \/ Fail(c)
    BY <1>0, <2>3 DEF TypeOK, Acknowledge, Fail, Return
  <2> QED
    BY <2>1, <2>2, <2>3
<1> QED
  BY <1>1, <1>2, <1>3 DEF Quiet

\* A step is quiet or one of the seven that concern the Read State.
LEMMA StepKinds ==
  ASSUME IInv, [Next]_vars
  PROVE  \/ Quiet
         \/ \E c \in Conn : BumpUnread(c) \/ CommitSend(c) \/ ApplyMark(c)
         \/ \E c \in Conn, v \in Conv : \E p \in Reported(v) : SnapshotMark(c, v, p)
         \/ \E v \in Conv, u \in User : Join(v, u) \/ Remove(v, u)
         \/ \E v \in Conv : Dissolve(v)
<1>1. CASE UNCHANGED vars
  BY <1>1 DEF Quiet, Carries, vars, local
<1>2. ASSUME NEW c \in Conn, Step(c) \/ Fail(c)
      PROVE  Quiet \/ BumpUnread(c) \/ CommitSend(c) \/ ApplyMark(c)
  BY <1>2, QuietSteps DEF Step
<1>3. ASSUME NEW f \in Sends, StartSend(f[1], f[2], f[3])
      PROVE  Quiet
  <2>1. f[1] \in Conn /\ f[2] \in Conv /\ f[3] \in Key
    BY MessageStreamAssumption
  <2> QED
    BY <1>3, <2>1, QuietSteps
<1>4. \A f \in Marks : f[1] \in Conn /\ f[2] \in Conv
  BY MessageStreamAssumption
<1>5. \A f \in Moves : f[1] \in Conv /\ f[2] \in User
  BY MessageStreamAssumption
<1>6. Closures \subseteq Conv
  BY MessageStreamAssumption
<1> QED
  BY <1>1, <1>2, <1>3, <1>4, <1>5, <1>6 DEF Next

\* The steps that do concern it leave the other handlers alone.
LEMMA OthersAreLeft ==
  ASSUME IInv, NEW c \in Conn,
         \/ BumpUnread(c) \/ CommitSend(c) \/ ApplyMark(c)
         \/ \E v \in Conv : \E p \in Reported(v) : SnapshotMark(c, v, p)
  PROVE  OthersCarry(c)
<1>0. TypeOK
  BY DEF IInv
<1>1. CASE BumpUnread(c)
  BY <1>0, <1>1 DEF TypeOK, OthersCarry, Carries, BumpUnread
<1>2. CASE CommitSend(c)
  BY <1>0, <1>2 DEF TypeOK, OthersCarry, Carries, CommitSend, Answer
<1>3. CASE ApplyMark(c)
  BY <1>0, <1>3 DEF TypeOK, OthersCarry, Carries, ApplyMark, Return
<1>4. CASE \E v \in Conv : \E p \in Reported(v) : SnapshotMark(c, v, p)
  BY <1>0, <1>4 DEF TypeOK, OthersCarry, Carries, SnapshotMark
<1> QED
  BY <1>1, <1>2, <1>3, <1>4

\* What is there to read is a finite part of the stream.
LEMMA OthersAreFinite ==
  ASSUME IInv, NEW v \in Conv, NEW u \in User
  PROVE  /\ OthersSeqs(v, u) \subseteq 1 .. nextSeq[v]
         /\ IsFiniteSet(OthersSeqs(v, u))
         /\ IsFiniteSet(Unseen(v, u)) /\ Cardinality(Unseen(v, u)) \in Nat
<1>0. nextSeq[v] \in Nat
  BY DEF IInv, TypeOK
<1>1. {m.seq : m \in {n \in messages : n.conv = v}} = 1 .. nextSeq[v]
  BY DEF IInv, GaplessStream
<1>2. OthersSeqs(v, u) \subseteq 1 .. nextSeq[v]
  BY <1>1 DEF OthersSeqs
<1>3. IsFiniteSet(1 .. nextSeq[v])
  BY <1>0, FS_Interval
<1>4. Unseen(v, u) \subseteq OthersSeqs(v, u)
  BY DEF Unseen
<1>5. IsFiniteSet(OthersSeqs(v, u)) /\ IsFiniteSet(Unseen(v, u))
  BY <1>2, <1>3, <1>4, FS_Subset
<1> QED
  BY <1>2, <1>5, FS_CardinalityType

\* What a read report writes: a position that is not behind the marker, and the
\* badge of that position; or nothing.
LEMMA MarkWrites ==
  ASSUME IInv, NEW c \in Conn, ApplyMark(c)
  PROVE  LET v == req[c].conv
             u == UserOf[c]
         IN  /\ v \in Conv /\ u \in User
             /\ \E m \in Nat :
                  /\ marker[v][u] <= m
                  /\ m <= marker[v][u] \/ m <= snap[c].newest
                  /\ \/ /\ u \in members[v]
                        /\ marker' = [marker EXCEPT ![v][u] = m]
                        /\ unread' = [unread EXCEPT ![v][u] =
                                        Cardinality({i \in snap[c].others : i > m})]
                     \/ UNCHANGED <<marker, unread>>
<1> DEFINE v == req[c].conv
           u == UserOf[c]
           m == Larger(marker[v][u], Smaller(seq[c], snap[c].newest))
<1>1. v \in Conv /\ u \in User /\ snap[c] \in Snap
  BY MessageStreamAssumption
  DEF IInv, WellFormed, HasRead, ApplyMark, Request
<1>2. marker[v][u] \in Nat /\ seq[c] \in Nat /\ snap[c].newest \in Nat
  BY <1>1 DEF IInv, TypeOK, Snap
<1>3. /\ m \in Nat /\ marker[v][u] <= m
      /\ m <= marker[v][u] \/ m <= snap[c].newest
  BY <1>2 DEF Larger, Smaller
<1>4. \/ /\ u \in members[v]
         /\ marker' = [marker EXCEPT ![v][u] = m]
         /\ unread' = [unread EXCEPT ![v][u] =
                         Cardinality({i \in snap[c].others : i > m})]
      \/ UNCHANGED <<marker, unread>>
  BY DEF ApplyMark
<1> HIDE DEF m
<1> QED
  BY <1>1, <1>3, <1>4

-----------------------------------------------------------------------------
(* One lemma per part of the invariant *)

LEMMA NobodyStep ==
  ASSUME IInv, RInv, [Next]_vars
  PROVE  NobodyOutlivesIt'
<1>0. TypeOK /\ NobodyOutlivesIt
  BY DEF IInv, RInv
<1>1. ASSUME NEW v \in Conv, Dissolve(v)
      PROVE  NobodyOutlivesIt'
  BY <1>0, <1>1 DEF TypeOK, NobodyOutlivesIt, Dissolve
<1>2. ASSUME NEW v \in Conv, NEW u \in User, Join(v, u) \/ Remove(v, u)
      PROVE  NobodyOutlivesIt'
  BY <1>0, <1>2 DEF TypeOK, NobodyOutlivesIt, Join, Remove
<1>3. CASE UNCHANGED <<live, members>>
  BY <1>0, <1>3 DEF NobodyOutlivesIt
<1>4. ASSUME NEW c \in Conn, \/ BumpUnread(c) \/ CommitSend(c) \/ ApplyMark(c)
                             \/ \E v \in Conv : \E p \in Reported(v) : SnapshotMark(c, v, p)
      PROVE  UNCHANGED <<live, members>>
  BY <1>4 DEF BumpUnread, CommitSend, ApplyMark, SnapshotMark, table
<1>5. Quiet => UNCHANGED <<live, members>>
  BY DEF Quiet, table
<1> QED
  BY <1>1, <1>2, <1>3, <1>4, <1>5, StepKinds

\* The lock on an incremented row keeps reports and removals away until the commit.
LEMMA BumpedStep ==
  ASSUME IInv, RInv, [Next]_vars
  PROVE  BumpedIsBehind'
<1>0. TypeOK /\ WellFormed /\ BumpedIsBehind
  BY DEF IInv, RInv
<1>1. ASSUME NEW c \in Conn, BumpUnread(c)
      PROVE  BumpedIsBehind'
  <2>1. UNCHANGED <<table, req, seq>> /\ bumped'[c] =
          {u \in members[req[c].conv] \ {UserOf[c]} : marker[req[c].conv][u] < seq[c]}
    BY <1>0, <1>1 DEF TypeOK, BumpUnread
  <2> QED
    BY <1>0, <1>1, <2>1, OthersAreLeft DEF BumpedIsBehind, OthersCarry, Carries, table
<1>2. ASSUME NEW c \in Conn, CommitSend(c)
      PROVE  BumpedIsBehind'
  <2>1. UNCHANGED <<members, marker>> /\ pc'[c] # "commit"
    BY <1>0, <1>2 DEF TypeOK, CommitSend, Answer
  <2> QED
    BY <1>0, <1>2, <2>1, OthersAreLeft DEF BumpedIsBehind, OthersCarry, Carries
<1>3. ASSUME NEW c \in Conn, ApplyMark(c)
      PROVE  BumpedIsBehind'
  <2>1. UNCHANGED members /\ pc'[c] # "commit" /\ RowFree(req[c].conv, UserOf[c])
    BY <1>0, <1>3 DEF TypeOK, ApplyMark, Return
  <2>2. ASSUME NEW v \in Conv, NEW u \in User, ~ (v = req[c].conv /\ u = UserOf[c])
        PROVE  marker'[v][u] = marker[v][u]
    <3> DEFINE w == req[c].conv
               x == UserOf[c]
    <3>1. CASE UNCHANGED marker
      BY <3>1
    <3>2. CASE \E m \in Nat : marker' = [marker EXCEPT ![w][x] = m]
      <4>1. PICK m \in Nat : marker' = [marker EXCEPT ![w][x] = m]
        BY <3>2
      <4>2. marker \in [Conv -> [User -> Nat]] /\ ~ (v = w /\ u = x)
        BY <1>0, <2>2 DEF TypeOK
      <4> HIDE DEF w, x
      <4>3. CASE v = w
        BY <4>1, <4>2, <4>3
      <4>4. CASE v # w
        BY <4>1, <4>2, <4>4
      <4> QED
        BY <4>3, <4>4
    <3> QED
      BY <1>3, <3>1, <3>2, MarkWrites
  <2>3. ASSUME NEW d \in Conn, pc'[d] = "commit", NEW u \in bumped'[d]
        PROVE  /\ u # UserOf[d]
               /\ u \in members'[req'[d].conv]
               /\ marker'[req'[d].conv][u] < seq'[d]
    <3>1. d # c /\ Carries(d)
      BY <1>3, <2>1, <2>3, OthersAreLeft DEF OthersCarry
    <3>2. pc[d] = "commit" /\ u \in bumped[d] /\ req'[d] = req[d] /\ seq'[d] = seq[d]
      BY <2>3, <3>1 DEF Carries
    <3>3. req[d].conv \in Conv /\ u \in User
      BY <1>0, <3>2 DEF TypeOK, WellFormed, HasRead, Sending
    <3>4. ~ (req[d].conv = req[c].conv /\ u = UserOf[c])
      BY <2>1, <3>2 DEF RowFree
    <3>5. marker'[req[d].conv][u] = marker[req[d].conv][u]
      BY <2>2, <3>3, <3>4
    <3> QED
      BY <1>0, <2>1, <3>2, <3>5 DEF BumpedIsBehind
  <2> QED
    BY <2>3 DEF BumpedIsBehind
<1>4. ASSUME NEW c \in Conn, NEW v \in Conv, NEW p \in Reported(v), SnapshotMark(c, v, p)
      PROVE  BumpedIsBehind'
  <2>1. UNCHANGED table /\ pc'[c] # "commit"
    BY <1>0, <1>4 DEF TypeOK, SnapshotMark
  <2> QED
    BY <1>0, <1>4, <2>1, OthersAreLeft DEF BumpedIsBehind, OthersCarry, Carries, table
<1>5. ASSUME NEW v \in Conv, NEW u \in User, Join(v, u)
      PROVE  BumpedIsBehind'
  <2>1. /\ UNCHANGED <<pc, req, seq, bumped>> /\ u \notin members[v]
        /\ members' = [members EXCEPT ![v] = @ \cup {u}]
        /\ marker' = [marker EXCEPT ![v][u] = 0]
    BY <1>5 DEF Join, local
  <2>2. ASSUME NEW d \in Conn, pc[d] = "commit", NEW w \in bumped[d]
        PROVE  /\ w \in members'[req[d].conv]
               /\ marker'[req[d].conv][w] = marker[req[d].conv][w]
    <3>1. req[d].conv \in Conv /\ w \in User /\ w \in members[req[d].conv]
      BY <1>0, <2>2 DEF TypeOK, WellFormed, HasRead, Sending, BumpedIsBehind
    <3> QED
      BY <1>0, <2>1, <3>1 DEF TypeOK
  <2> QED
    BY <1>0, <2>1, <2>2 DEF BumpedIsBehind
<1>6. ASSUME NEW v \in Conv, NEW u \in User, Remove(v, u)
      PROVE  BumpedIsBehind'
  <2>1. /\ UNCHANGED <<pc, req, seq, bumped, marker>> /\ RowFree(v, u)
        /\ members' = [members EXCEPT ![v] = @ \ {u}]
    BY <1>6 DEF Remove, local
  <2>2. ASSUME NEW d \in Conn, pc[d] = "commit", NEW w \in bumped[d]
        PROVE  w \in members'[req[d].conv]
    <3>1. req[d].conv \in Conv /\ w \in User /\ w \in members[req[d].conv]
      BY <1>0, <2>2 DEF TypeOK, WellFormed, HasRead, Sending, BumpedIsBehind
    <3>2. ~ (req[d].conv = v /\ w = u)
      BY <2>1, <2>2 DEF RowFree
    <3> QED
      BY <1>0, <2>1, <3>1, <3>2 DEF TypeOK
  <2> QED
    BY <1>0, <2>1, <2>2 DEF BumpedIsBehind
<1>7. ASSUME NEW v \in Conv, Dissolve(v)
      PROVE  BumpedIsBehind'
  <2>1. /\ UNCHANGED <<pc, req, seq, bumped, marker>> /\ ConvFree(v)
        /\ members' = [members EXCEPT ![v] = {}]
    BY <1>7 DEF Dissolve, local
  <2>2. \A d \in Conn : pc[d] = "commit" =>
          members'[req[d].conv] = members[req[d].conv]
    BY <1>0, <2>1 DEF TypeOK, ConvFree, HoldsConv, WellFormed, HasRead, Sending
  <2> QED
    BY <1>0, <2>1, <2>2 DEF BumpedIsBehind
<1>8. CASE Quiet
  BY <1>0, <1>8 DEF BumpedIsBehind, Quiet, Carries, table
<1> QED
  BY <1>1, <1>2, <1>3, <1>4, <1>5, <1>6, <1>7, <1>8, StepKinds

\* Messages of a live Conversation are only ever added.
LEMMA SnapshotStep ==
  ASSUME IInv, RInv, [Next]_vars
  PROVE  SnapshotIsPast'
<1>0. TypeOK /\ WellFormed /\ SnapshotIsPast
  BY DEF IInv, RInv
<1> DEFINE Kept == \A d \in Conn : pc'[d] = "marking" =>
                     pc[d] = "marking" /\ req'[d] = req[d] /\ snap'[d] = snap[d]
           Grew == /\ \A v \in Conv : live'[v] => live[v] /\ nextSeq[v] <= nextSeq'[v]
                   /\ \A m \in messages : live'[m.conv] => m \in messages'
<1>a. ASSUME Kept, Grew PROVE SnapshotIsPast'
  <2>1. ASSUME NEW d \in Conn, pc'[d] = "marking", live'[req'[d].conv]
        PROVE  /\ snap'[d].newest <= nextSeq'[req'[d].conv]
               /\ snap'[d].others \subseteq OthersSeqs(req[d].conv, UserOf[d])'
    <3>1. /\ pc[d] = "marking" /\ req'[d] = req[d] /\ snap'[d] = snap[d]
          /\ req[d].conv \in Conv /\ snap[d].newest \in Nat
      BY <1>0, <1>a, <2>1 DEF WellFormed, HasRead, Request, Snap
    <3>2. /\ live[req[d].conv] /\ nextSeq[req[d].conv] <= nextSeq'[req[d].conv]
          /\ nextSeq[req[d].conv] \in Nat /\ nextSeq'[req[d].conv] \in Nat
      <4>1. TypeOK'
        BY TypeStep
      <4> QED
        BY <1>0, <1>a, <2>1, <3>1, <4>1 DEF TypeOK
    <3>3. snap[d].others \subseteq OthersSeqs(req[d].conv, UserOf[d])
      BY <1>0, <3>1, <3>2 DEF SnapshotIsPast
    <3>4. OthersSeqs(req[d].conv, UserOf[d]) \subseteq OthersSeqs(req[d].conv, UserOf[d])'
      BY <1>a, <2>1, <3>1 DEF OthersSeqs
    <3>5. snap[d].newest <= nextSeq[req[d].conv]
      BY <1>0, <3>1, <3>2 DEF SnapshotIsPast
    <3> QED
      BY <3>1, <3>2, <3>3, <3>4, <3>5 DEF OthersSeqs
  <2> QED
    BY <2>1 DEF SnapshotIsPast
<1>b. ASSUME UNCHANGED <<live, nextSeq, messages>> PROVE Grew
  BY <1>0, <1>b DEF TypeOK
<1>1. ASSUME NEW c \in Conn, BumpUnread(c)
      PROVE  SnapshotIsPast'
  BY <1>0, <1>1, <1>a, <1>b DEF TypeOK, BumpUnread, table
<1>2. ASSUME NEW c \in Conn, CommitSend(c)
      PROVE  SnapshotIsPast'
  <2>1. Kept
    BY <1>0, <1>2 DEF TypeOK, CommitSend, Answer
  <2>2. /\ req[c].conv \in Conv /\ seq[c] = nextSeq[req[c].conv] + 1
        /\ nextSeq' = [nextSeq EXCEPT ![req[c].conv] = seq[c]]
        /\ messages \subseteq messages' /\ live' = live
    BY <1>0, <1>2 DEF IInv, WellFormed, HasRead, Sending, NumberIsNext, CommitSend
  <2>3. Grew
    BY <1>0, <2>2 DEF TypeOK
  <2> QED
    BY <1>a, <2>1, <2>3
<1>3. ASSUME NEW c \in Conn, ApplyMark(c)
      PROVE  SnapshotIsPast'
  BY <1>0, <1>3, <1>a, <1>b DEF TypeOK, ApplyMark, Return
<1>4. ASSUME NEW c \in Conn, NEW v \in Conv, NEW p \in Reported(v), SnapshotMark(c, v, p)
      PROVE  SnapshotIsPast'
  <2>1. /\ UNCHANGED table /\ req'[c].conv = v
        /\ snap'[c].newest = nextSeq[v] /\ snap'[c].others = OthersSeqs(v, UserOf[c])
        /\ nextSeq[v] \in Nat
    BY <1>0, <1>4 DEF TypeOK, SnapshotMark
  <2>2. OthersCarry(c)
    BY <1>4, OthersAreLeft
  <2>3. ASSUME NEW d \in Conn, pc'[d] = "marking", live'[req'[d].conv]
        PROVE  /\ snap'[d].newest <= nextSeq'[req'[d].conv]
               /\ snap'[d].others \subseteq OthersSeqs(req[d].conv, UserOf[d])'
    <3>1. CASE d = c
      BY <2>1, <3>1 DEF table, OthersSeqs
    <3>2. CASE d # c
      BY <1>0, <2>1, <2>2, <2>3, <3>2 DEF OthersCarry, Carries, SnapshotIsPast, table, OthersSeqs
    <3> QED
      BY <3>1, <3>2
  <2> QED
    BY <2>3 DEF SnapshotIsPast
<1>5. ASSUME NEW v \in Conv, NEW u \in User, Join(v, u) \/ Remove(v, u)
      PROVE  SnapshotIsPast'
  BY <1>5, <1>a, <1>b DEF Join, Remove, local
<1>6. ASSUME NEW v \in Conv, Dissolve(v)
      PROVE  SnapshotIsPast'
  <2>1. Kept /\ Grew
    BY <1>0, <1>6 DEF TypeOK, Dissolve, local
  <2> QED
    BY <1>a, <2>1
<1>7. CASE Quiet
  BY <1>7, <1>a, <1>b DEF Quiet, Carries, table
<1> QED
  BY <1>1, <1>2, <1>3, <1>4, <1>5, <1>6, <1>7, StepKinds

\* The stream only grows under the markers of a live Conversation.
LEMMA MarkerStep ==
  ASSUME IInv, RInv, [Next]_vars
  PROVE  MarkerNeverAheadOfStream'
<1>0. TypeOK /\ WellFormed /\ NobodyOutlivesIt /\ SnapshotIsPast /\ MarkerNeverAheadOfStream
  BY DEF IInv, RInv
<1>1. ASSUME NEW c \in Conn, CommitSend(c)
      PROVE  MarkerNeverAheadOfStream'
  <2>1. /\ req[c].conv \in Conv /\ seq[c] = nextSeq[req[c].conv] + 1
        /\ nextSeq' = [nextSeq EXCEPT ![req[c].conv] = seq[c]]
        /\ UNCHANGED <<members, marker>>
    BY <1>0, <1>1 DEF IInv, WellFormed, HasRead, Sending, NumberIsNext, CommitSend
  <2> QED
    BY <1>0, <2>1 DEF TypeOK, MarkerNeverAheadOfStream
<1>2. ASSUME NEW c \in Conn, ApplyMark(c)
      PROVE  MarkerNeverAheadOfStream'
  <2> DEFINE w == req[c].conv
             x == UserOf[c]
  <2>1. UNCHANGED <<members, nextSeq>> /\ pc[c] = "marking"
    BY <1>2 DEF ApplyMark
  <2>2. PICK m \in Nat : /\ m <= marker[w][x] \/ m <= snap[c].newest
                         /\ \/ x \in members[w] /\ marker' = [marker EXCEPT ![w][x] = m]
                            \/ UNCHANGED marker
    BY <1>2, MarkWrites
  <2>3. w \in Conv /\ x \in User /\ snap[c].newest \in Nat
    BY <1>0, <1>2, <2>1, MarkWrites DEF WellFormed, HasRead, Snap
  <2>4. x \in members[w] => m <= nextSeq[w]
    <3>1. x \in members[w] => live[w]
      BY <1>0, <2>3 DEF NobodyOutlivesIt
    <3>2. x \in members[w] => marker[w][x] <= nextSeq[w] /\ snap[c].newest <= nextSeq[w]
      BY <1>0, <2>1, <2>3, <3>1 DEF MarkerNeverAheadOfStream, SnapshotIsPast
    <3>3. marker[w][x] \in Nat /\ nextSeq[w] \in Nat
      BY <1>0, <2>3 DEF TypeOK
    <3> QED
      BY <2>2, <2>3, <3>2, <3>3
  <2> HIDE DEF w, x
  <2>5. CASE UNCHANGED marker
    BY <1>0, <2>1, <2>5 DEF MarkerNeverAheadOfStream
  <2>6. CASE x \in members[w] /\ marker' = [marker EXCEPT ![w][x] = m]
    <3>1. ASSUME NEW v \in Conv, NEW u \in members[v]
          PROVE  marker'[v][u] <= nextSeq[v]
      <4>1. u \in User /\ marker \in [Conv -> [User -> Nat]] /\ marker[v][u] <= nextSeq[v]
        BY <1>0, <3>1 DEF TypeOK, MarkerNeverAheadOfStream
      <4>2. CASE v = w /\ u = x
        BY <2>3, <2>4, <2>6, <4>1, <4>2
      <4>3. CASE v # w \/ u # x
        <5>1. marker'[v][u] = marker[v][u]
          BY <2>3, <2>6, <4>1, <4>3
        <5> QED
          BY <4>1, <5>1
      <4> QED
        BY <4>2, <4>3
    <3> QED
      BY <2>1, <3>1 DEF MarkerNeverAheadOfStream
  <2> QED
    BY <2>2, <2>5, <2>6
<1>3. ASSUME NEW v \in Conv, NEW u \in User, Join(v, u)
      PROVE  MarkerNeverAheadOfStream'
  BY <1>0, <1>3 DEF TypeOK, MarkerNeverAheadOfStream, Join
<1>4. ASSUME NEW v \in Conv, NEW u \in User, Remove(v, u)
      PROVE  MarkerNeverAheadOfStream'
  BY <1>0, <1>4 DEF TypeOK, MarkerNeverAheadOfStream, Remove
<1>5. ASSUME NEW v \in Conv, Dissolve(v)
      PROVE  MarkerNeverAheadOfStream'
  BY <1>0, <1>5 DEF TypeOK, MarkerNeverAheadOfStream, Dissolve
<1>6. CASE UNCHANGED <<members, marker, nextSeq>>
  BY <1>0, <1>6 DEF MarkerNeverAheadOfStream
<1>7. ASSUME NEW c \in Conn,
             BumpUnread(c) \/ \E v \in Conv : \E p \in Reported(v) : SnapshotMark(c, v, p)
      PROVE  UNCHANGED <<members, marker, nextSeq>>
  BY <1>7 DEF BumpUnread, SnapshotMark, table
<1>8. Quiet => UNCHANGED <<members, marker, nextSeq>>
  BY DEF Quiet, table
<1> QED
  BY <1>1, <1>2, <1>3, <1>4, <1>5, <1>6, <1>7, <1>8, StepKinds

\* The badge: a commit adds the Message it counts, a report counts what is left.
LEMMA UnreadStep ==
  ASSUME IInv, RInv, [Next]_vars, IInv'
  PROVE  UnreadNeverInflated'
<1>0. TypeOK /\ TypeOK' /\ WellFormed /\ NobodyOutlivesIt /\ BumpedIsBehind /\ SnapshotIsPast
      /\ UnreadNeverInflated
  BY DEF IInv, RInv
<1>a. \A v \in Conv : \A u \in User :
        IsFiniteSet(Unseen(v, u)) /\ Cardinality(Unseen(v, u)) \in Nat
  BY OthersAreFinite
\* A Participant whose badge stands still, or falls, and who has as much to read.
<1>b. ASSUME NEW v \in Conv, NEW u \in User, u \in members[v],
             unread'[v][u] <= unread[v][u],
             Unseen(v, u) \subseteq Unseen(v, u)', IsFiniteSet(Unseen(v, u)')
      PROVE  unread'[v][u] <= Cardinality(Unseen(v, u)')
  <2>1. Cardinality(Unseen(v, u)) <= Cardinality(Unseen(v, u)')
    BY <1>b, FS_Subset
  <2>2. Cardinality(Unseen(v, u)') \in Nat
    BY <1>b, FS_CardinalityType
  <2>3. unread[v][u] <= Cardinality(Unseen(v, u))
    BY <1>0, <1>b DEF UnreadNeverInflated
  <2> QED
    BY <1>0, <1>a, <1>b, <2>1, <2>2, <2>3 DEF TypeOK
<1>c. ASSUME NEW v \in Conv, NEW u \in User
      PROVE  IsFiniteSet(Unseen(v, u)')
  <2>1. nextSeq'[v] \in Nat /\ {m.seq : m \in {n \in messages' : n.conv = v}} = 1 .. nextSeq'[v]
    BY DEF IInv, TypeOK, GaplessStream
  <2>2. Unseen(v, u)' \subseteq 1 .. nextSeq'[v]
    BY <2>1 DEF Unseen, OthersSeqs
  <2> QED
    <3>1. IsFiniteSet(1 .. nextSeq'[v])
      BY <2>1, FS_Interval
    <3> QED
      BY <2>2, <3>1, FS_Subset
<1>1. ASSUME NEW c \in Conn, CommitSend(c)
      PROVE  UnreadNeverInflated'
  <2> DEFINE w == req[c].conv
  <2>1. /\ w \in Conv /\ seq[c] = nextSeq[w] + 1 /\ nextSeq[w] \in Nat
        /\ messages' = messages \cup {Draft(c)} /\ pc[c] = "commit"
        /\ UNCHANGED <<members, marker>>
        /\ Draft(c).conv = w /\ Draft(c).seq = seq[c] /\ Draft(c).sender = UserOf[c]
    BY <1>0, <1>1
    DEF IInv, TypeOK, WellFormed, HasRead, Sending, NumberIsNext, CommitSend, Draft
  <2>2. unread' = [unread EXCEPT ![w] = [u \in User |->
                     IF u \in bumped[c] THEN unread[w][u] + 1 ELSE unread[w][u]]]
    BY <1>1 DEF CommitSend
  <2>3. ASSUME NEW v \in Conv, NEW u \in members[v]
        PROVE  unread'[v][u] <= Cardinality(Unseen(v, u)')
    <3>1. u \in User /\ unread[v][u] \in Nat
      BY <1>0 DEF TypeOK
    <3>2. Unseen(v, u) \subseteq Unseen(v, u)'
      BY <2>1 DEF Unseen, OthersSeqs
    <3>3. CASE ~ (v = w /\ u \in bumped[c])
      <4>1. unread'[v][u] = unread[v][u]
        BY <1>0, <2>1, <2>2, <3>1, <3>3 DEF TypeOK
      <4> QED
        BY <1>b, <1>c, <3>1, <3>2, <4>1
    <3>4. CASE v = w /\ u \in bumped[c]
      <4>1. unread'[v][u] = unread[v][u] + 1
        BY <1>0, <2>1, <2>2, <3>1, <3>4 DEF TypeOK
      <4>2. u # UserOf[c] /\ marker[v][u] < seq[c]
        BY <1>0, <2>1, <3>4 DEF BumpedIsBehind
      <4>3. seq[c] \notin Unseen(v, u)
        <5>1. Unseen(v, u) \subseteq 1 .. nextSeq[v]
          BY <3>1, OthersAreFinite DEF Unseen
        <5> QED
          BY <2>1, <3>4, <5>1
      <4>4. Draft(c) \in {n \in messages' : n.conv = v /\ n.sender # u}
        BY <2>1, <3>4, <4>2
      <4>5. seq[c] \in Unseen(v, u)'
        <5>1. seq[c] \in {m.seq : m \in {n \in messages' : n.conv = v /\ n.sender # u}}
          BY <2>1, <4>4
        <5>2. seq[c] > marker'[v][u]
          BY <1>0, <2>1, <3>1, <4>2 DEF TypeOK
        <5> QED
          BY <5>1, <5>2 DEF Unseen, OthersSeqs
      <4>6. /\ IsFiniteSet(Unseen(v, u) \cup {seq[c]})
            /\ Cardinality(Unseen(v, u) \cup {seq[c]}) = Cardinality(Unseen(v, u)) + 1
        BY <1>a, <3>1, <4>3, FS_AddElement
      <4>7. Cardinality(Unseen(v, u) \cup {seq[c]}) <= Cardinality(Unseen(v, u)')
        BY <1>c, <3>1, <3>2, <4>5, FS_Subset
      <4>8. unread[v][u] <= Cardinality(Unseen(v, u)) /\ Cardinality(Unseen(v, u)) \in Nat
        BY <1>0, <1>a, <3>1 DEF UnreadNeverInflated
      <4>9. Cardinality(Unseen(v, u)') \in Nat
        BY <1>c, <3>1, FS_CardinalityType
      <4> QED
        BY <3>1, <4>1, <4>6, <4>7, <4>8, <4>9
    <3> QED
      BY <3>3, <3>4
  <2> QED
    BY <2>1, <2>3 DEF UnreadNeverInflated
<1>2. ASSUME NEW c \in Conn, ApplyMark(c)
      PROVE  UnreadNeverInflated'
  <2> DEFINE w == req[c].conv
             x == UserOf[c]
             left(m) == {i \in snap[c].others : i > m}
  <2>1. UNCHANGED <<members, messages>> /\ pc[c] = "marking" /\ w \in Conv /\ x \in User
    BY <1>2, MarkWrites DEF ApplyMark
  <2>2. PICK m \in Nat : \/ /\ x \in members[w]
                            /\ marker' = [marker EXCEPT ![w][x] = m]
                            /\ unread' = [unread EXCEPT ![w][x] = Cardinality(left(m))]
                         \/ UNCHANGED <<marker, unread>>
    BY <1>2, MarkWrites
  <2>3. x \in members[w] => snap[c].others \subseteq OthersSeqs(w, x)
    <3>1. x \in members[w] => live[w]
      BY <1>0, <2>1 DEF NobodyOutlivesIt
    <3> QED
      BY <1>0, <2>1, <3>1 DEF SnapshotIsPast
  <2>4. \A v \in Conv : \A u \in User : marker'[v][u] = marker[v][u] => Unseen(v, u)' = Unseen(v, u)
    BY <2>1 DEF Unseen, OthersSeqs
  <2>5. \A v \in Conv : \A u \in User :
          v = w /\ u = x /\ x \in members[w] /\ marker'[v][u] = m
            => left(m) \subseteq Unseen(v, u)'
    <3>1. ASSUME NEW v \in Conv, NEW u \in User
          PROVE  Unseen(v, u)' = {i \in OthersSeqs(v, u) : i > marker'[v][u]}
      BY <2>1 DEF Unseen, OthersSeqs
    <3> QED
      BY <2>1, <2>3, <3>1
  <2>6. ASSUME NEW v \in Conv, NEW u \in members[v]
        PROVE  unread'[v][u] <= Cardinality(Unseen(v, u)')
    <3>1. /\ u \in User /\ unread[v][u] \in Nat
          /\ marker \in [Conv -> [User -> Nat]] /\ unread \in [Conv -> [User -> Nat]]
      BY <1>0 DEF TypeOK
    <3> HIDE DEF w, x, left
    <3>2. CASE marker'[v][u] = marker[v][u] /\ unread'[v][u] = unread[v][u]
      BY <1>b, <1>c, <2>4, <3>1, <3>2
    <3>3. CASE /\ v = w /\ u = x /\ marker'[v][u] = m
               /\ unread'[v][u] = Cardinality(left(m))
      <4>1. left(m) \subseteq Unseen(v, u)'
        BY <2>1, <2>5, <2>6, <3>1, <3>3
      <4> QED
        BY <1>c, <3>1, <3>3, <4>1, FS_Subset
    <3>4. CASE v = w /\ u = x
      BY <2>1, <2>2, <3>1, <3>2, <3>3, <3>4
    <3>5. CASE v # w \/ u # x
      <4>1. marker'[v][u] = marker[v][u] /\ unread'[v][u] = unread[v][u]
        BY <2>1, <2>2, <3>1, <3>5
      <4> QED
        BY <3>2, <4>1
    <3> QED
      BY <3>4, <3>5
  <2> QED
    BY <2>1, <2>6 DEF UnreadNeverInflated
<1>3. ASSUME NEW w \in Conv, NEW x \in User, Join(w, x)
      PROVE  UnreadNeverInflated'
  <2>1. /\ UNCHANGED messages /\ members' = [members EXCEPT ![w] = @ \cup {x}]
        /\ marker' = [marker EXCEPT ![w][x] = 0] /\ unread' = [unread EXCEPT ![w][x] = 0]
    BY <1>3 DEF Join
  <2>2. ASSUME NEW v \in Conv, NEW u \in members'[v]
        PROVE  unread'[v][u] <= Cardinality(Unseen(v, u)')
    <3>1. u \in User
      BY <1>0 DEF TypeOK
    <3>2. CASE v = w /\ u = x
      <4>1. unread'[v][u] = 0
        BY <1>0, <2>1, <3>2 DEF TypeOK
      <4>2. Cardinality(Unseen(v, u)') \in Nat
        BY <1>c, <3>1, FS_CardinalityType
      <4> QED
        BY <4>1, <4>2
    <3>3. CASE ~ (v = w /\ u = x)
      <4>1. /\ u \in members[v] /\ marker'[v][u] = marker[v][u]
            /\ unread'[v][u] = unread[v][u] /\ unread[v][u] \in Nat
        <5>1. CASE v = w
          BY <1>0, <2>1, <2>2, <3>1, <3>3, <5>1 DEF TypeOK
        <5>2. CASE v # w
          BY <1>0, <2>1, <2>2, <3>1, <5>2 DEF TypeOK
        <5> QED
          BY <5>1, <5>2
      <4>2. Unseen(v, u)' = Unseen(v, u)
        BY <2>1, <4>1 DEF Unseen, OthersSeqs
      <4> QED
        BY <1>b, <1>c, <3>1, <4>1, <4>2
    <3> QED
      BY <3>2, <3>3
  <2> QED
    BY <2>2 DEF UnreadNeverInflated
<1>4. ASSUME NEW w \in Conv, NEW x \in User, Remove(w, x)
      PROVE  UnreadNeverInflated'
  <2>1. UNCHANGED <<messages, marker, unread>> /\ members' = [members EXCEPT ![w] = @ \ {x}]
    BY <1>4 DEF Remove
  <2>2. \A v \in Conv : members'[v] \subseteq members[v]
    BY <1>0, <2>1 DEF TypeOK
  <2> QED
    BY <1>0, <2>1, <2>2 DEF UnreadNeverInflated, Unseen, OthersSeqs
<1>5. ASSUME NEW w \in Conv, Dissolve(w)
      PROVE  UnreadNeverInflated'
  <2>1. /\ UNCHANGED <<marker, unread>> /\ members' = [members EXCEPT ![w] = {}]
        /\ messages' = {m \in messages : m.conv # w}
    BY <1>5 DEF Dissolve
  <2>2. ASSUME NEW v \in Conv, NEW u \in members'[v]
        PROVE  unread'[v][u] <= Cardinality(Unseen(v, u)')
    <3>1. v # w /\ u \in members[v]
      BY <1>0, <2>1 DEF TypeOK
    <3>2. Unseen(v, u)' = Unseen(v, u)
      BY <2>1, <3>1 DEF Unseen, OthersSeqs
    <3> QED
      BY <1>0, <2>1, <3>1, <3>2 DEF UnreadNeverInflated
  <2> QED
    BY <2>2 DEF UnreadNeverInflated
<1>6. CASE UNCHANGED <<members, marker, unread, messages>>
  BY <1>0, <1>6 DEF UnreadNeverInflated, Unseen, OthersSeqs
<1>7. ASSUME NEW c \in Conn,
             BumpUnread(c) \/ \E v \in Conv : \E p \in Reported(v) : SnapshotMark(c, v, p)
      PROVE  UNCHANGED <<members, marker, unread, messages>>
  BY <1>7 DEF BumpUnread, SnapshotMark, table
<1>8. Quiet => UNCHANGED <<members, marker, unread, messages>>
  BY DEF Quiet, table
<1> QED
  BY <1>1, <1>2, <1>3, <1>4, <1>5, <1>6, <1>7, <1>8, StepKinds

-----------------------------------------------------------------------------
(* The theorems *)

\* The invariant of MessageStreamProofs and that of the Read State together hold
\* in every reachable state.
THEOREM ReadStateInvariance == Spec => [](IInv /\ RInv)
<1>1. Init => IInv /\ RInv
  <2>1. Init => IInv
    BY InitEstablishes
  <2>2. Init => NobodyOutlivesIt /\ BumpedIsBehind /\ SnapshotIsPast
    BY DEF Init, NobodyOutlivesIt, BumpedIsBehind, SnapshotIsPast
  <2>3. Init => MarkerNeverAheadOfStream
    BY DEF Init, MarkerNeverAheadOfStream
  <2>4. ASSUME Init PROVE UnreadNeverInflated
    <3>1. \A v \in Conv : \A u \in User : unread[v][u] = 0 /\ members[v] = User
      BY <2>4 DEF Init
    <3>2. \A v \in Conv : \A u \in User : Cardinality(Unseen(v, u)) \in Nat
      BY <2>1, <2>4, OthersAreFinite
    <3>3. ASSUME NEW v \in Conv, NEW u \in members[v]
          PROVE  unread[v][u] <= Cardinality(Unseen(v, u))
      <4>1. u \in User
        BY <2>4 DEF Init
      <4>2. unread[v][u] = 0 /\ Cardinality(Unseen(v, u)) \in Nat
        BY <3>1, <3>2, <4>1
      <4> QED
        BY <4>2
    <3> QED
      BY <3>3 DEF UnreadNeverInflated
  <2> QED
    BY <2>1, <2>2, <2>3, <2>4 DEF RInv
<1>2. IInv /\ [Next]_vars => IInv'
  BY TypeStep, WellFormedStep, LockStep, NumberStep, DraftStep, GaplessStep,
     OnceStep DEF IInv
<1>3. IInv /\ RInv /\ [Next]_vars => RInv'
  BY <1>2, NobodyStep, BumpedStep, SnapshotStep, UnreadStep, MarkerStep DEF RInv
<1> QED
  BY <1>1, <1>2, <1>3, PTL DEF Spec

\* Badges count nothing that is not there to read and Read Markers stay within the
\* stream, whatever sends, reports, joins and dissolutions interleave.
THEOREM BadgesAreHonest == Spec => []ReadStateWithinStream
<1>1. RInv => ReadStateWithinStream
  BY DEF RInv, ReadStateWithinStream
<1> QED
  BY <1>1, ReadStateInvariance, PTL

\* No read report, however late or repeated, moves a Participant's position back.
THEOREM PositionsOnlyAdvance == Spec => ReadPositionOnlyAdvances
<1> DEFINE Forward == \A v \in Conv : \A u \in members[v] \cap members'[v] :
                        joins'[v][u] = joins[v][u] => marker'[v][u] >= marker[v][u]
<1>1. ASSUME IInv, [Next]_vars PROVE Forward
  <2>0. TypeOK /\ \A v \in Conv : \A u \in User : marker[v][u] \in Nat
    BY <1>1 DEF IInv, TypeOK
  <2>1. ASSUME NEW c \in Conn, ApplyMark(c) PROVE Forward
    <3> DEFINE w == req[c].conv
               x == UserOf[c]
    <3>1. w \in Conv /\ x \in User
      BY <1>1, <2>1, MarkWrites
    <3>2. PICK m \in Nat : /\ marker[w][x] <= m
                           /\ \/ marker' = [marker EXCEPT ![w][x] = m]
                              \/ UNCHANGED marker
      BY <1>1, <2>1, MarkWrites
    <3> HIDE DEF w, x
    <3>3. ASSUME NEW v \in Conv, NEW u \in User
          PROVE  marker'[v][u] >= marker[v][u]
      <4>1. marker \in [Conv -> [User -> Nat]]
        BY <2>0 DEF TypeOK
      <4>2. CASE v = w /\ u = x
        BY <3>1, <3>2, <4>1, <4>2
      <4>3. CASE v # w \/ u # x
        <5>1. marker'[v][u] = marker[v][u]
          BY <3>1, <3>2, <4>1, <4>3
        <5> QED
          BY <2>0, <5>1
      <4> QED
        BY <4>2, <4>3
    <3> QED
      BY <2>0, <3>3 DEF TypeOK
  <2>2. ASSUME NEW v \in Conv, NEW u \in User, Join(v, u) PROVE Forward
    <3>1. ASSUME NEW w \in Conv, NEW x \in members[w] \cap members'[w]
          PROVE  marker'[w][x] >= marker[w][x]
      <4>1. ~ (w = v /\ x = u) /\ x \in User
        BY <2>0, <2>2, <3>1 DEF TypeOK, Join
      <4>2. marker' = [marker EXCEPT ![v][u] = 0]
        BY <2>2 DEF Join
      <4>3. marker'[w][x] = marker[w][x]
        <5>1. CASE w = v
          BY <2>0, <4>1, <4>2, <5>1 DEF TypeOK
        <5>2. CASE w # v
          BY <2>0, <4>1, <4>2, <5>2 DEF TypeOK
        <5> QED
          BY <5>1, <5>2
      <4> QED
        BY <2>0, <4>1, <4>3
    <3> QED
      BY <3>1
  <2>3. CASE UNCHANGED <<marker, members>>
    BY <2>0, <2>3 DEF TypeOK
  <2>4. ASSUME NEW v \in Conv, NEW u \in User, Remove(v, u) PROVE Forward
    BY <2>0, <2>4 DEF TypeOK, Remove
  <2>5. ASSUME NEW v \in Conv, Dissolve(v) PROVE Forward
    BY <2>0, <2>5 DEF TypeOK, Dissolve
  <2>6. ASSUME NEW c \in Conn,
               \/ BumpUnread(c) \/ CommitSend(c)
               \/ \E v \in Conv : \E p \in Reported(v) : SnapshotMark(c, v, p)
        PROVE  UNCHANGED <<marker, members>>
    BY <2>6 DEF BumpUnread, CommitSend, SnapshotMark, table
  <2>7. Quiet => UNCHANGED <<marker, members>>
    BY DEF Quiet, table
  <2> HIDE DEF Forward
  <2> QED
    BY <1>1, <2>1, <2>2, <2>3, <2>4, <2>5, <2>6, <2>7, StepKinds
<1>2. IInv /\ [Next]_vars => [Forward]_vars
  BY <1>1
<1> QED
  BY <1>2, Invariance, PTL DEF Spec, ReadPositionOnlyAdvances

-----------------------------------------------------------------------------
(***************************************************************************)
(* Answers.  The answer names a stored row of the sender's own key, the     *)
(* fan-out tells of each Message once, and the committed tables behave as a *)
(* ConversationLog.                                                         *)
(***************************************************************************)

\* c has written a Message it has still to announce.
Owes(c) == pc[c] = "acked" /\ reply[c].created

\* What is still to be announced has not been announced.
OwedIsUntold ==
  \A c \in Conn : Owes(c) =>
    \A i \in DOMAIN announced[reply[c].row.conv] :
      announced[reply[c].row.conv][i] # reply[c].row.seq

\* No two handlers owe the announcement of one Message.
OwedByOne ==
  \A c, d \in Conn :
    /\ Owes(c) /\ Owes(d)
    /\ reply[c].row.conv = reply[d].row.conv /\ reply[c].row.seq = reply[d].row.seq
    => c = d

AInv == /\ AnswerIsStored
        /\ AnnouncedOnce
        /\ OwedIsUntold
        /\ OwedByOne

-----------------------------------------------------------------------------
(* What a step can touch *)

\* No answer appears or changes, and nothing is stored or announced.
Silent == /\ UNCHANGED <<live, nextSeq, messages, announced>>
          /\ \A d \in Conn : pc'[d] = "acked" =>
               pc[d] = "acked" /\ req'[d] = req[d] /\ reply'[d] = reply[d]

\* A retry is answered with the row its key has already written.
AnsweredAgain(c) ==
  /\ UNCHANGED <<live, nextSeq, messages, announced>>
  /\ pc[c] \in {"find", "reread"}
  /\ \E r \in WithKey(UserOf[c], req[c].key) : Answer(c, r, FALSE)

\* What appending one element does.
Extends(t, s, e) == /\ t = [i \in DOMAIN t |-> t[i]]
                    /\ DOMAIN t = 1 .. (Len(s) + 1)
                    /\ DOMAIN s = 1 .. Len(s) /\ Len(s) \in Nat
                    /\ \A i \in 1 .. Len(s) : t[i] = s[i]
                    /\ t[Len(s) + 1] = e

LEMMA AppendOne ==
  ASSUME NEW S, NEW s \in Seq(S), NEW e \in S
  PROVE  Extends(Append(s, e), s, e)
<1>1. Append(s, e) \in Seq(S) /\ Len(Append(s, e)) = Len(s) + 1 /\ Len(s) \in Nat
  OBVIOUS
<1>2. DOMAIN Append(s, e) = 1 .. (Len(s) + 1) /\ DOMAIN s = 1 .. Len(s)
  BY <1>1
<1>3. Append(s, e) = [i \in DOMAIN Append(s, e) |-> Append(s, e)[i]]
  <2>1. \A t \in Seq(S) : t \in [1 .. Len(t) -> S]
    OBVIOUS
  <2>2. \A n \in Nat : \A t \in [1 .. n -> S] : t = [i \in DOMAIN t |-> t[i]]
    OBVIOUS
  <2>3. Len(Append(s, e)) \in Nat
    BY <1>1
  <2> QED
    BY <1>1, <2>1, <2>2, <2>3, Zenon
<1>4. \A i \in 1 .. Len(s) : Append(s, e)[i] = s[i]
  BY <1>1
<1>5. Append(s, e)[Len(s) + 1] = e
  BY <1>1
<1> QED
  BY <1>1, <1>2, <1>3, <1>4, <1>5 DEF Extends

LEMMA AnswerKinds ==
  ASSUME IInv, [Next]_vars
  PROVE  \/ Silent
         \/ \E c \in Conn : AnsweredAgain(c) \/ CommitSend(c) \/ Acknowledge(c)
         \/ \E v \in Conv : Dissolve(v)
<1>0. TypeOK
  BY DEF IInv
<1>1. CASE UNCHANGED vars
  BY <1>1 DEF Silent, vars, table, local
<1>2. ASSUME NEW c \in Conn, FindExisting(c) \/ RereadExisting(c)
      PROVE  Silent \/ AnsweredAgain(c)
  <2>1. UNCHANGED <<live, nextSeq, messages, announced>> /\ pc[c] \in {"find", "reread"}
    BY <1>2 DEF FindExisting, RereadExisting, table
  <2>2. CASE \E r \in WithKey(UserOf[c], req[c].key) : Answer(c, r, FALSE)
    BY <2>1, <2>2 DEF AnsweredAgain
  <2>3. CASE pc' = [pc EXCEPT ![c] = "allocate"] /\ UNCHANGED local
    BY <1>0, <2>1, <2>3 DEF Silent, TypeOK, local
  <2>4. CASE Return(c)
    BY <1>0, <2>1, <2>4 DEF Silent, TypeOK, Return
  <2> QED
    BY <1>2, <2>2, <2>3, <2>4 DEF FindExisting, RereadExisting
<1>3. ASSUME NEW c \in Conn,
             \/ AllocateSeq(c) \/ InsertMessage(c) \/ BumpUnread(c)
             \/ RollbackSend(c) \/ ApplyMark(c) \/ Fail(c)
      PROVE  Silent
  <2>1. CASE AllocateSeq(c) \/ InsertMessage(c)
    BY <1>0, <2>1 DEF Silent, TypeOK, AllocateSeq, InsertMessage, Return, table, local
  <2>2. CASE BumpUnread(c) \/ RollbackSend(c)
    BY <1>0, <2>2 DEF Silent, TypeOK, BumpUnread, RollbackSend, table
  <2>3. CASE ApplyMark(c) \/ Fail(c)
    BY <1>0, <2>3 DEF Silent, TypeOK, ApplyMark, Fail, Return, table
  <2> QED
    BY <1>3, <2>1, <2>2, <2>3
<1>4. ASSUME NEW c \in Conn, NEW v \in Conv,
             \/ \E k \in Key : StartSend(c, v, k)
             \/ \E p \in Reported(v) : SnapshotMark(c, v, p)
      PROVE  Silent
  BY <1>0, <1>4 DEF Silent, TypeOK, StartSend, SnapshotMark, table
<1>5. ASSUME NEW v \in Conv, NEW u \in User, Join(v, u) \/ Remove(v, u)
      PROVE  Silent
  BY <1>5 DEF Silent, Join, Remove, local
<1>6. \A f \in Sends : f[1] \in Conn /\ f[2] \in Conv /\ f[3] \in Key
  BY MessageStreamAssumption
<1>7. \A f \in Marks : f[1] \in Conn /\ f[2] \in Conv
  BY MessageStreamAssumption
<1>8. \A f \in Moves : f[1] \in Conv /\ f[2] \in User
  BY MessageStreamAssumption
<1>9. Closures \subseteq Conv
  BY MessageStreamAssumption
<1> QED
  BY <1>1, <1>2, <1>3, <1>4, <1>5, <1>6, <1>7, <1>8, <1>9 DEF Next, Step

\* The Sequence Numbers of stored rows are those of the stream.
LEMMA StoredIsNumbered ==
  ASSUME IInv, NEW r \in messages
  PROVE  r \in Row /\ r.seq \in 1 .. nextSeq[r.conv]
<1>1. r \in Row /\ r.conv \in Conv
  BY DEF IInv, TypeOK, Row
<1>2. {m.seq : m \in {n \in messages : n.conv = r.conv}} = 1 .. nextSeq[r.conv]
  BY <1>1 DEF IInv, GaplessStream
<1> QED
  BY <1>1, <1>2

\* An answer is typed, and as long as its Conversation lives it is in the stream.
LEMMA AnswerInStream ==
  ASSUME IInv, AInv, NEW c \in Conn, pc[c] = "acked"
  PROVE  /\ reply[c] \in Reply /\ reply[c].row \in Row
         /\ reply[c].row.conv \in Conv /\ reply[c].row.seq \in Nat
         /\ live[reply[c].row.conv] =>
              reply[c].row.seq \in 1 .. nextSeq[reply[c].row.conv]
<1>1. /\ reply[c] \in Reply /\ reply[c].row \in Row
      /\ reply[c].row.conv \in Conv /\ reply[c].row.seq \in Nat
  BY DEF IInv, WellFormed, HasRead, Reply, Row
<1>2. live[reply[c].row.conv] => reply[c].row \in messages
  BY DEF AInv, AnswerIsStored
<1> QED
  BY <1>1, <1>2, StoredIsNumbered

-----------------------------------------------------------------------------
(* One lemma per kind of step *)

LEMMA SilentKeeps ==
  ASSUME IInv, AInv, Silent
  PROVE  AInv'
<1>1. AnswerIsStored'
  BY DEF AInv, AnswerIsStored, Silent
<1>2. AnnouncedOnce'
  BY DEF AInv, AnnouncedOnce, Silent
<1>3. \A d \in Conn : Owes(d)' => Owes(d) /\ reply'[d] = reply[d]
  BY DEF Owes, Silent
<1>4. OwedIsUntold'
  BY <1>3 DEF AInv, OwedIsUntold, Silent, Owes
<1>5. OwedByOne'
  BY <1>3 DEF AInv, OwedByOne, Owes
<1> QED
  BY <1>1, <1>2, <1>4, <1>5 DEF AInv

LEMMA AgainKeeps ==
  ASSUME IInv, AInv, NEW c \in Conn, AnsweredAgain(c)
  PROVE  AInv'
<1>0. TypeOK
  BY DEF IInv
<1>1. PICK r \in messages : /\ r.sender = UserOf[c] /\ r.key = req[c].key
                            /\ Answer(c, r, FALSE)
  BY DEF AnsweredAgain, WithKey
<1>2. /\ pc'[c] = "acked" /\ reply'[c].row = r /\ reply'[c].created = FALSE /\ req' = req
      /\ \A d \in Conn \ {c} : pc'[d] = pc[d] /\ reply'[d] = reply[d]
  BY <1>0, <1>1 DEF TypeOK, Answer
<1>3. UNCHANGED <<live, nextSeq, messages, announced>>
  BY DEF AnsweredAgain
<1>4. AnswerIsStored'
  BY <1>1, <1>2, <1>3 DEF AInv, AnswerIsStored
<1>5. AnnouncedOnce'
  BY <1>3 DEF AInv, AnnouncedOnce
<1>6. \A d \in Conn : Owes(d)' => Owes(d) /\ reply'[d] = reply[d]
  BY <1>2 DEF Owes
<1>7. OwedIsUntold'
  BY <1>3, <1>6 DEF AInv, OwedIsUntold, Owes
<1>8. OwedByOne'
  BY <1>6 DEF AInv, OwedByOne, Owes
<1> QED
  BY <1>4, <1>5, <1>7, <1>8 DEF AInv

\* The new number is beyond everything announced or owed so far.
LEMMA CommitKeeps ==
  ASSUME IInv, AInv, NEW c \in Conn, CommitSend(c)
  PROVE  AInv'
<1> DEFINE w == req[c].conv
<1>0. TypeOK /\ AnswerIsStored /\ AnnouncedOnce /\ OwedIsUntold /\ OwedByOne
  BY DEF IInv, AInv
<1>1. /\ pc[c] = "commit" /\ w \in Conv /\ live[w]
      /\ seq[c] = nextSeq[w] + 1 /\ nextSeq[w] \in Nat
      /\ Draft(c).conv = w /\ Draft(c).seq = seq[c]
      /\ Draft(c).sender = UserOf[c] /\ Draft(c).key = req[c].key
  BY DEF IInv, TypeOK, WellFormed, HasRead, Sending, NumberIsNext, CommitSend, Draft
<1>2. /\ messages' = messages \cup {Draft(c)} /\ UNCHANGED <<live, announced, req>>
      /\ nextSeq' = [nextSeq EXCEPT ![w] = seq[c]]
      /\ Answer(c, Draft(c), TRUE)
  BY DEF CommitSend, Answer
<1>3. /\ pc'[c] = "acked" /\ reply'[c].row = Draft(c)
      /\ \A d \in Conn \ {c} : pc'[d] = pc[d] /\ reply'[d] = reply[d]
  <2>1. /\ pc' = [pc EXCEPT ![c] = "acked"]
        /\ reply' = [reply EXCEPT ![c] = [row |-> Draft(c), created |-> TRUE]]
    BY <1>2 DEF Answer
  <2> QED
    BY <1>0, <2>1 DEF TypeOK
<1>4. AnswerIsStored'
  <2>1. ASSUME NEW d \in Conn, pc'[d] = "acked"
        PROVE  /\ reply'[d].row.sender = UserOf[d] /\ reply'[d].row.key = req'[d].key
               /\ live'[reply'[d].row.conv] => reply'[d].row \in messages'
    <3>1. CASE d = c
      BY <1>1, <1>2, <1>3, <3>1
    <3>2. CASE d # c
      BY <1>0, <1>2, <1>3, <2>1, <3>2 DEF AnswerIsStored
    <3> QED
      BY <3>1, <3>2
  <2> QED
    BY <2>1 DEF AnswerIsStored
<1>5. AnnouncedOnce'
  <2>1. \A v \in Conv : \A i \in 1 .. nextSeq[v] : i \in 1 .. nextSeq'[v]
    BY <1>0, <1>1, <1>2 DEF TypeOK
  <2> QED
    BY <1>0, <1>2, <2>1 DEF AnnouncedOnce
<1>6. \A d \in Conn \ {c} : Owes(d)' => Owes(d) /\ reply'[d] = reply[d]
  BY <1>3 DEF Owes
<1>7. OwedIsUntold'
  <2>1. ASSUME NEW d \in Conn, Owes(d)'
        PROVE  \A i \in DOMAIN announced[reply'[d].row.conv] :
                 announced[reply'[d].row.conv][i] # reply'[d].row.seq
    <3>1. CASE d = c
      <4>1. \A i \in DOMAIN announced[w] : announced[w][i] \in 1 .. nextSeq[w]
        BY <1>0, <1>1 DEF AnnouncedOnce
      <4> QED
        BY <1>1, <1>3, <3>1, <4>1
    <3>2. CASE d # c
      BY <1>0, <1>6, <2>1, <3>2 DEF OwedIsUntold
    <3> QED
      BY <3>1, <3>2
  <2> QED
    BY <1>2, <2>1 DEF OwedIsUntold
<1>8. OwedByOne'
  <2>1. ASSUME NEW d \in Conn \ {c}, Owes(d)', reply'[d].row.conv = w
        PROVE  reply'[d].row.seq # seq[c]
    <3>1. pc[d] = "acked" /\ reply'[d] = reply[d]
      BY <1>6, <2>1 DEF Owes
    <3>2. reply[d].row.seq \in 1 .. nextSeq[w]
      BY <1>1, <2>1, <3>1, AnswerInStream
    <3> QED
      BY <1>1, <3>1, <3>2
  <2>2. ASSUME NEW d \in Conn, NEW e \in Conn, Owes(d)', Owes(e)',
               reply'[d].row.conv = reply'[e].row.conv,
               reply'[d].row.seq = reply'[e].row.seq
        PROVE  d = e
    <3>1. CASE d # c /\ e # c
      BY <1>0, <1>6, <2>2, <3>1 DEF OwedByOne
    <3>2. CASE d = c \/ e = c
      BY <1>1, <1>3, <2>1, <2>2, <3>2
    <3> QED
      BY <3>1, <3>2
  <2> QED
    BY <2>2 DEF OwedByOne
<1> QED
  BY <1>4, <1>5, <1>7, <1>8 DEF AInv

\* The number that is announced was owed by this handler alone.
LEMMA AcknowledgeKeeps ==
  ASSUME IInv, AInv, NEW c \in Conn, Acknowledge(c)
  PROVE  AInv'
<1> DEFINE w == reply[c].row.conv
           n == reply[c].row.seq
<1>0. TypeOK /\ AnswerIsStored /\ AnnouncedOnce /\ OwedIsUntold /\ OwedByOne
  BY DEF IInv, AInv
<1>1. pc[c] = "acked" /\ UNCHANGED <<live, nextSeq, messages>>
  BY DEF Acknowledge, table
<1>2. w \in Conv /\ n \in Nat /\ (live[w] => n \in 1 .. nextSeq[w])
  BY <1>1, AnswerInStream
<1>3. \/ announced' = announced
      \/ Owes(c) /\ announced' = [announced EXCEPT ![w] = Append(announced[w], n)]
  BY <1>1 DEF Acknowledge, Owes
<1>4. /\ pc'[c] = "idle"
      /\ \A d \in Conn \ {c} : pc'[d] = pc[d] /\ reply'[d] = reply[d] /\ req'[d] = req[d]
  BY <1>0 DEF TypeOK, Acknowledge, Return
<1>5. AnswerIsStored'
  BY <1>0, <1>1, <1>4 DEF AnswerIsStored
<1>6. \A d \in Conn : Owes(d)' => d # c /\ Owes(d) /\ reply'[d] = reply[d]
  BY <1>4 DEF Owes
<1>7. OwedByOne'
  BY <1>0, <1>6 DEF OwedByOne, Owes
<1>8. CASE announced' = announced
  <2>1. AnnouncedOnce'
    BY <1>0, <1>1, <1>8 DEF AnnouncedOnce
  <2>2. OwedIsUntold'
    BY <1>0, <1>6, <1>8 DEF OwedIsUntold, Owes
  <2> QED
    BY <1>5, <1>7, <2>1, <2>2 DEF AInv
<1>9. CASE Owes(c) /\ announced' = [announced EXCEPT ![w] = Append(announced[w], n)]
  <2>1. announced[w] \in Seq(Nat) /\ announced' \in [Conv -> Seq(Nat)]
    BY <1>0, <1>2, <1>9 DEF TypeOK
  <2>2. \A i \in DOMAIN announced[w] : announced[w][i] # n
    BY <1>0, <1>9 DEF OwedIsUntold
  <2>3. announced'[w] = Append(announced[w], n)
    BY <1>0, <1>2, <1>9 DEF TypeOK
  <2>4. \A v \in Conv : v # w => announced'[v] = announced[v]
    BY <1>0, <1>9 DEF TypeOK
  <2>a. Extends(announced'[w], announced[w], n)
    BY <1>2, <2>1, <2>3, AppendOne
  <2>5. /\ DOMAIN announced'[w] = 1 .. (Len(announced[w]) + 1)
        /\ DOMAIN announced[w] = 1 .. Len(announced[w]) /\ Len(announced[w]) \in Nat
        /\ \A i \in 1 .. Len(announced[w]) : announced'[w][i] = announced[w][i]
        /\ announced'[w][Len(announced[w]) + 1] = n
    BY <2>a DEF Extends
  <2>b. \A i \in DOMAIN announced'[w] : i \in DOMAIN announced[w] \/ i = Len(announced[w]) + 1
    <3>1. \A k \in Nat : \A i \in 1 .. (k + 1) : i \in 1 .. k \/ i = k + 1
      OBVIOUS
    <3> QED
      BY <2>5, <3>1
  <2>6. ASSUME NEW v \in Conv
        PROVE  /\ \A i, j \in DOMAIN announced'[v] :
                    announced'[v][i] = announced'[v][j] => i = j
               /\ live[v] => \A i \in DOMAIN announced'[v] :
                               announced'[v][i] \in 1 .. nextSeq[v]
    <3>1. CASE v # w
      BY <1>0, <2>4, <3>1 DEF AnnouncedOnce
    <3>2. CASE v = w
      <4>1. /\ \A i, j \in DOMAIN announced[w] : announced[w][i] = announced[w][j] => i = j
            /\ live[w] => \A i \in DOMAIN announced[w] : announced[w][i] \in 1 .. nextSeq[w]
        BY <1>0, <1>2 DEF AnnouncedOnce
      <4>3. \A i, j \in DOMAIN announced'[w] : announced'[w][i] = announced'[w][j] => i = j
        BY <2>2, <2>5, <2>b, <4>1
      <4>4. live[w] => \A i \in DOMAIN announced'[w] : announced'[w][i] \in 1 .. nextSeq[w]
        BY <1>2, <2>5, <2>b, <4>1
      <4> QED
        BY <3>2, <4>3, <4>4
    <3> QED
      BY <3>1, <3>2
  <2>7. AnnouncedOnce'
    BY <1>1, <2>6 DEF AnnouncedOnce
  <2>8. ASSUME NEW d \in Conn, Owes(d)'
        PROVE  \A i \in DOMAIN announced'[reply'[d].row.conv] :
                 announced'[reply'[d].row.conv][i] # reply'[d].row.seq
    <3> DEFINE x == reply[d].row.conv
               y == reply[d].row.seq
    <3>1. d # c /\ Owes(d) /\ reply'[d] = reply[d] /\ x \in Conv
      BY <1>6, <2>8, AnswerInStream DEF Owes
    <3>2. \A i \in DOMAIN announced[x] : announced[x][i] # y
      BY <1>0, <3>1 DEF OwedIsUntold
    <3>3. x = w => y # n
      BY <1>0, <1>9, <3>1 DEF OwedByOne
    <3>4. \A i \in DOMAIN announced'[x] : announced'[x][i] # y
      <4>1. CASE x # w
        BY <2>4, <3>1, <3>2, <4>1
      <4>2. CASE x = w
        BY <2>5, <2>b, <3>2, <3>3, <4>2
      <4> QED
        BY <4>1, <4>2
    <3> QED
      BY <3>1, <3>4
  <2>9. OwedIsUntold'
    BY <2>8 DEF OwedIsUntold
  <2> QED
    BY <1>5, <1>7, <2>7, <2>9 DEF AInv
<1> QED
  BY <1>3, <1>8, <1>9

LEMMA DissolveKeeps ==
  ASSUME IInv, AInv, NEW w \in Conv, Dissolve(w)
  PROVE  AInv'
<1>0. TypeOK /\ AnswerIsStored /\ AnnouncedOnce /\ OwedIsUntold /\ OwedByOne
  BY DEF IInv, AInv
<1>1. /\ UNCHANGED <<announced, pc, req, reply>>
      /\ live' = [live EXCEPT ![w] = FALSE] /\ nextSeq' = [nextSeq EXCEPT ![w] = 0]
      /\ messages' = {m \in messages : m.conv # w}
  BY DEF Dissolve, local
<1>2. \A v \in Conv : live'[v] => v # w /\ live[v] /\ nextSeq'[v] = nextSeq[v]
  BY <1>0, <1>1 DEF TypeOK
<1>3. \A c \in Conn : pc[c] = "acked" => reply[c].row.conv \in Conv
  BY AnswerInStream
<1>4. AnswerIsStored'
  BY <1>0, <1>1, <1>2, <1>3 DEF AnswerIsStored
<1>5. AnnouncedOnce'
  BY <1>0, <1>1, <1>2 DEF AnnouncedOnce
<1>6. OwedIsUntold' /\ OwedByOne'
  BY <1>0, <1>1 DEF OwedIsUntold, OwedByOne, Owes
<1> QED
  BY <1>4, <1>5, <1>6 DEF AInv

-----------------------------------------------------------------------------
(* The theorems *)

\* The invariant of MessageStreamProofs and that of the answers together hold in
\* every reachable state.
THEOREM AnswerInvariance == Spec => [](IInv /\ AInv)
<1>1. Init => IInv /\ AInv
  <2>1. Init => AInv
    BY DEF Init, AInv, AnswerIsStored, AnnouncedOnce, OwedIsUntold, OwedByOne, Owes
  <2> QED
    BY <2>1, InitEstablishes
<1>2. IInv /\ [Next]_vars => IInv'
  BY TypeStep, WellFormedStep, LockStep, NumberStep, DraftStep, GaplessStep,
     OnceStep DEF IInv
<1>3. IInv /\ AInv /\ [Next]_vars => AInv'
  BY AnswerKinds, SilentKeeps, AgainKeeps, CommitKeeps, AcknowledgeKeeps, DissolveKeeps
<1> QED
  BY <1>1, <1>2, <1>3, PTL DEF Spec

\* A send is answered with a stored row of its own key, and every Message is fanned
\* out at most once and only when the Conversation holds it.
THEOREM AnswersAreTrue == Spec => []AnswersAreFaithful
<1>1. AInv => AnswersAreFaithful
  BY DEF AInv, AnswersAreFaithful
<1> QED
  BY <1>1, AnswerInvariance, PTL

-----------------------------------------------------------------------------
(* The refinement *)

\* The row at a Sequence Number is the only one there.
LEMMA EntryOfRow ==
  ASSUME IInv, NEW r \in messages
  PROVE  EntryAt(r.conv, r.seq) = [sender |-> r.sender, key |-> r.key]
<1>1. r.conv \in Conv
  BY StoredIsNumbered DEF Row
<1>2. \A n \in messages : n.conv = r.conv /\ n.seq = r.seq => n = r
  BY <1>1 DEF IInv, GaplessStream
<1> DEFINE m == CHOOSE n \in messages : n.conv = r.conv /\ n.seq = r.seq
<1>3. m \in messages /\ m.conv = r.conv /\ m.seq = r.seq
  OBVIOUS
<1>4. m = r
  BY <1>2, <1>3
<1> QED
  BY <1>4 DEF EntryAt

\* Every Sequence Number of the log is a stored row's.
LEMMA RowOfNumber ==
  ASSUME IInv, NEW v \in Conv, NEW i \in 1 .. nextSeq[v]
  PROVE  \E r \in messages : r.conv = v /\ r.seq = i
<1>1. {m.seq : m \in {n \in messages : n.conv = v}} = 1 .. nextSeq[v]
  BY DEF IInv, GaplessStream
<1> QED
  BY <1>1

\* The log is a list for every Conversation.
LEMMA LogIsSeq ==
  ASSUME IInv, NEW v \in Conv
  PROVE  /\ StoredLog[v] \in Seq(Log!Entry)
         /\ Len(StoredLog[v]) = nextSeq[v] /\ DOMAIN StoredLog[v] = 1 .. nextSeq[v]
         /\ \A i \in 1 .. nextSeq[v] : StoredLog[v][i] = EntryAt(v, i)
<1>1. nextSeq[v] \in Nat
  BY DEF IInv, TypeOK
<1>2. ASSUME NEW i \in 1 .. nextSeq[v]
      PROVE  EntryAt(v, i) \in Log!Entry
  <2>1. PICK r \in messages : r.conv = v /\ r.seq = i
    BY RowOfNumber
  <2>2. EntryAt(v, i) = [sender |-> r.sender, key |-> r.key] /\ r \in Row
    BY <2>1, EntryOfRow, StoredIsNumbered
  <2> QED
    BY <2>2 DEF Log!Entry, Row
<1>3. StoredLog[v] = [i \in 1 .. nextSeq[v] |-> EntryAt(v, i)]
  BY DEF StoredLog
<1> HIDE DEF StoredLog
<1>4. StoredLog[v] \in [1 .. nextSeq[v] -> Log!Entry]
  BY <1>2, <1>3
<1> QED
  BY <1>1, <1>3, <1>4

\* A commit appends an entry whose key its sender has not spent.
LEMMA CommitAppends ==
  ASSUME IInv, IInv', NEW c \in Conn, CommitSend(c)
  PROVE  Log!Next
<1> DEFINE w == req[c].conv
           e == [sender |-> UserOf[c], key |-> req[c].key]
<1>0. TypeOK /\ GaplessStream
  BY DEF IInv
<1>1. /\ pc[c] = "commit" /\ w \in Conv /\ live[w] /\ req[c].key \in Key
      /\ seq[c] = nextSeq[w] + 1 /\ nextSeq[w] \in Nat
      /\ Draft(c).conv = w /\ Draft(c).seq = seq[c]
      /\ Draft(c).sender = UserOf[c] /\ Draft(c).key = req[c].key
      /\ WithKey(UserOf[c], req[c].key) = {}
  BY DEF IInv, TypeOK, WellFormed, HasRead, Sending, NumberIsNext, DraftIsNew,
         CommitSend, Draft
<1>2. /\ messages' = messages \cup {Draft(c)} /\ live' = live
      /\ nextSeq' = [nextSeq EXCEPT ![w] = seq[c]]
  BY DEF CommitSend
<1>3. e \in Log!Entry
  BY <1>1, MessageStreamAssumption DEF Log!Entry
<1>4. ASSUME NEW v \in Conv, NEW i \in DOMAIN StoredLog[v]
      PROVE  StoredLog[v][i] # e
  <2>1. i \in 1 .. nextSeq[v] /\ StoredLog[v][i] = EntryAt(v, i)
    BY <1>4, LogIsSeq
  <2>2. PICK r \in messages : r.conv = v /\ r.seq = i
    BY <2>1, RowOfNumber
  <2>3. EntryAt(v, i) = [sender |-> r.sender, key |-> r.key]
    BY <2>2, EntryOfRow
  <2>4. ~ (r.sender = UserOf[c] /\ r.key = req[c].key)
    BY <1>1 DEF WithKey
  <2> QED
    BY <2>1, <2>3, <2>4
<1>5. ~ Log!Spent(e)
  BY <1>4 DEF Log!Spent
\* The entries there were, seen through the new tables.
<1>6. ASSUME NEW v \in Conv, NEW i \in 1 .. nextSeq[v]
      PROVE  EntryAt(v, i)' = EntryAt(v, i)
  <2>1. PICK r \in messages : r.conv = v /\ r.seq = i
    BY RowOfNumber
  <2>2. r \in messages' /\ EntryAt(v, i) = [sender |-> r.sender, key |-> r.key]
    BY <1>2, <2>1, EntryOfRow
  <2>3. \A n \in messages' : n.conv = v /\ n.seq = i => n = r
    BY <2>1, <2>2 DEF IInv, GaplessStream
  <2> DEFINE m == CHOOSE n \in messages' : n.conv = v /\ n.seq = i
  <2>4. m \in messages' /\ m.conv = v /\ m.seq = i
    BY <2>1, <2>2
  <2>5. m = r
    BY <2>3, <2>4
  <2> QED
    BY <2>2, <2>5 DEF EntryAt
<1>7. ASSUME NEW v \in Conv, NEW i \in Nat, v = w, i = seq[c]
      PROVE  EntryAt(v, i)' = e
  <2>1. Draft(c) \in messages' /\ Draft(c).conv = v /\ Draft(c).seq = i
    BY <1>1, <1>2, <1>7
  <2>2. \A n \in messages' : n.conv = v /\ n.seq = i => n = Draft(c)
    BY <2>1 DEF IInv, GaplessStream
  <2> DEFINE m == CHOOSE n \in messages' : n.conv = v /\ n.seq = i
  <2>3. m \in messages' /\ m.conv = v /\ m.seq = i
    BY <2>1
  <2>4. m = Draft(c)
    BY <2>2, <2>3
  <2> QED
    BY <1>1, <2>4 DEF EntryAt
<1>8. StoredLog' = [StoredLog EXCEPT ![w] = Append(StoredLog[w], e)]
  <2>1. StoredLog' = [v \in Conv |-> [i \in 1 .. nextSeq'[v] |-> EntryAt(v, i)']]
    BY DEF StoredLog
  <2>2. ASSUME NEW v \in Conv, v # w
        PROVE  [i \in 1 .. nextSeq'[v] |-> EntryAt(v, i)'] = StoredLog[v]
    <3>1. nextSeq'[v] = nextSeq[v]
      BY <1>0, <1>2, <2>2 DEF TypeOK
    <3>2. StoredLog[v] = [i \in 1 .. nextSeq[v] |-> EntryAt(v, i)]
      BY DEF StoredLog
    <3> QED
      BY <1>6, <3>1, <3>2
  <2>3. ASSUME NEW v \in Conv, v = w
        PROVE  [i \in 1 .. nextSeq'[v] |-> EntryAt(v, i)'] = Append(StoredLog[v], e)
    <3>1. nextSeq'[v] = nextSeq[v] + 1 /\ seq[c] = nextSeq[v] + 1 /\ nextSeq[v] \in Nat
      BY <1>0, <1>1, <1>2, <2>3 DEF TypeOK
    <3> DEFINE s == StoredLog[v]
               t == [i \in 1 .. nextSeq'[v] |-> EntryAt(v, i)']
    <3>2. /\ s \in Seq(Log!Entry) /\ Len(s) = nextSeq[v]
          /\ \A i \in 1 .. nextSeq[v] : s[i] = EntryAt(v, i)
      BY LogIsSeq
    <3>3. /\ DOMAIN t = 1 .. (Len(s) + 1)
          /\ \A i \in 1 .. Len(s) : t[i] = s[i]
      BY <1>6, <3>1, <3>2
    <3>4. t[Len(s) + 1] = e
      <4>1. PICK k \in Nat : k = nextSeq[v] + 1
        BY <3>1
      <4>2. EntryAt(v, k)' = e
        BY <1>7, <2>3, <3>1, <4>1
      <4>3. t[k] = EntryAt(v, k)'
        BY <3>1, <4>1
      <4> QED
        BY <3>2, <4>1, <4>2, <4>3
    <3>5. t = [i \in DOMAIN t |-> t[i]]
      OBVIOUS
    <3> HIDE DEF s, t, e
    <3>6. Extends(Append(s, e), s, e)
      BY <1>3, <3>2, AppendOne
    <3>7. \A i \in 1 .. (Len(s) + 1) : t[i] = Append(s, e)[i]
      BY <3>3, <3>4, <3>6 DEF Extends
    <3>8. t = Append(s, e)
      BY <3>3, <3>5, <3>6, <3>7 DEF Extends
    <3> QED
      BY <3>8 DEF s, t
  <2>4. StoredLog = [v \in Conv |-> StoredLog[v]]
    BY DEF StoredLog
  <2> HIDE DEF StoredLog, e
  <2>5. ASSUME NEW v \in Conv
        PROVE  [i \in 1 .. nextSeq'[v] |-> EntryAt(v, i)'] =
                 IF v = w THEN Append(StoredLog[w], e) ELSE StoredLog[v]
    BY <2>2, <2>3
  <2>6. StoredLog' = [v \in Conv |-> IF v = w THEN Append(StoredLog[w], e)
                                     ELSE StoredLog[v]]
    BY <2>1, <2>5
  <2> QED
    BY <1>1, <2>4, <2>6
<1>9. Log!Write(w, e)
  BY <1>1, <1>2, <1>5, <1>8 DEF Log!Write
<1> QED
  BY <1>1, <1>3, <1>9 DEF Log!Next

\* A dissolution empties one log and closes it; the others are as they were.
LEMMA DissolveCloses ==
  ASSUME IInv, NEW w \in Conv, Dissolve(w)
  PROVE  Log!Next
<1>0. TypeOK
  BY DEF IInv
<1>1. /\ live[w] /\ live' = [live EXCEPT ![w] = FALSE]
      /\ nextSeq' = [nextSeq EXCEPT ![w] = 0]
      /\ messages' = {m \in messages : m.conv # w}
  BY DEF Dissolve
<1>2. ASSUME NEW v \in Conv, v # w, NEW i \in 1 .. nextSeq[v]
      PROVE  EntryAt(v, i)' = EntryAt(v, i)
  <2>1. PICK r \in messages : r.conv = v /\ r.seq = i
    BY RowOfNumber
  <2>2. r \in messages' /\ EntryAt(v, i) = [sender |-> r.sender, key |-> r.key]
    BY <1>1, <1>2, <2>1, EntryOfRow
  <2>3. \A n \in messages' : n.conv = v /\ n.seq = i => n = r
    BY <1>1, <2>1 DEF IInv, GaplessStream
  <2> DEFINE m == CHOOSE n \in messages' : n.conv = v /\ n.seq = i
  <2>4. m \in messages' /\ m.conv = v /\ m.seq = i
    BY <2>1, <2>2
  <2>5. m = r
    BY <2>3, <2>4
  <2> QED
    BY <2>2, <2>5 DEF EntryAt
<1>3. StoredLog' = [StoredLog EXCEPT ![w] = <<>>]
  <2>1. StoredLog' = [v \in Conv |-> [i \in 1 .. nextSeq'[v] |-> EntryAt(v, i)']]
    BY DEF StoredLog
  <2>2. ASSUME NEW v \in Conv, v # w
        PROVE  [i \in 1 .. nextSeq'[v] |-> EntryAt(v, i)'] = StoredLog[v]
    <3>1. nextSeq'[v] = nextSeq[v]
      BY <1>0, <1>1, <2>2 DEF TypeOK
    <3>2. StoredLog[v] = [i \in 1 .. nextSeq[v] |-> EntryAt(v, i)]
      BY DEF StoredLog
    <3> QED
      BY <1>2, <2>2, <3>1, <3>2
  <2>3. [i \in 1 .. nextSeq'[w] |-> EntryAt(w, i)'] = <<>>
    <3>1. nextSeq'[w] = 0
      BY <1>0, <1>1 DEF TypeOK
    <3> QED
      BY <3>1
  <2>4. StoredLog = [v \in Conv |-> StoredLog[v]]
    BY DEF StoredLog
  <2> HIDE DEF StoredLog
  <2> QED
    BY <2>1, <2>2, <2>3, <2>4
<1>4. Log!Close(w)
  BY <1>1, <1>3 DEF Log!Close
<1> QED
  BY <1>4 DEF Log!Next

\* Every other step leaves the log as it is.
LEMMA StepRefines ==
  ASSUME IInv, IInv', [Next]_vars
  PROVE  [Log!Next]_(Log!vars)
<1>1. ASSUME NEW c \in Conn, AnsweredAgain(c) \/ Acknowledge(c)
      PROVE  UNCHANGED <<live, nextSeq, messages>>
  BY <1>1 DEF AnsweredAgain, Acknowledge, table
<1>2. Silent => UNCHANGED <<live, nextSeq, messages>>
  BY DEF Silent
<1>3. UNCHANGED <<live, nextSeq, messages>> => UNCHANGED Log!vars
  BY DEF Log!vars, StoredLog, EntryAt
<1> QED
  BY <1>1, <1>2, <1>3, CommitAppends, DissolveCloses, AnswerKinds

\* The transactions implement the log: every interleaving of them is a history of
\* single appends and closures in which a sender spends a key once.
THEOREM LogRefinement == Spec => ImplementsLog
<1>1. Init => Log!Init
  <2>1. ASSUME Init PROVE StoredLog = [v \in Conv |-> <<>>]
    <3>1. ASSUME NEW v \in Conv
          PROVE  [i \in 1 .. nextSeq[v] |-> EntryAt(v, i)] = <<>>
      <4>1. nextSeq[v] = 0
        BY <2>1 DEF Init
      <4> QED
        BY <4>1
    <3> QED
      BY <3>1 DEF StoredLog
  <2> QED
    BY <2>1 DEF Init, Log!Init
<1>2. IInv /\ [Next]_vars => IInv'
  BY TypeStep, WellFormedStep, LockStep, NumberStep, DraftStep, GaplessStep,
     OnceStep DEF IInv
<1>3. IInv /\ [Next]_vars => [Log!Next]_(Log!vars)
  BY <1>2, StepRefines
<1> QED
  BY <1>1, <1>3, Invariance, PTL DEF Spec, ImplementsLog, Log!Spec
=============================================================================
