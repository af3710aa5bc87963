------------------------ MODULE GroupMembershipProofs ------------------------
(***************************************************************************)
(* TLAPS proofs about GroupMembership: a live group has exactly one owner,  *)
(* a dissolved one has no members, and every interleaving of the handlers   *)
(* implements GroupRoles, for every set of Users, tasks and requests.       *)
(***************************************************************************)
EXTENDS GroupMembership, FiniteSetTheorems, TLAPS

-----------------------------------------------------------------------------
(* The inductive invariant *)

\* The requests a handler goes on with.
Accepted == {r \in Request : r.op # "create" /\ Valid(r)}

\* A running handler has an accepted request, and is where that request leads.
Serving ==
  \A t \in Task : pc[t] # "idle" =>
    /\ req[t] \in Accepted
    /\ pc[t] \in {"demote", "promote", "handover"} => req[t].op = "transfer"
    /\ pc[t] = "target" => req[t].op \in {"remove", "rerank", "transfer"}

\* No member row is locked twice, nor the conversations row.
LocksExclusive ==
  \A s, q \in Task : s # q => /\ held[s] \cap held[q] = {}
                              /\ ~ (HoldsGroup(s) /\ HoldsGroup(q))

\* A transfer past DEMOTE_OWNER has the owner's row, past PROMOTE_OWNER the
\* target's too, and both rows still say what it found there.
TransferHolds ==
  \A t \in Task :
    /\ pc[t] \in {"promote", "handover"} =>
         req[t].by \in held[t] /\ role[req[t].by] = "owner"
    /\ pc[t] = "handover" =>
         req[t].who \in held[t] /\ role[req[t].who] \in {"admin", "member"}

\* A dissolution has locked, or will come to, every membership there is.
CascadeCovers ==
  \A t \in Task : pc[t] = "cascade" =>
    /\ group = "live"
    /\ \A u \in Participants :
         u \in held[t] \/ \E i \in DOMAIN todo[t] : todo[t][i] = u

IInv == /\ TypeOK
        /\ Serving
        /\ LocksExclusive
        /\ TransferHolds
        /\ CascadeCovers
        /\ ExactlyOneOwner
        /\ NoOrphanMembership

-----------------------------------------------------------------------------
(* Types *)

\* The initial state satisfies every part of the invariant.
LEMMA InitEstablishes == Init => IInv
  BY DEF Init, IInv, TypeOK, Serving, LocksExclusive, TransferHolds, CascadeCovers,
         ExactlyOneOwner, NoOrphanMembership, HoldsGroup, Phase, InTransaction, Rank

\* A group has finitely many Participants.
LEMMA ParticipantsFinite ==
  /\ IsFiniteSet(Participants)
  /\ Cardinality(Participants) \in Nat
  BY GroupMembershipAssumption, FS_Subset, FS_CardinalityType DEF Participants

\* The order in which a statement comes across rows is a sequence of Users.
LEMMA ScanOrderType ==
  ASSUME NEW S \in SUBSET User, NEW s \in ScanOrders(S)
  PROVE  s \in Seq(User) /\ \A u \in S : \E i \in DOMAIN s : s[i] = u
<1>1. IsFiniteSet(S)
  BY GroupMembershipAssumption, FS_Subset
<1>2. Cardinality(S) \in Nat
  BY <1>1, FS_CardinalityType
<1> QED
  BY <1>2 DEF ScanOrders

\* The handlers' part of the type invariant.
LocalsOK == /\ pc \in [Task -> Phase]
            /\ req \in [Task -> Request \cup {None}]
            /\ mine \in [Task -> Rank \cup {"none"}]
            /\ count \in [Task -> Nat]
            /\ todo \in [Task -> Seq(User)]

\* The locks' part.
HeldOK == /\ held \in [Task -> SUBSET User]
          /\ \A t \in Task : held[t] # {} => pc[t] \in InTransaction

\* The tables' part.
TableOK == /\ group \in {"none", "live", "gone"}
           /\ role \in [User -> Rank \cup {"none"}]

LEMMA TypeParts == /\ TypeOK => TableOK /\ LocalsOK /\ HeldOK
                   /\ TableOK' /\ LocalsOK' /\ HeldOK' => TypeOK'
  BY DEF TypeOK, TableOK, LocalsOK, HeldOK

\* A returned handler has typed locals and no lock.
LEMMA ReturnTypes ==
  ASSUME TypeOK, NEW t \in Task, Return(t)
  PROVE  LocalsOK' /\ HeldOK'
  BY DEF TypeOK, LocalsOK, HeldOK, Return, Phase

\* An advancing handler of which only pc, mine, count and todo change.
LEMMA AdvanceTypes ==
  ASSUME TypeOK, NEW t \in Task, NEW l \in Phase,
         held[t] = {} \/ l \in InTransaction,
         Goto(t, l), UNCHANGED <<group, role, held>>,
         req' \in [Task -> Request \cup {None}],
         mine' \in [Task -> Rank \cup {"none"}],
         count' \in [Task -> Nat],
         todo' \in [Task -> Seq(User)]
  PROVE  TypeOK'
  BY DEF TypeOK, Goto

\* Every step preserves the types.
LEMMA TypeStep ==
  ASSUME IInv, [Next]_vars
  PROVE  TypeOK'
<1>0. TypeOK /\ TableOK /\ LocalsOK /\ HeldOK /\ Serving
  BY TypeParts DEF IInv
<1>r. ASSUME NEW t \in Task, Refuse(t)
      PROVE  TypeOK'
  <2>1. TableOK'
    BY <1>0, <1>r DEF TableOK, Refuse, table
  <2> QED
    BY <1>0, <1>r, <2>1, ReturnTypes, TypeParts DEF Refuse
<1>w. ASSUME NEW t \in Task, Return(t), TableOK'
      PROVE  TypeOK'
  BY <1>0, <1>w, ReturnTypes, TypeParts
<1>1. ASSUME NEW t \in Task, NEW r \in Requests[t], CreateGroup(t, r)
      PROVE  TypeOK'
  BY <1>0, <1>1 DEF TypeOK, CreateGroup, Rank, local
<1>2. ASSUME NEW t \in Task, NEW r \in Requests[t], Begin(t, r)
      PROVE  TypeOK'
  <2>1. r \in Request
    BY GroupMembershipAssumption
  <2>2. held[t] = {}
    BY <1>0, <1>2 DEF HeldOK, Begin, InTransaction
  <2>3. "authorize" \in Phase
    BY DEF Phase
  <2>4. req' \in [Task -> Request \cup {None}]
    BY <1>0, <1>2, <2>1 DEF LocalsOK, Begin
  <2> QED
    BY <1>0, <1>2, <2>2, <2>3, <2>4, AdvanceTypes DEF LocalsOK, Begin, table
<1>3. ASSUME NEW t \in Task, Authorize(t)
      PROVE  TypeOK'
  <2>1. CASE Refuse(t)
    BY <1>r, <2>1
  <2>2. CASE ~ Refuse(t)
    <3>1. req[t] \in Request /\ req[t].op # "create"
      BY <1>0, <1>3 DEF Serving, Authorize, Accepted
    <3>2. Reads(req[t].op) \in Phase
      BY <3>1 DEF Reads, Request, Op, Phase
    <3>3. held[t] = {}
      BY <1>0, <1>3 DEF HeldOK, Authorize, InTransaction
    <3>4. mine' \in [Task -> Rank \cup {"none"}]
      BY <1>0, <1>3, <2>2, <3>1 DEF TableOK, LocalsOK, Authorize, Request
    <3>5. todo' \in [Task -> Seq(User)]
      BY <1>0, <1>3, <2>2, <3>1 DEF LocalsOK, Authorize, Request
    <3> QED
      BY <1>0, <1>3, <2>2, <3>2, <3>3, <3>4, <3>5, AdvanceTypes
      DEF LocalsOK, Authorize, table
  <2> QED
    BY <2>1, <2>2
<1>4. ASSUME NEW t \in Task, CountMembers(t)
      PROVE  TypeOK'
  <2>1. CASE Refuse(t)
    BY <1>r, <2>1
  <2>2. CASE ~ Refuse(t)
    <3>1. held[t] = {}
      BY <1>0, <1>4 DEF HeldOK, CountMembers, InTransaction
    <3>2. count' \in [Task -> Nat]
      BY <1>0, <1>4, <2>2, ParticipantsFinite DEF LocalsOK, CountMembers
    <3>3. PICK l \in {"check", "lock", "delete"} : Goto(t, l)
      BY <1>4, <2>2 DEF CountMembers
    <3>4. l \in Phase
      BY DEF Phase
    <3> QED
      BY <1>0, <1>4, <2>2, <3>1, <3>2, <3>3, <3>4, AdvanceTypes
      DEF LocalsOK, CountMembers, table
  <2> QED
    BY <2>1, <2>2
<1>5. ASSUME NEW t \in Task, CheckInvitee(t)
      PROVE  TypeOK'
  <2>1. CASE Refuse(t)
    BY <1>r, <2>1
  <2>2. CASE /\ todo[t] # <<>>
             /\ todo' = [todo EXCEPT ![t] = Tail(@)]
             /\ UNCHANGED <<table, pc, req, mine, count, held>>
    BY <1>0, <2>2 DEF TypeOK, table
  <2>3. CASE /\ Goto(t, "insert")
             /\ todo' = [todo EXCEPT ![t] = req[t].names]
             /\ UNCHANGED <<table, req, mine, count, held>>
    <3>1. req[t].names \in Seq(User)
      BY <1>0, <1>5 DEF Serving, CheckInvitee, Request, Accepted
    <3>2. held[t] = {} /\ "insert" \in Phase
      BY <1>0, <1>5 DEF HeldOK, CheckInvitee, InTransaction, Phase
    <3>3. todo' \in [Task -> Seq(User)]
      BY <1>0, <2>3, <3>1 DEF LocalsOK
    <3> QED
      BY <1>0, <2>3, <3>2, <3>3, AdvanceTypes DEF LocalsOK, table
  <2> QED
    BY <1>5, <2>1, <2>2, <2>3 DEF CheckInvitee
<1>6. ASSUME NEW t \in Task, InsertMember(t)
      PROVE  TypeOK'
  <2>1. CASE Refuse(t)
    BY <1>r, <2>1
  <2>2. CASE ~ Refuse(t)
    <3>1. todo[t] # <<>> /\ todo' = [todo EXCEPT ![t] = Tail(@)]
      BY <1>6, <2>2 DEF InsertMember
    <3>2. todo' \in [Task -> Seq(User)]
      BY <1>0, <3>1 DEF LocalsOK
    <3> QED
      BY <1>0, <1>6, <2>2, <3>2 DEF TypeOK, InsertMember, Rank
  <2> QED
    BY <2>1, <2>2
<1>7. ASSUME NEW t \in Task, ReadTarget(t)
      PROVE  TypeOK'
  <2>1. CASE Refuse(t)
    BY <1>r, <2>1
  <2>2. CASE ~ Refuse(t)
    <3>1. req[t].op \in {"remove", "rerank", "transfer"} /\ held[t] = {}
      BY <1>0, <1>7 DEF Serving, HeldOK, ReadTarget, InTransaction
    <3>2. PICK l \in {"delete", "rerank", "demote"} : Goto(t, l)
      BY <1>7, <2>2, <3>1 DEF ReadTarget
    <3>3. l \in Phase
      BY DEF Phase
    <3> QED
      BY <1>0, <1>7, <2>2, <3>1, <3>2, <3>3, AdvanceTypes
      DEF LocalsOK, ReadTarget, table, local
  <2> QED
    BY <2>1, <2>2
<1>8. ASSUME NEW t \in Task, DeleteMember(t)
      PROVE  TypeOK'
  BY <1>0, <1>8, <1>w DEF TableOK, DeleteMember
<1>9. ASSUME NEW t \in Task, SetMemberRole(t)
      PROVE  TypeOK'
  <2>1. req[t].rank \in Rank
    BY <1>0, <1>9 DEF Serving, SetMemberRole, Request, Rank, Accepted
  <2> QED
    BY <1>0, <1>9, <1>w, <2>1 DEF TableOK, SetMemberRole
<1>10. ASSUME NEW t \in Task, DemoteOwner(t)
       PROVE  TypeOK'
  <2>1. CASE Refuse(t)
    BY <1>r, <2>1
  <2>2. CASE ~ Refuse(t)
    <3>1. req[t].by \in User
      BY <1>0, <1>10 DEF Serving, DemoteOwner, Request, Accepted
    <3>2. /\ held' = [held EXCEPT ![t] = @ \cup {req[t].by}]
          /\ pc' = [pc EXCEPT ![t] = "promote"]
          /\ UNCHANGED <<group, role, req, mine, count, todo>>
      BY <1>10, <2>2 DEF DemoteOwner, Goto, table, local
    <3>3. HeldOK'
      BY <1>0, <3>1, <3>2 DEF LocalsOK, HeldOK, InTransaction
    <3> QED
      BY <1>0, <3>2, <3>3, TypeParts DEF TableOK, LocalsOK, Phase, InTransaction
  <2> QED
    BY <2>1, <2>2
<1>11. ASSUME NEW t \in Task, PromoteOwner(t)
       PROVE  TypeOK'
  <2>1. CASE Refuse(t)
    BY <1>r, <2>1
  <2>2. CASE ~ Refuse(t)
    <3>1. req[t].who \in User
      BY <1>0, <1>11 DEF Serving, PromoteOwner, Request, Accepted
    <3>2. /\ held' = [held EXCEPT ![t] = @ \cup {req[t].who}]
          /\ pc' = [pc EXCEPT ![t] = "handover"]
          /\ UNCHANGED <<group, role, req, mine, count, todo>>
      BY <1>11, <2>2 DEF PromoteOwner, Goto, table, local
    <3>3. HeldOK'
      BY <1>0, <3>1, <3>2 DEF LocalsOK, HeldOK, InTransaction
    <3> QED
      BY <1>0, <3>2, <3>3, TypeParts DEF TableOK, LocalsOK, Phase, InTransaction
  <2> QED
    BY <2>1, <2>2
<1>12. ASSUME NEW t \in Task, CommitTransfer(t)
       PROVE  TypeOK'
  BY <1>0, <1>12, <1>w DEF TableOK, CommitTransfer, Rank
<1>13. ASSUME NEW t \in Task, LockGroup(t)
       PROVE  TypeOK'
  <2>1. CASE Refuse(t)
    BY <1>r, <2>1
  <2>2. CASE ~ Refuse(t)
    <3>1. todo' \in [Task -> Seq(User)]
      <4>1. PICK s \in ScanOrders(Participants) : todo' = [todo EXCEPT ![t] = s]
        BY <1>13, <2>2 DEF LockGroup
      <4>2. s \in Seq(User)
        BY ScanOrderType DEF Participants
      <4> QED
        BY <1>0, <4>1, <4>2 DEF LocalsOK
    <3>2. "cascade" \in Phase /\ "cascade" \in InTransaction
      BY DEF Phase, InTransaction
    <3> QED
      BY <1>0, <1>13, <2>2, <3>1, <3>2, AdvanceTypes DEF LocalsOK, LockGroup, table
  <2> QED
    BY <2>1, <2>2
<1>14. ASSUME NEW t \in Task, AllocateSeq(t)
       PROVE  TypeOK'
  <2>1. CASE Refuse(t)
    BY <1>r, <2>1
  <2>2. CASE ~ Refuse(t)
    <3>1. "scan" \in Phase /\ "scan" \in InTransaction
      BY DEF Phase, InTransaction
    <3> QED
      BY <1>0, <1>14, <2>2, <3>1, AdvanceTypes DEF LocalsOK, AllocateSeq, table, local
  <2> QED
    BY <2>1, <2>2
<1>15. ASSUME NEW t \in Task, ScanMembers(t)
       PROVE  TypeOK'
  <2>1. todo' \in [Task -> Seq(User)]
    BY <1>0, <1>15, ScanOrderType DEF LocalsOK, ScanMembers, Participants
  <2>2. "bump" \in Phase /\ "bump" \in InTransaction
    BY DEF Phase, InTransaction
  <2> QED
    BY <1>0, <1>15, <2>1, <2>2, AdvanceTypes DEF LocalsOK, ScanMembers, table
<1>16. ASSUME NEW t \in Task, LockNextRow(t)
       PROVE  TypeOK'
  <2>1. Head(todo[t]) \in User /\ Tail(todo[t]) \in Seq(User)
    BY <1>0, <1>16 DEF LocalsOK, LockNextRow
  <2> QED
    BY <1>0, <1>16, <2>1 DEF TypeOK, LockNextRow, table, InTransaction
<1>17. ASSUME NEW t \in Task, CommitDissolve(t)
       PROVE  TypeOK'
  BY <1>0, <1>17, <1>w DEF TableOK, CommitDissolve
<1>18. ASSUME NEW t \in Task, CommitSend(t) \/ DetectDeadlock(t) \/ Fail(t)
       PROVE  TypeOK'
  BY <1>18, <1>r DEF CommitSend, DetectDeadlock, Fail
<1>19. CASE UNCHANGED vars
  BY <1>0, <1>19 DEF TypeOK, vars, table, local
<1> QED
  BY <1>1, <1>2, <1>3, <1>4, <1>5, <1>6, <1>7, <1>8, <1>9, <1>10, <1>11, <1>12,
     <1>13, <1>14, <1>15, <1>16, <1>17, <1>18, <1>19 DEF Next, Step

-----------------------------------------------------------------------------
(* What handlers keep about their requests *)

\* A running handler keeps the request it validated.
LEMMA ServingStep ==
  ASSUME IInv, [Next]_vars
  PROVE  Serving'
<1>0. TypeOK /\ Serving
  BY DEF IInv
<1>a. ASSUME NEW t \in Task, Return(t)
      PROVE  Serving'
  BY <1>0, <1>a DEF TypeOK, Serving, Return
<1>b. ASSUME NEW t \in Task, pc[t] # "idle", req' = req,
             \A q \in Task \ {t} : pc'[q] = pc[q],
             pc'[t] \in {"demote", "promote", "handover"} => req[t].op = "transfer",
             pc'[t] = "target" => req[t].op \in {"remove", "rerank", "transfer"}
      PROVE  Serving'
  BY <1>0, <1>b DEF Serving
<1>1. ASSUME NEW t \in Task, NEW r \in Requests[t], CreateGroup(t, r)
      PROVE  Serving'
  BY <1>0, <1>1 DEF Serving, CreateGroup, local
<1>2. ASSUME NEW t \in Task, NEW r \in Requests[t], Begin(t, r)
      PROVE  Serving'
  <2>1. r \in Accepted
    BY <1>2, GroupMembershipAssumption DEF Begin, Accepted
  <2> QED
    BY <1>0, <1>2, <2>1 DEF TypeOK, Serving, Begin, Goto
<1>3. ASSUME NEW t \in Task, Authorize(t)
      PROVE  Serving'
  <2>1. CASE Refuse(t)
    BY <1>a, <2>1 DEF Refuse
  <2>2. CASE ~ Refuse(t)
    <3>1. req[t].op \in Op \ {"create"}
      BY <1>0, <1>3 DEF Serving, Authorize, Request, Accepted
    <3>2. /\ Reads(req[t].op) \notin {"demote", "promote", "handover"}
          /\ Reads(req[t].op) = "target" => req[t].op \in {"remove", "rerank", "transfer"}
      BY <3>1 DEF Reads, Op
    <3> QED
      BY <1>0, <1>3, <2>2, <3>2, <1>b DEF TypeOK, Authorize, Goto
  <2> QED
    BY <2>1, <2>2
<1>4. ASSUME NEW t \in Task, CountMembers(t)
      PROVE  Serving'
  BY <1>0, <1>4, <1>a, <1>b DEF TypeOK, CountMembers, Refuse, Goto
<1>5. ASSUME NEW t \in Task, CheckInvitee(t) \/ InsertMember(t)
      PROVE  Serving'
  BY <1>0, <1>5, <1>a, <1>b DEF TypeOK, CheckInvitee, InsertMember, Refuse, Goto
<1>6. ASSUME NEW t \in Task, ReadTarget(t)
      PROVE  Serving'
  <2>1. CASE Refuse(t)
    BY <1>a, <2>1 DEF Refuse
  <2>2. CASE ~ Refuse(t)
    <3>1. req[t].op \in {"remove", "rerank", "transfer"}
      BY <1>0, <1>6 DEF Serving, ReadTarget
    <3> QED
      BY <1>0, <1>6, <2>2, <3>1, <1>b DEF TypeOK, ReadTarget, Goto, local
  <2> QED
    BY <2>1, <2>2
<1>7. ASSUME NEW t \in Task, \/ DeleteMember(t) \/ SetMemberRole(t)
                             \/ CommitTransfer(t) \/ CommitDissolve(t)
                             \/ CommitSend(t) \/ DetectDeadlock(t) \/ Fail(t)
      PROVE  Serving'
  BY <1>7, <1>a DEF DeleteMember, SetMemberRole, CommitTransfer, CommitDissolve,
                    CommitSend, DetectDeadlock, Fail, Refuse
<1>8. ASSUME NEW t \in Task, DemoteOwner(t) \/ PromoteOwner(t)
      PROVE  Serving'
  <2>1. req[t].op = "transfer" /\ pc[t] # "idle"
    BY <1>0, <1>8 DEF Serving, DemoteOwner, PromoteOwner
  <2> QED
    BY <1>0, <1>8, <2>1, <1>a, <1>b
    DEF TypeOK, DemoteOwner, PromoteOwner, Refuse, Goto, local
<1>9. ASSUME NEW t \in Task, \/ LockGroup(t) \/ AllocateSeq(t) \/ ScanMembers(t)
                             \/ LockNextRow(t)
      PROVE  Serving'
  BY <1>0, <1>9, <1>a, <1>b
  DEF TypeOK, LockGroup, AllocateSeq, ScanMembers, LockNextRow, Refuse, Goto, local
<1>10. CASE UNCHANGED vars
  BY <1>0, <1>10 DEF Serving, vars, local
<1> QED
  BY <1>1, <1>2, <1>3, <1>4, <1>5, <1>6, <1>7, <1>8, <1>9, <1>10 DEF Next, Step

-----------------------------------------------------------------------------
(* Locks, Roles and memberships *)

\* What the proof carries besides types and requests.
Guarded == /\ LocksExclusive
           /\ TransferHolds
           /\ CascadeCovers
           /\ ExactlyOneOwner
           /\ NoOrphanMembership

\* Every other task keeps its place, its request, its rows and its locks.
OthersStay(t) ==
  \A q \in Task \ {t} : /\ pc'[q] = pc[q] /\ req'[q] = req[q]
                        /\ todo'[q] = todo[q] /\ held'[q] = held[q]

\* t takes no lock and enters no statement that relies on one.
Quiet(t) == /\ UNCHANGED <<group, role>>
            /\ OthersStay(t)
            /\ held'[t] \subseteq held[t]
            /\ pc'[t] \notin {"promote", "handover", "cascade"}
            /\ HoldsGroup(t)' => HoldsGroup(t)

LEMMA QuietKeeps ==
  ASSUME IInv, NEW t \in Task, Quiet(t)
  PROVE  Guarded'
<1>0. /\ LocksExclusive /\ TransferHolds /\ CascadeCovers
      /\ ExactlyOneOwner /\ NoOrphanMembership
  BY DEF IInv
<1>1. LocksExclusive'
  BY <1>0 DEF LocksExclusive, HoldsGroup, Quiet, OthersStay
<1>2. TransferHolds'
  BY <1>0 DEF TransferHolds, Quiet, OthersStay
<1>3. CascadeCovers'
  BY <1>0 DEF CascadeCovers, Participants, Quiet, OthersStay
<1>4. ExactlyOneOwner' /\ NoOrphanMembership'
  BY <1>0 DEF ExactlyOneOwner, NoOrphanMembership, Quiet
<1> QED
  BY <1>1, <1>2, <1>3, <1>4 DEF Guarded

LEMMA ReturnStays ==
  ASSUME TypeOK, NEW t \in Task, Return(t)
  PROVE  /\ OthersStay(t)
         /\ pc'[t] = "idle" /\ held'[t] = {}
  BY DEF TypeOK, Return, OthersStay

LEMMA RefuseQuiet ==
  ASSUME TypeOK, NEW t \in Task, Refuse(t)
  PROVE  Quiet(t)
  BY ReturnStays DEF Refuse, Quiet, table, HoldsGroup

\* The steps that only read.
LEMMA ReadersQuiet ==
  ASSUME IInv, NEW t \in Task,
         \/ \E r \in Requests[t] : Begin(t, r)
         \/ Authorize(t) \/ CountMembers(t) \/ CheckInvitee(t) \/ ReadTarget(t)
         \/ ScanMembers(t) \/ CommitSend(t) \/ DetectDeadlock(t) \/ Fail(t)
  PROVE  Quiet(t)
<1>0. TypeOK /\ Serving
  BY DEF IInv
<1>1. CASE Refuse(t)
  BY <1>0, <1>1, RefuseQuiet
<1>2. CASE ~ Refuse(t)
  <2>1. ASSUME NEW l \in Phase \ {"scan", "bump", "promote", "handover", "cascade"},
               Goto(t, l), UNCHANGED <<table, req, held>>,
               \A q \in Task \ {t} : todo'[q] = todo[q]
        PROVE  Quiet(t)
    BY <1>0, <2>1 DEF TypeOK, Quiet, OthersStay, Goto, HoldsGroup, table
  <2>2. ASSUME NEW r \in Requests[t], Begin(t, r)
        PROVE  Quiet(t)
    BY <1>0, <2>2 DEF TypeOK, Begin, Quiet, OthersStay, Goto, HoldsGroup, table
  <2>3. CASE Authorize(t)
    <3>1. req[t].op \in Op \ {"create"}
      BY <1>0, <2>3 DEF Serving, Authorize, Request, Accepted
    <3>2. Reads(req[t].op) \in Phase \ {"scan", "bump", "promote", "handover", "cascade"}
      BY <3>1 DEF Reads, Op, Phase
    <3> QED
      BY <1>0, <1>2, <2>1, <2>3, <3>2 DEF TypeOK, Authorize
  <2>4. CASE CountMembers(t)
    BY <1>0, <1>2, <2>1, <2>4 DEF CountMembers, Phase
  <2>5. CASE CheckInvitee(t)
    BY <1>0, <1>2, <2>5
    DEF TypeOK, CheckInvitee, Quiet, OthersStay, Goto, HoldsGroup, table
  <2>6. CASE ReadTarget(t)
    <3>1. req[t].op \in {"remove", "rerank", "transfer"}
      BY <1>0, <2>6 DEF Serving, ReadTarget
    <3> QED
      BY <1>0, <1>2, <2>1, <2>6, <3>1 DEF ReadTarget, Phase, local
  <2>7. CASE ScanMembers(t)
    BY <1>0, <2>7 DEF TypeOK, ScanMembers, Quiet, OthersStay, Goto, HoldsGroup, table
  <2> QED
    BY <1>2, <2>2, <2>3, <2>4, <2>5, <2>6, <2>7 DEF CommitSend, DetectDeadlock, Fail
<1> QED
  BY <1>1, <1>2

\* Rows another task has locked are not touched by a statement that is granted.
LEMMA GrantedRows ==
  ASSUME NEW t \in Task, Granted(t), NEW q \in Task \ {t}, NEW u \in WantedRows(t)
  PROVE  u \notin held[q]
  BY DEF Granted, Waits

\* The steps that change one Role and return: a held row is never the one.
LEMMA RowWriteKeeps ==
  ASSUME IInv, TypeOK', NEW t \in Task, NEW u \in User, NEW r \in {"none", "admin", "member"},
         role[u] \in {"admin", "member"},
         role' = [role EXCEPT ![u] = r], UNCHANGED group,
         Return(t), \A q \in Task \ {t} : u \notin held[q]
  PROVE  Guarded'
<1>0. /\ TypeOK /\ LocksExclusive /\ TransferHolds /\ CascadeCovers
      /\ ExactlyOneOwner /\ NoOrphanMembership
  BY DEF IInv
<1>1. OthersStay(t) /\ pc'[t] = "idle" /\ held'[t] = {}
  BY <1>0, ReturnStays
<1>2. LocksExclusive'
  BY <1>0, <1>1 DEF LocksExclusive, HoldsGroup, OthersStay
<1>3. TransferHolds'
  <2>1. \A q \in Task \ {t} : \A x \in held[q] : role'[x] = role[x]
    BY <1>0 DEF TypeOK
  <2> QED
    BY <1>0, <1>1, <2>1 DEF TransferHolds, OthersStay
<1>4. CascadeCovers'
  <2>1. Participants' \subseteq Participants
    BY <1>0 DEF TypeOK, Participants
  <2> QED
    BY <1>0, <1>1, <2>1 DEF CascadeCovers, OthersStay
<1>5. ExactlyOneOwner'
  BY <1>0 DEF TypeOK, ExactlyOneOwner
<1>6. NoOrphanMembership'
  BY <1>0 DEF TypeOK, NoOrphanMembership
<1> QED
  BY <1>2, <1>3, <1>4, <1>5, <1>6 DEF Guarded

\* Every step keeps the locks exclusive, the transfers safe and one owner.
LEMMA GuardedStep ==
  ASSUME IInv, [Next]_vars
  PROVE  Guarded'
<1>0. /\ TypeOK /\ Serving /\ LocksExclusive /\ TransferHolds /\ CascadeCovers
      /\ ExactlyOneOwner /\ NoOrphanMembership
  BY DEF IInv
<1>p. TypeOK'
  BY TypeStep
<1>r. ASSUME NEW t \in Task, Refuse(t)
      PROVE  Guarded'
  BY <1>0, <1>r, RefuseQuiet, QuietKeeps
<1>1. ASSUME NEW t \in Task, NEW r \in Requests[t], CreateGroup(t, r)
      PROVE  Guarded'
  <2>1. r.by \in User
    BY GroupMembershipAssumption DEF Request
  <2>2. group = "none" /\ group' = "live" /\ UNCHANGED <<pc, req, todo, held>>
    BY <1>1 DEF CreateGroup, local
  <2>3. \A q \in Task : pc[q] \notin {"promote", "handover", "cascade"}
    <3>1. \A u \in User : role[u] = "none"
      BY <1>0, <2>2 DEF NoOrphanMembership
    <3>2. \A q \in Task : held[q] \subseteq User
      BY <1>0 DEF TypeOK
    <3> QED
      BY <1>0, <2>2, <3>1, <3>2 DEF TransferHolds, CascadeCovers
  <2>4. role' = [u \in User |-> IF u = r.by THEN "owner"
                   ELSE IF \E i \in DOMAIN r.names : r.names[i] = u
                   THEN "member" ELSE "none"]
    BY <1>1 DEF CreateGroup
  <2>5. ExactlyOneOwner' /\ NoOrphanMembership'
    BY <2>1, <2>2, <2>4 DEF ExactlyOneOwner, NoOrphanMembership
  <2>6. LocksExclusive' /\ TransferHolds' /\ CascadeCovers'
    BY <1>0, <2>2, <2>3 DEF LocksExclusive, HoldsGroup, TransferHolds, CascadeCovers
  <2> QED
    BY <2>5, <2>6 DEF Guarded
<1>2. ASSUME NEW t \in Task, InsertMember(t)
      PROVE  Guarded'
  <2>1. CASE Refuse(t)
    BY <1>r, <2>1
  <2>2. CASE ~ Refuse(t)
    <3> DEFINE u == Head(todo[t])
    <3>1. /\ pc[t] = "insert" /\ Granted(t)
          /\ todo[t] # <<>> /\ group = "live" /\ role[u] = "none"
          /\ role' = [role EXCEPT ![u] = "member"]
          /\ todo' = [todo EXCEPT ![t] = Tail(@)]
          /\ UNCHANGED <<group, pc, req, held>>
      BY <1>2, <2>2 DEF InsertMember
    <3>2. u \in User
      BY <1>0, <3>1 DEF TypeOK
    <3> HIDE DEF u
    <3>3. \A q \in Task : pc[q] # "cascade"
      BY <3>1 DEF Granted, Waits
    <3>4. LocksExclusive' /\ CascadeCovers'
      BY <1>0, <3>1, <3>3 DEF LocksExclusive, HoldsGroup, CascadeCovers
    <3>5. TransferHolds'
      BY <1>0, <3>1, <3>2 DEF TypeOK, TransferHolds
    <3>6. ExactlyOneOwner' /\ NoOrphanMembership'
      BY <1>0, <3>1, <3>2 DEF TypeOK, ExactlyOneOwner, NoOrphanMembership
    <3> QED
      BY <3>4, <3>5, <3>6 DEF Guarded
  <2> QED
    BY <2>1, <2>2
<1>3. ASSUME NEW t \in Task, DeleteMember(t)
      PROVE  Guarded'
  <2> DEFINE u == IF req[t].op = "leave" THEN req[t].by ELSE req[t].who
  <2>1. u \in User /\ role[u] \in Rank \cup {"none"}
    BY <1>0, <1>3 DEF Serving, Accepted, DeleteMember, Request, TypeOK
  <2>2. \A q \in Task \ {t} : u \notin held[q]
    BY <1>3, GrantedRows DEF DeleteMember, WantedRows
  <2>3. /\ role' = IF role[u] = "owner" THEN role ELSE [role EXCEPT ![u] = "none"]
        /\ Return(t) /\ UNCHANGED group
    BY <1>3 DEF DeleteMember
  <2> HIDE DEF u
  <2>4. CASE role[u] \in {"owner", "none"}
    <3>1. role' = role
      BY <1>0, <2>1, <2>3, <2>4 DEF TypeOK
    <3> QED
      BY <1>r, <2>3, <3>1 DEF Refuse, table
  <2>5. CASE role[u] \in {"admin", "member"}
    BY <1>p, <2>1, <2>2, <2>3, <2>5, RowWriteKeeps
  <2> QED
    BY <2>1, <2>4, <2>5 DEF Rank
<1>4. ASSUME NEW t \in Task, SetMemberRole(t)
      PROVE  Guarded'
  <2> DEFINE u == req[t].who
  <2>1. u \in User /\ role[u] \in Rank \cup {"none"} /\ req[t].rank \in {"admin", "member"}
    BY <1>0, <1>4 DEF Serving, Accepted, SetMemberRole, Request, TypeOK
  <2>2. \A q \in Task \ {t} : u \notin held[q]
    BY <1>4, GrantedRows DEF SetMemberRole, WantedRows
  <2>3. /\ role' = IF role[u] \in {"owner", "none"} THEN role
                   ELSE [role EXCEPT ![u] = req[t].rank]
        /\ Return(t) /\ UNCHANGED group
    BY <1>4 DEF SetMemberRole
  <2> HIDE DEF u
  <2>4. CASE role[u] \in {"owner", "none"}
    BY <1>r, <2>3, <2>4 DEF Refuse, table
  <2>5. CASE role[u] \in {"admin", "member"}
    BY <1>p, <2>1, <2>2, <2>3, <2>5, RowWriteKeeps
  <2> QED
    BY <2>1, <2>4, <2>5 DEF Rank
<1>5. ASSUME NEW t \in Task, DemoteOwner(t)
      PROVE  Guarded'
  <2>1. CASE Refuse(t)
    BY <1>r, <2>1
  <2>2. CASE ~ Refuse(t)
    <3>1. /\ pc[t] = "demote" /\ Granted(t) /\ role[req[t].by] = "owner"
          /\ held' = [held EXCEPT ![t] = @ \cup {req[t].by}]
          /\ pc' = [pc EXCEPT ![t] = "promote"]
          /\ UNCHANGED <<group, role, req, todo>>
      BY <1>5, <2>2 DEF DemoteOwner, Goto, table, local
    <3>2. \A q \in Task \ {t} : req[t].by \notin held[q]
      BY <3>1, GrantedRows DEF WantedRows
    <3>3. LocksExclusive'
      BY <1>0, <3>1, <3>2 DEF TypeOK, LocksExclusive, HoldsGroup
    <3>4. TransferHolds'
      BY <1>0, <3>1 DEF TypeOK, TransferHolds
    <3>5. CascadeCovers'
      BY <1>0, <3>1 DEF TypeOK, CascadeCovers, Participants
    <3>6. ExactlyOneOwner' /\ NoOrphanMembership'
      BY <1>0, <3>1 DEF ExactlyOneOwner, NoOrphanMembership
    <3> QED
      BY <3>3, <3>4, <3>5, <3>6 DEF Guarded
  <2> QED
    BY <2>1, <2>2
<1>6. ASSUME NEW t \in Task, PromoteOwner(t)
      PROVE  Guarded'
  <2>1. CASE Refuse(t)
    BY <1>r, <2>1
  <2>2. CASE ~ Refuse(t)
    <3> DEFINE w == req[t].who
    <3>1. /\ pc[t] = "promote" /\ Granted(t) /\ role[w] # "none"
          /\ held' = [held EXCEPT ![t] = @ \cup {w}]
          /\ pc' = [pc EXCEPT ![t] = "handover"]
          /\ UNCHANGED <<group, role, req, todo>>
      BY <1>6, <2>2 DEF PromoteOwner, Goto, table, local
    <3>2. \A q \in Task \ {t} : w \notin held[q]
      BY <3>1, GrantedRows DEF WantedRows
    <3>3. w \in User /\ req[t].by \in User /\ w # req[t].by
      BY <1>0, <3>1 DEF Serving, Accepted, Request, Valid
    <3>4. role[w] \in {"admin", "member"}
      <4>1. role[req[t].by] = "owner"
        BY <1>0, <3>1 DEF TransferHolds
      <4>2. group = "live"
        BY <1>0, <3>3, <4>1 DEF NoOrphanMembership
      <4> QED
        BY <1>0, <3>1, <3>3, <4>1, <4>2 DEF TypeOK, ExactlyOneOwner, Rank
    <3> HIDE DEF w
    <3>5. LocksExclusive'
      BY <1>0, <3>1, <3>2 DEF TypeOK, LocksExclusive, HoldsGroup
    <3>6. TransferHolds'
      BY <1>0, <3>1, <3>4 DEF TypeOK, TransferHolds, w
    <3>7. CascadeCovers'
      BY <1>0, <3>1 DEF TypeOK, CascadeCovers, Participants
    <3>8. ExactlyOneOwner' /\ NoOrphanMembership'
      BY <1>0, <3>1 DEF ExactlyOneOwner, NoOrphanMembership
    <3> QED
      BY <3>5, <3>6, <3>7, <3>8 DEF Guarded
  <2> QED
    BY <2>1, <2>2
<1>7. ASSUME NEW t \in Task, CommitTransfer(t)
      PROVE  Guarded'
  <2> DEFINE o == req[t].by
             w == req[t].who
  <2>1. o \in User /\ w \in User /\ w # o
    BY <1>0, <1>7 DEF Serving, Accepted, Request, Valid, CommitTransfer
  <2>2. /\ role[o] = "owner" /\ o \in held[t]
        /\ role[w] \in {"admin", "member"} /\ w \in held[t]
    BY <1>0, <1>7 DEF TransferHolds, CommitTransfer
  <2>3. role' = [role EXCEPT ![o] = "admin", ![w] = "owner"] /\ UNCHANGED group
    BY <1>7 DEF CommitTransfer
  <2>4. OthersStay(t) /\ pc'[t] = "idle" /\ held'[t] = {}
    BY <1>0, <1>7, ReturnStays DEF CommitTransfer
  <2> HIDE DEF o, w
  <2>5. LocksExclusive'
    BY <1>0, <2>4 DEF LocksExclusive, HoldsGroup, OthersStay
  <2>6. TransferHolds'
    <3>1. \A q \in Task \ {t} : o \notin held[q] /\ w \notin held[q]
      BY <1>0, <2>2 DEF LocksExclusive
    <3>2. \A q \in Task \ {t} : \A x \in held[q] : role'[x] = role[x]
      BY <1>0, <2>3, <3>1 DEF TypeOK
    <3> QED
      BY <1>0, <2>4, <3>2 DEF TransferHolds, OthersStay
  <2>7. CascadeCovers'
    <3>1. Participants' = Participants
      BY <1>0, <2>1, <2>2, <2>3 DEF TypeOK, Participants
    <3> QED
      BY <1>0, <2>3, <2>4, <3>1 DEF CascadeCovers, OthersStay
  <2>8. group = "live"
    BY <1>0, <2>1, <2>2 DEF NoOrphanMembership
  <2>9. ExactlyOneOwner'
    BY <1>0, <2>1, <2>2, <2>3, <2>8 DEF TypeOK, ExactlyOneOwner
  <2>10. NoOrphanMembership'
    BY <2>3, <2>8 DEF NoOrphanMembership
  <2> QED
    BY <2>5, <2>6, <2>7, <2>9, <2>10 DEF Guarded
<1>8. ASSUME NEW t \in Task, LockGroup(t)
      PROVE  Guarded'
  <2>1. CASE Refuse(t)
    BY <1>r, <2>1
  <2>2. CASE ~ Refuse(t)
    <3>1. PICK s \in ScanOrders(Participants) : todo' = [todo EXCEPT ![t] = s]
      BY <1>8, <2>2 DEF LockGroup
    <3>2. \A u \in Participants : \E i \in DOMAIN s : s[i] = u
      BY <3>1, ScanOrderType DEF Participants
    <3>3. /\ pc[t] = "lock" /\ Granted(t) /\ group = "live"
          /\ pc' = [pc EXCEPT ![t] = "cascade"]
          /\ UNCHANGED <<group, role, req, held>>
      BY <1>8, <2>2 DEF LockGroup, Goto, table
    <3>4. \A q \in Task \ {t} : ~ HoldsGroup(q)
      BY <3>3 DEF Granted, Waits
    <3>5. LocksExclusive'
      BY <1>0, <3>3, <3>4 DEF TypeOK, LocksExclusive, HoldsGroup
    <3>6. TransferHolds'
      BY <1>0, <3>3 DEF TypeOK, TransferHolds
    <3>7. CascadeCovers'
      BY <1>0, <3>1, <3>2, <3>3 DEF TypeOK, CascadeCovers, Participants
    <3>8. ExactlyOneOwner' /\ NoOrphanMembership'
      BY <1>0, <3>3 DEF ExactlyOneOwner, NoOrphanMembership
    <3> QED
      BY <3>5, <3>6, <3>7, <3>8 DEF Guarded
  <2> QED
    BY <2>1, <2>2
<1>9. ASSUME NEW t \in Task, AllocateSeq(t)
      PROVE  Guarded'
  <2>1. CASE Refuse(t)
    BY <1>r, <2>1
  <2>2. CASE ~ Refuse(t)
    <3>1. /\ pc[t] = "alloc" /\ Granted(t)
          /\ pc' = [pc EXCEPT ![t] = "scan"]
          /\ UNCHANGED <<group, role, req, todo, held>>
      BY <1>9, <2>2 DEF AllocateSeq, Goto, table, local
    <3>2. \A q \in Task \ {t} : ~ HoldsGroup(q)
      BY <3>1 DEF Granted, Waits
    <3>3. LocksExclusive'
      BY <1>0, <3>1, <3>2 DEF TypeOK, LocksExclusive, HoldsGroup
    <3>4. TransferHolds' /\ CascadeCovers'
      BY <1>0, <3>1 DEF TypeOK, TransferHolds, CascadeCovers, Participants
    <3>5. ExactlyOneOwner' /\ NoOrphanMembership'
      BY <1>0, <3>1 DEF ExactlyOneOwner, NoOrphanMembership
    <3> QED
      BY <3>3, <3>4, <3>5 DEF Guarded
  <2> QED
    BY <2>1, <2>2
<1>10. ASSUME NEW t \in Task, LockNextRow(t)
       PROVE  Guarded'
  <2> DEFINE u == Head(todo[t])
  <2>1. /\ pc[t] \in {"bump", "cascade"} /\ todo[t] # <<>> /\ Granted(t)
        /\ held' = IF role[u] = "none" THEN held ELSE [held EXCEPT ![t] = @ \cup {u}]
        /\ todo' = [todo EXCEPT ![t] = Tail(@)]
        /\ UNCHANGED <<group, role, pc, req>>
    BY <1>10 DEF LockNextRow, table
  <2>2. \A q \in Task \ {t} : u \notin held[q]
    BY <2>1, GrantedRows DEF WantedRows
  <2>3. todo[t] \in Seq(User) /\ u \in User
    BY <1>0, <2>1 DEF TypeOK
  <2>4. \A x \in User \ {u} : (\E i \in DOMAIN todo[t] : todo[t][i] = x)
                              => \E i \in DOMAIN Tail(todo[t]) : Tail(todo[t])[i] = x
    <3>1. ASSUME NEW x \in User \ {u}, NEW i \in DOMAIN todo[t], todo[t][i] = x
          PROVE  i - 1 \in DOMAIN Tail(todo[t]) /\ Tail(todo[t])[i - 1] = x
      BY <2>1, <2>3, <3>1
    <3> QED
      BY <3>1
  <2> HIDE DEF u
  <2>5. LocksExclusive'
    BY <1>0, <2>1, <2>2 DEF TypeOK, LocksExclusive, HoldsGroup
  <2>6. TransferHolds'
    BY <1>0, <2>1 DEF TypeOK, TransferHolds
  <2>7. CascadeCovers'
    <3>1. ASSUME NEW q \in Task, pc[q] = "cascade", NEW x \in Participants
          PROVE  x \in held'[q] \/ \E i \in DOMAIN todo'[q] : todo'[q][i] = x
      <4>1. x \in held[q] \/ \E i \in DOMAIN todo[q] : todo[q][i] = x
        BY <1>0, <3>1 DEF CascadeCovers
      <4>2. CASE q # t
        BY <1>0, <2>1, <4>1, <4>2 DEF TypeOK
      <4>3. CASE q = t /\ x = u
        BY <1>0, <2>1, <2>3, <4>3 DEF TypeOK, Participants
      <4>4. CASE q = t /\ x # u
        <5>1. todo'[t] = Tail(todo[t]) /\ held[t] \subseteq held'[t]
          BY <1>0, <2>1 DEF TypeOK
        <5> QED
          BY <2>4, <4>1, <4>4, <5>1 DEF Participants
      <4> QED
        BY <4>2, <4>3, <4>4
    <3> QED
      BY <1>0, <2>1, <3>1 DEF CascadeCovers, Participants
  <2>8. ExactlyOneOwner' /\ NoOrphanMembership'
    BY <1>0, <2>1 DEF ExactlyOneOwner, NoOrphanMembership
  <2> QED
    BY <2>5, <2>6, <2>7, <2>8 DEF Guarded
<1>11. ASSUME NEW t \in Task, CommitDissolve(t)
       PROVE  Guarded'
  <2>1. OthersStay(t) /\ pc'[t] = "idle" /\ held'[t] = {}
    BY <1>0, <1>11, ReturnStays DEF CommitDissolve
  <2>2. group' = "gone" /\ role' = [u \in User |-> "none"]
    BY <1>11 DEF CommitDissolve
  <2>3. Participants \subseteq held[t]
    BY <1>0, <1>11 DEF CascadeCovers, CommitDissolve
  <2>4. \A q \in Task \ {t} : pc[q] \notin {"promote", "handover", "cascade"}
    <3>1. \A q \in Task \ {t} : pc[q] # "cascade"
      BY <1>0, <1>11 DEF LocksExclusive, HoldsGroup, CommitDissolve
    <3>2. ASSUME NEW q \in Task \ {t}, pc[q] \in {"promote", "handover"}
          PROVE  FALSE
      <4>1. req[q].by \in held[q] /\ role[req[q].by] = "owner"
        BY <1>0, <3>2 DEF TransferHolds
      <4>2. req[q].by \in Participants
        BY <1>0, <4>1 DEF TypeOK, Participants
      <4> QED
        BY <1>0, <2>3, <4>1, <4>2 DEF LocksExclusive
    <3> QED
      BY <3>1, <3>2
  <2>5. LocksExclusive'
    BY <1>0, <2>1 DEF LocksExclusive, HoldsGroup, OthersStay
  <2>6. TransferHolds' /\ CascadeCovers'
    BY <2>1, <2>4 DEF TransferHolds, CascadeCovers, OthersStay
  <2>7. ExactlyOneOwner' /\ NoOrphanMembership'
    BY <2>2 DEF ExactlyOneOwner, NoOrphanMembership
  <2> QED
    BY <2>5, <2>6, <2>7 DEF Guarded
<1>12. ASSUME NEW t \in Task,
              \/ \E r \in Requests[t] : Begin(t, r)
              \/ Authorize(t) \/ CountMembers(t) \/ CheckInvitee(t) \/ ReadTarget(t)
              \/ ScanMembers(t) \/ CommitSend(t) \/ DetectDeadlock(t) \/ Fail(t)
       PROVE  Guarded'
  BY <1>12, ReadersQuiet, QuietKeeps
<1>13. CASE UNCHANGED vars
  BY <1>0, <1>13 DEF Guarded, LocksExclusive, HoldsGroup, TransferHolds, CascadeCovers,
                     Participants, ExactlyOneOwner, NoOrphanMembership, vars, table, local
<1> QED
  BY <1>1, <1>2, <1>3, <1>4, <1>5, <1>6, <1>7, <1>8, <1>9, <1>10, <1>11, <1>12, <1>13
  DEF Next, Step

-----------------------------------------------------------------------------
(* The theorems *)

\* The invariant is inductive: every reachable state satisfies it.
THEOREM Invariance == Spec => []IInv
<1>1. IInv /\ [Next]_vars => IInv'
  BY TypeStep, ServingStep, GuardedStep DEF IInv, Guarded
<1> QED
  BY <1>1, InitEstablishes, PTL DEF Spec

\* Every variable keeps its type, and locks are held inside transactions only.
THEOREM TypeCorrect == Spec => []TypeOK
<1>1. IInv => TypeOK
  BY DEF IInv
<1> QED
  BY <1>1, Invariance, PTL

\* A live group has exactly one owner, however many requests race on it.
THEOREM OneOwnerAlways == Spec => []ExactlyOneOwner
<1>1. IInv => ExactlyOneOwner
  BY DEF IInv
<1> QED
  BY <1>1, Invariance, PTL

\* No membership outlives its group, or precedes it.
THEOREM NoOrphans == Spec => []NoOrphanMembership
<1>1. IInv => NoOrphanMembership
  BY DEF IInv
<1> QED
  BY <1>1, Invariance, PTL

\* A step of the handlers is one Role change of the abstract group, or none.
LEMMA StepRefines ==
  ASSUME IInv, [Next]_vars
  PROVE  [Roles!Next]_(Roles!vars)
<1>0. /\ TypeOK /\ Serving /\ TransferHolds /\ CascadeCovers
      /\ ExactlyOneOwner /\ NoOrphanMembership
  BY DEF IInv
<1>s. CASE UNCHANGED <<group, role>>
  BY <1>s DEF Roles!vars
<1>l. ASSUME NEW u \in User, role[u] # "none"
      PROVE  group = "live"
  BY <1>0, <1>l DEF NoOrphanMembership
<1>1. ASSUME NEW t \in Task, NEW r \in Requests[t], CreateGroup(t, r)
      PROVE  Roles!Next
  <2> DEFINE M == {r.names[i] : i \in DOMAIN r.names}
  <2>1. r.by \in User /\ M \in SUBSET User
    BY GroupMembershipAssumption DEF Request
  <2>2. Roles!Create(r.by, M)
    <3>1. \A u \in User : (\E i \in DOMAIN r.names : r.names[i] = u) <=> u \in M
      OBVIOUS
    <3> QED
      BY <1>1, <3>1 DEF CreateGroup, Roles!Create
  <2> QED
    BY <2>1, <2>2 DEF Roles!Next
<1>2. ASSUME NEW t \in Task, InsertMember(t)
      PROVE  Roles!Next \/ UNCHANGED <<group, role>>
  <2>1. CASE Refuse(t)
    BY <2>1 DEF Refuse, table
  <2>2. CASE ~ Refuse(t)
    <3>1. Head(todo[t]) \in User
      BY <1>0, <1>2, <2>2 DEF TypeOK, InsertMember
    <3>2. Roles!Admit(Head(todo[t])) /\ group = "live" /\ UNCHANGED group
      BY <1>2, <2>2 DEF InsertMember, Roles!Admit
    <3> QED
      BY <3>1, <3>2 DEF Roles!Next, Roles!Change
  <2> QED
    BY <2>1, <2>2
<1>3. ASSUME NEW t \in Task, DeleteMember(t)
      PROVE  Roles!Next \/ UNCHANGED <<group, role>>
  <2> DEFINE u == IF req[t].op = "leave" THEN req[t].by ELSE req[t].who
  <2>1. u \in User /\ role[u] \in Rank \cup {"none"}
    BY <1>0, <1>3 DEF Serving, Accepted, DeleteMember, Request, TypeOK
  <2>2. /\ role' = IF role[u] = "owner" THEN role ELSE [role EXCEPT ![u] = "none"]
        /\ UNCHANGED group
    BY <1>3 DEF DeleteMember
  <2> HIDE DEF u
  <2>3. CASE role[u] \in {"owner", "none"}
    BY <1>0, <2>1, <2>2, <2>3 DEF TypeOK
  <2>4. CASE role[u] \in {"admin", "member"}
    <3>1. Roles!Part(u) /\ group = "live"
      BY <1>l, <2>1, <2>2, <2>4 DEF Roles!Part
    <3> QED
      BY <2>1, <2>2, <3>1 DEF Roles!Next, Roles!Change
  <2> QED
    BY <2>1, <2>3, <2>4 DEF Rank
<1>4. ASSUME NEW t \in Task, SetMemberRole(t)
      PROVE  Roles!Next \/ UNCHANGED <<group, role>>
  <2> DEFINE u == req[t].who
             r == req[t].rank
  <2>1. u \in User /\ role[u] \in Rank \cup {"none"} /\ r \in {"admin", "member"}
    BY <1>0, <1>4 DEF Serving, Accepted, SetMemberRole, Request, TypeOK
  <2>2. /\ role' = IF role[u] \in {"owner", "none"} THEN role
                   ELSE [role EXCEPT ![u] = r]
        /\ UNCHANGED group
    BY <1>4 DEF SetMemberRole
  <2> HIDE DEF u, r
  <2>3. CASE role[u] \in {"owner", "none"}
    BY <2>2, <2>3
  <2>4. CASE role[u] \in {"admin", "member"}
    <3>1. Roles!Rerank(u, r) /\ group = "live"
      BY <1>l, <2>1, <2>2, <2>4 DEF Roles!Rerank
    <3> QED
      BY <2>1, <2>2, <3>1 DEF Roles!Next, Roles!Change
  <2> QED
    BY <2>1, <2>3, <2>4 DEF Rank
<1>5. ASSUME NEW t \in Task, CommitTransfer(t)
      PROVE  Roles!Next
  <2>1. req[t].by \in User /\ req[t].who \in User
    BY <1>0, <1>5 DEF Serving, Accepted, Request, CommitTransfer
  <2>2. Roles!HandOver(req[t].by, req[t].who) /\ UNCHANGED group
    BY <1>0, <1>5 DEF TransferHolds, CommitTransfer, Roles!HandOver
  <2>3. group = "live"
    BY <1>l, <2>1, <2>2 DEF Roles!HandOver
  <2> QED
    BY <2>1, <2>2, <2>3 DEF Roles!Next, Roles!Change
<1>6. ASSUME NEW t \in Task, CommitDissolve(t)
      PROVE  Roles!Next
  BY <1>0, <1>6 DEF CascadeCovers, CommitDissolve, Roles!Next, Roles!End
<1>7. ASSUME NEW t \in Task,
             \/ \E r \in Requests[t] : Begin(t, r)
             \/ Authorize(t) \/ CountMembers(t) \/ CheckInvitee(t) \/ ReadTarget(t)
             \/ ScanMembers(t) \/ CommitSend(t) \/ DetectDeadlock(t) \/ Fail(t)
      PROVE  UNCHANGED <<group, role>>
  BY <1>7, ReadersQuiet DEF Quiet
<1>8. ASSUME NEW t \in Task, \/ DemoteOwner(t) \/ PromoteOwner(t) \/ LockGroup(t)
                             \/ AllocateSeq(t) \/ LockNextRow(t)
      PROVE  UNCHANGED <<group, role>>
  BY <1>8 DEF DemoteOwner, PromoteOwner, LockGroup, AllocateSeq, LockNextRow, Refuse, table
<1>9. CASE UNCHANGED vars
  BY <1>9, <1>s DEF vars, table
<1> QED
  BY <1>1, <1>2, <1>3, <1>4, <1>5, <1>6, <1>7, <1>8, <1>9, <1>s DEF Next, Step

\* The handlers implement the abstract group: every interleaving of them is a
\* history of single Role changes that never leaves the group without its owner.
THEOREM Refinement == Spec => ImplementsRoles
<1>1. Init => Roles!Init
  BY DEF Init, Roles!Init
<1>2. IInv /\ [Next]_vars => [Roles!Next]_(Roles!vars)
  BY StepRefines
<1> QED
  BY <1>1, <1>2, Invariance, PTL DEF Spec, ImplementsRoles, Roles!Spec
=============================================================================
