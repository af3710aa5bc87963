--------------------------- MODULE GroupMembership ---------------------------
(***************************************************************************)
(* The group operations of jiuyue-chat on one Group Conversation: create,   *)
(* invite, remove, leave, change a Role, transfer, dissolve, and the row    *)
(* locks a send takes beside them.  Each request is served by a task of its *)
(* own; what it read it decides on later, when others may have moved on.    *)
(*                                                                         *)
(* One step is one SQL statement, or one row of a statement that locks      *)
(* several.  The variables role and group hold committed rows: a change a   *)
(* transaction has made follows from where the task is in it.               *)
(***************************************************************************)
EXTENDS Naturals, Sequences, FiniteSets

CONSTANTS User,        \* Users
          Task,        \* request handlers that may run at the same time
          Requests,    \* bound: Requests[t], the requests t may serve
          None,        \* no value
          MinMembers,  \* MIN_GROUP_MEMBERS
          MaxMembers   \* MAX_GROUP_MEMBERS

Rank    == {"owner", "admin", "member"}
Op      == {"create", "invite", "remove", "leave", "rerank", "transfer",
            "dissolve", "send"}
Request == [op : Op, by : User, who : User, names : Seq(User),
            rank : {"admin", "member"}]

ASSUME GroupMembershipAssumption ==
  /\ IsFiniteSet(User)
  /\ Requests \in [Task -> SUBSET Request]
  /\ MinMembers \in Nat /\ MaxMembers \in Nat

VARIABLES
  group,   \* "none", "live" or "gone": the conversations row
  role,    \* role[u]: the Role in u's conversation_members row, "none" without
  pc,      \* pc[t]: the statement task t runs next
  req,     \* req[t]: the request t serves
  mine,    \* mine[t]: the Role of the caller, as require_group_role read it
  count,   \* count[t]: the member_count t read
  todo,    \* todo[t]: the invitees, or the rows of a statement, still to do
  held     \* held[t]: the member rows t's open transaction has locked

table == <<group, role>>
local == <<req, mine, count, todo>>
vars  == <<table, pc, local, held>>

Participants == {u \in User : role[u] # "none"}

InTransaction == {"scan", "bump", "promote", "handover", "cascade"}
Phase == InTransaction \cup {"idle", "authorize", "alloc", "count", "check",
           "insert", "target", "delete", "rerank", "demote", "lock"}

-----------------------------------------------------------------------------
(* permission.rs *)

May(r, op) == CASE op \in {"send", "leave"} -> TRUE
                [] op \in {"invite", "remove"} -> r \in {"owner", "admin"}
                [] op \in {"rerank", "transfer", "dissolve"} -> r = "owner"

MayRemove(actor, target) == \/ actor = "owner" /\ target # "owner"
                            \/ actor = "admin" /\ target = "member"

MayLeave(r, othersRemaining) == r # "owner" \/ othersRemaining = 0

-----------------------------------------------------------------------------
(* Locks *)

\* The member row the next statement of t has to lock.
WantedRows(t) ==
  CASE pc[t] = "delete" -> {IF req[t].op = "leave" THEN req[t].by ELSE req[t].who}
    [] pc[t] \in {"rerank", "promote"} -> {req[t].who}
    [] pc[t] = "demote" -> {req[t].by}
    [] pc[t] \in {"bump", "cascade"} /\ todo[t] # <<>> -> {Head(todo[t])}
    [] OTHER -> {}

\* A send (ALLOCATE_SEQ) and a dissolution hold the conversations row.
HoldsGroup(t) == pc[t] \in {"scan", "bump", "cascade"}

\* s waits for q.  The foreign key of an insert waits for a DELETE of the
\* conversations row, but not for an UPDATE of it.
Waits(s, q) ==
  /\ s # q
  /\ \/ WantedRows(s) \cap held[q] # {}
     \/ pc[s] \in {"alloc", "lock"} /\ HoldsGroup(q)
     \/ pc[s] = "insert" /\ pc[q] = "cascade"

Granted(t) == \A q \in Task : ~ Waits(t, q)

\* t is on a cycle of waiting tasks; a task waits for one other at most.
Deadlocked(t) ==
  \E S \in SUBSET Task :
    /\ t \in S
    /\ \A s \in S : (\E q \in S : Waits(s, q)) /\ (\E q \in S : Waits(q, s))

\* The orders in which a statement may come across the rows of S.
ScanOrders(S) ==
  {f \in [1 .. Cardinality(S) -> S] : \A u \in S : \E i \in DOMAIN f : f[i] = u}

-----------------------------------------------------------------------------
Init ==
  /\ group = "none"
  /\ role = [u \in User |-> "none"]
  /\ pc = [t \in Task |-> "idle"]
  /\ req = [t \in Task |-> None]
  /\ mine = [t \in Task |-> "none"]
  /\ count = [t \in Task |-> 0]
  /\ todo = [t \in Task |-> <<>>]
  /\ held = [t \in Task |-> {}]

\* The handler returns, with a result or an error; its transaction is over.
Return(t) ==
  /\ pc' = [pc EXCEPT ![t] = "idle"]
  /\ req' = [req EXCEPT ![t] = None]
  /\ mine' = [mine EXCEPT ![t] = "none"]
  /\ count' = [count EXCEPT ![t] = 0]
  /\ todo' = [todo EXCEPT ![t] = <<>>]
  /\ held' = [held EXCEPT ![t] = {}]

Goto(t, l) == pc' = [pc EXCEPT ![t] = l]

Refuse(t) == Return(t) /\ UNCHANGED table

\* The checks of the request body: nobody names themselves or anyone twice.
Valid(r) ==
  LET n == Cardinality({r.names[i] : i \in DOMAIN r.names}) IN
  CASE r.op \in {"remove", "transfer"} -> r.who # r.by
    [] r.op = "create" -> /\ \A i \in DOMAIN r.names : r.names[i] # r.by
                          /\ n + 1 \in MinMembers .. MaxMembers
    [] r.op = "invite" -> /\ \A i \in DOMAIN r.names : r.names[i] # r.by
                          /\ n > 0 /\ n = Len(r.names)
    [] OTHER -> TRUE

\* create_group: the group, its owner and its members in one transaction.
CreateGroup(t, r) ==
  /\ r.op = "create" /\ Valid(r)
  /\ pc[t] = "idle"
  /\ group = "none"
  /\ group' = "live"
  /\ role' = [u \in User |->
                IF u = r.by THEN "owner"
                ELSE IF \E i \in DOMAIN r.names : r.names[i] = u
                THEN "member" ELSE "none"]
  /\ UNCHANGED <<pc, local, held>>

\* A request for the group arrives.
Begin(t, r) ==
  /\ r.op # "create" /\ Valid(r)
  /\ pc[t] = "idle"
  /\ group # "none"
  /\ Goto(t, "authorize")
  /\ req' = [req EXCEPT ![t] = r]
  /\ UNCHANGED <<table, mine, count, todo, held>>

Reads(op) == CASE op = "send" -> "alloc"
               [] op \in {"invite", "leave"} -> "count"
               [] op \in {"remove", "rerank", "transfer"} -> "target"
               [] op = "dissolve" -> "lock"

\* require_group_role and permission::ensure, or require_participant of a send.
Authorize(t) ==
  LET r == role[req[t].by] IN
  /\ pc[t] = "authorize"
  /\ \/ /\ r # "none" /\ May(r, req[t].op)
        /\ Goto(t, Reads(req[t].op))
        /\ mine' = [mine EXCEPT ![t] = r]
        /\ todo' = [todo EXCEPT ![t] = req[t].names]
        /\ UNCHANGED <<table, req, count, held>>
     \/ /\ ~ (r # "none" /\ May(r, req[t].op))
        /\ Refuse(t)

\* member_count: an invite checks its list next; the last one out dissolves.
CountMembers(t) ==
  LET n == Cardinality(Participants)
      others == IF n = 0 THEN 0 ELSE n - 1
      op == req[t].op
  IN
  /\ pc[t] = "count"
  /\ \/ /\ op = "leave" => MayLeave(mine[t], others)
        /\ count' = [count EXCEPT ![t] = n]
        /\ Goto(t, IF op = "invite" THEN "check"
                   ELSE IF others = 0 THEN "lock" ELSE "delete")
        /\ UNCHANGED <<table, req, mine, todo, held>>
     \/ /\ op = "leave" /\ ~ MayLeave(mine[t], others)
        /\ Refuse(t)

-----------------------------------------------------------------------------
(* Invite *)

\* One invitee at a time must not be a Participant; then all must fit.
CheckInvitee(t) ==
  /\ pc[t] = "check"
  /\ \/ /\ todo[t] # <<>>
        /\ role[Head(todo[t])] = "none"
        /\ todo' = [todo EXCEPT ![t] = Tail(@)]
        /\ UNCHANGED <<table, pc, req, mine, count, held>>
     \/ /\ todo[t] # <<>>
        /\ role[Head(todo[t])] # "none"
        /\ Refuse(t)
     \/ /\ todo[t] = <<>>
        /\ count[t] + Len(req[t].names) <= MaxMembers
        /\ Goto(t, "insert")
        /\ todo' = [todo EXCEPT ![t] = req[t].names]
        /\ UNCHANGED <<table, req, mine, count, held>>
     \/ /\ todo[t] = <<>>
        /\ count[t] + Len(req[t].names) > MaxMembers
        /\ Refuse(t)

\* Mutant: the foreign key is not checked.
InsertUnchecked(t) ==
  /\ pc[t] = "insert"
  /\ Granted(t)
  /\ \/ /\ todo[t] # <<>> /\ role[Head(todo[t])] = "none"
        /\ role' = [role EXCEPT ![Head(todo[t])] = "member"]
        /\ todo' = [todo EXCEPT ![t] = Tail(@)]
        /\ UNCHANGED <<group, pc, req, mine, count, held>>
     \/ /\ todo[t] # <<>> /\ role[Head(todo[t])] # "none"
        /\ Refuse(t)
     \/ /\ todo[t] = <<>>
        /\ Refuse(t)

\* INSERT_MEMBER_WITH_ROLE commits per invitee.  A Participant (primary key) or a
\* dissolved group (foreign key) fails the request; earlier rows stay.
InsertMember(t) ==
  /\ pc[t] = "insert"
  /\ Granted(t)
  /\ \/ /\ todo[t] # <<>>
        /\ group = "live" /\ role[Head(todo[t])] = "none"
        /\ role' = [role EXCEPT ![Head(todo[t])] = "member"]
        /\ todo' = [todo EXCEPT ![t] = Tail(@)]
        /\ UNCHANGED <<group, pc, req, mine, count, held>>
     \/ /\ todo[t] # <<>>
        /\ ~ (group = "live" /\ role[Head(todo[t])] = "none")
        /\ Refuse(t)
     \/ /\ todo[t] = <<>>
        /\ Refuse(t)

-----------------------------------------------------------------------------
(* Remove, leave, change a Role *)

\* member_role of the target, and what the actor's Role allows with it.
ReadTarget(t) ==
  LET r == role[req[t].who]
      allowed == CASE req[t].op = "remove" -> MayRemove(mine[t], r)
                   [] req[t].op = "rerank" -> r # "owner"
                   [] req[t].op = "transfer" -> TRUE
  IN
  /\ pc[t] = "target"
  /\ \/ /\ r # "none" /\ allowed
        /\ Goto(t, CASE req[t].op = "remove" -> "delete"
                     [] req[t].op = "rerank" -> "rerank"
                     [] req[t].op = "transfer" -> "demote")
        /\ UNCHANGED <<table, local, held>>
     \/ /\ ~ (r # "none" /\ allowed)
        /\ Refuse(t)

\* Mutant: no role <> 'owner' guard.
DeleteAnyone(t) ==
  LET u == IF req[t].op = "leave" THEN req[t].by ELSE req[t].who IN
  /\ pc[t] = "delete"
  /\ Granted(t)
  /\ role' = [role EXCEPT ![u] = "none"]
  /\ Return(t)
  /\ UNCHANGED group

\* Mutant: a leave that deleted nothing is tried again.
DeleteRetrying(t) ==
  LET u == IF req[t].op = "leave" THEN req[t].by ELSE req[t].who IN
  /\ pc[t] = "delete"
  /\ Granted(t)
  /\ \/ /\ role[u] \in {"admin", "member"}
        /\ role' = [role EXCEPT ![u] = "none"]
        /\ Return(t)
        /\ UNCHANGED group
     \/ /\ role[u] \notin {"admin", "member"}
        /\ UNCHANGED vars

\* DELETE_MEMBER deletes no owner; no row deleted is an error, without effect.
DeleteMember(t) ==
  LET u == IF req[t].op = "leave" THEN req[t].by ELSE req[t].who IN
  /\ pc[t] = "delete"
  /\ Granted(t)
  /\ role' = IF role[u] = "owner" THEN role ELSE [role EXCEPT ![u] = "none"]
  /\ Return(t)
  /\ UNCHANGED group

\* Mutant: no role <> 'owner' guard.
SetAnyRole(t) ==
  LET u == req[t].who IN
  /\ pc[t] = "rerank"
  /\ Granted(t)
  /\ role' = IF role[u] = "none" THEN role ELSE [role EXCEPT ![u] = req[t].rank]
  /\ Return(t)
  /\ UNCHANGED group

\* SET_MEMBER_ROLE touches no owner.
SetMemberRole(t) ==
  LET u == req[t].who IN
  /\ pc[t] = "rerank"
  /\ Granted(t)
  /\ role' = IF role[u] \in {"owner", "none"} THEN role
             ELSE [role EXCEPT ![u] = req[t].rank]
  /\ Return(t)
  /\ UNCHANGED group

-----------------------------------------------------------------------------
(* Transfer: demote, promote, commit *)

\* DEMOTE_OWNER finds the caller still the owner, or the transfer rolls back.
DemoteOwner(t) ==
  /\ pc[t] = "demote"
  /\ Granted(t)
  /\ \/ /\ role[req[t].by] = "owner"
        /\ held' = [held EXCEPT ![t] = @ \cup {req[t].by}]
        /\ Goto(t, "promote")
        /\ UNCHANGED <<table, local>>
     \/ /\ role[req[t].by] # "owner"
        /\ Refuse(t)

\* Mutant: the early return keeps the transaction open.
PromoteKeepingLock(t) ==
  /\ pc[t] = "promote"
  /\ Granted(t)
  /\ \/ /\ role[req[t].who] # "none"
        /\ held' = [held EXCEPT ![t] = @ \cup {req[t].who}]
        /\ Goto(t, "handover")
        /\ UNCHANGED <<table, local>>
     \/ /\ role[req[t].who] = "none"
        /\ Goto(t, "idle")
        /\ UNCHANGED <<table, local, held>>

\* PROMOTE_OWNER finds the target still a Participant, or the transfer rolls back.
PromoteOwner(t) ==
  /\ pc[t] = "promote"
  /\ Granted(t)
  /\ \/ /\ role[req[t].who] # "none"
        /\ held' = [held EXCEPT ![t] = @ \cup {req[t].who}]
        /\ Goto(t, "handover")
        /\ UNCHANGED <<table, local>>
     \/ /\ role[req[t].who] = "none"
        /\ Refuse(t)

CommitTransfer(t) ==
  /\ pc[t] = "handover"
  /\ role' = [role EXCEPT ![req[t].by] = "admin", ![req[t].who] = "owner"]
  /\ Return(t)
  /\ UNCHANGED group

-----------------------------------------------------------------------------
(* Statements that lock several rows *)

\* DELETE_CONVERSATION: the row, then its memberships in some order.
LockGroup(t) ==
  /\ pc[t] = "lock"
  /\ Granted(t)
  /\ \/ /\ group = "live"
        /\ \E s \in ScanOrders(Participants) : todo' = [todo EXCEPT ![t] = s]
        /\ Goto(t, "cascade")
        /\ UNCHANGED <<table, req, mine, count, held>>
     \/ /\ group # "live"
        /\ Refuse(t)

\* A send locks the conversations row with ALLOCATE_SEQ.
AllocateSeq(t) ==
  /\ pc[t] = "alloc"
  /\ Granted(t)
  /\ \/ /\ group = "live"
        /\ Goto(t, "scan")
        /\ UNCHANGED <<table, local, held>>
     \/ /\ group # "live"
        /\ Refuse(t)

\* INCREMENT_UNREAD starts: it will update every other Participant's row.
ScanMembers(t) ==
  /\ pc[t] = "scan"
  /\ \E s \in ScanOrders(Participants \ {req[t].by}) : todo' = [todo EXCEPT ![t] = s]
  /\ Goto(t, "bump")
  /\ UNCHANGED <<table, req, mine, count, held>>

\* The next row of either statement; a row deleted meanwhile is passed over.
LockNextRow(t) ==
  /\ pc[t] \in {"bump", "cascade"} /\ todo[t] # <<>>
  /\ Granted(t)
  /\ held' = IF role[Head(todo[t])] = "none" THEN held
             ELSE [held EXCEPT ![t] = @ \cup {Head(todo[t])}]
  /\ todo' = [todo EXCEPT ![t] = Tail(@)]
  /\ UNCHANGED <<table, pc, req, mine, count>>

CommitSend(t) == pc[t] = "bump" /\ todo[t] = <<>> /\ Refuse(t)

CommitDissolve(t) ==
  /\ pc[t] = "cascade" /\ todo[t] = <<>>
  /\ group' = "gone"
  /\ role' = [u \in User |-> "none"]
  /\ Return(t)

-----------------------------------------------------------------------------
(* Failure *)

\* PostgreSQL aborts one transaction of a waiting cycle; its request fails.
DetectDeadlock(t) == Deadlocked(t) /\ Refuse(t)

\* A failed statement, a lost database connection or a dead server process.
Fail(t) == pc[t] # "idle" /\ Refuse(t)

Step(t) == \/ Authorize(t)
           \/ CountMembers(t)
           \/ CheckInvitee(t)
           \/ InsertMember(t)
           \/ ReadTarget(t)
           \/ DeleteMember(t)
           \/ SetMemberRole(t)
           \/ DemoteOwner(t)
           \/ PromoteOwner(t)
           \/ CommitTransfer(t)
           \/ LockGroup(t)
           \/ AllocateSeq(t)
           \/ ScanMembers(t)
           \/ LockNextRow(t)
           \/ CommitSend(t)
           \/ CommitDissolve(t)

Next == \E t \in Task : \/ Step(t)
                        \/ DetectDeadlock(t)
                        \/ Fail(t)
                        \/ \E r \in Requests[t] : CreateGroup(t, r) \/ Begin(t, r)

Spec == Init /\ [][Next]_vars

\* A spawned handler is polled to its end, and PostgreSQL queues lock waiters:
\* a lock that comes free again and again is granted in the end.
Fairness == \A t \in Task : SF_vars(Step(t)) /\ WF_vars(DetectDeadlock(t))

FairSpec == Spec /\ Fairness

-----------------------------------------------------------------------------
(* Properties *)

TypeOK ==
  /\ group \in {"none", "live", "gone"}
  /\ role \in [User -> Rank \cup {"none"}]
  /\ pc \in [Task -> Phase]
  /\ req \in [Task -> Request \cup {None}]
  /\ mine \in [Task -> Rank \cup {"none"}]
  /\ count \in [Task -> Nat]
  /\ todo \in [Task -> Seq(User)]
  /\ held \in [Task -> SUBSET User]
  /\ \A t \in Task : held[t] # {} => pc[t] \in InTransaction

\* A group has exactly one owner at every instant, whatever transfers, removals,
\* departures and dissolutions race; the Role checks read before the write can all
\* be stale (transfer_ownership, DELETE_MEMBER, SET_MEMBER_ROLE).
ExactlyOneOwner ==
  group = "live" => /\ \E u \in User : role[u] = "owner"
                    /\ \A u, w \in User : role[u] = "owner" /\ role[w] = "owner" => u = w

\* A dissolved group has no membership left: an invite that was already past its
\* checks can not put a row back (ON DELETE CASCADE and the foreign key).
NoOrphanMembership == group # "live" => \A u \in User : role[u] = "none"

Roles == INSTANCE GroupRoles

\* Every interleaving of the handlers is a history of single role changes that
\* keep the owner: none removes or re-ranks an owner, and ownership moves from
\* the owner to a Participant in one step.
ImplementsRoles == Roles!Spec

\* Every request is answered, although send, transfer and dissolve lock member
\* rows in different orders and can wait for each other in a circle.
HandlersEnd == \A t \in Task : (pc[t] # "idle") ~> (pc[t] = "idle")

\* service.rs says in leave_group that a non-owner whose leave ends the group "is
\* also the last Participant".  It fails: the same User leaving on two Devices, or
\* removed meanwhile, counts one Participant who is someone else.
LeaveEndsOnlyEmptyGroups ==
  [][\A t \in Task :
       pc[t] = "cascade" /\ req[t].op = "leave" /\ group' # group
       => Participants \subseteq {req[t].by}]_vars
=============================================================================
