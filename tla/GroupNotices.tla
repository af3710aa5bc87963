---------------------------- MODULE GroupNotices ----------------------------
(***************************************************************************)
(* Who is told about a change of a Group, and what their screens make of    *)
(* it: the tail of every group operation of jiuyue-chat's service.rs, the   *)
(* fan-out of the HTTP routes, and the chat store of the client.            *)
(*                                                                         *)
(* A request writes, then reads its audience, then delivers notice by       *)
(* notice, then reads the panel it answers with; other requests run in      *)
(* between.  The events of a screen arrive in the order they are delivered  *)
(* (Delivery models their loss).  Roles are GroupMembership's: here the     *)
(* founder keeps the group and everyone else is a member.                   *)
(***************************************************************************)
EXTENDS Integers, Sequences, FiniteSets

CONSTANTS Fellow,          \* Users other than the founder
          Founder,
          Request,         \* HTTP requests in flight at once
          GroupCap,        \* MAX_GROUP_MEMBERS
          MaxRequests      \* bound: requests made

ASSUME NoticeAssumption == IsFiniteSet(Fellow) /\ GroupCap \in Nat /\ MaxRequests \in Nat \ {0}

Everyone == Fellow \cup {Founder}
NoOne == {}

VARIABLES alive,           \* does the conversations row exist
          members,         \* conversation_members
          notice,          \* conversations.announcement, a number; 0 for none
          listed,          \* [Everyone -> the group in their Conversation list]
          request,         \* the requests' local variables
          made,            \* requests made so far
          tangled          \* ghost: two requests have overlapped, or one failed

groupVars == <<alive, members, notice, listed, request, made, tangled>>

Absent == [shown |-> FALSE, count |-> 0, notice |-> 0]
Row(n, text) == [shown |-> TRUE, count |-> n, notice |-> text]

NoRequest == [pc |-> "idle", op |-> "none", by |-> Founder, who |-> NoOne, left |-> NoOne,
              todo |-> <<>>, panel |-> Absent]

NoticeInit ==
  /\ alive = FALSE
  /\ members = NoOne
  /\ notice = 0
  /\ listed = [u \in Everyone |-> Absent]
  /\ request = [q \in Request |-> NoRequest]
  /\ made = 0
  /\ tangled = FALSE

Note(event, to, who, row) == [event |-> event, to |-> to, who |-> who, row |-> row]

On(q, pc) == request[q].pc = pc
Turn(q, pc) == request' = [request EXCEPT ![q].pc = pc]

\* An early return or an error of a statement: what is committed stays.
Refused(q) ==
  /\ request' = [request EXCEPT ![q] = NoRequest]
  /\ UNCHANGED <<alive, members, notice, listed, made>>

-----------------------------------------------------------------------------
(* The request: permission, then the write *)

\* Who may ask for what, of whom: require_group_role and ensure.
Allowed(op, by, who) ==
  CASE op = "invite"   -> by = Founder /\ who \subseteq Fellow /\ who # NoOne
    [] op = "remove"   -> by = Founder /\ who \subseteq Fellow /\ Cardinality(who) = 1
    [] op = "leave"    -> who = {by}
    [] OTHER           -> by = Founder /\ who = NoOne

FirstStatement(op) == CASE op \in {"invite", "leave"} -> "count"
                        [] op = "dissolve" -> "ending"
                        [] OTHER -> "write"

\* create_group: three Participants at least, in one transaction; each of them gets the
\* Conversation, and so does the answer.
CreateGroupOf(q, who) ==
  /\ On(q, "idle") /\ made = 0
  /\ who \subseteq Fellow /\ Cardinality(who) + 1 \in 3 .. GroupCap
  /\ alive' = TRUE
  /\ members' = who \cup {Founder}
  /\ request' = [request EXCEPT ![q] = [NoRequest EXCEPT
       !.pc = "deliver", !.op = "create", !.panel = Row(Cardinality(who) + 1, 0),
       !.todo = <<Note("conversation", members', NoOne, Row(Cardinality(who) + 1, 0))>>]]
  /\ made' = 1
  /\ UNCHANGED <<notice, listed, tangled>>

\* An invitation is sent with the Conversation's row as the permission check read it.
MakeRequest(q, op, by, who) ==
  /\ On(q, "idle") /\ made < MaxRequests
  /\ alive /\ by \in members /\ Allowed(op, by, who)
  /\ request' = [request EXCEPT ![q] = [NoRequest EXCEPT
       !.pc = FirstStatement(op), !.op = op, !.by = by, !.who = who, !.left = who,
       !.panel = IF op = "invite" THEN Row(0, notice) ELSE Absent]]
  /\ made' = made + 1
  /\ tangled' = (tangled \/ \E r \in Request : ~ On(r, "idle"))
  /\ UNCHANGED <<alive, members, notice, listed>>

\* member_count, then AlreadyMember and the cap of an invitation, or ensure_leave; the
\* founder who is alone ends the group by leaving it.
CountParticipants(q) ==
  LET r == request[q]
      n == Cardinality(members)
      fits == r.who \cap members = NoOne /\ n + Cardinality(r.who) <= GroupCap
      alone == n <= 1
  IN
  /\ On(q, "count")
  /\ UNCHANGED tangled
  /\ \/ /\ IF r.op = "invite" THEN fits ELSE r.by # Founder \/ alone
        /\ Turn(q, IF r.op = "leave" /\ alone THEN "ending" ELSE "write")
        /\ UNCHANGED <<alive, members, notice, listed, made>>
     \/ /\ IF r.op = "invite" THEN ~ fits ELSE r.by = Founder /\ ~ alone
        /\ Refused(q)

\* INSERT_MEMBER_WITH_ROLE, a statement per invited User: a duplicate or a missing
\* Conversation fails the request, the rows before it stay and nobody is told.
InviteNext(q) ==
  /\ On(q, "write") /\ request[q].op = "invite"
  /\ \E u \in request[q].left :
       \/ /\ alive /\ u \notin members
          /\ members' = members \cup {u}
          /\ request' = [request EXCEPT ![q] = [request[q] EXCEPT
               !.left = @ \ {u}, !.pc = IF request[q].left = {u} THEN "audience" ELSE "write"]]
          /\ UNCHANGED <<alive, notice, listed, made, tangled>>
       \/ /\ ~ (alive /\ u \notin members)
          /\ Refused(q) /\ tangled' = TRUE

\* DELETE_MEMBER: a row that is gone already is an error.
DeleteNamed(q) ==
  /\ On(q, "write") /\ request[q].op \in {"remove", "leave"}
  /\ \/ /\ request[q].who \subseteq members
        /\ members' = members \ request[q].who
        /\ Turn(q, "audience")
        /\ UNCHANGED <<alive, notice, listed, made, tangled>>
     \/ /\ ~ request[q].who \subseteq members
        /\ Refused(q) /\ UNCHANGED tangled

\* SET_ANNOUNCEMENT; the text is the number of the request.
SetAnnouncement(q) ==
  /\ On(q, "write") /\ request[q].op = "announce"
  /\ \/ /\ alive
        /\ notice' = made
        /\ request' = [request EXCEPT ![q] = [@ EXCEPT !.pc = "audience", !.panel = Row(0, made)]]
        /\ UNCHANGED <<alive, members, listed, made, tangled>>
     \/ ~ alive /\ Refused(q) /\ UNCHANGED tangled

-----------------------------------------------------------------------------
(* The audience *)

\* Some order in which the loop comes across the Users of S.
Orders(S) == {f \in [1 .. Cardinality(S) -> S] : \A u \in S : \E i \in DOMAIN f : f[i] = u}

\* Mutant: only the invited hear who joined.
Invitation_tells_the_invited(s, text) ==
  [i \in DOMAIN s |-> Note("conversation", {s[i]}, NoOne, Row(Cardinality(members), text))]
  \o [i \in DOMAIN s |-> Note("joined", {s[i]}, {s[i]}, Absent)]

\* The Users whose list changes get the Conversation; everyone hears who joined.
Invitation(s, text) ==
  [i \in DOMAIN s |-> Note("conversation", {s[i]}, NoOne, Row(Cardinality(members), text))]
  \o [i \in DOMAIN s |-> Note("joined", members, {s[i]}, Absent)]

Announcement(text) ==
  <<Note("conversation", members, NoOne, Row(Cardinality(members), text))>>

Departure(who) == <<Note("departed", members \cup who, who, Absent)>>

Dissolution == <<Note("dissolved", members, NoOne, Absent)>>

\* list_members, or participants: after the write, but before the delete of a dissolution.
ReadAudience(q) ==
  LET r == request[q] IN
  /\ On(q, "audience")
  /\ \/ /\ r.op = "invite" => r.who \subseteq members
        /\ \E s \in Orders(r.who) :
             request' = [request EXCEPT ![q] = [r EXCEPT
               !.pc = "deliver",
               !.todo = CASE r.op = "invite" -> Invitation(s, r.panel.notice)
                          [] r.op = "announce" -> Announcement(r.panel.notice)
                          [] OTHER -> Departure(r.who)]]
        /\ UNCHANGED <<alive, members, notice, listed, made, tangled>>
     \/ /\ r.op = "invite" /\ ~ r.who \subseteq members
        /\ Refused(q) /\ UNCHANGED tangled

ReadLastAudience(q) ==
  /\ On(q, "ending")
  /\ request' = [request EXCEPT ![q] = [@ EXCEPT !.pc = "delete", !.todo = Dissolution]]
  /\ UNCHANGED <<alive, members, notice, listed, made, tangled>>

\* DELETE_CONVERSATION: the memberships go with it.
DeleteGroup(q) ==
  /\ On(q, "delete")
  /\ \/ /\ alive
        /\ alive' = FALSE
        /\ members' = NoOne
        /\ Turn(q, "deliver")
        /\ UNCHANGED <<notice, listed, made, tangled>>
     \/ ~ alive /\ Refused(q) /\ UNCHANGED tangled

-----------------------------------------------------------------------------
(* The fan-out and the screens *)

\* applyConversationCreated and applyMembershipChanged, on the screen of u.
Seen(row, u, n) ==
  CASE n.event = "conversation" -> n.row
    [] n.event = "joined" -> IF row.shown THEN [row EXCEPT !.count = @ + 1] ELSE row
    [] n.event = "departed" -> IF u \in n.who \/ ~ row.shown THEN Absent
                               ELSE [row EXCEPT !.count = IF @ = 0 THEN 0 ELSE @ - 1]
    [] n.event = "dissolved" -> Absent

\* fan_out_membership: one notice, to every recipient.
DeliverNotice(q) ==
  /\ On(q, "deliver") /\ request[q].todo # <<>>
  /\ LET n == Head(request[q].todo) IN
     listed' = [u \in Everyone |-> IF u \in n.to THEN Seen(listed[u], u, n) ELSE listed[u]]
  /\ request' = [request EXCEPT ![q].todo = Tail(@)]
  /\ UNCHANGED <<alive, members, notice, made, tangled>>

\* group_info for the answer, which a caller who is out of the group does not get.  A
\* creation is answered with what it wrote, a departure and a dissolution with nothing.
Unread == {"create", "leave", "dissolve"}

ReadPanel(q) ==
  LET r == request[q] IN
  /\ On(q, "deliver") /\ r.todo = <<>>
  /\ UNCHANGED tangled
  /\ \/ /\ r.op \notin Unread => r.by \in members
        /\ request' = [request EXCEPT ![q] = [r EXCEPT
             !.pc = "answer",
             !.panel = IF r.op \in Unread THEN r.panel ELSE Row(Cardinality(members), notice)]]
        /\ UNCHANGED <<alive, members, notice, listed, made>>
     \/ /\ r.op \notin Unread /\ r.by \notin members
        /\ Refused(q)

\* applyGroupInfo and dropConversation, on the caller's screen.
TakeAnswer(q) ==
  /\ On(q, "answer")
  /\ listed' = [listed EXCEPT ![request[q].by] = request[q].panel]
  /\ request' = [request EXCEPT ![q] = NoRequest]
  /\ UNCHANGED <<alive, members, notice, made, tangled>>

\* A failed statement, a dropped request or a dead server.
RequestLost(q) ==
  /\ ~ On(q, "idle")
  /\ Refused(q)
  /\ tangled' = TRUE

NoticeNext ==
  \E q \in Request :
    \/ \E op \in {"invite", "remove", "leave", "announce", "dissolve"},
          by \in Everyone, who \in (SUBSET Fellow) \cup {{Founder}} : MakeRequest(q, op, by, who)
    \/ \E who \in SUBSET Fellow : CreateGroupOf(q, who)
    \/ CountParticipants(q) \/ InviteNext(q) \/ DeleteNamed(q) \/ SetAnnouncement(q)
    \/ ReadAudience(q) \/ ReadLastAudience(q) \/ DeleteGroup(q) \/ DeliverNotice(q)
    \/ ReadPanel(q) \/ TakeAnswer(q) \/ RequestLost(q)

NoticeSpec == NoticeInit /\ [][NoticeNext]_groupVars

-----------------------------------------------------------------------------
ScreenRow == [shown : BOOLEAN, count : Nat, notice : 0 .. MaxRequests]

NoticeTypeOK ==
  /\ alive \in BOOLEAN
  /\ members \subseteq Everyone
  /\ notice \in 0 .. MaxRequests
  /\ listed \in [Everyone -> ScreenRow]
  /\ made \in 0 .. MaxRequests
  /\ tangled \in BOOLEAN
  /\ \A q \in Request :
       /\ request[q].by \in Everyone
       /\ request[q].who \cup request[q].left \subseteq Everyone
       /\ request[q].panel \in ScreenRow
       /\ \A i \in DOMAIN request[q].todo : request[q].todo[i].to \subseteq Everyone

Quiet == ~ tangled /\ \A q \in Request : On(q, "idle")

\* As long as requests neither overlapped nor failed, exactly the Participants see the
\* group, with the stored announcement, and the group is within its cap.  Two that overlap
\* may leave a removed User with the group on the screen or push the group past the cap.
OrderlyScreensAgree ==
  /\ Quiet => \A u \in Everyone : /\ listed[u].shown <=> u \in members
                                  /\ u \in members => listed[u].notice = notice
  /\ ~ tangled => Cardinality(members) <= GroupCap

\* The member count on a screen never falls short of the Participants: a join that is
\* told after the Conversation, or in it, is missed by nobody.  (It may exceed them: an
\* invited User's Conversation counts them, and the Joined event counts them again.)
CountsNeverFallShort ==
  Quiet => \A u \in members : listed[u].count >= Cardinality(members)
=============================================================================
