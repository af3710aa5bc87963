------------------------------ MODULE Requests ------------------------------
(***************************************************************************)
(* One request that reads, from its bearer token to its answer: GET         *)
(* /conversations, the receipts of GET /conversations/{id}/messages, GET    *)
(* /presence and /auth/me, and the gate in front of the requests that need  *)
(* a verified address.  Each is several statements, each on its own         *)
(* snapshot, and everything it reads may change between them.               *)
(***************************************************************************)
EXTENDS Naturals, Sequences, FiniteSets, Filtering

CONSTANTS Pair,        \* the Users of the Direct Conversation; all three are in the Group
          Third,       \* the other member of the Group
          MaxQuery,    \* MAX_PRESENCE_QUERY, scaled down
          MaxChanges   \* bound: changes while a request runs

User == Pair \cup {Third}
NoId == "blank"

\* An id of a User is not blank.
ASSUME RequestsAssumption ==
  Third \notin Pair /\ NoId \notin User /\ MaxQuery \in Nat \ {0} /\ MaxChanges \in Nat

VARIABLES rows,        \* conversation_members: [c, u, unread, receipt]
          lastSeq,      \* [conversation -> its last Sequence Number]
          reachable,   \* Users with a registered connection
          stamped,     \* [User -> user_presence.last_seen_at, 0 without a row]
          usable,      \* Users whose session row is neither revoked nor expired
          verified,    \* Users with email_verified_at
          asking,      \* the request: who asks for what, where it is, what it holds
          since,       \* ghost: what has been true at some moment since it was made
          always,      \* ghost: what has been true all along
          changes

requestVars == <<rows, lastSeq, reachable, stamped, usable, verified, asking, since, always, changes>>
tables == <<rows, lastSeq, reachable, stamped, usable, verified>>

RequestsInit ==
  /\ rows = {[c |-> "direct", u |-> u, unread |-> 0, receipt |-> 0] : u \in Pair}
       \cup {[c |-> "group", u |-> u, unread |-> 0, receipt |-> 0] : u \in User}
  /\ lastSeq = [c \in {"direct", "group"} |-> 0]
  /\ reachable = {} /\ stamped = [u \in User |-> 0]
  /\ usable = User /\ verified = {}
  /\ asking = [pc |-> "none"]
  /\ since = {} /\ always = {} /\ changes = 0

-----------------------------------------------------------------------------
(* What the statements read. *)

RowsOf(u) == {r \in rows : r.u = u}
In(c) == {r.u : r \in {s \in rows : s.c = c}}

\* The row of u in a Direct Conversation names the peer; there is one.
DirectSummaries(u) ==
  {[c |-> r.c, unread |-> r.unread, of |-> p] : r \in {s \in RowsOf(u) : s.c = "direct"},
                                                p \in In("direct") \ {u}}

\* ... and in a Group the Participants, counted in the same statement.
GroupSummaries(u) ==
  {[c |-> r.c, unread |-> r.unread, of |-> Cardinality(In("group"))] :
     r \in {s \in RowsOf(u) : s.c = "group"}}

\* The others' public receipts; no marker is among the columns.
ReceiptRows(c, u) == {[u |-> r.u, receipt |-> r.receipt] : r \in {s \in rows : s.c = c /\ s.u # u}}

\* Whoever shares a Conversation with u.
Audience(u) == {r.u : r \in {s \in rows : \E mine \in RowsOf(u) : mine.c = s.c}} \ {u}

\* Everything a request of u may be told, and what it rests on.
Facts(u) ==
  {<<"session">> : s \in usable \cap {u}} \cup {<<"verified">> : s \in verified \cap {u}}
  \cup {<<"summary", s>> : s \in DirectSummaries(u) \cup GroupSummaries(u)}
  \cup {<<"member", r.c>> : r \in RowsOf(u)}
  \cup (UNION {{<<"receipt", c, r>> : r \in ReceiptRows(c, u)} : c \in {"direct", "group"}})
  \cup {<<"peer", p>> : p \in Audience(u)}
  \cup {<<"status", p, p \in reachable>> : p \in User}
  \cup {<<"instant", p, stamped[p]>> : p \in User}

Witness ==
  IF asking'.pc \in {"none", "answered"} THEN UNCHANGED <<since, always>>
  ELSE since' = since \cup Facts(asking.who)' /\ always' = always \cap Facts(asking.who)'

-----------------------------------------------------------------------------
(* The request. *)

\* parse_user_ids: blanks and repeats dropped, in the order asked.
ParseUserIds(raw) ==
  Filtered(raw, {i \in DOMAIN raw : raw[i] # NoId /\ \A j \in 1 .. i - 1 : raw[j] # raw[i]})

Reach(pc, is, got) ==
  asking' = [pc |-> pc, who |-> asking.who, of |-> asking.of, raw |-> asking.raw, is |-> is, got |-> got]
Answered(is, got) == Reach("answered", is, got)
GoOn(pc, got) == Reach(pc, "open", got)

\* What the Authorization header may carry, and bearer_token's view of it.
Tokens == {"absent", "another scheme", "forged", "expired", "signed"}
Bearer(token) == token \notin {"absent", "another scheme"}

\* verify_access: the signature and the expiry; then the session's row.
VerifyAccess(token) == token = "signed"
SessionFound(u) == u \in usable

AskFor(who, of, raw) ==
  /\ asking.pc = "none"
  /\ asking' = [pc |-> "token", who |-> who, of |-> of, raw |-> raw, is |-> "open", got |-> {}]
  /\ since' = Facts(who) /\ always' = Facts(who)
  /\ UNCHANGED <<tables, changes>>

\* A logout is visible to the very next request.
Authenticate(token) ==
  /\ asking.pc = "token"
  /\ IF Bearer(token) /\ VerifyAccess(token) /\ SessionFound(asking.who)
     THEN GoOn(asking.of, {}) ELSE Answered("unauthenticated", {})
  /\ UNCHANGED <<tables, changes>> /\ Witness

\* authenticate_verified goes on to the account's row.
CheckVerified ==
  /\ asking.pc = "reach"
  /\ Answered(IF asking.who \in verified THEN "served" ELSE "unverified", {})
  /\ UNCHANGED <<tables, changes>> /\ Witness

ReadProfile ==
  /\ asking.pc = "me"
  /\ Answered("served", asking.who \in verified)
  /\ UNCHANGED <<tables, changes>> /\ Witness

\* list_conversations: two projections, read separately and merged.
ReadDirect ==
  /\ asking.pc = "list"
  /\ GoOn("groups", DirectSummaries(asking.who))
  /\ UNCHANGED <<tables, changes>> /\ Witness

\* Mutant: a list that found Direct Conversations is taken for complete.
ReadGroups_short ==
  /\ asking.pc = "groups"
  /\ Answered("served", IF asking.got # {} THEN asking.got ELSE GroupSummaries(asking.who))
  /\ UNCHANGED <<tables, changes>> /\ Witness
ReadGroups ==
  /\ asking.pc = "groups"
  /\ Answered("served", asking.got \cup GroupSummaries(asking.who))
  /\ UNCHANGED <<tables, changes>> /\ Witness

\* list_receipts, as a history page begins: the membership, then the rows.
CheckMember ==
  /\ asking.pc = "receipts"
  /\ IF asking.who \in In(asking.raw[1]) THEN GoOn("rows", {}) ELSE Answered("refused", {})
  /\ UNCHANGED <<tables, changes>> /\ Witness

ReadReceipts ==
  /\ asking.pc = "rows"
  /\ Answered("served", ReceiptRows(asking.raw[1], asking.who))
  /\ UNCHANGED <<tables, changes>> /\ Witness

\* presence_for: the requested Users the caller may see, in the order asked, ...
ReadVisible ==
  /\ asking.pc = "presence"
  /\ LET asked == ParseUserIds(asking.raw) IN
     IF Len(asked) \notin 1 .. MaxQuery THEN Answered("refused", {})
     ELSE GoOn("instants", Filtered(asked, {i \in DOMAIN asked : asked[i] \in Audience(asking.who)}))
  /\ UNCHANGED <<tables, changes>> /\ Witness

\* ... their stored instants, ...
ReadInstants ==
  /\ asking.pc = "instants"
  /\ GoOn("statuses", [i \in DOMAIN asking.got |-> [p |-> asking.got[i], at |-> stamped[asking.got[i]]]])
  /\ UNCHANGED <<tables, changes>> /\ Witness

\* ... and the registry, User by User.
LookOnline ==
  LET done == Cardinality({i \in DOMAIN asking.got : "online" \in DOMAIN asking.got[i]}) IN
  /\ asking.pc = "statuses"
  /\ IF done = Len(asking.got) THEN Answered("served", asking.got)
     ELSE LET view == asking.got[done + 1] IN
          GoOn("statuses", [asking.got EXCEPT ![done + 1] =
                              [p |-> view.p, online |-> view.p \in reachable,
                               at |-> IF view.p \in reachable THEN 0 ELSE view.at]])
  /\ UNCHANGED <<tables, changes>> /\ Witness

-----------------------------------------------------------------------------
(* What happens meanwhile; other modules have it in full. *)

NewMessage(c, u) ==
  /\ u \in In(c)
  /\ lastSeq' = [lastSeq EXCEPT ![c] = @ + 1]
  /\ rows' = {IF r.c = c /\ r.u # u THEN [r EXCEPT !.unread = @ + 1] ELSE r : r \in rows}
  /\ UNCHANGED <<reachable, stamped, usable, verified>>

MarkRead(c, u) ==
  /\ rows' = {IF r.c = c /\ r.u = u THEN [r EXCEPT !.unread = 0, !.receipt = lastSeq[c]] ELSE r : r \in rows}
  /\ rows' # rows
  /\ UNCHANGED <<lastSeq, reachable, stamped, usable, verified>>

LeaveOrReturn(u) ==
  /\ rows' = IF u \in In("group") THEN {r \in rows : r.c # "group" \/ r.u # u}
             ELSE rows \cup {[c |-> "group", u |-> u, unread |-> 0, receipt |-> 0]}
  /\ UNCHANGED <<lastSeq, reachable, stamped, usable, verified>>

\* A connection registers, or the last one goes and its instant is stamped.
ComeOrGo(u) ==
  /\ reachable' = IF u \in reachable THEN reachable \ {u} ELSE reachable \cup {u}
  /\ stamped' = IF u \in reachable THEN [stamped EXCEPT ![u] = @ + 1] ELSE stamped
  /\ UNCHANGED <<rows, lastSeq, usable, verified>>

RevokeSession(u) == usable' = usable \ {u} /\ UNCHANGED <<rows, lastSeq, reachable, stamped, verified>>
VerifyAddress(u) == verified' = verified \cup {u} /\ UNCHANGED <<rows, lastSeq, reachable, stamped, usable>>

Change ==
  /\ asking.pc # "answered" /\ changes < MaxChanges
  /\ changes' = changes + 1
  /\ UNCHANGED asking
  /\ \E u \in User :
       \/ \E c \in {"direct", "group"} : NewMessage(c, u) \/ MarkRead(c, u)
       \/ LeaveOrReturn(u) \/ ComeOrGo(u) \/ RevokeSession(u) \/ VerifyAddress(u)
  /\ Witness

Queries ==
  {<<>>, <<NoId>>, <<Third, NoId, Third>>}
  \cup {<<p, Third>> : p \in Pair} \cup {<<p, q, Third>> : p, q \in Pair}

\* The routes by their gates and their paths.
AskForProfile(who) == AskFor(who, "me", <<>>)
AskForList(who) == AskFor(who, "list", <<>>)
AskToReachOut(who) == AskFor(who, "reach", <<>>)
AskForReceipts(who, c) == AskFor(who, "receipts", <<c>>)

RequestsNext ==
  \/ \E who \in User :
       \/ AskForProfile(who) \/ AskForList(who) \/ AskToReachOut(who)
       \/ \E c \in {"direct", "group"} : AskForReceipts(who, c)
       \/ \E raw \in Queries : AskFor(who, "presence", raw)
  \/ \E token \in Tokens : Authenticate(token)
  \/ CheckVerified \/ ReadProfile
  \/ ReadDirect \/ ReadGroups
  \/ CheckMember \/ ReadReceipts
  \/ ReadVisible \/ ReadInstants \/ LookOnline
  \/ Change

RequestsTypeOK ==
  /\ \A r, s \in rows : r.c = s.c /\ r.u = s.u => r = s
  /\ \A r \in rows : r.receipt <= lastSeq[r.c] /\ r.unread <= lastSeq[r.c]
  /\ always \subseteq since

-----------------------------------------------------------------------------
\* An answer holds only what was true at some moment of the request, for a session that
\* was usable at some moment of it, and leaves out nothing that was true all along: no
\* Conversation between the two lists, no receipt, no peer.  The unread numbers, statuses
\* and instants of one answer need not be of one moment.
Requested(p) == \E i \in DOMAIN asking.raw : asking.raw[i] = p

AnswersWereTrue ==
  asking.pc = "answered" /\ asking.is = "served" =>
    /\ <<"session">> \in since
    /\ asking.of = "reach" => <<"verified">> \in since
    /\ asking.of = "me" => IF asking.got THEN <<"verified">> \in since ELSE <<"verified">> \notin always
    /\ asking.of = "list" =>
         /\ \A s \in asking.got : <<"summary", s>> \in since
         /\ \A fact \in always : fact[1] = "summary" => fact[2] \in asking.got
    /\ asking.of = "receipts" =>
         /\ <<"member", asking.raw[1]>> \in since
         /\ \A r \in asking.got : <<"receipt", asking.raw[1], r>> \in since
         /\ \A fact \in always : fact[1] = "receipt" /\ fact[2] = asking.raw[1] => fact[3] \in asking.got
    /\ asking.of = "presence" =>
         /\ \A i \in DOMAIN asking.got :
              LET view == asking.got[i] IN
              /\ Requested(view.p) /\ <<"peer", view.p>> \in since
              /\ <<"status", view.p, view.online>> \in since
              /\ ~ view.online => <<"instant", view.p, view.at>> \in since
              /\ \A j \in DOMAIN asking.got : asking.got[j].p = view.p => i = j
         /\ \A fact \in always :
              fact[1] = "peer" /\ Requested(fact[2]) => \E i \in DOMAIN asking.got : asking.got[i].p = fact[2]
=============================================================================
