---------------------------- MODULE AccountProofs ----------------------------
(***************************************************************************)
(* What holds of sessions, links and hashes for any Users, rows, requests   *)
(* in flight and number of permits.                                         *)
(***************************************************************************)
EXTENDS Account, FiniteSetTheorems, TLAPS

\* Whoever holds a link, or proved a password, is an account.
KnownUsers ==
  /\ \A r \in Req : (req[r].kind \in {"verify", "reset"} \/ req[r].gen > 0) /\ req[r] # Idle
                      => req[r].user \in registered
  /\ \A l \in Link : link[l].status # "absent" => link[l].user \in registered

\* Each step of a request knows the row it works on.
RowsInHand ==
  \A r \in Req :
    /\ At(r, "refresh", "touch") => req[r].id \in Session /\ session[req[r].id] # NoSession
    /\ Acting(r, req[r].id) => req[r].id \in Link
    /\ req[r].pc = "mark" => req[r].kind = "verify"
    /\ req[r].pc \in {"queue", "hash", "hashed"} => req[r].kind \in {"register", "login", "reset"}
    /\ req[r].pc \in {"issue", "retire", "insert"} => req[r].kind \in Purpose
    /\ \A l \in req[r].locked : link[l].status # "absent"

\* A permit is free, with the hash of a request, or with one that lost its request.
PermitsAreKept == permits + Cardinality(Hashing) + orphans = MaxHashes

\* What a request or a link has seen is there, and what a retiring request has seen of its
\* own kind is spent or about to be.
WhatIssuesSee ==
  /\ \A l \in Link : \A k \in link[l].seen : link[k].status # "absent"
  /\ \A r \in Req : \A k \in req[r].seen :
       /\ link[k].status # "absent"
       /\ req[r].pc \in {"retire", "insert"} /\ link[k].user = req[r].user
            /\ link[k].purpose = req[r].kind => k \in req[r].locked \/ link[k].status = "spent"

\* An effect is written through a spent link whose mail was sent, never through a live one.
EffectsAreSpent ==
  /\ \A l \in Link : link[l].effects > 0 => link[l].status = "spent"
  /\ \A l \in Link : \A r \in Req : Acting(r, l) => link[l].mail = "sent"

IInv == /\ TypeOK
        /\ KnownUsers
        /\ RowsInHand
        /\ PermitsAreKept
        /\ WhatIssuesSee
        /\ EffectsAreSpent
        /\ OneEffectPerLink
        /\ OnlyOverlappingIssuesCoexist
        /\ ResetEndsEarlierSessions

LEMMA InitInvariant == Init => IInv
<1> SUFFICES ASSUME Init PROVE IInv
  OBVIOUS
<1> USE AccountAssumption DEF Init
<1>1. TypeOK
  BY DEF TypeOK, Request, Idle, NoSession, NoLink
<1>2. KnownUsers /\ RowsInHand /\ WhatIssuesSee /\ EffectsAreSpent
  BY DEF KnownUsers, RowsInHand, WhatIssuesSee, EffectsAreSpent, At, Acting, Idle, NoLink, Purpose
<1>3. PermitsAreKept
  <2>1. Hashing = {}
    BY DEF Hashing, Idle
  <2> QED
    BY <2>1, FS_EmptySet DEF PermitsAreKept
<1>4. OneEffectPerLink /\ OnlyOverlappingIssuesCoexist /\ ResetEndsEarlierSessions
  BY DEF OneEffectPerLink, OneEffect, EffectNeedsItsLink, OnlyOverlappingIssuesCoexist,
         ResetEndsEarlierSessions, Acting, At, Active, Idle, NoLink, NoSession
<1> QED
  BY <1>1, <1>2, <1>3, <1>4 DEF IInv

-----------------------------------------------------------------------------
\* Every row of the three tables is of its type or is the empty one.
RowsTyped ==
  /\ \A r \in Req : req[r] \in Request \/ req[r] = Idle
  /\ \A s \in Session : session[s] \in SessionRow \/ session[s] = NoSession
  /\ \A l \in Link : link[l] \in LinkRow \/ link[l] = NoLink

LEMMA TypedRows == TypeOK => RowsTyped
  BY DEF TypeOK, RowsTyped

\* A request under way has a row that is not the empty one.
LEMMA UnderWay ==
  ASSUME TypeOK, NEW r \in Req, req[r].pc # "idle" PROVE req[r] \in Request
  BY TypedRows DEF RowsTyped, Idle

\* The transitions of one request, of one session and of one link.
LEMMA SetRequest ==
  ASSUME TypeOK, NEW r \in Req, NEW q \in Request \cup {Idle}, req' = [req EXCEPT ![r] = q]
  PROVE  req' \in [Req -> Request \cup {Idle}]
  BY DEF TypeOK

LEMMA SetSession ==
  ASSUME TypeOK, NEW s \in Session, NEW row \in SessionRow, row.user \in registered',
         registered \subseteq registered', session' = [session EXCEPT ![s] = row]
  PROVE  /\ session' \in [Session -> SessionRow \cup {NoSession}]
         /\ \A t \in Session : session'[t] # NoSession => session'[t].user \in registered'
  BY DEF TypeOK

LEMMA TypeStep == IInv /\ [Next]_vars => TypeOK'
<1> SUFFICES ASSUME IInv, [Next]_vars PROVE TypeOK'
  OBVIOUS
<1>1. TypeOK /\ KnownUsers /\ RowsInHand /\ RowsTyped
  BY TypedRows DEF IInv
<1> USE <1>1, AccountAssumption DEF Start, Goto, Done, At, accounts, hasher
<1>2. CASE UNCHANGED vars
  BY <1>2 DEF vars, TypeOK
<1>3. ASSUME NEW r \in Req, SessionRoutes(r) PROVE TypeOK'
  <2>1. ASSUME NEW u \in User, Register(r, u) \/ \E right \in BOOLEAN : Login(r, u, right)
        PROVE  TypeOK'
    BY <2>1 DEF Register, Login, TypeOK, Request
  <2>2. ASSUME NEW s \in Session, Refresh(r, s) PROVE TypeOK'
    <3>1. session[s] \in SessionRow
      BY <2>2 DEF RowsTyped, Refresh, Active, NoSession
    <3> QED
      BY <2>2, <3>1 DEF Refresh, TypeOK, Request, SessionRow
  <2> QED
    BY <1>3, <2>1, <2>2 DEF SessionRoutes
<1>4. ASSUME NEW r \in Req, LinkRoutes(r) PROVE TypeOK'
  <2>1. CASE \E u \in User : ResendVerification(r, u) \/ ForgotPassword(r, u)
    BY <2>1 DEF ResendVerification, ForgotPassword, TypeOK, Request, Purpose
  <2>2. CASE \E l \in Link : VerifyEmail(r, l) \/ ResetPassword(r, l)
    BY <2>2 DEF VerifyEmail, ResetPassword, Redeem, Redeemable, Spent, LinkRow, NoLink, TypeOK,
                Request, Purpose
  <2> QED
    BY <1>4, <2>1, <2>2 DEF LinkRoutes
<1>5. ASSUME NEW r \in Req, StartHash(r) \/ HashDone(r) PROVE TypeOK'
  BY <1>5 DEF StartHash, HashDone, Idle, TypeOK, Request
<1>6. ASSUME NEW r \in Req, CreateAccount(r) PROVE TypeOK'
  <2>1. req[r] \in Request
    BY <1>6, UnderWay DEF CreateAccount, Idle
  <2> DEFINE u == req[r].user
  <2>2. u \in User /\ registered' = registered \cup {u}
    BY <1>6, <2>1 DEF CreateAccount, Request
  <2>3. PICK s \in Session : session' = [session EXCEPT ![s] = Opened(u, 1)]
    BY <1>6 DEF CreateAccount
  <2>4. Opened(u, 1) \in SessionRow /\ Opened(u, 1).user = u
    BY <2>2 DEF Opened, SessionRow, TypeOK
  <2>5. /\ session' \in [Session -> SessionRow \cup {NoSession}]
        /\ \A t \in Session : session'[t] # NoSession => session'[t].user \in registered'
    BY <2>2, <2>3, <2>4, SetSession
  <2>6. req' \in [Req -> Request \cup {Idle}]
    BY <1>6, <2>1 DEF CreateAccount, TypeOK, Request
  <2> QED
    BY <1>6, <2>2, <2>5, <2>6 DEF CreateAccount, TypeOK
<1>7. ASSUME NEW r \in Req, AddressTaken(r) \/ Reject(r) PROVE TypeOK'
  BY <1>7 DEF AddressTaken, Reject, TypeOK
<1>8. ASSUME NEW r \in Req, OpenSession(r) PROVE TypeOK'
  <2>1. req[r] \in Request
    BY <1>8, UnderWay DEF OpenSession, Idle
  <2>2. PICK s \in Session : session' = [session EXCEPT ![s] = Opened(req[r].user, req[r].gen)]
    BY <1>8 DEF OpenSession
  <2>3. req[r].user \in registered
    BY <1>8 DEF OpenSession, KnownUsers, Idle
  <2>4. Opened(req[r].user, req[r].gen) \in SessionRow
    BY <2>1 DEF Opened, SessionRow, TypeOK, Request
  <2>5. /\ session' \in [Session -> SessionRow \cup {NoSession}]
        /\ \A t \in Session : session'[t] # NoSession => session'[t].user \in registered'
    BY <1>8, <2>2, <2>3, <2>4, SetSession DEF OpenSession, Opened
  <2> QED
    BY <1>8, <2>5 DEF OpenSession, TypeOK
<1>9. ASSUME NEW r \in Req, Touch(r) PROVE TypeOK'
  <2> DEFINE s == req[r].id
  <2>1. s \in Session /\ session[s] \in SessionRow
    BY <1>9 DEF Touch, RowsInHand, RowsTyped
  <2> DEFINE row == [session[s] EXCEPT !.touched = @ \/ session[s].status # "revoked"]
  <2>2. session' = [session EXCEPT ![s] = row]
    BY <1>9 DEF Touch
  <2>3. (session[s].touched \/ session[s].status # "revoked") \in BOOLEAN
    OBVIOUS
  <2>4. row \in SessionRow /\ row.user = session[s].user
    BY <2>1, <2>3 DEF SessionRow
  <2>5. session[s].user \in registered
    BY <2>1 DEF TypeOK, SessionRow, NoSession
  <2>6. registered' = registered
    BY <1>9 DEF Touch
  <2> HIDE DEF row, s
  <2>7. /\ session' \in [Session -> SessionRow \cup {NoSession}]
        /\ \A t \in Session : session'[t] # NoSession => session'[t].user \in registered'
    BY <2>1, <2>2, <2>4, <2>5, <2>6, SetSession
  <2> QED
    BY <1>9, <2>7 DEF Touch, TypeOK
<1>10. ASSUME NEW r \in Req, RetireSnapshot(r) \/ RetireRows(r) PROVE TypeOK'
  <2>1. req[r] \in Request
    BY <1>10, UnderWay DEF RetireSnapshot, RetireRows, Idle
  <2>2. ASSUME RetireSnapshot(r) PROVE req' \in [Req -> Request \cup {Idle}]
    <3> DEFINE seen == {l \in Link : link[l].status # "absent"}
               locked == Outstanding(req[r].user, req[r].kind)
               q == [req[r] EXCEPT !.pc = "retire", !.seen = seen, !.locked = locked]
    <3>1. seen \subseteq Link /\ locked \subseteq Link
      BY DEF Outstanding
    <3>2. req' = [req EXCEPT ![r] = q]
      BY <2>2 DEF RetireSnapshot
    <3> HIDE DEF seen, locked
    <3>3. q \in Request
      BY <2>1, <3>1 DEF Request
    <3> QED
      BY <3>2, <3>3, SetRequest
  <2>3. ASSUME RetireRows(r) PROVE req' \in [Req -> Request \cup {Idle}]
    <3> DEFINE locked == {l \in req[r].locked : link[l].status # "spent"}
               q == [req[r] EXCEPT !.pc = "insert", !.locked = locked]
    <3>1. locked \subseteq Link
      BY <2>1 DEF Request
    <3>2. req' = [req EXCEPT ![r] = q]
      BY <2>3 DEF RetireRows
    <3> HIDE DEF locked
    <3>3. q \in Request
      BY <2>1, <3>1 DEF Request
    <3> QED
      BY <3>2, <3>3, SetRequest
  <2> QED
    BY <1>10, <2>2, <2>3 DEF RetireSnapshot, RetireRows, TypeOK
<1>11. ASSUME NEW r \in Req, IssueCommit(r) PROVE TypeOK'
  <2>1. req[r] \in Request /\ req[r].kind \in Purpose
    BY <1>11, UnderWay DEF IssueCommit, Idle, RowsInHand
  <2>2. \A l \in req[r].locked : l \in Link /\ link[l] \in LinkRow
    BY <1>11, <2>1 DEF RowsInHand, RowsTyped, NoLink, Request
  <2>3. link' \in [Link -> LinkRow \cup {NoLink}]
    BY <1>11, <2>1, <2>2 DEF IssueCommit, TypeOK, Request, LinkRow, Purpose
  <2> QED
    BY <1>11, <2>3 DEF IssueCommit, TypeOK
<1>12. ASSUME NEW r \in Req, MarkVerified(r) \/ UpdatePassword(r) PROVE TypeOK'
  <2> DEFINE l == req[r].id
  <2>1. req[r] \in Request /\ Acting(r, l) /\ req[r].user \in registered
    BY <1>12, UnderWay DEF MarkVerified, UpdatePassword, Idle, Acting, KnownUsers
  <2>2. l \in Link /\ link[l] \in LinkRow
    BY <2>1 DEF RowsInHand, RowsTyped, IInv, OneEffectPerLink, OneEffect, NoLink
  <2>3. link' \in [Link -> LinkRow \cup {NoLink}]
    BY <1>12, <2>2 DEF MarkVerified, UpdatePassword, TypeOK, LinkRow
  <2>4. req' \in [Req -> Request \cup {Idle}]
    BY <1>12, <2>1 DEF MarkVerified, UpdatePassword, TypeOK, Request
  <2> QED
    BY <1>12, <2>1, <2>3, <2>4 DEF MarkVerified, UpdatePassword, TypeOK, Request
<1>13. ASSUME NEW r \in Req, RevokeAll(r) PROVE TypeOK'
  <2>1. req[r] \in Request
    BY <1>13, UnderWay DEF RevokeAll, Idle
  <2>2. \A s \in Session : \/ session'[s] = session[s]
                           \/ session'[s] = Revoked(session[s]) /\ session[s] \in SessionRow
    <3>1. req[r].user # "none"
      BY <2>1 DEF Request
    <3>2. TAKE s \in Session
    <3>3. CASE session[s].user = req[r].user
      <4>1. session[s] # NoSession
        BY <3>1, <3>3 DEF NoSession
      <4> QED
        BY <1>13, <3>3, <4>1 DEF RevokeAll, RowsTyped
    <3>4. CASE session[s].user # req[r].user
      BY <1>13, <3>4 DEF RevokeAll
    <3> QED
      BY <3>3, <3>4
  <2>3. \A s \in Session : session[s] \in SessionRow => /\ Revoked(session[s]) \in SessionRow
                                                       /\ Revoked(session[s]).user = session[s].user
    BY DEF Revoked, SessionRow
  <2>4. session' \in [Session -> SessionRow \cup {NoSession}]
    BY <1>13, <2>2, <2>3 DEF RevokeAll, RowsTyped
  <2>5. \A s \in Session : session'[s] # NoSession => session'[s].user \in registered
    <3>1. \A s \in Session : session[s] # NoSession => session[s].user \in registered
      BY DEF TypeOK
    <3>2. \A s \in Session : session[s] \in SessionRow => session[s] # NoSession
      BY DEF SessionRow, NoSession
    <3> QED
      BY <2>2, <2>3, <3>1, <3>2
  <2> QED
    BY <1>13, <2>1, <2>4, <2>5 DEF RevokeAll, TypeOK, Request
<1>14. CASE Environment
  <2>1. CASE OrphanDone \/ Crash
    BY <2>1 DEF OrphanDone, Crash, TypeOK, LinkRow, NoLink
  <2>2. ASSUME NEW s \in Session, Logout(s) \/ ExpireSession(s) PROVE TypeOK'
    <3> PICK row \in SessionRow : /\ session' = [session EXCEPT ![s] = row]
                                  /\ row.user = session[s].user
                                  /\ session[s] \in SessionRow
      BY <2>2 DEF Logout, ExpireSession, Revoked, RowsTyped, NoSession, SessionRow
    <3>1. session[s].user \in registered
      BY DEF TypeOK, SessionRow, NoSession
    <3>2. registered' = registered
      BY <2>2 DEF Logout, ExpireSession
    <3>3. /\ session' \in [Session -> SessionRow \cup {NoSession}]
          /\ \A t \in Session : session'[t] # NoSession => session'[t].user \in registered'
      BY <3>1, <3>2, SetSession
    <3> QED
      BY <2>2, <3>3 DEF Logout, ExpireSession, TypeOK
  <2>3. ASSUME NEW l \in Link, MailSent(l) \/ MailLost(l) \/ ExpireLink(l) PROVE TypeOK'
    BY <2>3 DEF MailSent, MailLost, ExpireLink, TypeOK, LinkRow, NoLink
  <2>4. ASSUME NEW r \in Req, Abandon(r) PROVE TypeOK'
    BY <2>4 DEF Abandon, TypeOK
  <2> QED
    BY <1>14, <2>1, <2>2, <2>3, <2>4 DEF Environment
<1> QED
  BY <1>2, <1>3, <1>4, <1>5, <1>6, <1>7, <1>8, <1>9, <1>10, <1>11, <1>12, <1>13, <1>14
     DEF Next, Step

-----------------------------------------------------------------------------
\* What a step never takes back: a link keeps its owner, its purpose and what its issuer
\* saw; a link that is no longer live never is again; a sent mail stays sent.
LinksStay ==
  \A l \in Link : link[l].status # "absent" =>
    /\ link'[l].status # "absent"
    /\ link'[l].user = link[l].user
    /\ link'[l].purpose = link[l].purpose
    /\ link'[l].seen = link[l].seen
    /\ link[l].status # "live" => link'[l].status # "live"
    /\ link[l].status = "spent" => link'[l].status = "spent"
    /\ link[l].mail = "sent" => link'[l].mail = "sent"

\* Only the commit of an issue adds a link.
NoNewLink == \A l \in Link : link[l].status = "absent" => link'[l] = link[l]

\* The step that changes one link, and changes it so.
LEMMA OneLinkMoves ==
  ASSUME TypeOK, NEW k \in Link, link[k].status # "absent", NEW row,
         link' = [link EXCEPT ![k] = row],
         row.status # "absent", row.user = link[k].user, row.purpose = link[k].purpose,
         row.seen = link[k].seen, link[k].status # "live" => row.status # "live",
         link[k].status = "spent" => row.status = "spent",
         link[k].mail = "sent" => row.mail = "sent"
  PROVE  LinksStay /\ NoNewLink
  BY DEF TypeOK, LinksStay, NoNewLink

LEMMA LinkHistory ==
  IInv /\ [Next]_vars => LinksStay /\ (NoNewLink \/ \E r \in Req : IssueCommit(r))
<1> SUFFICES ASSUME IInv, [Next]_vars
             PROVE  LinksStay /\ (NoNewLink \/ \E r \in Req : IssueCommit(r))
  OBVIOUS
<1>1. TypeOK /\ RowsTyped /\ RowsInHand
  BY TypedRows DEF IInv
<1> USE <1>1 DEF LinksStay, NoNewLink, accounts, hasher
<1>2. CASE UNCHANGED link
  BY <1>2
<1>3. ASSUME NEW r \in Req, NEW l \in Link, VerifyEmail(r, l) \/ ResetPassword(r, l)
      PROVE  LinksStay /\ NoNewLink
  <2>1. link' = [link EXCEPT ![l] = Spent(link[l])] /\ link[l].status = "live"
    BY <1>3 DEF VerifyEmail, ResetPassword, Redeem, Redeemable, TypeOK
  <2>2. link[l] \in LinkRow
    BY <2>1 DEF RowsTyped, NoLink
  <2> QED
    BY <2>1, <2>2, OneLinkMoves DEF Spent, LinkRow
<1>4. ASSUME NEW l \in Link, MailSent(l) \/ MailLost(l) \/ ExpireLink(l)
      PROVE  LinksStay /\ NoNewLink
  BY <1>4 DEF MailSent, MailLost, ExpireLink, RowsTyped, LinkRow, NoLink, TypeOK
<1>5. ASSUME Crash PROVE LinksStay /\ NoNewLink
  BY <1>5 DEF Crash, RowsTyped, LinkRow, NoLink, TypeOK
<1>6. ASSUME NEW r \in Req, MarkVerified(r) \/ UpdatePassword(r) PROVE LinksStay /\ NoNewLink
  <2>1. Acting(r, req[r].id)
    BY <1>6 DEF MarkVerified, UpdatePassword, Acting, At
  <2>2. req[r].id \in Link /\ link[req[r].id].status = "spent"
    BY <2>1 DEF RowsInHand, IInv, OneEffectPerLink, OneEffect
  <2> QED
    BY <1>6, <2>2 DEF MarkVerified, UpdatePassword, RowsTyped, LinkRow, NoLink, TypeOK
<1>7. ASSUME NEW r \in Req, IssueCommit(r) PROVE LinksStay
  BY <1>7 DEF IssueCommit, RowsTyped, LinkRow, NoLink, TypeOK, RowsInHand
<1>8. CASE UNCHANGED vars
  BY <1>2, <1>8 DEF vars
<1>9. ASSUME NEW r \in Req, SessionRoutes(r) PROVE UNCHANGED link
  BY <1>9 DEF SessionRoutes, Register, Login, Refresh
<1>10. ASSUME NEW r \in Req, LinkRoutes(r) PROVE LinksStay /\ NoNewLink
  BY <1>2, <1>3, <1>10 DEF LinkRoutes, ResendVerification, ForgotPassword
<1>11. ASSUME NEW r \in Req, Step(r)
       PROVE  LinksStay /\ (NoNewLink \/ \E q \in Req : IssueCommit(q))
  BY <1>2, <1>6, <1>7, <1>11
     DEF Step, StartHash, HashDone, CreateAccount, AddressTaken, Reject, OpenSession, Touch,
         RetireSnapshot, RetireRows, RevokeAll
<1>12. CASE Environment
  BY <1>2, <1>4, <1>5, <1>12 DEF Environment, OrphanDone, Logout, ExpireSession, Abandon
<1> QED
  BY <1>2, <1>8, <1>9, <1>10, <1>11, <1>12 DEF Next-----------------------------------------------------------------------------
\* How the local variables of a request begin.
Begins(r) ==
  LET row == req'[r] IN
  /\ req[r].pc = "idle"
  /\ row.seen = {} /\ row.locked = {}
  /\ \/ row.kind = "register" /\ row.pc = "queue" /\ row.gen = 0
     \/ row.kind = "login" /\ row.pc = "queue" /\ (row.gen > 0 => row.user \in registered)
     \/ /\ row.kind = "refresh" /\ row.pc = "touch" /\ row.gen = 0
        /\ row.id \in Session /\ Active(row.id)
     \/ row.kind \in Purpose /\ row.pc = "issue" /\ row.user \in registered
     \/ /\ <<row.kind, row.pc>> \in {<<"verify", "mark">>, <<"reset", "queue">>}
        /\ row.id \in Link /\ row.user = link[row.id].user /\ link[row.id].purpose = row.kind
        /\ link[row.id].status = "live" /\ link[row.id].mail = "sent"
        /\ link' = [link EXCEPT ![row.id] = Spent(link[row.id])]

\* How they change from one statement to the next.
Proceeds(r) ==
  LET old == req[r]
      row == req'[r]
      from(pc) == old.pc = pc
      same == row.user = old.user /\ row.id = old.id
  IN
  /\ same /\ old.pc # "idle"
  /\ \/ /\ row.kind = old.kind /\ row.gen = old.gen /\ row.seen = old.seen
        /\ row.locked = old.locked
        /\ <<old.pc, row.pc>> \in {<<"queue", "hash">>, <<"hash", "hashed">>}
     \/ /\ old.kind = "register" /\ old.pc = "hashed" /\ row.kind = "verify" /\ row.pc = "issue"
        /\ row.user \in registered' /\ row.seen = old.seen /\ row.locked = old.locked
     \/ /\ row.kind = old.kind /\ row.gen = old.gen /\ old.pc = "issue" /\ row.pc = "retire"
        /\ row.seen = {l \in Link : link[l].status # "absent"}
        /\ row.locked = Outstanding(old.user, old.kind)
        /\ link' = link
     \/ /\ row.kind = old.kind /\ row.gen = old.gen /\ old.pc = "retire" /\ row.pc = "insert"
        /\ row.seen = old.seen
        /\ row.locked = {l \in old.locked : link[l].status # "spent"}
        /\ link' = link
     \/ /\ old.kind = "reset" /\ old.pc = "hashed" /\ row.kind = "reset" /\ row.pc = "revoke"
        /\ row.seen = old.seen /\ row.locked = old.locked

\* Every step leaves or ends the requests, or moves one of them.
RequestHistory ==
  \/ \A r \in Req : req'[r] = req[r] \/ req'[r] = Idle
  \/ \E r \in Req : /\ Begins(r) \/ Proceeds(r)
                    /\ \A q \in Req \ {r} : req'[q] = req[q]

LEMMA RequestsMove == IInv /\ [Next]_vars => RequestHistory
<1> SUFFICES ASSUME IInv, [Next]_vars PROVE RequestHistory
  OBVIOUS
<1>1. TypeOK /\ KnownUsers
  BY DEF IInv
<1> USE <1>1 DEF accounts, hasher
<1> DEFINE Others(r) == \A q \in Req \ {r} : req'[q] = req[q]
<1>2. CASE UNCHANGED req
  BY <1>2 DEF RequestHistory
<1>3. ASSUME NEW r \in Req, Done(r) PROVE RequestHistory
  BY <1>3 DEF RequestHistory, Done, TypeOK
<1>4. ASSUME NEW r \in Req, NEW row, req' = [req EXCEPT ![r] = row]
      PROVE  req'[r] = row /\ Others(r)
  BY <1>4 DEF TypeOK
<1> DEFINE Row(kind, pc, u, gen, id) ==
             [pc |-> pc, kind |-> kind, user |-> u, gen |-> gen, id |-> id,
              seen |-> {}, locked |-> {}]
<1>5. ASSUME NEW r \in Req, SessionRoutes(r) PROVE Begins(r) /\ Others(r)
  <2>1. ASSUME NEW u \in User, Register(r, u) PROVE Begins(r) /\ Others(r)
    <3>1. req[r].pc = "idle" /\ req' = [req EXCEPT ![r] = Row("register", "queue", u, 0, "none")]
      BY <2>1 DEF Register, Start
    <3>2. req'[r] = Row("register", "queue", u, 0, "none") /\ Others(r)
      BY <1>4, <3>1
    <3> QED
      BY <3>1, <3>2 DEF Begins
  <2>2. ASSUME NEW u \in User, NEW right \in BOOLEAN, Login(r, u, right)
        PROVE  Begins(r) /\ Others(r)
    <3> DEFINE gen == IF right /\ u \in registered /\ password[u] > 0 THEN password[u] ELSE 0
    <3>1. req[r].pc = "idle" /\ req' = [req EXCEPT ![r] = Row("login", "queue", u, gen, "none")]
      BY <2>2 DEF Login, Start
    <3>2. gen > 0 => u \in registered
      OBVIOUS
    <3> HIDE DEF gen
    <3>3. req'[r] = Row("login", "queue", u, gen, "none") /\ Others(r)
      BY <1>4, <3>1
    <3> QED
      BY <3>1, <3>2, <3>3 DEF Begins
  <2>3. ASSUME NEW s \in Session, Refresh(r, s) PROVE Begins(r) /\ Others(r)
    <3> DEFINE u == session[s].user
    <3>1. /\ req[r].pc = "idle" /\ Active(s)
          /\ req' = [req EXCEPT ![r] = Row("refresh", "touch", u, 0, s)]
      BY <2>3 DEF Refresh, Start
    <3> HIDE DEF u
    <3>2. req'[r] = Row("refresh", "touch", u, 0, s) /\ Others(r)
      BY <1>4, <3>1
    <3> QED
      BY <3>1, <3>2 DEF Begins
  <2> QED
    BY <1>5, <2>1, <2>2, <2>3 DEF SessionRoutes
<1>6. ASSUME NEW r \in Req, LinkRoutes(r) PROVE Begins(r) /\ Others(r)
  <2>1. ASSUME NEW u \in registered, NEW kind \in Purpose,
               Start(r, kind, "issue", u, 0, "none")
        PROVE  Begins(r) /\ Others(r)
    <3>1. req[r].pc = "idle" /\ req' = [req EXCEPT ![r] = Row(kind, "issue", u, 0, "none")]
      BY <2>1 DEF Start
    <3>2. req'[r] = Row(kind, "issue", u, 0, "none") /\ Others(r)
      BY <1>4, <3>1
    <3> QED
      BY <3>1, <3>2 DEF Begins
  <2>2. ASSUME NEW l \in Link, NEW kind, NEW pc, Redeem(r, l, kind, pc),
               <<kind, pc>> \in {<<"verify", "mark">>, <<"reset", "queue">>}
        PROVE  Begins(r) /\ Others(r)
    <3> DEFINE u == link[l].user
    <3>1. /\ req[r].pc = "idle" /\ req' = [req EXCEPT ![r] = Row(kind, pc, u, 0, l)]
          /\ link' = [link EXCEPT ![l] = Spent(link[l])] /\ link[l].status = "live"
          /\ link[l].mail = "sent" /\ link[l].purpose = kind
      BY <2>2 DEF Redeem, Redeemable, Start, TypeOK
    <3>2. req'[r] = Row(kind, pc, u, 0, l) /\ Others(r)
      BY <1>4, <3>1
    <3>3. /\ req'[r].seen = {} /\ req'[r].locked = {} /\ req'[r].kind = kind /\ req'[r].pc = pc
          /\ req'[r].id = l /\ req'[r].user = link[l].user
      BY <3>2
    <3> HIDE DEF u, Row
    <3> QED
      BY <2>2, <3>1, <3>2, <3>3 DEF Begins
  <2>3. CASE \E u \in User : ResendVerification(r, u) \/ ForgotPassword(r, u)
    BY <2>1, <2>3 DEF ResendVerification, ForgotPassword, Purpose
  <2>4. CASE \E l \in Link : VerifyEmail(r, l) \/ ResetPassword(r, l)
    BY <2>2, <2>4 DEF VerifyEmail, ResetPassword
  <2> QED
    BY <1>6, <2>3, <2>4 DEF LinkRoutes
<1>7. ASSUME NEW r \in Req, StartHash(r) \/ HashDone(r) PROVE Proceeds(r) /\ Others(r)
  <2>1. req[r] \in Request
    BY <1>7, UnderWay DEF StartHash, HashDone
  <2> QED
    BY <1>7, <2>1 DEF StartHash, HashDone, Goto, Proceeds, Request, TypeOK
<1>8. ASSUME NEW r \in Req, CreateAccount(r) PROVE Proceeds(r) /\ Others(r)
  <2>1. req[r] \in Request
    BY <1>8, UnderWay DEF CreateAccount, At
  <2> QED
    BY <1>8, <2>1 DEF CreateAccount, At, Proceeds, Request, TypeOK
<1>9. ASSUME NEW r \in Req, RetireSnapshot(r) PROVE Proceeds(r) /\ Others(r)
  <2> DEFINE seen == {l \in Link : link[l].status # "absent"}
             locked == Outstanding(req[r].user, req[r].kind)
             row == [req[r] EXCEPT !.pc = "retire", !.seen = seen, !.locked = locked]
  <2>1. req[r] \in Request /\ req[r].pc = "issue"
    BY <1>9, UnderWay DEF RetireSnapshot
  <2>2. req' = [req EXCEPT ![r] = row] /\ link' = link
    BY <1>9 DEF RetireSnapshot
  <2> HIDE DEF seen, locked
  <2>3. /\ req'[r] = row /\ Others(r)
        /\ row.user = req[r].user /\ row.id = req[r].id /\ row.kind = req[r].kind
        /\ row.gen = req[r].gen /\ row.pc = "retire" /\ row.seen = seen /\ row.locked = locked
    BY <2>1, <2>2 DEF Request, TypeOK
  <2> QED
    BY <2>1, <2>2, <2>3 DEF Proceeds, seen, locked
<1>10. ASSUME NEW r \in Req, RetireRows(r) PROVE Proceeds(r) /\ Others(r)
  <2> DEFINE locked == {l \in req[r].locked : link[l].status # "spent"}
             row == [req[r] EXCEPT !.pc = "insert", !.locked = locked]
  <2>1. req[r] \in Request /\ req[r].pc = "retire"
    BY <1>10, UnderWay DEF RetireRows
  <2>2. req' = [req EXCEPT ![r] = row] /\ link' = link
    BY <1>10 DEF RetireRows
  <2> HIDE DEF locked
  <2>3. /\ req'[r] = row /\ Others(r)
        /\ row.user = req[r].user /\ row.id = req[r].id /\ row.kind = req[r].kind
        /\ row.gen = req[r].gen /\ row.pc = "insert" /\ row.seen = req[r].seen
        /\ row.locked = locked
    BY <2>1, <2>2 DEF Request, TypeOK
  <2> QED
    BY <2>1, <2>2, <2>3 DEF Proceeds, locked
<1>11. ASSUME NEW r \in Req, UpdatePassword(r) PROVE Proceeds(r) /\ Others(r)
  <2> DEFINE row == [req[r] EXCEPT !.pc = "revoke", !.gen = password[req[r].user] + 1]
  <2>1. req[r] \in Request /\ req[r].pc = "hashed" /\ req[r].kind = "reset"
    BY <1>11, UnderWay DEF UpdatePassword, At
  <2>2. req' = [req EXCEPT ![r] = row]
    BY <1>11 DEF UpdatePassword
  <2>3. /\ req'[r] = row /\ Others(r)
        /\ row.user = req[r].user /\ row.id = req[r].id /\ row.kind = req[r].kind
        /\ row.pc = "revoke" /\ row.seen = req[r].seen /\ row.locked = req[r].locked
    BY <2>1, <2>2 DEF Request, TypeOK
  <2> QED
    BY <2>1, <2>3 DEF Proceeds
<1>12. ASSUME NEW r \in Req, Step(r) PROVE RequestHistory
  BY <1>3, <1>7, <1>8, <1>9, <1>10, <1>11, <1>12
     DEF Step, RequestHistory, AddressTaken, Reject, OpenSession, Touch, IssueCommit,
         MarkVerified, RevokeAll
<1>13. CASE Environment
  <2>1. CASE Crash
    BY <2>1 DEF Crash, RequestHistory
  <2> QED
    BY <1>2, <1>3, <1>13, <2>1
       DEF Environment, OrphanDone, Logout, ExpireSession, MailSent, MailLost, ExpireLink,
           Abandon
<1>14. CASE UNCHANGED vars
  BY <1>2, <1>14 DEF vars
<1> QED
  BY <1>5, <1>6, <1>12, <1>13, <1>14 DEF Next, RequestHistory

-----------------------------------------------------------------------------
\* No account goes away, and only the revocation of a reset moves its mark.
LEMMA AccountsGrow ==
  [Next]_vars => /\ registered \subseteq registered'
                 /\ revokedTo' = revokedTo \/ \E r \in Req : RevokeAll(r)
<1> SUFFICES ASSUME [Next]_vars
             PROVE  /\ registered \subseteq registered'
                    /\ revokedTo' = revokedTo \/ \E r \in Req : RevokeAll(r)
  OBVIOUS
<1> USE DEF accounts, hasher
<1>1. ASSUME NEW r \in Req, SessionRoutes(r) PROVE UNCHANGED <<registered, revokedTo>>
  BY <1>1 DEF SessionRoutes, Register, Login, Refresh
<1>2. ASSUME NEW r \in Req, LinkRoutes(r) PROVE UNCHANGED <<registered, revokedTo>>
  BY <1>2 DEF LinkRoutes, ResendVerification, ForgotPassword, VerifyEmail, ResetPassword
<1>3. ASSUME NEW r \in Req, Step(r), ~ RevokeAll(r)
      PROVE  registered \subseteq registered' /\ revokedTo' = revokedTo
  BY <1>3 DEF Step, StartHash, HashDone, CreateAccount, AddressTaken, Reject, OpenSession, Touch,
              RetireSnapshot, RetireRows, IssueCommit, MarkVerified, UpdatePassword
<1>4. ASSUME NEW r \in Req, RevokeAll(r) PROVE registered' = registered
  BY <1>4 DEF RevokeAll
<1>5. CASE Environment
  BY <1>5 DEF Environment, OrphanDone, Logout, ExpireSession, MailSent, MailLost, ExpireLink,
              Abandon, Crash
<1>6. CASE UNCHANGED vars
  BY <1>6 DEF vars
<1> QED
  BY <1>1, <1>2, <1>3, <1>4, <1>5, <1>6 DEF Next

-----------------------------------------------------------------------------
LEMMA KnownUsersStep == IInv /\ [Next]_vars => KnownUsers'
<1> SUFFICES ASSUME IInv, [Next]_vars PROVE KnownUsers'
  OBVIOUS
<1>1. TypeOK /\ KnownUsers /\ RowsInHand
  BY DEF IInv
<1> USE <1>1
<1>2. registered \subseteq registered'
  BY AccountsGrow
<1>3. \A l \in Link : link'[l].status # "absent" => link'[l].user \in registered'
  <2>1. ASSUME NEW r \in Req, IssueCommit(r), NEW l \in Link, link[l].status = "absent",
               link'[l].status # "absent"
        PROVE  link'[l].user \in registered
    <3>1. req[r].kind \in Purpose /\ req[r] # Idle
      BY <2>1 DEF IssueCommit, RowsInHand, Idle
    <3>2. req[r].user \in registered
      BY <3>1 DEF KnownUsers, Purpose
    <3>3. \A k \in req[r].locked : link[k].status # "absent"
      BY DEF RowsInHand
    <3>4. link'[l].user = req[r].user
      BY <2>1, <3>3 DEF IssueCommit
    <3> QED
      BY <3>2, <3>4
  <2> QED
    BY <1>2, <2>1, LinkHistory DEF LinksStay, NoNewLink, KnownUsers
<1> DEFINE Owned(row) == (row.kind \in {"verify", "reset"} \/ row.gen > 0) /\ row # Idle
                           => row.user \in registered'
<1>4. \A r \in Req : Owned(req[r])
  BY <1>2 DEF KnownUsers
<1>5. ASSUME NEW r \in Req, Begins(r) PROVE Owned(req'[r])
  <2>1. \A l \in Link : link[l].status = "live" => link[l].user \in registered'
    BY <1>2 DEF KnownUsers
  <2> QED
    BY <1>2, <1>5, <2>1 DEF Begins, Purpose
<1>6. ASSUME NEW r \in Req, Proceeds(r) PROVE Owned(req'[r])
  BY <1>4, <1>6 DEF Proceeds, Idle
<1>7. \A r \in Req : Owned(req'[r])
  BY <1>4, <1>5, <1>6, RequestsMove DEF RequestHistory
<1> QED
  BY <1>3, <1>7 DEF KnownUsers
-----------------------------------------------------------------------------
\* A row keeps its account and what it was opened with; one that is no longer open never is
\* again, a revoked one never changes, and a new one knows the last revocation.
SessionsStay ==
  \A s \in Session : session[s].status # "absent" =>
    /\ session'[s].status # "absent"
    /\ session'[s].user = session[s].user
    /\ session'[s].gen = session[s].gen
    /\ session'[s].over = session[s].over
    /\ session[s].status # "open" => session'[s].status # "open"
    /\ session[s].status = "revoked" => session'[s] = session[s]

NewSessionsKnow ==
  \A s \in Session : session[s].status = "absent" =>
    \/ session'[s] = session[s]
    \/ session'[s].over = revokedTo[session'[s].user] /\ revokedTo' = revokedTo

LEMMA SessionHistory == TypeOK /\ RowsInHand /\ [Next]_vars => SessionsStay /\ NewSessionsKnow
<1> SUFFICES ASSUME TypeOK, RowsInHand, [Next]_vars PROVE SessionsStay /\ NewSessionsKnow
  OBVIOUS
<1>1. RowsTyped
  BY TypedRows
<1> USE <1>1 DEF accounts, hasher
<1>2. CASE UNCHANGED session
  BY <1>2 DEF SessionsStay, NewSessionsKnow
<1>3. ASSUME NEW s \in Session, NEW u, NEW g, session[s].status = "absent",
             session' = [session EXCEPT ![s] = Opened(u, g)], revokedTo' = revokedTo
      PROVE  SessionsStay /\ NewSessionsKnow
  BY <1>3 DEF Opened, TypeOK, SessionsStay, NewSessionsKnow
<1>4. ASSUME NEW s \in Session, NEW row, session[s].status # "absent",
             session' = [session EXCEPT ![s] = row], row.status # "absent",
             row.user = session[s].user, row.gen = session[s].gen, row.over = session[s].over,
             session[s].status # "open" => row.status # "open",
             session[s].status = "revoked" => row = session[s]
      PROVE  SessionsStay /\ NewSessionsKnow
  BY <1>4 DEF TypeOK, SessionsStay, NewSessionsKnow
<1>5. ASSUME NEW r \in Req, CreateAccount(r) \/ OpenSession(r)
      PROVE  SessionsStay /\ NewSessionsKnow
  BY <1>3, <1>5 DEF CreateAccount, OpenSession
<1>6. ASSUME NEW r \in Req, Touch(r) PROVE SessionsStay /\ NewSessionsKnow
  <2> DEFINE s == req[r].id
             row == [session[s] EXCEPT !.touched = @ \/ session[s].status # "revoked"]
  <2>1. s \in Session /\ session[s] \in SessionRow /\ session' = [session EXCEPT ![s] = row]
    BY <1>6 DEF Touch, RowsInHand, RowsTyped
  <2>2. session[s].status # "absent"
    BY <2>1 DEF SessionRow
  <2>3. /\ row.status = session[s].status /\ row.user = session[s].user
        /\ row.gen = session[s].gen /\ row.over = session[s].over
    BY <2>1 DEF SessionRow
  <2>4. ASSUME session[s].status = "revoked" PROVE row = session[s]
    <3>1. session[s].touched \in BOOLEAN
      BY <2>1 DEF SessionRow
    <3>2. row.touched = session[s].touched
      BY <2>1, <2>4, <3>1 DEF SessionRow
    <3> QED
      BY <2>1, <2>3, <3>2 DEF SessionRow
  <2> HIDE DEF row, s
  <2> QED
    BY <1>4, <2>1, <2>2, <2>3, <2>4
<1>7. ASSUME NEW r \in Req, RevokeAll(r) PROVE SessionsStay /\ NewSessionsKnow
  <2>1. req[r].user # "none"
    BY <1>7, UnderWay, AccountAssumption DEF RevokeAll, At, Request
  <2>2. \A s \in Session : \/ session'[s] = session[s]
                           \/ /\ session'[s] = Revoked(session[s]) /\ session[s] \in SessionRow
    BY <1>7, <2>1 DEF RevokeAll, RowsTyped, NoSession
  <2>3. \A s \in Session : session[s] \in SessionRow =>
          /\ session[s].status # "absent"
          /\ Revoked(session[s]).status = "revoked"
          /\ Revoked(session[s]).user = session[s].user
          /\ Revoked(session[s]).gen = session[s].gen
          /\ Revoked(session[s]).over = session[s].over
          /\ session[s].status = "revoked" => Revoked(session[s]) = session[s]
    BY DEF Revoked, SessionRow
  <2> QED
    BY <2>2, <2>3 DEF SessionsStay, NewSessionsKnow
<1>8. ASSUME NEW s \in Session, Logout(s) \/ ExpireSession(s)
      PROVE  SessionsStay /\ NewSessionsKnow
  <2>1. session[s] \in SessionRow /\ session[s].status \in {"open", "expired"}
    BY <1>8 DEF Logout, ExpireSession, RowsTyped, NoSession
  <2>2. PICK status \in {"expired", "revoked"} :
          session' = [session EXCEPT ![s] = [session[s] EXCEPT !.status = status]]
    BY <1>8 DEF Logout, ExpireSession, Revoked
  <2> DEFINE row == [session[s] EXCEPT !.status = status]
  <2>3. /\ row.status = status /\ row.user = session[s].user
        /\ row.gen = session[s].gen /\ row.over = session[s].over
    BY <2>1 DEF SessionRow
  <2>4. session' = [session EXCEPT ![s] = row]
    BY <2>2
  <2> HIDE DEF row
  <2> QED
    BY <1>4, <2>1, <2>2, <2>3, <2>4
<1>9. ASSUME NEW r \in Req, SessionRoutes(r) \/ LinkRoutes(r) PROVE UNCHANGED session
  BY <1>9 DEF SessionRoutes, LinkRoutes, Register, Login, Refresh, ResendVerification,
              ForgotPassword, VerifyEmail, ResetPassword
<1>10. ASSUME NEW r \in Req, Step(r) PROVE SessionsStay /\ NewSessionsKnow
  BY <1>2, <1>5, <1>6, <1>7, <1>10
     DEF Step, StartHash, HashDone, AddressTaken, Reject, RetireSnapshot, RetireRows,
         IssueCommit, MarkVerified, UpdatePassword
<1>11. CASE Environment
  BY <1>2, <1>8, <1>11 DEF Environment, OrphanDone, MailSent, MailLost, ExpireLink, Abandon,
                           Crash
<1>12. CASE UNCHANGED vars
  BY <1>2, <1>12 DEF vars
<1> QED
  BY <1>2, <1>9, <1>10, <1>11, <1>12 DEF Next

-----------------------------------------------------------------------------
\* Every request in a step is one that acted before, or has just spent a live link.
LEMMA ActingHistory ==
  ASSUME RequestHistory, NEW r \in Req, NEW l, Acting(r, l)'
  PROVE  \/ Acting(r, l) /\ req'[r].kind = req[r].kind /\ req'[r].user = req[r].user
         \/ /\ l \in Link /\ link[l].status = "live" /\ link[l].mail = "sent"
            /\ link' = [link EXCEPT ![l] = Spent(link[l])]
            /\ link[l].purpose = req'[r].kind /\ link[l].user = req'[r].user
            /\ \A q \in Req \ {r} : req'[q] = req[q]
<1>1. ASSUME req'[r] = req[r] PROVE Acting(r, l)
  BY <1>1 DEF Acting, At
<1>2. req'[r] # Idle
  BY DEF Acting, At, Idle
<1>3. ASSUME Begins(r)
      PROVE  /\ l \in Link /\ link[l].status = "live" /\ link[l].mail = "sent"
             /\ link' = [link EXCEPT ![l] = Spent(link[l])]
             /\ link[l].purpose = req'[r].kind /\ link[l].user = req'[r].user
  BY <1>3 DEF Begins, Acting, At, Purpose
<1>4. ASSUME Proceeds(r)
      PROVE  Acting(r, l) /\ req'[r].kind = req[r].kind /\ req'[r].user = req[r].user
  BY <1>4 DEF Proceeds, Acting, At
<1> QED
  BY <1>1, <1>2, <1>3, <1>4 DEF RequestHistory

LEMMA RowsInHandStep == IInv /\ [Next]_vars => RowsInHand'
<1> SUFFICES ASSUME IInv, [Next]_vars, NEW r \in Req
             PROVE  /\ At(r, "refresh", "touch")' => /\ req'[r].id \in Session
                                                     /\ session'[req'[r].id] # NoSession
                    /\ Acting(r, req[r].id)' => req'[r].id \in Link
                    /\ req'[r].pc = "mark" => req'[r].kind = "verify"
                    /\ req'[r].pc \in {"queue", "hash", "hashed"}
                         => req'[r].kind \in {"register", "login", "reset"}
                    /\ req'[r].pc \in {"issue", "retire", "insert"} => req'[r].kind \in Purpose
                    /\ \A l \in req'[r].locked : link'[l].status # "absent"
  BY DEF RowsInHand
<1>1. TypeOK /\ RowsInHand /\ RowsTyped /\ RequestHistory /\ SessionsStay /\ LinksStay
  BY TypedRows, RequestsMove, SessionHistory, LinkHistory DEF IInv
<1>2. ASSUME req[r].kind = "refresh", req[r].pc = "touch"
      PROVE  req[r].id \in Session /\ session'[req[r].id] # NoSession
  BY <1>1, <1>2 DEF RowsInHand, At, RowsTyped, SessionRow, SessionsStay, NoSession
<1>3. \A l \in req[r].locked : l \in Link /\ link'[l].status # "absent"
  BY <1>1 DEF RowsInHand, LinksStay, RowsTyped, Request, Idle
<1>4. CASE req'[r] = req[r]
  BY <1>1, <1>2, <1>3, <1>4 DEF RowsInHand, At, Acting
<1>5. CASE req'[r] = Idle
  BY <1>5 DEF Idle, At, Acting
<1>6. CASE Begins(r)
  <2>1. \A s \in Session : Active(s) => session'[s] # NoSession
    BY <1>1 DEF SessionsStay, Active, NoSession
  <2>2. Acting(r, req[r].id)' => req'[r].id \in Link
    BY <1>6 DEF Begins, Acting, At, Purpose
  <2> QED
    BY <1>6, <2>1, <2>2 DEF Begins, At, Purpose
<1>7. CASE Proceeds(r)
  <2>1. \A l \in Outstanding(req[r].user, req[r].kind) :
          req[r].pc = "issue" => link'[l].status # "absent"
    <3>1. TAKE l \in Outstanding(req[r].user, req[r].kind)
    <3>2. SUFFICES ASSUME req[r].pc = "issue" PROVE link'[l].status # "absent"
      OBVIOUS
    <3>3. l \in Link /\ link[l].purpose \in Purpose
      BY <1>1, <3>2 DEF Outstanding, RowsInHand
    <3>4. link[l].status # "absent"
      BY <1>1, <3>3 DEF RowsTyped, LinkRow, NoLink, Purpose
    <3> QED
      BY <1>1, <3>3, <3>4 DEF LinksStay
  <2>2. \A l \in req'[r].locked : link'[l].status # "absent"
    BY <1>3, <1>7, <2>1 DEF Proceeds
  <2>3. Acting(r, req[r].id)' => req'[r].id \in Link
    BY <1>1, <1>7 DEF Proceeds, Acting, At, RowsInHand
  <2> QED
    BY <1>1, <1>7, <2>2, <2>3 DEF Proceeds, At, Purpose, RowsInHand
<1> QED
  BY <1>1, <1>4, <1>5, <1>6, <1>7 DEF RequestHistory
-----------------------------------------------------------------------------
LEMMA WhatIssuesSeeStep == IInv /\ [Next]_vars => WhatIssuesSee'
<1> SUFFICES ASSUME IInv, [Next]_vars PROVE WhatIssuesSee'
  OBVIOUS
<1>1. TypeOK /\ RowsInHand /\ RowsTyped /\ WhatIssuesSee /\ RequestHistory /\ LinksStay
  BY TypedRows, RequestsMove, LinkHistory DEF IInv
<1>2. \A l \in Link : link[l].status # "absent" => \A k \in link[l].seen : k \in Link
  BY <1>1 DEF RowsTyped, LinkRow, NoLink
<1>3. \A r \in Req : \A k \in req[r].seen : k \in Link
  BY <1>1 DEF RowsTyped, Request, Idle
<1>4. \A l \in Link : \A k \in link'[l].seen : link'[k].status # "absent"
  <2>1. ASSUME NEW l \in Link, link[l].status # "absent", NEW k \in link'[l].seen
        PROVE  link'[k].status # "absent"
    BY <1>1, <1>2, <2>1 DEF LinksStay, WhatIssuesSee
  <2>2. ASSUME NEW l \in Link, link[l].status = "absent", NoNewLink, NEW k \in link'[l].seen
        PROVE  link'[k].status # "absent"
    BY <1>1, <2>2 DEF NoNewLink, RowsTyped, LinkRow, NoLink
  <2>3. ASSUME NEW r \in Req, IssueCommit(r), NEW l \in Link, link[l].status = "absent",
               NEW k \in link'[l].seen
        PROVE  link'[k].status # "absent"
    <3>1. link'[l] = link[l] \/ link'[l].seen = req[r].seen
      BY <1>1, <2>3 DEF IssueCommit, RowsInHand
    <3>2. link[l].seen = {}
      BY <1>1, <2>3 DEF RowsTyped, LinkRow, NoLink
    <3>3. k \in req[r].seen /\ k \in Link
      BY <1>3, <2>3, <3>1, <3>2
    <3> QED
      BY <1>1, <3>3 DEF WhatIssuesSee, LinksStay
  <2> QED
    BY <2>1, <2>2, <2>3, LinkHistory
<1> DEFINE Sees(row, links) ==
             \A k \in row.seen :
               /\ links[k].status # "absent"
               /\ row.pc \in {"retire", "insert"} /\ links[k].user = row.user
                    /\ links[k].purpose = row.kind
                  => k \in row.locked \/ links[k].status = "spent"
<1>5. \A r \in Req : Sees(req[r], link)
  BY <1>1 DEF WhatIssuesSee
<1>6. \A r \in Req : Sees(req[r], link')
  BY <1>1, <1>3, <1>5 DEF LinksStay
<1>7. \A r \in Req : Sees(req'[r], link')
  <2> TAKE r \in Req
  <2>1. CASE req'[r] = req[r]
    BY <1>6, <2>1
  <2>2. CASE req'[r] = Idle
    BY <2>2 DEF Idle
  <2>3. CASE Begins(r)
    BY <2>3 DEF Begins
  <2>4. CASE Proceeds(r)
    <3>1. CASE req[r].pc = "issue"
      BY <2>4, <3>1 DEF Proceeds, Outstanding
    <3>2. CASE req[r].pc = "retire"
      BY <1>5, <2>4, <3>2 DEF Proceeds
    <3>3. CASE req[r].pc \notin {"issue", "retire"}
      BY <1>6, <2>4, <3>3 DEF Proceeds
    <3> QED
      BY <3>1, <3>2, <3>3
  <2> QED
    BY <1>1, <2>1, <2>2, <2>3, <2>4 DEF RequestHistory
<1> QED
  BY <1>4, <1>7 DEF WhatIssuesSee

-----------------------------------------------------------------------------
LEMMA EffectsStep == IInv /\ [Next]_vars => EffectsAreSpent' /\ OneEffectPerLink'
<1> SUFFICES ASSUME IInv, [Next]_vars PROVE EffectsAreSpent' /\ OneEffectPerLink'
  OBVIOUS
<1>1. /\ TypeOK /\ RowsInHand /\ RowsTyped /\ RequestHistory /\ LinksStay
      /\ EffectsAreSpent /\ OneEffect /\ EffectNeedsItsLink
  BY TypedRows, RequestsMove, LinkHistory DEF IInv, OneEffectPerLink
<1>2. \A l \in Link : link[l].status \in {"absent", "live", "expired", "spent"}
  BY <1>1 DEF RowsTyped, LinkRow, NoLink
\* Who writes an effect, and what it writes.
<1> DEFINE Kept == \A l \in Link : \/ link'[l].effects = link[l].effects
                                   \/ link'[l].effects = 0 /\ link[l].status = "absent"
           Writes(r) == /\ Acting(r, req[r].id)
                        /\ \A l \in Link : ~ Acting(r, l)'
                        /\ link' = [link EXCEPT ![req[r].id].effects = @ + 1]
<1>3. Kept \/ \E r \in Req : Writes(r)
  <2>1. ASSUME UNCHANGED link PROVE Kept
    BY <2>1
  <2>2. ASSUME NEW r \in Req, NEW l \in Link, VerifyEmail(r, l) \/ ResetPassword(r, l)
        PROVE  Kept
    BY <1>1, <2>2 DEF VerifyEmail, ResetPassword, Redeem, Redeemable, Spent, RowsTyped, LinkRow,
                      NoLink, TypeOK
  <2>3. ASSUME NEW l \in Link, MailSent(l) \/ MailLost(l) \/ ExpireLink(l) PROVE Kept
    BY <1>1, <2>3 DEF MailSent, MailLost, ExpireLink, RowsTyped, LinkRow, NoLink, TypeOK
  <2>4. ASSUME Crash PROVE Kept
    BY <1>1, <2>4 DEF Crash, RowsTyped, LinkRow, NoLink, TypeOK
  <2>5. ASSUME NEW r \in Req, IssueCommit(r) PROVE Kept
    BY <1>1, <2>5 DEF IssueCommit, RowsTyped, LinkRow, NoLink, TypeOK, RowsInHand
  <2>6. ASSUME NEW r \in Req, MarkVerified(r) \/ UpdatePassword(r)
        PROVE  Writes(r)
    <3>1. req[r] \in Request
      BY <1>1, <2>6, UnderWay DEF MarkVerified, UpdatePassword, At
    <3>2. req'[r].pc \in {"idle", "revoke"}
      BY <1>1, <2>6, <3>1 DEF MarkVerified, UpdatePassword, Done, Idle, TypeOK, Request
    <3>3. req[r].pc \in {"mark", "hashed"}
      BY <2>6 DEF MarkVerified, UpdatePassword, At
    <3> QED
      BY <2>6, <3>2, <3>3 DEF MarkVerified, UpdatePassword, Acting, At
  <2> HIDE DEF Kept, Writes
  <2>7. ASSUME NEW r \in Req, SessionRoutes(r) \/ LinkRoutes(r) PROVE Kept
    BY <2>1, <2>2, <2>7 DEF SessionRoutes, LinkRoutes, Register, Login, Refresh,
                            ResendVerification, ForgotPassword
  <2>8. ASSUME NEW r \in Req, Step(r) PROVE Kept \/ Writes(r)
    BY <2>1, <2>5, <2>6, <2>8
       DEF Step, StartHash, HashDone, CreateAccount, AddressTaken, Reject, OpenSession, Touch,
           RetireSnapshot, RetireRows, RevokeAll
  <2>9. CASE Environment
    BY <2>1, <2>3, <2>4, <2>9 DEF Environment, OrphanDone, Logout, ExpireSession, Abandon
  <2> QED
    BY <2>1, <2>7, <2>8, <2>9 DEF Next, vars
<1>4. \A l \in Link : link'[l].effects > 0 =>
        \/ link'[l].effects = link[l].effects
        \/ \E r \in Req : Acting(r, l) /\ ~ Acting(r, l)' /\ link'[l].effects = 1
  <2>1. ASSUME NEW r \in Req, Writes(r), NEW l \in Link, link'[l].effects # link[l].effects
        PROVE  Acting(r, l) /\ ~ Acting(r, l)' /\ link'[l].effects = 1
    <3>1. req[r].id \in Link /\ link[req[r].id].effects = 0 /\ link[req[r].id] \in LinkRow
      BY <1>1, <2>1 DEF RowsInHand, OneEffect, RowsTyped, NoLink
    <3>2. l = req[r].id
      BY <1>1, <2>1, <3>1 DEF TypeOK
    <3> QED
      BY <1>1, <2>1, <3>1, <3>2 DEF TypeOK, LinkRow
  <2>2. CASE Kept
    BY <2>2
  <2> HIDE DEF Kept, Writes
  <2> QED
    BY <1>3, <2>1, <2>2
<1>5. \A r \in Req : \A l \in Link : Acting(r, l)' =>
        \/ Acting(r, l) /\ req'[r].kind = req[r].kind /\ req'[r].user = req[r].user
        \/ /\ link[l].status = "live" /\ link[l].mail = "sent"
           /\ link' = [link EXCEPT ![l] = Spent(link[l])]
           /\ link[l].purpose = req'[r].kind /\ link[l].user = req'[r].user
           /\ \A q \in Req \ {r} : req'[q] = req[q]
  BY <1>1, ActingHistory
<1>6. \A l \in Link : link[l].status = "live" =>
        link[l].effects = 0 /\ \A r \in Req : ~ Acting(r, l)
  <2>1. \A l \in Link : link[l].effects \in Nat
    BY <1>1 DEF RowsTyped, LinkRow, NoLink
  <2> QED
    BY <1>1, <2>1 DEF EffectsAreSpent, OneEffect
<1>7. \A l \in Link : link[l].status = "live" =>
        /\ Spent(link[l]).status = "spent" /\ Spent(link[l]).effects = link[l].effects
        /\ Spent(link[l]).mail = link[l].mail /\ Spent(link[l]).user = link[l].user
        /\ Spent(link[l]).purpose = link[l].purpose
  BY <1>1 DEF RowsTyped, LinkRow, NoLink, Spent
\* A request that acts on l after the step finds it spent, mailed and without an effect.
<1>8. ASSUME NEW r \in Req, NEW l \in Link, Acting(r, l)'
      PROVE  /\ link'[l].status = "spent" /\ link'[l].mail = "sent" /\ link'[l].effects = 0
             /\ link'[l].purpose = req'[r].kind /\ link'[l].user = req'[r].user
  <2>1. CASE Acting(r, l) /\ req'[r].kind = req[r].kind /\ req'[r].user = req[r].user
    <3>1. /\ link[l].status = "spent" /\ link[l].mail = "sent" /\ link[l].effects = 0
          /\ link[l].purpose = req[r].kind /\ link[l].user = req[r].user
          /\ \A q \in Req : Acting(q, l) => q = r
      BY <1>1, <2>1 DEF OneEffect, EffectsAreSpent, EffectNeedsItsLink
    <3>2. link'[l].effects = 0
      <4>1. link'[l].effects \in Nat
        BY TypeStep DEF TypeOK, LinkRow, NoLink
      <4> QED
        BY <1>4, <1>8, <3>1, <4>1
    <3> QED
      BY <1>1, <2>1, <3>1, <3>2 DEF LinksStay
  <2>2. CASE /\ link[l].status = "live" /\ link[l].mail = "sent"
             /\ link' = [link EXCEPT ![l] = Spent(link[l])]
             /\ link[l].purpose = req'[r].kind /\ link[l].user = req'[r].user
    BY <1>1, <1>6, <1>7, <2>2 DEF TypeOK
  <2> QED
    BY <1>5, <1>8, <2>1, <2>2
<1>9. ASSUME NEW l \in Link, NEW r1 \in Req, NEW r2 \in Req, Acting(r1, l)', Acting(r2, l)'
      PROVE  r1 = r2
  <2>1. CASE Acting(r1, l) /\ Acting(r2, l)
    BY <1>1, <2>1 DEF OneEffect
  <2>2. CASE link[l].status = "live"
    BY <1>5, <1>6, <1>9, <2>2 DEF Acting, At
  <2> QED
    BY <1>5, <1>6, <1>9, <2>1, <2>2
<1>10. \A l \in Link : link'[l].effects > 0 =>
         link'[l].effects <= 1 /\ link'[l].status = "spent" /\ link'[l].mail = "sent"
  <2> SUFFICES ASSUME NEW l \in Link, link'[l].effects > 0
               PROVE  link'[l].effects <= 1 /\ link'[l].status = "spent" /\ link'[l].mail = "sent"
    OBVIOUS
  <2>1. CASE link'[l].effects = link[l].effects
    BY <1>1, <2>1 DEF EffectsAreSpent, OneEffect, EffectNeedsItsLink, LinksStay
  <2>2. ASSUME NEW r \in Req, Acting(r, l), link'[l].effects = 1
        PROVE  link'[l].status = "spent" /\ link'[l].mail = "sent"
    BY <1>1, <2>2 DEF EffectsAreSpent, OneEffect, LinksStay
  <2> QED
    BY <1>4, <2>1, <2>2
<1>11. \A l \in Link : link'[l].effects \in Nat
  BY TypeStep DEF TypeOK, LinkRow, NoLink
<1> QED
  BY <1>8, <1>9, <1>10, <1>11 DEF EffectsAreSpent, OneEffectPerLink, OneEffect,
                                 EffectNeedsItsLink
-----------------------------------------------------------------------------
LEMMA OverlapStep == IInv /\ [Next]_vars => OnlyOverlappingIssuesCoexist'
<1> SUFFICES ASSUME IInv, [Next]_vars,
                    NEW l1 \in Link, NEW l2 \in Link, l1 # l2,
                    link'[l1].status = "live", link'[l2].status = "live",
                    link'[l1].user = link'[l2].user, link'[l1].purpose = link'[l2].purpose
             PROVE  l1 \notin link'[l2].seen
  BY DEF OnlyOverlappingIssuesCoexist
<1>1. /\ TypeOK /\ RowsInHand /\ RowsTyped /\ WhatIssuesSee /\ LinksStay
      /\ OnlyOverlappingIssuesCoexist
  BY TypedRows, LinkHistory DEF IInv
<1>2. CASE link[l1].status # "absent" /\ link[l2].status # "absent"
  BY <1>1, <1>2 DEF LinksStay, OnlyOverlappingIssuesCoexist
<1>3. CASE NoNewLink /\ (link[l1].status = "absent" \/ link[l2].status = "absent")
  BY <1>3 DEF NoNewLink
<1>4. ASSUME NEW r \in Req, IssueCommit(r),
             link[l1].status = "absent" \/ link[l2].status = "absent"
      PROVE  l1 \notin link'[l2].seen
  <2> PICK n \in Link :
        /\ link[n].status = "absent"
        /\ link' = [l \in Link |->
             IF l = n THEN [user |-> req[r].user, purpose |-> req[r].kind, status |-> "live",
                            mail |-> "queued", effects |-> 0, seen |-> req[r].seen]
             ELSE IF l \in req[r].locked THEN [link[l] EXCEPT !.status = "spent"]
             ELSE link[l]]
    BY <1>4 DEF IssueCommit
  <2>1. req[r].pc = "insert" /\ n \notin req[r].locked
    BY <1>1, <1>4 DEF IssueCommit, RowsInHand
  <2>2. ASSUME NEW l \in Link, l # n, link'[l].status = "live"
        PROVE  l \notin req[r].locked /\ link'[l] = link[l]
    <3>1. ASSUME l \in req[r].locked PROVE FALSE
      <4>1. link[l] \in LinkRow
        BY <1>1, <3>1 DEF RowsInHand, RowsTyped, NoLink
      <4> QED
        BY <2>2, <3>1, <4>1 DEF LinkRow
    <3> QED
      BY <2>2, <3>1
  <2>3. CASE l1 = n
    <3>1. link'[l2] = link[l2]
      BY <2>2, <2>3
    <3> QED
      BY <1>1, <2>3, <3>1 DEF WhatIssuesSee
  <2>4. CASE l2 = n
    <3>1. l1 \notin req[r].locked /\ link'[l1] = link[l1]
      BY <2>2, <2>4
    <3>2. link'[l2].seen = req[r].seen /\ link[l1].user = req[r].user
            /\ link[l1].purpose = req[r].kind /\ link[l1].status = "live"
      BY <2>4, <3>1
    <3> QED
      BY <1>1, <2>1, <3>1, <3>2 DEF WhatIssuesSee
  <2> QED
    BY <1>4, <2>2, <2>3, <2>4
<1> QED
  BY <1>2, <1>3, <1>4, LinkHistory

-----------------------------------------------------------------------------
LEMMA ResetStep == IInv /\ [Next]_vars => ResetEndsEarlierSessions'
<1> SUFFICES ASSUME IInv, [Next]_vars, NEW s \in Session,
                    Active(s)', session'[s].gen < revokedTo'[session'[s].user]
             PROVE  session'[s].over > session'[s].gen
  BY DEF ResetEndsEarlierSessions
<1>1. /\ TypeOK /\ RowsTyped /\ ResetEndsEarlierSessions /\ SessionsStay /\ NewSessionsKnow
  BY TypedRows, SessionHistory DEF IInv
<1>2. CASE revokedTo' = revokedTo
  <2>1. CASE session[s].status # "absent"
    BY <1>1, <1>2, <2>1 DEF SessionsStay, Active, ResetEndsEarlierSessions
  <2>2. CASE session[s].status = "absent"
    <3>1. session'[s].over = revokedTo[session'[s].user]
      BY <1>1, <2>2 DEF NewSessionsKnow, Active
    <3>2. session'[s] \in SessionRow /\ session'[s].user \in User
      BY TypeStep DEF TypeOK, SessionRow, NoSession, Active
    <3> QED
      BY <1>1, <1>2, <3>1, <3>2 DEF TypeOK, SessionRow
  <2> QED
    BY <2>1, <2>2
<1>3. ASSUME NEW r \in Req, RevokeAll(r) PROVE session'[s].over > session'[s].gen
  <2>1. req[r].user \in User
    BY <1>1, <1>3, UnderWay DEF RevokeAll, At, Request
  <2>2. session[s].user # req[r].user
    <3>1. ASSUME session[s].user = req[r].user PROVE FALSE
      <4>1. session[s] \in SessionRow
        BY <1>1, <2>1, <3>1, AccountAssumption DEF RowsTyped, NoSession
      <4> QED
        BY <1>3, <3>1, <4>1 DEF RevokeAll, Revoked, Active, SessionRow
    <3> QED
      BY <3>1
  <2>3. session'[s] = session[s] /\ Active(s)
    BY <1>3, <2>2 DEF RevokeAll, Active
  <2>4. revokedTo'[session[s].user] = revokedTo[session[s].user]
    BY <1>1, <1>3, <2>2, <2>3 DEF RevokeAll, TypeOK, RowsTyped, SessionRow, NoSession, Active
  <2> QED
    BY <1>1, <2>3, <2>4 DEF ResetEndsEarlierSessions
<1>4. revokedTo' = revokedTo \/ \E r \in Req : RevokeAll(r)
  BY AccountsGrow
<1> QED
  BY <1>2, <1>3, <1>4

-----------------------------------------------------------------------------
LEMMA FiniteHashing == IsFiniteSet(Hashing) /\ Cardinality(Hashing) \in Nat
  BY AccountAssumption, FS_Subset, FS_CardinalityType DEF Hashing

LEMMA PermitsStep == IInv /\ [Next]_vars => PermitsAreKept'
<1> SUFFICES ASSUME IInv, [Next]_vars PROVE PermitsAreKept'
  OBVIOUS
<1>1. /\ TypeOK /\ RowsTyped /\ PermitsAreKept /\ RequestHistory
      /\ IsFiniteSet(Hashing) /\ Cardinality(Hashing) \in Nat
      /\ permits \in Nat /\ orphans \in Nat /\ MaxHashes \in Nat
  BY TypedRows, RequestsMove, FiniteHashing, AccountAssumption DEF IInv, TypeOK
\* A request that is not hashing before the step, nor after it, changes nothing.
<1>2. ASSUME NEW r \in Req, req[r].pc # "hash", req'[r].pc # "hash",
             \A q \in Req \ {r} : req'[q] = req[q], UNCHANGED hasher
      PROVE  PermitsAreKept'
  <2>1. Hashing' = Hashing
    BY <1>2 DEF Hashing
  <2> QED
    BY <1>1, <1>2, <2>1 DEF PermitsAreKept, hasher
<1>3. ASSUME UNCHANGED req, UNCHANGED hasher PROVE PermitsAreKept'
  BY <1>1, <1>3 DEF PermitsAreKept, Hashing, hasher
<1>4. ASSUME NEW r \in Req, NEW row, req' = [req EXCEPT ![r] = row]
      PROVE  req'[r] = row /\ \A q \in Req \ {r} : req'[q] = req[q]
  BY <1>1, <1>4 DEF TypeOK
<1>5. ASSUME NEW r \in Req, req[r].pc # "hash", Done(r), UNCHANGED hasher
      PROVE  PermitsAreKept'
  <2>1. req'[r] = Idle /\ \A q \in Req \ {r} : req'[q] = req[q]
    BY <1>4, <1>5 DEF Done
  <2> QED
    BY <1>2, <1>5, <2>1 DEF Idle
<1>6. ASSUME NEW r \in Req, SessionRoutes(r) \/ LinkRoutes(r) PROVE PermitsAreKept'
  <2>1. ASSUME NEW kind, NEW pc \in {"queue", "touch", "issue", "mark"}, NEW u, NEW gen, NEW id,
               Start(r, kind, pc, u, gen, id), UNCHANGED hasher
        PROVE  PermitsAreKept'
    <3>1. req[r].pc = "idle"
      BY <2>1 DEF Start
    <3>2. req'[r].pc = pc /\ \A q \in Req \ {r} : req'[q] = req[q]
      BY <1>1, <2>1 DEF Start, TypeOK
    <3> QED
      BY <1>2, <2>1, <3>1, <3>2
  <2>2. CASE SessionRoutes(r)
    BY <2>1, <2>2 DEF SessionRoutes, Register, Login, Refresh
  <2>3. CASE LinkRoutes(r)
    BY <2>1, <2>3 DEF LinkRoutes, ResendVerification, ForgotPassword, VerifyEmail,
                      ResetPassword, Redeem
  <2> QED
    BY <1>6, <2>2, <2>3
<1>7. ASSUME NEW r \in Req, StartHash(r) PROVE PermitsAreKept'
  <2>1. req[r] \in Request /\ req[r].pc = "queue"
    BY <1>1, <1>7, UnderWay DEF StartHash
  <2>2. req'[r].pc = "hash" /\ \A q \in Req \ {r} : req'[q] = req[q]
    BY <1>1, <1>7, <2>1 DEF StartHash, Goto, TypeOK, Request
  <2>3. Hashing' = Hashing \cup {r} /\ r \notin Hashing
    BY <2>1, <2>2 DEF Hashing
  <2>4. Cardinality(Hashing') = Cardinality(Hashing) + 1
    BY <1>1, <2>3, FS_AddElement
  <2> QED
    BY <1>1, <1>7, <2>4 DEF StartHash, PermitsAreKept
<1>8. ASSUME NEW r \in Req, req[r].pc = "hash", req'[r].pc # "hash",
             \A q \in Req \ {r} : req'[q] = req[q]
      PROVE  Cardinality(Hashing') = Cardinality(Hashing) - 1
  <2>1. Hashing' = Hashing \ {r} /\ r \in Hashing
    BY <1>8 DEF Hashing
  <2> QED
    BY <1>1, <2>1, FS_RemoveElement
<1>9. ASSUME NEW r \in Req, HashDone(r) PROVE PermitsAreKept'
  <2>1. req[r] \in Request /\ req[r].pc = "hash"
    BY <1>1, <1>9, UnderWay DEF HashDone
  <2>2. req'[r].pc # "hash" /\ \A q \in Req \ {r} : req'[q] = req[q]
    BY <1>1, <1>9, <2>1 DEF HashDone, Goto, TypeOK, Request
  <2>3. Cardinality(Hashing') = Cardinality(Hashing) - 1
    BY <1>8, <2>1, <2>2
  <2> QED
    BY <1>1, <1>9, <2>3 DEF HashDone, PermitsAreKept
<1>10. ASSUME NEW r \in Req, Step(r), ~ StartHash(r), ~ HashDone(r) PROVE PermitsAreKept'
  <2>1. CASE CreateAccount(r)
    <3>1. req[r] \in Request /\ req[r].pc = "hashed"
      BY <1>1, <2>1, UnderWay DEF CreateAccount, At
    <3>2. req'[r].pc = "issue" /\ \A q \in Req \ {r} : req'[q] = req[q]
      BY <1>1, <2>1, <3>1 DEF CreateAccount, TypeOK, Request
    <3> QED
      BY <1>2, <2>1, <3>1, <3>2 DEF CreateAccount
  <2>2. CASE RetireSnapshot(r)
    <3>1. req[r] \in Request /\ req[r].pc = "issue"
      BY <1>1, <2>2, UnderWay DEF RetireSnapshot
    <3>2. req'[r].pc = "retire" /\ \A q \in Req \ {r} : req'[q] = req[q]
      BY <1>1, <2>2, <3>1 DEF RetireSnapshot, TypeOK, Request
    <3> QED
      BY <1>2, <2>2, <3>1, <3>2 DEF RetireSnapshot
  <2>3. CASE RetireRows(r)
    <3>1. req[r] \in Request /\ req[r].pc = "retire"
      BY <1>1, <2>3, UnderWay DEF RetireRows
    <3>2. req'[r].pc = "insert" /\ \A q \in Req \ {r} : req'[q] = req[q]
      BY <1>1, <2>3, <3>1 DEF RetireRows, TypeOK, Request
    <3> QED
      BY <1>2, <2>3, <3>1, <3>2 DEF RetireRows
  <2>4. CASE UpdatePassword(r)
    <3>1. req[r] \in Request /\ req[r].pc = "hashed"
      BY <1>1, <2>4, UnderWay DEF UpdatePassword, At
    <3>2. req'[r].pc = "revoke" /\ \A q \in Req \ {r} : req'[q] = req[q]
      BY <1>1, <2>4, <3>1 DEF UpdatePassword, TypeOK, Request
    <3> QED
      BY <1>2, <2>4, <3>1, <3>2 DEF UpdatePassword
  <2> QED
    BY <1>5, <1>10, <2>1, <2>2, <2>3, <2>4
       DEF Step, AddressTaken, Reject, OpenSession, Touch, IssueCommit, MarkVerified, RevokeAll,
           At
<1>11. CASE Environment
  <2>1. CASE OrphanDone
    <3>1. Hashing' = Hashing
      BY <2>1 DEF OrphanDone, Hashing
    <3> QED
      BY <1>1, <2>1, <3>1 DEF OrphanDone, PermitsAreKept
  <2>2. CASE Crash
    <3>1. Hashing' = {}
      BY <2>2 DEF Crash, Hashing, Idle
    <3> QED
      BY <1>1, <2>2, <3>1, FS_EmptySet DEF Crash, PermitsAreKept
  <2>3. ASSUME NEW r \in Req, Abandon(r) PROVE PermitsAreKept'
    <3>1. CASE req[r].pc # "hash"
      BY <1>5, <2>3, <3>1 DEF Abandon, hasher
    <3>2. CASE req[r].pc = "hash"
      <4>1. req'[r] = Idle /\ \A q \in Req \ {r} : req'[q] = req[q]
        <5>1. req' = [req EXCEPT ![r] = Idle]
          BY <2>3 DEF Abandon, Done
        <5> QED
          BY <1>4, <5>1
      <4>2. Cardinality(Hashing') = Cardinality(Hashing) - 1
        BY <1>8, <3>2, <4>1 DEF Idle
      <4> QED
        BY <1>1, <2>3, <3>2, <4>2 DEF Abandon, PermitsAreKept
    <3> QED
      BY <3>1, <3>2
  <2> QED
    BY <1>3, <1>11, <2>1, <2>2, <2>3
       DEF Environment, Logout, ExpireSession, MailSent, MailLost, ExpireLink
<1>12. CASE UNCHANGED vars
  BY <1>3, <1>12 DEF vars, hasher
<1> QED
  BY <1>6, <1>7, <1>9, <1>10, <1>11, <1>12 DEF Next

-----------------------------------------------------------------------------
\* Whatever the requests, their failures and restarts interleave: every row, request and
\* permit stays as the proofs below need it.
THEOREM Invariance == Spec => []IInv
<1>1. IInv /\ [Next]_vars => IInv'
  BY TypeStep, KnownUsersStep, RowsInHandStep, PermitsStep, WhatIssuesSeeStep, EffectsStep,
     OverlapStep, ResetStep DEF IInv
<1> QED
  BY <1>1, InitInvariant, PTL DEF Spec

\* Every table, every request's variables and the semaphore keep their types.
THEOREM AccountTyped == Spec => []TypeOK
  BY Invariance, PTL DEF IInv

\* consume: a link verifies an address or writes a password at most once, and only for the
\* account and the purpose it was mailed for.
THEOREM LinkWorksOnce == Spec => []OneEffectPerLink
  BY Invariance, PTL DEF IInv

\* issue: two live links of one purpose come from transactions that overlapped.
THEOREM RetiredByTheNext == Spec => []OnlyOverlappingIssuesCoexist
  BY Invariance, PTL DEF IInv

\* reset_password: whoever holds an older password and still has a working session signed in
\* after the revocation.
THEOREM ResetReachesEarlierSessions == Spec => []ResetEndsEarlierSessions
  BY Invariance, PTL DEF IInv

\* PasswordHasher: cancelled requests included, no more hashes run than there are permits.
THEOREM BoundedHashing == Spec => []HashesAreBounded
<1>1. IInv => HashesAreBounded
  BY FiniteHashing, AccountAssumption DEF IInv, TypeOK, PermitsAreKept, HashesAreBounded
<1> QED
  BY <1>1, Invariance, PTL

\* touch_session and every other statement leave a revoked session alone.
THEOREM RevocationIsFinal == Spec => RevokedIsFinal
<1>1. IInv /\ [Next]_vars =>
        [\A s \in Session : session[s].status = "revoked" => session'[s] = session[s]]_vars
  BY SessionHistory DEF IInv, SessionsStay
<1> QED
  BY <1>1, Invariance, PTL DEF Spec, RevokedIsFinal
=============================================================================
