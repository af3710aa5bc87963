------------------------------ MODULE Account ------------------------------
(***************************************************************************)
(* Password accounts: crates/auth, service.rs over repository.rs and       *)
(* account_tokens.rs.  Every request runs its statements one by one, with  *)
(* an await between any two; the client may hang up, a statement may fail  *)
(* and the process may die at every one of them.                           *)
(*                                                                         *)
(* A password is abstracted to the number of the write that stored it (a   *)
(* write never stores the previous one again), 0 for an account that has   *)
(* none, which third-party sign-in creates.                                *)
(***************************************************************************)
EXTENDS Integers, FiniteSets

CONSTANTS User,        \* accounts, by address
          Req,         \* requests in flight at once
          Session,     \* rows the sessions table can hold
          Link,        \* rows account_tokens can hold
          MaxHashes    \* MAX_CONCURRENT_HASHES

ASSUME AccountAssumption == /\ MaxHashes \in Nat \ {0}
                            /\ IsFiniteSet(Req)
                            /\ "none" \notin User

VARIABLES registered,  \* rows of users
          verified,    \* those whose email_verified_at is set
          password,    \* [User -> Nat]: the write that stored the password
          revokedTo,   \* ghost: the newest password whose reset revoked the sessions
          session,     \* rows of sessions
          link,        \* rows of account_tokens, and the mail that carries each
          req,         \* the requests' local variables
          permits,     \* permits left in the hasher's semaphore
          orphans      \* hashes still running for requests that were cancelled

accounts == <<registered, verified, password, revokedTo>>
hasher == <<permits, orphans>>
vars == <<accounts, session, link, req, hasher>>

Purpose == {"verify", "reset"}
NoSession == [user |-> "none", status |-> "absent", gen |-> 0, over |-> 0, touched |-> FALSE]
NoLink == [user |-> "none", purpose |-> "none", status |-> "absent", mail |-> "none",
           effects |-> 0, seen |-> {}]
Idle == [pc |-> "idle", kind |-> "none", user |-> "none", gen |-> 0, id |-> "none",
         seen |-> {}, locked |-> {}]

SessionRow ==
  [user : User, status : {"open", "expired", "revoked"}, gen : Nat, over : Nat,
   touched : BOOLEAN]

LinkRow ==
  [user : User, purpose : Purpose, status : {"live", "expired", "spent"},
   mail : {"queued", "sent", "lost"}, effects : Nat, seen : SUBSET Link]

Request ==
  [pc : {"queue", "hash", "hashed", "issue", "retire", "insert", "mark", "revoke", "touch"},
   kind : {"register", "login", "reset", "verify", "refresh"},
   user : User, gen : Nat, id : Session \cup Link \cup {"none"},
   seen : SUBSET Link, locked : SUBSET Link]

TypeOK ==
  /\ registered \subseteq User
  /\ verified \subseteq registered
  /\ password \in [User -> Nat]
  /\ revokedTo \in [User -> Nat]
  /\ session \in [Session -> SessionRow \cup {NoSession}]
  /\ link \in [Link -> LinkRow \cup {NoLink}]
  /\ req \in [Req -> Request \cup {Idle}]
  /\ permits \in Nat
  /\ orphans \in Nat
  /\ \A s \in Session : session[s] # NoSession => session[s].user \in registered

Init ==
  /\ registered \in SUBSET User        \* accounts third-party sign-in created
  /\ verified \in SUBSET registered
  /\ password = [u \in User |-> 0]
  /\ revokedTo = [u \in User |-> 0]
  /\ session = [s \in Session |-> NoSession]
  /\ link = [l \in Link |-> NoLink]
  /\ req = [r \in Req |-> Idle]
  /\ permits = MaxHashes
  /\ orphans = 0

-----------------------------------------------------------------------------
(* Shared predicates.                                                      *)

At(r, kind, pc) == req[r].kind = kind /\ req[r].pc = pc
Goto(r, pc) == req' = [req EXCEPT ![r].pc = pc]
Done(r) == req' = [req EXCEPT ![r] = Idle]
Start(r, kind, pc, u, gen, id) ==
  /\ req[r].pc = "idle"
  /\ req' = [req EXCEPT ![r] = [pc |-> pc, kind |-> kind, user |-> u, gen |-> gen, id |-> id,
                                seen |-> {}, locked |-> {}]]

\* SELECT_ACTIVE_SESSION: neither revoked nor past its expiry.
Active(s) == session[s].status = "open"

\* Requests waiting for their own hash on the blocking pool.
Hashing == {r \in Req : req[r].pc = "hash"}

\* A row a retiring transaction has updated and not committed yet.
Locked(l) == \E r \in Req : req[r].pc = "insert" /\ l \in req[r].locked

\* The bound: a request that may insert a row starts only while a row is left for it.
RoomForSession ==
  Cardinality({r \in Req : req[r].kind \in {"register", "login"}})
     < Cardinality({s \in Session : session[s].status = "absent"})
RoomForLink ==
  Cardinality({r \in Req : req[r].kind = "register" \/ req[r].pc \in {"issue", "retire", "insert"}})
     < Cardinality({l \in Link : link[l].status = "absent"})

-----------------------------------------------------------------------------
(* PasswordHasher: a permit, then the hash on the blocking pool.           *)

\* Mutant: the last permit is never handed out.
StartHash_off_by_one(r) ==
  /\ req[r].pc = "queue"
  /\ permits > 1
  /\ permits' = permits - 1
  /\ Goto(r, "hash")
  /\ UNCHANGED <<accounts, session, link, orphans>>
StartHash(r) ==
  /\ req[r].pc = "queue"
  /\ permits > 0
  /\ permits' = permits - 1
  /\ Goto(r, "hash")
  /\ UNCHANGED <<accounts, session, link, orphans>>

HashDone(r) ==
  /\ req[r].pc = "hash"
  /\ permits' = permits + 1
  /\ Goto(r, "hashed")
  /\ UNCHANGED <<accounts, session, link, orphans>>

\* The closure owns the permit and drops it when the hash ends.
OrphanDone ==
  /\ orphans > 0
  /\ orphans' = orphans - 1
  /\ permits' = permits + 1
  /\ UNCHANGED <<accounts, session, link, req>>

-----------------------------------------------------------------------------
(* register and login.                                                     *)

Register(r, u) ==
  /\ RoomForSession /\ RoomForLink
  /\ Start(r, "register", "queue", u, 0, "none")
  /\ UNCHANGED <<accounts, session, link, hasher>>

\* The row one INSERT INTO sessions writes for a User who proved password g.
Opened(u, g) ==
  [user |-> u, status |-> "open", gen |-> g, over |-> revokedTo[u], touched |-> FALSE]

\* One transaction: the users row and the first session.
\* Mutant: the session is inserted although the account's own insert rolled back.
CreateAccount_half(r) ==
  /\ At(r, "register", "hashed")
  /\ \E s \in Session :
       /\ session[s].status = "absent"
       /\ session' = [session EXCEPT ![s] = Opened(req[r].user, 1)]
  /\ Done(r)
  /\ UNCHANGED <<accounts, link, hasher>>
CreateAccount(r) ==
  /\ At(r, "register", "hashed")
  /\ LET u == req[r].user IN
     /\ u \notin registered
     /\ registered' = registered \cup {u}
     /\ password' = [password EXCEPT ![u] = 1]
     /\ \E s \in Session :
          /\ session[s].status = "absent"
          /\ session' = [session EXCEPT ![s] = Opened(u, 1)]
  /\ req' = [req EXCEPT ![r].pc = "issue", ![r].kind = "verify"]
  /\ UNCHANGED <<verified, revokedTo, link, hasher>>

\* users_email_key: the whole transaction rolls back.
AddressTaken(r) ==
  /\ At(r, "register", "hashed")
  /\ req[r].user \in registered
  /\ Done(r)
  /\ UNCHANGED <<accounts, session, link, hasher>>

\* gen is the password the caller typed, when it is the one the row read here holds, and
\* 0 when there is no such account, no password, or another one: that caller costs a
\* hash too and is then rejected.
Login(r, u, right) ==
  /\ RoomForSession
  /\ LET known == right /\ u \in registered /\ password[u] > 0 IN
     Start(r, "login", "queue", u, IF known THEN password[u] ELSE 0, "none")
  /\ UNCHANGED <<accounts, session, link, hasher>>

Reject(r) ==
  /\ At(r, "login", "hashed")
  /\ req[r].gen = 0
  /\ Done(r)
  /\ UNCHANGED <<accounts, session, link, hasher>>

OpenSession(r) ==
  /\ At(r, "login", "hashed")
  /\ req[r].gen > 0
  /\ \E s \in Session :
       /\ session[s].status = "absent"
       /\ session' = [session EXCEPT ![s] = Opened(req[r].user, req[r].gen)]
  /\ Done(r)
  /\ UNCHANGED <<accounts, link, hasher>>

-----------------------------------------------------------------------------
(* refresh and logout.                                                     *)

Refresh(r, s) ==
  /\ Active(s)
  /\ Start(r, "refresh", "touch", session[s].user, 0, s)
  /\ UNCHANGED <<accounts, session, link, hasher>>

\* touch_session: the filter is evaluated again, for the row as it is now.
\* Mutant: the session read before the token was signed is written back.
Touch_writes_back_what_was_read(r) ==
  /\ At(r, "refresh", "touch")
  /\ session' = [session EXCEPT ![req[r].id].touched = TRUE, ![req[r].id].status = "open"]
  /\ Done(r)
  /\ UNCHANGED <<accounts, link, hasher>>
Touch(r) ==
  /\ At(r, "refresh", "touch")
  /\ session' = [session EXCEPT ![req[r].id].touched = @ \/ session[req[r].id].status # "revoked"]
  /\ Done(r)
  /\ UNCHANGED <<accounts, link, hasher>>

Revoked(row) == [row EXCEPT !.status = "revoked"]

\* The access token is enough: logout does not ask whether the session is still active.
Logout(s) ==
  /\ session[s].status \in {"open", "expired"}
  /\ session' = [session EXCEPT ![s] = Revoked(@)]
  /\ UNCHANGED <<accounts, link, req, hasher>>

-----------------------------------------------------------------------------
(* Links: issue is a transaction of two statements, consume is one.        *)

\* resend_verification reads the account; only an unverified one gets a link.
ResendVerification(r, u) ==
  /\ RoomForLink
  /\ u \in registered \ verified
  /\ Start(r, "verify", "issue", u, 0, "none")
  /\ UNCHANGED <<accounts, session, link, hasher>>

\* forgot_password runs the same statements for an unknown address; they write nothing.
ForgotPassword(r, u) ==
  /\ RoomForLink
  /\ u \in registered
  /\ Start(r, "reset", "issue", u, 0, "none")
  /\ UNCHANGED <<accounts, session, link, hasher>>

\* The retiring UPDATE takes its snapshot of the committed rows when it starts ...
\* Mutant: only the links whose mail has not gone out yet are retired.
Outstanding_skips_mailed(u, purpose) ==
  {l \in Link : link[l].user = u /\ link[l].purpose = purpose /\ link[l].status # "spent"
                /\ link[l].mail # "sent"}
Outstanding(u, purpose) ==
  {l \in Link : link[l].user = u /\ link[l].purpose = purpose /\ link[l].status # "spent"}

RetireSnapshot(r) ==
  /\ req[r].pc = "issue"
  /\ req' = [req EXCEPT ![r].pc = "retire",
                        ![r].seen = {l \in Link : link[l].status # "absent"},
                        ![r].locked = Outstanding(req[r].user, req[r].kind)]
  /\ UNCHANGED <<accounts, session, link, hasher>>

\* ... waits for the rows another transaction has locked, and re-reads them.
RetireRows(r) ==
  /\ req[r].pc = "retire"
  /\ \A l \in req[r].locked : ~ Locked(l)
  /\ req' = [req EXCEPT ![r].pc = "insert",
                        ![r].locked = {l \in @ : link[l].status # "spent"}]
  /\ UNCHANGED <<accounts, session, link, hasher>>

\* The insert and the commit: the retired rows and the new one appear together, and the
\* mail is handed to a task of its own.
IssueCommit(r) ==
  /\ req[r].pc = "insert"
  /\ \E n \in Link :
       /\ link[n].status = "absent"
       /\ link' = [l \in Link |->
            IF l = n THEN [user |-> req[r].user, purpose |-> req[r].kind, status |-> "live",
                           mail |-> "queued", effects |-> 0, seen |-> req[r].seen]
            ELSE IF l \in req[r].locked THEN [link[l] EXCEPT !.status = "spent"]
            ELSE link[l]]
  /\ Done(r)
  /\ UNCHANGED <<accounts, session, hasher>>

MailSent(l) ==
  /\ link[l].mail = "queued"
  /\ link' = [link EXCEPT ![l].mail = "sent"]
  /\ UNCHANGED <<accounts, session, req, hasher>>

MailLost(l) ==
  /\ link[l].mail = "queued"
  /\ link' = [link EXCEPT ![l].mail = "lost"]
  /\ UNCHANGED <<accounts, session, req, hasher>>

\* The one UPDATE of consume; it waits for a retiring transaction's lock.
Redeemable(l, purpose) ==
  link[l].status = "live" /\ link[l].purpose = purpose /\ ~ Locked(l)

\* Mutant: the link is looked up now and spent when its effect is written.
Spent_later(row) == row
Spent(row) == [row EXCEPT !.status = "spent"]

Redeem(r, l, purpose, pc) ==
  /\ link[l].mail = "sent"
  /\ Redeemable(l, purpose)
  /\ Start(r, purpose, pc, link[l].user, 0, l)
  /\ link' = [link EXCEPT ![l] = Spent(@)]

VerifyEmail(r, l) ==
  /\ Redeem(r, l, "verify", "mark")
  /\ UNCHANGED <<accounts, session, hasher>>

MarkVerified(r) ==
  /\ At(r, "verify", "mark")
  /\ verified' = verified \cup {req[r].user}
  /\ link' = [link EXCEPT ![req[r].id].effects = @ + 1]
  /\ Done(r)
  /\ UNCHANGED <<registered, password, revokedTo, session, hasher>>

ResetPassword(r, l) ==
  /\ Redeem(r, l, "reset", "queue")
  /\ UNCHANGED <<accounts, session, hasher>>

UpdatePassword(r) ==
  /\ At(r, "reset", "hashed")
  /\ password' = [password EXCEPT ![req[r].user] = @ + 1]
  /\ link' = [link EXCEPT ![req[r].id].effects = @ + 1]
  /\ req' = [req EXCEPT ![r].pc = "revoke", ![r].gen = password[req[r].user] + 1]
  /\ UNCHANGED <<registered, verified, revokedTo, session, hasher>>

\* Mutant: devices that were seen since they signed in are left alone.
RevokeAll_keeps_touched(r) ==
  /\ At(r, "reset", "revoke")
  /\ session' = [s \in Session |->
       IF session[s].user = req[r].user /\ ~ session[s].touched THEN Revoked(session[s])
       ELSE session[s]]
  /\ revokedTo' = [revokedTo EXCEPT ![req[r].user] =
                     IF req[r].gen > @ THEN req[r].gen ELSE @]
  /\ Done(r)
  /\ UNCHANGED <<registered, verified, password, link, hasher>>
RevokeAll(r) ==
  /\ At(r, "reset", "revoke")
  /\ session' = [s \in Session |->
       IF session[s].user = req[r].user THEN Revoked(session[s]) ELSE session[s]]
  /\ revokedTo' = [revokedTo EXCEPT ![req[r].user] =
                     IF req[r].gen > @ THEN req[r].gen ELSE @]
  /\ Done(r)
  /\ UNCHANGED <<registered, verified, password, link, hasher>>

-----------------------------------------------------------------------------
(* What the code does not control.                                         *)

ExpireSession(s) ==
  /\ session[s].status = "open"
  /\ session' = [session EXCEPT ![s].status = "expired"]
  /\ UNCHANGED <<accounts, link, req, hasher>>

ExpireLink(l) ==
  /\ link[l].status = "live"
  /\ ~ Locked(l)
  /\ link' = [link EXCEPT ![l].status = "expired"]
  /\ UNCHANGED <<accounts, session, req, hasher>>

\* The client hangs up, or the request's next statement fails.  Its open transaction
\* rolls back; a hash it started runs on and keeps its permit.
\* Mutant: the permit belongs to the request and is given back when it is dropped.
Abandon_returns_the_permit(r) ==
  /\ req[r].pc # "idle"
  /\ IF req[r].pc = "hash" THEN orphans' = orphans + 1 /\ permits' = permits + 1
     ELSE UNCHANGED hasher
  /\ Done(r)
  /\ UNCHANGED <<accounts, session, link>>
Abandon(r) ==
  /\ req[r].pc # "idle"
  /\ IF req[r].pc = "hash" THEN orphans' = orphans + 1 ELSE UNCHANGED orphans
  /\ Done(r)
  /\ UNCHANGED <<accounts, session, link, permits>>

\* The process restarts: requests, hashes and the mail not yet handed over are gone.
Crash ==
  /\ req' = [r \in Req |-> Idle]
  /\ permits' = MaxHashes
  /\ orphans' = 0
  /\ link' = [l \in Link |-> IF link[l].mail = "queued" THEN [link[l] EXCEPT !.mail = "lost"]
                             ELSE link[l]]
  /\ UNCHANGED <<accounts, session>>

-----------------------------------------------------------------------------
\* The routes that open or renew a session, and those that ask for a link or redeem one.
SessionRoutes(r) ==
  \/ \E u \in User : Register(r, u) \/ \E right \in BOOLEAN : Login(r, u, right)
  \/ \E s \in Session : Refresh(r, s)

LinkRoutes(r) ==
  \/ \E u \in User : ResendVerification(r, u) \/ ForgotPassword(r, u)
  \/ \E l \in Link : VerifyEmail(r, l) \/ ResetPassword(r, l)

Step(r) ==
  \/ StartHash(r) \/ HashDone(r)
  \/ CreateAccount(r) \/ AddressTaken(r) \/ Reject(r) \/ OpenSession(r)
  \/ Touch(r)
  \/ RetireSnapshot(r) \/ RetireRows(r) \/ IssueCommit(r)
  \/ MarkVerified(r) \/ UpdatePassword(r) \/ RevokeAll(r)

Environment ==
  \/ OrphanDone
  \/ \E s \in Session : Logout(s) \/ ExpireSession(s)
  \/ \E l \in Link : MailSent(l) \/ MailLost(l) \/ ExpireLink(l)
  \/ \E r \in Req : Abandon(r)
  \/ Crash

Next == (\E r \in Req : SessionRoutes(r) \/ LinkRoutes(r) \/ Step(r)) \/ Environment

Spec == Init /\ [][Next]_vars

\* The runtime polls every task (WF); the semaphore and PostgreSQL's row locks queue
\* their waiters in order (SF); a hash on the blocking pool ends.
Fairness ==
  /\ \A r \in Req : WF_vars(Step(r)) /\ SF_vars(StartHash(r)) /\ SF_vars(RetireRows(r))
  /\ WF_vars(OrphanDone)

FairSpec == Spec /\ Fairness

-----------------------------------------------------------------------------
(* Properties.                                                             *)

\* Requests that have spent a link and not written its effect yet.
Acting(r, l) ==
  \/ At(r, "verify", "mark") /\ req[r].id = l
  \/ req[r].kind = "reset" /\ req[r].pc \in {"queue", "hash", "hashed"} /\ req[r].id = l

\* A link works once: whatever two redemptions, their hashes and failures interleave,
\* at most one of them verifies the address or writes a password (consume).
OneEffect ==
  \A l \in Link :
    /\ link[l].effects <= 1
    /\ \A r \in Req : Acting(r, l) => link[l].effects = 0 /\ link[l].status = "spent"
    /\ \A r1, r2 \in Req : Acting(r1, l) /\ Acting(r2, l) => r1 = r2

\* An address counts as verified, and a password as reset, only through a link of that
\* purpose mailed for that very account.
EffectNeedsItsLink ==
  /\ \A l \in Link : \A r \in Req :
       Acting(r, l) => link[l].purpose = req[r].kind /\ link[l].user = req[r].user
  /\ \A l \in Link : link[l].effects > 0 => link[l].mail = "sent"

\* Both of the above: one effect per link, and none without its own link.
OneEffectPerLink == OneEffect /\ EffectNeedsItsLink

\* Two links of one purpose are both alive only if the transactions that issued them
\* overlapped: whoever asks again after an answer retires what was sent before.
OnlyOverlappingIssuesCoexist ==
  \A l1, l2 \in Link :
    (/\ link[l1].status = "live" /\ link[l2].status = "live" /\ l1 # l2
     /\ link[l1].user = link[l2].user /\ link[l1].purpose = link[l2].purpose)
    => l1 \notin link[l2].seen /\ l2 \notin link[l1].seen

\* A completed reset ends every session that existed when it revoked: one that rests on
\* an older password and still works was inserted after the revocation.
ResetEndsEarlierSessions ==
  \A s \in Session :
    Active(s) /\ session[s].gen < revokedTo[session[s].user]
      => session[s].over > session[s].gen

\* A password change ends every session opened with the old one (service.rs), as the
\* comment on reset_password says it: no session of a replaced password works once the
\* revocation has run.
ResetEndsOldSessions ==
  \A s \in Session : Active(s) => session[s].gen >= revokedTo[session[s].user]

\* A revoked session stays revoked and untouched, whatever a refresh that read it while
\* it was active still has to write.
RevokedIsFinal ==
  [][\A s \in Session : session[s].status = "revoked" => session'[s] = session[s]]_vars

\* At most MAX_CONCURRENT_HASHES run at once, those of cancelled requests included.
HashesAreBounded == Cardinality(Hashing) + orphans <= MaxHashes

\* Every request ends, however many share the permits and the rows it waits for.
RequestsFinish == \A r \in Req : req[r].pc # "idle" ~> req[r].pc = "idle"
=============================================================================
