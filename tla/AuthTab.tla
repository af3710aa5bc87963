------------------------------- MODULE AuthTab -------------------------------
(***************************************************************************)
(* Who a browser tab is signed in as: the auth store (stores/auth.ts) under *)
(* the router's guard and the views that call it.  A request and its answer *)
(* are apart, with the person, a reload, the other tabs of the browser and  *)
(* the end of sessions in between.  An access token is its session; whether *)
(* its own lifetime is over is left to chance.  Storage is taken to work.   *)
(***************************************************************************)
EXTENDS Naturals, Sequences

CONSTANTS Holder,      \* accounts
          MaxLogins    \* bound: sessions created

Nobody == "nobody"

ASSUME AuthTabAssumption == Nobody \notin Holder /\ MaxLogins \in Nat

VARIABLES logins,      \* rows of sessions: [of, live]
          localStore,  \* localStorage: the session of the two tokens, 0 for none
          tab          \* the store, its requests under way, and ghosts

authTabVars == <<logins, localStore, tab>>

NoCheck == [stage |-> "none", s |-> 0, answer |-> "none"]
NoForm == [op |-> "none", s |-> 0]
SignIns == {"password", "callback", "complete"}

\* A page that is loading; crossed and failed are ghosts: an answer met other tokens than
\* it was asked with, and an answer did not come.
Loading(s, limited) ==
  [user |-> Nobody, s |-> s, limited |-> limited,
   mounted |-> s = 0, crossed |-> FALSE, failed |-> FALSE,
   check |-> IF s = 0 THEN NoCheck ELSE [stage |-> "me", s |-> s, answer |-> "awaited"],
   form |-> NoForm]

AuthTabInit == logins = <<>> /\ localStore = 0 /\ tab = Loading(0, Nobody)

Live(s) == s # 0 /\ logins[s].live
Authenticated == tab.user # Nobody /\ tab.s # 0

\* restore() comes before the mount, so that the guard sees the real state.
LoadPage ==
  /\ tab' = Loading(localStore, tab.limited)
  /\ UNCHANGED <<logins, localStore>>

\* clear(), applySession and applyTokens write what they hold to storage.
Cleared(t) == [t EXCEPT !.user = Nobody, !.s = 0, !.limited = Nobody, !.crossed = FALSE]

-----------------------------------------------------------------------------
(* ensureSession: /auth/me, /auth/refresh when it is refused, /auth/me      *)
(* again.  The server says yes at some moment before the answer arrives; a  *)
(* no and a failure change nothing there: they are decided as they arrive.  *)

Checking(stage) == [stage |-> stage, s |-> tab.s, answer |-> "awaited"]
Ended(t) == [t EXCEPT !.check = NoCheck, !.mounted = TRUE]
Crossing == tab.crossed \/ tab.check.s # tab.s

FetchWhoAmI ==
  /\ tab.mounted /\ Authenticated /\ tab.check = NoCheck
  /\ tab' = [tab EXCEPT !.check = Checking("me")]
  /\ UNCHANGED <<logins, localStore>>

Accept ==
  /\ tab.check.answer = "awaited" /\ Live(tab.check.s)
  /\ tab' = [tab EXCEPT !.check.answer = "ok"]
  /\ UNCHANGED <<logins, localStore>>

\* An access token may have expired, but not right after it was issued.
Declined(stage) ==
  /\ tab.check.answer = "awaited" /\ tab.check.stage = stage
  /\ stage = "me" \/ ~ Live(tab.check.s)

ProfileArrives ==
  /\ tab.check.stage \in {"me", "again"} /\ tab.check.answer = "ok"
  /\ tab' = Ended([tab EXCEPT !.user = logins[tab.check.s].of, !.crossed = Crossing])
  /\ UNCHANGED <<logins, localStore>>

\* The refresh token is the one held now, not the one held when /auth/me was asked.
ProfileRefused ==
  /\ Declined("me") /\ tab.s # 0
  /\ tab' = [tab EXCEPT !.check = Checking("refresh")]
  /\ UNCHANGED <<logins, localStore>>

TokensArrive ==
  /\ tab.check.stage = "refresh" /\ tab.check.answer = "ok"
  /\ tab' = [tab EXCEPT !.s = tab.check.s, !.crossed = Crossing,
                        !.check = [stage |-> "again", s |-> tab.check.s, answer |-> "awaited"]]
  /\ localStore' = tab.check.s
  /\ UNCHANGED logins

\* Both tokens were rejected, or there is none left to refresh with.
SessionRefused ==
  /\ \/ Declined("refresh")
     \/ Declined("me") /\ tab.s = 0
  /\ tab' = Ended(Cleared(tab))
  /\ localStore' = 0
  /\ UNCHANGED logins

\* A failure leaves the session as it is, and so does a refusal after a refresh.
CheckGivenUp ==
  /\ \/ Declined("again") /\ tab' = Ended(tab)
     \/ tab.check.answer = "awaited" /\ tab' = Ended([tab EXCEPT !.failed = TRUE])
  /\ UNCHANGED <<logins, localStore>>

-----------------------------------------------------------------------------
(* The forms and pages, one request of theirs at a time.  A request counts  *)
(* from the moment the server takes it: before, it changes nothing.  One    *)
(* that changes nothing on the server is one step with its answer.          *)

MayAsk == tab.mounted /\ tab.form = NoForm
Asks(op, s) == tab' = [tab EXCEPT !.form = [op |-> op, s |-> s]]

\* The guard keeps a tab that is signed in off the password forms; the step that chooses a
\* handle needs a limited token.
AskSignIn(op, u) ==
  /\ MayAsk /\ Len(logins) < MaxLogins
  /\ op = "password" => ~ Authenticated
  /\ op = "complete" => tab.limited = u
  /\ logins' = Append(logins, [of |-> u, live |-> TRUE])
  /\ Asks(op, Len(logins) + 1)
  /\ UNCHANGED localStore

SignInArrives ==
  /\ tab.form.op \in SignIns
  /\ tab' = [tab EXCEPT !.user = logins[tab.form.s].of, !.s = tab.form.s, !.crossed = FALSE,
                        !.limited = IF tab.form.op = "password" THEN @ ELSE Nobody,
                        !.form = NoForm]
  /\ localStore' = tab.form.s
  /\ UNCHANGED logins

\* A callback that ends with a limited token, or is refused: what is held besides stays.
CallBack(limited) ==
  /\ MayAsk
  /\ tab' = [tab EXCEPT !.limited = limited]
  /\ UNCHANGED <<logins, localStore>>

\* "A different account's verification must not hijack the tab."
Shown(t, profile) == IF t.user \in {Nobody, profile} THEN profile ELSE t.user

VerifyEmail(u) ==
  /\ MayAsk
  /\ tab' = [tab EXCEPT !.user = Shown(tab, u),
                        !.crossed = \/ @
                                    \/ tab.user = Nobody /\ tab.s # 0 /\ logins[tab.s].of # u]
  /\ UNCHANGED <<logins, localStore>>

Ending(dead) == logins' = [s \in DOMAIN logins |-> [logins[s] EXCEPT !.live = @ /\ ~ dead[s]]]

\* A reset ends every session of its account, a logout the one of its access token, unless
\* it is refused or lost.
ResetPassword(u) ==
  /\ MayAsk /\ Asks("reset", 0)
  /\ Ending([s \in DOMAIN logins |-> logins[s].of = u])
  /\ UNCHANGED localStore

Logout ==
  /\ MayAsk /\ Authenticated /\ Asks("logout", 0)
  /\ UNCHANGED logins \/ Ending([s \in DOMAIN logins |-> s = tab.s])
  /\ UNCHANGED localStore

\* A failure of theirs leaves what is held, a callback's no limited token.
AnswerLost ==
  /\ tab.form.op \in SignIns \cup {"reset"}
  /\ tab' = [tab EXCEPT !.limited = IF tab.form.op = "callback" THEN Nobody ELSE @,
                        !.form = NoForm]
  /\ UNCHANGED <<logins, localStore>>

\* The tab drops its session, whosever the reset was and whatever the logout came to.
SignOutArrives ==
  /\ tab.form.op \in {"reset", "logout"}
  /\ tab' = [Cleared(tab) EXCEPT !.form = NoForm]
  /\ localStore' = 0
  /\ UNCHANGED logins

-----------------------------------------------------------------------------
(* What happens elsewhere. *)

\* A session expires, or is revoked from another Device.
EndSession(s) ==
  /\ Live(s) /\ logins' = [logins EXCEPT ![s].live = FALSE]
  /\ UNCHANGED <<localStore, tab>>

\* Another tab of the browser has applied or cleared its own session.
OtherTab(s) ==
  /\ s # localStore /\ localStore' = s
  /\ UNCHANGED <<logins, tab>>

AuthTabNext ==
  \/ LoadPage
  \/ FetchWhoAmI \/ Accept \/ ProfileArrives \/ ProfileRefused \/ TokensArrive
  \/ SessionRefused \/ CheckGivenUp
  \/ \E u \in Holder : (\E op \in SignIns : AskSignIn(op, u)) \/ VerifyEmail(u) \/ ResetPassword(u)
  \/ \E l \in Holder \cup {Nobody} : CallBack(l)
  \/ Logout \/ SignInArrives \/ SignOutArrives \/ AnswerLost
  \/ \E s \in DOMAIN logins : EndSession(s)
  \/ \E s \in {0} \cup DOMAIN logins : OtherTab(s)

AuthTabTypeOK ==
  /\ logins \in Seq([of : Holder, live : BOOLEAN]) /\ Len(logins) <= MaxLogins
  /\ {localStore, tab.s, tab.check.s, tab.form.s} \subseteq {0} \cup DOMAIN logins
  /\ {tab.user, tab.limited} \subseteq Holder \cup {Nobody}
  /\ tab.mounted \/ tab.form = NoForm

-----------------------------------------------------------------------------
\* The profile a tab shows and the tokens it asks with are of one account, whatever is
\* signed in, out, verified and refreshed meanwhile, unless an answer met tokens it was
\* not asked with; and a mounted tab that holds a live session shows its account, unless
\* an answer failed: the guard does not send a session that works to the login form.
TabsKnowTheirAccount ==
  ~ tab.crossed =>
    /\ Authenticated => logins[tab.s].of = tab.user
    /\ tab.mounted /\ Live(tab.s) /\ ~ tab.failed => tab.user # Nobody
=============================================================================
