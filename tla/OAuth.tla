------------------------------- MODULE OAuth -------------------------------
(***************************************************************************)
(* Third-party sign-in: crates/auth/src/oauth, service.rs over             *)
(* repository.rs.  A browser round trip (state), an identity the provider  *)
(* vouches for, and a limited token that holds a first-time account until  *)
(* its handle is chosen.  Every statement is a step; other callbacks,      *)
(* completions and registrations run in between, and a request may be cut  *)
(* off at any of them.                                                     *)
(*                                                                         *)
(* The provider is external: it turns a code into an identity and, maybe,  *)
(* an address.  A limited token is the number of the mint that wrote it.   *)
(***************************************************************************)
EXTENDS Integers

CONSTANTS Account,     \* rows of users
          Email,       \* addresses
          Identity,    \* (provider, subject) pairs
          State,       \* rows of oauth_states
          Call,        \* requests in flight at once
          MaxMints     \* bound: limited tokens minted

None == "none"
NoEmail == "unknown"

ASSUME OAuthAssumption == /\ MaxMints \in Nat
                          /\ None \notin Account /\ None \notin Email
                          /\ None \notin Identity /\ None \notin State
                          /\ NoEmail \notin Email

VARIABLES account,     \* [Account -> users row]
          owner,       \* oauth_identities: [Identity -> Account or None]
          pending,     \* oauth_pending_sessions: [Identity -> row], one per identity
          state,       \* [State -> oauth_states row]
          call,        \* the requests' local variables
          mints,       \* limited tokens minted so far
          completed,   \* ghost: limited tokens that have chosen a handle
          lapsed,      \* ghost: accounts whose limited token was lost before it was used
          signedIn     \* accounts that have had a session

vars == <<account, owner, pending, state, call, mints, completed, lapsed, signedIn>>

NoAccount == [email |-> None, named |-> FALSE]
NoPending == [token |-> 0, user |-> None, status |-> "absent"]
NoState == [status |-> "absent", linkTo |-> None, verifier |-> "none"]
Idle == [pc |-> "idle", state |-> None, id |-> None, email |-> NoEmail, user |-> None,
         token |-> 0, verifier |-> "none"]

Exists(a) == account[a] # NoAccount

Init ==
  /\ account \in [Account -> {NoAccount} \cup [email : Email, named : {TRUE}]]
  /\ \A a, b \in Account : a # b /\ Exists(a) => account[a].email # account[b].email
  /\ owner = [i \in Identity |-> None]
  /\ pending = [i \in Identity |-> NoPending]
  /\ state = [s \in State |-> NoState]
  /\ call = [c \in Call |-> Idle]
  /\ mints = 0
  /\ completed = {}
  /\ lapsed = {}
  /\ signedIn = {a \in Account : Exists(a)}

-----------------------------------------------------------------------------
At(c, pc) == call[c].pc = pc
Goto(c, pc) == call' = [call EXCEPT ![c].pc = pc]
Done(c) == call' = [call EXCEPT ![c] = Idle]
EmailTaken(e) == e # NoEmail /\ \E a \in Account : account[a].email = e

\* What a row holds of the verifier: the value start derived from the state token, or the
\* zeros consume_state overwrites it with.  The UPDATE returns the row as it leaves it.
Cleared == "zeros"
Derived == "derived"

-----------------------------------------------------------------------------
(* Accounts of the password side, which race for the same addresses.       *)

RegisterElsewhere(a, e) ==
  /\ ~ Exists(a) /\ ~ EmailTaken(e)
  /\ account' = [account EXCEPT ![a] = [email |-> e, named |-> TRUE]]
  /\ signedIn' = signedIn \cup {a}
  /\ UNCHANGED <<owner, pending, state, call, mints, completed, lapsed>>

-----------------------------------------------------------------------------
(* start                                                                   *)

NewState(linkTo) == [status |-> "live", linkTo |-> linkTo, verifier |-> Derived]

\* linkTo is the signed-in account that asked to link, None for a sign-in.
StartRoundTrip(s, linkTo) ==
  /\ state[s].status = "absent"
  /\ linkTo # None => linkTo \in signedIn
  /\ state' = [state EXCEPT ![s] = NewState(linkTo)]
  /\ UNCHANGED <<account, owner, pending, call, mints, completed, lapsed, signedIn>>

-----------------------------------------------------------------------------
(* callback                                                                *)

\* consume_state, before anything is asked of the provider.
ConsumeState(c, s) ==
  /\ call[c] = Idle
  /\ state[s].status = "live"
  /\ state' = [state EXCEPT ![s].status = "spent", ![s].verifier = Cleared]
  /\ call' = [call EXCEPT ![c] =
       [Idle EXCEPT !.pc = "exchange", !.state = s, !.verifier = state'[s].verifier]]
  /\ UNCHANGED <<account, owner, pending, mints, completed, lapsed, signedIn>>

\* The provider named is not the state's: refused, and the state stays spent.
ProviderMismatch(c) ==
  /\ At(c, "exchange")
  /\ Done(c)
  /\ UNCHANGED <<account, owner, pending, state, mints, completed, lapsed, signedIn>>

\* exchange_identity: the provider vouches for an identity, with or without an address.
Exchange(c, i, e) ==
  /\ At(c, "exchange")
  /\ call' = [call EXCEPT ![c].id = i, ![c].email = e,
                          ![c].user = state[call[c].state].linkTo,
                          ![c].pc = IF state[call[c].state].linkTo = None
                                    THEN "lookup" ELSE "link"]
  /\ UNCHANGED <<account, owner, pending, state, mints, completed, lapsed, signedIn>>

IdentityOwner(i) == owner[i]

\* link: identity_owner; somebody else's identity is refused.
ReadOwner(c) ==
  /\ At(c, "link")
  /\ IF IdentityOwner(call[c].id) = None THEN Goto(c, "bind")
     ELSE IF IdentityOwner(call[c].id) = call[c].user THEN Goto(c, "open")
     ELSE Done(c)
  /\ UNCHANGED <<account, owner, pending, state, mints, completed, lapsed, signedIn>>

\* link_identity: whoever inserts first keeps the identity, the other is refused.
\* Mutant: the conflict is taken for an identity that is already linked.
Bind_ignores_conflict(c) ==
  /\ At(c, "bind")
  /\ owner' = IF owner[call[c].id] = None
              THEN [owner EXCEPT ![call[c].id] = call[c].user] ELSE owner
  /\ Goto(c, "open")
  /\ UNCHANGED <<account, pending, state, mints, completed, lapsed, signedIn>>
Bind(c) ==
  /\ At(c, "bind")
  /\ IF owner[call[c].id] = None
     THEN owner' = [owner EXCEPT ![call[c].id] = call[c].user] /\ Goto(c, "open")
     ELSE UNCHANGED owner /\ Done(c)
  /\ UNCHANGED <<account, pending, state, mints, completed, lapsed, signedIn>>

\* find_user_by_identity
Lookup(c) ==
  /\ At(c, "lookup")
  /\ call' = [call EXCEPT ![c].user = owner[call[c].id],
                          ![c].pc = IF owner[call[c].id] = None THEN "guard" ELSE "ask"]
  /\ UNCHANGED <<account, owner, pending, state, mints, completed, lapsed, signedIn>>

\* create_account's take-over guard: an address that is in use is refused.
Guard(c) ==
  /\ At(c, "guard")
  /\ IF EmailTaken(call[c].email) THEN Done(c) ELSE Goto(c, "create")
  /\ UNCHANGED <<account, owner, pending, state, mints, completed, lapsed, signedIn>>

Minted(a) == [token |-> mints + 1, user |-> a, status |-> "live"]

\* create_oauth_account: one transaction, all three rows or none.
\* Mutant: the limited session is written after the account has been committed.
CreateAccount_in_two_steps(c) ==
  /\ At(c, "create") /\ mints < MaxMints
  /\ owner[call[c].id] = None /\ ~ EmailTaken(call[c].email)
  /\ \E a \in Account :
       /\ ~ Exists(a)
       /\ account' = [account EXCEPT ![a] = [email |-> call[c].email, named |-> FALSE]]
       /\ owner' = [owner EXCEPT ![call[c].id] = a]
       /\ call' = [call EXCEPT ![c].pc = "mint", ![c].user = a]
  /\ UNCHANGED <<state, completed, lapsed, pending, mints, signedIn>>
\* Mutant: the identity's row is left for the next sign-in to write.
CreateAccount_without_identity(c) ==
  /\ At(c, "create") /\ mints < MaxMints
  /\ owner[call[c].id] = None /\ ~ EmailTaken(call[c].email)
  /\ \E a \in Account :
       /\ ~ Exists(a)
       /\ account' = [account EXCEPT ![a] = [email |-> call[c].email, named |-> FALSE]]
       /\ pending' = [pending EXCEPT ![call[c].id] = Minted(a)]
  /\ mints' = mints + 1
  /\ Done(c)
  /\ UNCHANGED <<owner, state, completed, lapsed, signedIn>>
CreateAccount(c) ==
  /\ At(c, "create") /\ mints < MaxMints
  /\ owner[call[c].id] = None /\ ~ EmailTaken(call[c].email)
  /\ \E a \in Account :
       /\ ~ Exists(a)
       /\ account' = [account EXCEPT ![a] = [email |-> call[c].email, named |-> FALSE]]
       /\ owner' = [owner EXCEPT ![call[c].id] = a]
       /\ pending' = [pending EXCEPT ![call[c].id] = Minted(a)]
  /\ mints' = mints + 1
  /\ Done(c)
  /\ UNCHANGED <<state, completed, lapsed, signedIn>>

\* A unique index refuses one of the rows: the address, or the identity itself.
CreateRefused(c) ==
  /\ At(c, "create")
  /\ owner[call[c].id] # None \/ EmailTaken(call[c].email)
  /\ Done(c)
  /\ UNCHANGED <<account, owner, pending, state, mints, completed, lapsed, signedIn>>

\* active_pending_session decides whether the account is still being onboarded.
AskPending(c) ==
  /\ At(c, "ask")
  /\ LET row == pending[call[c].id] IN
     IF row.status = "live"
     THEN call' = [call EXCEPT ![c].pc = "retire", ![c].token = row.token]
     ELSE Goto(c, "open")
  /\ UNCHANGED <<account, owner, pending, state, mints, completed, lapsed, signedIn>>

\* consume_pending_session_by_id, if the row still has the token that was asked for.
Retired(row, token) == IF row.token = token THEN [row EXCEPT !.status = "spent"] ELSE row

\* resume_onboarding: the old token is retired, then another minted, as two statements.
RetirePending(c) ==
  /\ At(c, "retire")
  /\ LET i == call[c].id IN
     pending' = [pending EXCEPT ![i] = Retired(@, call[c].token)]
  /\ lapsed' = IF pending[call[c].id].token = call[c].token
                  /\ pending[call[c].id].status = "live"
               THEN lapsed \cup {call[c].user} ELSE lapsed
  /\ Goto(c, "mint")
  /\ UNCHANGED <<account, owner, state, mints, completed, signedIn>>

\* mint_pending_session: the upsert replaces the token and forgets that the old was spent.
\* Mutant: the row is revived with the token it had.
Upserted_keeps_token(row, a) == [Minted(a) EXCEPT !.token = IF row.token = 0 THEN @ ELSE row.token]
Upserted(row, a) == Minted(a)

MintPending(c) ==
  /\ At(c, "mint") /\ mints < MaxMints
  /\ LET i == call[c].id IN
     /\ pending' = [pending EXCEPT ![i] = Upserted(pending[i], call[c].user)]
  /\ mints' = mints + 1
  /\ Done(c)
  /\ UNCHANGED <<account, owner, state, completed, lapsed, signedIn>>

\* open_session: the sign-in is complete.
OpenSession(c) ==
  /\ At(c, "open") \/ At(c, "finish")
  /\ signedIn' = signedIn \cup {call[c].user}
  /\ Done(c)
  /\ UNCHANGED <<account, owner, pending, state, mints, completed, lapsed>>

-----------------------------------------------------------------------------
\* complete_sign_in: claim_username locks the row of a live token, names the account and
\* spends the token in one transaction.
ClaimUsername(c, i) ==
  /\ call[c] = Idle
  /\ pending[i].status = "live"
  /\ LET row == pending[i] IN
     /\ account' = [account EXCEPT ![row.user].named = TRUE]
     /\ pending' = [pending EXCEPT ![i].status = "spent"]
     /\ completed' = completed \cup {row.token}
     /\ call' = [call EXCEPT ![c] = [Idle EXCEPT !.pc = "finish", !.id = i, !.user = row.user,
                                                 !.token = row.token]]
  /\ UNCHANGED <<owner, state, mints, lapsed, signedIn>>

-----------------------------------------------------------------------------
(* What the code does not control.                                         *)

ExpireState(s) ==
  /\ state[s].status = "live"
  /\ state' = [state EXCEPT ![s].status = "expired"]
  /\ UNCHANGED <<account, owner, pending, call, mints, completed, lapsed, signedIn>>

ExpirePending(i) ==
  /\ pending[i].status = "live"
  /\ pending' = [pending EXCEPT ![i].status = "expired"]
  /\ lapsed' = lapsed \cup {pending[i].user}
  /\ UNCHANGED <<account, owner, state, call, mints, completed, signedIn>>

\* The browser goes away, the provider or a statement fails, or the process stops.
Abandon(c) ==
  /\ call[c] # Idle
  /\ Done(c)
  /\ UNCHANGED <<account, owner, pending, state, mints, completed, lapsed, signedIn>>

Next ==
  \/ \E a \in Account, e \in Email : RegisterElsewhere(a, e)
  \/ \E s \in State : \/ \E a \in Account \cup {None} : StartRoundTrip(s, a)
                      \/ ExpireState(s)
  \/ \E i \in Identity : ExpirePending(i)
  \/ \E c \in Call :
       \/ \E s \in State : ConsumeState(c, s)
       \/ ProviderMismatch(c)
       \/ \E i \in Identity, e \in Email \cup {NoEmail} : Exchange(c, i, e)
       \/ ReadOwner(c) \/ Bind(c)
       \/ Lookup(c) \/ Guard(c) \/ CreateAccount(c) \/ CreateRefused(c)
       \/ AskPending(c) \/ RetirePending(c) \/ MintPending(c)
       \/ OpenSession(c)
       \/ \E i \in Identity : ClaimUsername(c, i)
       \/ Abandon(c)

Spec == Init /\ [][Next]_vars

-----------------------------------------------------------------------------
(* Properties.                                                             *)

TypeOK ==
  /\ account \in [Account -> [email : Email \cup {NoEmail}, named : BOOLEAN] \cup {NoAccount}]
  /\ owner \in [Identity -> Account \cup {None}]
  /\ pending \in [Identity -> [token : Nat, user : Account, status : {"live", "spent", "expired"}]
                              \cup {NoPending}]
  /\ state \in [State -> [status : {"live", "spent", "expired"}, linkTo : Account \cup {None},
                          verifier : {Derived, Cleared}] \cup {NoState}]
  /\ call \in [Call -> [pc : {"exchange", "link", "bind", "lookup", "guard", "create", "ask",
                              "retire", "mint", "open", "finish"},
                        state : State \cup {None}, id : Identity \cup {None},
                        email : Email \cup {NoEmail}, user : Account \cup {None},
                        token : Nat, verifier : {"none", Derived, Cleared}] \cup {Idle}]
  /\ mints \in Nat /\ completed \subseteq 1 .. mints
  /\ lapsed \subseteq Account /\ signedIn \subseteq Account
  /\ \A i \in Identity : pending[i] # NoPending => pending[i].user = owner[i]

\* A provider sign-in, a link or a completion opens a session only for the account the
\* identity belongs to, however two links, a link and a first sign-in, or a registration
\* of the same address race: an identity never moves, and an address never hands an
\* account over.
SignsInTheOwner ==
  \A c \in Call : At(c, "open") \/ At(c, "finish") => call[c].user = owner[call[c].id]

\* A state funds one exchange and a limited token one handle: no two requests hold the
\* same spent state, and what a resumed onboarding revives is never a used token.
SecretsWorkOnce ==
  /\ \A c, d \in Call : c # d /\ call[c].state # None => call[c].state # call[d].state
  /\ \A c \in Call : call[c].state # None => state[call[c].state].status = "spent"
  /\ \A i \in Identity : pending[i].status = "live" => pending[i].token \notin completed

\* Between its creation and the choice of a handle an account can only be completed: it
\* gets a session without a handle only if its limited token has expired, or was retired by
\* a resume that had not minted the next.
OnboardingIsGated ==
  \A a \in Account :
    Exists(a) /\ ~ account[a].named /\ a \notin lapsed
      => /\ a \notin signedIn
         /\ \E i \in Identity : owner[i] = a /\ pending[i].status = "live"

\* The verifier presented to the provider is the one the challenge was derived from
\* (oauth/pkce.rs: "equal to the state's storage digest").
PresentsTheVerifier == \A c \in Call : At(c, "exchange") => call[c].verifier = Derived
=============================================================================
