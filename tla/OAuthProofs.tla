------------------------------ MODULE OAuthProofs ------------------------------
(***************************************************************************)
(* Third-party sign-in for any accounts, identities, round trips and        *)
(* requests in flight.                                                      *)
(***************************************************************************)
EXTENDS OAuth, TLAPS

AccountRow == [email : Email \cup {NoEmail}, named : BOOLEAN]
PendingRow == [token : Nat, user : Account, status : {"live", "spent", "expired"}]
StateRow == [status : {"live", "spent", "expired"}, linkTo : Account \cup {None},
             verifier : {Derived, Cleared}]
CallRow ==
  [pc : {"exchange", "link", "bind", "lookup", "guard", "create", "ask", "retire", "mint",
         "open", "finish"},
   state : State \cup {None}, id : Identity \cup {None}, email : Email \cup {NoEmail},
   user : Account \cup {None}, token : Nat, verifier : {"none", Derived, Cleared}]

\* Sessions, identities and links to be made belong to accounts that exist.
KnownAccounts ==
  /\ \A a \in signedIn : Exists(a)
  /\ \A i \in Identity : owner[i] # None => Exists(owner[i])
  /\ \A s \in State : state[s].linkTo # None => state[s].linkTo \in signedIn

\* What a request knows at each of its statements.
InHand(row) ==
  /\ row.pc = "exchange" => row.state \in State
  /\ row.pc \in {"link", "bind"} => row.id \in Identity /\ row.user \in signedIn
  /\ row.pc \in {"lookup", "guard", "create"} => row.id \in Identity
  /\ row.pc \in {"ask", "retire", "mint", "open", "finish"} =>
       row.id \in Identity /\ row.user \in Account /\ row.user = owner[row.id]
  /\ row.pc = "retire" => row.token > 0
  /\ row.pc = "open" =>
       row.user \in signedIn \/ account[row.user].named \/ row.user \in lapsed
  /\ row.pc = "finish" => account[row.user].named

CallsInHand == \A c \in Call : InHand(call[c])

\* An account that never had a session has the one identity it was created with.
OwnIdentity ==
  \A i, j \in Identity :
    owner[i] # None /\ owner[i] = owner[j] /\ owner[i] \notin signedIn => i = j

\* Every limited token was minted, for one identity.
OwnToken ==
  /\ \A i \in Identity : pending[i] # NoPending => pending[i].token \in 1 .. mints
  /\ \A i, j \in Identity :
       pending[i] # NoPending /\ pending[i].token = pending[j].token => i = j

IInv == /\ TypeOK
        /\ KnownAccounts
        /\ CallsInHand
        /\ OwnIdentity
        /\ OwnToken
        /\ SecretsWorkOnce
        /\ OnboardingIsGated
-----------------------------------------------------------------------------
\* The rows, one by one.
RowsTyped ==
  /\ \A a \in Account : account[a] \in AccountRow \/ account[a] = NoAccount
  /\ \A i \in Identity : pending[i] \in PendingRow \/ pending[i] = NoPending
  /\ \A s \in State : state[s] \in StateRow \/ state[s] = NoState
  /\ \A c \in Call : call[c] \in CallRow \/ call[c] = Idle

LEMMA TypedRows == TypeOK => RowsTyped
  BY DEF TypeOK, RowsTyped, AccountRow, PendingRow, StateRow, CallRow

LEMMA InitInvariant == Init => IInv
<1> SUFFICES ASSUME Init PROVE IInv
  OBVIOUS
<1> USE OAuthAssumption DEF Init, Exists, None, NoEmail
<1>1. TypeOK
  BY DEF TypeOK, Idle, NoState, NoPending, NoAccount
<1>2. KnownAccounts /\ CallsInHand
  BY DEF KnownAccounts, CallsInHand, InHand, Idle, NoState
<1>3. OwnIdentity /\ OwnToken
  BY DEF OwnIdentity, OwnToken, NoPending
<1>4. SecretsWorkOnce
  BY DEF SecretsWorkOnce, Idle, NoPending
<1>5. OnboardingIsGated
  BY DEF OnboardingIsGated
<1> QED
  BY <1>1, <1>2, <1>3, <1>4, <1>5 DEF IInv

-----------------------------------------------------------------------------
\* A statement of one request changes that request only.
LEMMA OneCallMoves ==
  ASSUME TypeOK, NEW c \in Call, NEW row, call' = [call EXCEPT ![c] = row]
  PROVE  /\ call'[c] = row
         /\ \A d \in Call \ {c} : call'[d] = call[d]
         /\ row \in CallRow \cup {Idle} =>
              call' \in [Call -> CallRow \cup {Idle}]
  BY DEF TypeOK, CallRow

\* The next statement of a request: its row keeps everything but the program counter.
LEMMA NextStatement ==
  ASSUME TypeOK, NEW c \in Call, NEW pc, Goto(c, pc), call[c] # Idle
  PROVE  /\ call'[c].pc = pc
         /\ call'[c].state = call[c].state /\ call'[c].id = call[c].id
         /\ call'[c].email = call[c].email /\ call'[c].user = call[c].user
         /\ call'[c].token = call[c].token /\ call'[c].verifier = call[c].verifier
         /\ \A d \in Call \ {c} : call'[d] = call[d]
         /\ pc \in {"exchange", "link", "bind", "lookup", "guard", "create", "ask", "retire",
                    "mint", "open", "finish"}
              => call' \in [Call -> CallRow \cup {Idle}]
<1> DEFINE row == [call[c] EXCEPT !.pc = pc]
<1>1. call[c] \in CallRow
  BY TypedRows DEF RowsTyped
<1>2. call' = [call EXCEPT ![c] = row]
  BY DEF Goto
<1>3. /\ row.pc = pc /\ row.state = call[c].state /\ row.id = call[c].id
      /\ row.email = call[c].email /\ row.user = call[c].user /\ row.token = call[c].token
      /\ row.verifier = call[c].verifier
      /\ pc \in {"exchange", "link", "bind", "lookup", "guard", "create", "ask", "retire",
                 "mint", "open", "finish"} => row \in CallRow
  BY <1>1 DEF CallRow
<1> HIDE DEF row
<1> QED
  BY <1>2, <1>3, OneCallMoves

\* A request that ends.
LEMMA Ends ==
  ASSUME TypeOK, NEW c \in Call, Done(c)
  PROVE  /\ call'[c] = Idle
         /\ \A d \in Call \ {c} : call'[d] = call[d]
         /\ call' \in [Call -> CallRow \cup {Idle}]
  BY OneCallMoves DEF Done
-----------------------------------------------------------------------------
LEMMA TypeStep == IInv /\ [Next]_vars => TypeOK'
<1> SUFFICES ASSUME IInv, [Next]_vars PROVE TypeOK'
  OBVIOUS
<1>1. TypeOK /\ RowsTyped /\ CallsInHand /\ KnownAccounts
  BY TypedRows DEF IInv
<1> USE <1>1, OAuthAssumption DEF None, NoEmail, At
<1> DEFINE CallTyped == call' \in [Call -> CallRow \cup {Idle}]
           RestTyped ==
             /\ account' \in [Account -> AccountRow \cup {NoAccount}]
             /\ owner' \in [Identity -> Account \cup {None}]
             /\ pending' \in [Identity -> PendingRow \cup {NoPending}]
             /\ state' \in [State -> StateRow \cup {NoState}]
             /\ mints' \in Nat /\ completed' \subseteq 1 .. mints'
             /\ lapsed' \subseteq Account /\ signedIn' \subseteq Account
             /\ \A i \in Identity : pending'[i] # NoPending => pending'[i].user = owner'[i]
<1>2. CallTyped /\ RestTyped => TypeOK'
  BY DEF TypeOK, CallRow, StateRow, PendingRow, AccountRow
<1>3. /\ account \in [Account -> AccountRow \cup {NoAccount}]
      /\ owner \in [Identity -> Account \cup {None}]
      /\ pending \in [Identity -> PendingRow \cup {NoPending}]
      /\ state \in [State -> StateRow \cup {NoState}]
      /\ call \in [Call -> CallRow \cup {Idle}]
      /\ mints \in Nat /\ completed \subseteq 1 .. mints
      /\ lapsed \subseteq Account /\ signedIn \subseteq Account
      /\ \A i \in Identity : pending[i] # NoPending => pending[i].user = owner[i]
  BY DEF TypeOK, CallRow, StateRow, PendingRow, AccountRow
<1>4. ASSUME NEW a \in Account, NEW e \in Email, RegisterElsewhere(a, e)
      PROVE  CallTyped /\ RestTyped
  BY <1>3, <1>4 DEF RegisterElsewhere, AccountRow
<1>5. ASSUME NEW s \in State, NEW a \in Account \cup {None}, StartRoundTrip(s, a)
      PROVE  CallTyped /\ RestTyped
  BY <1>3, <1>5 DEF StartRoundTrip, NewState, StateRow
<1>6. ASSUME NEW s \in State, ExpireState(s) PROVE CallTyped /\ RestTyped
  BY <1>3, <1>6 DEF ExpireState, NoState, StateRow
<1>7. ASSUME NEW i \in Identity, ExpirePending(i) PROVE CallTyped /\ RestTyped
  <2>1. pending[i] \in PendingRow
    BY <1>7 DEF ExpirePending, RowsTyped, NoPending
  <2>2. /\ [pending[i] EXCEPT !.status = "expired"] \in PendingRow
        /\ [pending[i] EXCEPT !.status = "expired"].user = pending[i].user
    BY <2>1 DEF PendingRow
  <2> QED
    BY <1>3, <1>7, <2>1, <2>2 DEF ExpirePending, PendingRow, NoPending
<1>8. ASSUME NEW c \in Call, NEW s \in State, ConsumeState(c, s) PROVE CallTyped /\ RestTyped
  <2>1. state[s] \in StateRow
    BY <1>8 DEF ConsumeState, RowsTyped, NoState
  <2>2. /\ state'[s] = [state[s] EXCEPT !.status = "spent", !.verifier = Cleared]
        /\ state' \in [State -> StateRow \cup {NoState}]
    BY <1>3, <1>8, <2>1 DEF ConsumeState, StateRow
  <2>3. state'[s].verifier = Cleared
    BY <2>1, <2>2 DEF StateRow
  <2>4. [Idle EXCEPT !.pc = "exchange", !.state = s, !.verifier = state'[s].verifier] \in CallRow
    BY <2>3 DEF Idle, CallRow
  <2>5. CallTyped
    BY <1>3, <1>8, <2>4 DEF ConsumeState
  <2> QED
    BY <1>3, <1>8, <2>2, <2>5 DEF ConsumeState
<1>9. ASSUME NEW c \in Call, NEW i \in Identity, NEW e \in Email \cup {NoEmail},
             Exchange(c, i, e)
      PROVE  CallTyped /\ RestTyped
  <2> DEFINE s == call[c].state
             pc == IF state[s].linkTo = None THEN "lookup" ELSE "link"
             row == [call[c] EXCEPT !.id = i, !.email = e, !.user = state[s].linkTo, !.pc = pc]
  <2>1. s \in State /\ call[c] \in CallRow
    BY <1>9 DEF Exchange, CallsInHand, InHand, RowsTyped, Idle
  <2>2. state[s].linkTo \in Account \cup {None} /\ pc \in {"lookup", "link"}
    BY <2>1 DEF RowsTyped, StateRow, NoState
  <2>3. call' = [call EXCEPT ![c] = row]
    BY <1>9 DEF Exchange
  <2> HIDE DEF pc, s
  <2>4. row \in CallRow
    BY <2>1, <2>2 DEF CallRow
  <2> HIDE DEF row
  <2>5. CallTyped
    BY <1>3, <2>3, <2>4
  <2>6. UNCHANGED <<account, owner, pending, state, mints, completed, lapsed, signedIn>>
    BY <1>9 DEF Exchange
  <2> QED
    BY <1>3, <2>5, <2>6
<1>10. ASSUME NEW c \in Call, ProviderMismatch(c) \/ CreateRefused(c) \/ Abandon(c)
       PROVE  CallTyped /\ RestTyped
  BY <1>3, <1>10, Ends DEF ProviderMismatch, CreateRefused, Abandon
<1>11. ASSUME NEW c \in Call, ReadOwner(c) \/ Guard(c) PROVE CallTyped /\ RestTyped
  <2>1. call[c] # Idle
    BY <1>11 DEF ReadOwner, Guard, Idle
  <2>2. CallTyped
    BY <1>11, <2>1, Ends, NextStatement DEF ReadOwner, Guard
  <2> QED
    BY <1>3, <1>11, <2>2 DEF ReadOwner, Guard
<1>12. ASSUME NEW c \in Call, Bind(c) PROVE CallTyped /\ RestTyped
  <2>1. call[c] # Idle /\ call[c].id \in Identity /\ call[c].user \in Account
    BY <1>3, <1>12 DEF Bind, Idle, CallsInHand, InHand
  <2>2. CallTyped
    BY <1>12, <2>1, Ends, NextStatement DEF Bind
  <2>3. \A i \in Identity : pending[i] # NoPending => owner[i] # None
    BY <1>3 DEF RowsTyped, PendingRow
  <2> QED
    BY <1>3, <1>12, <2>1, <2>2, <2>3 DEF Bind
<1>13. ASSUME NEW c \in Call, Lookup(c) PROVE CallTyped /\ RestTyped
  <2> DEFINE pc == IF owner[call[c].id] = None THEN "guard" ELSE "ask"
             row == [call[c] EXCEPT !.user = owner[call[c].id], !.pc = pc]
  <2>1. call[c] \in CallRow /\ call[c].id \in Identity
    BY <1>13 DEF Lookup, CallsInHand, InHand, RowsTyped, Idle
  <2>2. owner[call[c].id] \in Account \cup {None} /\ pc \in {"guard", "ask"}
    BY <1>3, <2>1
  <2>3. call' = [call EXCEPT ![c] = row]
    BY <1>13 DEF Lookup
  <2> HIDE DEF pc
  <2>4. row \in CallRow
    BY <2>1, <2>2 DEF CallRow
  <2> HIDE DEF row
  <2>5. CallTyped
    BY <1>3, <2>3, <2>4
  <2>6. UNCHANGED <<account, owner, pending, state, mints, completed, lapsed, signedIn>>
    BY <1>13 DEF Lookup
  <2> QED
    BY <1>3, <2>5, <2>6
<1>14. ASSUME NEW c \in Call, CreateAccount(c) PROVE CallTyped /\ RestTyped
  <2>1. call[c] \in CallRow /\ call[c].id \in Identity
    BY <1>14 DEF CreateAccount, CallsInHand, InHand, RowsTyped, Idle
  <2>2. PICK a \in Account :
          /\ account' = [account EXCEPT ![a] = [email |-> call[c].email, named |-> FALSE]]
          /\ owner' = [owner EXCEPT ![call[c].id] = a]
          /\ pending' = [pending EXCEPT ![call[c].id] = Minted(a)]
    BY <1>14 DEF CreateAccount
  <2>3. /\ [email |-> call[c].email, named |-> FALSE] \in AccountRow
        /\ Minted(a) \in PendingRow /\ Minted(a).user = a
    BY <1>3, <2>1 DEF CallRow, AccountRow, Minted, PendingRow
  <2>4. mints' = mints + 1 /\ UNCHANGED <<state, completed, lapsed, signedIn>> /\ CallTyped
    BY <1>14, Ends DEF CreateAccount
  <2> HIDE DEF CallTyped
  <2>5. completed' \subseteq 1 .. mints'
    BY <1>3, <2>4
  <2> QED
    BY <1>3, <2>1, <2>2, <2>3, <2>4, <2>5
<1>15. ASSUME NEW c \in Call, AskPending(c) PROVE CallTyped /\ RestTyped
  <2>1. call[c] \in CallRow /\ call[c] # Idle /\ call[c].id \in Identity
    BY <1>15 DEF AskPending, CallsInHand, InHand, RowsTyped, Idle
  <2>2. CASE pending[call[c].id].status = "live"
    <3> DEFINE token == pending[call[c].id].token
               row == [call[c] EXCEPT !.pc = "retire", !.token = token]
    <3>1. token \in Nat
      BY <2>1, <2>2 DEF RowsTyped, PendingRow, NoPending
    <3>2. call' = [call EXCEPT ![c] = row]
      BY <1>15, <2>2 DEF AskPending
    <3> HIDE DEF token
    <3>3. row \in CallRow
      BY <2>1, <3>1 DEF CallRow
    <3> QED
      BY <1>3, <1>15, <3>2, <3>3 DEF AskPending
  <2>3. CASE pending[call[c].id].status # "live"
    <3>1. CallTyped
      BY <1>15, <2>1, <2>3, NextStatement DEF AskPending
    <3> QED
      BY <1>3, <1>15, <3>1 DEF AskPending
  <2> QED
    BY <2>2, <2>3
<1>16. ASSUME NEW c \in Call, RetirePending(c) PROVE CallTyped /\ RestTyped
  <2> DEFINE i == call[c].id
  <2>1. /\ call[c] \in CallRow /\ call[c] # Idle /\ i \in Identity
        /\ call[c].user \in Account /\ call[c].token > 0
    BY <1>16 DEF RetirePending, CallsInHand, InHand, RowsTyped, Idle
  <2>2. \/ Retired(pending[i], call[c].token) = pending[i]
        \/ /\ pending[i] \in PendingRow
           /\ Retired(pending[i], call[c].token) = [pending[i] EXCEPT !.status = "spent"]
    BY <2>1 DEF Retired, RowsTyped, NoPending
  <2>3. /\ Retired(pending[i], call[c].token) \in PendingRow \cup {NoPending}
        /\ Retired(pending[i], call[c].token) # NoPending =>
             /\ pending[i] # NoPending
             /\ Retired(pending[i], call[c].token).user = pending[i].user
    BY <2>1, <2>2 DEF PendingRow, NoPending, RowsTyped
  <2>4. CallTyped
    BY <1>16, <2>1, NextStatement DEF RetirePending
  <2>5. /\ pending' = [pending EXCEPT ![i] = Retired(pending[i], call[c].token)]
        /\ UNCHANGED <<account, owner, state, mints, completed, signedIn>>
        /\ lapsed' = lapsed \/ lapsed' = lapsed \cup {call[c].user}
    BY <1>16 DEF RetirePending
  <2> HIDE DEF CallTyped, i
  <2> QED
    BY <1>3, <2>1, <2>3, <2>4, <2>5
<1>17. ASSUME NEW c \in Call, MintPending(c) PROVE CallTyped /\ RestTyped
  <2>1. /\ call[c].id \in Identity /\ call[c].user \in Account
        /\ call[c].user = owner[call[c].id]
    BY <1>17 DEF MintPending, CallsInHand, InHand
  <2>2. /\ Minted(call[c].user) \in PendingRow
        /\ Minted(call[c].user).user = owner[call[c].id]
    BY <1>3, <2>1 DEF Minted, PendingRow
  <2>3. /\ pending' = [pending EXCEPT ![call[c].id] = Minted(call[c].user)]
        /\ mints' = mints + 1 /\ UNCHANGED <<account, owner, state, completed, lapsed, signedIn>>
        /\ CallTyped
    BY <1>17, Ends DEF MintPending, Upserted
  <2> HIDE DEF CallTyped
  <2>4. completed' \subseteq 1 .. mints'
    BY <1>3, <2>3
  <2> QED
    BY <1>3, <2>1, <2>2, <2>3, <2>4
<1>18. ASSUME NEW c \in Call, OpenSession(c) PROVE CallTyped /\ RestTyped
  <2>1. call[c].user \in Account
    BY <1>18 DEF OpenSession, CallsInHand, InHand
  <2> QED
    BY <1>3, <1>18, <2>1, Ends DEF OpenSession
<1>19. ASSUME NEW c \in Call, NEW i \in Identity, ClaimUsername(c, i)
       PROVE  CallTyped /\ RestTyped
  <2>1. pending[i] \in PendingRow /\ pending[i].user = owner[i] /\ pending[i].token \in 1 .. mints
    BY <1>3, <1>19 DEF ClaimUsername, RowsTyped, NoPending, IInv, OwnToken
  <2> DEFINE u == pending[i].user
             t == pending[i].token
  <2>2. u \in Account /\ t \in Nat /\ account[u] \in AccountRow
    BY <2>1 DEF PendingRow, RowsTyped, KnownAccounts, Exists
  <2>3. [account[u] EXCEPT !.named = TRUE] \in AccountRow
    BY <2>2 DEF AccountRow
  <2>4. /\ [pending[i] EXCEPT !.status = "spent"] \in PendingRow
        /\ [pending[i] EXCEPT !.status = "spent"].user = owner[i]
    BY <2>1 DEF PendingRow
  <2>5. [Idle EXCEPT !.pc = "finish", !.id = i, !.user = u, !.token = t] \in CallRow
    BY <2>1, <2>2 DEF Idle, CallRow
  <2>6. /\ account' = [account EXCEPT ![u] = [account[u] EXCEPT !.named = TRUE]]
        /\ pending' = [pending EXCEPT ![i] = [pending[i] EXCEPT !.status = "spent"]]
        /\ completed' = completed \cup {t}
        /\ call' = [call EXCEPT ![c] =
                      [Idle EXCEPT !.pc = "finish", !.id = i, !.user = u, !.token = t]]
        /\ UNCHANGED <<owner, state, mints, lapsed, signedIn>>
    BY <1>19 DEF ClaimUsername
  <2> QED
    BY <1>3, <2>1, <2>2, <2>3, <2>4, <2>5, <2>6
<1>20. CASE UNCHANGED vars
  BY <1>20 DEF vars, TypeOK
<1> HIDE DEF CallTyped, RestTyped
<1> QED
  BY <1>2, <1>4, <1>5, <1>6, <1>7, <1>8, <1>9, <1>10, <1>11, <1>12, <1>13, <1>14, <1>15, <1>16,
     <1>17, <1>18, <1>19, <1>20 DEF Next
-----------------------------------------------------------------------------
\* What no step takes back.
Grows ==
  /\ \A i \in Identity : owner[i] # None => owner'[i] = owner[i]
  /\ \A a \in Account : Exists(a) => Exists(a)' /\ (account[a].named => account'[a].named)
  /\ signedIn \subseteq signedIn'
  /\ lapsed \subseteq lapsed'
  /\ \A s \in State : /\ state[s].linkTo # None => state'[s].linkTo = state[s].linkTo
                      /\ state[s].status = "spent" => state'[s].status = "spent"

LEMMA HistoryGrows == IInv /\ [Next]_vars => Grows
<1> SUFFICES ASSUME IInv, [Next]_vars PROVE Grows
  OBVIOUS
<1>1. TypeOK /\ RowsTyped /\ CallsInHand /\ KnownAccounts
  BY TypedRows DEF IInv
<1> USE <1>1 DEF At
<1>2. CASE UNCHANGED <<account, owner, lapsed, signedIn, state>>
  BY <1>2 DEF Grows, Exists
<1>3. ASSUME NEW a \in Account, NEW e \in Email, RegisterElsewhere(a, e) PROVE Grows
  BY <1>3 DEF RegisterElsewhere, Grows, Exists, TypeOK
<1>4. ASSUME NEW s \in State, NEW row, state' = [state EXCEPT ![s] = row],
             UNCHANGED <<account, owner, lapsed, signedIn>>,
             state[s].linkTo # None => row.linkTo = state[s].linkTo,
             state[s].status = "spent" => row.status = "spent"
      PROVE  Grows
  BY <1>4 DEF Grows, Exists, TypeOK
<1>5. ASSUME NEW s \in State, NEW a, StartRoundTrip(s, a) PROVE Grows
  <2>1. state[s] = NoState
    BY <1>5 DEF StartRoundTrip, RowsTyped, StateRow
  <2>2. state[s].linkTo = None /\ state[s].status = "absent"
    BY <2>1 DEF NoState
  <2>3. /\ state' = [state EXCEPT ![s] = NewState(a)]
        /\ UNCHANGED <<account, owner, lapsed, signedIn>>
    BY <1>5 DEF StartRoundTrip
  <2> QED
    BY <1>4, <2>2, <2>3
<1>6. ASSUME NEW s \in State, ExpireState(s) PROVE Grows
  <2>1. state[s] \in StateRow
    BY <1>6 DEF ExpireState, RowsTyped, NoState
  <2>2. [state[s] EXCEPT !.status = "expired"].linkTo = state[s].linkTo
    BY <2>1 DEF StateRow
  <2> QED
    BY <1>4, <1>6, <2>2 DEF ExpireState
<1>7. ASSUME NEW c \in Call, NEW s \in State, ConsumeState(c, s) PROVE Grows
  <2> DEFINE row == [state[s] EXCEPT !.status = "spent", !.verifier = Cleared]
  <2>1. state[s] \in StateRow
    BY <1>7 DEF ConsumeState, RowsTyped, NoState
  <2>2. row.linkTo = state[s].linkTo /\ row.status = "spent"
    BY <2>1 DEF StateRow
  <2>3. state' = [state EXCEPT ![s] = row] /\ UNCHANGED <<account, owner, lapsed, signedIn>>
    BY <1>7 DEF ConsumeState, TypeOK
  <2> HIDE DEF row
  <2> QED
    BY <1>4, <2>2, <2>3
<1>8. ASSUME NEW i \in Identity, ExpirePending(i) PROVE Grows
  BY <1>8 DEF ExpirePending, Grows, Exists
<1>9. ASSUME NEW c \in Call, Bind(c) PROVE Grows
  BY <1>9 DEF Bind, Grows, Exists, TypeOK
<1>10. ASSUME NEW c \in Call, CreateAccount(c) PROVE Grows
  BY <1>10 DEF CreateAccount, Grows, Exists, TypeOK, NoAccount
<1>11. ASSUME NEW c \in Call, RetirePending(c) \/ OpenSession(c) PROVE Grows
  BY <1>11 DEF RetirePending, OpenSession, Grows, Exists
<1>12. ASSUME NEW c \in Call, NEW i \in Identity, ClaimUsername(c, i) PROVE Grows
  <2> DEFINE u == pending[i].user
             row == [account[u] EXCEPT !.named = TRUE]
  <2>1. u \in Account /\ Exists(u)
    BY <1>12, OAuthAssumption
       DEF ClaimUsername, RowsTyped, NoPending, PendingRow, KnownAccounts, TypeOK, None
  <2>2. row.named = TRUE /\ row # NoAccount
    BY <2>1 DEF Exists, RowsTyped, AccountRow, NoAccount
  <2>3. /\ account' = [account EXCEPT ![u] = row]
        /\ UNCHANGED <<owner, lapsed, signedIn, state>>
    BY <1>12 DEF ClaimUsername
  <2> HIDE DEF u, row
  <2> QED
    BY <2>1, <2>2, <2>3 DEF Grows, Exists, TypeOK
<1>13. ASSUME NEW c \in Call, NEW i, NEW e,
              \/ ProviderMismatch(c) \/ Exchange(c, i, e) \/ ReadOwner(c) \/ Lookup(c) \/ Guard(c)
              \/ CreateRefused(c) \/ AskPending(c) \/ MintPending(c) \/ Abandon(c)
       PROVE  Grows
  BY <1>2, <1>13 DEF ProviderMismatch, Exchange, ReadOwner, Lookup, Guard, CreateRefused,
                     AskPending, MintPending, Abandon
<1>14. CASE UNCHANGED vars
  BY <1>2, <1>14 DEF vars
<1> QED
  BY <1>3, <1>5, <1>6, <1>7, <1>8, <1>9, <1>10, <1>11, <1>12, <1>13, <1>14 DEF Next

-----------------------------------------------------------------------------
\* Which steps write sessions, owners, round trips and limited tokens.
WhoWrites ==
  /\ \/ signedIn' = signedIn
     \/ \E a \in Account, e \in Email : RegisterElsewhere(a, e)
     \/ \E c \in Call : OpenSession(c)
  /\ \/ owner' = owner
     \/ \E c \in Call : Bind(c) \/ CreateAccount(c)
  /\ \/ state' = state
     \/ \E s \in State : \/ \E a \in Account \cup {None} : StartRoundTrip(s, a)
                         \/ ExpireState(s) \/ \E c \in Call : ConsumeState(c, s)
  /\ \/ UNCHANGED <<pending, mints, completed>>
     \/ \E i \in Identity : ExpirePending(i) \/ \E c \in Call : ClaimUsername(c, i)
     \/ \E c \in Call : CreateAccount(c) \/ RetirePending(c) \/ MintPending(c)

LEMMA Writers == [Next]_vars => WhoWrites
<1> SUFFICES ASSUME [Next]_vars PROVE WhoWrites
  OBVIOUS
<1> USE DEF WhoWrites
<1>1. ASSUME NEW a, NEW e, RegisterElsewhere(a, e)
      PROVE  UNCHANGED <<owner, state, pending, mints, completed>>
  BY <1>1 DEF RegisterElsewhere
<1>2. ASSUME NEW s, (\E a \in Account \cup {None} : StartRoundTrip(s, a)) \/ ExpireState(s)
                    \/ \E c \in Call : ConsumeState(c, s)
      PROVE  UNCHANGED <<signedIn, owner, pending, mints, completed>>
  BY <1>2 DEF StartRoundTrip, ExpireState, ConsumeState
<1>3. ASSUME NEW i, ExpirePending(i) \/ \E c \in Call : ClaimUsername(c, i)
      PROVE  UNCHANGED <<signedIn, owner, state>>
  BY <1>3 DEF ExpirePending, ClaimUsername
<1>4. ASSUME NEW c, \/ ProviderMismatch(c) \/ ReadOwner(c) \/ Lookup(c) \/ Guard(c)
                    \/ CreateRefused(c) \/ AskPending(c) \/ Abandon(c)
                    \/ \E i \in Identity, e \in Email \cup {NoEmail} : Exchange(c, i, e)
      PROVE  UNCHANGED <<signedIn, owner, state, pending, mints, completed>>
  BY <1>4 DEF ProviderMismatch, ReadOwner, Lookup, Guard, CreateRefused, AskPending, Abandon,
              Exchange
<1>5. ASSUME NEW c, CreateAccount(c) PROVE UNCHANGED <<signedIn, state>>
  BY <1>5 DEF CreateAccount
<1>6. ASSUME NEW c, RetirePending(c) \/ MintPending(c) PROVE UNCHANGED <<signedIn, owner, state>>
  BY <1>6 DEF RetirePending, MintPending
<1>7. ASSUME NEW c, OpenSession(c) PROVE UNCHANGED <<owner, state, pending, mints, completed>>
  BY <1>7 DEF OpenSession
<1>8. ASSUME NEW c, Bind(c) PROVE UNCHANGED <<signedIn, state, pending, mints, completed>>
  BY <1>8 DEF Bind
<1>9. CASE UNCHANGED vars
  BY <1>9 DEF vars
<1> QED
  BY <1>1, <1>2, <1>3, <1>4, <1>5, <1>6, <1>7, <1>8, <1>9 DEF Next

-----------------------------------------------------------------------------
LEMMA KnownStep == IInv /\ [Next]_vars => KnownAccounts'
<1> SUFFICES ASSUME IInv, [Next]_vars PROVE KnownAccounts'
  OBVIOUS
<1>1. /\ TypeOK /\ RowsTyped /\ CallsInHand /\ KnownAccounts /\ Grows /\ TypeOK'
      /\ signedIn \subseteq Account
  BY TypedRows, HistoryGrows, TypeStep DEF IInv, TypeOK
<1> USE <1>1 DEF At
<1> DEFINE Known(a) == account'[a] # NoAccount
<1>2. \A a \in signedIn : Known(a)
  BY DEF KnownAccounts, Grows, Exists
<1>3. (\A a \in signedIn' : a \in signedIn \/ Known(a)) => \A a \in signedIn' : Known(a)
  BY <1>2
<1>4. \A a \in signedIn' : Known(a)
  <2>1. ASSUME NEW a \in Account, NEW e \in Email, RegisterElsewhere(a, e)
        PROVE  \A b \in signedIn' : b \in signedIn \/ Known(b)
    BY <2>1, OAuthAssumption DEF RegisterElsewhere, Exists, TypeOK, NoAccount, None
  <2>2. ASSUME NEW c \in Call, OpenSession(c)
        PROVE  \A b \in signedIn' : b \in signedIn \/ Known(b)
    <3>1. call[c].user \in Account /\ call[c].id \in Identity /\ call[c].user = owner[call[c].id]
      BY <2>2 DEF OpenSession, CallsInHand, InHand
    <3>2. Exists(call[c].user)
      BY <3>1, OAuthAssumption DEF KnownAccounts, None
    <3> QED
      BY <2>2, <3>1, <3>2 DEF OpenSession, Grows, Exists
  <2> QED
    BY <1>2, <1>3, <2>1, <2>2, Writers DEF WhoWrites
<1>5. \A i \in Identity : owner'[i] # None => Known(owner'[i])
  <2>1. ASSUME NEW i \in Identity, owner[i] # None PROVE Known(owner'[i])
    BY <2>1 DEF KnownAccounts, Grows, Exists, TypeOK
  <2>2. ASSUME NEW i \in Identity, owner[i] = None, owner'[i] # None PROVE Known(owner'[i])
    <3>1. ASSUME NEW c \in Call, Bind(c) PROVE Known(owner'[i])
      <4>1. call[c].user \in signedIn
        BY <3>1 DEF Bind, CallsInHand, InHand
      <4>2. owner'[i] = call[c].user
        BY <2>2, <3>1 DEF Bind, TypeOK
      <4> QED
        BY <1>2, <4>1, <4>2
    <3>2. ASSUME NEW c \in Call, CreateAccount(c) PROVE Known(owner'[i])
      <4>1. PICK a \in Account :
              /\ account' = [account EXCEPT ![a] = [email |-> call[c].email, named |-> FALSE]]
              /\ owner' = [owner EXCEPT ![call[c].id] = a]
        BY <3>2 DEF CreateAccount
      <4>2. call[c].email \in Email \cup {NoEmail}
        BY <3>2 DEF CreateAccount, RowsTyped, CallRow, Idle
      <4>3. call[c].email # None
        BY <4>2, OAuthAssumption DEF None, NoEmail
      <4>4. owner'[i] = a
        BY <2>2, <4>1 DEF TypeOK
      <4> QED
        BY <4>1, <4>3, <4>4 DEF Exists, NoAccount, TypeOK
    <3> QED
      BY <2>2, <3>1, <3>2, Writers DEF WhoWrites
  <2> QED
    BY <2>1, <2>2
<1>6. \A s \in State : state'[s].linkTo # None => state'[s].linkTo \in signedIn'
  <2>1. ASSUME NEW s \in State, state[s].linkTo # None PROVE state'[s].linkTo \in signedIn'
    BY <2>1 DEF KnownAccounts, Grows
  <2>2. ASSUME NEW s \in State, state[s].linkTo = None, state'[s].linkTo # None
        PROVE  state'[s].linkTo \in signedIn'
    <3>1. ASSUME NEW t \in State, NEW a, StartRoundTrip(t, a) PROVE state'[s].linkTo \in signedIn'
      BY <2>2, <3>1 DEF StartRoundTrip, NewState, TypeOK
    <3>2. ASSUME NEW t \in State, ExpireState(t) PROVE FALSE
      BY <2>2, <3>2 DEF ExpireState, RowsTyped, StateRow, NoState, TypeOK
    <3>3. ASSUME NEW c \in Call, NEW t \in State, ConsumeState(c, t) PROVE FALSE
      BY <2>2, <3>3 DEF ConsumeState, RowsTyped, StateRow, NoState, TypeOK
    <3> QED
      BY <2>2, <3>1, <3>2, <3>3, Writers DEF WhoWrites
  <2> QED
    BY <2>1, <2>2
<1> QED
  BY <1>4, <1>5, <1>6 DEF KnownAccounts, Exists
-----------------------------------------------------------------------------
\* Every statement hands its request on with what the next one needs, and a request holds no
\* state but the one it consumed.
CallsMove ==
  \/ call' = call
  \/ \E c \in Call :
       /\ \A d \in Call \ {c} : call'[d] = call[d]
       /\ InHand(call[c])'
       /\ \/ call'[c].state \in {None, call[c].state}
          \/ \E s \in State : ConsumeState(c, s) /\ call'[c].state = s

LEMMA CallsStep == IInv /\ [Next]_vars => CallsMove /\ CallsInHand'
<1> SUFFICES ASSUME IInv, [Next]_vars PROVE CallsMove /\ CallsInHand'
  OBVIOUS
<1>1. TypeOK /\ RowsTyped /\ CallsInHand /\ KnownAccounts /\ Grows
  BY TypedRows, HistoryGrows DEF IInv
<1> USE <1>1 DEF At
<1> DEFINE Next1(row) ==
      /\ row.pc = "exchange" => row.state \in State
      /\ row.pc \in {"link", "bind"} => row.id \in Identity /\ row.user \in signedIn'
      /\ row.pc \in {"lookup", "guard", "create"} => row.id \in Identity
      /\ row.pc \in {"ask", "retire", "mint", "open", "finish"} =>
           row.id \in Identity /\ row.user \in Account /\ row.user = owner'[row.id]
      /\ row.pc = "retire" => row.token > 0
      /\ row.pc = "open" =>
           row.user \in signedIn' \/ account'[row.user].named \/ row.user \in lapsed'
      /\ row.pc = "finish" => account'[row.user].named
    Moved(c) == /\ \A d \in Call \ {c} : call'[d] = call[d]
                /\ Next1(call'[c])
                /\ \/ call'[c].state \in {None, call[c].state}
                   \/ \E s \in State : ConsumeState(c, s) /\ call'[c].state = s
<1>2. \A a \in Account : account[a].named => account'[a].named
  BY DEF Grows, Exists, NoAccount
<1>3. \A i \in Identity : owner[i] \in Account => owner'[i] = owner[i]
  BY OAuthAssumption DEF Grows, None
<1>4. \A c \in Call : Next1(call[c])
  BY <1>2, <1>3 DEF CallsInHand, InHand, Grows
<1>5. ASSUME NEW c \in Call, Done(c) PROVE Moved(c)
  BY <1>5, Ends DEF Idle
<1>6. ASSUME NEW c \in Call, NEW s \in State, ConsumeState(c, s) PROVE Moved(c)
  <2> DEFINE row == [Idle EXCEPT !.pc = "exchange", !.state = s, !.verifier = state'[s].verifier]
  <2>1. call' = [call EXCEPT ![c] = row]
    BY <1>6 DEF ConsumeState
  <2>2. call'[c] = row /\ \A d \in Call \ {c} : call'[d] = call[d]
    BY <2>1, OneCallMoves
  <2>3. row.pc = "exchange" /\ row.state = s
    BY DEF Idle
  <2> HIDE DEF row
  <2> QED
    BY <1>6, <2>2, <2>3
<1>7. ASSUME NEW c \in Call, NEW i \in Identity, NEW e \in Email \cup {NoEmail},
             Exchange(c, i, e)
      PROVE  Moved(c)
  <2> DEFINE s == call[c].state
             u == state[s].linkTo
             pc == IF u = None THEN "lookup" ELSE "link"
             row == [call[c] EXCEPT !.id = i, !.email = e, !.user = u, !.pc = pc]
  <2>1. s \in State /\ call[c] \in CallRow
    BY <1>7 DEF Exchange, CallsInHand, InHand, RowsTyped, Idle
  <2>2. call' = [call EXCEPT ![c] = row]
    BY <1>7 DEF Exchange
  <2>3. u = None \/ u \in signedIn
    BY <2>1 DEF KnownAccounts
  <2>4. /\ \/ u = None /\ row.pc = "lookup"
           \/ u \in signedIn /\ row.pc = "link"
        /\ row.id = i /\ row.user = u /\ row.state = s
    BY <2>1, <2>3 DEF CallRow
  <2> HIDE DEF row, u
  <2>5. call'[c] = row /\ \A d \in Call \ {c} : call'[d] = call[d]
    BY <2>2, OneCallMoves
  <2> QED
    BY <2>4, <2>5 DEF Grows
<1>8. ASSUME NEW c \in Call, ReadOwner(c) PROVE Moved(c)
  <2>1. call[c] # Idle /\ call[c].id \in Identity /\ call[c].user \in signedIn
          /\ call[c].user \in Account
    BY <1>8 DEF ReadOwner, CallsInHand, InHand, Idle, TypeOK
  <2>2. CASE Goto(c, "bind")
    BY <2>1, <2>2, NextStatement DEF Grows
  <2>3. CASE Goto(c, "open") /\ owner[call[c].id] = call[c].user
    BY <1>3, <2>1, <2>3, NextStatement DEF Grows
  <2> QED
    BY <1>5, <1>8, <2>2, <2>3 DEF ReadOwner, IdentityOwner
<1>9. ASSUME NEW c \in Call, Bind(c) PROVE Moved(c)
  <2>1. call[c] # Idle /\ call[c].id \in Identity /\ call[c].user \in signedIn
          /\ call[c].user \in Account
    BY <1>9 DEF Bind, CallsInHand, InHand, Idle, TypeOK
  <2>2. CASE Goto(c, "open") /\ owner' = [owner EXCEPT ![call[c].id] = call[c].user]
    <3>1. owner'[call[c].id] = call[c].user
      BY <2>1, <2>2 DEF TypeOK
    <3> QED
      BY <2>1, <2>2, <3>1, NextStatement DEF Grows
  <2> QED
    BY <1>5, <1>9, <2>2 DEF Bind
<1>10. ASSUME NEW c \in Call, Lookup(c) PROVE Moved(c)
  <2> DEFINE u == owner[call[c].id]
             pc == IF u = None THEN "guard" ELSE "ask"
             row == [call[c] EXCEPT !.user = u, !.pc = pc]
  <2>1. call[c] \in CallRow /\ call[c].id \in Identity
    BY <1>10 DEF Lookup, CallsInHand, InHand, RowsTyped, Idle
  <2>2. call' = [call EXCEPT ![c] = row]
    BY <1>10 DEF Lookup
  <2>3. u # None => u \in Account /\ u = owner'[call[c].id]
    BY <1>3, <2>1 DEF TypeOK
  <2>4. /\ \/ u = None /\ row.pc = "guard"
           \/ u \in Account /\ row.pc = "ask"
        /\ row.id = call[c].id /\ row.user = u /\ row.state = call[c].state
    BY <2>1, <2>3 DEF CallRow
  <2> HIDE DEF row, u
  <2>5. call'[c] = row /\ \A d \in Call \ {c} : call'[d] = call[d]
    BY <2>2, OneCallMoves
  <2> QED
    BY <2>1, <2>3, <2>4, <2>5, OAuthAssumption DEF None
<1>11. ASSUME NEW c \in Call, Guard(c) PROVE Moved(c)
  <2>1. call[c] # Idle /\ call[c].id \in Identity
    BY <1>11 DEF Guard, CallsInHand, InHand, Idle
  <2> QED
    BY <1>5, <1>11, <2>1, NextStatement DEF Guard
<1>12. ASSUME NEW c \in Call, AskPending(c) PROVE Moved(c)
  <2> DEFINE i == call[c].id
             u == call[c].user
  <2>1. /\ call[c] \in CallRow /\ call[c] # Idle
        /\ i \in Identity /\ u \in Account /\ u = owner[i]
    BY <1>12 DEF AskPending, CallsInHand, InHand, RowsTyped, Idle
  <2>2. CASE pending[i].status = "live"
    <3> DEFINE token == pending[i].token
               row == [call[c] EXCEPT !.pc = "retire", !.token = token]
    <3>1. token > 0
      BY <2>1, <2>2 DEF IInv, OwnToken, NoPending, TypeOK
    <3>2. call' = [call EXCEPT ![c] = row]
      BY <1>12, <2>2 DEF AskPending
    <3>3. /\ row.pc = "retire" /\ row.token = token
          /\ row.id = i /\ row.user = u /\ row.state = call[c].state
      BY <2>1 DEF CallRow
    <3> HIDE DEF row, token
    <3>4. call'[c] = row /\ \A d \in Call \ {c} : call'[d] = call[d]
      BY <3>2, OneCallMoves
    <3> QED
      BY <1>3, <2>1, <3>1, <3>3, <3>4
  <2>3. CASE pending[i].status # "live"
    <3>1. u \in signedIn \/ account[u].named \/ u \in lapsed
      <4> SUFFICES ASSUME u \notin signedIn, ~ account[u].named, u \notin lapsed PROVE FALSE
        OBVIOUS
      <4>1. Exists(u)
        BY <2>1, OAuthAssumption DEF KnownAccounts, None
      <4>2. PICK j \in Identity : owner[j] = u /\ pending[j].status = "live"
        BY <2>1, <4>1 DEF IInv, OnboardingIsGated
      <4>3. i = j
        BY <2>1, <4>2, OAuthAssumption DEF IInv, OwnIdentity, None
      <4> QED
        BY <2>3, <4>2, <4>3
    <3>2. Goto(c, "open")
      BY <1>12, <2>3 DEF AskPending
    <3> QED
      BY <1>2, <1>3, <2>1, <3>1, <3>2, NextStatement DEF Grows
  <2> QED
    BY <2>2, <2>3
<1>13. ASSUME NEW c \in Call, RetirePending(c) PROVE Moved(c)
  <2>1. /\ call[c] # Idle /\ call[c].id \in Identity
        /\ call[c].user \in Account /\ call[c].user = owner[call[c].id]
    BY <1>13 DEF RetirePending, CallsInHand, InHand, Idle
  <2> QED
    BY <1>3, <1>13, <2>1, NextStatement DEF RetirePending
<1>14. ASSUME NEW c \in Call, NEW i \in Identity, ClaimUsername(c, i) PROVE Moved(c)
  <2> DEFINE u == pending[i].user
             t == pending[i].token
             row == [Idle EXCEPT !.pc = "finish", !.id = i, !.user = u, !.token = t]
  <2>1. pending[i] \in PendingRow /\ u = owner[i] /\ u \in Account
    BY <1>14 DEF ClaimUsername, RowsTyped, NoPending, PendingRow, TypeOK
  <2>2. account[u] \in AccountRow
    BY <2>1, OAuthAssumption DEF KnownAccounts, Exists, RowsTyped, None
  <2>3. call' = [call EXCEPT ![c] = row]
    BY <1>14 DEF ClaimUsername
  <2>4. account'[u].named
    <3>1. account' = [account EXCEPT ![u] = [account[u] EXCEPT !.named = TRUE]]
      BY <1>14 DEF ClaimUsername
    <3>2. account'[u] = [account[u] EXCEPT !.named = TRUE]
      BY <2>1, <3>1 DEF TypeOK
    <3> QED
      BY <2>2, <3>2 DEF AccountRow
  <2>5. row.pc = "finish" /\ row.id = i /\ row.user = u /\ row.state = None
    BY DEF Idle
  <2> HIDE DEF row, t, u
  <2>6. call'[c] = row /\ \A d \in Call \ {c} : call'[d] = call[d]
    BY <2>3, OneCallMoves
  <2> QED
    BY <1>3, <2>1, <2>4, <2>5, <2>6
<1>15. call' = call \/ \E c \in Call : Moved(c)
  <2> HIDE DEF Moved
  <2>1. ASSUME NEW c \in Call, \/ ProviderMismatch(c) \/ CreateAccount(c) \/ CreateRefused(c)
                               \/ MintPending(c) \/ OpenSession(c) \/ Abandon(c)
        PROVE  Moved(c)
    BY <1>5, <2>1 DEF ProviderMismatch, CreateAccount, CreateRefused, MintPending, OpenSession,
                      Abandon
  <2>2. ASSUME NEW s \in State, ExpireState(s) \/ \E a \in Account \cup {None} : StartRoundTrip(s, a)
        PROVE  call' = call
    BY <2>2 DEF ExpireState, StartRoundTrip
  <2>3. ASSUME NEW a, NEW e, RegisterElsewhere(a, e) PROVE call' = call
    BY <2>3 DEF RegisterElsewhere
  <2>4. ASSUME NEW i, ExpirePending(i) PROVE call' = call
    BY <2>4 DEF ExpirePending
  <2>5. CASE UNCHANGED vars
    BY <2>5 DEF vars
  <2> QED
    BY <1>6, <1>7, <1>8, <1>9, <1>10, <1>11, <1>12, <1>13, <1>14, <2>1, <2>2, <2>3, <2>4, <2>5
       DEF Next
<1>16. \A c \in Call : InHand(call[c])' <=> Next1(call'[c])
  BY DEF InHand
<1> HIDE DEF Next1
<1>17. CallsInHand'
  BY <1>4, <1>15, <1>16 DEF CallsInHand
<1>18. CallsMove
  BY <1>15, <1>16 DEF CallsMove
<1> QED
  BY <1>17, <1>18

-----------------------------------------------------------------------------
LEMMA IdentityStep == IInv /\ [Next]_vars => OwnIdentity'
<1> SUFFICES ASSUME IInv, [Next]_vars,
                    NEW i \in Identity, NEW j \in Identity,
                    owner'[i] # None, owner'[i] = owner'[j], owner'[i] \notin signedIn'
             PROVE  i = j
  BY DEF OwnIdentity
<1>1. TypeOK /\ CallsInHand /\ KnownAccounts /\ OwnIdentity /\ Grows
  BY HistoryGrows DEF IInv
<1>2. CASE owner' = owner
  BY <1>1, <1>2 DEF OwnIdentity, Grows
<1>3. ASSUME NEW c \in Call, Bind(c) PROVE i = j
  <2>1. call[c].user \in signedIn'
    BY <1>1, <1>3 DEF Bind, At, CallsInHand, InHand, Grows
  <2> QED
    BY <1>1, <1>3, <2>1 DEF Bind, OwnIdentity, Grows, TypeOK
<1>4. ASSUME NEW c \in Call, CreateAccount(c) PROVE i = j
  <2>1. PICK a \in Account : ~ Exists(a) /\ owner' = [owner EXCEPT ![call[c].id] = a]
    BY <1>4 DEF CreateAccount
  <2>2. \A k \in Identity : owner[k] # a
    BY <1>1, <2>1, OAuthAssumption DEF KnownAccounts, None
  <2> QED
    BY <1>1, <2>1, <2>2 DEF OwnIdentity, Grows, TypeOK
<1> QED
  BY <1>2, <1>3, <1>4, Writers DEF WhoWrites

LEMMA TokenStep ==
  IInv /\ [Next]_vars =>
    OwnToken' /\ \A i \in Identity : pending'[i].status = "live" => pending'[i].token \notin completed'
<1> DEFINE Fresh == \A i \in Identity : pending[i].status = "live" => pending[i].token \notin completed
<1> SUFFICES ASSUME IInv, [Next]_vars PROVE OwnToken' /\ Fresh'
  OBVIOUS
<1>1. /\ TypeOK /\ RowsTyped /\ CallsInHand /\ OwnToken /\ Fresh /\ mints \in Nat
      /\ completed \subseteq 1 .. mints
  BY TypedRows DEF IInv, SecretsWorkOnce, TypeOK
<1> USE <1>1 DEF At
<1>2. CASE UNCHANGED <<pending, mints, completed>>
  BY <1>2 DEF OwnToken
\* A row that keeps its token, and is live only if it was.
<1>3. ASSUME NEW i \in Identity, NEW row, pending' = [pending EXCEPT ![i] = row], mints' = mints,
             row.token = pending[i].token, row # NoPending => pending[i] # NoPending,
             row.status = "live" => pending[i].status = "live" /\ completed' = completed,
             \A t \in completed' : t \in completed \/ t = pending[i].token,
             pending[i] # NoPending
      PROVE  OwnToken' /\ Fresh'
  <2>1. \A j \in Identity : pending'[j].token = pending[j].token
    BY <1>3 DEF TypeOK
  <2>2. \A j \in Identity : pending'[j] # NoPending => pending[j] # NoPending
    BY <1>3 DEF TypeOK
  <2>3. OwnToken'
    BY <1>3, <2>1, <2>2 DEF OwnToken
  <2>4. ASSUME NEW j \in Identity, pending'[j].status = "live", pending'[j].token \in completed'
        PROVE  FALSE
    <3>1. CASE j = i
      BY <1>3, <2>4, <3>1 DEF TypeOK
    <3>2. CASE j # i
      <4>1. pending'[j] = pending[j] /\ pending[j] # NoPending
        BY <1>3, <2>4, <3>2 DEF TypeOK, NoPending
      <4>2. pending[j].token # pending[i].token
        BY <1>3, <3>2, <4>1 DEF OwnToken
      <4> QED
        BY <1>3, <2>4, <4>1, <4>2
    <3> QED
      BY <3>1, <3>2
  <2> QED
    BY <2>3, <2>4
\* A row with the next token.
<1>4. ASSUME NEW i \in Identity, NEW a, pending' = [pending EXCEPT ![i] = Minted(a)],
             mints' = mints + 1, completed' = completed
      PROVE  OwnToken' /\ Fresh'
  <2>1. Minted(a).token = mints + 1
    BY DEF Minted
  <2>2. pending'[i] = Minted(a) /\ \A j \in Identity \ {i} : pending'[j] = pending[j]
    BY <1>4 DEF TypeOK
  <2>3. \A j \in Identity : pending[j].token < mints + 1
    BY DEF OwnToken, NoPending
  <2>4. \A j \in Identity : pending'[j] # NoPending => pending'[j].token \in 1 .. mints'
    BY <1>4, <2>1, <2>2 DEF OwnToken
  <2>5. \A j, k \in Identity :
          pending'[j] # NoPending /\ pending'[j].token = pending'[k].token => j = k
    BY <2>1, <2>2, <2>3 DEF OwnToken
  <2>6. Fresh'
    <3>1. mints + 1 \notin completed
      OBVIOUS
    <3> QED
      BY <1>4, <2>1, <2>2, <3>1
  <2> QED
    BY <2>4, <2>5, <2>6 DEF OwnToken
<1>5. ASSUME NEW i \in Identity, ExpirePending(i) PROVE OwnToken' /\ Fresh'
  <2> DEFINE row == [pending[i] EXCEPT !.status = "expired"]
  <2>1. pending[i] \in PendingRow /\ pending[i] # NoPending
    BY <1>5 DEF ExpirePending, RowsTyped, NoPending
  <2>2. row.token = pending[i].token /\ row.status = "expired"
    BY <2>1 DEF PendingRow
  <2>3. pending' = [pending EXCEPT ![i] = row] /\ mints' = mints /\ completed' = completed
    BY <1>5 DEF ExpirePending
  <2> HIDE DEF row
  <2> QED
    BY <1>3, <2>1, <2>2, <2>3
<1>6. ASSUME NEW c \in Call, NEW i \in Identity, ClaimUsername(c, i) PROVE OwnToken' /\ Fresh'
  <2> DEFINE row == [pending[i] EXCEPT !.status = "spent"]
  <2>1. pending[i] \in PendingRow /\ pending[i] # NoPending
    BY <1>6 DEF ClaimUsername, RowsTyped, NoPending
  <2>2. row.token = pending[i].token /\ row.status = "spent"
    BY <2>1 DEF PendingRow
  <2>3. /\ pending' = [pending EXCEPT ![i] = row] /\ mints' = mints
        /\ completed' = completed \cup {pending[i].token}
    BY <1>6 DEF ClaimUsername
  <2> HIDE DEF row
  <2> QED
    BY <1>3, <2>1, <2>2, <2>3
<1>7. ASSUME NEW c \in Call, RetirePending(c) PROVE OwnToken' /\ Fresh'
  <2> DEFINE i == call[c].id
             row == Retired(pending[i], call[c].token)
  <2>1. i \in Identity /\ call[c].token > 0
    BY <1>7 DEF RetirePending, CallsInHand, InHand
  <2>2. pending' = [pending EXCEPT ![i] = row] /\ mints' = mints /\ completed' = completed
    BY <1>7 DEF RetirePending
  <2>3. CASE pending[i].token # call[c].token
    <3>1. row = pending[i]
      BY <2>3 DEF Retired
    <3>2. pending' = pending
      BY <2>1, <2>2, <3>1 DEF TypeOK
    <3> QED
      BY <1>2, <2>2, <3>2
  <2>4. CASE pending[i].token = call[c].token
    <3>1. pending[i] \in PendingRow /\ pending[i] # NoPending
      BY <2>1, <2>4 DEF RowsTyped, NoPending
    <3>2. row.token = pending[i].token /\ row.status = "spent"
      BY <2>4, <3>1 DEF Retired, PendingRow
    <3> HIDE DEF row, i
    <3> QED
      BY <1>3, <2>1, <2>2, <3>1, <3>2
  <2> QED
    BY <2>3, <2>4
<1>8. ASSUME NEW c \in Call, CreateAccount(c) \/ MintPending(c) PROVE OwnToken' /\ Fresh'
  <2>1. call[c].id \in Identity
    BY <1>8 DEF CreateAccount, MintPending, CallsInHand, InHand
  <2> HIDE DEF Fresh
  <2> QED
    BY <1>4, <1>8, <2>1 DEF CreateAccount, MintPending, Upserted
<1> HIDE DEF Fresh
<1> QED
  BY <1>2, <1>5, <1>6, <1>7, <1>8, Writers DEF WhoWrites

LEMMA SecretsStep == IInv /\ [Next]_vars => SecretsWorkOnce'
<1> SUFFICES ASSUME IInv, [Next]_vars PROVE SecretsWorkOnce'
  OBVIOUS
<1>1. TypeOK /\ SecretsWorkOnce /\ Grows /\ CallsMove /\ RowsTyped
  BY HistoryGrows, CallsStep, TypedRows DEF IInv
<1>2. \A c \in Call : call[c].state # None => call[c].state \in State
  BY <1>1 DEF RowsTyped, CallRow, Idle
<1>3. \A c \in Call : call[c].state # None => state'[call[c].state].status = "spent"
  BY <1>1, <1>2 DEF SecretsWorkOnce, Grows
<1>4. CASE \A c \in Call : call'[c].state \in {None, call[c].state}
  BY <1>1, <1>3, <1>4, TokenStep DEF SecretsWorkOnce
<1>5. ASSUME NEW c \in Call, NEW s \in State, ConsumeState(c, s), call'[c].state = s,
             \A d \in Call \ {c} : call'[d] = call[d]
      PROVE  SecretsWorkOnce'
  <2>1. state[s].status = "live"
    BY <1>5 DEF ConsumeState
  <2>2. state'[s].status = "spent"
    <3>1. state[s] \in StateRow
      BY <1>1, <2>1 DEF RowsTyped, NoState
    <3>2. state' = [state EXCEPT ![s] = [state[s] EXCEPT !.status = "spent", !.verifier = Cleared]]
      BY <1>1, <1>5 DEF ConsumeState, TypeOK
    <3> QED
      BY <1>1, <3>1, <3>2 DEF TypeOK, StateRow
  <2>3. \A d \in Call : call[d].state # s
    BY <1>1, <1>2, <2>1, OAuthAssumption DEF SecretsWorkOnce, None
  <2> QED
    BY <1>1, <1>3, <1>5, <2>2, <2>3, TokenStep DEF SecretsWorkOnce
<1> QED
  BY <1>1, <1>4, <1>5 DEF CallsMove
-----------------------------------------------------------------------------
LEMMA GateStep == IInv /\ [Next]_vars => OnboardingIsGated'
<1> SUFFICES ASSUME IInv, [Next]_vars, NEW a \in Account,
                    Exists(a)', ~ account'[a].named, a \notin lapsed'
             PROVE  /\ a \notin signedIn'
                    /\ \E i \in Identity : owner'[i] = a /\ pending'[i].status = "live"
  BY DEF OnboardingIsGated
<1>1. TypeOK /\ RowsTyped /\ CallsInHand /\ KnownAccounts /\ Grows /\ OnboardingIsGated
  BY TypedRows, HistoryGrows DEF IInv
<1> USE <1>1 DEF At
\* The account was there: it still waits for its handle.
<1>2. CASE Exists(a)
  <2>1. ~ account[a].named /\ a \notin lapsed
    BY <1>2 DEF Grows
  <2>2. a \notin signedIn
    BY <1>2, <2>1 DEF OnboardingIsGated
  <2>3. PICK i \in Identity : owner[i] = a /\ pending[i].status = "live"
    BY <1>2, <2>1 DEF OnboardingIsGated
  <2>4. owner'[i] = a
    BY <2>3, OAuthAssumption DEF Grows, None
  <2>5. a \notin signedIn'
    <3>1. ASSUME NEW b \in Account, NEW e \in Email, RegisterElsewhere(b, e) PROVE b # a
      BY <1>2, <3>1 DEF RegisterElsewhere
    <3>2. ASSUME NEW c \in Call, OpenSession(c) PROVE call[c].user # a
      BY <2>1, <2>2, <3>2 DEF OpenSession, CallsInHand, InHand
    <3> QED
      BY <2>2, <3>1, <3>2, Writers DEF WhoWrites, RegisterElsewhere, OpenSession
  <2>6. pending'[i].status = "live"
    <3>1. ASSUME NEW j \in Identity, ExpirePending(j) PROVE pending'[i] = pending[i]
      <4>1. pending[j].user = owner[j] /\ pending[j].user # a
        BY <3>1 DEF ExpirePending, TypeOK, NoPending
      <4> QED
        BY <2>3, <3>1, <4>1 DEF ExpirePending, TypeOK
    <3>2. ASSUME NEW j \in Identity, NEW c \in Call, ClaimUsername(c, j)
          PROVE  pending'[i] = pending[i]
      <4> DEFINE row == [account[a] EXCEPT !.named = TRUE]
      <4>1. pending[j].user = owner[j]
        BY <3>2 DEF ClaimUsername, TypeOK, NoPending
      <4>2. ASSUME j = i PROVE FALSE
        <5>1. account[a] \in AccountRow
          BY <1>2 DEF RowsTyped, Exists
        <5>2. account'[a] = row
          BY <2>3, <3>2, <4>1, <4>2 DEF ClaimUsername, TypeOK
        <5> QED
          BY <5>1, <5>2 DEF AccountRow
      <4> QED
        BY <3>2, <4>2 DEF ClaimUsername, TypeOK
    <3>3. ASSUME NEW c \in Call, CreateAccount(c) PROVE pending'[i] = pending[i]
      BY <2>3, <3>3, OAuthAssumption DEF CreateAccount, TypeOK, None
    <3>4. ASSUME NEW c \in Call, RetirePending(c) PROVE pending'[i] = pending[i]
      <4>1. call[c].id \in Identity /\ call[c].user = owner[call[c].id]
        BY <3>4 DEF RetirePending, CallsInHand, InHand
      <4>2. CASE call[c].id # i
        BY <3>4, <4>1, <4>2 DEF RetirePending, TypeOK
      <4>3. CASE call[c].id = i
        <5>1. pending[i].token # call[c].token
          BY <2>3, <3>4, <4>1, <4>3 DEF RetirePending
        <5> QED
          BY <3>4, <4>1, <4>3, <5>1 DEF RetirePending, Retired, TypeOK
      <4> QED
        BY <4>2, <4>3
    <3>5. ASSUME NEW c \in Call, MintPending(c) PROVE pending'[i].status = "live"
      BY <2>3, <3>5 DEF MintPending, Upserted, Minted, TypeOK
    <3> QED
      BY <2>3, <3>1, <3>2, <3>3, <3>4, <3>5, Writers DEF WhoWrites
  <2> QED
    BY <2>4, <2>5, <2>6
\* The account is new: only create_oauth_account makes one without a handle.
<1>3. CASE ~ Exists(a)
  <2>1. a \notin signedIn
    BY <1>3 DEF KnownAccounts
  <2>2. ASSUME NEW b \in Account, NEW e \in Email, RegisterElsewhere(b, e) PROVE FALSE
    BY <1>3, <2>2 DEF RegisterElsewhere, Exists, TypeOK
  <2>3. ASSUME NEW c \in Call, NEW i \in Identity, ClaimUsername(c, i) PROVE FALSE
    <3>1. pending[i].user = owner[i] /\ pending[i].user \in Account
      BY <2>3 DEF ClaimUsername, TypeOK, NoPending, RowsTyped, PendingRow
    <3>2. Exists(pending[i].user)
      BY <3>1, OAuthAssumption DEF KnownAccounts, None
    <3> QED
      BY <1>3, <2>3, <3>2 DEF ClaimUsername, Exists, TypeOK
  <2>4. ASSUME NEW c \in Call, CreateAccount(c)
        PROVE  /\ a \notin signedIn'
               /\ \E i \in Identity : owner'[i] = a /\ pending'[i].status = "live"
    <3>1. call[c].id \in Identity
      BY <2>4 DEF CreateAccount, CallsInHand, InHand
    <3>2. PICK b \in Account :
            /\ account' = [account EXCEPT ![b] = [email |-> call[c].email, named |-> FALSE]]
            /\ owner' = [owner EXCEPT ![call[c].id] = b]
            /\ pending' = [pending EXCEPT ![call[c].id] = Minted(b)]
      BY <2>4 DEF CreateAccount
    <3>3. b = a
      BY <1>3, <3>2 DEF Exists, TypeOK
    <3>4. owner'[call[c].id] = a /\ pending'[call[c].id].status = "live"
      BY <3>1, <3>2, <3>3 DEF TypeOK, Minted
    <3> QED
      BY <2>1, <2>4, <3>1, <3>4 DEF CreateAccount
  <2>5. \/ account' = account
        \/ \E b \in Account, e \in Email : RegisterElsewhere(b, e)
        \/ \E c \in Call : CreateAccount(c) \/ \E i \in Identity : ClaimUsername(c, i)
    <3>1. ASSUME NEW s, \/ ExpireState(s) \/ \E b \in Account \cup {None} : StartRoundTrip(s, b)
                        \/ \E c \in Call : ConsumeState(c, s)
          PROVE  account' = account
      BY <3>1 DEF ExpireState, StartRoundTrip, ConsumeState
    <3>2. ASSUME NEW c, \/ ProviderMismatch(c) \/ ReadOwner(c) \/ Bind(c) \/ Lookup(c) \/ Guard(c)
                        \/ CreateRefused(c) \/ AskPending(c)
          PROVE  account' = account
      BY <3>2 DEF ProviderMismatch, ReadOwner, Bind, Lookup, Guard, CreateRefused, AskPending
    <3>3. ASSUME NEW c, \/ RetirePending(c) \/ MintPending(c) \/ OpenSession(c) \/ Abandon(c)
                        \/ \E i \in Identity, e \in Email \cup {NoEmail} : Exchange(c, i, e)
          PROVE  account' = account
      BY <3>3 DEF RetirePending, MintPending, OpenSession, Abandon, Exchange
    <3>4. ASSUME NEW i, ExpirePending(i) PROVE account' = account
      BY <3>4 DEF ExpirePending
    <3>5. CASE UNCHANGED vars
      BY <3>5 DEF vars
    <3> QED
      BY <3>1, <3>2, <3>3, <3>4, <3>5 DEF Next
  <2>6. account' # account
    BY <1>3 DEF Exists
  <2> QED
    BY <2>2, <2>3, <2>4, <2>5, <2>6
<1> QED
  BY <1>2, <1>3

-----------------------------------------------------------------------------
\* Whatever callbacks, completions, links and registrations interleave: rows, owners, tokens
\* and requests stay as the theorems below need them.
THEOREM Invariance == Spec => []IInv
<1>1. IInv /\ [Next]_vars => IInv'
  BY TypeStep, KnownStep, CallsStep, IdentityStep, TokenStep, SecretsStep, GateStep DEF IInv
<1> QED
  BY <1>1, InitInvariant, PTL DEF Spec

\* Every table and every request's variables keep their types.
THEOREM SignInTyped == Spec => []TypeOK
  BY Invariance, PTL DEF IInv

\* callback, link and complete_sign_in open sessions for the identity's own account only.
THEOREM OwnerSignsIn == Spec => []SignsInTheOwner
<1>1. IInv => SignsInTheOwner
  BY DEF IInv, CallsInHand, InHand, SignsInTheOwner, At
<1> QED
  BY <1>1, Invariance, PTL

\* consume_state and claim_username: neither a state nor a limited token serves twice.
THEOREM SecretsServeOnce == Spec => []SecretsWorkOnce
  BY Invariance, PTL DEF IInv

\* active_pending_session: no session before the handle, unless the limited token was lost.
THEOREM HandleBeforeSession == Spec => []OnboardingIsGated
  BY Invariance, PTL DEF IInv
=============================================================================
