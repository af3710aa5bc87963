-------------------------- MODULE ProviderIdentity --------------------------
(***************************************************************************)
(* From the answers of a provider to a users row: oauth/client.rs, and the  *)
(* handle that oauth/service.rs makes up for a new account.  JSON is what   *)
(* the adapters find in it: an optional text is a set of at most one text.  *)
(* The states, links and pending sessions of the sign-in are in OAuth.      *)
(***************************************************************************)
EXTENDS Forms

CONSTANTS SuffixDigits, MaxSuffix,  \* of a generated handle, scaled down
          MaxAttempts               \* MAX_USERNAME_ATTEMPTS

\* A suffix alone is a letter short of a handle at most, and leaves room for a letter.
ASSUME SuffixAssumption ==
  /\ SuffixDigits \in Nat /\ MaxSuffix \in Nat /\ MaxAttempts \in Nat \ {0}
  /\ Limits.handleMin <= SuffixDigits + 1 /\ SuffixDigits <= MaxSuffix
  /\ MaxSuffix < Limits.handleMax

VARIABLES heard,       \* the answers that were read, or {}
          identity,    \* OAuthIdentity: {} while there is none
          tries,     \* handles tried for it
          unfinished   \* ids of the accounts that still have to choose a handle

providerVars == <<heard, identity, tries, unfinished>>

Registered(username, user, id) == AccountRow(Registration(username, Mail(user)), id)

ProviderInit ==
  /\ accounts \in {{}, {Registered(<<"a", "1">>, "a", 1)},
                   {Registered(<<"a", "1">>, "1", 1), Registered(<<"a", "1", "1">>, "b", 2)}}
  /\ \A a \in accounts : UsersCheck(a)
  /\ answer = NoAnswer
  /\ heard = {} /\ identity = {} /\ tries = 0 /\ unfinished = {}

-----------------------------------------------------------------------------
(* client.rs *)

\* An address or a name, trimmed, lowercased if it is an address, or nothing.
AddressText(text) == {Lower(Trim(t)) : t \in text} \ {<<>>}
NameText(text) == {t \in text : Trim(t) # <<>>}

\* One entry of a GitHub list, if it names a usable address.
AddressOf(entry) == {[email |-> e, verified |-> entry.verified] : e \in AddressText({entry.email})}

First(entries, wanted) == IF wanted = {} THEN {} ELSE AddressOf(entries[Min(wanted)])

\* The primary entry, else the first verified one, else the first; each taken whole.
PickGithubAddress(entries) ==
  LET primary  == First(entries, {i \in DOMAIN entries : entries[i].primary})
      verified == First(entries, {i \in DOMAIN entries : entries[i].verified})
  IN CASE primary # {} -> primary
       [] primary = {} /\ verified # {} -> verified
       [] OTHER -> First(entries, DOMAIN entries)

\* GitHubAdapter::fetch_identity: /user, then /user/emails.
GitHubIdentity(profile, entries) ==
  LET chosen == PickGithubAddress(entries) IN
  [email    |-> IF chosen = {} THEN AddressText(profile.email) ELSE {c.email : c \in chosen},
   verified |-> \E c \in chosen : c.verified,
   name     |-> NameText(profile.name)]

\* GoogleAdapter::identity: one answer.
GoogleIdentity(profile) ==
  [email |-> AddressText(profile.email), verified |-> profile.verified,
   name  |-> NameText(profile.name)]

\* A token is found in a JSON object, or in a form body that send turned into one.
TokenFound(token) == token \in {"json", "form"}

\* exchange_identity: every call must be answered, with 2xx, JSON and a subject.
ExchangeAnswers(a) ==
  /\ identity = {} /\ heard = {}
  /\ IF TokenFound(a.token) /\ a.profile.ok /\ a.profile.subject /\ (a.provider = "github" => a.listed)
     THEN /\ identity' = {IF a.provider = "github" THEN GitHubIdentity(a.profile, a.emails)
                          ELSE GoogleIdentity(a.profile)}
          /\ heard' = {a}
          /\ UNCHANGED answer
     ELSE /\ answer' = Answer("exchange", <<>>, "refused", {})
          /\ UNCHANGED <<identity, heard>>
  /\ UNCHANGED <<accounts, tries, unfinished>>

-----------------------------------------------------------------------------
(* oauth/service.rs: the handle of a new account. *)

ProviderName(provider) == IF provider = "github" THEN <<"b", "b">> ELSE <<"a", "a">>
Take(t, n) == SubSeq(t, 1, IF Len(t) < n THEN Len(t) ELSE n)

\* sanitise: foreign letters become underscores, cut short, then underscores trimmed.
Sanitise(text) ==
  LET lower == Lower(text)
      cut   == Take([i \in DOMAIN lower |-> IF lower[i] \in HandleLetters THEN lower[i] ELSE "_"],
                    Limits.handleMax - SuffixDigits)
      ink   == {i \in DOMAIN cut : cut[i] # "_"}
  IN IF ink = {} THEN <<>> ELSE SubSeq(cut, Min(ink), Max(ink))

LocalPart(email) ==
  LET at == {i \in DOMAIN email : email[i] = "@"} IN
  IF at = {} THEN email ELSE SubSeq(email, 1, Min(at) - 1)

SuggestedUsername(who, provider) ==
  LET preferred == IF who.name # {} THEN who.name ELSE {LocalPart(e) : e \in who.email}
      clean     == {Sanitise(t) : t \in preferred} \ {<<>>}
  IN IF clean = {} THEN ProviderName(provider) ELSE CHOOSE t \in clean : TRUE

Smaller(a, b) == IF a < b THEN a ELSE b
SuffixLength == Smaller(SuffixDigits + tries, MaxSuffix)
GeneratedUsername(base, suffix) == Take(base, Limits.handleMax - Len(suffix)) \o suffix

ProviderRow(who, provider, suffix) ==
  LET username == GeneratedUsername(SuggestedUsername(who, provider), suffix)
      email    == IF who.email = {} THEN username \o <<"@", "?">> ELSE CHOOSE e \in who.email : TRUE
  IN [id |-> Cardinality(accounts) + 1, typed |-> username, handle |-> username,
      mail |-> email, email |-> email, verified |-> who.verified,
      name |-> IF who.name = {} THEN username ELSE CHOOSE t \in who.name : TRUE]

Done == identity' = {} /\ heard' = {} /\ tries' = 0

\* create_account: the address is nobody's, and a taken handle is tried again, longer.
CreateProviderAccount(suffix) ==
  \E who \in identity, a \in heard :
    LET row == ProviderRow(who, a.provider, suffix) IN
    \/ /\ \E e \in who.email : ByEmail(e) # {}
       /\ answer' = Answer("provider", <<>>, "taken", {})
       /\ Done /\ UNCHANGED <<accounts, unfinished>>
    \/ /\ \A e \in who.email : ByEmail(e) = {}
       /\ Insert("provider", row)
       /\ IF answer'.is = "taken" /\ tries + 1 < MaxAttempts
          THEN tries' = tries + 1 /\ UNCHANGED <<identity, heard>>
          ELSE Done
       /\ unfinished' = IF answer'.is = "stored" THEN unfinished \cup {row.id} ELSE unfinished

\* complete_sign_in: the person chooses the handle and, perhaps, the display name.
CompleteSignIn(typed, display) ==
  /\ identity = {}
  /\ \E old \in accounts :
       LET username == NormalizeUsername(typed)
           row == [old EXCEPT !.typed = typed, !.handle = username,
                              !.name = DisplayName(display, username)] IN
       /\ old.id \in unfinished
       /\ UsernameFits(username) /\ DisplayNameFits(display)
       /\ IF ~ UsersCheck(row)
          THEN answer' = Answer("choice", row.name, "misfit", {}) /\ UNCHANGED <<accounts, unfinished>>
          ELSE IF ByHandle(username) \ {old} # {}
          THEN answer' = Answer("choice", username, "taken", ByHandle(username) \ {old})
               /\ UNCHANGED <<accounts, unfinished>>
          ELSE /\ accounts' = (accounts \ {old}) \cup {row}
               /\ unfinished' = unfinished \ {old.id}
               /\ answer' = Answer("choice", username, "stored", {row})
  /\ UNCHANGED <<heard, identity, tries>>

-----------------------------------------------------------------------------
(* What providers answer.  Google vouches for no address it does not name. *)

Padded(user) == <<"~", user, "@", "b", ".", "b">>
Telling(email, name) ==
  [ok |-> TRUE, subject |-> TRUE, email |-> email, name |-> name, verified |-> FALSE]
Profile == Telling({}, {})
Names == {{}, {Blank}, {<<"?">>}, {<<"A", "_">>}, {<<"_", "?", "a", "b">>}}
Addresses == {{}, {Blank}, {Mail("a")}, {Padded("A")}}
Entry == [email : {Blank, Padded("A")}, primary : BOOLEAN, verified : BOOLEAN]
Lists == {<<>>} \cup {<<e>> : e \in Entry} \cup {<<d, e>> : d, e \in Entry}

Heard(provider, profile, emails) ==
  [provider |-> provider, token |-> "json", profile |-> profile, listed |-> TRUE, emails |-> emails]

ProviderAnswers ==
     {Heard(p, Telling(e, n), <<>>) :
        p \in {"github", "google"}, e \in Addresses, n \in Names}
  \cup {Heard("google", [Telling({m}, {}) EXCEPT !.verified = TRUE], <<>>) :
          m \in {Mail("a"), Padded("A")}}
  \cup {Heard("github", Telling(e, {}), l) : e \in {{}, {Mail("b")}}, l \in Lists}
  \cup {[Heard("github", Profile, <<>>) EXCEPT !.token = t] : t \in {"form", "empty", "error"}}
  \cup {[Heard("github", Profile, <<>>) EXCEPT !.listed = FALSE]}
  \cup {Heard(p, q, <<>>) : p \in {"github", "google"},
          q \in {[Profile EXCEPT !.ok = FALSE], [Profile EXCEPT !.subject = FALSE]}}

\* As in FormsNext, no form is asked after an answer that changed nothing.
ProviderNext ==
  \/ answer = NoAnswer /\ \E a \in ProviderAnswers : ExchangeAnswers(a)
  \/ \E suffix \in [1 .. SuffixLength -> {"1", "a"}] : CreateProviderAccount(suffix)
  \/ answer.of = "provider"
     /\ \E t \in HandleTexts, d \in {{}, {Blank}, {<<"~", "?">>}} : CompleteSignIn(t, d)

ProviderTypeOK ==
  /\ Cardinality(identity) <= 1 /\ Cardinality(heard) = Cardinality(identity)
  /\ tries \in 0 .. MaxAttempts - 1
  /\ unfinished \subseteq {a.id : a \in accounts}

-----------------------------------------------------------------------------
\* What validation lets through, and every handle made up for a provider's account, the
\* tables' CHECKs accept, with two exceptions: the return path "/" is relative for
\* is_relative_path and too short for oauth_states, and a provider's display name longer
\* than the column is cut by nobody.  There the insert fails instead of the validation.
TablesTakeWhatIsWritten ==
  answer.is = "misfit" =>
    \/ answer.of = "return" /\ answer.asked = <<"/">>
    \/ answer.of = "provider" /\ Len(answer.asked) > Limits.name

\* An account is marked verified for an address the provider vouched for, never for the
\* one beside it (client.rs, "never a different entry's").
Vouched(a, email) ==
  \/ a.provider = "google" /\ a.profile.verified /\ email \in AddressText(a.profile.email)
  \/ a.provider = "github"
     /\ \E i \in DOMAIN a.emails : a.emails[i].verified /\ email = Lower(Trim(a.emails[i].email))

VerifiedIsTheAddressesOwn ==
  \A who \in identity, a \in heard : who.verified => \E e \in who.email : Vouched(a, e)
=============================================================================
