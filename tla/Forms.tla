------------------------------- MODULE Forms --------------------------------
(***************************************************************************)
(* What a person types, from the form to the row: validation.rs of the auth *)
(* crate and the checks of the chat service in front of the CHECKs of the   *)
(* tables.  A text is a sequence of letters: "?" is a letter of three bytes *)
(* outside every alphabet, "~" any whitespace.  Which problem is reported   *)
(* is left out.  A handler answers at once: nothing here outlives a request *)
(* but the accounts.                                                        *)
(***************************************************************************)
EXTENDS Integers, Sequences, FiniteSets, SequencesExt

CONSTANTS Limits,       \* the lengths validation.rs and contract name, scaled down
          MaxAccounts   \* bound: accounts

ASSUME FormsAssumption ==
  /\ Limits \in [handleMin : Nat, handleMax : Nat, passwordMin : Nat, passwordMax : Nat,
                 email : Nat, name : Nat, title : Nat, notice : Nat, body : Nat, keyBytes : Nat]
  /\ 1 <= Limits.handleMin /\ Limits.handleMax <= Limits.name
  /\ MaxAccounts \in Nat

VARIABLES accounts,     \* the users table: [id, typed, handle, mail, email, name, verified]
          answer        \* the last answer of a handler, and what was asked of it

formVars == <<accounts, answer>>

-----------------------------------------------------------------------------
(* Texts. *)

Lower(t) == [i \in DOMAIN t |-> IF t[i] = "A" THEN "a" ELSE t[i]]

Trim(t) ==
  LET ink == {i \in DOMAIN t : t[i] # "~"} IN
  IF ink = {} THEN <<>> ELSE SubSeq(t, Min(ink), Max(ink))

Bytes(t) == Len(t) + 2 * Cardinality({i \in DOMAIN t : t[i] = "?"})
Only(t, alphabet) == \A i \in DOMAIN t : t[i] \in alphabet
HandleLetters == {"a", "b", "1", "_"}

\* The texts one slip away from t: a letter of alphabet dropped, changed or added.
Slips(t, alphabet) ==
  {t} \cup {RemoveAt(t, i) : i \in DOMAIN t}
      \cup {ReplaceAt(t, i, c) : i \in DOMAIN t, c \in alphabet}
      \cup {InsertAt(t, i, c) : i \in 1 .. Len(t) + 1, c \in alphabet}

-----------------------------------------------------------------------------
(* validation.rs *)

NormalizeUsername(raw) == Lower(Trim(raw))
NormalizeEmail(raw) == Lower(Trim(raw))

\* What is stored: a blank or absent display name is the handle.
DisplayName(requested, username) ==
  IF \E t \in requested : Trim(t) # <<>>
  THEN Trim(CHOOSE t \in requested : TRUE) ELSE username

UsernameFits(username) ==
  Len(username) \in Limits.handleMin .. Limits.handleMax /\ Only(username, HandleLetters)

\* One @ with something on both sides, no whitespace, a dotted domain without empty labels.
EmailFits(email) ==
  /\ Len(email) \in 1 .. Limits.email
  /\ \A i \in DOMAIN email : email[i] # "~"
  /\ \E at \in DOMAIN email :
       /\ {i \in DOMAIN email : email[i] = "@"} = {at} /\ at > 1
       /\ LET domain == SubSeq(email, at + 1, Len(email))
              dots   == {i \in DOMAIN domain : domain[i] = "."} IN
          /\ dots # {}
          /\ \A i \in dots : i > 1 /\ i < Len(domain) /\ i + 1 \notin dots

PasswordFits(password) ==
  /\ Len(password) \in Limits.passwordMin .. Limits.passwordMax
  /\ \E i \in DOMAIN password : password[i] \in {"a", "A", "b"}
  /\ \E i \in DOMAIN password : password[i] = "1"

DisplayNameFits(requested) == \A t \in requested : Len(Trim(t)) <= Limits.name

RegistrationFits(form) ==
  /\ UsernameFits(NormalizeUsername(form.username))
  /\ EmailFits(NormalizeEmail(form.email))
  /\ PasswordFits(form.password)
  /\ DisplayNameFits(form.display)

\* The two forms that name an account by its address.
LoginFits(email, password) == EmailFits(NormalizeEmail(email)) /\ password # <<>>
MailFormFits(email) == EmailFits(NormalizeEmail(email))
-----------------------------------------------------------------------------
(* The CHECKs of the tables. *)

UsersCheck(row) ==
  /\ Len(row.handle) \in Limits.handleMin .. Limits.handleMax /\ Only(row.handle, HandleLetters)
  /\ row.email = Lower(row.email)
  /\ Len(row.name) \in 1 .. Limits.name

TitleCheck(title) == Len(title) \in 1 .. Limits.title
AnnouncementCheck(text) == \A t \in text : Len(t) \in 1 .. Limits.notice
MessageCheck(key, body) == Len(key) \in 1 .. Limits.keyBytes /\ Len(body) \in 1 .. Limits.body
RedirectCheck(path) == Len(path) > 1 /\ path[1] = "/" /\ path[2] # "/"

-----------------------------------------------------------------------------
(* The handlers.  An answer names what was asked and the accounts it found. *)

Answer(of, asked, is, found) == [of |-> of, asked |-> asked, is |-> is, found |-> found]
NoAnswer == Answer("nothing", <<>>, "refused", {})

FormsInit == accounts = {} /\ answer = NoAnswer

ByHandle(username) == {a \in accounts : a.handle = username}
ByEmail(email) == {a \in accounts : a.email = email}

AccountRow(form, id) ==
  LET username == NormalizeUsername(form.username) IN
  [id |-> id, typed |-> form.username, handle |-> username,
   mail |-> form.email, email |-> NormalizeEmail(form.email),
   name |-> DisplayName(form.display, username), verified |-> FALSE]

\* The insert of a users row: the CHECKs, then the two unique columns.
Insert(of, row) ==
  \/ /\ ~ UsersCheck(row)
     /\ answer' = Answer(of, row.name, "misfit", {})
     /\ UNCHANGED accounts
  \/ /\ UsersCheck(row) /\ ByHandle(row.handle) \cup ByEmail(row.email) # {}
     /\ answer' = Answer(of, row.handle, "taken", ByHandle(row.handle) \cup ByEmail(row.email))
     /\ UNCHANGED accounts
  \/ /\ UsersCheck(row) /\ ByHandle(row.handle) \cup ByEmail(row.email) = {}
     /\ accounts' = accounts \cup {row}
     /\ answer' = Answer(of, row.handle, "stored", {row})

RegisterForm(form) ==
  /\ Cardinality(accounts) < MaxAccounts
  /\ RegistrationFits(form)
  /\ Insert("register", AccountRow(form, Cardinality(accounts) + 1))

\* What a form asked for, if it fits: the accounts it names, or "refused".
Look(of, asked, fits, found) ==
  /\ answer' = IF fits THEN Answer(of, asked, "found", found) ELSE Answer(of, asked, "refused", {})
  /\ UNCHANGED accounts

SignIn(email, password) ==
  Look(IF password = <<>> THEN "login" ELSE "email", email,
       LoginFits(email, password), ByEmail(NormalizeEmail(email)))

\* Forgot password, and the verification link once more.
AskForMail(email) ==
  Look("email", email, MailFormFits(email), ByEmail(NormalizeEmail(email)))

\* open_direct has a normalisation of its own, in another crate.
NamePeer(username) ==
  LET sought == Lower(Trim(username)) IN
  Look("handle", username, sought # <<>>, ByHandle(sought))

\* normalise_usernames: blanks dropped, one of each kept.
Invited(usernames) == {Lower(Trim(u)) : u \in Range(usernames)} \ {<<>>}

\* create_group: a title, and every handle must name an account.
NameGroup(title, usernames) ==
  LET stored == Trim(title) IN
  /\ UNCHANGED accounts
  /\ answer' =
       IF \/ Len(stored) \notin 1 .. Limits.title \/ Invited(usernames) = {}
          \/ \E u \in Invited(usernames) : ByHandle(u) = {}
       THEN Answer("group", title, "refused", {})
       ELSE Answer("group", title, IF TitleCheck(stored) THEN "stored" ELSE "misfit",
                   UNION {ByHandle(u) : u \in Invited(usernames)})

\* normalise_announcement: {} is NULL.
\* Mutant: a blank announcement is stored as it is.
NormaliseAnnouncement_keeps_a_blank(text) == {Trim(t) : t \in text}
NormaliseAnnouncement(text) == {Trim(t) : t \in text} \ {<<>>}

Announce(text) ==
  LET stored == NormaliseAnnouncement(text) IN
  /\ UNCHANGED accounts
  /\ answer' = IF \E t \in stored : Len(t) > Limits.notice
               THEN Answer("notice", <<>>, "refused", {})
               ELSE Answer("notice", <<>>, IF AnnouncementCheck(stored) THEN "stored" ELSE "misfit", {})

\* validate_send: the key in bytes, the body in characters and untrimmed.
SendFits(key, body) ==
  /\ key # <<>> /\ Bytes(key) <= Limits.keyBytes
  /\ Trim(body) # <<>> /\ Len(body) <= Limits.body

SendForm(key, body) ==
  /\ UNCHANGED accounts
  /\ answer' = IF SendFits(key, body)
               THEN Answer("message", body, IF MessageCheck(key, body) THEN "stored" ELSE "misfit", {})
               ELSE Answer("message", body, "refused", {})

\* is_relative_path; "?" stands for "://" in a path.
RelativePath(path) ==
  /\ path # <<>> /\ path[1] = "/" /\ (Len(path) > 1 => path[2] # "/")
  /\ \A i \in DOMAIN path : path[i] \notin {"?", "~"}

\* start: the path a browser comes back to; a blank one is none.
ReturnTo(path) ==
  LET trimmed == Trim(path) IN
  /\ UNCHANGED accounts
  /\ answer' = IF trimmed # <<>> /\ ~ RelativePath(trimmed) THEN Answer("return", trimmed, "refused", {})
               ELSE Answer("return", trimmed,
                           IF trimmed = <<>> \/ RedirectCheck(trimmed) THEN "stored" ELSE "misfit", {})

-----------------------------------------------------------------------------
(* What is typed: every text one slip away from a good one. *)

Handle == <<"a", "b">>
Mail(user) == <<user, "@", "a", ".", "b">>
Password == <<"a", "1">>
Blank == <<"~">>
LongHandle == Handle \o <<"1">>
HandleTexts == Slips(Handle, {"A", "?", "~"}) \cup Slips(LongHandle, {"A", "_"}) \cup {<<>>, Blank}
MailTexts == Slips(Mail("a"), {"A", "@", ".", "~"}) \cup {<<>>, Mail("b")}

Registration(username, email) ==
  [username |-> username, email |-> email, password |-> Password, display |-> {}]

Registrations ==
     {Registration(u, Mail("a")) : u \in HandleTexts}
  \cup {Registration(<<"b", "1">>, m) : m \in MailTexts}
  \cup {[Registration(Handle, Mail("a")) EXCEPT !.password = p] :
          p \in Slips(Password, {"b", "?"}) \cup Slips(<<"a", "1", "?">>, {"b"})}
  \cup {[Registration(Handle, Mail("a")) EXCEPT !.display = d] :
          d \in {{t} : t \in Slips(<<"?", "A">>, {"~", "a"}) \cup {Blank}}}

\* An answer that stored no account changed nothing: the next form is not asked after it.
FormsNext ==
  /\ answer = NoAnswer \/ (answer.of = "register" /\ answer.is = "stored")
  /\ \/ \E form \in Registrations : RegisterForm(form)
     \/ \E m \in MailTexts, p \in {<<>>, Password} : SignIn(m, p)
     \/ \E m \in MailTexts : AskForMail(m)
     \/ \E u \in HandleTexts : NamePeer(u)
     \/ \E t \in Slips(<<"?", "a">>, {"~"}) \cup {Blank}, u \in {Handle, <<"A", "b", "~">>, Blank},
           v \in {<<"a", "A">>, <<"A", "b">>, <<"~", "b", "1">>} : NameGroup(t, <<u, v>>)
     \/ \E t \in Slips(<<"?", "a">>, {"~"}) \cup {Blank, <<>>} : Announce({t}) \/ Announce({})
     \/ \E k \in {<<>>} \cup Slips(<<"?">>, {"a"}), b \in Slips(<<"?", "a">>, {"~"}) \cup {Blank, <<"~", "~">>} :
           SendForm(k, b)
     \/ \E p \in Slips(<<"/", "a">>, {"/", "?", "~"}) \cup {<<>>, <<"/">>, Blank} : ReturnTo(p)

FormsTypeOK ==
  /\ \A a \in accounts : UsersCheck(a)
  /\ answer.is \in {"refused", "misfit", "taken", "stored", "found"}
  /\ answer.found \subseteq accounts

-----------------------------------------------------------------------------
\* A text that differs from the registered one in case or padding alone finds its account:
\* by address in the auth crate, by handle in the chat crate, which normalises by itself.
Same(s, t) == Lower(Trim(s)) = Lower(Trim(t))

RetypedTextFindsTheAccount ==
  /\ answer.of = "handle" => answer.found = {a \in accounts : Same(a.typed, answer.asked)}
  /\ answer.of = "email" /\ answer.is = "found"
       => answer.found = {a \in accounts : Same(a.mail, answer.asked)}
  /\ answer.of = "email" /\ answer.is = "refused"
       => \A a \in accounts : ~ Same(a.mail, answer.asked)
=============================================================================
