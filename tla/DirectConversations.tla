------------------------ MODULE DirectConversations ------------------------
(***************************************************************************)
(* Opening a Direct Conversation: open_direct of jiuyue-chat, statement by  *)
(* statement and each committed on its own, as POST /conversations/direct   *)
(* runs it.  Both peers, on any Device, may open at once, and a request may *)
(* end after any of its statements.                                         *)
(***************************************************************************)
EXTENDS Naturals, FiniteSets

CONSTANTS Peer,        \* Users
          Opener,      \* requests in flight at once
          Ulid         \* ids new_id() may propose

NoPair == {}
NoUlid == "none"

VARIABLES directKey,   \* [Ulid -> conversations.direct_key, NoPair without a row]
          joined,      \* [Ulid -> SUBSET Peer]: its conversation_members
          opener,      \* the requests' local variables
          opened       \* ghost: what a User was answered or told, as <<User, peer, id>>

directVars == <<directKey, joined, opener, opened>>

NotOpening == [pc |-> "idle", by |-> NoUlid, peer |-> NoUlid, id |-> NoUlid, created |-> FALSE]

DirectInit ==
  /\ directKey = [i \in Ulid |-> NoPair]
  /\ joined = [i \in Ulid |-> {}]
  /\ opener = [o \in Opener |-> NotOpening]
  /\ opened = {}

\* canonical_direct_key: the two ids in one order, so a set.
DirectKey(first, second) == {first, second}

WithKey(key) == {i \in Ulid : directKey[i] = key}

\* find_user_by_username and find_user_by_id; nobody opens with themselves.
FindPeers(o, by, peer) ==
  /\ opener[o].pc = "idle"
  /\ by # peer
  /\ opener' = [opener EXCEPT ![o] = [NotOpening EXCEPT !.pc = "insert", !.by = by, !.peer = peer]]
  /\ UNCHANGED <<directKey, joined, opened>>

\* INSERT ... ON CONFLICT (direct_key) DO NOTHING, with a fresh ULID.
InsertDirect(o) ==
  LET key == DirectKey(opener[o].by, opener[o].peer) IN
  /\ opener[o].pc = "insert"
  /\ \/ /\ WithKey(key) = {}
        /\ \E i \in WithKey(NoPair) :
             /\ directKey' = [directKey EXCEPT ![i] = key]
             /\ opener' = [opener EXCEPT ![o].pc = "join", ![o].id = i, ![o].created = TRUE]
     \/ /\ WithKey(key) # {}
        /\ opener' = [opener EXCEPT ![o].pc = "find"]
        /\ UNCHANGED directKey
  /\ UNCHANGED <<joined, opened>>

\* Direct Conversations are never deleted, so the row in the way is still there.
FindByDirectKey(o) ==
  /\ opener[o].pc = "find"
  /\ \E i \in WithKey(DirectKey(opener[o].by, opener[o].peer)) :
       opener' = [opener EXCEPT ![o].pc = "join", ![o].id = i]
  /\ UNCHANGED <<directKey, joined, opened>>

\* Mutant: only the request that created the row writes its members.
AddMembers_of_new_rows(o) ==
  /\ opener[o].pc = "join"
  /\ joined' = IF opener[o].created
               THEN [joined EXCEPT ![opener[o].id] = @ \cup {opener[o].by, opener[o].peer}]
               ELSE joined
  /\ opener' = [opener EXCEPT ![o].pc = "answer"]
  /\ UNCHANGED <<directKey, opened>>

\* INSERT_MEMBERS, ON CONFLICT DO NOTHING: a reopen repairs what a crash left out.
AddMembers(o) ==
  /\ opener[o].pc = "join"
  /\ joined' = [joined EXCEPT ![opener[o].id] = @ \cup {opener[o].by, opener[o].peer}]
  /\ opener' = [opener EXCEPT ![o].pc = "answer"]
  /\ UNCHANGED <<directKey, opened>>

\* create_direct: the caller is answered, and both Users are told of a new Conversation.
AnswerOpened(o) ==
  LET r == opener[o] IN
  /\ r.pc = "answer"
  /\ opened' = opened \cup {<<r.by, r.peer, r.id>>}
                      \cup (IF r.created THEN {<<r.peer, r.by, r.id>>} ELSE {})
  /\ opener' = [opener EXCEPT ![o] = NotOpening]
  /\ UNCHANGED <<directKey, joined>>

\* A failed statement, a dropped request or a dead server.
OpenFails(o) ==
  /\ opener[o].pc # "idle"
  /\ opener' = [opener EXCEPT ![o] = NotOpening]
  /\ UNCHANGED <<directKey, joined, opened>>

DirectNext ==
  \E o \in Opener :
    \/ \E by, peer \in Peer : FindPeers(o, by, peer)
    \/ InsertDirect(o) \/ FindByDirectKey(o) \/ AddMembers(o)
    \/ AnswerOpened(o) \/ OpenFails(o)

DirectSpec == DirectInit /\ [][DirectNext]_directVars

-----------------------------------------------------------------------------
\* SELECT_CONVERSATIONS_FOR_USER: what u's list shows, as <<id, peer>>.
DirectList(u) ==
  {e \in Ulid \X Peer : u \in joined[e[1]] /\ e[2] \in joined[e[1]] /\ e[2] # u}

DirectTypeOK ==
  /\ directKey \in [Ulid -> SUBSET Peer]
  /\ joined \in [Ulid -> SUBSET Peer]
  /\ opener \in [Opener -> [pc : {"idle", "insert", "find", "join", "answer"},
                            by : Peer \cup {NoUlid}, peer : Peer \cup {NoUlid},
                            id : Ulid \cup {NoUlid}, created : BOOLEAN]]
  /\ opened \subseteq Peer \X Peer \X Ulid

\* However the two peers race, retry and crash, whatever they are answered or told for a
\* pair names one Conversation, which is in both their lists, and no list shows a peer
\* twice.
PairsShareOneConversation ==
  /\ \A a \in opened : /\ <<a[3], a[2]>> \in DirectList(a[1])
                       /\ <<a[3], a[1]>> \in DirectList(a[2])
  /\ \A u \in Peer : \A x, y \in DirectList(u) : x[2] = y[2] => x = y
=============================================================================
