---------------------------- MODULE MessageStream ----------------------------
(***************************************************************************)
(* The message store of jiuyue-chat: idempotent send, Sequence Number       *)
(* allocation, Unread Count and Read Marker, as concurrent connection tasks *)
(* run them against PostgreSQL at READ COMMITTED.                           *)
(*                                                                         *)
(* One step is one SQL statement.  Row locks are not variables: which task  *)
(* holds which lock follows from where it is in its transaction.  What a    *)
(* transaction has written but not committed lives in the task's locals, so *)
(* the table variables hold committed rows only.                            *)
(***************************************************************************)
EXTENDS Naturals, Sequences, FiniteSets

CONSTANTS User,       \* Users
          Conn,       \* live connections; each processes one frame at a time
          Conv,       \* Conversations
          Key,        \* Client Message IDs, the idempotency keys of senders
          UserOf,     \* UserOf[c]: the User a connection authenticated as
          None,       \* no value
          Sends,      \* bound: which connection sends which key into which v
          Marks,      \* bound: which connection reports reading which v
          Moves,      \* bound: which User joins and leaves which v
          Closures,   \* bound: which v may be dissolved
          MaxJoins    \* bound: how often one User becomes a Participant of one v

ASSUME MessageStreamAssumption ==
  /\ UserOf \in [Conn -> User]
  /\ Sends \subseteq Conn \X Conv \X Key
  /\ Marks \subseteq Conn \X Conv
  /\ Moves \subseteq Conv \X User
  /\ Closures \subseteq Conv
  /\ MaxJoins \in Nat

VARIABLES
  live,       \* live[v]: the conversations row exists
  nextSeq,    \* nextSeq[v]: conversations.next_seq
  messages,   \* the messages table
  joins,      \* joins[v][u]: memberships so far; tells a re-inserted row apart
  members,    \* members[v]: the Users with a conversation_members row
  marker,     \* marker[v][u]: read_marker_seq (read_receipt_seq moves with it)
  unread,     \* unread[v][u]: unread_count
  announced,  \* announced[v]: the seqs whose NewMessage was fanned out, in order
  pc,         \* pc[c]: the statement the connection's handler runs next
  req,        \* req[c]: the request being served
  seq,        \* seq[c]: allocated seq of a send, reported position of a mark
  bumped,     \* bumped[c]: member rows the send has incremented and locked
  snap,       \* snap[c]: what the MARK_READ statement's snapshot saw
  reply       \* reply[c]: the row a send is answered with, and whether it wrote it

table == <<live, nextSeq, messages, joins, members, marker, unread>>
local == <<req, seq, bumped, snap, reply>>
vars  == <<table, announced, pc, local>>

Row     == [conv : Conv, seq : Nat \ {0}, sender : User, key : Key]
Request == [conv : Conv, key : Key \cup {None}]   \* a mark carries no key
Reply   == [row : Row, created : BOOLEAN]
Snap    == [newest : Nat, others : SUBSET Nat, joins : Nat]

Sending == {"find", "allocate", "insert", "bump", "commit",
            "conflict", "reread", "acked"}
Phase   == Sending \cup {"idle", "marking"}

-----------------------------------------------------------------------------
(* Locks and reads *)

\* The conversations row is locked from ALLOCATE_SEQ to the end of the transaction.
HoldsConv(c, v) == /\ pc[c] \in {"insert", "bump", "commit", "conflict"}
                   /\ req[c].conv = v

ConvFree(v) == \A c \in Conn : ~ HoldsConv(c, v)

\* A member row is locked from INCREMENT_UNREAD to the end of the transaction.
RowFree(v, u) ==
  \A c \in Conn : ~ (pc[c] = "commit" /\ req[c].conv = v /\ u \in bumped[c])

\* The committed rows written under this sender and idempotency key.
WithKey(u, k) == {m \in messages : m.sender = u /\ m.key = k}

\* Another transaction has inserted this key and not committed yet.
KeyPending(c) == \E d \in Conn \ {c} : /\ pc[d] \in {"bump", "commit"}
                                       /\ UserOf[d] = UserOf[c]
                                       /\ req[d].key = req[c].key

\* Mutant: MARK_READ without GREATEST.
LastReported(i, j) == j

Larger(i, j)  == IF i >= j THEN i ELSE j
Smaller(i, j) == IF i <= j THEN i ELSE j

\* The seqs of other Users' committed Messages in v.
OthersSeqs(v, u) == {m.seq : m \in {n \in messages : n.conv = v /\ n.sender # u}}

-----------------------------------------------------------------------------
Init ==
  /\ live = [v \in Conv |-> TRUE]
  /\ nextSeq = [v \in Conv |-> 0]
  /\ messages = {}
  /\ members = [v \in Conv |-> User]
  /\ joins = [v \in Conv |-> [u \in User |-> 1]]
  /\ marker = [v \in Conv |-> [u \in User |-> 0]]
  /\ unread = [v \in Conv |-> [u \in User |-> 0]]
  /\ announced = [v \in Conv |-> <<>>]
  /\ pc = [c \in Conn |-> "idle"]
  /\ req = [c \in Conn |-> None]
  /\ seq = [c \in Conn |-> 0]
  /\ bumped = [c \in Conn |-> {}]
  /\ snap = [c \in Conn |-> None]
  /\ reply = [c \in Conn |-> None]

\* The handler of c returns; a transaction still open is rolled back with it.
Return(c) ==
  /\ pc' = [pc EXCEPT ![c] = "idle"]
  /\ req' = [req EXCEPT ![c] = None]
  /\ seq' = [seq EXCEPT ![c] = 0]
  /\ bumped' = [bumped EXCEPT ![c] = {}]
  /\ snap' = [snap EXCEPT ![c] = None]
  /\ reply' = [reply EXCEPT ![c] = None]

\* The send of c is answered with row r.
Answer(c, r, created) ==
  /\ pc' = [pc EXCEPT ![c] = "acked"]
  /\ reply' = [reply EXCEPT ![c] = [row |-> r, created |-> created]]
  /\ seq' = [seq EXCEPT ![c] = 0]
  /\ bumped' = [bumped EXCEPT ![c] = {}]
  /\ UNCHANGED <<req, snap>>

-----------------------------------------------------------------------------
(* A send, statement by statement *)

\* require_participant: anyone else is refused and nothing changes.
StartSend(c, v, k) ==
  /\ pc[c] = "idle"
  /\ live[v] /\ UserOf[c] \in members[v]
  /\ pc' = [pc EXCEPT ![c] = "find"]
  /\ req' = [req EXCEPT ![c] = [conv |-> v, key |-> k]]
  /\ UNCHANGED <<table, announced, seq, bumped, snap, reply>>

\* The fast path: a sequential retry is answered without touching next_seq.
FindExisting(c) ==
  /\ pc[c] = "find"
  /\ LET found == WithKey(UserOf[c], req[c].key) IN
       \/ \E r \in found : Answer(c, r, FALSE)
       \/ /\ found = {}
          /\ pc' = [pc EXCEPT ![c] = "allocate"]
          /\ UNCHANGED local
  /\ UNCHANGED <<table, announced>>

\* Mutant: the number is read and computed without the row lock.
AllocateUnlocked(c) ==
  LET v == req[c].conv IN
  /\ pc[c] = "allocate"
  /\ live[v]
  /\ seq' = [seq EXCEPT ![c] = nextSeq[v] + 1]
  /\ pc' = [pc EXCEPT ![c] = "insert"]
  /\ UNCHANGED <<table, announced, req, bumped, snap, reply>>

\* Mutant: the allocator returns the number before the increment.
AllocateBeforeIncrement(c) ==
  LET v == req[c].conv IN
  /\ pc[c] = "allocate"
  /\ ConvFree(v) /\ live[v]
  /\ seq' = [seq EXCEPT ![c] = nextSeq[v]]
  /\ pc' = [pc EXCEPT ![c] = "insert"]
  /\ UNCHANGED <<table, announced, req, bumped, snap, reply>>

\* ALLOCATE_SEQ waits for the conversations row; a deleted row ends the send.
AllocateSeq(c) ==
  LET v == req[c].conv IN
  /\ pc[c] = "allocate"
  /\ ConvFree(v)
  /\ \/ /\ live[v]
        /\ seq' = [seq EXCEPT ![c] = nextSeq[v] + 1]
        /\ pc' = [pc EXCEPT ![c] = "insert"]
        /\ UNCHANGED <<req, bumped, snap, reply>>
     \/ /\ ~ live[v]
        /\ Return(c)
  /\ UNCHANGED <<table, announced>>

\* Mutant: INSERT without the conflict clause.
InsertAlways(c) ==
  /\ pc[c] = "insert"
  /\ pc' = [pc EXCEPT ![c] = "bump"]
  /\ UNCHANGED <<table, announced, local>>

\* ON CONFLICT DO NOTHING waits out an uncommitted row under the same key.
InsertMessage(c) ==
  /\ pc[c] = "insert"
  /\ ~ KeyPending(c)
  /\ pc' = [pc EXCEPT ![c] = IF WithKey(UserOf[c], req[c].key) = {}
                             THEN "bump" ELSE "conflict"]
  /\ UNCHANGED <<table, announced, local>>

\* Mutant: the sender's own row is not excluded.
BumpEveryone(c) ==
  LET v == req[c].conv IN
  /\ pc[c] = "bump"
  /\ bumped' = [bumped EXCEPT ![c] = {u \in members[v] : marker[v][u] < seq[c]}]
  /\ pc' = [pc EXCEPT ![c] = "commit"]
  /\ UNCHANGED <<table, announced, req, seq, snap, reply>>

\* INCREMENT_UNREAD: every other Participant who has not read this far.
BumpUnread(c) ==
  LET v == req[c].conv IN
  /\ pc[c] = "bump"
  /\ bumped' = [bumped EXCEPT ![c] =
                  {u \in members[v] \ {UserOf[c]} : marker[v][u] < seq[c]}]
  /\ pc' = [pc EXCEPT ![c] = "commit"]
  /\ UNCHANGED <<table, announced, req, seq, snap, reply>>

Draft(c) == [conv |-> req[c].conv, seq |-> seq[c],
             sender |-> UserOf[c], key |-> req[c].key]

\* The number, the row and the badges become visible together.
CommitSend(c) ==
  LET v == req[c].conv IN
  /\ pc[c] = "commit"
  /\ nextSeq' = [nextSeq EXCEPT ![v] = seq[c]]
  /\ messages' = messages \cup {Draft(c)}
  /\ unread' = [unread EXCEPT ![v] = [u \in User |->
                  IF u \in bumped[c] THEN unread[v][u] + 1 ELSE unread[v][u]]]
  /\ Answer(c, Draft(c), TRUE)
  /\ UNCHANGED <<live, joins, members, marker, announced>>

\* Mutant: the allocation is committed although nothing was inserted.
RollbackKeepsNumber(c) ==
  /\ pc[c] = "conflict"
  /\ nextSeq' = [nextSeq EXCEPT ![req[c].conv] = seq[c]]
  /\ pc' = [pc EXCEPT ![c] = "reread"]
  /\ seq' = [seq EXCEPT ![c] = 0]
  /\ UNCHANGED <<live, messages, joins, members, marker, unread,
                 announced, req, bumped, snap, reply>>

\* Mutant: the loser is answered with the row it failed to insert.
RollbackAnswersDraft(c) ==
  /\ pc[c] = "conflict"
  /\ Answer(c, Draft(c), FALSE)
  /\ UNCHANGED <<table, announced>>

\* The loser of a race on one key gives its number back ...
RollbackSend(c) ==
  /\ pc[c] = "conflict"
  /\ pc' = [pc EXCEPT ![c] = "reread"]
  /\ seq' = [seq EXCEPT ![c] = 0]
  /\ UNCHANGED <<table, announced, req, bumped, snap, reply>>

\* ... and is answered with the winner's row, or an internal error without one.
RereadExisting(c) ==
  /\ pc[c] = "reread"
  /\ LET found == WithKey(UserOf[c], req[c].key) IN
       \/ \E r \in found : Answer(c, r, FALSE)
       \/ found = {} /\ Return(c)
  /\ UNCHANGED <<table, announced>>

\* deliver_message: fan out only what this call wrote, then acknowledge.
Acknowledge(c) ==
  LET r == reply[c] IN
  /\ pc[c] = "acked"
  /\ announced' = IF r.created
                  THEN [announced EXCEPT ![r.row.conv] = Append(@, r.row.seq)]
                  ELSE announced
  /\ Return(c)
  /\ UNCHANGED table

\* A failed statement, a lost database connection or a dead server process at
\* any point of a handler: PostgreSQL rolls an open transaction back.
Fail(c) ==
  /\ pc[c] # "idle"
  /\ Return(c)
  /\ UNCHANGED <<table, announced>>

-----------------------------------------------------------------------------
(* A read report, one UPDATE whose snapshot is older than its row lock *)

\* MARK_READ starts: the subqueries see what is committed now.
SnapshotMark(c, v, p) ==
  LET u == UserOf[c] IN
  /\ pc[c] = "idle"
  /\ live[v] /\ u \in members[v]
  /\ pc' = [pc EXCEPT ![c] = "marking"]
  /\ req' = [req EXCEPT ![c] = [conv |-> v, key |-> None]]
  /\ seq' = [seq EXCEPT ![c] = p]
  /\ snap' = [snap EXCEPT ![c] = [newest |-> nextSeq[v],
                                  others |-> OthersSeqs(v, u),
                                  joins |-> joins[v][u]]]
  /\ UNCHANGED <<table, announced, bumped, reply>>

\* It locks the member row, reads that row afresh and only that row, and commits.
\* A row deleted since the snapshot is not updated, even when re-inserted.
ApplyMark(c) ==
  LET v == req[c].conv
      u == UserOf[c]
      s == snap[c]
      m == Larger(marker[v][u], Smaller(seq[c], s.newest))
  IN
  /\ pc[c] = "marking"
  /\ RowFree(v, u)
  /\ IF u \in members[v] /\ joins[v][u] = s.joins
     THEN /\ marker' = [marker EXCEPT ![v][u] = m]
          /\ unread' = [unread EXCEPT ![v][u] =
                          Cardinality({i \in s.others : i > m})]
     ELSE UNCHANGED <<marker, unread>>
  /\ Return(c)
  /\ UNCHANGED <<live, nextSeq, messages, joins, members, announced>>

-----------------------------------------------------------------------------
(* What the group operations do to these tables; GroupMembership has who may *)

\* INSERT_MEMBER_WITH_ROLE: a fresh row starts from the column defaults.
Join(v, u) ==
  /\ live[v] /\ u \notin members[v]
  /\ joins[v][u] < MaxJoins
  /\ members' = [members EXCEPT ![v] = @ \cup {u}]
  /\ joins' = [joins EXCEPT ![v][u] = @ + 1]
  /\ marker' = [marker EXCEPT ![v][u] = 0]
  /\ unread' = [unread EXCEPT ![v][u] = 0]
  /\ UNCHANGED <<live, nextSeq, messages, announced, pc, local>>

\* DELETE_MEMBER waits for a send that has incremented the row.
Remove(v, u) ==
  /\ u \in members[v]
  /\ RowFree(v, u)
  /\ members' = [members EXCEPT ![v] = @ \ {u}]
  /\ UNCHANGED <<live, nextSeq, messages, joins, marker, unread,
                 announced, pc, local>>

\* DELETE_CONVERSATION cascades to the memberships and the Messages.
Dissolve(v) ==
  /\ live[v]
  /\ ConvFree(v)
  /\ live' = [live EXCEPT ![v] = FALSE]
  /\ nextSeq' = [nextSeq EXCEPT ![v] = 0]
  /\ messages' = {m \in messages : m.conv # v}
  /\ members' = [members EXCEPT ![v] = {}]
  /\ UNCHANGED <<joins, marker, unread, announced, pc, local>>

-----------------------------------------------------------------------------
\* The statements of a handler in progress, in the order the code runs them.
Step(c) == \/ FindExisting(c)
           \/ AllocateSeq(c)
           \/ InsertMessage(c)
           \/ BumpUnread(c)
           \/ CommitSend(c)
           \/ RollbackSend(c)
           \/ RereadExisting(c)
           \/ Acknowledge(c)
           \/ ApplyMark(c)

\* A reported position may lie beyond the stream: the clamp is what bounds it.
Reported(v) == 0 .. (nextSeq[v] + 1)

Next ==
  \/ \E c \in Conn : Step(c) \/ Fail(c)
  \/ \E f \in Sends : StartSend(f[1], f[2], f[3])
  \/ \E f \in Marks : \E p \in Reported(f[2]) : SnapshotMark(f[1], f[2], p)
  \/ \E f \in Moves : Join(f[1], f[2]) \/ Remove(f[1], f[2])
  \/ \E v \in Closures : Dissolve(v)

Spec == Init /\ [][Next]_vars

-----------------------------------------------------------------------------
(* Properties *)

TypeOK ==
  /\ live \in [Conv -> BOOLEAN]
  /\ nextSeq \in [Conv -> Nat]
  /\ messages \subseteq Row
  /\ members \in [Conv -> SUBSET User]
  /\ joins \in [Conv -> [User -> Nat]]
  /\ marker \in [Conv -> [User -> Nat]]
  /\ unread \in [Conv -> [User -> Nat]]
  /\ announced \in [Conv -> Seq(Nat)]
  /\ pc \in [Conn -> Phase]
  /\ req \in [Conn -> Request \cup {None}]
  /\ seq \in [Conn -> Nat]
  /\ bumped \in [Conn -> SUBSET User]
  /\ snap \in [Conn -> Snap \cup {None}]
  /\ reply \in [Conn -> Reply \cup {None}]

\* Messages v holds for u to see and has not read: sent by others, past the marker.
Unseen(v, u) == {i \in OthersSeqs(v, u) : i > marker[v][u]}

\* The committed Sequence Numbers of a Conversation are exactly 1 .. next_seq and
\* no two Messages share one: rolled back sends leave no hole (ALLOCATE_SEQ inside
\* the transaction of insert_message_idempotent).
GaplessStream ==
  \A v \in Conv :
    /\ {m.seq : m \in {n \in messages : n.conv = v}} = 1 .. nextSeq[v]
    /\ \A m, n \in messages : m.conv = v /\ n.conv = v /\ m.seq = n.seq => m = n

\* However a send is retried or raced, over all Conversations one idempotency key
\* of one sender has written at most one Message.
OneMessagePerKey ==
  \A m, n \in messages : m.sender = n.sender /\ m.key = n.key => m = n

\* A badge never shows more than there is to read: no retry, rollback, re-join or
\* late increment inflates unread_count.
UnreadNeverInflated ==
  \A v \in Conv : \A u \in members[v] : unread[v][u] <= Cardinality(Unseen(v, u))

\* The clamp of MARK_READ: an over-reported position can not move the marker past
\* the stream, where INCREMENT_UNREAD's guard would skip every later Message.
MarkerNeverAheadOfStream ==
  \A v \in Conv : \A u \in members[v] : marker[v][u] <= nextSeq[v]

\* The Read State of a Participant stays within the stream: the badge counts no
\* Message twice and the Read Marker is at a Message that was sent.
ReadStateWithinStream == UnreadNeverInflated /\ MarkerNeverAheadOfStream

\* repository.rs says of INCREMENT_UNREAD that it runs in the transaction of the insert, "so
\* the count and the stream can never disagree".  It fails, even for a Participant who has
\* been one from the start: MARK_READ counts on a snapshot older than its row lock, and
\* overwrites the increment of a send that commits in between.
UnreadMatchesStream ==
  \A v \in Conv : \A u \in members[v] :
    joins[v][u] = 1 => unread[v][u] = Cardinality(Unseen(v, u))

\* The row a send is answered with carries the sender's own key and is stored, as
\* long as its Conversation exists; no answer names a row that was rolled back.
AnswerIsStored ==
  \A c \in Conn : pc[c] = "acked" =>
    LET r == reply[c].row IN
      /\ r.sender = UserOf[c] /\ r.key = req[c].key
      /\ live[r.conv] => r \in messages

\* A Message is fanned out at most once, whatever is retried, and nothing is
\* fanned out that the Conversation does not hold.
AnnouncedOnce ==
  \A v \in Conv :
    /\ \A i, j \in DOMAIN announced[v] : announced[v][i] = announced[v][j] => i = j
    /\ live[v] => \A i \in DOMAIN announced[v] : announced[v][i] \in 1 .. nextSeq[v]

\* What a send makes known, to its sender by the answer and to the others by the
\* fan-out of deliver_message, is what the Conversation holds, and is made known once.
AnswersAreFaithful == AnswerIsStored /\ AnnouncedOnce

\* While a membership lasts, no report (stale, replayed, out of order) moves its
\* read position backwards.
ReadPositionOnlyAdvances ==
  [][\A v \in Conv : \A u \in members[v] \cap members'[v] :
       joins'[v][u] = joins[v][u] => marker'[v][u] >= marker[v][u]]_vars

-----------------------------------------------------------------------------
(* Refinement: what the committed tables say is a ConversationLog *)

EntryAt(v, i) ==
  LET m == CHOOSE n \in messages : n.conv = v /\ n.seq = i
  IN  [sender |-> m.sender, key |-> m.key]

StoredLog == [v \in Conv |-> [i \in 1 .. nextSeq[v] |-> EntryAt(v, i)]]

Log == INSTANCE ConversationLog
         WITH Sender <- User, log <- StoredLog, open <- live

\* Every interleaving of the transactions is a behaviour of the append-only,
\* once-per-key log: appends and closures are atomic and nothing else is visible.
ImplementsLog == Log!Spec
=============================================================================
