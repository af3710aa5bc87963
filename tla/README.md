# A TLA+ verification of jiuyue

jiuyue is a chat service: a Rust server (HTTP and WebSocket, PostgreSQL behind
it), a TypeScript client that keeps what it has been sent, and a Tauri shell
around the client. This directory holds TLA+ models of its logic, TLC
configurations that check them on small instances, and TLAPS proofs of what
matters most for instances of any size. Terms with capitals (Conversation,
Participant, Device, Sequence Number, Sync Cursor, Read Marker) are those of
`CONTEXT.md`.

    tlc -workers 2 -config MCMessageStream.cfg MCMessageStream.tla
    tlapm MessageStreamProofs.tla

`PROJECT.json` maps every definition to the source lines it models, and lists
the runs, the mutated definitions each property was seen to reject (operators
such as `Touch_writes_back_what_was_read`, next to what they mutate), the
findings, the hazards of the code and the theorems.

## 1. The system and its parts

| Part | Source | State it keeps | What it does |
|---|---|---|---|
| Message store | `crates/chat/src/{service,repository}.rs`, the chat migrations | tables `conversations` (`next_seq`), `messages`, `conversation_members` (`unread_count`, `read_marker_seq`) | idempotent send, Sequence Numbers, badges, read reports |
| Group membership | the same, `permission.rs` | `conversation_members.role` | create, invite, remove, leave, change Role, transfer, announce, dissolve, and telling everyone |
| Direct Conversations, history, lists | the same | `direct_key`, pages | open a Conversation of two, page through history, list, receipts |
| Registry and liveness | `crates/realtime/src/{registry,liveness,connection}.rs` | connections per User, heartbeats missed | register, unregister, deliver, sweep |
| Presence | `presence.rs` | last-seen checkpoint batch | online and offline fan-out, last-seen |
| Session | `session.rs`, `replay.rs`, `cursor.rs` | connection sequence, replay ring, pending Sync Cursors | opening frames, forwarding, Resume, cursor checkpoint |
| Typing | `typing.rs`, `stores/typing.ts` | entries, deadlines | ephemeral indicators |
| Accounts | `crates/auth/src/{service,repository,account_tokens,password}.rs` | users, sessions, one-time tokens, hashing permits | register, log in, refresh, verify, reset, revoke |
| Attempt limiter | `crates/auth/src/limiter.rs` | failures and penalties per source | throttle, lock out |
| OAuth | `crates/auth/src/oauth` | states, identities, onboarding sessions | start, link, call back, resume, choose a handle |
| Input | `validation.rs`, the checks of the services, CHECK constraints | none of their own | trim, fold, limit, refuse |
| HTTP server, store | `crates/{server,store}` | configuration, migrations, pool | start, routes, gates |
| Realtime socket and store | `frontend/src/api/ws.ts`, `stores/realtime.ts` | the socket, timers, sequences consumed | reconnect with backoff, watchdog, wake-up handshake, gap detection |
| Chat store | `stores/chat.ts`, `stores/chat-messages.ts` | Messages, cursors, bubbles, badges | apply events, load pages, repair forward, send and retry |
| Auth store, route guard | `stores/auth.ts`, `router`, `main.ts` | the profile, the tokens, the limited token | restore, check and refresh, sign in and out, redeem links |
| Desktop shell | `desktop` | windows, tray, last notification | hide, open Call windows, notify |
| Contract, views, deployment | `crates/contract`, `frontend/src/views`, `deploy` | none that matters here | wire types, rendering, packaging |

How they interact. A client frame is handled by its connection's task, which
calls the chat service; the service runs SQL statements, some of them in a
transaction, at READ COMMITTED. After the commit the *sender's* task asks the
registry to deliver the event, which puts it with `try_send` in the bounded
control queue of each audience connection; that connection's task numbers it,
keeps it in its replay ring and hands it to its writer through a bounded send
queue. An HTTP route does the same after its service call. The client applies
envelopes one by one, answers the first one of a socket with `Resume`, and pulls
what it missed over HTTP by Sequence Number. Account requests share the database
and the hasher's semaphore. Tasks share the database, the registry, the typing
directory, the limiter's map and the last-seen batch, and nothing else.

What is hard about it, and what each part has to get right:

* **Message store.** Two connections retry one idempotency key; a transaction
  fails between two statements; a send waits for a row lock under a statement
  snapshot that ages; a User leaves and returns with requests in flight. The
  numbers must have no hole and no reuse, a key must write once, badges must not
  invent Messages, read positions must not go back.
* **Group membership.** Roles and counts are read outside the transaction that
  acts on them, and the audience of a notice apart from the change it tells of.
  There must be one owner at all times, no membership without its Conversation,
  no handler may hang on the row locks, and screens must follow.
* **Registry, liveness, presence.** Registration, opening sends, the loop, the
  sweep and the teardown of one connection interleave with those of the other
  Devices of its User; sends block on a half-open link. Nobody may stay shown
  online, or be announced twice, a dead peer must stop counting, and a departure
  must be stamped whatever other flush is under way.
* **Session and client.** Events overtake each other, are dropped by a full
  queue or die with their socket; loads and repairs race live events; timers,
  hints and close events of old sockets meet. What was missed must be repaired,
  and a bubble must not lie about its Message. A session check is three requests,
  and its answers meet whoever has signed in or out meanwhile.
* **Accounts.** Resets and revocations race logins; links are issued and redeemed
  concurrently; a cancelled request leaves its hash running; the limiter's
  verdict is read before the attempt is recorded; a callback of a new identity
  races another one.
* **Processes.** Two builds migrate one database; windows load, close and hear
  each other's events.

The `hazards` of `PROJECT.json` are this list at the level of source lines.

## 2. The modules

| Module | Role |
|---|---|
| `ConversationLog` | abstract: an append-only log per Conversation, each sender's key at most once |
| `MessageStream` | the message store, statement by statement; implements `ConversationLog` |
| `GroupRoles` | abstract: single role changes that keep exactly one owner |
| `GroupMembership` | the membership handlers with their row locks; implements `GroupRoles` |
| `Presence` | registry, connection life cycle, sweep and presence fan-out |
| `Delivery` | fan-out, session, socket, realtime store and chat store of one Device |
| `Account` | password accounts: sessions, links, the bounded hasher |
| `OAuth` | third-party sign-in |
| `AttemptLimiter` | the limiter's map of sources |
| `Typing` | the typing directory, its throttle and sweep, and the watchers' screens |
| `LastSeen` | the presence checkpoint |
| `SyncCursors` | cursor reports of one Device over its connections |
| `DirectConversations` | `open_direct` against itself |
| `HistoryPages` | walks over pages in both directions |
| `GroupNotices` | audiences, notices and the panels built from them |
| `Replay` | the replay ring and the client's gap arithmetic |
| `Forms`, `ProviderIdentity` | what is typed, or asserted by a provider, up to its table |
| `Requests` | requests that read in several statements |
| `Startup` | environment, migrations, services, port |
| `DesktopShell` | windows, Calls, tray, notifications |
| `Socket` | one tab's WebSockets and timers |
| `Outbox` | bubbles, retries, badges and read reports of one User's tabs |
| `AuthTab` | who a tab is signed in as |
| `MCServices` | the sixteen modules from `AttemptLimiter` on, side by side |
| `MC...` | the other instances TLC checks |
| `...Proofs` | the theorems: `MessageStreamProofs`, `GroupMembershipProofs`, `RealtimeProofs` (`Presence` and `Delivery`), `AccountProofs`, `OAuthProofs`; `ServerProofs` and `OutboxProofs` hold the lemmas that `ServicesProofs` puts together for `MCServices` |
| `Filtering` | what `filter` and `collect` leave of a list, by counting instead of recursion |

### MessageStream

One step is one SQL statement of a connection task: `StartSend`, `FindExisting`,
`AllocateSeq`, `InsertMessage`, `BumpUnread`, `CommitSend`, `RollbackSend`,
`RereadExisting` and `Acknowledge` follow `insert_message_idempotent` and
`deliver_message`; `SnapshotMark` and `ApplyMark` are the two halves of the
`MARK_READ` statement, before and after it waits for the member row, because at
READ COMMITTED the count is taken on the snapshot and the row is written later.
`Join`, `Remove` and `Dissolve` are what membership changes do to these tables;
`Fail` is a statement that errs or a process that dies.

The table variables hold committed rows only. What a transaction wrote and has
not committed is in the locals of its task (`seq`, `bumped`, `req`), and which
lock it holds follows from its `pc`: `HoldsConv` from `ALLOCATE_SEQ` to the end,
`RowFree` for the member rows. The unique constraint on `(sender_id,
client_msg_id)` makes an insert wait for an open transaction with the same key
(`KeyPending`). Bodies, timestamps and ULIDs are left out.

### GroupMembership and GroupNotices

`GroupMembership` has one task per request. `Authorize`, `CountMembers`,
`CheckInvitee` and `ReadTarget` are the reads a handler decides on;
`InsertMember`, `DeleteMember`, `SetMemberRole`, `DemoteOwner`/`PromoteOwner`/
`CommitTransfer` and `LockGroup`/`LockNextRow`/`CommitDissolve` are its writes,
and `AllocateSeq`/`ScanMembers`/`CommitSend` the locks of a send beside them.
Statements that lock many rows lock them one at a time, in any order
(`ScanOrders`), so circular waits occur and `DetectDeadlock` is PostgreSQL
aborting a transaction of a cycle. The guards inside the statements
(`role <> 'owner'`, the foreign key, the row found or not) are in the actions.

`GroupNotices` is the tail of the same handlers: a request writes, then reads its
audience, then delivers its notices one by one, then reads the panel it answers
with. Roles are reduced to the founder and the others there. `tangled` remembers
whether any two requests overlapped, or one failed half way.

### Presence and LastSeen

One step of `Presence` runs a connection task from one `await` to the next:
`Register`, `TellOnline`, `OpeningPing`, `SendSyncState`, then the branches of
the `select!` loop (`Beat`, `ForwardEvent`, `ReadClose`, `Heartbeat` with its
`Sweep`), then `Unregister`, `StoreLastSeen`, `TellOffline`. `Silence`, `Shut`
and `BreakWriter` are the peer, the link and the writer task. `told[u]` is what
the last broadcast said of `u` to one observer. `LastSeen` opens up
`StoreLastSeen`: every checkpoint reads the shared buffer into a batch, writes it
with an `await` and clears it on success, so several are under way at once;
`excused` marks a User who is gone and whose own write failed or was cut off since.

### Delivery, Replay, Socket, Outbox

`Delivery` follows the Messages of one Conversation, numbered by
`MessageStream`, on their way to one Device that only reads. Server: `Store`,
`FanOut` (the registry's `deliver` into the control queue, in any order, dropping
when it is full), `OpenSession`, `Forward`, `AnswerResume`. Socket: `Connect`,
`Disconnect`, `Restart`. Client: `TakePing`, `TakeSyncState`, `TakeResync`,
`TakeMessage` are `applyEnvelope` with everything the chat store's listeners do
in the same turn; `OpenConversation`, `LoadRead`, `LoadApply` are the history
page; `BeginRepair`, `RepairRead`, `RepairApply` the forward walk; `RequestFails`
an HTTP error. A handshake names either zero or a position of an earlier socket,
and `Plan` is what `resume_plan` makes of it.

The replay ring is not in it, because a socket delivers in order and drops happen
before an envelope has a connection sequence: a client of one socket never sees a
gap in `s`. `Replay` takes the ring apart from it, with a client that may lose
frames, and checks the arithmetic of both sides against each other. `Socket` is
`RealtimeSocket` itself: the WebSockets a tab has opened, which of them it still
holds, both timers and the token. `Outbox` has what `Delivery` leaves out: own
sends, acknowledgements, rejections, retries, badges and reports, for the tabs
of one User against the session that serves each. A statement may fail before the
commit or after it: `send_message` and `mark_read` read their audience last, and
where that fails nobody is told of what is stored (`Published`, `Unaware`) and a
send is rejected all the same; `Store` of `Delivery` has the same branch.

### Account, OAuth, AttemptLimiter

`Account` runs each request statement by statement; `pc` names the statement
awaited next. `StartHash`, `HashDone`, `OrphanDone` are the semaphore and the
blocking pool, `RetireSnapshot`, `RetireRows`, `IssueCommit` the three moments of
the transaction that retires older links and inserts one, `Redeem` the consuming
UPDATE, `Touch` and `RevokeAll` the UPDATEs that race a revocation. `Abandon`
drops a request at its await (the client hung up, a statement failed), `Crash`
all of them. A password is the number of the write that stored it; `seen`,
`over`, `effects` and `revokedTo` are ghosts that remember which rows a statement
saw.

`OAuth` does the same for `start`, `callback`, `resume` and the choice of a
handle. `Bind` and `CreateAccount` are the two statements that can meet a
conflict, `MintPending` the upsert of the onboarding session, `RegisterElsewhere`
the rest of the service. The provider is external: `Exchange` picks an identity.

`AttemptLimiter` keeps instants as what the code compares them for (ages and
time left) and `last_seen` as an order (`colder`) of the `tracked` sources,
which is all `make_room` reads of it.

### AuthTab

`AuthTab` is the client's side of a session. `Accept`, `ProfileArrives`,
`ProfileRefused`, `TokensArrive`, `SessionRefused` and `CheckGivenUp` take
`ensureSession` apart; a reload (`LoadPage`) runs it before the guard, and
`FetchWhoAmI` beside whatever the person does. The forms, callbacks and links
follow one at a time, with the server's effect and the arrival of the answer
apart. Other tabs write the same `localStorage` (`OtherTab`). `crossed` remembers
that an answer met tokens it was not asked with.

### The others

`Typing`, `SyncCursors`, `DirectConversations`, `HistoryPages`, `Requests`,
`Startup` and `DesktopShell` have one action per handler, statement, timer or
window event, named after the function they model. `Forms` and
`ProviderIdentity` are mostly operators: a text is a sequence of a handful of
letters (one of them three bytes long and outside every alphabet), each
validation the function on such texts it is in the code, and the rows that result
are held against the CHECKs and the unique indexes of the migrations.

Constants are assumed to be what the code makes of them and no more: capacities
and limits are numbers (a queue has room for one event, a page for one row), and
no value stands for itself and for its absence (`Nobody`, `None`). Four
assumptions also relate numbers of the source: `LimiterAssumption` (a throttle is
no longer than a lockout, a lockout no longer than the longest),
`TypingAssumption` (the throttle is shorter than the indicator's life),
`FormsAssumption` (a handle has a letter and is no longer than a display name: 3,
32 and 64 in `validation.rs`) and `SuffixAssumption` (a suffix of `SUFFIX_DIGITS`
= 6 to `MAX_SUFFIX` = 10 letters is at most one short of the shortest handle and
leaves room in the longest; hence the padding in `generated_username` is never
reached and is left out).

## 3. What the runs check

| Run | Instance | Shows |
|---|---|---|
| `message_stream` | 3 connections of 2 Users, 2 Conversations, 2 keys | seven properties below |
| `group_membership` | 3 Users, 3 tasks, every operation | one owner, no orphans, implements `GroupRoles`, every handler ends |
| `presence` | two Devices of one User | four properties below |
| `delivery` | 3 Messages, 2 sockets, 1 failure or restart | four properties below |
| `account` | one User, 2 requests, 1 session, 2 links, 1 permit | seven properties below |
| `oauth` | 3 accounts, 2 identities, 2 addresses, 3 states, 2 requests | four properties below |
| `services` | sixteen modules, one moving per behaviour | nine properties below |
| `leave_dissolves` | a member leaving on two Devices | *fails*: the owner's group is dissolved |
| `ghost_online` | as `presence` | *fails*: a registration outlives its task |
| `reset_survivor` | as `account` | *fails*: a session of the old password survives a reset |
| `oauth_verifier` | as `oauth` | *fails*: the exchange presents zeros for the verifier |
| `lost_increment` | `message_stream` without comings and goings | *fails*: a badge misses a Message |

**message_stream.** `GaplessStream` (numbers are exactly 1..`next_seq`),
`OneMessagePerKey`, `ReadStateWithinStream` (no badge counts more than there is,
no marker passes the stream), `AnswersAreFaithful` (an answer names a stored row
of the sender's own key, and a Message is announced once),
`ReadPositionOnlyAdvances`, `ImplementsLog`. Two Devices of alice race one key in
one Conversation and across two, bob reads, leaves and comes back, the
Conversation may be dissolved. Three connections are needed for a key raced by
two and read by a third; two keys for two Messages in one stream; `MaxJoins` = 2
for a former membership's requests to meet the new one; a mark may also
over-report by one.

**group_membership.** `ExactlyOneOwner`, `NoOrphanMembership`, `ImplementsRoles`,
`HandlersEnd`. `MCRequests` gives every operation a caller whose Role can be
stale: the founder transfers while re-ranking elsewhere, a member leaves while
being promoted. Three Users are the minimum of a group (`MIN_GROUP_MEMBERS`). A
task serves requests again and again, so the history is unbounded though the
state is not. Deadlock is checked here.

**presence.** `ShownOnlineIsReachable`, `OneAnnouncer`, `DeadPeersAreForgotten`.
Users do not interact here, so one is enough, and the theorems show two Devices
to be no restriction for the safety properties. `Beats` = 1 and `LinkRoom` = 2
let both the sweep and the blocked send happen. `DeadPeersAreForgotten` exempts a
loop that waits for room in a send queue which events filled before the deadline
(`Overrun`): the sweep is a branch of that very loop, and only the link's own
failure ends the wait.

**delivery.** `ResumeRepairs`: after a reconnect, a client that had consumed
anything repairs. `RepairCatchesUp`: a repair fills every hole up to what was
stored when it began. `FannedOutIsShown`: what is fanned out over an open socket
is shown without any repair unless the queue was full; and what a full
queue dropped, which leaves no gap in the connection sequence, is fetched when a
later Message shows the gap in the Sequence Numbers. Pages of one Message make
walks of several pages; three Messages give a hole with a Message on either side;
`ControlRoom` = 1 makes the queue overflow; the second socket is what a reconnect
needs. `MaxFaults` counts HTTP failures and server restarts together.

**account.** `OneEffectPerLink` (redeemed by however many, a link has one effect,
of its own purpose, for its own account), `OnlyOverlappingIssuesCoexist`,
`ResetEndsEarlierSessions` (the part of the comment on `reset_password` that does
hold), `HashesAreBounded`, `RevokedIsFinal`, `RequestsFinish`. One session row and
two links are enough for a race between any two requests, and with one permit the
second request always waits; accounts do not meet each other, so one User is
enough. Rows are not reused; expired and spent ones stay.

**oauth.** `SignsInTheOwner`, `SecretsWorkOnce`, `OnboardingIsGated`. Three
accounts give an identity's owner, an account that links it and one registered
with its address. Accounts, requests and states are symmetric.

**services.** The modules share no state, so `MCServices` picks one and moves only
it: TLC explores the sum of the state spaces. Its invariants are conjunctions of
those of the modules:

| Property | Module | States |
|---|---|---|
| `ScreensAgree` | `Typing`, `GroupNotices`, `Outbox`, `AuthTab` | an indicator is shown exactly while the directory holds it, unless its event was dropped; after requests that did not overlap exactly the Participants see the group, and no screen counts fewer of them than there are (it may count more: section 5); a Message is stored once, a bubble shown as sent is stored, one offered for sending again has no attempt left, and an undisturbed badge equals the row's count; the profile and the tokens of a tab are of one account, and a reload does not send a session that works to the login form |
| `NothingRecordedIsLost` | `LastSeen`, `SyncCursors` | a departure is stamped unless its own write failed; what a live connection reported is stored or buffered, and no cursor passes its Device |
| `PairsShareOneConversation` | `DirectConversations` | two peers are always answered one id, which is in both lists |
| `RepairsLeaveNoHole` | `HistoryPages`, `Replay` | page boundaries and replays leave nothing out |
| `FormsMeetTheirTables` | `Forms`, `ProviderIdentity` | what passes validation passes the CHECKs; a retyped text finds its row; only vouched addresses count as verified |
| `AnswersWereTrue` | `Requests` | an answer of several statements holds nothing that was never true and leaves out nothing that always was |
| `ProcessesAreSound` | `Startup`, `DesktopShell`, `Socket` | a process serves on its own whole schema and complete settings; Calls keep their windows; a tab keeps one line |
| `StoredClocksNeverGoBack` | `AttemptLimiter`, `LastSeen`, `SyncCursors` | penalties only elapse; last-seen and cursors never go back |

`ScreensAgree` says nothing of a group whose requests overlapped or failed
(`tangled`), nor of a tab that an answer met with other tokens (`crossed`): there
the screens do go wrong, as section 5 describes. Nor does it say that a bubble
shown as failed is not stored, because it may be.

Bounds are chosen per module so that its limit is met: two tracked sources of
three (`MaxTracked`), two events in a watcher's queue, two checkpoints at once,
three openers for two ids, pages of 2 and 3 of six Messages, a group cap of 3, a
ring of 2 for six frames, lengths of 2 to 5 letters, three binaries of which two
disagree on a migration, three WebSockets, one trouble for two Messages, two
accounts and two sessions in a tab.

No deadlock check where the system rests when nothing is left to do: a dissolved
store, a node without connections, spent links, a client that has everything
within the bounds.

Bounds are all CONSTANTS, named as such where they are declared: `Sends`, `Marks`,
`Moves`, `Closures`, `MaxJoins` (`MessageStream`), `Requests` (`GroupMembership`),
`Ends` and one life per connection (`Presence`), `MaxMessages`, `MaxConn`,
`MaxFaults` (`Delivery`), the rows of `Session`, `Link`, `State`, `MaxMints`, and
in the services `MaxRecorded`, `Instants`, `Position`, `MaxNewest`, `MaxRequests`,
`MaxSent`, `MaxLost`, `MaxAccounts`, `Varied`, `MaxOpened`, `MaxNoticed`,
`MaxLogins`, `MaxSockets`, `MaxFrames`, `MaxPosts`, `MaxTroubles`, `MaxChanges`.

### Fairness

* `GroupMembership`: strong fairness of each handler's statements and weak
  fairness of deadlock detection. The server spawns a task per request, and
  PostgreSQL queues lock waiters, so a lock that is free again and again is granted.
* `Presence`: weak fairness of each connection task, strong of reading the
  close: `select!` polls ready branches in random order and the heartbeat timer
  never stops.
* `Delivery`: weak fairness of the server's tasks, of the client's socket (which
  also reopens by itself) and of HTTP answers. Nothing forces a Message, a
  failure or the opening of a Conversation. The last socket of an instance is not
  cut: what is claimed of it is claimed as long as it is open.
* `Account`: weak fairness of each request's next statement and of a hash on the
  blocking pool; strong fairness of taking a permit (tokio's semaphore queues its
  waiters) and of the UPDATE that waits for row locks (PostgreSQL queues them).
* The other modules need none: they have safety properties only.

## 4. What is proved

TLAPS proves, for every value of the constants that satisfies the named
assumption of the module (sets of any size; only those that are counted, `User` of
`GroupMembership`, `Fellow` of `GroupNotices` and `Req` of `Account`, are assumed
finite):

* **MessageStreamProofs.** `TypeCorrect`, `StreamIsGapless`, `SendIsIdempotent`.
  Gaplessness is not inductive by itself: a commit adds number `seq[c]`, so the
  invariant says that whoever is between `ALLOCATE_SEQ` and its commit holds the
  conversations row alone (`OneLockHolder`) and that its number is still the next
  one (`NumberIsNext`). Likewise a commit keeps keys unique because an inserted
  row has no committed twin and no rival in flight (`DraftIsNew`), which is the
  unique constraint's waiting rule. One lemma per part and per step kind; only
  `CommitSend` and `Dissolve` change the tables the two theorems speak of.
  For the Read State, `BadgesAreHonest` and `PositionsOnlyAdvance`. A commit adds
  one to the badges of the rows it has locked, so those rows must still be there
  and their markers below its number (`NobodyOutlivesIt`, `BumpedIsBehind`); a
  mark writes a count and a position it read earlier, so its snapshot must lie
  within the stream it has become (`SnapshotIsPast`).
  For the answers, `AnswersAreTrue` and `LogRefinement` (`Spec =>
  ImplementsLog`). What a handler still owes the fan-out is untold so far
  (`OwedIsUntold`) and owed by nobody else (`OwedByOne`); a retry that finds the
  row owes nothing. Committed rows then are the abstract log: a commit appends, a
  dissolution ends it, everything else stutters.
* **GroupMembershipProofs.** `TypeCorrect`, `OneOwnerAlways`, `NoOrphans` and
  `Refinement` (`Spec => ImplementsRoles`). A transfer is two updates, so the
  invariant follows it: from `DEMOTE_OWNER` to the commit it has locked the
  owner's row and that row still says owner (`TransferHolds`), locks are exclusive
  (`LocksExclusive`), and a dissolution has locked or will lock every membership
  (`CascadeCovers`), so that no other task changes what it is about to delete.
  `Serving` ties a task's position to its request. The refinement then maps
  each of the writes to a step of `GroupRoles` and everything else to a stutter.
* **RealtimeProofs.** Of `Presence`, `PresenceTypeCorrect` (which bounds how far
  past its deadline a peer is kept), `AnnouncedByOne`, `OnlineIsReachable`. The
  invariant adds that a task is registered from `register` to `unregister`
  (`Registered`) and that one waiting in its loop has a peer within the deadline
  (`WithinDeadline`).
  Of `Delivery`, `QueuesAndPositionsBounded`: the queues keep to their
  capacities and every load and repair asks from a Message of the stream. It needs
  that a repair starts at a Message of the list, that is, that a non-empty set of
  numbers has a least one, which is taken from well-founded induction.
* **AccountProofs.** `AccountTyped`, `LinkWorksOnce`, `RetiredByTheNext`,
  `ResetReachesEarlierSessions`, `BoundedHashing`, `RevocationIsFinal`. The
  invariant adds that the account of a request exists (`KnownUsers`), that the row
  a request holds is the row it read (`RowsInHand`), that every permit is free,
  with a request or with an orphaned hash (`PermitsAreKept`), what the issue of a
  link can have seen (`WhatIssuesSee`), and that a link with an effect is spent
  (`EffectsAreSpent`): two redemptions cannot both be between the UPDATE and its
  effect, because the first one spent the link in the statement itself.
* **OAuthProofs.** `SignInTyped`, `OwnerSignsIn`, `SecretsServeOnce`,
  `HandleBeforeSession`. What a callback holds is its own: the owner it read is the
  one bound or nobody yet (`OwnIdentity`), the token it asks for is the one minted
  for its account (`OwnToken`); both survive the other callbacks because the
  identity's primary key makes the binding final.
* **ServicesProofs.** Each invariant of the `services` run, and its action
  property, for instances of any size: `ServicesTypeCorrect`, `ScreensStayTrue`,
  `RecordsReachTheirTable`, `PairsMeetOnce`, `RepairsAreWhole`,
  `FormsFitTheirTables`, `AnswersStayTrue`, `ProcessesStaySound`,
  `ClocksOnlyAdvance`. A step of the composition is a step of each component or
  leaves it as it is (`EachMovesAlone`), so the invariant is the conjunction of
  one inductive invariant per component. `Forms` and `ProviderIdentity` write the
  same accounts; which of their invariants holds depends on `moving`
  (`AccountsInv`).

The inductive invariants of the components, and why the properties need them:

* `AttemptLimiter`: what a record owes was set by its last lockout (`Owing`), and
  the order of the tracked sources is one (`SeenInOrder`), else dropping the
  coldest might drop a penalty or none.
* `LastSeen`, `SyncCursors`, `DirectConversations`: a departure without its stamp
  has a write under way; a flush carries what its buffer holds; keys are pairs,
  members are of the key, and an opener holds the row it was answered.
* `HistoryPages`: what a walk has got is one run of numbers that ends at its
  cursor (`OneRun`). `PagesAreSized` and the facts about the highest and lowest
  rows of a run tie a page to it.
* `Replay`: a hole is refused, lost twice, or its filling is under way
  (`HolesAreKnown`), and nothing on the wire is older than the first envelope
  applied (`NothingOlder`).
* `Typing`: the holder of the lock delivers what it recorded (`OneSignal`), and a
  watcher who missed nothing has the newest event last in the queue or on the
  screen (`WatchersFollow`).
* `GroupNotices`: as long as requests did not overlap, only one runs, and its
  position says what is still to be told (`Stage`): once the notices left are
  delivered, exactly the Participants see the Group (`Heals`). `Tallied` follows
  the counts through the same positions: the Conversation a screen still awaits
  sets its count, each join it has yet to hear of adds one (`Joiners`), and a
  departure takes one from a count that has one too many (`Counts`).
* `Requests`: what is true now was true since the request was made, and what held
  all along still does (`Witnessed`); what a request has got so far lies between
  the two (`HeldSoFar`), although its statements read different snapshots.
* `Startup`: a process past its migrations has applied those of its build, and the
  lock is held by the one that migrates.
* `DesktopShell`: a window is labelled and told as its handle says
  (`WindowsAreTold`); clicks map in order to notifications shown, and the last
  shown is not used up (`ClicksFollow`).
* `Socket`: a line that is open is one of the links, and it has been resumed once
  if the handshake is over.
* `AuthTab`: a check is of a session and, until the tab is mounted, asks with the
  tokens a refresh brought (`UnderOneSession`).
* `Outbox`: the first attempt of a key, its answer and a second attempt never
  exist at once, and only the tab that made a key attempts it (`OneAttempt`,
  `Owned`); what a bubble waits for is on its way or went with
  a dead socket (`Awaited`); and what is queued for a settled tab leads from what
  it shows to what the tables hold, step by step (`Path`). A tab that a failed
  audience read left behind is not settled, and the tables may be ahead of it in
  any way until its next repair.
* `Forms`: accounts are kept as they were typed, folded, under an address that
  fits (`AsTyped`), so two texts name one account exactly if they fold alike.
  `FittingForm` is the heart of it: for every text, what validation lets through
  the CHECKs accept.
* `ProviderIdentity`: one person at a time, whose addresses are folded, whose names
  are not empty and who is verified for an address of the answer it came with
  (`OnePerson`). `PickedIs` says that the address picked is one entry of the list
  taken whole; `Sanitised` and `Generated` that a handle made up from any name at
  any attempt fits.

Recursive functions over the numbers (lockout lengths, folds over queues) are
reasoned about by a least counterexample, which well-founded induction provides.

What TLAPS does not reach stays with TLC. Liveness (`HandlersEnd`,
`DeadPeersAreForgotten`, `RequestsFinish`, the three of `Delivery`) needs
ENABLED. The theorems about typed texts hold for every text of the model's
letters and for any limits; that Rust and PostgreSQL fold and count letters alike
is not among them.

## 5. Findings

Five statements of the repository's comments do not hold of the code; each has a
run whose counterexample shows how.

1. `leave_dissolves`. `leave_group` dissolves when it counts one Participant, and
   takes that one for its caller. A member who leaves on two Devices at once may
   have left when the second handler counts: a plain member ends the owner's group.
2. `ghost_online`. `run_connection` returns with `?` from its opening sends, after
   `register` and before `unregister`: the User stays online until a restart.
3. `reset_survivor`. `reset_password` stores the password and then revokes the
   sessions there are. A login that verified the old password and inserts its
   session afterwards is not among them; nor is anything revoked if the request is
   cut off in between.
4. `oauth_verifier`. `consume_state` zeroes `code_verifier_hash` in the UPDATE
   whose RETURNING reads it, and PostgreSQL returns the new row.
5. `lost_increment`. A `MARK_READ` that waited for a row which a send had
   incremented overwrites the increment with a count from its older snapshot: the
   badge is below the stream until the next report (`repository.rs`, "can never
   disagree"). `ReadStateWithinStream` is the half that does hold.

Met while modelling; the models contain these behaviours and the properties are
worded around them:

* *Server.* `send_message` reads its audience in a statement of its own after the
  commit (`service.rs`, line 1028). Where it fails the sender is told that the
  Message was rejected, although it is stored (`events.rs`, "was refused and was
  not stored"); a retry is acknowledged, but nobody else hears of the Message
  before they repair. An event for a full control queue is dropped before it has a
  connection sequence; if it was the last Message, nothing brings it to the client
  while the socket lasts (`realtime/lib.rs`, "which is safe because"). Two
  invitations that both count before either inserts push a group past
  `MAX_GROUP_MEMBERS` (`contract/group.rs`, "cap on the Participants"). An
  invitation that fails after one of its INSERTs leaves Participants who are sent
  no Conversation, and it cannot be repeated, for they are members already
  (`service.rs`, "each new member also gains the Conversation"). The farewell is
  broadcast after two database calls and does not look at the registry again (`connection.rs`, "the
  status the audience is told is already offline"). Two overlapping
  issues leave two live links. Attempts already allowed exceed the limiter's
  threshold, and making room may forget a source's number of lockouts. A removed User's screen may keep the
  group when the invitation's Conversation is delivered after the removal's event.
  Alternating Started and Stopped passes the typing throttle. A callback whose
  onboarding session expired signs in with the generated handle. A receipts
  request of a member removed meanwhile still reads rows written afterwards. A
  WebSocket is authenticated when it opens and not again.
* *Input and settings.* A provider's display name of more than 64 characters is
  not cut and fails the insert. The return path `/` passes `is_relative_path` and
  fails the CHECK `'^/[^/]'`. `HttpOAuthClient` sends POST to the profile
  endpoints. A lifetime of 0 is accepted. A malformed `.env` line hides the lines
  after it, which then silently take defaults.
* *Client.* `hasOpenedBefore && consumedBefore === 0` is never true
  (`realtime.ts`, "repair on reopen so that case is not missed"). A live Message
  creates the list of a Conversation nobody opened, whose history is then not
  loaded (`chat.ts`, "loading its history the first time it is opened"). A send
  accepted by a socket that then dies stays "sending" (`ws.ts`, "instead of losing
  it silently"). A badge drifts when a ReadMarker and a NewMessage are fanned out
  in the other order, or when the list read of a repair overlaps commits
  (`chat.ts`, "settles it authoritatively"). A lost read report is not sent again.
  A history page read earlier replaces the list and can drop live or acknowledged
  Messages until the next repair. A late `applyGroupInfo` shows a dissolved group
  again. An invited User receives a Conversation that counts them and then a Joined
  event that counts them again (`chat.ts`, "Keep the summary's Participant count in
  step"). A tab whose restore could not reach the backend has tokens but no
  profile, and the verification link of another account fills the profile in
  (`auth.ts`, "must not hijack the tab"). A refresh that is refused late clears
  whoever signed in meanwhile (`auth.ts`, "only when both tokens were explicitly
  rejected"). An acknowledgement of a retry may put an older Message below a hole of the
  list, which the next repair fills. A reset drops the tab's session even when it was another account's
  (`auth.ts`, "would only hold a dead session"). A refresh that succeeds late brings
  back the tokens a sign-out had dropped, and a profile that arrives late replaces
  the new one. Signing out
  clears presence and typing but not the chat store.
* *Shell.* The event that names a Call is emitted to every window; a
  notification's click is inferred from any focus.

## 6. What could be added

1. `Delivery` with the client's own sends and `loadOlder`, and an abstract "every
   Message is shown once, in order" for it to implement; today `Outbox` and
   `HistoryPages` cover these apart from the fan-out.
2. Several Users in `Account`, should addresses ever be changed or merged.

## 7. Not modelled

The wire types of `contract` and their serialisation: declarations without
behaviour. The views and the remaining stores of the client: rendering, and
copies of events whose server side is in `Typing` and `Presence`. Browser storage
that is denied.
Deployment, backups and code generation. The mapping of errors to status codes,
logging, and the texts of mails and problems. Password hashing, signatures,
randomness and the network libraries are taken to do what they promise; the
provider, SMTP, tokio, sqlx, Tauri and the browser are external. PostgreSQL is
modelled as far as its row locks, snapshots, unique constraints and deadlock
detection matter. The Unicode tables by which Rust and PostgreSQL fold and count
are reduced to a few letters.

Wall-clock time is abstracted everywhere: a heartbeat is a step, an age or a
remaining time a small number, an expiry an event that may happen at any moment.
