----------------------------- MODULE MCServices -----------------------------
(***************************************************************************)
(* Sixteen components that share no state: the attempt limiter, Typing      *)
(* Indicators, the presence checkpoint, Sync Cursors, the opening of Direct *)
(* Conversations, history pages, group notices, the replay ring, the forms, *)
(* the identities of providers, requests that read, the start of the        *)
(* server, the desktop shell, the client's socket, its bubbles and badges,  *)
(* and who it is signed in as.  Interleaving them adds nothing, so a        *)
(* behaviour moves one of them, chosen at the start, and TLC explores the   *)
(* sum of their state spaces.  (Forms and identities share the accounts.)   *)
(***************************************************************************)
EXTENDS AttemptLimiter, Typing, LastSeen, SyncCursors,
        DirectConversations, HistoryPages, GroupNotices, Replay, ProviderIdentity,
        Requests, Startup, DesktopShell, Socket, Outbox, AuthTab

CONSTANT Services   \* the components to choose from

VARIABLE moving

MCLimit == {NoLimit, 0, 1, MaxPage + 1}

\* 3..32, 8..128, 254, 64, 100, 2000, 4000 characters and 128 bytes, scaled down.
MCLimits == [handleMin |-> 2, handleMax |-> 3, passwordMin |-> 2, passwordMax |-> 3,
             email |-> 5, name |-> 3, title |-> 2, notice |-> 2, body |-> 2, keyBytes |-> 3]

MCBinaries == {<<"a">>, <<"a", "b">>, <<"A", "b">>}
MCVaried == {"jwt", "callback_base", "access", "github_id", "github_secret", "port"}
MCTalk == {<<"a", "b">>, <<"b", "a">>}

serviceVars == <<limiterVars, typingVars, lastSeenVars, cursorVars, directVars, historyVars,
                 groupVars, replayVars, formVars, providerVars, requestVars, startupVars, shellVars,
                 socketVars, outboxVars, authTabVars>>

ServicesInit ==
  /\ LimiterInit /\ TypingInit /\ LastSeenInit /\ CursorInit
  /\ DirectInit /\ HistoryInit /\ NoticeInit /\ ReplayInit /\ ProviderInit
  /\ RequestsInit /\ StartupInit /\ ShellInit
  /\ SocketInit /\ OutboxInit /\ AuthTabInit
  /\ moving \in Services
  /\ moving # "typing" => ~ participant
  /\ moving # "replay" => previous = 0
  /\ moving # "provider" => FormsInit
  /\ moving # "socket" => signedIn

\* The components other than s stand still.
Rest(s) ==
  /\ s # "limiter"  => UNCHANGED limiterVars
  /\ s # "typing"   => UNCHANGED typingVars
  /\ s # "lastSeen" => UNCHANGED lastSeenVars
  /\ s # "cursors"  => UNCHANGED cursorVars
  /\ s # "direct"   => UNCHANGED directVars
  /\ s # "history"  => UNCHANGED historyVars
  /\ s # "notices"  => UNCHANGED groupVars
  /\ s # "replay"   => UNCHANGED replayVars
  /\ s \notin {"forms", "provider"} => UNCHANGED formVars
  /\ s # "provider" => UNCHANGED providerVars
  /\ s # "requests" => UNCHANGED requestVars
  /\ s # "startup"  => UNCHANGED startupVars
  /\ s # "shell"    => UNCHANGED shellVars
  /\ s # "socket"   => UNCHANGED socketVars
  /\ s # "outbox"   => UNCHANGED outboxVars
  /\ s # "authTab"  => UNCHANGED authTabVars

ServicesNext ==
  /\ UNCHANGED moving
  /\ \/ moving = "limiter"  /\ LimiterNext
     \/ moving = "typing"   /\ TypingNext
     \/ moving = "lastSeen" /\ LastSeenNext
     \/ moving = "cursors"  /\ CursorNext
     \/ moving = "direct"   /\ DirectNext
     \/ moving = "history"  /\ HistoryNext
     \/ moving = "notices"  /\ NoticeNext
     \/ moving = "replay"   /\ ReplayNext
     \/ moving = "forms"    /\ FormsNext
     \/ moving = "provider" /\ ProviderNext
     \/ moving = "requests" /\ RequestsNext
     \/ moving = "startup"  /\ StartupNext
     \/ moving = "shell"    /\ ShellNext
     \/ moving = "socket"   /\ SocketNext
     \/ moving = "outbox"   /\ OutboxNext
     \/ moving = "authTab"  /\ AuthTabNext
  /\ Rest(moving)

ServicesSpec == ServicesInit /\ [][ServicesNext]_<<serviceVars, moving>>

\* The type invariants; the limiter's includes the hard cap on tracked sources.
ServicesTypeOK ==
  /\ LimiterTypeOK /\ TypingTypeOK /\ LastSeenTypeOK /\ CursorTypeOK
  /\ DirectTypeOK /\ HistoryTypeOK /\ NoticeTypeOK
  /\ ReplayTypeOK /\ FormsTypeOK /\ ProviderTypeOK
  /\ RequestsTypeOK /\ StartupTypeOK /\ ShellTypeOK
  /\ SocketTypeOK /\ OutboxTypeOK /\ AuthTabTypeOK

\* What was recorded reaches its table: a departure is stamped and a reported position is
\* kept, whatever fails or is written again.
NothingRecordedIsLost == DeparturesAreStamped /\ ReportsAreKept

\* No page boundary and no replay leaves a hole in what the client has applied.
RepairsLeaveNoHole == WalksLeaveNoHole /\ ReplaysLeaveNoHole

\* What is typed or asserted is stored as the tables take it, and names the account it
\* was stored for.
FormsMeetTheirTables ==
  TablesTakeWhatIsWritten /\ RetypedTextFindsTheAccount /\ VerifiedIsTheAddressesOwn

\* Screens show what the server's tables hold: who types, who is in which Group, what
\* became of a Message, how many are unread, and whose session the tab has.
ScreensAgree ==
  /\ ScreensFollowTheDirectory /\ OrderlyScreensAgree /\ CountsNeverFallShort
  /\ BubblesTellTheTruth /\ SettledTabsAgree
  /\ TabsKnowTheirAccount

\* The server serves only what is set up; the shell keeps its windows apart, and a tab
\* its sockets.
ProcessesAreSound == ServesOnlyWhenSound /\ CallsKeepTheirWindows /\ OneLine

\* What is stored only moves forward, although writers overlap and fail: a penalty is
\* shortened by time alone, and neither a last-seen instant nor a read position goes back
\* when two flushes start in one order and commit in the other, or one is repeated.
StoredClocksNeverGoBack ==
  /\ PenaltyOnlyElapses
  /\ [][ /\ \A p \in Person : lastSeen'[p] >= lastSeen[p]
         /\ cursor' >= cursor ]_<<lastSeen, cursor>>
=============================================================================
