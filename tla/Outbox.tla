------------------------------- MODULE Outbox -------------------------------
(***************************************************************************)
(* The tabs of one User in one Conversation: optimistic bubbles, sends and  *)
(* retries, the unread badge and the read reports that clear it.  Sockets   *)
(* die with frames in either direction; a new one is followed by a repair.  *)
(* The chat store of each tab against the session that serves it.           *)
(***************************************************************************)
EXTENDS Naturals, Sequences, FiniteSets

CONSTANTS Tab,         \* tabs and Devices of the User
          Key,         \* Client Message IDs the User composes
          MaxPosts,    \* bound: Messages of the peer
          MaxTroubles  \* bound: sockets that die, and reads on another Device

\* A key is a ULID, no User; a tab is none of the other origins of an event.
ASSUME OutboxAssumption ==
  /\ MaxPosts \in Nat /\ MaxTroubles \in Nat
  /\ "peer" \notin Key /\ Tab \cap {"peer", "late", "elsewhere"} = {}

VARIABLES stream,    \* the Conversation: "peer" or the key of one's own Message, by Sequence Number
          readRow,    \* the User's row: last_read_seq and unread_count
          tabs,      \* [Tab -> its chat store, what is on its socket both ways, its repair]
          telling,   \* committed by a handler and not fanned out yet
          late,      \* requests of a socket that died, read by the server before it noticed
          troubles

outboxVars == <<stream, readRow, tabs, telling, late, troubles>>

OutboxInit ==
  /\ stream = <<>> /\ readRow = [upTo |-> 0, unread |-> 0]
  /\ tabs = [t \in Tab |->
       [open |-> TRUE, held |-> {}, bubble |-> [k \in Key |-> "none"], badge |-> 0, reported |-> 0,
        up |-> <<>>, down |-> <<>>, repair |-> "none", count |-> 0,
        clean |-> TRUE, settled |-> TRUE, orphaned |-> {}]]
  /\ telling = {} /\ late = {} /\ troubles = 0

Send(k) == [is |-> "send", key |-> k]
Refusal(k) == [is |-> "rejected", key |-> k]

IsStored(k) == \E s \in DOMAIN stream : stream[s] = k
MaxSeq(held) == IF held = {} THEN 0 ELSE CHOOSE s \in held : \A r \in held : r <= s

\* Up to the first hole of a list, as repairStartSeq.
RepairStart(held) == IF held = {} THEN 0
                     ELSE CHOOSE s \in held : s + 1 \notin held /\ \A r \in held : r < s => r + 1 \in held

\* upsert of the Messages S, each replacing the bubble of its key.
Upsert(tab, S) ==
  [tab EXCEPT !.held = @ \cup S,
              !.bubble = [k \in Key |-> IF \E s \in S : stream[s] = k THEN "sent" ELSE tab.bubble[k]]]

-----------------------------------------------------------------------------
(* The User. *)

Dispatched(tab, k) ==
  IF tab.open THEN [tab EXCEPT !.bubble = [@ EXCEPT ![k] = "sending"], !.up = Append(@, Send(k))]
              ELSE [tab EXCEPT !.bubble = [@ EXCEPT ![k] = "failed"]]

Dispatch(t, k) == tabs' = [tabs EXCEPT ![t] = Dispatched(tabs[t], k)]

\* A key belongs to the tab that made it.
SendMessage(t, k) ==
  /\ \A q \in Tab : tabs[q].bubble[k] = "none"
  /\ Dispatch(t, k) /\ UNCHANGED <<stream, readRow, telling, late, troubles>>

Retry(t, k) ==
  /\ tabs[t].bubble[k] = "failed"
  /\ Dispatch(t, k) /\ UNCHANGED <<stream, readRow, telling, late, troubles>>

MarkConversationRead(t) ==
  LET newest == MaxSeq(tabs[t].held) IN
  /\ newest > tabs[t].reported /\ tabs[t].open
  /\ tabs' = [tabs EXCEPT ![t] = [tabs[t] EXCEPT
       !.up = Append(@, [is |-> "mark", upTo |-> newest]), !.reported = newest, !.badge = 0]]
  /\ UNCHANGED <<stream, readRow, telling, late, troubles>>

-----------------------------------------------------------------------------
(* The server. *)

\* A commit that meets another one's fan-out, or a repair under way, blurs the badges.
Blurred == [t \in Tab |-> [tabs[t] EXCEPT !.clean = FALSE, !.settled = @ /\ telling = {}]]
Tells(by, event) == telling' = telling \cup {[by |-> by, event |-> event]}

\* The audience is read after the commit: where that fails, nobody is told and every tab is
\* behind the tables until its next repair.
Adrift(tab) == [tab EXCEPT !.clean = FALSE, !.settled = FALSE]
Unaware == [t \in Tab |-> Adrift(tabs[t])]

Published(by, event) ==
  \/ Tells(by, event) /\ tabs' = Blurred
  \/ UNCHANGED telling /\ tabs' = Unaware

AppendMessage(author, unread) ==
  /\ stream' = Append(stream, author)
  /\ readRow' = [readRow EXCEPT !.unread = unread]
NextMessage == [is |-> "new", seq |-> Len(stream) + 1]

PeerPosts ==
  /\ Cardinality({s \in DOMAIN stream : stream[s] = "peer"}) < MaxPosts
  /\ AppendMessage("peer", readRow.unread + 1) /\ Published("peer", NextMessage)
  /\ UNCHANGED <<late, troubles>>

Mark(upTo) ==
  LET reach == IF upTo > readRow.upTo THEN upTo ELSE readRow.upTo IN
  [upTo |-> reach, unread |-> Cardinality({s \in DOMAIN stream : s > reach /\ stream[s] = "peer"})]

\* The frames of a tab are handled one after the other, each to its end.
Served(tab) == [tab EXCEPT !.up = Tail(@)]
Replied(tab, e) == [tab EXCEPT !.up = Tail(@), !.down = Append(@, e)]
Ready(t) == tabs[t].up # <<>> /\ ~ \E e \in telling : e.by = t

\* Any statement may fail, before the commit or after it: the Message of a rejection may be
\* stored.  A retry is answered with the row it finds, wherever that lies in the list.
HandleSend(t) ==
  LET k == Head(tabs[t].up).key IN
  /\ Ready(t) /\ Head(tabs[t].up).is = "send"
  /\ \/ /\ ~ IsStored(k) /\ AppendMessage(k, readRow.unread)
        /\ \/ Tells(t, NextMessage) /\ tabs' = [Blurred EXCEPT ![t] = Served(Blurred[t])]
           \/ UNCHANGED telling /\ tabs' = [Unaware EXCEPT ![t] = Replied(Unaware[t], Refusal(k))]
     \/ /\ IsStored(k)
        /\ LET s == CHOOSE r \in DOMAIN stream : stream[r] = k IN
           tabs' = [tabs EXCEPT ![t] = Replied(Adrift(tabs[t]), [is |-> "ack", seq |-> s])]
        /\ UNCHANGED <<stream, readRow, telling>>
     \/ /\ tabs' = [tabs EXCEPT ![t] = Replied(tabs[t], Refusal(k))]
        /\ UNCHANGED <<stream, readRow, telling>>
  /\ UNCHANGED <<late, troubles>>

\* A report that fails is logged and not answered.
HandleMark(t) ==
  /\ Ready(t) /\ Head(tabs[t].up).is = "mark"
  /\ \/ /\ readRow' = Mark(Head(tabs[t].up).upTo)
        /\ \/ /\ Tells(t, [is |-> "marker", upTo |-> readRow'.upTo, count |-> readRow'.unread])
              /\ tabs' = [Blurred EXCEPT ![t] = Served(Blurred[t])]
           \/ UNCHANGED telling /\ tabs' = [Unaware EXCEPT ![t] = Served(Unaware[t])]
     \/ /\ tabs' = [tabs EXCEPT ![t] = Served(Adrift(tabs[t]))]
        /\ UNCHANGED <<readRow, telling>>
  /\ UNCHANGED <<stream, late, troubles>>

\* A Device without this Conversation's tabs reports a read.
MarkedElsewhere(upTo) ==
  /\ upTo > readRow.upTo /\ troubles < MaxTroubles /\ troubles' = troubles + 1
  /\ readRow' = Mark(upTo)
  /\ Published("elsewhere", [is |-> "marker", upTo |-> readRow'.upTo, count |-> readRow'.unread])
  /\ UNCHANGED <<stream, late>>

\* What a dead socket had delivered is handled as well; its own answer goes nowhere.
HandleLate(r) ==
  /\ r \in late /\ late' = late \ {r}
  /\ \/ /\ r.is = "mark" /\ readRow' = Mark(r.upTo) /\ UNCHANGED stream
        /\ Published("late", [is |-> "marker", upTo |-> readRow'.upTo, count |-> readRow'.unread])
     \/ /\ r.is = "send" /\ ~ IsStored(r.key) /\ AppendMessage(r.key, readRow.unread)
        /\ Published("late", NextMessage)
     \/ UNCHANGED <<stream, readRow, tabs, telling>>
  /\ UNCHANGED troubles

\* To every open socket of the User; the sender's acknowledgement overtakes its own copy.
FramesOf(t, e) ==
  IF e.by = t /\ e.event.is = "new" THEN <<[is |-> "ack", seq |-> e.event.seq], e.event>>
                                    ELSE <<e.event>>

TellTabs(e) ==
  /\ e \in telling /\ telling' = telling \ {e}
  /\ tabs' = [t \in Tab |->
       IF tabs[t].open THEN [tabs[t] EXCEPT !.down = @ \o FramesOf(t, e)] ELSE tabs[t]]
  /\ UNCHANGED <<stream, readRow, late, troubles>>

-----------------------------------------------------------------------------
(* The tab. *)

\* Only a genuinely new Message of somebody else raises the badge.
Raises(tab, s) == s \notin tab.held /\ stream[s] = "peer"

ApplyNewMessage(tab, s) ==
  [Upsert(tab, {s}) EXCEPT
     !.badge = IF Raises(tab, s) THEN @ + 1 ELSE @,
     !.repair = IF @ = "none" /\ tab.held # {} /\ s > MaxSeq(tab.held) + 1 THEN "list" ELSE @]

ApplyRejection(tab, k) == [tab EXCEPT !.bubble = [@ EXCEPT ![k] = "failed"]]

\* Mutant: a read on any Device clears the badge.
ApplyReadMarker_clears(tab, e) == [tab EXCEPT !.badge = 0, !.reported = IF e.upTo > @ THEN e.upTo ELSE @]
\* The count of the server overwrites the local guess.
ApplyReadMarker(tab, e) ==
  [tab EXCEPT !.badge = e.count, !.reported = IF e.upTo > @ THEN e.upTo ELSE @]

HandleChatEvent(t) ==
  LET tab == [tabs[t] EXCEPT !.down = Tail(@)]  e == Head(tabs[t].down) IN
  /\ tabs[t].down # <<>>
  /\ tabs' = [tabs EXCEPT ![t] =
       CASE e.is = "new" -> ApplyNewMessage(tab, e.seq)
         [] e.is = "ack" -> Upsert(tab, {e.seq})
         [] e.is = "rejected" -> ApplyRejection(tab, e.key)
         [] OTHER -> ApplyReadMarker(tab, e)]
  /\ UNCHANGED <<stream, readRow, telling, late, troubles>>

Dead(tab) ==
  [tab EXCEPT !.open = FALSE, !.up = <<>>, !.down = <<>>, !.settled = FALSE, !.clean = FALSE,
              !.orphaned = @ \cup {k \in Key : tab.bubble[k] = "sending"}]

\* The socket dies: of what it had accepted the server may have read the beginning.
SocketDies(t) ==
  /\ tabs[t].open /\ troubles < MaxTroubles /\ troubles' = troubles + 1
  /\ \E n \in 0 .. Len(tabs[t].up) : late' = late \cup {tabs[t].up[i] : i \in 1 .. n}
  /\ tabs' = [tabs EXCEPT ![t] = Dead(tabs[t])]
  /\ telling' = {IF e.by = t THEN [e EXCEPT !.by = "late"] ELSE e : e \in telling}
  /\ UNCHANGED <<stream, readRow>>

\* Another socket opens; its handshake is answered as unavailable, which asks for a repair.
Reopen(t) ==
  /\ ~ tabs[t].open
  /\ tabs' = [tabs EXCEPT ![t] = [tabs[t] EXCEPT
       !.open = TRUE, !.repair = IF @ = "none" THEN "list" ELSE @]]
  /\ UNCHANGED <<stream, readRow, telling, late, troubles>>

\* runRepairs: the list is asked for and applied, or fails, ...
ReadList(t) ==
  /\ tabs[t].repair = "list"
  /\ tabs' = [tabs EXCEPT ![t] = [tabs[t] EXCEPT !.repair = "listed", !.count = readRow.unread,
       !.clean = tabs[t].open /\ tabs[t].down = <<>> /\ telling = {}]]
  /\ UNCHANGED <<stream, readRow, telling, late, troubles>>

ApplyList(t) ==
  /\ tabs[t].repair = "listed"
  /\ \/ tabs' = [tabs EXCEPT ![t] = [tabs[t] EXCEPT !.repair = "pages", !.badge = tabs[t].count]]
     \/ tabs' = [tabs EXCEPT ![t] = [tabs[t] EXCEPT !.repair = "pages", !.clean = FALSE]]
  /\ UNCHANGED <<stream, readRow, telling, late, troubles>>

\* ... then the pages from the first hole on; module Delivery has the walk.
ApplyPages(t) ==
  /\ tabs[t].repair = "pages"
  /\ \/ tabs' = [tabs EXCEPT ![t] =
          [Upsert(tabs[t], RepairStart(tabs[t].held) + 1 .. Len(stream)) EXCEPT
             !.repair = "none", !.count = 0, !.settled = @ \/ tabs[t].clean]]
     \/ tabs' = [tabs EXCEPT ![t] = [tabs[t] EXCEPT !.repair = "none", !.count = 0]]
  /\ UNCHANGED <<stream, readRow, telling, late, troubles>>

OutboxNext ==
  \/ PeerPosts
  \/ \E upTo \in DOMAIN stream : MarkedElsewhere(upTo)
  \/ \E r \in late : HandleLate(r)
  \/ \E e \in telling : TellTabs(e)
  \/ \E t \in Tab :
       \/ \E k \in Key : SendMessage(t, k) \/ Retry(t, k)
       \/ MarkConversationRead(t) \/ HandleSend(t) \/ HandleMark(t)
       \/ HandleChatEvent(t) \/ SocketDies(t) \/ Reopen(t)
       \/ ReadList(t) \/ ApplyList(t) \/ ApplyPages(t)

OutboxTypeOK ==
  \A t \in Tab :
    /\ tabs[t].held \subseteq DOMAIN stream /\ tabs[t].reported <= Len(stream)
    /\ tabs[t].open \/ tabs[t].up = <<>>

-----------------------------------------------------------------------------
\* One key is stored once, what a bubble shows as sent is stored, and what it offers to send
\* again has no attempt left anywhere: neither on a socket nor with the server, nor an
\* answer that would settle the second attempt in its place.
AttemptOn(t, k) ==
  \/ \E i \in DOMAIN tabs[t].up : tabs[t].up[i] = Send(k)
  \/ \E i \in DOMAIN tabs[t].down : tabs[t].down[i] = Refusal(k)

BubblesTellTheTruth ==
  /\ \A k \in Key : Cardinality({s \in DOMAIN stream : stream[s] = k}) <= 1
  /\ \A t \in Tab, k \in Key :
       /\ tabs[t].bubble[k] = "sent" => IsStored(k)
       /\ tabs[t].bubble[k] = "failed" => Send(k) \notin late /\ \A q \in Tab : ~ AttemptOn(q, k)

\* With nothing under way, a tab whose badge no overlap, loss or failed repair has touched
\* since its last repair holds the stream from its oldest Message on, shows the User's own
\* unread count, and waits for no answer but those its dead socket took along.
NothingUnderWay(t) ==
  telling = {} /\ late = {} /\ tabs[t].up = <<>> /\ tabs[t].down = <<>> /\ tabs[t].repair = "none"

SettledTabsAgree ==
  \A t \in Tab :
    tabs[t].open /\ tabs[t].settled /\ NothingUnderWay(t) =>
      /\ tabs[t].held = {} => stream = <<>>
      /\ \A s \in tabs[t].held : s .. Len(stream) \subseteq tabs[t].held
      /\ tabs[t].badge = readRow.unread
      /\ \A k \in Key : tabs[t].bubble[k] = "sending" => k \in tabs[t].orphaned
=============================================================================
