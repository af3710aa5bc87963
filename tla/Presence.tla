------------------------------- MODULE Presence -------------------------------
(***************************************************************************)
(* Reachability in jiuyue-realtime: the connection registry, the life of a  *)
(* connection task from its registration to its teardown, the heartbeat     *)
(* sweep of half-open peers, and the presence fan-out.                      *)
(*                                                                         *)
(* One step runs a task from one await to the next.  A User's audience is   *)
(* one observer: told[u] is what the last broadcast about u said, "unsure"  *)
(* when the audience of that broadcast could not be resolved.  Writing      *)
(* last-seen instants takes time and changes nothing of this.               *)
(***************************************************************************)
EXTENDS Naturals

CONSTANTS User,        \* Users
          Conn,        \* connections; each is opened at most once
          UserOf,      \* UserOf[c]: the User a connection authenticated as
          HasCursors,  \* connections whose Device has stored Sync Cursors
          Never,       \* the peer has not sent a heartbeat
          Beats,       \* DEAD_CONNECTION_BEATS
          LinkRoom,    \* envelopes a half-open link takes before a send blocks
          Ends         \* bound: Ends[c], how c's peer may go: "silent", "shut"

ASSUME PresenceAssumption ==
  /\ UserOf \in [Conn -> User]
  /\ HasCursors \subseteq Conn
  /\ Beats \in Nat /\ LinkRoom \in Nat
  /\ Never \notin Nat
  /\ Ends \in [Conn -> SUBSET {"silent", "shut"}]

VARIABLES
  registry,  \* the connections in the ConnectionRegistry
  told,      \* told[u]: the status last fanned out to u's audience
  pc,        \* pc[c]: where the connection task is
  quiet,     \* quiet[c]: server heartbeats since the peer's last one
  peer,      \* peer[c]: "open", "silent" (half-open) or "shut"
  room,      \* room[c]: envelopes a silent link still takes
  writer     \* writer[c]: the writer task still drains the send queue

wires == <<peer, room, writer>>
presenceVars == <<registry, told, pc, quiet, wires>>

Opening == {"announce", "ping", "sync"}
Serving == {"pump", "sweep"}
Leaving == {"leave", "store", "farewell"}
Phase   == {"new", "gone"} \cup Opening \cup Serving \cup Leaving

Live(u) == {c \in registry : UserOf[c] = u}

Goto(c, l) == pc' = [pc EXCEPT ![c] = l]

PresenceInit ==
  /\ registry = {}
  /\ told = [u \in User |-> "offline"]
  /\ pc = [c \in Conn |-> "new"]
  /\ quiet = [c \in Conn |-> Never]
  /\ peer = [c \in Conn |-> "open"]
  /\ room = [c \in Conn |-> LinkRoom]
  /\ writer = [c \in Conn |-> TRUE]

-----------------------------------------------------------------------------
(* The peer and the link *)

Silence(c) == /\ "silent" \in Ends[c]
              /\ pc[c] \notin {"new", "gone"} /\ peer[c] = "open"
              /\ peer' = [peer EXCEPT ![c] = "silent"]
              /\ UNCHANGED <<registry, told, pc, quiet, room, writer>>

\* A clean close, a reset, or the kernel giving a silent peer up.
Shut(c) == /\ "shut" \in Ends[c]
           /\ pc[c] \notin {"new", "gone"} /\ peer[c] # "shut"
           /\ peer' = [peer EXCEPT ![c] = "shut"]
           /\ UNCHANGED <<registry, told, pc, quiet, room, writer>>

\* The writer fails to send what it was handed, ends, and closes its queue.
BreakWriter(c) ==
  /\ writer[c] /\ peer[c] = "shut"
  /\ pc[c] \in {"sync"} \cup Serving \cup Leaving
  /\ writer' = [writer EXCEPT ![c] = FALSE]
  /\ UNCHANGED <<registry, told, pc, quiet, peer, room>>

\* A send waits while the queue is full; a silent link never drains it.
Sendable(c) == peer[c] = "silent" /\ writer[c] => room[c] > 0

Sent(c) == room' = IF peer[c] = "silent" /\ room[c] > 0
                   THEN [room EXCEPT ![c] = @ - 1] ELSE room

-----------------------------------------------------------------------------
(* Opening a connection *)

\* Mutant: every connection is announced.
RegisterAnnouncing(c) ==
  /\ pc[c] = "new"
  /\ registry' = registry \cup {c}
  /\ Goto(c, "announce")
  /\ UNCHANGED <<told, quiet, wires>>

\* register: the first live connection of a User makes the User reachable.
Register(c) ==
  /\ pc[c] = "new"
  /\ registry' = registry \cup {c}
  /\ Goto(c, IF Live(UserOf[c]) = {} THEN "announce" ELSE "ping")
  /\ UNCHANGED <<told, quiet, wires>>

\* broadcast_presence: the audience is told once it is resolved, if it can be.
Broadcast(c, status) ==
  \E s \in {status, "unsure"} : told' = [told EXCEPT ![UserOf[c]] = s]

TellOnline(c) ==
  /\ pc[c] = "announce"
  /\ Broadcast(c, "online")
  /\ Goto(c, "ping")
  /\ UNCHANGED <<registry, quiet, wires>>

\* The opening heartbeat finds an empty queue and a writer that has sent nothing.
OpeningPing(c) ==
  /\ pc[c] = "ping"
  /\ Goto(c, "sync")
  /\ Sent(c)
  /\ UNCHANGED <<registry, told, quiet, peer, writer>>

\* Stored cursors are sent, if they can be read.  When the writer is gone the task
\* ends right here: run_connection returns from the send before its teardown.
SendSyncState(c) ==
  /\ pc[c] = "sync"
  /\ \/ /\ c \in HasCursors /\ ~ writer[c]
        /\ Goto(c, "gone")
        /\ UNCHANGED room
     \/ /\ c \in HasCursors /\ writer[c] /\ Sendable(c)
        /\ Goto(c, "pump")
        /\ Sent(c)
     \/ /\ Goto(c, "pump")
        /\ UNCHANGED room
  /\ UNCHANGED <<registry, told, quiet, peer, writer>>

-----------------------------------------------------------------------------
(* The select loop *)

\* handle_frame records a client heartbeat.
Beat(c) ==
  /\ pc[c] = "pump" /\ peer[c] = "open"
  /\ quiet' = [quiet EXCEPT ![c] = 0]
  /\ UNCHANGED <<registry, told, pc, wires>>

\* A fanned-out event is handed to the writer, or the writer is found gone.
ForwardEvent(c) ==
  /\ pc[c] = "pump" /\ Sendable(c)
  /\ Sent(c)
  /\ Goto(c, IF writer[c] THEN "pump" ELSE "leave")
  /\ UNCHANGED <<registry, told, quiet, peer, writer>>

\* Mutant: a close is skipped like a frame that is not text.
ReadCloseSkipped(c) ==
  /\ pc[c] = "pump" /\ peer[c] = "shut"
  /\ UNCHANGED presenceVars

\* A close frame, the end of the stream or a read error ends the loop.
ReadClose(c) ==
  /\ pc[c] = "pump" /\ peer[c] = "shut"
  /\ Goto(c, "leave")
  /\ UNCHANGED <<registry, told, quiet, wires>>

\* An interval has passed: send a heartbeat, then write the checkpoints.
Heartbeat(c) ==
  /\ pc[c] = "pump" /\ Sendable(c)
  /\ quiet' = IF quiet[c] = Never THEN quiet ELSE [quiet EXCEPT ![c] = @ + 1]
  /\ Sent(c)
  /\ Goto(c, IF writer[c] THEN "sweep" ELSE "leave")
  /\ UNCHANGED <<registry, told, peer, writer>>

\* Mutant: the deadline is one heartbeat late.
SweepLate(c) ==
  /\ pc[c] = "sweep"
  /\ Goto(c, IF quiet[c] # Never /\ quiet[c] > Beats + 1 THEN "leave" ELSE "pump")
  /\ UNCHANGED <<registry, told, quiet, wires>>

\* is_expired: a peer that has beaten and then missed its deadline is gone.
Sweep(c) ==
  /\ pc[c] = "sweep"
  /\ Goto(c, IF quiet[c] # Never /\ quiet[c] > Beats THEN "leave" ELSE "pump")
  /\ UNCHANGED <<registry, told, quiet, wires>>

-----------------------------------------------------------------------------
(* Teardown *)

\* Mutant: a User whose other Devices are gone is noticed, this one is not.
UnregisterUncounted(c) ==
  /\ pc[c] = "leave"
  /\ registry' = registry \ {c}
  /\ Goto(c, IF Live(UserOf[c]) = {} THEN "store" ELSE "gone")
  /\ UNCHANGED <<told, quiet, wires>>

\* unregister: the last connection of a User makes the User unreachable.
Unregister(c) ==
  /\ pc[c] = "leave"
  /\ registry' = registry \ {c}
  /\ Goto(c, IF Live(UserOf[c]) = {c} THEN "store" ELSE "gone")
  /\ UNCHANGED <<told, quiet, wires>>

\* user_went_offline writes the last-seen instant first, whether it can or not.
StoreLastSeen(c) ==
  /\ pc[c] = "store"
  /\ Goto(c, "farewell")
  /\ UNCHANGED <<registry, told, quiet, wires>>

TellOffline(c) ==
  /\ pc[c] = "farewell"
  /\ Broadcast(c, "offline")
  /\ Goto(c, "gone")
  /\ UNCHANGED <<registry, quiet, wires>>

-----------------------------------------------------------------------------
\* What the task does by itself; the other branches of select! need the peer.
Step(c) == \/ TellOnline(c)
           \/ OpeningPing(c)
           \/ SendSyncState(c)
           \/ Heartbeat(c)
           \/ Sweep(c)
           \/ ReadClose(c)
           \/ Unregister(c)
           \/ StoreLastSeen(c)
           \/ TellOffline(c)

PresenceNext == \E c \in Conn : \/ Register(c) \/ Step(c)
                        \/ Beat(c) \/ ForwardEvent(c)
                        \/ Silence(c) \/ Shut(c) \/ BreakWriter(c)

PresenceSpec == PresenceInit /\ [][PresenceNext]_presenceVars

\* tokio polls a ready task again and the heartbeat timer keeps firing; select!
\* picks among ready branches at random, so a closed socket is read in the end.
PresenceFairness == \A c \in Conn : WF_presenceVars(Step(c)) /\ SF_presenceVars(ReadClose(c))

PresenceFairSpec == PresenceSpec /\ PresenceFairness

-----------------------------------------------------------------------------
(* Properties *)

PresenceTypeOK ==
  /\ registry \subseteq Conn
  /\ told \in [User -> {"online", "offline", "unsure"}]
  /\ pc \in [Conn -> Phase]
  /\ quiet \in [Conn -> (0 .. (Beats + 1)) \cup {Never}]
  /\ peer \in [Conn -> {"open", "silent", "shut"}]
  /\ room \in [Conn -> 0 .. LinkRoom]
  /\ writer \in [Conn -> BOOLEAN]

\* Nobody stays shown as online after the last Device went: whenever the last word
\* was "online", a connection is registered or a teardown is about to say offline.
ShownOnlineIsReachable ==
  \A u \in User : told[u] = "online" =>
    \/ Live(u) # {}
    \/ \E c \in Conn : UserOf[c] = u /\ pc[c] \in {"store", "farewell"}

\* Devices of one User that connect at the same instant are announced once: only
\* the one register counted as the first is on its way to tell the audience.
OneAnnouncer ==
  \A c, d \in Conn :
    pc[c] = "announce" /\ pc[d] = "announce" /\ UserOf[c] = UserOf[d] => c = d

\* The loop waits for room in the send queue of a link that will never drain it,
\* and the deadline of the peer has not passed: events, not heartbeats, filled it.
Overrun(c) == pc[c] = "pump" /\ ~ Sendable(c) /\ quiet[c] \in 0 .. Beats

\* A peer that closed, or that beat once and fell silent, stops counting as
\* reachable, unless events fill its send queue before its deadline: is_expired is
\* checked by the very loop that waits for room.
DeadPeersAreForgotten ==
  \A c \in Conn :
    (/\ pc[c] \in Serving
     /\ peer[c] = "shut" \/ (peer[c] = "silent" /\ quiet[c] # Never))
    ~> (c \notin registry \/ Overrun(c))

\* lib.rs says "a dead connection can hold a User online for at most three beats".
\* It fails: a send error while the connection opens ends the task before its
\* teardown, and the registration outlives it for good.
NoGhost == \A c \in registry : pc[c] # "gone"
=============================================================================
