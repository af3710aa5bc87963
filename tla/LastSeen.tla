------------------------------ MODULE LastSeen ------------------------------
(***************************************************************************)
(* The presence checkpoint: crates/realtime/src/presence.rs.  The Users to *)
(* stamp are coalesced in one buffer for the node; a heartbeat and every   *)
(* departure read it into a batch, write it with an await, and clear it    *)
(* when the write succeeded.                                               *)
(***************************************************************************)
EXTENDS Integers

CONSTANTS Person,      \* Users whose Devices come and go
          Writer,      \* checkpoints being written at once
          Instants     \* bound: instants the clock goes through

ASSUME LastSeenAssumption == Instants \in Nat

VARIABLES clock,
          present,     \* Users with a connected Device
          leftAt,      \* ghost: when each User's last Device went
          leaving,     \* those whose departure has not been marked yet
          marked,      \* PresenceCheckpoint.pending
          writer,      \* [Writer -> the checkpoint it is writing]
          excused,     \* ghost: who is gone and whose own write failed, or was cut off, since
          lastSeen     \* user_presence.last_seen_at

lastSeenVars == <<clock, present, leftAt, leaving, marked, writer, excused, lastSeen>>

NoWrite == [pc |-> "idle", kind |-> "none", whose |-> "none", batch |-> {}, at |-> 0]

LastSeenInit ==
  /\ clock = 1
  /\ present = {}
  /\ leftAt = [p \in Person |-> 0]
  /\ leaving = {}
  /\ marked = {}
  /\ writer = [f \in Writer |-> NoWrite]
  /\ excused = {}
  /\ lastSeen = [p \in Person |-> 0]

-----------------------------------------------------------------------------
Marked(users) == marked \cup users

\* user_came_online: marked now, written by the next heartbeat.
ComeOnline(p) ==
  /\ p \notin present
  /\ leftAt[p] < Instants   \* bound: nobody comes back after the last instant
  /\ present' = present \cup {p}
  /\ marked' = Marked({p})
  /\ excused' = excused \ {p}
  /\ UNCHANGED <<clock, leftAt, leaving, writer, lastSeen>>

\* The last Device is unregistered; its handler still has calls to make first.
LastDeviceGone(p) ==
  /\ p \in present /\ p \notin leaving
  /\ present' = present \ {p}
  /\ leaving' = leaving \cup {p}
  /\ leftAt' = [leftAt EXCEPT ![p] = clock]
  /\ UNCHANGED <<clock, marked, writer, excused, lastSeen>>

\* write_checkpoint's first half: the batch is what is marked now, and the statement's
\* now() is the instant it starts at.
Batch(f, kind, p, users) ==
  /\ marked' = users
  /\ writer' = [writer EXCEPT ![f] =
       [pc |-> "write", kind |-> kind, whose |-> p, batch |-> users, at |-> clock]]

\* user_went_offline: mark, and write at once, whoever else is writing.
WentOffline(f, p) ==
  /\ p \in leaving
  /\ writer[f] = NoWrite
  /\ leaving' = leaving \ {p}
  /\ Batch(f, "leave", p, Marked({p}))
  /\ UNCHANGED <<clock, present, leftAt, excused, lastSeen>>

\* checkpoint_presence: at most one heartbeat flushes at a time, and it marks everyone
\* who is connected.
BeatFlush(f) ==
  /\ writer[f] = NoWrite
  /\ \A g \in Writer : writer[g].kind # "beat"
  /\ Marked(present) # {}
  /\ Batch(f, "beat", "none", Marked(present))
  /\ UNCHANGED <<clock, present, leftAt, leaving, excused, lastSeen>>

\* Mutant: the upsert takes the incoming instant as it is.
Newest_last_write_wins(stored, incoming) == incoming
Newest(stored, incoming) == IF incoming > stored THEN incoming ELSE stored

\* The upsert commits; of the batch, clear() needs nothing more.
Stamp(f) ==
  /\ writer[f].pc = "write"
  /\ lastSeen' = [p \in Person |-> IF p \in writer[f].batch
                                   THEN Newest(lastSeen[p], writer[f].at) ELSE lastSeen[p]]
  /\ writer' = [writer EXCEPT ![f] =
       [pc |-> "clear", kind |-> writer[f].kind, whose |-> "none", batch |-> {}, at |-> 0]]
  /\ UNCHANGED <<clock, present, leftAt, leaving, marked, excused>>

StampFails(f) ==
  /\ writer[f].pc = "write"
  /\ writer' = [writer EXCEPT ![f] = NoWrite]
  /\ excused' = excused \cup (({writer[f].whose} \cap Person) \ (present \cup leaving))
  /\ UNCHANGED <<clock, present, leftAt, leaving, marked, lastSeen>>

\* clear() forgets whatever is marked by now.
ClearMarks(f) ==
  /\ writer[f].pc = "clear"
  /\ marked' = {}
  /\ writer' = [writer EXCEPT ![f] = NoWrite]
  /\ UNCHANGED <<clock, present, leftAt, leaving, excused, lastSeen>>

NextInstant ==
  /\ clock < Instants
  /\ clock' = clock + 1
  /\ UNCHANGED <<present, leftAt, leaving, marked, writer, excused, lastSeen>>

NodeRestart ==
  /\ present' = {} /\ leaving' = {} /\ marked' = {}
  /\ writer' = [f \in Writer |-> NoWrite]
  /\ excused' = Person
  /\ UNCHANGED <<clock, leftAt, lastSeen>>

LastSeenNext ==
  \/ \E p \in Person : ComeOnline(p) \/ LastDeviceGone(p)
  \/ \E f \in Writer : \/ \E p \in Person : WentOffline(f, p)
                       \/ BeatFlush(f) \/ Stamp(f) \/ StampFails(f) \/ ClearMarks(f)
  \/ NextInstant \/ NodeRestart

LastSeenSpec == LastSeenInit /\ [][LastSeenNext]_lastSeenVars

-----------------------------------------------------------------------------
LastSeenTypeOK ==
  /\ clock \in Nat
  /\ present \subseteq Person /\ leaving \subseteq Person
  /\ marked \subseteq Person /\ excused \subseteq Person
  /\ leftAt \in [Person -> Nat] /\ lastSeen \in [Person -> Nat]
  /\ writer \in [Writer -> [pc : {"write", "clear"}, kind : {"leave", "beat"},
                            whose : Person \cup {"none"}, batch : SUBSET Person, at : Nat]
                           \cup {NoWrite}]

\* A departure is stamped.  Whatever other checkpoint is read, written and cleared in
\* between, a User who is gone, and whose own checkpoint neither failed nor was cut off by
\* a restart, is stored with an instant no older than the departure.
DeparturesAreStamped ==
  \A p \in Person :
    \/ p \in present \cup leaving \cup excused
    \/ \E f \in Writer : writer[f].pc = "write" /\ writer[f].whose = p
    \/ lastSeen[p] >= leftAt[p]
=============================================================================
