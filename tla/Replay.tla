------------------------------- MODULE Replay -------------------------------
(***************************************************************************)
(* The replay ring of one connection: ConnectionWriter of realtime/session  *)
(* .rs over replay.rs, and the gap arithmetic of realtime.ts's              *)
(* applyEnvelope.  An envelope is its connection sequence s.  Frames arrive *)
(* in order; one may be lost on its way, which a client that drops a frame  *)
(* does and TCP does not.                                                   *)
(***************************************************************************)
EXTENDS Integers, Sequences, FiniteSets

CONSTANTS ReplayCapacity,  \* replay_capacity, as configured: zero counts as one
          WireRoom,        \* SEND_QUEUE_CAPACITY, and what is under way
          MaxSent,         \* bound: sequences allocated
          MaxLost          \* bound: frames lost

ASSUME ReplayAssumption ==
  ReplayCapacity \in Nat /\ WireRoom \in Nat \ {0} /\ MaxSent \in Nat /\ MaxLost \in Nat

VARIABLES sequence,        \* ConnectionWriter.sequence
          ring,            \* the envelopes of the ReplayBuffer, newest last
          resending,       \* the session in resume(): what it still has to send again
          frames,          \* frames to the client, and
          requests,        \* Resume frames to the server, in order
          previous,        \* what the client consumed on its previous connection
          last,            \* lastSequence of the client, 0 for null
          held,            \* what the client has applied
          lost,            \* the copies that were lost, in order
          refused          \* what "unavailable" has told the client to fetch instead

replayVars == <<sequence, ring, resending, frames, requests, previous, last, held, lost,
                refused>>
serverSide == <<sequence, ring, resending, refused>>
clientSide == <<previous, last, held>>

Frame == [s : 1 .. MaxSent, e : {"event", "replayed", "unavailable", "fresh"}]
NotResuming == <<>>

ReplayTypeOK ==
  /\ sequence \in 0 .. MaxSent
  /\ Len(ring) <= sequence
  /\ Len(ring) <= (IF ReplayCapacity = 0 THEN 1 ELSE ReplayCapacity)
  /\ \A i \in DOMAIN ring : ring[i].s = sequence - Len(ring) + i     \* contiguous, newest last
  /\ resending \in Seq(Frame) /\ frames \in Seq(Frame) /\ Len(frames) <= WireRoom
  /\ requests \in Seq([p : 0 .. MaxSent, here : BOOLEAN])
  /\ last \in 0 .. sequence /\ held \subseteq 1 .. sequence
  /\ lost \in Seq(1 .. sequence) /\ Len(lost) <= MaxLost
  /\ refused \subseteq 1 .. sequence

ReplayInit ==
  /\ sequence = 0 /\ ring = <<>> /\ resending = NotResuming
  /\ frames = <<>> /\ requests = <<>>
  /\ previous \in 0 .. 1 /\ last = 0 /\ held = {} /\ refused = {} /\ lost = <<>>

\* ReplayBuffer::record evicts the oldest envelope of a full ring.
Recorded(frame) ==
  IF Len(ring) > 0 /\ Len(ring) >= ReplayCapacity
  THEN Append(Tail(ring), frame) ELSE Append(ring, frame)

\* Allocate the next sequence, record the envelope, and wait for room in the queue.
Enqueue(e) ==
  LET frame == [s |-> sequence + 1, e |-> e] IN
  /\ sequence < MaxSent /\ Len(frames) < WireRoom
  /\ sequence' = sequence + 1
  /\ ring' = Recorded(frame)
  /\ frames' = Append(frames, frame)

\* A fanned-out event or a heartbeat; the session does one thing at a time.
SendEvent ==
  /\ resending = NotResuming
  /\ Enqueue("event")
  /\ UNCHANGED <<resending, requests, clientSide, lost, refused>>

\* ReplayBuffer::after: can continuity from position p be proven?
Provable(p) == ring # <<>> /\ p + 1 >= ring[1].s /\ p <= ring[Len(ring)].s

\* ... and what follows it: the ring is ascending.
After(p) == SubSeq(ring, Cardinality({i \in DOMAIN ring : ring[i].s <= p}) + 1, Len(ring))

\* resume_plan: the position must name this connection and still be retained.
ResumePlan(request) ==
  CASE request.p = 0 -> "fresh"
    [] request.p > 0 /\ request.here /\ Provable(request.p) -> "replay"
    [] OTHER -> "unavailable"

\* A Resume frame is read: the envelopes to send again, if the position can be proven.
Resume ==
  /\ resending = NotResuming /\ requests # <<>>
  /\ LET request == Head(requests) IN
     \/ /\ ResumePlan(request) = "replay"
        /\ resending' = Append(After(request.p), [s |-> MaxSent, e |-> "replayed"])
        /\ UNCHANGED <<sequence, ring, frames, refused>>
     \/ /\ ResumePlan(request) = "unavailable"
        /\ Enqueue("unavailable")
        /\ refused' = IF request.here THEN refused \cup (request.p + 1 .. sequence) ELSE refused
        /\ UNCHANGED resending
     \/ /\ ResumePlan(request) = "fresh"
        /\ Enqueue("fresh")
        /\ UNCHANGED <<resending, refused>>
  /\ requests' = Tail(requests)
  /\ UNCHANGED <<clientSide, lost>>

\* ConnectionWriter::replay: verbatim, unrecorded and without a new sequence.
Resend ==
  /\ Len(resending) > 1 /\ Len(frames) < WireRoom
  /\ frames' = Append(frames, Head(resending))
  /\ resending' = Tail(resending)
  /\ UNCHANGED <<sequence, ring, requests, clientSide, lost, refused>>

\* The Resync answer follows the envelopes sent again.
AnswerReplayed ==
  /\ Len(resending) = 1
  /\ Enqueue("replayed")
  /\ resending' = NotResuming
  /\ UNCHANGED <<requests, clientSide, lost, refused>>

\* applyEnvelope: the first envelope is answered with the handshake, which names no
\* connection; a jump of s asks for what lies between; a duplicate is no jump.
Consume ==
  /\ frames # <<>>
  /\ LET frame == Head(frames) IN
     /\ held' = held \cup {frame.s}
     /\ last' = IF frame.s > last THEN frame.s ELSE last
     /\ requests' = CASE last = 0 -> Append(requests, [p |-> previous, here |-> FALSE])
                      [] last > 0 /\ frame.s > last + 1 -> Append(requests, [p |-> last, here |-> TRUE])
                      [] OTHER -> requests
  /\ frames' = Tail(frames)
  /\ UNCHANGED <<serverSide, previous, lost>>

LoseFrame ==
  /\ frames # <<>> /\ Len(lost) < MaxLost
  /\ lost' = Append(lost, Head(frames).s)
  /\ frames' = Tail(frames)
  /\ UNCHANGED <<serverSide, requests, clientSide>>

ReplayNext ==
  \/ SendEvent \/ Resume \/ Resend \/ AnswerReplayed
  \/ Consume \/ LoseFrame

-----------------------------------------------------------------------------
\* Once everything asked for has been answered and has arrived, every envelope between
\* the first one applied and the client's position is applied, unless "unavailable" told
\* the client to fetch its gap or the copy sent again was lost as well: a "replayed"
\* answer leaves no hole behind (replay.rs, after; realtime.ts, applyEnvelope).
LostTwice(s) == \E i, j \in DOMAIN lost : i < j /\ lost[i] = s /\ lost[j] = s

ReplaysLeaveNoHole ==
  frames = <<>> /\ requests = <<>> /\ resending = NotResuming
  => \A s \in 1 .. last :
       \/ s \in held \cup refused \/ LostTwice(s) \/ \A t \in 1 .. s : t \notin held
=============================================================================
