---------------------------- MODULE SyncCursors ----------------------------
(***************************************************************************)
(* Sync Cursors: one Device's position in a Conversation, reported over    *)
(* its connections, coalesced per connection (crates/realtime/src/cursor.rs *)
(* and session.rs) and upserted (chat's repository.rs).                    *)
(***************************************************************************)
EXTENDS Integers

CONSTANTS Wire,        \* connections of the Device, open at once or one after another
          Position     \* bound: the newest Message the Device can have consumed

ASSUME CursorAssumption == Position \in Nat

VARIABLES consumed,    \* how far the Device itself has got
          wire,        \* [Wire -> "up", "closing" or "down"]
          told,        \* ghost: [Wire -> the highest position it was told]
          buffer,      \* [Wire -> CursorCheckpoint.pending, 0 when empty]
          flush,       \* [Wire -> the batch on its way to the database, 0 when none]
          cursor       \* device_sync_cursors.last_seq

cursorVars == <<consumed, wire, told, buffer, flush, cursor>>

CursorInit ==
  /\ consumed = 0
  /\ wire = [c \in Wire |-> "down"]
  /\ told = [c \in Wire |-> 0]
  /\ buffer = [c \in Wire |-> 0]
  /\ flush = [c \in Wire |-> 0]
  /\ cursor = 0

Further(a, b) == IF b > a THEN b ELSE a

ConsumeMore ==
  /\ consumed < Position
  /\ consumed' = consumed + 1
  /\ UNCHANGED <<wire, told, buffer, flush, cursor>>

OpenWire(c) ==
  /\ wire[c] = "down"
  /\ wire' = [wire EXCEPT ![c] = "up"]
  /\ UNCHANGED <<consumed, told, buffer, flush, cursor>>

\* CursorCheckpoint::record.  A report may be late or repeated; it names something the
\* Device has consumed.  The session awaits its flush, so nothing is recorded meanwhile.
\* Mutant: the last report wins.
Coalesced_last_wins(held, seq) == seq
Coalesced(held, seq) == Further(held, seq)

RecordCursor(c, seq) ==
  /\ wire[c] = "up" /\ flush[c] = 0
  /\ seq \in 1 .. consumed
  /\ buffer' = [buffer EXCEPT ![c] = Coalesced(@, seq)]
  /\ told' = [told EXCEPT ![c] = Further(@, seq)]
  /\ UNCHANGED <<consumed, wire, flush, cursor>>

\* flush_cursors, on a heartbeat or when the buffer is full ...
FlushStarts(c) ==
  /\ wire[c] = "up" /\ flush[c] = 0 /\ buffer[c] > 0
  /\ flush' = [flush EXCEPT ![c] = buffer[c]]
  /\ UNCHANGED <<consumed, wire, told, buffer, cursor>>

\* ... and once more when the connection ends.
CloseWire(c) ==
  /\ wire[c] = "up" /\ flush[c] = 0
  /\ wire' = [wire EXCEPT ![c] = "closing"]
  /\ flush' = [flush EXCEPT ![c] = buffer[c]]
  /\ UNCHANGED <<consumed, told, buffer, cursor>>

\* UPSERT_SYNC_CURSORS: GREATEST of the stored position and the incoming one.
Stored(stored, seq) == Further(stored, seq)

FlushCommits(c) ==
  /\ flush[c] > 0
  /\ cursor' = Stored(cursor, flush[c])
  /\ buffer' = [buffer EXCEPT ![c] = 0]
  /\ flush' = [flush EXCEPT ![c] = 0]
  /\ UNCHANGED <<consumed, wire, told>>

\* An error keeps the buffer for the next beat; the statement may have committed though.
FlushFails(c) ==
  /\ flush[c] > 0
  /\ cursor' \in {cursor, Stored(cursor, flush[c])}
  /\ flush' = [flush EXCEPT ![c] = 0]
  /\ UNCHANGED <<consumed, wire, told, buffer>>

WireDown(c) ==
  /\ wire[c] = "closing" /\ flush[c] = 0
  /\ wire' = [wire EXCEPT ![c] = "down"]
  /\ told' = [told EXCEPT ![c] = 0]
  /\ buffer' = [buffer EXCEPT ![c] = 0]
  /\ UNCHANGED <<consumed, flush, cursor>>

CursorRestart ==
  /\ wire' = [c \in Wire |-> "down"]
  /\ told' = [c \in Wire |-> 0]
  /\ buffer' = [c \in Wire |-> 0]
  /\ flush' = [c \in Wire |-> 0]
  /\ UNCHANGED <<consumed, cursor>>

CursorNext ==
  \/ ConsumeMore \/ CursorRestart
  \/ \E c \in Wire :
       \/ OpenWire(c) \/ CloseWire(c) \/ WireDown(c)
       \/ \E seq \in 1 .. Position : RecordCursor(c, seq)
       \/ FlushStarts(c) \/ FlushCommits(c) \/ FlushFails(c)

CursorSpec == CursorInit /\ [][CursorNext]_cursorVars

-----------------------------------------------------------------------------
CursorTypeOK ==
  /\ consumed \in 0 .. Position
  /\ wire \in [Wire -> {"up", "closing", "down"}]
  /\ told \in [Wire -> 0 .. Position]
  /\ buffer \in [Wire -> 0 .. Position]
  /\ flush \in [Wire -> 0 .. Position]
  /\ cursor \in 0 .. Position

\* What a live connection was told is stored or still buffered, through every failed,
\* repeated or overtaken flush; and the stored cursor never passes what the Device has
\* consumed, so resuming from it skips nothing.
ReportsAreKept ==
  /\ \A c \in Wire : wire[c] # "down" => told[c] <= cursor \/ told[c] <= buffer[c]
  /\ cursor <= consumed
  /\ \A c \in Wire : buffer[c] <= consumed /\ flush[c] <= buffer[c]
=============================================================================
