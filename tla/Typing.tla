------------------------------- MODULE Typing -------------------------------
(***************************************************************************)
(* Typing Indicators: crates/realtime/src/typing.rs and the receiving half *)
(* of stores/typing.ts.  One Participant of one Conversation types on      *)
(* several Devices; the others watch.  The directory's lock is taken with  *)
(* the decision and kept while the audience is read and the event fanned   *)
(* out.  Instants are kept as the ages the code compares, in units of time. *)
(***************************************************************************)
EXTENDS Integers, Sequences, SequencesExt

CONSTANTS Device, Watcher,
          Ttl, Throttling,     \* TypingLimits: ttl and throttle
          QueueLimit           \* room for typing events in a connection's control queue

ASSUME TypingAssumption == /\ Throttling \in Nat \ {0} /\ Ttl \in Nat /\ Ttl > Throttling
                           /\ QueueLimit \in Nat \ {0}

VARIABLES entry,        \* the directory's entry for the typist
          signal,       \* [Device -> the signal whose handler holds the lock]
          participant,  \* whether the typist still belongs to the Conversation
          inbox,        \* [Watcher -> events on their way]
          missed,       \* [Watcher -> whether the newest event found the queue full]
          screen        \* [Watcher -> time left of the indicator shown, 0 for none]

typingVars == <<entry, signal, participant, inbox, missed, screen>>

NoEntry == [held |-> FALSE, active |-> FALSE, age |-> 0]
NoSignal == [phase |-> "none", state |-> "none", since |-> 0]

TypingInit ==
  /\ entry = NoEntry
  /\ signal = [d \in Device |-> NoSignal]
  /\ participant \in BOOLEAN
  /\ inbox = [w \in Watcher |-> <<>>]
  /\ missed = [w \in Watcher |-> FALSE]
  /\ screen = [w \in Watcher |-> 0]

-----------------------------------------------------------------------------
\* TypingEntry::is_active
IsActive == entry.held /\ entry.active /\ entry.age < Ttl

\* TypingDirectory::decide
Decide(state) ==
  \/ state = "Started" /\ (~ IsActive \/ entry.age >= Throttling)
  \/ state = "Stopped" /\ IsActive

LockFree == \A d \in Device : signal[d] = NoSignal

Holds(d, phase) == signal[d].phase = phase
Release(d) == signal' = [signal EXCEPT ![d] = NoSignal]

\* handle_typing and clear_typing: under the lock, the instant is read and the signal
\* weighed against the directory; one that earns no fan-out ends here.
Signal(d, state) ==
  /\ LockFree
  /\ signal[d] = NoSignal
  /\ Decide(state)
  /\ signal' = [signal EXCEPT ![d] = [phase |-> "audience", state |-> state, since |-> 0]]
  /\ UNCHANGED <<entry, participant, inbox, missed, screen>>

\* A message is sent: the strongest stop there is.
ClearTyping(d) == participant /\ Signal(d, "Stopped")

\* conversation_audience refuses the sender or fails: nothing is left behind.
Forget(d) ==
  /\ Holds(d, "audience")
  /\ entry' = NoEntry
  /\ Release(d)
  /\ UNCHANGED <<participant, inbox, missed, screen>>

\* The transition is recorded at the instant it was decided at.
Record(d) ==
  /\ Holds(d, "audience")
  /\ participant
  /\ entry' = [held |-> TRUE, active |-> signal[d].state = "Started", age |-> signal[d].since]
  /\ signal' = [signal EXCEPT ![d].phase = "deliver"]
  /\ UNCHANGED <<participant, inbox, missed, screen>>

\* registry.deliver: a full control queue drops the event.
FanOut(d) ==
  /\ Holds(d, "deliver")
  /\ inbox' = [w \in Watcher |-> IF Len(inbox[w]) < QueueLimit
                                 THEN Append(inbox[w], signal[d].state) ELSE inbox[w]]
  /\ missed' = [w \in Watcher |-> Len(inbox[w]) >= QueueLimit]
  /\ Release(d)
  /\ UNCHANGED <<entry, participant, screen>>

\* The receiver's store: a start arms its own deadline, a stop clears it.
ApplyTyping(w) ==
  /\ inbox[w] # <<>>
  /\ screen' = [screen EXCEPT ![w] = IF Head(inbox[w]) = "Started" THEN Ttl ELSE 0]
  /\ inbox' = [inbox EXCEPT ![w] = Tail(@)]
  /\ UNCHANGED <<entry, signal, participant, missed>>

\* sweep_typing, on a heartbeat.
SweepTyping ==
  /\ LockFree
  /\ entry.held /\ ~ IsActive
  /\ entry' = NoEntry
  /\ UNCHANGED <<signal, participant, inbox, missed, screen>>

\* Membership changes elsewhere.
JoinOrLeave ==
  /\ participant' = ~ participant
  /\ UNCHANGED <<entry, signal, inbox, missed, screen>>

Older(n) == IF n < Ttl THEN n + 1 ELSE n

Elapse ==
  /\ entry' = IF entry.held THEN [entry EXCEPT !.age = Older(@)] ELSE entry
  /\ signal' = [d \in Device |-> IF Holds(d, "audience")
                                 THEN [signal[d] EXCEPT !.since = Older(@)] ELSE signal[d]]
  /\ screen' = [w \in Watcher |-> IF screen[w] > 0 THEN screen[w] - 1 ELSE 0]
  /\ UNCHANGED <<participant, inbox, missed>>

\* A restart: the map, its lock and the queues are gone, the screens are not.
TypingRestart ==
  /\ entry' = NoEntry
  /\ signal' = [d \in Device |-> NoSignal]
  /\ inbox' = [w \in Watcher |-> <<>>]
  /\ missed' = [w \in Watcher |-> FALSE]
  /\ UNCHANGED <<participant, screen>>

TypingNext ==
  \/ \E d \in Device : \/ \E state \in {"Started", "Stopped"} : Signal(d, state)
                       \/ ClearTyping(d) \/ Forget(d) \/ Record(d) \/ FanOut(d)
  \/ \E w \in Watcher : ApplyTyping(w)
  \/ SweepTyping \/ JoinOrLeave \/ Elapse \/ TypingRestart

TypingSpec == TypingInit /\ [][TypingNext]_typingVars

-----------------------------------------------------------------------------
TypingTypeOK ==
  /\ entry \in [held : BOOLEAN, active : BOOLEAN, age : 0 .. Ttl]
  /\ signal \in [Device -> [phase : {"audience", "deliver"}, state : {"Started", "Stopped"},
                            since : 0 .. Ttl] \cup {NoSignal}]
  /\ participant \in BOOLEAN
  /\ inbox \in [Watcher -> Seq({"Started", "Stopped"})]
  /\ \A w \in Watcher : Len(inbox[w]) <= QueueLimit
  /\ missed \in [Watcher -> BOOLEAN]
  /\ screen \in [Watcher -> 0 .. Ttl]

\* What a watcher will show once everything on its way has arrived.
WillShow(w) ==
  IF \E d \in Device : Holds(d, "deliver")
  THEN \E d \in Device : Holds(d, "deliver") /\ signal[d].state = "Started"
  ELSE IF inbox[w] # <<>> THEN Last(inbox[w]) = "Started"
  ELSE screen[w] > 0

\* Screens follow the directory: whatever two Devices of the typist signal at once, an
\* indicator the server holds active is shown, or about to be, by every watcher whose
\* queue took the event, and one the server has cleared is not: a stop never cancels a
\* start that was ordered after it, nor the other way round.
ScreensFollowTheDirectory ==
  \A w \in Watcher :
    (~ missed[w] \/ \E d \in Device : Holds(d, "deliver")) =>
      /\ IsActive => WillShow(w)
      /\ entry.held /\ ~ entry.active => ~ WillShow(w)
=============================================================================
