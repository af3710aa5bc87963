------------------------------- MODULE Socket -------------------------------
(***************************************************************************)
(* The realtime socket of one browser tab (RealtimeSocket) and the part of  *)
(* the realtime store that rides on it: the view connects and disconnects,  *)
(* WebSockets open, go silent and close in any order with the reconnect     *)
(* timer, the staleness watchdog, the platform's hints and the access token.*)
(***************************************************************************)
EXTENDS Naturals, Sequences

CONSTANTS MaxSockets,   \* bound: WebSockets a behaviour opens
          MaxFrames     \* bound: frames the server sends on one of them

ASSUME SocketAssumption == MaxSockets \in Nat \ {0} /\ MaxFrames \in Nat \ {0}

VARIABLES link,      \* the WebSockets so far: [is, sent, read, resumes]
          line,      \* RealtimeSocket: socket (0 for null), the two timers, closedByUser, ...
          place,     \* the store: status, lastSequence (0 for null), consumed, handshaken
          signedIn   \* the token provider returns a token

socketVars == <<link, line, place, signedIn>>

SocketInit ==
  /\ link = <<>> /\ signedIn \in BOOLEAN
  /\ line = [socket |-> 0, reconnect |-> FALSE, stale |-> FALSE, attempt |-> 0,
             closedByUser |-> TRUE, lifecycle |-> FALSE]
  /\ place = [status |-> "idle", last |-> 0, consumed |-> 0, handshaken |-> FALSE]

\* What a status does to the store: another connection numbers its frames anew.
Told(status) ==
  [place EXCEPT !.status = status,
                !.last = IF status \in {"connecting", "reconnecting"} THEN 0 ELSE @,
                !.handshaken = IF status \in {"connecting", "reconnecting"} THEN FALSE ELSE @]

Living(w) == link[w].is \in {"connecting", "open", "silent"}

\* open(): without a token it stays idle; `from` is the line the caller leaves behind.
Open(from) ==
  IF ~ signedIn THEN line' = from /\ place' = Told("idle") /\ UNCHANGED link
  ELSE /\ Len(link) < MaxSockets
       /\ link' = Append(link, [is |-> "connecting", sent |-> 0, read |-> 0, resumes |-> <<>>])
       /\ line' = [from EXCEPT !.socket = Len(link) + 1, !.lifecycle = TRUE]
       /\ place' = Told(IF from.attempt = 0 THEN "connecting" ELSE "reconnecting")

\* The store builds a RealtimeSocket when it has none, and a view connects once.
ConnectSocket ==
  /\ line.closedByUser
  /\ Open([socket |-> 0, reconnect |-> FALSE, stale |-> FALSE, attempt |-> 0,
           closedByUser |-> FALSE, lifecycle |-> FALSE])
  /\ UNCHANGED signedIn

\* close(), then the store forgets the connection but not what was consumed.
Disconnect ==
  /\ ~ line.closedByUser
  /\ link' = IF line.socket # 0 /\ Living(line.socket)
             THEN [link EXCEPT ![line.socket].is = "closing"] ELSE link
  /\ line' = [line EXCEPT !.socket = 0, !.reconnect = FALSE, !.stale = FALSE,
                          !.closedByUser = TRUE, !.lifecycle = FALSE]
  /\ place' = [Told("closed") EXCEPT !.last = 0, !.handshaken = FALSE]
  /\ UNCHANGED signedIn

OnOpen(w) ==
  /\ link[w].is = "connecting"
  /\ link' = [link EXCEPT ![w].is = "open"]
  /\ IF line.socket = w
     THEN line' = [line EXCEPT !.attempt = 0, !.stale = TRUE] /\ place' = Told("open")
     ELSE UNCHANGED <<line, place>>
  /\ UNCHANGED signedIn

ServerSends(w) ==
  /\ link[w].is \in {"open", "closing"} /\ link[w].sent < MaxFrames
  /\ link' = [link EXCEPT ![w].sent = @ + 1]
  /\ UNCHANGED <<line, place, signedIn>>

\* onmessage and applyEnvelope: the first frame is the opening heartbeat, answered with the
\* position consumed before it.  What a superseded socket still delivers is dropped.
OnMessage(w) ==
  LET s == link[w].read + 1 IN
  /\ link[w].is \in {"open", "silent"} /\ link[w].read < link[w].sent
  /\ IF line.socket # w
     THEN link' = [link EXCEPT ![w].read = s] /\ UNCHANGED <<line, place>>
     ELSE /\ link' = [link EXCEPT ![w].read = s,
                                  ![w].resumes = IF place.handshaken THEN @ ELSE Append(@, place.consumed)]
          /\ line' = [line EXCEPT !.stale = TRUE]
          /\ place' = [place EXCEPT !.last = s, !.consumed = s, !.handshaken = TRUE]
  /\ UNCHANGED signedIn

\* A half-open link: nothing comes any more, and no close event either.
GoesSilent(w) ==
  /\ link[w].is = "open" /\ link' = [link EXCEPT ![w].is = "silent"]
  /\ UNCHANGED <<line, place, signedIn>>

ClosesLine(w) == line.socket = w

\* onclose; scheduleReconnect arms the backoff.
OnClose(w) ==
  /\ link[w].is \in {"connecting", "open", "closing"}
  /\ link' = [link EXCEPT ![w].is = "closed"]
  /\ IF ClosesLine(w)
     THEN /\ line' = [line EXCEPT !.socket = 0, !.stale = FALSE, !.reconnect = TRUE,
                                  !.attempt = IF @ < 2 THEN @ + 1 ELSE @]
          /\ place' = Told("reconnecting")
     ELSE UNCHANGED <<line, place>>
  /\ UNCHANGED signedIn

ReconnectFires ==
  /\ line.reconnect /\ Open([line EXCEPT !.reconnect = FALSE])
  /\ UNCHANGED signedIn

\* The platform says the network is back, or the tab is visible.
RetryNow ==
  /\ line.lifecycle /\ ~ line.closedByUser /\ line.socket = 0
  /\ Open([line EXCEPT !.reconnect = FALSE, !.attempt = 0])
  /\ UNCHANGED signedIn

\* reconnectAfterStall: close() of a silent link; its close event will follow.
WatchdogFires ==
  /\ line.stale
  /\ line' = [line EXCEPT !.stale = FALSE]
  /\ link' = IF line.socket # 0 /\ Living(line.socket)
             THEN [link EXCEPT ![line.socket].is = "closing"] ELSE link
  /\ UNCHANGED <<place, signedIn>>

SignInOrOut == signedIn' = ~ signedIn /\ UNCHANGED <<link, line, place>>

SocketNext ==
  \/ ConnectSocket \/ Disconnect \/ ReconnectFires \/ RetryNow \/ WatchdogFires \/ SignInOrOut
  \/ \E w \in DOMAIN link :
       OnOpen(w) \/ ServerSends(w) \/ OnMessage(w) \/ GoesSilent(w) \/ OnClose(w)

SocketTypeOK ==
  /\ Len(link) <= MaxSockets /\ line.socket \in 0 .. Len(link)
  /\ \A w \in DOMAIN link : link[w].read <= link[w].sent

-----------------------------------------------------------------------------
\* The tab keeps one line: a WebSocket it has let go of is never left open; a view that is
\* connected waits for a socket or for a timer unless it found itself signed out, and for
\* the watchdog when its socket may be half-open; what counts as consumed on the current
\* connection was read from it, and each connection got one wake-up handshake, naming a
\* position consumed before it.
OneLine ==
  /\ \A w \in DOMAIN link : Living(w) => line.socket = w
  /\ line.socket = 0 \/ ~ line.reconnect
  /\ ~ line.closedByUser /\ place.status # "idle" => line.socket # 0 \/ line.reconnect
  /\ line.socket # 0 /\ link[line.socket].is \in {"open", "silent"} => line.stale
  /\ line.closedByUser => line.socket = 0 /\ ~ line.reconnect /\ ~ line.stale
  /\ place.status = "open" => line.socket # 0
  /\ place.last = IF line.socket = 0 THEN 0 ELSE link[line.socket].read
  /\ \A w \in DOMAIN link :
       Len(link[w].resumes) <= 1 /\ (w = line.socket /\ link[w].read > 0 => Len(link[w].resumes) = 1)
=============================================================================
