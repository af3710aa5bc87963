---- MODULE ServicesProofs ----
EXTENDS MCServices, ServerProofs, OutboxProofs

-----------------------------------------------------------------------------
(* The client's socket *)

Links == [is : {"connecting", "open", "silent", "closing", "closed"},
          sent : Nat, read : Nat, resumes : Seq(Nat)]
LineStates == [socket : Nat, reconnect : BOOLEAN, stale : BOOLEAN, attempt : Nat,
          closedByUser : BOOLEAN, lifecycle : BOOLEAN]
Places == [status : {"idle", "connecting", "reconnecting", "open", "closed"},
           last : Nat, consumed : Nat, handshaken : BOOLEAN]

\* The handshake of the current connection has been made exactly when it has read a frame.
SocketInv ==
  /\ link \in Seq(Links) /\ line \in LineStates /\ place \in Places
  /\ SocketTypeOK
  /\ OneLine
  /\ line.socket = 0 => ~ place.handshaken
  /\ line.socket # 0 => /\ place.handshaken <=> link[line.socket].read > 0
                        /\ Len(link[line.socket].resumes) = IF place.handshaken THEN 1 ELSE 0

LEMMA SocketInitially == SocketInit => SocketInv
  BY SocketAssumption DEF SocketInit, SocketInv, SocketTypeOK, OneLine, LineStates, Places, Living

\* What a status leaves of the place of the store.
LEMMA ToldOf ==
  ASSUME NEW status \in {"idle", "connecting", "reconnecting", "open", "closed"}, place \in Places
  PROVE  /\ Told(status) \in Places /\ Told(status).status = status
         /\ status \in {"connecting", "reconnecting"} =>
              Told(status).last = 0 /\ Told(status).handshaken = FALSE
         /\ status \notin {"connecting", "reconnecting"} =>
              Told(status).last = place.last /\ Told(status).handshaken = place.handshaken
  BY DEF Told, Places

\* Opening from a line without a socket keeps everything.
LEMMA Opens ==
  ASSUME SocketInv, NEW from \in LineStates, Open(from), line.socket = 0,
         from.socket = 0, ~ from.reconnect, ~ from.closedByUser
  PROVE  SocketInv'
<1>1. link \in Seq(Links) /\ place \in Places /\ line \in LineStates /\ Len(link) <= MaxSockets
      /\ \A w \in DOMAIN link : ~ Living(w) /\ link[w].read <= link[w].sent /\ Len(link[w].resumes) <= 1
      /\ place.last = 0 /\ ~ place.handshaken
  BY DEF SocketInv, OneLine, SocketTypeOK
<1>0. place \in Places /\ place.last = 0 /\ ~ place.handshaken
  BY DEF SocketInv, OneLine
<1>2. CASE ~ signedIn
  <2>1. line' = from /\ place' = Told("idle") /\ link' = link
    BY <1>2 DEF Open
  <2>2. place' \in Places /\ place'.status = "idle" /\ place'.last = 0 /\ ~ place'.handshaken
    <3>1. /\ Told("idle") \in Places /\ Told("idle").status = "idle"
          /\ Told("idle").last = 0 /\ ~ Told("idle").handshaken
      <4>1. place \in Places /\ place.last = 0 /\ place.handshaken = FALSE
        BY <1>0 DEF Places
      <4>2. Told("idle") = [place EXCEPT !.status = "idle", !.last = @, !.handshaken = @]
        BY DEF Told
      <4> QED BY <4>1, <4>2 DEF Places
    <3> QED BY <1>1, <2>1, <3>1
  <2>3. \A w \in DOMAIN link' : ~ (Living(w))'
    BY <1>1, <2>1 DEF Living
  <2> QED BY <1>1, <2>1, <2>2, <2>3 DEF SocketInv, OneLine, SocketTypeOK
<1>3. CASE signedIn
  <2> DEFINE new == [is |-> "connecting", sent |-> 0, read |-> 0, resumes |-> <<>>]
             n == Len(link) + 1
             status == IF from.attempt = 0 THEN "connecting" ELSE "reconnecting"
  <2>1. /\ Len(link) < MaxSockets /\ link' = Append(link, new)
        /\ line' = [from EXCEPT !.socket = n, !.lifecycle = TRUE]
        /\ place' = Told(status)
    BY <1>3 DEF Open
  <2>2. new \in Links
    BY DEF Links
  <2>3. /\ link' \in Seq(Links) /\ Len(link') = n /\ DOMAIN link' = 1 .. n /\ DOMAIN link = 1 .. Len(link)
        /\ n \in Nat /\ n # 0 /\ link'[n] = new /\ \A w \in DOMAIN link : link'[w] = link[w]
    <3> HIDE DEF new
    <3> QED BY <1>1, <2>1, <2>2
  <2>4. /\ line' \in LineStates /\ line'.socket = n /\ line'.reconnect = from.reconnect
        /\ line'.closedByUser = from.closedByUser
    BY <2>1, <2>3 DEF LineStates
  <2>5. /\ place' \in Places /\ place'.status \in {"connecting", "reconnecting"}
        /\ place'.last = 0 /\ place'.handshaken = FALSE
    BY <1>1, <2>1, ToldOf
  <2>6. new.is = "connecting" /\ new.sent = 0 /\ new.read = 0 /\ Len(new.resumes) = 0
    OBVIOUS
  <2> HIDE DEF new, n
  <2>7. \A w \in DOMAIN link' : w = n \/ (w \in DOMAIN link /\ w # n)
    BY <1>1, <2>3 DEF n
  <2>8. \A w \in DOMAIN link : ~ (Living(w))'
    BY <1>1, <2>3 DEF Living
  <2>9. SocketTypeOK'
    <3>1. \A w \in DOMAIN link' : link'[w].read <= link'[w].sent
      BY <1>1, <2>3, <2>6, <2>7
    <3>2. n <= MaxSockets
      BY <2>1, <1>1, SocketAssumption DEF n
    <3> QED BY <2>3, <2>4, <3>1, <3>2 DEF SocketTypeOK
  <2>10. OneLine'
    <3>1. \A w \in DOMAIN link' : Living(w)' => line'.socket = w
      BY <2>4, <2>7, <2>8
    <3>2. \A w \in DOMAIN link' : Len(link'[w].resumes) <= 1 /\ ~ (w = n /\ link'[w].read > 0)
      BY <1>1, <2>3, <2>6, <2>7
    <3> QED BY <2>3, <2>4, <2>5, <2>6, <3>1, <3>2 DEF OneLine
  <2> QED BY <2>3, <2>4, <2>5, <2>6, <2>9, <2>10 DEF SocketInv
<1> QED BY <1>2, <1>3

\* A step that leaves the line and the store alone, and of the WebSockets only one that
\* stays as living as it was, having sent or, when the line has let go of it, read more.
LEMMA OneMoves ==
  ASSUME SocketInv, NEW w \in DOMAIN link, NEW r \in Links, link' = [link EXCEPT ![w] = r],
         UNCHANGED <<line, place>>,
         r.is \in {"connecting", "open", "silent"} =>
           Living(w) /\ (line.socket = w /\ r.is # "connecting" => link[w].is # "connecting"),
         line.socket = w => r.read = link[w].read,
         r.resumes = link[w].resumes, r.read <= r.sent
  PROVE  SocketInv'
<1>1. link \in Seq(Links) /\ line \in LineStates /\ place \in Places
  BY DEF SocketInv
<1>2. /\ link' \in Seq(Links) /\ Len(link') = Len(link) /\ DOMAIN link' = DOMAIN link
      /\ link'[w] = r /\ \A v \in DOMAIN link : v # w => link'[v] = link[v]
  BY <1>1
<1>3. \A v \in DOMAIN link : Living(v)' => Living(v)
  BY <1>2 DEF Living
<1>4. SocketTypeOK'
  BY <1>2 DEF SocketInv, SocketTypeOK
<1>5. \A v \in DOMAIN link : /\ link'[v].resumes = link[v].resumes
                             /\ line.socket = v => link'[v].read = link[v].read
  BY <1>2
<1>6. line.socket # 0 => line.socket \in DOMAIN link
  BY <1>1 DEF SocketInv, SocketTypeOK
<1>7. \A v \in DOMAIN link : v = line.socket /\ link'[v].is \in {"open", "silent"} => link[v].is \in {"open", "silent"}
  BY <1>2 DEF Living
<1>8. OneLine'
  BY <1>1, <1>2, <1>3, <1>5, <1>6, <1>7 DEF SocketInv, OneLine
<1> QED BY <1>1, <1>2, <1>4, <1>5, <1>6, <1>8 DEF SocketInv

LEMMA SocketStep == SocketInv /\ [SocketNext]_socketVars => SocketInv'
<1> SUFFICES ASSUME SocketInv, [SocketNext]_socketVars PROVE SocketInv'
  OBVIOUS
<1>1. link \in Seq(Links) /\ line \in LineStates /\ place \in Places /\ SocketTypeOK /\ OneLine
  BY DEF SocketInv
<1>2. line.socket # 0 => line.socket \in DOMAIN link
  BY <1>1 DEF SocketTypeOK
<1>3. CASE ConnectSocket
  <2> DEFINE from == [socket |-> 0, reconnect |-> FALSE, stale |-> FALSE, attempt |-> 0,
                      closedByUser |-> FALSE, lifecycle |-> FALSE]
  <2>1. from \in LineStates /\ from.socket = 0 /\ from.reconnect = FALSE /\ from.closedByUser = FALSE
    BY DEF LineStates
  <2>2. Open(from) /\ line.socket = 0
    BY <1>1, <1>3 DEF ConnectSocket, OneLine
  <2> HIDE DEF from
  <2> QED BY <2>1, <2>2, Opens
<1>4. CASE ReconnectFires
  <2> DEFINE from == [line EXCEPT !.reconnect = FALSE]
  <2>1. Open(from) /\ line.socket = 0 /\ ~ line.closedByUser
    BY <1>1, <1>4 DEF ReconnectFires, OneLine
  <2>2. from \in LineStates /\ from.socket = 0 /\ from.reconnect = FALSE /\ ~ from.closedByUser
    BY <1>1, <2>1 DEF LineStates
  <2> HIDE DEF from
  <2> QED BY <2>1, <2>2, Opens
<1>5. CASE RetryNow
  <2> DEFINE from == [line EXCEPT !.reconnect = FALSE, !.attempt = 0]
  <2>1. Open(from) /\ line.socket = 0 /\ ~ line.closedByUser
    BY <1>1, <1>5 DEF RetryNow, OneLine
  <2>2. from \in LineStates /\ from.socket = 0 /\ from.reconnect = FALSE /\ ~ from.closedByUser
    BY <1>1, <2>1 DEF LineStates
  <2> HIDE DEF from
  <2> QED BY <2>1, <2>2, Opens
\* What closing the current WebSocket does to the WebSockets.
<1>6. ASSUME link' = IF line.socket # 0 /\ Living(line.socket)
                     THEN [link EXCEPT ![line.socket].is = "closing"] ELSE link
      PROVE  /\ link' \in Seq(Links) /\ Len(link') = Len(link) /\ DOMAIN link' = DOMAIN link
             /\ \A w \in DOMAIN link : /\ link'[w].read = link[w].read /\ link'[w].sent = link[w].sent
                                       /\ link'[w].resumes = link[w].resumes
                                       /\ ~ (Living(w))'
  <2>1. CASE line.socket # 0 /\ Living(line.socket)
    <3> DEFINE r == [link[line.socket] EXCEPT !.is = "closing"]
    <3>1. link' = [link EXCEPT ![line.socket] = r]
      BY <1>6, <2>1
    <3>2. link[line.socket] \in Links
      BY <1>1, <1>2, <2>1
    <3>3. r \in Links /\ r.is = "closing" /\ r.read = link[line.socket].read
          /\ r.sent = link[line.socket].sent /\ r.resumes = link[line.socket].resumes
      BY <3>2 DEF Links
    <3> HIDE DEF r
    <3>4. /\ link' \in Seq(Links) /\ Len(link') = Len(link) /\ DOMAIN link' = DOMAIN link
          /\ link'[line.socket] = r /\ \A v \in DOMAIN link : v # line.socket => link'[v] = link[v]
      BY <1>1, <1>2, <2>1, <3>1, <3>3
    <3>5. \A w \in DOMAIN link : ~ (Living(w))'
      BY <1>1, <3>3, <3>4 DEF OneLine, Living
    <3> QED BY <3>3, <3>4, <3>5
  <2>2. CASE ~ (line.socket # 0 /\ Living(line.socket))
    <3>1. link' = link
      BY <1>6, <2>2
    <3>2. \A w \in DOMAIN link : w # 0
      BY <1>1
    <3>3. \A w \in DOMAIN link : ~ Living(w)
      BY <1>1, <2>2, <3>2 DEF OneLine
    <3> QED BY <1>1, <3>1, <3>3 DEF Living
  <2> QED BY <2>1, <2>2
<1>8. CASE Disconnect
  <2>1. /\ line' = [line EXCEPT !.socket = 0, !.reconnect = FALSE, !.stale = FALSE,
                                !.closedByUser = TRUE, !.lifecycle = FALSE]
        /\ place' = [Told("closed") EXCEPT !.last = 0, !.handshaken = FALSE]
        /\ link' = IF line.socket # 0 /\ Living(line.socket)
                   THEN [link EXCEPT ![line.socket].is = "closing"] ELSE link
    BY <1>8 DEF Disconnect
  <2>2. line' \in LineStates /\ line'.socket = 0 /\ ~ line'.reconnect /\ ~ line'.stale /\ line'.closedByUser
    <3>1. line' \in LineStates
      BY <1>1, <2>1 DEF LineStates
    <3> QED BY <1>1, <2>1 DEF LineStates
  <2>3. Told("closed") \in Places /\ Told("closed").status = "closed"
    BY <1>1, ToldOf
  <2>4. place' \in Places /\ place'.status = "closed" /\ place'.last = 0 /\ ~ place'.handshaken
    BY <2>1, <2>3 DEF Places
  <2>5. SocketTypeOK'
    BY <1>1, <1>6, <2>1, <2>2 DEF SocketTypeOK
  <2>6. OneLine'
    BY <1>1, <1>6, <2>1, <2>2, <2>4 DEF OneLine
  <2> QED BY <1>6, <2>1, <2>2, <2>4, <2>5, <2>6 DEF SocketInv
<1>9. CASE WatchdogFires
  <2>1. /\ line' = [line EXCEPT !.stale = FALSE] /\ place' = place
        /\ link' = IF line.socket # 0 /\ Living(line.socket)
                   THEN [link EXCEPT ![line.socket].is = "closing"] ELSE link
    BY <1>9 DEF WatchdogFires
  <2>2. line' \in LineStates /\ line'.socket = line.socket /\ line'.reconnect = line.reconnect
        /\ line'.closedByUser = line.closedByUser /\ ~ line'.stale
    BY <1>1, <2>1 DEF LineStates
  <2>5. SocketTypeOK'
    BY <1>1, <1>6, <2>1, <2>2 DEF SocketTypeOK
  <2>6. line.socket # 0 => link'[line.socket].is \notin {"open", "silent"}
    BY <1>2, <1>6, <2>1 DEF Living
  <2>7. OneLine'
    BY <1>1, <1>2, <1>6, <2>1, <2>2, <2>6 DEF OneLine
  <2> QED BY <1>1, <1>2, <1>6, <2>1, <2>2, <2>5, <2>7 DEF SocketInv
<1>10. CASE SignInOrOut \/ UNCHANGED socketVars
  BY <1>10 DEF SignInOrOut, socketVars, SocketInv, SocketTypeOK, OneLine, Living
<1>11. ASSUME NEW w \in DOMAIN link,
              OnOpen(w) \/ ServerSends(w) \/ OnMessage(w) \/ GoesSilent(w) \/ OnClose(w)
       PROVE  SocketInv'
  <2>1. link[w] \in Links /\ w # 0
    BY <1>1
  \* The WebSocket that moves, as its successor.
  <2>2. ASSUME NEW r \in Links, link' = [link EXCEPT ![w] = r]
        PROVE  /\ link' \in Seq(Links) /\ Len(link') = Len(link) /\ DOMAIN link' = DOMAIN link
               /\ link'[w] = r /\ \A v \in DOMAIN link : v # w => link'[v] = link[v]
    BY <1>1, <2>2
  <2>3. CASE ServerSends(w)
    <3> DEFINE next == link[w].sent + 1
               r == [link[w] EXCEPT !.sent = next]
    <3>0. next \in Nat
      BY <2>1 DEF Links
    <3> HIDE DEF next
    <3>1. r \in Links /\ r.is = link[w].is /\ r.read = link[w].read /\ r.sent = next
          /\ r.resumes = link[w].resumes /\ link[w].read \in Nat /\ link[w].sent \in Nat
      BY <2>1, <3>0 DEF Links
    <3>2. link' = [link EXCEPT ![w] = r] /\ UNCHANGED <<line, place>>
      BY <2>3 DEF ServerSends, next
    <3>3. r.read <= r.sent
      BY <1>1, <3>1 DEF SocketTypeOK, next
    <3> HIDE DEF r
    <3> QED BY <3>1, <3>2, <3>3, OneMoves DEF Living
  <2>4. CASE GoesSilent(w)
    <3> DEFINE r == [link[w] EXCEPT !.is = "silent"]
    <3>1. r \in Links /\ r.is = "silent" /\ r.read = link[w].read /\ r.sent = link[w].sent
          /\ r.resumes = link[w].resumes
      BY <2>1 DEF Links
    <3>2. link' = [link EXCEPT ![w] = r] /\ UNCHANGED <<line, place>> /\ link[w].is = "open"
      BY <2>4 DEF GoesSilent
    <3>3. r.read <= r.sent
      BY <1>1, <3>1 DEF SocketTypeOK
    <3> HIDE DEF r
    <3> QED BY <3>1, <3>2, <3>3, OneMoves DEF Living
  <2>5. CASE OnClose(w)
    <3> DEFINE r == [link[w] EXCEPT !.is = "closed"]
    <3>1. r \in Links /\ r.is = "closed" /\ r.read = link[w].read /\ r.sent = link[w].sent
          /\ r.resumes = link[w].resumes
      BY <2>1 DEF Links
    <3>2. link' = [link EXCEPT ![w] = r]
      BY <2>5 DEF OnClose
    <3>3. r.read <= r.sent
      BY <1>1, <3>1 DEF SocketTypeOK
    <3> HIDE DEF r
    <3>4. CASE line.socket # w
      <4>1. UNCHANGED <<line, place>>
        BY <2>5, <3>4 DEF OnClose, ClosesLine
      <4> QED BY <3>1, <3>2, <3>3, <3>4, <4>1, OneMoves
    <3>5. CASE line.socket = w
      <4>1. /\ line' = [line EXCEPT !.socket = 0, !.stale = FALSE, !.reconnect = TRUE,
                                    !.attempt = IF @ < 2 THEN @ + 1 ELSE @]
            /\ place' = Told("reconnecting")
        BY <2>5, <3>5 DEF OnClose, ClosesLine
      <4>2. line' \in LineStates
        <5> DEFINE a == IF line.attempt < 2 THEN line.attempt + 1 ELSE line.attempt
        <5>1. a \in Nat
          BY <1>1 DEF LineStates
        <5> HIDE DEF a
        <5>2. line' = [line EXCEPT !.socket = 0, !.stale = FALSE, !.reconnect = TRUE, !.attempt = a]
          BY <4>1 DEF a
        <5> QED BY <1>1, <5>1, <5>2 DEF LineStates
      <4>3. /\ line'.socket = 0 /\ ~ line'.stale /\ line'.reconnect
            /\ line'.closedByUser = line.closedByUser
        BY <1>1, <4>1 DEF LineStates
      <4>4. /\ place' \in Places /\ place'.status = "reconnecting"
            /\ place'.last = 0 /\ place'.handshaken = FALSE
        BY <1>1, <4>1, ToldOf
      <4>5. /\ link' \in Seq(Links) /\ Len(link') = Len(link) /\ DOMAIN link' = DOMAIN link
            /\ link'[w] = r /\ \A v \in DOMAIN link : v # w => link'[v] = link[v]
        BY <2>2, <3>1, <3>2
      <4>6. \A v \in DOMAIN link : ~ (Living(v))'
        BY <1>1, <3>1, <3>5, <4>5 DEF Living, OneLine
      <4>7. SocketTypeOK'
        BY <1>1, <3>3, <4>3, <4>5 DEF SocketTypeOK
      <4>8. \A v \in DOMAIN link : Len(link'[v].resumes) <= 1 /\ v # 0
        BY <1>1, <3>1, <4>5 DEF OneLine
      <4>9. ~ line'.closedByUser
        BY <1>1, <2>1, <3>5, <4>3 DEF OneLine
      <4>10. OneLine'
        BY <4>3, <4>4, <4>5, <4>6, <4>8, <4>9 DEF OneLine
      <4> QED BY <4>2, <4>3, <4>4, <4>5, <4>7, <4>10 DEF SocketInv
    <3> QED BY <3>4, <3>5
  <2>6. CASE OnOpen(w)
    <3> DEFINE r == [link[w] EXCEPT !.is = "open"]
    <3>1. r \in Links /\ r.is = "open" /\ r.read = link[w].read /\ r.sent = link[w].sent
          /\ r.resumes = link[w].resumes
      BY <2>1 DEF Links
    <3>2. link' = [link EXCEPT ![w] = r] /\ link[w].is = "connecting"
      BY <2>6 DEF OnOpen
    <3>3. r.read <= r.sent
      BY <1>1, <3>1 DEF SocketTypeOK
    <3> HIDE DEF r
    <3>4. line.socket = w
      BY <1>1, <3>2 DEF OneLine, Living
    <3>5. line' = [line EXCEPT !.attempt = 0, !.stale = TRUE] /\ place' = Told("open")
      BY <2>6, <3>4 DEF OnOpen
    <3>6. line' \in LineStates /\ line'.socket = w /\ line'.stale /\ line'.reconnect = line.reconnect
          /\ line'.closedByUser = line.closedByUser
      BY <1>1, <3>4, <3>5 DEF LineStates
    <3>7. /\ place' \in Places /\ place'.status = "open"
          /\ place'.last = place.last /\ place'.handshaken = place.handshaken
      BY <1>1, <3>5, ToldOf
    <3>8. /\ link' \in Seq(Links) /\ Len(link') = Len(link) /\ DOMAIN link' = DOMAIN link
          /\ link'[w] = r /\ \A v \in DOMAIN link : v # w => link'[v] = link[v]
      BY <2>2, <3>1, <3>2
    <3>9. \A v \in DOMAIN link : v # w => ~ (Living(v))'
      BY <1>1, <3>4, <3>8 DEF Living, OneLine
    <3>10. SocketTypeOK'
      BY <1>1, <3>3, <3>4, <3>6, <3>8 DEF SocketTypeOK
    <3>11. \A v \in DOMAIN link : link'[v].resumes = link[v].resumes /\ link'[v].read = link[v].read
      BY <3>1, <3>8
    <3>12. ~ line.reconnect /\ ~ line.closedByUser
      BY <1>1, <2>1, <3>4 DEF OneLine
    <3>13. OneLine'
      BY <1>1, <2>1, <3>4, <3>6, <3>7, <3>8, <3>9, <3>11, <3>12 DEF OneLine
    <3> QED BY <2>1, <3>4, <3>6, <3>7, <3>8, <3>10, <3>11, <3>13 DEF SocketInv
  <2>7. CASE OnMessage(w)
    <3> DEFINE s == link[w].read + 1
    <3>1. link[w].is \in {"open", "silent"} /\ link[w].read < link[w].sent
      BY <2>7 DEF OnMessage
    <3>2. line.socket = w
      BY <1>1, <3>1 DEF OneLine, Living
    <3>3. /\ link' = [link EXCEPT ![w].read = s,
                                  ![w].resumes = IF place.handshaken THEN @ ELSE Append(@, place.consumed)]
          /\ line' = [line EXCEPT !.stale = TRUE]
          /\ place' = [place EXCEPT !.last = s, !.consumed = s, !.handshaken = TRUE]
      BY <2>7, <3>2 DEF OnMessage
    <3> DEFINE one == [link[w] EXCEPT !.read = s]
               kept == IF place.handshaken THEN one.resumes ELSE Append(one.resumes, place.consumed)
               r == [one EXCEPT !.resumes = kept]
    <3>4. one \in Links /\ one.is = link[w].is /\ one.read = s /\ one.sent = link[w].sent
          /\ one.resumes = link[w].resumes /\ s \in Nat /\ link[w].sent \in Nat /\ link[w].read \in Nat
          /\ link[w].resumes \in Seq(Nat)
      BY <2>1 DEF Links
    <3>5. place.consumed \in Nat /\ kept \in Seq(Nat)
      BY <1>1, <3>4 DEF Places
    <3>6. Len(link[w].resumes) = (IF place.handshaken THEN 1 ELSE 0)
      BY <2>1, <3>2 DEF SocketInv
    <3>7. Len(kept) = 1
      <4>1. CASE place.handshaken
        BY <3>4, <3>6, <4>1
      <4>2. CASE ~ place.handshaken
        <5>1. kept = Append(link[w].resumes, place.consumed)
          BY <3>4, <4>2
        <5> QED BY <3>4, <3>5, <3>6, <4>2, <5>1
      <4> QED BY <4>1, <4>2
    <3> HIDE DEF one, kept, s
    <3>8. r \in Links /\ r.is = link[w].is /\ r.read = s /\ r.sent = link[w].sent /\ r.resumes = kept
      BY <3>4, <3>5 DEF Links
    <3>9. link' = [link EXCEPT ![w] = r]
      BY <1>1, <3>3 DEF one, kept
    <3> HIDE DEF r
    <3>10. /\ link' \in Seq(Links) /\ Len(link') = Len(link) /\ DOMAIN link' = DOMAIN link
           /\ link'[w] = r /\ \A v \in DOMAIN link : v # w => link'[v] = link[v]
      BY <2>2, <3>8, <3>9
    <3>11. line' \in LineStates /\ line'.socket = w /\ line'.stale /\ line'.reconnect = line.reconnect
           /\ line'.closedByUser = line.closedByUser
      BY <1>1, <3>2, <3>3 DEF LineStates
    <3>12. /\ place' \in Places /\ place'.status = place.status
           /\ place'.last = s /\ place'.handshaken = TRUE
      BY <1>1, <3>3, <3>4 DEF Places
    <3>13. \A v \in DOMAIN link : v # w => ~ (Living(v))'
      BY <1>1, <3>2, <3>10 DEF Living, OneLine
    <3>14. s <= link[w].sent /\ s > 0
      BY <3>1, <3>4 DEF s
    <3>15. SocketTypeOK'
      BY <1>1, <3>8, <3>2, <3>11, <3>10, <3>14 DEF SocketTypeOK
    <3>16. ~ line.reconnect /\ ~ line.closedByUser
      BY <1>1, <2>1, <3>2 DEF OneLine
    <3>17. \A v \in DOMAIN link : Len(link'[v].resumes) <= 1 /\ (v = w => Len(link'[v].resumes) = 1)
      <4>1. ASSUME NEW v \in DOMAIN link, v # w
            PROVE  Len(link'[v].resumes) <= 1
        BY <1>1, <3>10, <4>1 DEF OneLine
      <4>2. Len(link'[w].resumes) = 1
        BY <3>7, <3>8, <3>10
      <4>3. ASSUME NEW v \in DOMAIN link
            PROVE  Len(link'[v].resumes) <= 1 /\ (v = w => Len(link'[v].resumes) = 1)
        <5>0. Len(link'[w].resumes) <= 1
          BY <4>2
        <5>1. CASE v = w
          BY Zenon, <4>2, <5>0, <5>1
        <5>2. CASE v # w
          BY <4>1, <5>2
        <5> QED BY <5>1, <5>2
      <4> QED BY <3>10, <4>3
    <3>18. OneLine'
      BY <2>1, <3>8, <3>10, <3>11, <3>12, <3>13, <3>16, <3>17 DEF OneLine
    <3> QED BY <2>1, <3>7, <3>8, <3>10, <3>11, <3>12, <3>14, <3>15, <3>18 DEF SocketInv
  <2> QED BY <1>11, <2>3, <2>4, <2>5, <2>6, <2>7
<1> QED
  BY <1>3, <1>4, <1>5, <1>8, <1>9, <1>10, <1>11 DEF SocketNext

-----------------------------------------------------------------------------
(* The desktop shell *)

AskedFor == [talk : Talk, kind : Kinds]
CallWindows == [label : {Label(r) : r \in AskedFor}, payload : AskedFor,
                page : {"loading", "told", "missed"}, listens : BOOLEAN,
                heard : SUBSET AskedFor, overheard : BOOLEAN]

\* Of identifiers as the server makes them, a label keeps everything.
LEMMA LabelsTellCalls ==
  ASSUME NEW r \in AskedFor, NEW s \in AskedFor, Label(r) = Label(s)
  PROVE  r = s
<1>1. ASSUME NEW q \in AskedFor
      PROVE  Label(q) = <<"call", q.talk, q.kind>>
  <2> DEFINE marks == q.talk
  <2>1. marks \in Seq(STRING) /\ Len(marks) \in 1 .. LongestId /\ \A i \in DOMAIN marks : Safe(marks[i])
    BY ShellAssumption DEF AskedFor
  <2> HIDE DEF marks
  <2>2. {i \in DOMAIN marks : Safe(marks[i])} = DOMAIN marks
    BY <2>1
  <2>3. Filtered(marks, DOMAIN marks) = marks
    BY <2>1, AllKept
  <2>4. Filtered(marks, {i \in DOMAIN marks : Safe(marks[i])}) = marks
    BY <2>2, <2>3, Zenon
  <2>5. marks # <<>> /\ Len(marks) <= LongestId /\ LongestId \in Nat /\ Len(marks) \in Nat
    BY <2>1 DEF LongestId
  <2>6. SubSeq(marks, 1, Len(marks)) = marks
    BY <2>1
  <2>7. SubSeq(marks, 1, IF Len(marks) < LongestId THEN Len(marks) ELSE LongestId) = marks
    <3>1. (IF Len(marks) < LongestId THEN Len(marks) ELSE LongestId) = Len(marks)
      BY <2>5
    <3> QED BY <2>6, <3>1, Zenon
  <2> QED BY Zenon, <2>4, <2>5, <2>7 DEF Label, marks
<1>2. Label(r) = <<"call", r.talk, r.kind>> /\ Label(s) = <<"call", s.talk, s.kind>>
  BY <1>1
<1>3. r.talk = s.talk /\ r.kind = s.kind
  <2> DEFINE T(q) == <<"call", q.talk, q.kind>>
  <2>1. T(r) = T(s)
    BY <1>2
  <2>2. T(r)[2] = r.talk /\ T(r)[3] = r.kind /\ T(s)[2] = s.talk /\ T(s)[3] = s.kind
    OBVIOUS
  <2> HIDE DEF T
  <2> QED BY <2>1, <2>2
<1> QED BY <1>3 DEF AskedFor

\* The clicks told so far, and the notification that may yet be told: it is the last shown,
\* and none of the clicks stands for it.
ClicksFollow ==
  /\ clicked.shown \in Seq(Talk) /\ clicked.emitted \in Seq(Talk)
  /\ noticed # <<>> => Len(clicked.shown) > 0 /\ noticed = clicked.shown[Len(clicked.shown)]
  /\ \E at \in [DOMAIN clicked.emitted -> DOMAIN clicked.shown] :
       /\ \A i \in DOMAIN clicked.emitted : clicked.emitted[i] = clicked.shown[at[i]]
       /\ \A i, j \in DOMAIN clicked.emitted : i < j => at[i] < at[j]
       /\ noticed # <<>> => \A i \in DOMAIN clicked.emitted : at[i] < Len(clicked.shown)

ClickedIsClicked == clicked = [shown |-> clicked.shown, emitted |-> clicked.emitted]

WindowsAreTold ==
  /\ calls \subseteq CallWindows
  /\ \A h \in handles : h.request \in AskedFor /\ h.label = Label(h.request)
  /\ \A w \in calls :
       /\ w.label = Label(w.payload)
       /\ [request |-> w.payload, label |-> w.label] \in handles
       /\ w.page = "told" /\ ~ w.overheard => w.heard = {w.payload}

ShellInv ==
  /\ ShellTypeOK /\ WindowsAreTold
  /\ ClickedIsClicked /\ ClicksFollow
  /\ main = "gone" => quit

LEMMA ShellInitially == ShellInit => ShellInv
<1> SUFFICES ASSUME ShellInit PROVE ShellInv
  OBVIOUS
<1>1. clicked.shown = <<>> /\ clicked.emitted = <<>> /\ ClickedIsClicked
  BY DEF ShellInit, ClickedIsClicked
<1>2. \A i \in DOMAIN clicked.emitted : FALSE
  BY <1>1
<1>3. ClicksFollow
  <2> DEFINE at == [i \in DOMAIN clicked.emitted |-> i]
  <2>1. at \in [DOMAIN clicked.emitted -> DOMAIN clicked.shown]
    BY <1>2
  <2>2. clicked.shown \in Seq(Talk) /\ clicked.emitted \in Seq(Talk) /\ noticed = <<>>
    BY <1>1 DEF ShellInit
  <2> HIDE DEF at
  <2> QED BY <1>2, <2>1, <2>2 DEF ClicksFollow
<1>4. ShellTypeOK /\ WindowsAreTold /\ (main = "gone" => quit)
  BY DEF ShellInit, ShellTypeOK, WindowsAreTold
<1> QED BY <1>1, <1>3, <1>4 DEF ShellInv

LEMMA ShellMeans == ShellInv => CallsKeepTheirWindows
<1> SUFFICES ASSUME ShellInv PROVE CallsKeepTheirWindows
  OBVIOUS
<1>1. \A h, g \in handles : h.label = g.label => h.request = g.request
  BY LabelsTellCalls DEF ShellInv, WindowsAreTold
<1>2. InOrder(clicked.emitted, clicked.shown)
  BY DEF ShellInv, ClicksFollow, InOrder
<1> QED BY <1>1, <1>2 DEF ShellInv, WindowsAreTold, CallsKeepTheirWindows

\* A focus tells the notification under way, if there is one.
LEMMA FocusTells ==
  ASSUME ClickedIsClicked, ClicksFollow, Focused
  PROVE  ClickedIsClicked' /\ ClicksFollow'
<1> DEFINE shown == clicked.shown
           emitted == clicked.emitted
<1>1. CASE noticed = <<>>
  <2>1. noticed' = noticed /\ clicked' = clicked
    BY <1>1 DEF Focused
  <2> QED BY <2>1 DEF ClickedIsClicked, ClicksFollow
<1>2. CASE noticed # <<>>
  <2>1. clicked' = [clicked EXCEPT !.emitted = Append(@, noticed)] /\ noticed' = <<>>
    BY <1>2 DEF Focused
  <2>2. clicked' = [shown |-> shown, emitted |-> Append(emitted, noticed)]
    BY <2>1 DEF ClickedIsClicked
  <2>3. clicked'.shown = shown /\ clicked'.emitted = Append(emitted, noticed) /\ ClickedIsClicked'
    BY <2>2 DEF ClickedIsClicked
  <2>4. shown \in Seq(Talk) /\ emitted \in Seq(Talk) /\ Len(shown) > 0 /\ noticed = shown[Len(shown)]
    BY <1>2 DEF ClicksFollow
  <2>5. PICK at \in [DOMAIN emitted -> DOMAIN shown] :
           /\ \A i \in DOMAIN emitted : emitted[i] = shown[at[i]]
           /\ \A i, j \in DOMAIN emitted : i < j => at[i] < at[j]
           /\ \A i \in DOMAIN emitted : at[i] < Len(shown)
    BY <1>2 DEF ClicksFollow
  <2> DEFINE longer == Append(emitted, noticed)
             to == [i \in DOMAIN longer |-> IF i = Len(emitted) + 1 THEN Len(shown) ELSE at[i]]
  <2>6. /\ longer \in Seq(Talk) /\ DOMAIN longer = 1 .. Len(emitted) + 1 /\ DOMAIN emitted = 1 .. Len(emitted)
        /\ Len(emitted) \in Nat /\ Len(shown) \in Nat /\ DOMAIN shown = 1 .. Len(shown)
        /\ longer[Len(emitted) + 1] = noticed /\ \A i \in DOMAIN emitted : longer[i] = emitted[i]
    BY <2>4
  <2> HIDE DEF longer, shown, emitted
  <2>7. \A i \in DOMAIN longer : i = Len(emitted) + 1 \/ (i \in DOMAIN emitted /\ i # Len(emitted) + 1)
    BY <2>6
  <2>8. to \in [DOMAIN longer -> DOMAIN shown]
    BY <2>4, <2>5, <2>6, <2>7
  <2>9. to[Len(emitted) + 1] = Len(shown) /\ \A i \in DOMAIN emitted : to[i] = at[i]
    BY <2>6
  <2> HIDE DEF to
  <2>10. \A i \in DOMAIN longer : longer[i] = shown[to[i]]
    BY <2>4, <2>5, <2>6, <2>7, <2>9
  <2>11. \A i, j \in DOMAIN longer : i < j => to[i] < to[j]
    <3> SUFFICES ASSUME NEW i \in DOMAIN longer, NEW j \in DOMAIN longer, i < j PROVE to[i] < to[j]
      OBVIOUS
    <3>1. i \in DOMAIN emitted
      BY <2>6
    <3>2. CASE j = Len(emitted) + 1
      BY <2>5, <2>9, <3>1, <3>2
    <3>3. CASE j # Len(emitted) + 1
      BY <2>5, <2>7, <2>9, <3>1, <3>3
    <3> QED BY <3>2, <3>3
  <2>12. \E a \in [DOMAIN clicked'.emitted -> DOMAIN clicked'.shown] :
            /\ \A i \in DOMAIN clicked'.emitted : clicked'.emitted[i] = clicked'.shown[a[i]]
            /\ \A i, j \in DOMAIN clicked'.emitted : i < j => a[i] < a[j]
    <3>1. clicked'.shown = shown /\ clicked'.emitted = longer
      BY <2>3 DEF shown, emitted, longer
    <3> QED BY <2>8, <2>10, <2>11, <3>1
  <2>13. clicked'.shown \in Seq(Talk) /\ clicked'.emitted \in Seq(Talk)
    BY <2>3, <2>4, <2>6 DEF longer, shown, emitted
  <2> QED BY <2>1, <2>3, <2>12, <2>13 DEF ClicksFollow
<1> QED BY <1>1, <1>2

LEMMA ShellStep == ShellInv /\ [ShellNext]_shellVars => ShellInv'
<1> SUFFICES ASSUME ShellInv, [ShellNext]_shellVars PROVE ShellInv'
  OBVIOUS
<1>0. /\ calls \subseteq CallWindows
      /\ \A v, w \in calls : v.label = w.label => v = w
      /\ WindowsAreTold
  BY DEF ShellInv, WindowsAreTold, ShellTypeOK
\* What is left alone stays as it was.
<1>a. UNCHANGED <<noticed, clicked>> => ClickedIsClicked' /\ ClicksFollow'
  BY DEF ShellInv, ClickedIsClicked, ClicksFollow
<1>b. UNCHANGED <<calls, handles>> => WindowsAreTold'
  BY DEF ShellInv, WindowsAreTold
\* A window that is followed by another of its label and Call.
<1>c. ASSUME NEW w \in calls, NEW v \in CallWindows, calls' = (calls \ {w}) \cup {v},
             v.label = w.label, v.payload = w.payload, v.page = "told" => v.heard = w.heard /\ v.overheard = w.overheard /\ w.page = "told",
             UNCHANGED <<main, quit, handles, noticed, clicked>>
      PROVE  ShellInv'
  <2>1. ShellTypeOK'
    BY <1>c DEF ShellInv, ShellTypeOK
  <2>2. WindowsAreTold'
    BY <1>c DEF ShellInv, WindowsAreTold
  <2> QED BY <1>a, <1>c, <2>1, <2>2 DEF ShellInv
<1>1. ASSUME NEW talk \in Talk, NEW kind \in Kinds, OpenCallWindow([talk |-> talk, kind |-> kind])
      PROVE  ShellInv'
  <2> DEFINE asked == [talk |-> talk, kind |-> kind]
             label == Label(asked)
             handle == [request |-> asked, label |-> label]
             window == [label |-> label, payload |-> asked, page |-> "loading",
                        listens |-> FALSE, heard |-> {}, overheard |-> FALSE]
  <2>1. asked \in AskedFor
    BY DEF AskedFor
  <2>2. /\ main # "gone" /\ main' = main /\ quit' = quit /\ Focused
        /\ handles' = handles \cup {handle}
        /\ calls' = IF WindowsOf(label) # {} THEN calls ELSE calls \cup {window}
    BY <1>1 DEF OpenCallWindow
  <2> HIDE DEF asked
  <2>3. /\ handle.request = asked /\ handle.label = label
        /\ window.label = label /\ window.payload = asked /\ window.page = "loading"
        /\ [request |-> window.payload, label |-> window.label] = handle
    OBVIOUS
  <2>4. window \in CallWindows
    BY <2>1 DEF CallWindows
  <2> HIDE DEF handle, window
  <2>5. \A h \in handles' : h.request \in AskedFor /\ h.label = Label(h.request)
    BY <2>1, <2>2, <2>3 DEF ShellInv, WindowsAreTold
  <2>6. CASE WindowsOf(label) # {}
    <3>1. calls' = calls
      BY <2>2, <2>6
    <3>2. WindowsAreTold'
      BY <2>2, <2>5, <3>1 DEF ShellInv, WindowsAreTold
    <3>3. ShellTypeOK'
      BY <2>2, <3>1 DEF ShellInv, ShellTypeOK
    <3> QED BY <2>2, <3>2, <3>3, FocusTells DEF ShellInv
  <2>7. CASE WindowsOf(label) = {}
    <3>1. calls' = calls \cup {window} /\ \A w \in calls : w.label # label
      BY <2>2, <2>7 DEF WindowsOf
    <3>2. WindowsAreTold'
      BY <2>2, <2>3, <2>4, <2>5, <3>1 DEF ShellInv, WindowsAreTold
    <3>3. ShellTypeOK'
      BY <2>2, <2>3, <3>1 DEF ShellInv, ShellTypeOK
    <3> QED BY <2>2, <3>2, <3>3, FocusTells DEF ShellInv
  <2> QED BY <2>6, <2>7
<1>2. ASSUME NEW talk \in Talk, Notify(talk)
      PROVE  ShellInv'
  <2> DEFINE shown == clicked.shown
             emitted == clicked.emitted
             more == Append(shown, talk)
  <2>1. /\ main # "gone" /\ UNCHANGED <<main, quit, calls, handles>>
        /\ noticed' = talk /\ clicked' = [clicked EXCEPT !.shown = Append(@, talk)]
    BY <1>2 DEF Notify
  <2>2. clicked' = [shown |-> more, emitted |-> emitted]
    BY <2>1 DEF ShellInv, ClickedIsClicked
  <2>3. clicked'.shown = more /\ clicked'.emitted = emitted /\ ClickedIsClicked'
    BY <2>2 DEF ClickedIsClicked
  <2>4. shown \in Seq(Talk) /\ emitted \in Seq(Talk)
    BY DEF ShellInv, ClicksFollow
  <2>5. PICK at \in [DOMAIN emitted -> DOMAIN shown] :
           /\ \A i \in DOMAIN emitted : emitted[i] = shown[at[i]]
           /\ \A i, j \in DOMAIN emitted : i < j => at[i] < at[j]
    BY DEF ShellInv, ClicksFollow
  <2>6. /\ more \in Seq(Talk) /\ Len(more) = Len(shown) + 1 /\ DOMAIN shown = 1 .. Len(shown)
        /\ DOMAIN more = 1 .. Len(shown) + 1 /\ Len(shown) \in Nat
        /\ more[Len(more)] = talk /\ \A i \in DOMAIN shown : more[i] = shown[i]
    BY <2>4
  <2> HIDE DEF shown, emitted, more
  <2>7. at \in [DOMAIN emitted -> DOMAIN more] /\ \A i \in DOMAIN emitted : at[i] < Len(more)
    BY <2>5, <2>6
  <2>8. \A i \in DOMAIN emitted : emitted[i] = more[at[i]]
    BY <2>5, <2>6
  <2>9. ClicksFollow'
    <3>1. clicked'.shown = more /\ clicked'.emitted = emitted /\ noticed' = talk
      BY <2>1, <2>3 DEF emitted
    <3>2. /\ clicked'.shown \in Seq(Talk) /\ clicked'.emitted \in Seq(Talk)
          /\ Len(clicked'.shown) > 0 /\ noticed' = clicked'.shown[Len(clicked'.shown)]
      BY <2>4, <2>6, <3>1
    <3>3. \E a \in [DOMAIN clicked'.emitted -> DOMAIN clicked'.shown] :
             /\ \A i \in DOMAIN clicked'.emitted : clicked'.emitted[i] = clicked'.shown[a[i]]
             /\ \A i, j \in DOMAIN clicked'.emitted : i < j => a[i] < a[j]
             /\ \A i \in DOMAIN clicked'.emitted : a[i] < Len(clicked'.shown)
      BY <2>5, <2>7, <2>8, <3>1
    <3> QED BY <3>2, <3>3 DEF ClicksFollow
  <2> QED BY <1>b, <2>1, <2>3, <2>9 DEF ShellInv, ShellTypeOK
<1>3. ASSUME NEW w \in calls, Listen(w)
      PROVE  ShellInv'
  <2> DEFINE v == [w EXCEPT !.listens = TRUE]
  <2>1. w \in CallWindows
    BY <1>0
  <2>2. v \in CallWindows /\ v.label = w.label /\ v.payload = w.payload /\ v.page = w.page
        /\ v.heard = w.heard /\ v.overheard = w.overheard
    BY <2>1 DEF CallWindows
  <2>3. calls' = (calls \ {w}) \cup {v} /\ UNCHANGED <<main, quit, handles, noticed, clicked>>
    BY <1>3 DEF Listen
  <2> HIDE DEF v
  <2> QED BY <1>c, <2>2, <2>3
<1>4. ASSUME NEW w \in calls, PageLoaded(w)
      PROVE  ShellInv'
  <2> DEFINE Now(v) == IF v # w THEN v ELSE [v EXCEPT !.page = IF v.listens THEN "told" ELSE "missed"]
             Informed(v) == IF v.listens THEN [Now(v) EXCEPT !.heard = {w.payload}, !.overheard = v # w] ELSE Now(v)
  <2>1. calls' = {Informed(v) : v \in calls} /\ UNCHANGED <<main, quit, handles, noticed, clicked>>
    BY <1>4 DEF PageLoaded
  <2>2. ASSUME NEW v \in calls
        PROVE  /\ Now(v) \in CallWindows /\ Now(v).label = v.label /\ Now(v).payload = v.payload
               /\ Now(v).heard = v.heard /\ Now(v).overheard = v.overheard
               /\ v # w => Now(v).page = v.page
               /\ v = w => Now(v).page = IF v.listens THEN "told" ELSE "missed"
    BY <1>0 DEF CallWindows
  <2> HIDE DEF Now
  <2>3. ASSUME NEW v \in calls
        PROVE  /\ Informed(v) \in CallWindows /\ Informed(v).label = v.label /\ Informed(v).payload = v.payload
               /\ Informed(v).page = Now(v).page
               /\ v.listens => Informed(v).heard = {w.payload} /\ Informed(v).overheard = (v # w)
               /\ ~ v.listens => Informed(v).heard = v.heard /\ Informed(v).overheard = v.overheard
    <3>1. w.payload \in AskedFor /\ Now(v) \in CallWindows /\ v.listens \in BOOLEAN
      BY <1>0, <2>2 DEF CallWindows
    <3> QED BY <2>2, <3>1 DEF CallWindows
  <2> HIDE DEF Informed
  <2>4. ASSUME NEW v \in calls, Informed(v).page = "told", ~ Informed(v).overheard
        PROVE  Informed(v).heard = {v.payload}
    <3>1. CASE v.listens
      BY <2>3, <2>4, <3>1
    <3>2. CASE ~ v.listens
      <4>1. v # w
        BY <2>2, <2>3, <2>4, <3>2
      <4>2. v.page = "told" /\ ~ v.overheard
        BY <2>2, <2>3, <2>4, <3>2, <4>1
      <4> QED BY <2>3, <3>2, <4>2 DEF ShellInv, WindowsAreTold
    <3> QED BY <3>1, <3>2
  <2>5. ShellTypeOK'
    BY <1>0, <2>1, <2>3 DEF ShellInv, ShellTypeOK
  <2>6. WindowsAreTold'
    <3>1. calls' \subseteq CallWindows
      BY <2>1, <2>3
    <3>2. \A x \in calls' : /\ x.label = Label(x.payload)
                            /\ [request |-> x.payload, label |-> x.label] \in handles
                            /\ x.page = "told" /\ ~ x.overheard => x.heard = {x.payload}
      <4> SUFFICES ASSUME NEW v \in calls
                   PROVE  LET x == Informed(v) IN
                          /\ x.label = Label(x.payload)
                          /\ [request |-> x.payload, label |-> x.label] \in handles
                          /\ x.page = "told" /\ ~ x.overheard => x.heard = {x.payload}
        BY <2>1
      <4>1. v.label = Label(v.payload) /\ [request |-> v.payload, label |-> v.label] \in handles
        BY <1>0 DEF WindowsAreTold
      <4>2. Informed(v).label = v.label /\ Informed(v).payload = v.payload
        BY <2>3
      <4> QED BY <2>4, <4>1, <4>2
    <3> QED BY <1>0, <2>1, <3>1, <3>2 DEF WindowsAreTold
  <2> QED BY <1>a, <2>1, <2>5, <2>6 DEF ShellInv
<1>5. ASSUME NEW w \in calls, Reload(w)
      PROVE  ShellInv'
  <2> DEFINE v == [w EXCEPT !.page = "loading", !.listens = FALSE, !.heard = {}, !.overheard = FALSE]
  <2>1. w \in CallWindows
    BY <1>0
  <2>2. v \in CallWindows
    BY <2>1 DEF CallWindows
  <2>3. v.label = w.label /\ v.payload = w.payload /\ v.page = "loading"
    BY <2>1 DEF CallWindows
  <2>4. calls' = (calls \ {w}) \cup {v} /\ UNCHANGED <<main, quit, handles, noticed, clicked>>
    BY <1>5 DEF Reload
  <2> HIDE DEF v
  <2> QED BY <1>c, <2>2, <2>3, <2>4
<1>6. ASSUME NEW label, CloseCallWindow(label)
      PROVE  ShellInv'
  <2>1. calls' \subseteq calls /\ UNCHANGED <<main, quit, handles, noticed, clicked>>
    BY <1>6 DEF CloseCallWindow
  <2>2. WindowsAreTold' /\ ShellTypeOK'
    BY <1>0, <2>1 DEF ShellInv, WindowsAreTold, ShellTypeOK
  <2> QED BY <1>a, <2>1, <2>2 DEF ShellInv
<1>7. CASE CloseMain
  BY <1>7, <1>a, <1>b DEF CloseMain, ShellInv, ShellTypeOK
<1>8. CASE ShowMain
  <2>1. ClickedIsClicked' /\ ClicksFollow'
    BY <1>8, FocusTells DEF ShowMain, ShellInv
  <2> QED BY <1>8, <1>b, <2>1 DEF ShowMain, ShellInv, ShellTypeOK
<1>9. CASE Quit
  BY <1>9, <1>a DEF Quit, ShellInv, ShellTypeOK, WindowsAreTold
<1>10. ASSUME NEW total \in 0 .. 1, SetUnread(total)
       PROVE  ShellInv'
  BY <1>10, <1>a, <1>b DEF SetUnread, ShellInv, ShellTypeOK
<1>11. CASE UNCHANGED shellVars
  BY <1>11, <1>a, <1>b DEF shellVars, ShellInv, ShellTypeOK
<1> QED
  BY <1>1, <1>2, <1>3, <1>4, <1>5, <1>6, <1>7, <1>8, <1>9, <1>10, <1>11 DEF ShellNext

-----------------------------------------------------------------------------
(* Who a browser tab is signed in as *)

LoginRows == [of : Holder, live : BOOLEAN]
Checks == [stage : {"none", "me", "refresh", "again"}, s : Nat, answer : {"none", "awaited", "ok"}]
FormStates == [op : SignIns \cup {"none", "reset", "logout"}, s : Nat]
Tabs == [user : Holder \cup {Nobody}, s : Nat, limited : Holder \cup {Nobody},
         mounted : BOOLEAN, crossed : BOOLEAN, failed : BOOLEAN,
         check : Checks, form : FormStates]

\* A check is of a session, a sign-in under way made one; and until the tab is mounted, the
\* tokens that a refresh brought are the ones it asks with again.
UnderOneSession ==
  /\ tab.check.stage # "none" => tab.check.s \in DOMAIN logins
  /\ tab.form.op \in SignIns => tab.form.s \in DOMAIN logins
  /\ ~ tab.mounted /\ tab.check.stage = "again" => tab.s = tab.check.s

AuthTabInv == AuthTabTypeOK /\ tab \in Tabs /\ UnderOneSession /\ TabsKnowTheirAccount

LEMMA AuthTabInitially == AuthTabInit => AuthTabInv
<1> SUFFICES ASSUME AuthTabInit PROVE AuthTabInv
  OBVIOUS
<1>1. /\ tab = [user |-> Nobody, s |-> 0, limited |-> Nobody, mounted |-> TRUE, crossed |-> FALSE,
                failed |-> FALSE, check |-> NoCheck, form |-> NoForm]
      /\ logins = <<>> /\ localStore = 0
  BY DEF AuthTabInit, Loading
<1>2. NoCheck \in Checks /\ NoForm \in FormStates /\ NoCheck.s = 0 /\ NoForm.s = 0 /\ NoForm.op = "none"
      /\ NoCheck.stage = "none"
  BY DEF NoCheck, NoForm, Checks, FormStates
<1>3. tab \in Tabs
  BY <1>1, <1>2 DEF Tabs
<1>4. AuthTabTypeOK
  BY <1>1, <1>2, AuthTabAssumption DEF AuthTabTypeOK
<1>5. UnderOneSession /\ TabsKnowTheirAccount
  BY <1>1, <1>2 DEF UnderOneSession, TabsKnowTheirAccount, Authenticated, Live, SignIns
<1> QED BY <1>3, <1>4, <1>5 DEF AuthTabInv

\* Sessions stay in their places, their account's, and end for good.
SessionsGoOn ==
  /\ logins' \in Seq(LoginRows) /\ Len(logins') <= MaxLogins /\ DOMAIN logins \subseteq DOMAIN logins'
  /\ \A s \in DOMAIN logins : /\ logins'[s].of = logins[s].of
                              /\ logins'[s].live => logins[s].live

\* The tab keeps whom it shows and what it asks with.
SameSession ==
  /\ tab'.user = tab.user /\ tab'.s = tab.s
  /\ tab'.crossed = tab.crossed /\ tab'.failed = tab.failed /\ tab'.mounted = tab.mounted

LEMMA SessionsOf ==
  ASSUME AuthTabInv
  PROVE  /\ logins \in Seq(LoginRows) /\ Len(logins) <= MaxLogins
         /\ 0 \notin DOMAIN logins /\ DOMAIN logins \subseteq Nat
         /\ \A s \in DOMAIN logins : logins[s] \in LoginRows /\ logins[s].of \in Holder /\ logins[s].of # Nobody
         /\ tab \in Tabs /\ tab.check \in Checks /\ tab.form \in FormStates
         /\ \A s \in {localStore, tab.s, tab.check.s, tab.form.s} : s = 0 \/ s \in DOMAIN logins
<1>1. logins \in Seq(LoginRows) /\ Len(logins) <= MaxLogins
  BY DEF AuthTabInv, AuthTabTypeOK, LoginRows
<1>2. 0 \notin DOMAIN logins /\ DOMAIN logins \subseteq Nat
  BY <1>1
<1>3. \A s \in DOMAIN logins : logins[s] \in LoginRows /\ logins[s].of \in Holder /\ logins[s].of # Nobody
  <2>1. \A s \in DOMAIN logins : logins[s] \in LoginRows
    BY <1>1
  <2>2. \A r \in LoginRows : r.of \in Holder /\ r.of # Nobody
    BY AuthTabAssumption DEF LoginRows
  <2> QED BY <2>1, <2>2
<1>4. tab \in Tabs /\ tab.check \in Checks /\ tab.form \in FormStates
  BY DEF AuthTabInv, Tabs
<1>5. \A s \in {localStore, tab.s, tab.check.s, tab.form.s} : s = 0 \/ s \in DOMAIN logins
  BY DEF AuthTabInv, AuthTabTypeOK
<1> QED BY <1>1, <1>2, <1>3, <1>4, <1>5

\* Nothing of it is lost while sessions go on, whatever is asked and answered.
LEMMA WhileSessionsGoOn ==
  ASSUME AuthTabInv, SessionsGoOn, SameSession, tab' \in Tabs,
         localStore' = 0 \/ localStore' \in DOMAIN logins',
         tab'.check.s = 0 \/ tab'.check.s \in DOMAIN logins',
         tab'.form.s = 0 \/ tab'.form.s \in DOMAIN logins',
         tab'.mounted \/ tab'.form = NoForm,
         UnderOneSession'
  PROVE  AuthTabInv'
<1>1. AuthTabTypeOK'
  <2>1. {tab'.user, tab'.limited} \subseteq Holder \cup {Nobody}
    BY DEF Tabs
  <2>2. tab'.s = 0 \/ tab'.s \in DOMAIN logins'
    BY SessionsOf DEF SameSession, SessionsGoOn
  <2> QED BY <2>1, <2>2 DEF AuthTabTypeOK, SessionsGoOn, LoginRows
<1>2. TabsKnowTheirAccount'
  <2>1. tab.s # 0 => tab.s \in DOMAIN logins
    BY SessionsOf
  <2>2. Authenticated' = Authenticated
    BY DEF Authenticated, SameSession
  <2>3. Live(tab.s)' => Live(tab.s)
    BY <2>1 DEF Live, SameSession, SessionsGoOn
  <2>4. Authenticated => logins'[tab'.s].of = logins[tab.s].of
    BY <2>1 DEF Authenticated, SameSession, SessionsGoOn
  <2>5. TabsKnowTheirAccount
    BY DEF AuthTabInv
  <2> QED BY <2>2, <2>3, <2>4, <2>5 DEF TabsKnowTheirAccount, SameSession
<1> QED BY <1>1, <1>2 DEF AuthTabInv

\* A step of the tab alone.
LEMMA SessionsStay ==
  ASSUME AuthTabInv, logins' = logins
  PROVE  SessionsGoOn
BY SessionsOf DEF SessionsGoOn

LEMMA AuthTabStep == AuthTabInv /\ [AuthTabNext]_authTabVars => AuthTabInv'
<1> SUFFICES ASSUME AuthTabInv, [AuthTabNext]_authTabVars PROVE AuthTabInv'
  OBVIOUS
<1>0. /\ logins \in Seq(LoginRows) /\ Len(logins) <= MaxLogins
      /\ 0 \notin DOMAIN logins /\ DOMAIN logins \subseteq Nat
      /\ \A s \in DOMAIN logins : logins[s] \in LoginRows /\ logins[s].of \in Holder /\ logins[s].of # Nobody
      /\ tab \in Tabs /\ tab.check \in Checks /\ tab.form \in FormStates
      /\ \A s \in {localStore, tab.s, tab.check.s, tab.form.s} : s = 0 \/ s \in DOMAIN logins
  BY SessionsOf
<1>i. /\ AuthTabTypeOK /\ UnderOneSession /\ TabsKnowTheirAccount
      /\ tab.mounted \/ tab.form = NoForm
      /\ {tab.user, tab.limited} \subseteq Holder \cup {Nobody} /\ Nobody \notin Holder
  BY AuthTabAssumption DEF AuthTabInv, AuthTabTypeOK
<1>n. NoCheck \in Checks /\ NoForm \in FormStates /\ NoCheck.s = 0 /\ NoForm.s = 0 /\ NoForm.op = "none"
      /\ NoCheck.stage = "none" /\ NoForm.op \notin SignIns
  BY DEF NoCheck, NoForm, Checks, FormStates, SignIns
\* What a step of the tab alone leaves to prove.
<1>t. ASSUME logins' = logins, localStore' = 0 \/ localStore' \in DOMAIN logins, tab' \in Tabs,
             tab'.s = 0 \/ tab'.s \in DOMAIN logins,
             tab'.check.s = 0 \/ tab'.check.s \in DOMAIN logins,
             tab'.form.s = 0 \/ tab'.form.s \in DOMAIN logins,
             tab'.mounted \/ tab'.form = NoForm,
             tab'.check.stage # "none" => tab'.check.s \in DOMAIN logins,
             tab'.form.op \in SignIns => tab'.form.s \in DOMAIN logins,
             ~ tab'.mounted /\ tab'.check.stage = "again" => tab'.s = tab'.check.s,
             ~ tab'.crossed =>
               /\ tab'.user # Nobody /\ tab'.s # 0 => logins[tab'.s].of = tab'.user
               /\ tab'.mounted /\ tab'.s # 0 /\ logins[tab'.s].live /\ ~ tab'.failed => tab'.user # Nobody
      PROVE  AuthTabInv'
  <2>1. {tab'.user, tab'.limited} \subseteq Holder \cup {Nobody}
    BY <1>t DEF Tabs
  <2>2. AuthTabTypeOK'
    BY <1>0, <1>t, <2>1 DEF AuthTabTypeOK, LoginRows
  <2>3. UnderOneSession'
    BY <1>t DEF UnderOneSession
  <2>4. TabsKnowTheirAccount'
    BY <1>t DEF TabsKnowTheirAccount, Authenticated, Live
  <2> QED BY <1>t, <2>2, <2>3, <2>4 DEF AuthTabInv
<1>1. CASE LoadPage
  <2> DEFINE check == IF localStore = 0 THEN NoCheck ELSE [stage |-> "me", s |-> localStore, answer |-> "awaited"]
  <2>1. /\ tab' = [user |-> Nobody, s |-> localStore, limited |-> tab.limited,
                   mounted |-> localStore = 0, crossed |-> FALSE, failed |-> FALSE,
                   check |-> check, form |-> NoForm]
        /\ logins' = logins /\ localStore' = localStore
    BY <1>1 DEF LoadPage, Loading
  <2>2. localStore = 0 \/ localStore \in DOMAIN logins
    BY <1>0
  <2>3. check \in Checks /\ (check.s = 0 \/ check.s \in DOMAIN logins)
        /\ (check.stage # "none" => check.s \in DOMAIN logins) /\ check.stage # "again"
    BY <1>0, <1>n, <2>2 DEF Checks
  <2> HIDE DEF check
  <2>4. tab' \in Tabs
    BY <1>0, <1>i, <1>n, <2>1, <2>2, <2>3 DEF Tabs
  <2>5. /\ tab'.user = Nobody /\ tab'.s = localStore /\ tab'.check = check /\ tab'.form = NoForm
        /\ tab'.mounted = (localStore = 0)
    BY <2>1, Zenon
  <2> QED BY <1>n, <1>t, <2>1, <2>2, <2>3, <2>4, <2>5
\* Only what is under way changes, while sessions go on.
<1>f. ASSUME SessionsGoOn, SameSession, tab' \in Tabs, localStore' = localStore,
             tab'.check.s = 0 \/ tab'.check.s \in DOMAIN logins',
             tab'.check.stage # "none" => tab'.check.s \in DOMAIN logins',
             tab'.check.stage = "again" => tab'.check.s = tab.check.s /\ tab.check.stage = "again",
             tab'.form.s = 0 \/ tab'.form.s \in DOMAIN logins',
             tab'.form.op \in SignIns => tab'.form.s \in DOMAIN logins',
             tab'.mounted \/ tab'.form = NoForm
      PROVE  AuthTabInv'
  <2>1. UnderOneSession'
    BY <1>i, <1>f DEF UnderOneSession, SameSession
  <2>2. localStore' = 0 \/ localStore' \in DOMAIN logins'
    BY <1>0, <1>f DEF SessionsGoOn
  <2> QED BY <1>f, <2>1, <2>2, WhileSessionsGoOn
<1>c. ASSUME logins' = logins, localStore' = localStore,
             NEW check \in Checks, tab' = [tab EXCEPT !.check = check], check.s \in DOMAIN logins \/ check.s = 0,
             check.stage # "none" => check.s \in DOMAIN logins,
             check.stage = "again" => check.s = tab.check.s /\ tab.check.stage = "again"
      PROVE  AuthTabInv'
  <2>1. tab' \in Tabs
    BY <1>0, <1>c DEF Tabs
  <2>2. tab'.check = check /\ tab'.form = tab.form
    BY <1>0, <1>c DEF Tabs
  <2>3. SameSession
    BY <1>0, <1>c DEF Tabs, SameSession
  <2>4. SessionsGoOn
    BY <1>c, SessionsStay
  <2>5. tab'.mounted \/ tab'.form = NoForm
    BY <1>i, <2>2, <2>3 DEF SameSession
  <2>6. tab'.form.op \in SignIns => tab'.form.s \in DOMAIN logins
    BY <1>i, <2>2 DEF UnderOneSession
  <2> QED BY <1>0, <1>c, <1>f, <2>1, <2>2, <2>3, <2>4, <2>5, <2>6
<1>2. CASE FetchWhoAmI
  <2> DEFINE check == Checking("me")
  <2>1. /\ tab.s # 0 /\ tab' = [tab EXCEPT !.check = check]
        /\ logins' = logins /\ localStore' = localStore
    BY <1>2 DEF FetchWhoAmI, Authenticated
  <2>2. check \in Checks /\ check.s \in DOMAIN logins /\ check.stage = "me"
    BY <1>0, <2>1 DEF Checks, Checking
  <2> HIDE DEF check
  <2> QED BY <1>c, <2>1, <2>2
<1>3. CASE Accept
  <2> DEFINE check == [tab.check EXCEPT !.answer = "ok"]
  <2>1. /\ tab' = [tab EXCEPT !.check = check] /\ logins' = logins /\ localStore' = localStore
    BY <1>3 DEF Accept
  <2>2. check \in Checks /\ check.s = tab.check.s /\ check.stage = tab.check.stage
    BY <1>0 DEF Checks
  <2>3. check.stage # "none" => check.s \in DOMAIN logins
    BY <1>i, <2>2 DEF UnderOneSession
  <2> HIDE DEF check
  <2> QED BY <1>0, <1>c, <2>1, <2>2, <2>3
<1>4. CASE ProfileArrives
  <2> DEFINE of == logins[tab.check.s].of
             was == Crossing
  <2>1. /\ tab' = [tab EXCEPT !.user = of, !.crossed = was, !.check = NoCheck, !.mounted = TRUE]
        /\ logins' = logins /\ localStore' = localStore /\ tab.check.stage # "none"
    BY <1>0, <1>4 DEF ProfileArrives, Ended, Tabs
  <2>2. tab.check.s \in DOMAIN logins /\ of \in Holder /\ of # Nobody /\ was \in BOOLEAN
    BY <1>0, <1>i, <2>1 DEF UnderOneSession, Crossing
  <2>3. ~ was => tab.s = tab.check.s
    BY DEF Crossing
  <2> HIDE DEF of, was
  <2>4. tab' \in Tabs
    BY <1>0, <1>n, <2>1, <2>2 DEF Tabs
  <2>5. /\ tab'.user = of /\ tab'.crossed = was /\ tab'.check = NoCheck /\ tab'.mounted
        /\ tab'.s = tab.s /\ tab'.form = tab.form
    BY <1>0, <2>1 DEF Tabs
  <2>6. tab'.form.op \in SignIns => tab'.form.s \in DOMAIN logins
    BY <1>i, <2>5 DEF UnderOneSession
  <2>7. ~ was => logins[tab'.s].of = of
    BY <2>3, <2>5 DEF of
  <2> QED BY <1>0, <1>n, <1>t, <2>1, <2>2, <2>4, <2>5, <2>6, <2>7
<1>5. CASE ProfileRefused
  <2> DEFINE check == Checking("refresh")
  <2>1. /\ tab.s # 0 /\ tab' = [tab EXCEPT !.check = check]
        /\ logins' = logins /\ localStore' = localStore
    BY <1>5 DEF ProfileRefused
  <2>2. check \in Checks /\ check.s \in DOMAIN logins /\ check.stage = "refresh"
    BY <1>0, <2>1 DEF Checks, Checking
  <2> HIDE DEF check
  <2> QED BY <1>c, <2>1, <2>2
<1>6. CASE TokensArrive
  <2> DEFINE hers == tab.check.s
             was == Crossing
             check == [stage |-> "again", s |-> hers, answer |-> "awaited"]
  <2>1. /\ tab' = [tab EXCEPT !.s = hers, !.crossed = was, !.check = check]
        /\ logins' = logins /\ localStore' = hers /\ tab.check.stage = "refresh"
    BY <1>6 DEF TokensArrive
  <2>2. hers \in DOMAIN logins /\ hers \in Nat /\ was \in BOOLEAN
    BY <1>0, <1>i, <2>1 DEF UnderOneSession, Crossing
  <2>3. ~ was => tab.s = hers /\ ~ tab.crossed
    BY DEF Crossing
  <2>4. check \in Checks /\ check.s = hers /\ check.stage = "again"
    BY <2>2 DEF Checks
  <2> HIDE DEF hers, was, check
  <2>5. tab' \in Tabs
    BY <1>0, <2>1, <2>2, <2>4 DEF Tabs
  <2>6. /\ tab'.s = hers /\ tab'.crossed = was /\ tab'.check = check
        /\ tab'.user = tab.user /\ tab'.mounted = tab.mounted /\ tab'.failed = tab.failed /\ tab'.form = tab.form
    BY <1>0, <2>1 DEF Tabs
  <2>7. tab'.form.op \in SignIns => tab'.form.s \in DOMAIN logins
    BY <1>i, <2>6 DEF UnderOneSession
  <2>8. tab'.mounted \/ tab'.form = NoForm
    BY <1>i, <2>6
  <2>9. ~ tab'.crossed =>
               /\ tab'.user # Nobody /\ tab'.s # 0 => logins[tab'.s].of = tab'.user
               /\ tab'.mounted /\ tab'.s # 0 /\ logins[tab'.s].live /\ ~ tab'.failed => tab'.user # Nobody
    BY <1>i, <2>3, <2>6 DEF TabsKnowTheirAccount, Authenticated, Live
  <2> QED BY <1>0, <1>t, <2>1, <2>2, <2>4, <2>5, <2>6, <2>7, <2>8, <2>9
\* A tab without a session.
<1>z. ASSUME logins' = logins, localStore' = 0, tab' \in Tabs, tab'.user = Nobody, tab'.s = 0,
             tab'.check = NoCheck \/ (tab'.check = tab.check /\ tab'.mounted),
             tab'.form = NoForm \/ (tab'.form = tab.form /\ tab'.mounted)
      PROVE  AuthTabInv'
  <2>1. /\ tab'.check.s = 0 \/ tab'.check.s \in DOMAIN logins
        /\ tab'.check.stage # "none" => tab'.check.s \in DOMAIN logins
        /\ ~ tab'.mounted /\ tab'.check.stage = "again" => tab'.s = tab'.check.s
    BY <1>0, <1>i, <1>n, <1>z DEF UnderOneSession
  <2>2. /\ tab'.form.s = 0 \/ tab'.form.s \in DOMAIN logins
        /\ tab'.form.op \in SignIns => tab'.form.s \in DOMAIN logins
    BY <1>0, <1>i, <1>n, <1>z DEF UnderOneSession
  <2> QED BY <1>t, <1>z, <2>1, <2>2
<1>7. CASE SessionRefused
  <2> DEFINE t == Cleared(tab)
  <2>1. t \in Tabs
    BY <1>0 DEF Cleared, Tabs
  <2>2. t.user = Nobody /\ t.s = 0 /\ t.form = tab.form
    BY <1>0 DEF Cleared, Tabs
  <2>3. tab' = [t EXCEPT !.check = NoCheck, !.mounted = TRUE] /\ logins' = logins /\ localStore' = 0
    BY <1>7 DEF SessionRefused, Ended
  <2> HIDE DEF t
  <2>4. tab' \in Tabs
    BY <1>n, <2>1, <2>3 DEF Tabs
  <2>5. tab'.user = Nobody /\ tab'.s = 0 /\ tab'.check = NoCheck /\ tab'.form = tab.form /\ tab'.mounted
    BY <2>1, <2>2, <2>3 DEF Tabs
  <2> QED BY <1>z, <2>3, <2>4, <2>5
<1>8. CASE CheckGivenUp
  <2>1. logins' = logins /\ localStore' = localStore
    BY <1>8 DEF CheckGivenUp
  <2>a. ASSUME NEW t \in Tabs, t.user = tab.user, t.s = tab.s, t.crossed = tab.crossed,
               t.form = tab.form, tab' = [t EXCEPT !.check = NoCheck, !.mounted = TRUE],
               t.failed \/ (t.failed = tab.failed /\ Declined("again"))
        PROVE  AuthTabInv'
    <3>1. tab' \in Tabs
      BY <1>n, <2>a DEF Tabs
    <3>2. /\ tab'.user = tab.user /\ tab'.s = tab.s /\ tab'.crossed = tab.crossed /\ tab'.failed = t.failed
          /\ tab'.check = NoCheck /\ tab'.form = tab.form /\ tab'.mounted
      BY <2>a DEF Tabs
    <3>3. tab'.form.op \in SignIns => tab'.form.s \in DOMAIN logins
      BY <1>i, <3>2 DEF UnderOneSession
    <3>4. ~ tab.crossed /\ ~ t.failed /\ tab.s # 0 /\ logins[tab.s].live => tab.user # Nobody
      <4>1. CASE tab.mounted
        BY <1>i, <2>a, <4>1 DEF TabsKnowTheirAccount, Live
      <4>2. CASE ~ tab.mounted /\ ~ t.failed
        BY <1>i, <2>a, <4>2 DEF UnderOneSession, Declined, Live
      <4> QED BY <4>1, <4>2
    <3>5. ~ tab.crossed /\ tab.user # Nobody /\ tab.s # 0 => logins[tab.s].of = tab.user
      BY <1>i DEF TabsKnowTheirAccount, Authenticated
    <3> QED BY <1>0, <1>n, <1>t, <2>1, <3>1, <3>2, <3>3, <3>4, <3>5
  <2>2. CASE Declined("again") /\ tab' = Ended(tab)
    BY <1>0, <2>2, <2>a DEF Ended
  <2>3. CASE tab' = Ended([tab EXCEPT !.failed = TRUE])
    <3> DEFINE t == [tab EXCEPT !.failed = TRUE]
    <3>1. t \in Tabs
      BY <1>0 DEF Tabs
    <3>2. t.user = tab.user /\ t.s = tab.s /\ t.crossed = tab.crossed /\ t.form = tab.form /\ t.failed
      BY <1>0 DEF Tabs
    <3>3. tab' = [t EXCEPT !.check = NoCheck, !.mounted = TRUE]
      BY <2>3 DEF Ended
    <3> HIDE DEF t
    <3> QED BY <2>a, <3>1, <3>2, <3>3
  <2> QED BY <1>8, <2>2, <2>3 DEF CheckGivenUp
\* A request is made, by a tab that is mounted.
<1>q. ASSUME NEW form \in FormStates, tab.mounted, tab' = [tab EXCEPT !.form = form], SessionsGoOn,
             localStore' = localStore, form.s = 0 \/ form.s \in DOMAIN logins',
             form.op \in SignIns => form.s \in DOMAIN logins'
      PROVE  AuthTabInv'
  <2>1. tab' \in Tabs
    BY <1>0, <1>q DEF Tabs
  <2>2. tab'.check = tab.check /\ tab'.form = form
    BY <1>0, <1>q DEF Tabs
  <2>3. SameSession
    BY <1>0, <1>q DEF Tabs, SameSession
  <2>4. /\ tab'.check.s = 0 \/ tab'.check.s \in DOMAIN logins'
        /\ tab'.check.stage # "none" => tab'.check.s \in DOMAIN logins'
    BY <1>0, <1>i, <1>q, <2>2 DEF UnderOneSession, SessionsGoOn
  <2>5. tab'.mounted
    BY <1>q, <2>3 DEF SameSession
  <2> QED BY <1>f, <1>q, <2>1, <2>2, <2>3, <2>4, <2>5
<1>9. ASSUME NEW op \in SignIns, NEW u \in Holder, AskSignIn(op, u)
      PROVE  AuthTabInv'
  <2> DEFINE form == [op |-> op, s |-> Len(logins) + 1]
             new == [of |-> u, live |-> TRUE]
  <2>1. /\ tab.mounted /\ tab' = [tab EXCEPT !.form = form] /\ logins' = Append(logins, new)
        /\ localStore' = localStore /\ Len(logins) < MaxLogins
    BY <1>9 DEF AskSignIn, MayAsk, Asks
  <2>2. new \in LoginRows
    BY DEF LoginRows
  <2> HIDE DEF new
  <2>3. /\ logins' \in Seq(LoginRows) /\ Len(logins') = Len(logins) + 1 /\ DOMAIN logins \subseteq DOMAIN logins'
        /\ Len(logins) + 1 \in DOMAIN logins' /\ Len(logins) + 1 \in Nat
        /\ \A s \in DOMAIN logins : logins'[s] = logins[s]
    BY <1>0, <2>1, <2>2
  <2>4. SessionsGoOn
    <3>1. Len(logins) + 1 <= MaxLogins
      BY <1>0, <2>1, AuthTabAssumption
    <3> QED BY <2>3, <3>1 DEF SessionsGoOn
  <2>5. form \in FormStates /\ form.s \in DOMAIN logins'
    BY <2>3 DEF FormStates
  <2> HIDE DEF form
  <2> QED BY <1>q, <2>1, <2>4, <2>5
<1>10. CASE SignInArrives
  <2> DEFINE of == logins[tab.form.s].of
             hers == tab.form.s
             limited == IF tab.form.op = "password" THEN tab.limited ELSE Nobody
  <2>1. /\ tab' = [tab EXCEPT !.user = of, !.s = hers, !.crossed = FALSE, !.limited = limited, !.form = NoForm]
        /\ tab.form.op \in SignIns /\ logins' = logins /\ localStore' = hers
    BY <1>10 DEF SignInArrives
  <2>2. hers \in DOMAIN logins /\ of \in Holder /\ of # Nobody /\ hers \in Nat /\ limited \in Holder \cup {Nobody}
        /\ logins[hers].of = of
    BY <1>0, <1>i, <2>1 DEF UnderOneSession
  <2>3. tab.mounted
    BY <1>i, <1>n, <2>1
  <2> HIDE DEF of, hers, limited
  <2>4. tab' \in Tabs
    BY <1>0, <1>n, <2>1, <2>2 DEF Tabs
  <2>5. tab'.user = of /\ tab'.s = hers /\ tab'.check = tab.check /\ tab'.form = NoForm
        /\ tab'.mounted = tab.mounted
    BY <1>0, <2>1 DEF Tabs
  <2>6. /\ tab'.check.s = 0 \/ tab'.check.s \in DOMAIN logins
        /\ tab'.check.stage # "none" => tab'.check.s \in DOMAIN logins
    BY <1>0, <1>i, <2>5 DEF UnderOneSession
  <2> QED BY <1>n, <1>t, <2>1, <2>2, <2>3, <2>4, <2>5, <2>6
<1>l. ASSUME NEW limited \in Holder \cup {Nobody}, tab' = [tab EXCEPT !.limited = limited],
             logins' = logins, localStore' = localStore
      PROVE  AuthTabInv'
  <2>1. tab' \in Tabs
    BY <1>0, <1>l DEF Tabs
  <2>2. tab'.check = tab.check /\ tab'.form = tab.form
    BY <1>0, <1>l DEF Tabs
  <2>3. SameSession
    BY <1>0, <1>l DEF Tabs, SameSession
  <2>4. /\ tab'.check.stage # "none" => tab'.check.s \in DOMAIN logins
        /\ tab'.form.op \in SignIns => tab'.form.s \in DOMAIN logins
        /\ tab'.mounted \/ tab'.form = NoForm
    BY <1>i, <2>2, <2>3 DEF UnderOneSession, SameSession
  <2> QED BY <1>0, <1>f, <1>l, <2>1, <2>2, <2>3, <2>4, SessionsStay
<1>11. ASSUME NEW limited \in Holder \cup {Nobody}, CallBack(limited)
       PROVE  AuthTabInv'
  BY <1>11, <1>l DEF CallBack
<1>12. ASSUME NEW u \in Holder, VerifyEmail(u)
       PROVE  AuthTabInv'
  <2> DEFINE now == Shown(tab, u)
             was == tab.crossed \/ (tab.user = Nobody /\ tab.s # 0 /\ logins[tab.s].of # u)
  <2>1. /\ tab.mounted /\ tab' = [tab EXCEPT !.user = now, !.crossed = was]
        /\ logins' = logins /\ localStore' = localStore
    BY <1>12 DEF VerifyEmail, MayAsk
  <2>2. now \in Holder /\ now # Nobody /\ was \in BOOLEAN
    BY <1>0, <1>i DEF Shown, Tabs
  <2>3. ~ was /\ tab.s # 0 => logins[tab.s].of = now
    <3>1. CASE tab.user = Nobody
      BY <3>1 DEF Shown
    <3>2. CASE tab.user # Nobody
      BY <1>i, <3>2 DEF Shown, TabsKnowTheirAccount, Authenticated
    <3> QED BY <3>1, <3>2
  <2> HIDE DEF now, was
  <2>4. tab' \in Tabs
    BY <1>0, <2>1, <2>2 DEF Tabs
  <2>5. /\ tab'.user = now /\ tab'.crossed = was /\ tab'.s = tab.s /\ tab'.check = tab.check
        /\ tab'.form = tab.form /\ tab'.mounted = tab.mounted
    BY <1>0, <2>1 DEF Tabs
  <2>6. /\ tab'.check.stage # "none" => tab'.check.s \in DOMAIN logins
        /\ tab'.form.op \in SignIns => tab'.form.s \in DOMAIN logins
    BY <1>i, <2>5 DEF UnderOneSession
  <2> QED BY <1>0, <1>t, <2>1, <2>2, <2>3, <2>4, <2>5, <2>6
\* Sessions that end go on in their places.
<1>e. ASSUME NEW dead, Ending(dead)
      PROVE  SessionsGoOn
  <2> DEFINE Rewritten(s) == [logins[s] EXCEPT !.live = logins[s].live /\ ~ dead[s]]
  <2>1. logins' = [s \in DOMAIN logins |-> Rewritten(s)]
    BY <1>e, Zenon DEF Ending
  <2>2. ASSUME NEW s \in DOMAIN logins
        PROVE  Rewritten(s) \in LoginRows /\ Rewritten(s).of = logins[s].of /\ (Rewritten(s).live => logins[s].live)
    <3> DEFINE live == logins[s].live /\ ~ dead[s]
    <3>1. logins[s] \in LoginRows
      BY <1>0
    <3>2. live \in BOOLEAN /\ (live => logins[s].live)
      OBVIOUS
    <3>3. Rewritten(s) = [logins[s] EXCEPT !.live = live]
      BY Zenon
    <3> HIDE DEF live, Rewritten
    <3>4. Rewritten(s) \in LoginRows
      BY <3>1, <3>2, <3>3 DEF LoginRows
    <3>5. Rewritten(s).of = logins[s].of /\ Rewritten(s).live = live
      BY <3>1, <3>3 DEF LoginRows
    <3> QED BY <3>2, <3>4, <3>5
  <2> HIDE DEF Rewritten
  <2>3. DOMAIN logins = 1 .. Len(logins) /\ Len(logins) \in Nat
    BY <1>0
  <2>4. \A s \in DOMAIN logins : logins'[s] = Rewritten(s)
    BY <2>1
  <2>5. logins' \in Seq(LoginRows) /\ Len(logins') = Len(logins) /\ DOMAIN logins' = DOMAIN logins
    BY <2>1, <2>2, <2>3
  <2> QED BY <1>0, <2>2, <2>4, <2>5 DEF SessionsGoOn
<1>13. ASSUME NEW op \in {"reset", "logout"}, MayAsk, Asks(op, 0), SessionsGoOn, localStore' = localStore
       PROVE  AuthTabInv'
  <2> DEFINE form == [op |-> op, s |-> 0]
  <2>1. tab.mounted /\ tab' = [tab EXCEPT !.form = form]
    BY <1>13 DEF MayAsk, Asks
  <2>2. form \in FormStates /\ form.s = 0 /\ form.op \notin SignIns
    BY DEF FormStates, SignIns
  <2> HIDE DEF form
  <2> QED BY <1>13, <1>q, <2>1, <2>2
<1>14. ASSUME NEW u \in Holder, ResetPassword(u)
       PROVE  AuthTabInv'
  BY <1>13, <1>14, <1>e DEF ResetPassword
<1>15. CASE Logout
  BY <1>13, <1>15, <1>e, SessionsStay DEF Logout
<1>16. CASE AnswerLost
  <2> DEFINE limited == IF tab.form.op = "callback" THEN Nobody ELSE tab.limited
  <2>1. /\ tab' = [tab EXCEPT !.limited = limited, !.form = NoForm]
        /\ logins' = logins /\ localStore' = localStore
    BY <1>16 DEF AnswerLost
  <2>2. limited \in Holder \cup {Nobody}
    BY <1>i
  <2> HIDE DEF limited
  <2>3. tab' \in Tabs
    BY <1>0, <1>n, <2>1, <2>2 DEF Tabs
  <2>4. tab'.check = tab.check /\ tab'.form = NoForm
    BY <1>0, <2>1 DEF Tabs
  <2>5. SameSession
    BY <1>0, <2>1 DEF Tabs, SameSession
  <2>6. tab'.check.stage # "none" => tab'.check.s \in DOMAIN logins
    BY <1>i, <2>4 DEF UnderOneSession
  <2> QED BY <1>0, <1>f, <1>n, <2>1, <2>3, <2>4, <2>5, <2>6, SessionsStay
<1>17. CASE SignOutArrives
  <2> DEFINE t == Cleared(tab)
  <2>1. t \in Tabs
    BY <1>0 DEF Cleared, Tabs
  <2>2. t.user = Nobody /\ t.s = 0 /\ t.check = tab.check /\ t.mounted = tab.mounted
    BY <1>0 DEF Cleared, Tabs
  <2>3. tab' = [t EXCEPT !.form = NoForm] /\ logins' = logins /\ localStore' = 0
    BY <1>17 DEF SignOutArrives
  <2>4. tab.mounted
    BY <1>i, <1>17 DEF SignOutArrives, NoForm
  <2> HIDE DEF t
  <2>5. tab' \in Tabs
    BY <1>n, <2>1, <2>3 DEF Tabs
  <2>6. tab'.user = Nobody /\ tab'.s = 0 /\ tab'.check = tab.check /\ tab'.form = NoForm
        /\ tab'.mounted = tab.mounted
    BY <2>1, <2>2, <2>3 DEF Tabs
  <2> QED BY <1>z, <2>3, <2>4, <2>5, <2>6
\* The tab stands still.
<1>s. ASSUME tab' = tab, SessionsGoOn, localStore' = 0 \/ localStore' \in DOMAIN logins'
      PROVE  AuthTabInv'
  <2>1. SameSession /\ tab' \in Tabs
    BY <1>0, <1>s DEF SameSession
  <2>2. UnderOneSession'
    BY <1>i, <1>s DEF UnderOneSession, SessionsGoOn
  <2>3. /\ tab'.check.s = 0 \/ tab'.check.s \in DOMAIN logins'
        /\ tab'.form.s = 0 \/ tab'.form.s \in DOMAIN logins'
    BY <1>0, <1>s DEF SessionsGoOn
  <2> QED BY <1>i, <1>s, <2>1, <2>2, <2>3, WhileSessionsGoOn
<1>18. ASSUME NEW s \in DOMAIN logins, EndSession(s)
       PROVE  AuthTabInv'
  <2> DEFINE gone == [logins[s] EXCEPT !.live = FALSE]
  <2>1. logins' = [logins EXCEPT ![s] = gone] /\ tab' = tab /\ localStore' = localStore
    BY <1>18 DEF EndSession
  <2>2. gone \in LoginRows /\ gone.of = logins[s].of /\ ~ gone.live
    BY <1>0 DEF LoginRows
  <2> HIDE DEF gone
  <2>3. logins' \in Seq(LoginRows) /\ Len(logins') = Len(logins) /\ DOMAIN logins' = DOMAIN logins
    BY <1>0, <2>1, <2>2
  <2>4. \A x \in DOMAIN logins : logins'[x] = IF x = s THEN gone ELSE logins[x]
    BY <1>0, <2>1
  <2>5. SessionsGoOn
    BY <1>0, <2>2, <2>3, <2>4 DEF SessionsGoOn
  <2> QED BY <1>0, <1>s, <2>1, <2>3, <2>5
<1>19. ASSUME NEW s \in {0} \cup DOMAIN logins, OtherTab(s)
       PROVE  AuthTabInv'
  BY <1>19, <1>s, SessionsStay DEF OtherTab
<1>20. CASE UNCHANGED authTabVars
  BY <1>0, <1>20, <1>s, SessionsStay DEF authTabVars
<1> QED
  BY <1>1, <1>2, <1>3, <1>4, <1>5, <1>6, <1>7, <1>8, <1>9, <1>10, <1>11, <1>12, <1>14, <1>15, <1>16,
     <1>17, <1>18, <1>19, <1>20 DEF AuthTabNext

-----------------------------------------------------------------------------
(* Who is told about a change of a Group *)

Events == {"conversation", "joined", "departed", "dissolved"}
Operations == {"none", "create", "invite", "remove", "leave", "announce", "dissolve"}
Points == {"idle", "count", "write", "audience", "ending", "delete", "deliver", "answer"}
NoticeRows == [event : Events, to : SUBSET Everyone, who : SUBSET Everyone, row : ScreenRow]
GroupAsked == [pc : Points, op : Operations, by : Everyone, who : SUBSET Everyone,
               left : SUBSET Everyone, todo : Seq(NoticeRows), panel : ScreenRow]

NoticeTypes ==
  /\ alive \in BOOLEAN
  /\ members \subseteq Everyone
  /\ notice \in 0 .. MaxRequests
  /\ listed \in [Everyone -> ScreenRow]
  /\ request \in [Request -> GroupAsked]
  /\ made \in 0 .. MaxRequests
  /\ tangled \in BOOLEAN

\* Exactly the Users of S see the group, with the stored announcement.
Agrees(S) ==
  \A u \in Everyone : (listed[u].shown <=> u \in S) /\ (u \in S => listed[u].notice = notice)

UpToDate(u) == listed[u].shown /\ listed[u].notice = notice


\* Once these notices are delivered, exactly the Participants see the group.
Heals(P) ==
  /\ \A u \in Everyone : listed[u].shown /\ u \notin members =>
       \E n \in P : /\ u \in n.to
                    /\ n.event = "dissolved" \/ (n.event = "departed" /\ u \in n.who)
  /\ \A u \in members : ~ UpToDate(u) =>
       \E n \in P : u \in n.to /\ n.event = "conversation"
  /\ \A n \in P :
       /\ n.event = "conversation" =>
            n.to \subseteq members /\ n.row.shown /\ n.row.notice = notice
       /\ n.event = "departed" => n.who \cap members = {}
       /\ n.event = "dissolved" => members = {}

\* What the answer puts on the caller's screen is what the store holds.
Answers(r) ==
  (r.panel.shown <=> r.by \in members) /\ (r.by \in members => r.panel.notice = notice)

Counting(r) ==
  /\ r.op \in {"invite", "leave"} /\ Agrees(members)
  /\ r.op = "invite" => r.left = r.who /\ r.panel.notice = notice

Writing(r) ==
  \/ /\ r.op = "invite" /\ r.left \subseteq r.who /\ r.who \ r.left \subseteq members
     /\ Agrees(members \ (r.who \ r.left)) /\ r.panel.notice = notice
     /\ Cardinality(members \cup r.left) <= GroupCap
  \/ r.op \in {"remove", "leave", "announce"} /\ Agrees(members)

Auditing(r) ==
  \/ /\ r.op = "invite" /\ r.who \subseteq members
     /\ Agrees(members \ r.who) /\ r.panel.notice = notice
  \/ /\ r.op = "announce" /\ r.panel.notice = notice
     /\ \A u \in Everyone : listed[u].shown <=> u \in members
  \/ /\ r.op \in {"remove", "leave"} /\ r.who \cap members = {}
     /\ \A u \in Everyone : /\ u \in members => UpToDate(u)
                            /\ listed[u].shown => u \in members \cup r.who

Deleting(r) ==
  /\ r.op \in {"leave", "dissolve"} /\ Agrees(members)
  /\ r.pc = "delete" => r.todo = <<Note("dissolved", members, NoOne, Absent)>>

\* What holds between two statements of the only request that runs.
Stage(r) ==
  /\ r.op = "leave" => r.who = {r.by}
  /\ r.op \in {"leave", "dissolve"} => ~ r.panel.shown
  /\ r.pc = "count" => Counting(r)
  /\ r.pc = "write" => Writing(r)
  /\ r.pc = "audience" => Auditing(r)
  /\ r.pc \in {"ending", "delete"} => Deleting(r)
  /\ r.pc = "deliver" => Heals(Pending(r.todo)) /\ (r.op \in Unread => Answers(r))
  /\ r.pc = "answer" => Agrees(members) /\ Answers(r)

Orderly ==
  ~ tangled =>
    /\ \A p, q \in Request : ~ On(p, "idle") /\ ~ On(q, "idle") => p = q
    /\ \A q \in Request : ~ On(q, "idle") => Stage(request[q])
    /\ (\A q \in Request : On(q, "idle")) => Agrees(members)
    /\ Cardinality(members) <= GroupCap
    /\ made = 0 => members = {} /\ notice = 0 /\ \A q \in Request : On(q, "idle")

NoticeInv == NoticeTypes /\ Orderly

LEMMA EveryoneCounts ==
  /\ IsFiniteSet(Everyone)
  /\ \A S \in SUBSET Everyone : IsFiniteSet(S) /\ Cardinality(S) \in Nat
<1>1. IsFiniteSet(Everyone)
  BY NoticeAssumption, FS_AddElement DEF Everyone
<1> QED BY <1>1, FS_Subset, FS_CardinalityType

LEMMA UnionIsSmall ==
  ASSUME NEW S, NEW T, IsFiniteSet(S), IsFiniteSet(T)
  PROVE  Cardinality(S \cup T) <= Cardinality(S) + Cardinality(T)
<1>1. IsFiniteSet(S \cap T)
  BY FS_Intersection
<1>2. Cardinality(S) \in Nat /\ Cardinality(T) \in Nat /\ Cardinality(S \cap T) \in Nat
  BY <1>1, FS_CardinalityType
<1>3. Cardinality(S \cup T) = Cardinality(S) + Cardinality(T) - Cardinality(S \cap T)
  BY FS_Union
<1> QED BY <1>2, <1>3

\* A request that runs while no two have overlapped runs alone.
LEMMA RunsAlone ==
  ASSUME Orderly, ~ tangled, NEW q \in Request, ~ On(q, "idle")
  PROVE  /\ Stage(request[q]) /\ made # 0 /\ Cardinality(members) <= GroupCap
         /\ \A p \in Request : p # q => On(p, "idle")
BY DEF Orderly

\* What the step of one request has to leave behind.
LEMMA StaysOrderly ==
  ASSUME NEW q \in Request, Cardinality(members') <= GroupCap, made' # 0,
         \A p \in Request : p # q => request'[p].pc = "idle",
         request'[q].pc = "idle" => Agrees(members)',
         request'[q].pc # "idle" => Stage(request[q])'
  PROVE  Orderly'
<1>1. \A p \in Request : ~ On(p, "idle")' => p = q
  BY DEF On
<1>2. \A p \in Request : ~ On(p, "idle")' => Stage(request[p])'
  BY <1>1 DEF On
<1>3. (\A p \in Request : On(p, "idle"))' => Agrees(members)'
  BY DEF On
<1> QED BY <1>1, <1>2, <1>3 DEF Orderly

LEMMA TurnsTo ==
  ASSUME request \in [Request -> GroupAsked], NEW q \in Request, NEW pc \in Points, Turn(q, pc)
  PROVE  /\ request' \in [Request -> GroupAsked]
         /\ \A p \in Request : p # q => request'[p] = request[p]
         /\ request'[q].pc = pc /\ request'[q].op = request[q].op
         /\ request'[q].by = request[q].by /\ request'[q].who = request[q].who
         /\ request'[q].left = request[q].left /\ request'[q].todo = request[q].todo
         /\ request'[q].panel = request[q].panel
<1>1. request[q] \in GroupAsked
  OBVIOUS
<1> DEFINE new == [request[q] EXCEPT !.pc = pc]
<1>2. request' = [request EXCEPT ![q] = new]
  BY DEF Turn
<1>3. new \in GroupAsked
  BY <1>1 DEF GroupAsked
<1>4. /\ new.pc = pc /\ new.op = request[q].op /\ new.by = request[q].by /\ new.who = request[q].who
      /\ new.left = request[q].left /\ new.todo = request[q].todo /\ new.panel = request[q].panel
  BY <1>1 DEF GroupAsked
<1> HIDE DEF new
<1>5. request'[q] = new
  BY <1>2
<1> QED BY <1>2, <1>3, <1>4, <1>5

LEMMA AbsentRow == Absent \in ScreenRow /\ ~ Absent.shown
BY NoticeAssumption DEF Absent, ScreenRow

LEMMA NothingAsked == NoRequest \in GroupAsked /\ NoRequest.pc = "idle"
BY AbsentRow DEF NoRequest, GroupAsked, Points, Operations, Everyone, NoOne

LEMMA IsRefused ==
  ASSUME NoticeTypes, tangled' \in BOOLEAN, NEW q \in Request, Refused(q)
  PROVE  /\ NoticeTypes'
         /\ \A p \in Request : p # q => request'[p] = request[p]
         /\ request'[q].pc = "idle"
BY NothingAsked DEF NoticeTypes, Refused

\* A request that is turned down before it changed anything leaves the screens right.
LEMMA RefusedInOrder ==
  ASSUME NoticeInv, NEW q \in Request, ~ On(q, "idle"), Refused(q), UNCHANGED tangled,
         ~ tangled => Agrees(members)
  PROVE  NoticeInv'
<1>1. NoticeTypes' /\ request'[q].pc = "idle" /\ \A p \in Request : p # q => request'[p] = request[p]
  BY IsRefused DEF NoticeInv, NoticeTypes
<1>2. ASSUME ~ tangled PROVE Orderly'
  <2>1. made # 0 /\ Cardinality(members) <= GroupCap /\ \A p \in Request : p # q => On(p, "idle")
    BY <1>2, RunsAlone DEF NoticeInv
  <2>2. members' = members /\ made' = made /\ Agrees(members)'
    BY <1>2 DEF Refused, Agrees
  <2>3. \A p \in Request : p # q => request'[p].pc = "idle"
    BY <1>1, <2>1 DEF On
  <2> QED BY StaysOrderly, <1>1, <2>1, <2>2, <2>3
<1> QED BY <1>1, <1>2 DEF NoticeInv, Orderly

\* A request that failed says nothing of the screens.
LEMMA TangledIsOrderly == ASSUME tangled' PROVE Orderly'
BY DEF Orderly

LEMMA NoticeInitially == NoticeInit => NoticeInv
<1> SUFFICES ASSUME NoticeInit PROVE NoticeInv
  OBVIOUS
<1>1. NoticeTypes
  <2>1. listed \in [Everyone -> ScreenRow]
    BY AbsentRow DEF NoticeInit
  <2>2. request \in [Request -> GroupAsked]
    BY NothingAsked DEF NoticeInit
  <2>3. alive \in BOOLEAN /\ tangled \in BOOLEAN /\ members \subseteq Everyone
    BY DEF NoticeInit, NoOne
  <2>4. notice \in 0 .. MaxRequests /\ made \in 0 .. MaxRequests
    BY NoticeAssumption DEF NoticeInit
  <2> QED BY <2>1, <2>2, <2>3, <2>4 DEF NoticeTypes
<1>2. /\ Agrees(members)
      /\ \A q \in Request : On(q, "idle")
  BY AbsentRow, NothingAsked DEF NoticeInit, Agrees, NoOne, On
<1>3. Cardinality(members) <= GroupCap /\ members = {} /\ notice = 0
  BY FS_EmptySet, NoticeAssumption DEF NoticeInit, NoOne
<1> QED BY <1>1, <1>2, <1>3 DEF NoticeInv, Orderly

LEMMA CreationIsOrderly ==
  ASSUME NoticeInv, NEW q \in Request, NEW who \in SUBSET Fellow, CreateGroupOf(q, who)
  PROVE  NoticeInv'
<1> DEFINE row == Row(Cardinality(who) + 1, 0)
           note == Note("conversation", who \cup {Founder}, NoOne, row)
           new == [NoRequest EXCEPT !.pc = "deliver", !.op = "create", !.panel = row, !.todo = <<note>>]
<1>1. /\ made = 0 /\ members' = who \cup {Founder} /\ request' = [request EXCEPT ![q] = new]
      /\ alive' = TRUE /\ made' = 1 /\ UNCHANGED <<notice, listed, tangled>>
      /\ Cardinality(who) + 1 <= GroupCap
  BY NoticeAssumption DEF CreateGroupOf
<1>2. who \subseteq Everyone /\ Founder \in Everyone
  BY DEF Everyone
<1>3. Cardinality(who) \in Nat /\ IsFiniteSet(who)
  BY <1>2, EveryoneCounts
<1>4. row \in ScreenRow /\ row.shown /\ row.notice = 0
  BY <1>3, NoticeAssumption DEF Row, ScreenRow
<1> HIDE DEF row
<1>5. note \in NoticeRows /\ note.event = "conversation" /\ note.to = who \cup {Founder} /\ note.row = row
  BY <1>2, <1>4 DEF Note, NoticeRows, Events, NoOne
<1> HIDE DEF note
<1>6. new \in GroupAsked /\ new.pc = "deliver" /\ new.op = "create" /\ new.panel = row
      /\ new.todo = <<note>> /\ new.by = Founder
  <2>1. <<note>> \in Seq(NoticeRows)
    BY <1>5
  <2> DEFINE todo == <<note>>
  <2> HIDE DEF todo
  <2>2. new = [NoRequest EXCEPT !.pc = "deliver", !.op = "create", !.panel = row, !.todo = todo]
    BY DEF todo
  <2>3. todo \in Seq(NoticeRows) /\ todo = <<note>>
    BY <2>1 DEF todo
  <2> HIDE DEF new
  <2>4. NoRequest \in GroupAsked /\ NoRequest.by = Founder
    BY NothingAsked DEF NoRequest
  <2>5. new \in GroupAsked
    BY <1>4, <2>2, <2>3, <2>4 DEF GroupAsked, Points, Operations
  <2> QED BY <2>2, <2>3, <2>4, <2>5 DEF GroupAsked
<1> HIDE DEF new
<1>7. request'[q] = new /\ request' \in [Request -> GroupAsked]
      /\ \A p \in Request : p # q => request'[p] = request[p]
  BY <1>1, <1>6 DEF NoticeInv, NoticeTypes
<1>8. NoticeTypes'
  BY <1>1, <1>2, <1>7, NoticeAssumption DEF NoticeInv, NoticeTypes
<1>9. ASSUME ~ tangled PROVE Orderly'
  <2>1. members = {} /\ notice = 0 /\ Agrees(members) /\ \A p \in Request : On(p, "idle")
    BY <1>1, <1>9 DEF NoticeInv, Orderly
  <2>2. Cardinality(members') <= GroupCap
    <3>1. Cardinality(who \cup {Founder}) <= Cardinality(who) + 1
      BY <1>3, FS_AddElement
    <3>2. Cardinality(who \cup {Founder}) \in Nat
      BY <1>2, EveryoneCounts
    <3> QED BY <1>1, <1>3, <3>1, <3>2, NoticeAssumption
  <2>3. Pending(request'[q].todo) = {note}
    BY <1>6, <1>7 DEF Pending
  <2>4. Heals(Pending(request[q].todo))'
    BY <1>1, <1>4, <1>5, <2>1, <2>3 DEF Heals, Agrees, UpToDate
  <2>5. Answers(request[q])'
    BY <1>1, <1>4, <1>6, <1>7, <2>1 DEF Answers
  <2>6. Stage(request[q])'
    BY <1>6, <1>7, <2>4, <2>5 DEF Stage
  <2> QED BY StaysOrderly, <1>1, <1>7, <2>1, <2>2, <2>6, <1>6 DEF On
<1> QED BY <1>1, <1>8, <1>9 DEF NoticeInv, Orderly

LEMMA RequestIsOrderly ==
  ASSUME NoticeInv, NEW q \in Request, NEW op \in {"invite", "remove", "leave", "announce", "dissolve"},
         NEW by \in Everyone, NEW who \in (SUBSET Fellow) \cup {{Founder}}, MakeRequest(q, op, by, who)
  PROVE  NoticeInv'
<1> DEFINE first == FirstStatement(op)
           panel == IF op = "invite" THEN Row(0, notice) ELSE Absent
           new == [NoRequest EXCEPT !.pc = first, !.op = op, !.by = by, !.who = who, !.left = who,
                                    !.panel = panel]
<1>1. /\ made < MaxRequests /\ Allowed(op, by, who) /\ request' = [request EXCEPT ![q] = new]
      /\ made' = made + 1 /\ tangled' = (tangled \/ \E r \in Request : ~ On(r, "idle"))
      /\ UNCHANGED <<alive, members, notice, listed>> /\ On(q, "idle")
  BY DEF MakeRequest
<1>2. NoticeTypes
  BY DEF NoticeInv
<1>3. /\ first \in {"count", "ending", "write"}
      /\ first = "count" => op \in {"invite", "leave"}
      /\ first = "ending" => op = "dissolve"
      /\ first = "write" => op \in {"remove", "announce"}
  BY DEF FirstStatement
<1>4. /\ panel \in ScreenRow /\ (op = "invite" => panel.notice = notice)
      /\ op \in {"leave", "dissolve"} => ~ panel.shown
  BY <1>2, AbsentRow DEF Row, ScreenRow, NoticeTypes
<1>5. op = "leave" => who = {by}
  BY <1>1 DEF Allowed
<1> HIDE DEF first, panel
<1>6. who \in SUBSET Everyone
  BY DEF Everyone
<1>7. NoRequest \in GroupAsked
  BY NothingAsked
<1>8. new \in GroupAsked
  BY <1>3, <1>4, <1>6, <1>7 DEF GroupAsked, Points, Operations
<1>9. /\ new.pc = first /\ new.op = op /\ new.by = by /\ new.who = who /\ new.left = who
      /\ new.panel = panel
  BY <1>7 DEF GroupAsked
<1> HIDE DEF new
<1>10. /\ request'[q] = new /\ request' \in [Request -> GroupAsked]
       /\ \A p \in Request : p # q => request'[p] = request[p]
  BY <1>1, <1>2, <1>8 DEF NoticeTypes
<1>11. made' \in 0 .. MaxRequests /\ made' # 0
  BY <1>1, <1>2, NoticeAssumption DEF NoticeTypes
<1>12. NoticeTypes'
  BY <1>1, <1>2, <1>10, <1>11 DEF NoticeTypes
<1>13. ASSUME ~ tangled' PROVE Orderly'
  <2>1. ~ tangled /\ \A p \in Request : On(p, "idle")
    BY <1>1, <1>13
  <2>2. Agrees(members) /\ Cardinality(members) <= GroupCap
    BY <2>1 DEF NoticeInv, Orderly
  <2>3. Agrees(members)'
    BY <1>1, <2>2 DEF Agrees
  <2>4. first = "count" => Counting(request[q])'
    BY <1>1, <1>3, <1>4, <1>9, <1>10, <2>3 DEF Counting
  <2>5. first = "write" => Writing(request[q])'
    BY <1>3, <1>9, <1>10, <2>3 DEF Writing
  <2>6. first = "ending" => Deleting(request[q])'
    BY <1>3, <1>9, <1>10, <2>3 DEF Deleting
  <2>7. Stage(request[q])'
    BY <1>3, <1>4, <1>5, <1>9, <1>10, <2>4, <2>5, <2>6 DEF Stage
  <2>8. request'[q].pc # "idle"
    BY <1>3, <1>9, <1>10
  <2>9. \A p \in Request : p # q => request'[p].pc = "idle"
    BY <1>10, <2>1 DEF On
  <2> QED BY StaysOrderly, <1>1, <1>11, <2>2, <2>7, <2>8, <2>9
<1> QED BY <1>12, <1>13 DEF NoticeInv, Orderly

LEMMA CountIsOrderly ==
  ASSUME NoticeInv, NEW q \in Request, CountParticipants(q)
  PROVE  NoticeInv'
<1> DEFINE r == request[q]
           n == Cardinality(members)
           fits == r.who \cap members = NoOne /\ n + Cardinality(r.who) <= GroupCap
           alone == n <= 1
           next == IF r.op = "leave" /\ alone THEN "ending" ELSE "write"
<1>1. ~ On(q, "idle") /\ r.pc = "count" /\ UNCHANGED tangled /\ r \in GroupAsked
  BY DEF CountParticipants, On, NoticeInv, NoticeTypes
<1>2. ~ tangled => Stage(request[q]) /\ made # 0 /\ Cardinality(members) <= GroupCap
                     /\ \A p \in Request : p # q => On(p, "idle")
  BY <1>1, RunsAlone DEF NoticeInv
<1>3. ~ tangled => Counting(r)
  BY <1>1, <1>2 DEF Stage
<1>4. CASE /\ IF r.op = "invite" THEN fits ELSE r.by # Founder \/ alone
           /\ Turn(q, next) /\ UNCHANGED <<alive, members, notice, listed, made>>
  <2>1. next \in {"ending", "write"} /\ next \in Points /\ (next = "ending" => r.op = "leave")
    BY DEF Points
  <2> HIDE DEF next
  <2>2. /\ request' \in [Request -> GroupAsked]
        /\ \A p \in Request : p # q => request'[p] = request[p]
        /\ request'[q].pc = next /\ request'[q].op = r.op
        /\ request'[q].by = r.by /\ request'[q].who = r.who
        /\ request'[q].left = r.left /\ request'[q].todo = r.todo
        /\ request'[q].panel = r.panel
    BY <1>4, <2>1, TurnsTo DEF NoticeInv, NoticeTypes
  <2>3. NoticeTypes'
    BY <1>1, <1>4, <2>2 DEF NoticeInv, NoticeTypes
  <2>4. ASSUME ~ tangled PROVE Orderly'
    <3>1. Agrees(members) /\ Stage(r) /\ r.op \in {"invite", "leave"}
          /\ (r.op = "invite" => r.left = r.who /\ r.panel.notice = notice)
      BY <1>2, <1>3, <2>4 DEF Counting
    <3>2. Agrees(members)'
      BY <1>4, <3>1 DEF Agrees
    <3>3. r.op = "invite" => Cardinality(members \cup r.left) <= GroupCap
      <4>1. r.who \in SUBSET Everyone /\ members \in SUBSET Everyone
        BY <1>1 DEF GroupAsked, NoticeInv, NoticeTypes
      <4>2. /\ IsFiniteSet(members) /\ IsFiniteSet(r.who) /\ Cardinality(members \cap r.who) \in Nat
            /\ Cardinality(members) \in Nat /\ Cardinality(r.who) \in Nat
            /\ Cardinality(members \cup r.who) \in Nat
        BY <4>1, EveryoneCounts
      <4>3. Cardinality(members \cup r.who) <= Cardinality(members) + Cardinality(r.who)
        BY <4>2, UnionIsSmall
      <4>4. r.op = "invite" => Cardinality(members) + Cardinality(r.who) <= GroupCap
        BY <1>4
      <4>5. r.op = "invite" => members \cup r.left = members \cup r.who
        BY <3>1
      <4>6. ASSUME r.op = "invite" PROVE Cardinality(members \cup r.who) <= GroupCap
        <5> HIDE DEF r
        <5> QED BY <4>2, <4>3, <4>4, <4>6, NoticeAssumption
      <4> QED BY <4>5, <4>6
    <3>4. next = "write" => Writing(request[q])'
      <4>1. CASE r.op = "leave"
        BY <2>2, <3>2, <4>1 DEF Writing
      <4>2. CASE r.op = "invite"
        <5>1. r.who \ r.left = {} /\ members \ (r.who \ r.left) = members
          BY <3>1, <4>2
        <5>2. Agrees(members \ (request[q].who \ request[q].left))'
          BY <1>4, <2>2, <3>1, <5>1 DEF Agrees
        <5> HIDE DEF r
        <5> QED BY <1>4, <2>2, <3>1, <3>3, <4>2, <5>1, <5>2 DEF Writing
      <4> QED BY <3>1, <4>1, <4>2
    <3>5. next = "ending" => Deleting(request[q])'
      BY <2>1, <2>2, <3>2 DEF Deleting
    <3>6. Stage(request[q])'
      BY <2>1, <2>2, <3>1, <3>4, <3>5 DEF Stage
    <3>7. request'[q].pc # "idle" /\ \A p \in Request : p # q => request'[p].pc = "idle"
      BY <1>2, <2>1, <2>2, <2>4 DEF On
    <3> QED BY StaysOrderly, <1>2, <1>4, <2>4, <3>6, <3>7
  <2> QED BY <1>1, <2>3, <2>4 DEF NoticeInv, Orderly
<1>5. CASE Refused(q)
  <2>1. ~ tangled => Agrees(members)
    BY <1>3 DEF Counting
  <2> QED BY <1>1, <1>5, <2>1, RefusedInOrder
<1> QED BY <1>4, <1>5 DEF CountParticipants

LEMMA InviteIsOrderly ==
  ASSUME NoticeInv, NEW q \in Request, InviteNext(q)
  PROVE  NoticeInv'
<1> DEFINE r == request[q]
<1>1. ~ On(q, "idle") /\ r.pc = "write" /\ r.op = "invite" /\ r \in GroupAsked /\ NoticeTypes
  BY DEF InviteNext, On, NoticeInv, NoticeTypes
<1>2. ~ tangled => Stage(request[q]) /\ made # 0 /\ Cardinality(members) <= GroupCap
                     /\ \A p \in Request : p # q => On(p, "idle")
  BY <1>1, RunsAlone DEF NoticeInv
<1>3. ASSUME NEW u \in r.left, u \notin members, members' = members \cup {u},
             request' = [request EXCEPT ![q] = [request[q] EXCEPT
               !.left = @ \ {u}, !.pc = IF request[q].left = {u} THEN "audience" ELSE "write"]],
             UNCHANGED <<alive, notice, listed, made, tangled>>
      PROVE  NoticeInv'
  <2> DEFINE pc == IF r.left = {u} THEN "audience" ELSE "write"
             left == r.left \ {u}
             new == [r EXCEPT !.left = left, !.pc = pc]
  <2>1. request' = [request EXCEPT ![q] = new]
    BY <1>3
  <2>2. pc \in Points /\ pc \in {"audience", "write"} /\ left \in SUBSET Everyone /\ r.left \in SUBSET Everyone
    BY <1>1 DEF Points, GroupAsked
  <2>3. pc = "audience" => left = {}
    OBVIOUS
  <2>4. left \cup {u} = r.left /\ u \notin left /\ u \in Everyone
    BY <1>3, <2>2
  <2> HIDE DEF pc, left
  <2>5. new \in GroupAsked
    BY <1>1, <2>2 DEF GroupAsked
  <2>6. /\ new.pc = pc /\ new.left = left /\ new.op = r.op /\ new.by = r.by /\ new.who = r.who
        /\ new.panel = r.panel
    BY <1>1 DEF GroupAsked
  <2> HIDE DEF new
  <2>7. /\ request'[q] = new /\ request' \in [Request -> GroupAsked]
        /\ \A p \in Request : p # q => request'[p] = request[p]
    BY <1>1, <2>1, <2>5 DEF NoticeTypes
  <2>8. NoticeTypes'
    BY <1>1, <1>3, <2>4, <2>7 DEF NoticeTypes
  <2>9. ASSUME ~ tangled PROVE Orderly'
    <3>1. Stage(r) /\ Writing(r) /\ made # 0
      BY <1>1, <1>2, <2>9 DEF Stage
    <3>2. /\ r.left \subseteq r.who /\ r.who \ r.left \subseteq members
          /\ Agrees(members \ (r.who \ r.left)) /\ r.panel.notice = notice
          /\ Cardinality(members \cup r.left) <= GroupCap
      BY <1>1, <3>1 DEF Writing
    <3> HIDE DEF r
    <3>3. /\ members' \cup left = members \cup r.left
          /\ members' \ (r.who \ left) = members \ (r.who \ r.left)
          /\ left \subseteq r.who /\ r.who \ left \subseteq members'
      BY <1>3, <2>4, <3>2
    <3>4. Cardinality(members') <= GroupCap
      <4>1. members \cup r.left \in SUBSET Everyone
        BY <1>1, <2>2 DEF NoticeTypes
      <4>2. IsFiniteSet(members \cup r.left) /\ members' \subseteq members \cup r.left
        BY <1>3, <4>1, EveryoneCounts
      <4>3. Cardinality(members') <= Cardinality(members \cup r.left)
        BY <4>2, FS_Subset
      <4>4. Cardinality(members') \in Nat /\ Cardinality(members \cup r.left) \in Nat
        BY <4>1, <4>2, EveryoneCounts
      <4> QED BY <3>2, <4>3, <4>4, NoticeAssumption
    <3>5. Agrees(members \ (request[q].who \ request[q].left))'
      BY <1>3, <2>6, <2>7, <3>2, <3>3 DEF Agrees
    <3>6. CASE pc = "write"
      <4>1. Writing(request[q])'
        BY <1>1, <1>3, <2>6, <2>7, <3>2, <3>3, <3>5 DEF Writing, r
      <4>2. Stage(request[q])'
        BY <1>1, <2>6, <2>7, <3>6, <4>1 DEF Stage, r
      <4> QED BY StaysOrderly, <1>2, <1>3, <2>6, <2>7, <2>9, <3>1, <3>4, <3>6, <4>2 DEF On
    <3>7. CASE pc = "audience"
      <4>1. r.who \subseteq members' /\ r.who \ left = r.who
        BY <2>3, <3>3, <3>7
      <4>2. Agrees(members \ request[q].who)'
        BY <2>6, <2>7, <3>5, <4>1
      <4>3. Auditing(request[q])'
        BY <1>1, <1>3, <2>6, <2>7, <3>2, <4>1, <4>2 DEF Auditing, r
      <4>4. Stage(request[q])'
        BY <1>1, <2>6, <2>7, <3>7, <4>3 DEF Stage, r
      <4> QED BY StaysOrderly, <1>2, <1>3, <2>6, <2>7, <2>9, <3>1, <3>4, <3>7, <4>4 DEF On
    <3> QED BY <2>2, <3>6, <3>7
  <2> QED BY <1>3, <2>8, <2>9 DEF NoticeInv, Orderly
<1>4. ASSUME Refused(q), tangled' = TRUE PROVE NoticeInv'
  BY <1>1, <1>4, IsRefused, TangledIsOrderly DEF NoticeInv
<1> QED BY <1>3, <1>4, Zenon DEF InviteNext

LEMMA DepartureIsOrderly ==
  ASSUME NoticeInv, NEW q \in Request, DeleteNamed(q)
  PROVE  NoticeInv'
<1> DEFINE r == request[q]
<1>1. ~ On(q, "idle") /\ r.pc = "write" /\ r.op \in {"remove", "leave"} /\ r \in GroupAsked /\ NoticeTypes
  BY DEF DeleteNamed, On, NoticeInv, NoticeTypes
<1>2. ~ tangled => Stage(request[q]) /\ made # 0 /\ Cardinality(members) <= GroupCap
                     /\ \A p \in Request : p # q => On(p, "idle")
  BY <1>1, RunsAlone DEF NoticeInv
<1>3. ~ tangled => Agrees(members)
  BY <1>1, <1>2 DEF Stage, Writing
<1>4. CASE /\ r.who \subseteq members /\ members' = members \ r.who
           /\ Turn(q, "audience") /\ UNCHANGED <<alive, notice, listed, made, tangled>>
  <2>1. /\ request' \in [Request -> GroupAsked]
        /\ \A p \in Request : p # q => request'[p] = request[p]
        /\ request'[q].pc = "audience" /\ request'[q].op = r.op
        /\ request'[q].by = r.by /\ request'[q].who = r.who
        /\ request'[q].panel = r.panel
    BY <1>1, <1>4, TurnsTo DEF NoticeTypes, Points
  <2>2. NoticeTypes'
    BY <1>1, <1>4, <2>1 DEF NoticeTypes
  <2>3. ASSUME ~ tangled PROVE Orderly'
    <3>1. Cardinality(members') <= GroupCap
      <4>1. members \in SUBSET Everyone /\ members' \in SUBSET Everyone /\ members' \subseteq members
        BY <1>1, <1>4 DEF NoticeTypes
      <4>2. Cardinality(members') <= Cardinality(members)
        BY <4>1, EveryoneCounts, FS_Subset
      <4>3. Cardinality(members') \in Nat /\ Cardinality(members) \in Nat
        BY <4>1, EveryoneCounts
      <4> QED BY <1>2, <2>3, <4>2, <4>3, NoticeAssumption
    <3>2. /\ request'[q].who \cap members' = {}
          /\ \A u \in Everyone : /\ u \in members' => UpToDate(u)'
                                 /\ listed'[u].shown => u \in members' \cup request'[q].who
      BY <1>3, <1>4, <2>1, <2>3 DEF Agrees, UpToDate
    <3>3. Auditing(request[q])'
      BY <1>1, <2>1, <3>2 DEF Auditing
    <3>4. Stage(request[q])'
      BY <1>2, <2>1, <2>3, <3>3 DEF Stage
    <3>5. request'[q].pc # "idle" /\ \A p \in Request : p # q => request'[p].pc = "idle"
      BY <1>2, <2>1, <2>3 DEF On
    <3> QED BY StaysOrderly, <1>2, <1>4, <2>3, <3>1, <3>4, <3>5
  <2> QED BY <1>4, <2>2, <2>3 DEF NoticeInv, Orderly
<1>5. CASE Refused(q) /\ UNCHANGED tangled
  BY <1>1, <1>3, <1>5, RefusedInOrder
<1> QED BY <1>4, <1>5 DEF DeleteNamed

LEMMA AnnouncementIsOrderly ==
  ASSUME NoticeInv, NEW q \in Request, SetAnnouncement(q)
  PROVE  NoticeInv'
<1> DEFINE r == request[q]
<1>1. ~ On(q, "idle") /\ r.pc = "write" /\ r.op = "announce" /\ r \in GroupAsked /\ NoticeTypes
  BY DEF SetAnnouncement, On, NoticeInv, NoticeTypes
<1>2. ~ tangled => Stage(request[q]) /\ made # 0 /\ Cardinality(members) <= GroupCap
                     /\ \A p \in Request : p # q => On(p, "idle")
  BY <1>1, RunsAlone DEF NoticeInv
<1>3. ~ tangled => Agrees(members)
  BY <1>1, <1>2 DEF Stage, Writing
<1>4. CASE /\ notice' = made /\ UNCHANGED <<alive, members, listed, made, tangled>>
           /\ request' = [request EXCEPT ![q] = [@ EXCEPT !.pc = "audience", !.panel = Row(0, made)]]
  <2> DEFINE row == Row(0, made)
             new == [r EXCEPT !.pc = "audience", !.panel = row]
  <2>1. request' = [request EXCEPT ![q] = new]
    BY <1>4
  <2>2. row \in ScreenRow /\ row.notice = made
    BY <1>1 DEF Row, ScreenRow, NoticeTypes
  <2> HIDE DEF row
  <2>3. new \in GroupAsked
    BY <1>1, <2>2 DEF GroupAsked, Points
  <2>4. /\ new.pc = "audience" /\ new.op = r.op /\ new.by = r.by /\ new.who = r.who
        /\ new.panel = row
    BY <1>1 DEF GroupAsked
  <2> HIDE DEF new
  <2>5. /\ request'[q] = new /\ request' \in [Request -> GroupAsked]
        /\ \A p \in Request : p # q => request'[p] = request[p]
    BY <1>1, <2>1, <2>3 DEF NoticeTypes
  <2>6. NoticeTypes'
    BY <1>1, <1>4, <2>5 DEF NoticeTypes
  <2>7. ASSUME ~ tangled PROVE Orderly'
    <3>1. Auditing(request[q])'
      BY <1>1, <1>3, <1>4, <2>2, <2>4, <2>5, <2>7 DEF Auditing, Agrees
    <3>2. Stage(request[q])'
      BY <1>1, <2>4, <2>5, <3>1 DEF Stage
    <3>3. request'[q].pc # "idle" /\ \A p \in Request : p # q => request'[p].pc = "idle"
      BY <1>2, <2>4, <2>5, <2>7 DEF On
    <3> QED BY StaysOrderly, <1>2, <1>4, <2>7, <3>2, <3>3
  <2> QED BY <1>4, <2>6, <2>7 DEF NoticeInv, Orderly
<1>5. CASE Refused(q) /\ UNCHANGED tangled
  BY <1>1, <1>3, <1>5, RefusedInOrder
<1> QED BY <1>4, <1>5 DEF SetAnnouncement

LEMMA EndingIsOrderly ==
  ASSUME NoticeInv, NEW q \in Request, ReadLastAudience(q)
  PROVE  NoticeInv'
<1> DEFINE r == request[q]
           todo == Dissolution
           new == [r EXCEPT !.pc = "delete", !.todo = todo]
<1>1. ~ On(q, "idle") /\ r.pc = "ending" /\ r \in GroupAsked /\ NoticeTypes
      /\ UNCHANGED <<alive, members, notice, listed, made, tangled>>
  BY DEF ReadLastAudience, On, NoticeInv, NoticeTypes
<1>2. request' = [request EXCEPT ![q] = new]
  BY DEF ReadLastAudience
<1>3. Note("dissolved", members, NoOne, Absent) \in NoticeRows
  BY <1>1, AbsentRow DEF Note, NoticeRows, Events, NoOne, NoticeTypes
<1>4. todo \in Seq(NoticeRows) /\ todo = <<Note("dissolved", members, NoOne, Absent)>>
  BY <1>3 DEF Dissolution
<1> HIDE DEF todo
<1>5. new \in GroupAsked
  BY <1>1, <1>4 DEF GroupAsked, Points
<1>6. /\ new.pc = "delete" /\ new.op = r.op /\ new.by = r.by /\ new.who = r.who
      /\ new.panel = r.panel /\ new.todo = todo
  BY <1>1 DEF GroupAsked
<1> HIDE DEF new
<1>7. /\ request'[q] = new /\ request' \in [Request -> GroupAsked]
      /\ \A p \in Request : p # q => request'[p] = request[p]
  BY <1>1, <1>2, <1>5 DEF NoticeTypes
<1>8. NoticeTypes'
  BY <1>1, <1>7 DEF NoticeTypes
<1>9. ASSUME ~ tangled PROVE Orderly'
  <2>1. Stage(r) /\ made # 0 /\ Cardinality(members) <= GroupCap
        /\ \A p \in Request : p # q => On(p, "idle")
    BY <1>1, <1>9, RunsAlone DEF NoticeInv
  <2>2. r.op \in {"leave", "dissolve"} /\ Agrees(members)
    BY <1>1, <2>1 DEF Stage, Deleting
  <2>3. Note("dissolved", members, NoOne, Absent)' = Note("dissolved", members, NoOne, Absent)
    BY <1>1
  <2>4. Agrees(members)'
    BY <1>1, <2>2 DEF Agrees
  <2>5. Deleting(request[q])'
    BY <1>4, <1>6, <1>7, <2>2, <2>3, <2>4 DEF Deleting
  <2>6. Stage(request[q])'
    BY <1>6, <1>7, <2>1, <2>5 DEF Stage
  <2>7. request'[q].pc # "idle" /\ \A p \in Request : p # q => request'[p].pc = "idle"
    BY <1>6, <1>7, <2>1 DEF On
  <2> QED BY StaysOrderly, <1>1, <2>1, <2>6, <2>7
<1> QED BY <1>1, <1>8, <1>9 DEF NoticeInv, Orderly

LEMMA DissolutionIsOrderly ==
  ASSUME NoticeInv, NEW q \in Request, DeleteGroup(q)
  PROVE  NoticeInv'
<1> DEFINE r == request[q]
<1>1. ~ On(q, "idle") /\ r.pc = "delete" /\ r \in GroupAsked /\ NoticeTypes
  BY DEF DeleteGroup, On, NoticeInv, NoticeTypes
<1>2. ~ tangled => Stage(request[q]) /\ made # 0 /\ Cardinality(members) <= GroupCap
                     /\ \A p \in Request : p # q => On(p, "idle")
  BY <1>1, RunsAlone DEF NoticeInv
<1>3. ~ tangled => Deleting(r)
  BY <1>1, <1>2 DEF Stage
<1>4. CASE /\ alive' = FALSE /\ members' = NoOne /\ Turn(q, "deliver")
           /\ UNCHANGED <<notice, listed, made, tangled>>
  <2>1. /\ request' \in [Request -> GroupAsked]
        /\ \A p \in Request : p # q => request'[p] = request[p]
        /\ request'[q].pc = "deliver" /\ request'[q].op = r.op
        /\ request'[q].by = r.by /\ request'[q].who = r.who /\ request'[q].todo = r.todo
        /\ request'[q].panel = r.panel
    BY <1>1, <1>4, TurnsTo DEF NoticeTypes, Points
  <2>2. NoticeTypes'
    BY <1>1, <1>4, <2>1 DEF NoticeTypes, NoOne
  <2>3. ASSUME ~ tangled PROVE Orderly'
    <3>1. r.op \in {"leave", "dissolve"} /\ Agrees(members) /\ Stage(r)
          /\ r.todo = <<Note("dissolved", members, NoOne, Absent)>>
      BY <1>1, <1>2, <1>3, <2>3 DEF Deleting
    <3> DEFINE closing == Note("dissolved", members, NoOne, Absent)
    <3>2. closing.event = "dissolved" /\ closing.to = members
      BY DEF Note
    <3>3. request'[q].todo = <<closing>>
      BY <2>1, <3>1
    <3> HIDE DEF closing
    <3>4. Pending(request'[q].todo) = {closing}
      BY <3>3 DEF Pending
    <3>5. Heals(Pending(request[q].todo))'
      <4>1. members' = {} /\ listed' = listed
        BY <1>4 DEF NoOne
      <4>2. \A u \in Everyone : listed[u].shown => u \in closing.to
        BY <3>1, <3>2 DEF Agrees
      <4>3. \A u \in Everyone : listed[u].shown =>
              \E n \in {closing} : u \in n.to /\ n.event = "dissolved"
        BY <3>2, <4>2
      <4>4. \A n \in {closing} : n.event = "dissolved"
        BY <3>2
      <4> QED BY <3>4, <4>1, <4>3, <4>4 DEF Heals, UpToDate
    <3>6. Answers(request[q])'
      BY <1>4, <2>1, <3>1 DEF Answers, Stage, NoOne
    <3>7. Stage(request[q])'
      BY <2>1, <3>1, <3>5, <3>6 DEF Stage
    <3>8. Cardinality(members') <= GroupCap
      BY <1>4, FS_EmptySet, NoticeAssumption DEF NoOne
    <3>9. request'[q].pc # "idle" /\ \A p \in Request : p # q => request'[p].pc = "idle"
      BY <1>2, <2>1, <2>3 DEF On
    <3> QED BY StaysOrderly, <1>2, <1>4, <2>3, <3>7, <3>8, <3>9
  <2> QED BY <1>4, <2>2, <2>3 DEF NoticeInv, Orderly
<1>5. CASE Refused(q) /\ UNCHANGED tangled
  <2>1. ~ tangled => Agrees(members)
    BY <1>3 DEF Deleting
  <2> QED BY <1>1, <1>5, <2>1, RefusedInOrder
<1> QED BY <1>4, <1>5 DEF DeleteGroup

LEMMA PanelIsOrderly ==
  ASSUME NoticeInv, NEW q \in Request, ReadPanel(q)
  PROVE  NoticeInv'
<1> DEFINE r == request[q]
           panel == IF r.op \in Unread THEN r.panel ELSE Row(Cardinality(members), notice)
           new == [r EXCEPT !.pc = "answer", !.panel = panel]
<1>1. ~ On(q, "idle") /\ r.pc = "deliver" /\ r \in GroupAsked /\ NoticeTypes /\ r.todo = <<>>
      /\ UNCHANGED tangled
  BY DEF ReadPanel, On, NoticeInv, NoticeTypes
<1>2. ~ tangled => Stage(request[q]) /\ made # 0 /\ Cardinality(members) <= GroupCap
                     /\ \A p \in Request : p # q => On(p, "idle")
  BY <1>1, RunsAlone DEF NoticeInv
<1>3. ~ tangled => Agrees(members)
  <2>1. Pending(r.todo) = {}
    BY <1>1 DEF Pending
  <2>2. ~ tangled => Heals({})
    BY <1>1, <1>2, <2>1 DEF Stage
  <2> HIDE DEF r
  <2>3. members \subseteq Everyone
    BY <1>1 DEF NoticeTypes
  <2> QED BY <2>2, <2>3 DEF Heals, Agrees, UpToDate
<1>4. CASE /\ r.op \notin Unread => r.by \in members
           /\ request' = [request EXCEPT ![q] = new]
           /\ UNCHANGED <<alive, members, notice, listed, made>>
  <2>1. panel \in ScreenRow /\ (r.op \in Unread => panel = r.panel)
        /\ (r.op \notin Unread => panel.shown /\ panel.notice = notice)
    <3>1. Cardinality(members) \in Nat
      BY <1>1, EveryoneCounts DEF NoticeTypes
    <3> QED BY <1>1, <3>1 DEF Row, ScreenRow, NoticeTypes, GroupAsked
  <2> HIDE DEF panel
  <2>2. new \in GroupAsked
    BY <1>1, <2>1 DEF GroupAsked, Points
  <2>3. /\ new.pc = "answer" /\ new.op = r.op /\ new.by = r.by /\ new.who = r.who
        /\ new.panel = panel
    BY <1>1 DEF GroupAsked
  <2> HIDE DEF new
  <2>4. /\ request'[q] = new /\ request' \in [Request -> GroupAsked]
        /\ \A p \in Request : p # q => request'[p] = request[p]
    BY <1>1, <1>4, <2>2 DEF NoticeTypes
  <2>5. NoticeTypes'
    BY <1>1, <1>4, <2>4 DEF NoticeTypes
  <2>6. ASSUME ~ tangled PROVE Orderly'
    <3>1. Stage(r) /\ made # 0 /\ Cardinality(members) <= GroupCap
      BY <1>2, <2>6
    <3>2. r.op \in Unread => Answers(r)
      BY <1>1, <3>1 DEF Stage
    <3>3. Answers(request[q])'
      <4>1. CASE r.op \in Unread
        BY <1>4, <2>1, <2>3, <2>4, <3>2, <4>1 DEF Answers
      <4>2. CASE r.op \notin Unread
        BY <1>4, <2>1, <2>3, <2>4, <4>2 DEF Answers
      <4> QED BY <4>1, <4>2
    <3>4. Agrees(members)'
      BY <1>3, <1>4, <2>6 DEF Agrees
    <3>5. r.op \in {"leave", "dissolve"} => ~ panel.shown
      BY <2>1, <3>1 DEF Stage, Unread
    <3>6. Stage(request[q])'
      BY <2>3, <2>4, <3>1, <3>3, <3>4, <3>5 DEF Stage
    <3>7. request'[q].pc # "idle" /\ \A p \in Request : p # q => request'[p].pc = "idle"
      BY <1>2, <2>3, <2>4, <2>6 DEF On
    <3> QED BY StaysOrderly, <1>2, <1>4, <2>6, <3>6, <3>7
  <2> QED BY <1>1, <2>5, <2>6 DEF NoticeInv, Orderly
<1>5. CASE Refused(q)
  BY <1>1, <1>3, <1>5, RefusedInOrder
<1> QED BY <1>4, <1>5 DEF ReadPanel

LEMMA AnswerIsOrderly ==
  ASSUME NoticeInv, NEW q \in Request, TakeAnswer(q)
  PROVE  NoticeInv'
<1> DEFINE r == request[q]
<1>1. ~ On(q, "idle") /\ r.pc = "answer" /\ r \in GroupAsked /\ NoticeTypes
      /\ listed' = [listed EXCEPT ![r.by] = r.panel] /\ request' = [request EXCEPT ![q] = NoRequest]
      /\ UNCHANGED <<alive, members, notice, made, tangled>>
  BY DEF TakeAnswer, On, NoticeInv, NoticeTypes
<1>2. r.by \in Everyone /\ r.panel \in ScreenRow
  BY <1>1 DEF GroupAsked
<1>3. /\ request'[q] = NoRequest /\ request' \in [Request -> GroupAsked]
      /\ \A p \in Request : p # q => request'[p] = request[p]
  BY <1>1, NothingAsked DEF NoticeTypes
<1>4. listed' \in [Everyone -> ScreenRow] /\ listed'[r.by] = r.panel
      /\ \A u \in Everyone : u # r.by => listed'[u] = listed[u]
  BY <1>1, <1>2 DEF NoticeTypes
<1>5. NoticeTypes'
  BY <1>1, <1>3, <1>4 DEF NoticeTypes
<1>6. ASSUME ~ tangled PROVE Orderly'
  <2>1. Stage(r) /\ made # 0 /\ Cardinality(members) <= GroupCap
        /\ \A p \in Request : p # q => On(p, "idle")
    BY <1>1, <1>6, RunsAlone DEF NoticeInv
  <2>2. Agrees(members) /\ Answers(r)
    BY <1>1, <2>1 DEF Stage
  <2>3. Agrees(members)'
    BY <1>1, <1>2, <1>4, <2>2 DEF Agrees, Answers
  <2>4. request'[q].pc = "idle" /\ \A p \in Request : p # q => request'[p].pc = "idle"
    BY <1>3, <2>1, NothingAsked DEF On
  <2> QED BY StaysOrderly, <1>1, <2>1, <2>3, <2>4
<1> QED BY <1>1, <1>5, <1>6 DEF NoticeInv, Orderly

\* The notices of an invitation: the Conversation for each invited User, and who joined.
LEMMA InvitationNotices ==
  ASSUME NoticeTypes, NEW S \in SUBSET Everyone, NEW s \in Orders(S), NEW text \in 0 .. MaxRequests
  PROVE  /\ Invitation(s, text) \in Seq(NoticeRows)
         /\ \A n \in Pending(Invitation(s, text)) :
              \/ /\ n.event = "conversation" /\ n.to \subseteq S
                 /\ n.row.shown /\ n.row.notice = text
              \/ n.event = "joined"
         /\ \A u \in S : \E n \in Pending(Invitation(s, text)) :
              n.event = "conversation" /\ u \in n.to
<1> DEFINE row == Row(Cardinality(members), text)
           one(i) == Note("conversation", {s[i]}, NoOne, row)
           two(i) == Note("joined", members, {s[i]}, Absent)
           a == [i \in DOMAIN s |-> one(i)]
           b == [i \in DOMAIN s |-> two(i)]
<1>1. PICK k \in Nat : DOMAIN s = 1 .. k
  BY EveryoneCounts DEF Orders
<1>2. /\ \A i \in 1 .. k : s[i] \in S
      /\ \A u \in S : \E i \in 1 .. k : s[i] = u
  BY <1>1 DEF Orders
<1>3. row \in ScreenRow /\ row.shown /\ row.notice = text
  BY EveryoneCounts DEF Row, ScreenRow, NoticeTypes
<1> HIDE DEF row
<1>4. ASSUME NEW i \in 1 .. k
      PROVE  /\ one(i) \in NoticeRows /\ one(i).event = "conversation" /\ one(i).to = {s[i]}
             /\ one(i).row = row
             /\ two(i) \in NoticeRows /\ two(i).event = "joined"
  BY <1>2, <1>3, <1>4, AbsentRow DEF Note, NoticeRows, Events, NoOne, NoticeTypes
<1> HIDE DEF one, two
<1>5. a \in Seq(NoticeRows) /\ b \in Seq(NoticeRows) /\ Len(a) = k /\ Len(b) = k
      /\ \A i \in 1 .. k : a[i] = one(i) /\ b[i] = two(i)
  BY <1>1, <1>4
<1>6. Invitation(s, text) = a \o b
  BY DEF Invitation, one, two, row
<1> HIDE DEF a, b
<1>7. /\ a \o b \in Seq(NoticeRows) /\ DOMAIN (a \o b) = 1 .. (k + k)
      /\ \A i \in 1 .. (k + k) : (a \o b)[i] = IF i <= k THEN a[i] ELSE b[i - k]
  BY <1>5
<1> DEFINE all == a \o b
<1> HIDE DEF all
<1>8. /\ all \in Seq(NoticeRows) /\ DOMAIN all = 1 .. (k + k) /\ Invitation(s, text) = all
      /\ \A i \in 1 .. (k + k) : all[i] = IF i <= k THEN a[i] ELSE b[i - k]
  BY <1>6, <1>7 DEF all
<1>9. ASSUME NEW i \in 1 .. (k + k)
      PROVE  \/ all[i].event = "joined"
             \/ all[i].event = "conversation" /\ all[i].to \subseteq S /\ all[i].row = row
  <2>1. CASE i <= k
    BY <1>2, <1>4, <1>5, <1>8, <2>1
  <2>2. CASE ~ i <= k
    <3>1. i - k \in 1 .. k
      BY <2>2
    <3> QED BY <1>4, <1>5, <1>8, <2>2, <3>1
  <2> QED BY <2>1, <2>2
<1>10. ASSUME NEW u \in S PROVE \E i \in 1 .. (k + k) : all[i].event = "conversation" /\ u \in all[i].to
  <2>1. PICK i \in 1 .. k : s[i] = u
    BY <1>2
  <2>2. i \in 1 .. (k + k) /\ all[i] = one(i)
    BY <1>5, <1>8
  <2> QED BY <1>4, <2>1, <2>2
<1> QED BY <1>3, <1>8, <1>9, <1>10 DEF Pending

LEMMA AudienceIsOrderly ==
  ASSUME NoticeInv, NEW q \in Request, ReadAudience(q)
  PROVE  NoticeInv'
<1> DEFINE r == request[q]
           Spread(s) == CASE r.op = "invite" -> Invitation(s, r.panel.notice)
                        [] r.op = "announce" -> Announcement(r.panel.notice)
                        [] OTHER -> Departure(r.who)
<1>1. ~ On(q, "idle") /\ r.pc = "audience" /\ r \in GroupAsked /\ NoticeTypes
  BY DEF ReadAudience, On, NoticeInv, NoticeTypes
<1>2. ~ tangled => Stage(request[q]) /\ made # 0 /\ Cardinality(members) <= GroupCap
                     /\ \A p \in Request : p # q => On(p, "idle")
  BY <1>1, RunsAlone DEF NoticeInv
<1>3. ~ tangled => Auditing(r)
  BY <1>1, <1>2 DEF Stage
<1>e. r.who \in SUBSET Everyone /\ r.panel \in ScreenRow /\ r.panel.notice \in 0 .. MaxRequests
      /\ members \in SUBSET Everyone /\ Cardinality(members) \in Nat
  BY <1>1, EveryoneCounts DEF GroupAsked, ScreenRow, NoticeTypes
<1>4. ASSUME NEW s \in Orders(r.who), request' = [request EXCEPT ![q] = [r EXCEPT
               !.pc = "deliver", !.todo = Spread(s)]],
             UNCHANGED <<alive, members, notice, listed, made, tangled>>
      PROVE  NoticeInv'
  <2> DEFINE todo == Spread(s)
             new == [r EXCEPT !.pc = "deliver", !.todo = todo]
  <2>1. request' = [request EXCEPT ![q] = new]
    BY <1>4
  <2>2. /\ r.op = "invite" => todo = Invitation(s, r.panel.notice)
        /\ r.op = "announce" => todo = Announcement(r.panel.notice)
        /\ r.op \notin {"invite", "announce"} => todo = Departure(r.who)
    BY Zenon
  <2> HIDE DEF todo
  <2> DEFINE row == Row(Cardinality(members), r.panel.notice)
             posted == Note("conversation", members, NoOne, row)
             parted == Note("departed", members \cup r.who, r.who, Absent)
  <2>3. row \in ScreenRow /\ row.shown /\ row.notice = r.panel.notice
    BY <1>e DEF Row, ScreenRow
  <2> HIDE DEF row
  <2>4. /\ posted \in NoticeRows /\ posted.event = "conversation" /\ posted.to = members
        /\ posted.row = row
        /\ parted \in NoticeRows /\ parted.event = "departed" /\ parted.to = members \cup r.who
        /\ parted.who = r.who
    BY <1>e, <2>3, AbsentRow DEF Note, NoticeRows, Events, NoOne
  <2>5. Announcement(r.panel.notice) = <<posted>> /\ Departure(r.who) = <<parted>>
    BY DEF Announcement, Departure, row
  <2> HIDE DEF posted, parted
  <2>6. todo \in Seq(NoticeRows)
    <3>1. CASE r.op = "invite"
      BY <1>1, <1>e, <2>2, <3>1, InvitationNotices
    <3>2. CASE r.op # "invite"
      <4>1. <<posted>> \in Seq(NoticeRows) /\ <<parted>> \in Seq(NoticeRows)
        BY <2>4
      <4>2. todo = <<posted>> \/ todo = <<parted>>
        BY <2>2, <2>5, <3>2
      <4> QED BY <4>1, <4>2
    <3> QED BY <3>1, <3>2
  <2>7. new \in GroupAsked
    BY <1>1, <2>6 DEF GroupAsked, Points
  <2>8. /\ new.pc = "deliver" /\ new.op = r.op /\ new.by = r.by /\ new.who = r.who
        /\ new.panel = r.panel /\ new.todo = todo
    BY <1>1 DEF GroupAsked
  <2> HIDE DEF new
  <2>9. /\ request'[q] = new /\ request' \in [Request -> GroupAsked]
        /\ \A p \in Request : p # q => request'[p] = request[p]
    BY <1>1, <2>1, <2>7 DEF NoticeTypes
  <2>10. NoticeTypes'
    BY <1>1, <1>4, <2>9 DEF NoticeTypes
  <2>11. ASSUME ~ tangled PROVE Orderly'
    <3>1. Stage(r) /\ Auditing(r) /\ made # 0 /\ Cardinality(members) <= GroupCap
      BY <1>2, <1>3, <2>11
    <3>2. Heals(Pending(todo))
      <4>1. CASE r.op = "invite"
        <5>1. /\ r.who \subseteq members /\ r.panel.notice = notice
              /\ Agrees(members \ r.who)
          BY <3>1, <4>1 DEF Auditing
        <5>2. /\ \A n \in Pending(todo) :
                   \/ /\ n.event = "conversation" /\ n.to \subseteq r.who
                      /\ n.row.shown /\ n.row.notice = r.panel.notice
                   \/ n.event = "joined"
              /\ \A u \in r.who : \E n \in Pending(todo) :
                   n.event = "conversation" /\ u \in n.to
          BY <1>1, <1>e, <2>2, <4>1, InvitationNotices
        <5> HIDE DEF r
        <5>3. \A u \in Everyone : ~ (listed[u].shown /\ u \notin members)
          BY <5>1 DEF Agrees
        <5>4. \A u \in members : ~ UpToDate(u) => u \in r.who
          BY <1>e, <5>1 DEF Agrees, UpToDate
        <5> QED BY <5>1, <5>2, <5>3, <5>4 DEF Heals
      <4>2. CASE r.op = "announce"
        <5>1. r.panel.notice = notice /\ \A u \in Everyone : listed[u].shown <=> u \in members
          BY <3>1, <4>2 DEF Auditing
        <5>2. Pending(todo) = {posted}
          BY <2>2, <2>5, <4>2 DEF Pending
        <5> HIDE DEF r
        <5> QED BY <2>3, <2>4, <5>1, <5>2 DEF Heals
      <4>3. CASE r.op \in {"remove", "leave"}
        <5>1. /\ r.who \cap members = {}
              /\ \A u \in Everyone : /\ u \in members => UpToDate(u)
                                     /\ listed[u].shown => u \in members \cup r.who
          BY <3>1, <4>3 DEF Auditing
        <5>2. Pending(todo) = {parted}
          BY <2>2, <2>5, <4>3 DEF Pending
        <5> HIDE DEF r
        <5> QED BY <1>e, <2>4, <5>1, <5>2 DEF Heals
      <4> QED BY <3>1, <4>1, <4>2, <4>3 DEF Auditing
    <3>3. Heals(Pending(request[q].todo))'
      <4>1. request'[q].todo = todo
        BY <2>8, <2>9
      <4>2. Heals(Pending(todo)) => Heals(Pending(request'[q].todo))
        BY <4>1
      <4> HIDE DEF todo
      <4> QED BY <1>4, <3>2, <4>2 DEF Heals, UpToDate, Pending
    <3>4. r.op \in Unread => Answers(request[q])'
      <4>1. r.op \in Unread => r.op = "leave"
        BY <3>1 DEF Auditing, Unread
      <4>2. r.op = "leave" => r.who = {r.by} /\ ~ r.panel.shown
        BY <3>1 DEF Stage
      <4>3. r.op = "leave" => r.who \cap members = {}
        BY <3>1 DEF Auditing
      <4>4. r.op = "leave" => r.by \notin members
        BY <4>2, <4>3
      <4> QED BY <1>4, <2>8, <2>9, <4>1, <4>2, <4>4 DEF Answers
    <3>5. Stage(request[q])'
      BY <2>8, <2>9, <3>1, <3>3, <3>4 DEF Stage
    <3>6. request'[q].pc # "idle" /\ \A p \in Request : p # q => request'[p].pc = "idle"
      BY <1>2, <2>8, <2>9, <2>11 DEF On
    <3> QED BY StaysOrderly, <1>2, <1>4, <2>11, <3>5, <3>6
  <2> QED BY <1>4, <2>10, <2>11 DEF NoticeInv, Orderly
<1>5. ASSUME r.op = "invite", ~ r.who \subseteq members, Refused(q), UNCHANGED tangled
      PROVE  NoticeInv'
  <2>1. ~ tangled => Agrees(members)
    BY <1>3, <1>5 DEF Auditing
  <2> QED BY <1>1, <1>5, <2>1, RefusedInOrder
<1> QED BY <1>4, <1>5, Zenon DEF ReadAudience

LEMMA SeenRow ==
  ASSUME NEW row \in ScreenRow, NEW u \in Everyone, NEW n \in NoticeRows
  PROVE  /\ Seen(row, u, n) \in ScreenRow
         /\ n.event = "conversation" => Seen(row, u, n) = n.row
         /\ n.event = "joined" \/ (n.event = "departed" /\ u \notin n.who) =>
              /\ Seen(row, u, n).shown <=> row.shown
              /\ row.shown => Seen(row, u, n).notice = row.notice
         /\ n.event = "dissolved" \/ (n.event = "departed" /\ u \in n.who) => ~ Seen(row, u, n).shown
<1> DEFINE more == row.count + 1
           less == IF row.count = 0 THEN 0 ELSE row.count - 1
           up == [row EXCEPT !.count = more]
           down == [row EXCEPT !.count = less]
<1>1. /\ n.event = "conversation" => Seen(row, u, n) = n.row
      /\ n.event = "joined" => Seen(row, u, n) = IF row.shown THEN up ELSE row
      /\ n.event = "departed" => Seen(row, u, n) = IF u \in n.who \/ ~ row.shown THEN Absent ELSE down
      /\ n.event = "dissolved" => Seen(row, u, n) = Absent
  BY DEF Seen
<1>2. more \in Nat /\ less \in Nat
  BY DEF ScreenRow
<1> HIDE DEF more, less
<1>3. /\ up \in ScreenRow /\ down \in ScreenRow
      /\ up.shown = row.shown /\ up.notice = row.notice
      /\ down.shown = row.shown /\ down.notice = row.notice
  BY <1>2 DEF ScreenRow
<1> HIDE DEF up, down
<1>4. n.event \in Events /\ n.row \in ScreenRow
  BY DEF NoticeRows
<1>5. CASE n.event \in {"conversation", "dissolved"}
  BY <1>1, <1>4, <1>5, AbsentRow
<1>6. CASE n.event = "joined"
  BY <1>1, <1>3, <1>6
<1>7. CASE n.event = "departed"
  BY <1>1, <1>3, <1>7, AbsentRow
<1> QED BY <1>4, <1>5, <1>6, <1>7 DEF Events

LEMMA PendingOne ==
  ASSUME NEW todo \in Seq(NoticeRows), todo # <<>>
  PROVE  /\ Head(todo) \in NoticeRows /\ Tail(todo) \in Seq(NoticeRows)
         /\ Pending(todo) = Pending(Tail(todo)) \cup {Head(todo)}
<1>1. /\ Len(todo) \in Nat /\ Len(todo) # 0 /\ DOMAIN todo = 1 .. Len(todo)
      /\ Tail(todo) \in Seq(NoticeRows) /\ DOMAIN Tail(todo) = 1 .. (Len(todo) - 1)
      /\ \A i \in 1 .. (Len(todo) - 1) : Tail(todo)[i] = todo[i + 1]
      /\ Head(todo) = todo[1]
  BY EmptySeq
<1>2. ASSUME NEW i \in 1 .. Len(todo) PROVE todo[i] \in Pending(Tail(todo)) \cup {Head(todo)}
  <2>1. CASE i = 1
    BY <1>1, <2>1
  <2>2. CASE i # 1
    <3>1. i - 1 \in 1 .. (Len(todo) - 1) /\ Tail(todo)[i - 1] = todo[i]
      BY <1>1, <2>2
    <3> QED BY <1>1, <3>1 DEF Pending
  <2> QED BY <2>1, <2>2
<1>3. ASSUME NEW i \in 1 .. (Len(todo) - 1) PROVE Tail(todo)[i] \in Pending(todo)
  <2>1. i + 1 \in 1 .. Len(todo) /\ Tail(todo)[i] = todo[i + 1]
    BY <1>1
  <2> QED BY <1>1, <2>1 DEF Pending
<1>4. Head(todo) \in Pending(todo) /\ Head(todo) \in NoticeRows
  <2>1. 1 \in 1 .. Len(todo)
    BY <1>1
  <2> QED BY <1>1, <2>1 DEF Pending
<1>5. Pending(todo) \subseteq Pending(Tail(todo)) \cup {Head(todo)}
  BY <1>1, <1>2 DEF Pending
<1>6. Pending(Tail(todo)) \subseteq Pending(todo)
  BY <1>1, <1>3 DEF Pending
<1> QED BY <1>1, <1>4, <1>5, <1>6

LEMMA DeliveryIsOrderly ==
  ASSUME NoticeInv, NEW q \in Request, DeliverNotice(q)
  PROVE  NoticeInv'
<1> DEFINE r == request[q]
           n == Head(r.todo)
           todo == Tail(r.todo)
           new == [r EXCEPT !.todo = todo]
<1>1. /\ ~ On(q, "idle") /\ r.pc = "deliver" /\ r \in GroupAsked /\ NoticeTypes /\ r.todo # <<>>
      /\ listed' = [u \in Everyone |-> IF u \in n.to THEN Seen(listed[u], u, n) ELSE listed[u]]
      /\ UNCHANGED <<alive, members, notice, made, tangled>>
  BY DEF DeliverNotice, On, NoticeInv, NoticeTypes
<1>2. request' = [request EXCEPT ![q] = new]
  BY <1>1 DEF DeliverNotice, NoticeTypes
<1>3. ~ tangled => Stage(request[q]) /\ made # 0 /\ Cardinality(members) <= GroupCap
                     /\ \A p \in Request : p # q => On(p, "idle")
  BY <1>1, RunsAlone DEF NoticeInv
<1>4. r.todo \in Seq(NoticeRows)
  BY <1>1 DEF GroupAsked
<1>5. n \in NoticeRows /\ todo \in Seq(NoticeRows) /\ Pending(r.todo) = Pending(todo) \cup {n}
  BY <1>1, <1>4, PendingOne
<1> HIDE DEF n, todo
<1>6. new \in GroupAsked
  BY <1>1, <1>5 DEF GroupAsked
<1>7. /\ new.pc = r.pc /\ new.op = r.op /\ new.by = r.by /\ new.who = r.who
      /\ new.panel = r.panel /\ new.todo = todo
  BY <1>1 DEF GroupAsked
<1> HIDE DEF new
<1>8. /\ request'[q] = new /\ request' \in [Request -> GroupAsked]
      /\ \A p \in Request : p # q => request'[p] = request[p]
  BY <1>1, <1>2, <1>6 DEF NoticeTypes
<1>9. \A u \in Everyone : listed[u] \in ScreenRow
  BY <1>1 DEF NoticeTypes
<1>10. listed' \in [Everyone -> ScreenRow]
  BY <1>1, <1>5, <1>9, SeenRow
<1>11. NoticeTypes'
  BY <1>1, <1>8, <1>10 DEF NoticeTypes
<1>12. ASSUME ~ tangled PROVE Orderly'
  <2> DEFINE P == Pending(todo)
  <2>1. Stage(r) /\ made # 0 /\ Cardinality(members) <= GroupCap
    BY <1>3, <1>12
  <2>2. Heals(P \cup {n}) /\ (r.op \in Unread => Answers(r))
    BY <1>1, <1>5, <2>1 DEF Stage
  <2> HIDE DEF r, P
  <2>3. members' = members /\ notice' = notice /\ members \subseteq Everyone
    BY <1>1 DEF NoticeTypes
  <2>4. /\ n.event = "conversation" => n.to \subseteq members /\ n.row.shown /\ n.row.notice = notice
        /\ n.event = "departed" => n.who \cap members = {}
        /\ n.event = "dissolved" => members = {}
        /\ n.event \in Events /\ n.to \subseteq Everyone
    BY <1>5, <2>2 DEF Heals, NoticeRows
  <2>5. ASSUME NEW u \in Everyone, listed'[u].shown, u \notin members
        PROVE  \E m \in P : /\ u \in m.to
                            /\ m.event = "dissolved" \/ (m.event = "departed" /\ u \in m.who)
    <3>1. CASE u \in n.to
      <4>0. /\ n.event = "joined" \/ (n.event = "departed" /\ u \notin n.who) =>
                 Seen(listed[u], u, n).shown <=> listed[u].shown
            /\ n.event = "dissolved" \/ (n.event = "departed" /\ u \in n.who) =>
                 ~ Seen(listed[u], u, n).shown
        BY <1>5, <1>9, SeenRow
      <4>1. listed'[u] = Seen(listed[u], u, n)
        BY <1>1, <3>1
      <4>2. n.event # "conversation" /\ n.event # "dissolved" /\ ~ ((n.event = "departed" /\ u \in n.who))
        <5>1. n.event # "conversation"
          BY <2>4, <2>5, <3>1
        <5>2. ~ (n.event = "dissolved" \/ (n.event = "departed" /\ u \in n.who))
          BY <2>5, <4>1, <4>0
        <5> QED BY <5>1, <5>2
      <4>3. listed[u].shown
        <5>1. n.event = "joined" \/ (n.event = "departed" /\ u \notin n.who)
          BY <2>4, <4>2 DEF Events
        <5> QED BY <2>5, <4>0, <4>1, <5>1
      <4>4. PICK m \in P \cup {n} : /\ u \in m.to
                                    /\ m.event = "dissolved" \/ (m.event = "departed" /\ u \in m.who)
        BY <2>2, <2>5, <4>3 DEF Heals
      <4> QED BY <4>2, <4>4
    <3>2. CASE u \notin n.to
      <4>1. listed[u].shown
        BY <1>1, <2>5, <3>2
      <4>2. PICK m \in P \cup {n} : /\ u \in m.to
                                    /\ m.event = "dissolved" \/ (m.event = "departed" /\ u \in m.who)
        BY <2>2, <2>5, <4>1 DEF Heals
      <4> QED BY <3>2, <4>2
    <3> QED BY <3>1, <3>2
  <2>6. ASSUME NEW u \in members, ~ (listed'[u].shown /\ listed'[u].notice = notice)
        PROVE  \E m \in P : u \in m.to /\ m.event = "conversation"
    <3>0. u \in Everyone
      BY <2>3
    <3>1. CASE u \in n.to
      <4>1. listed'[u] = Seen(listed[u], u, n)
        BY <1>1, <3>0, <3>1
      <4>2. n.event # "conversation"
        BY <1>5, <1>9, <2>4, <2>6, <3>0, <4>1, SeenRow
      <4>3. n.event = "joined" \/ (n.event = "departed" /\ u \notin n.who)
        <5>1. n.event # "dissolved"
          BY <2>4, <2>6
        <5>2. n.event = "departed" => u \notin n.who
          BY <2>4, <2>6
        <5> QED BY <2>4, <4>2, <5>1, <5>2 DEF Events
      <4>4. ~ UpToDate(u)
        BY <1>5, <1>9, <2>6, <3>0, <4>1, <4>3, SeenRow DEF UpToDate
      <4>5. PICK m \in P \cup {n} : u \in m.to /\ m.event = "conversation"
        BY <2>2, <4>4 DEF Heals
      <4> QED BY <4>2, <4>5
    <3>2. CASE u \notin n.to
      <4>1. ~ UpToDate(u)
        BY <1>1, <2>6, <3>0, <3>2 DEF UpToDate
      <4>2. PICK m \in P \cup {n} : u \in m.to /\ m.event = "conversation"
        BY <2>2, <4>1 DEF Heals
      <4> QED BY <3>2, <4>2
    <3> QED BY <3>1, <3>2
  <2>7. Pending(request'[q].todo) = P
    BY <1>7, <1>8 DEF P
  <2>8. Heals(Pending(request[q].todo))'
    <3>1. \A m \in P :
            /\ m.event = "conversation" => m.to \subseteq members /\ m.row.shown /\ m.row.notice = notice
            /\ m.event = "departed" => m.who \cap members = {}
            /\ m.event = "dissolved" => members = {}
      BY <2>2 DEF Heals
    <3> QED BY <2>3, <2>5, <2>6, <2>7, <3>1 DEF Heals, UpToDate
  <2>9. r.op \in Unread => Answers(request[q])'
    BY <1>7, <1>8, <2>2, <2>3 DEF Answers
  <2>10. Stage(request[q])'
    BY <1>1, <1>7, <1>8, <2>1, <2>8, <2>9 DEF Stage
  <2>11. request'[q].pc # "idle" /\ \A p \in Request : p # q => request'[p].pc = "idle"
    BY <1>1, <1>3, <1>7, <1>8, <1>12 DEF On
  <2> QED BY StaysOrderly, <1>1, <2>1, <2>3, <2>10, <2>11
<1> QED BY <1>1, <1>11, <1>12 DEF NoticeInv, Orderly

LEMMA NoticeStep == NoticeInv /\ [NoticeNext]_groupVars => NoticeInv'
<1> SUFFICES ASSUME NoticeInv, [NoticeNext]_groupVars PROVE NoticeInv'
  OBVIOUS
<1>1. CASE UNCHANGED groupVars
  <2>1. /\ alive' = alive /\ members' = members /\ notice' = notice /\ listed' = listed
        /\ request' = request /\ made' = made /\ tangled' = tangled
    BY <1>1 DEF groupVars
  <2>2. NoticeTypes'
    BY <2>1 DEF NoticeInv, NoticeTypes
  <2>3. Agrees(members)' <=> Agrees(members)
    BY <2>1 DEF Agrees
  <2>4. ASSUME NEW q \in Request, Stage(request[q]) PROVE Stage(request[q])'
    BY <2>1, <2>4 DEF Stage, Agrees, Counting, Writing, Auditing, Deleting, Heals, Answers, UpToDate,
       Note
  <2>5. Orderly'
    BY <2>1, <2>3, <2>4 DEF NoticeInv, Orderly, On
  <2> QED BY <2>2, <2>5 DEF NoticeInv
<1>2. CASE NoticeNext
  <2>1. PICK q \in Request :
          \/ \E op \in {"invite", "remove", "leave", "announce", "dissolve"},
                by \in Everyone, who \in (SUBSET Fellow) \cup {{Founder}} : MakeRequest(q, op, by, who)
          \/ \E who \in SUBSET Fellow : CreateGroupOf(q, who)
          \/ CountParticipants(q) \/ InviteNext(q) \/ DeleteNamed(q) \/ SetAnnouncement(q)
          \/ ReadAudience(q) \/ ReadLastAudience(q) \/ DeleteGroup(q) \/ DeliverNotice(q)
          \/ ReadPanel(q) \/ TakeAnswer(q) \/ RequestLost(q)
    BY <1>2 DEF NoticeNext
  <2>2. ASSUME RequestLost(q) PROVE NoticeInv'
    BY <2>2, IsRefused, TangledIsOrderly DEF RequestLost, NoticeInv
  <2> QED BY <2>1, <2>2, RequestIsOrderly, CreationIsOrderly, CountIsOrderly, InviteIsOrderly,
             DepartureIsOrderly, AnnouncementIsOrderly, AudienceIsOrderly, EndingIsOrderly,
             DissolutionIsOrderly, DeliveryIsOrderly, PanelIsOrderly, AnswerIsOrderly
<1> QED BY <1>1, <1>2

LEMMA NoticeMeans == NoticeInv => OrderlyScreensAgree /\ NoticeTypeOK
<1> SUFFICES ASSUME NoticeInv PROVE OrderlyScreensAgree /\ NoticeTypeOK
  OBVIOUS
<1>1. OrderlyScreensAgree
  BY DEF NoticeInv, Orderly, OrderlyScreensAgree, Quiet, Agrees
<1>2. ASSUME NEW q \in Request
      PROVE  /\ request[q].by \in Everyone
             /\ request[q].who \cup request[q].left \subseteq Everyone
             /\ request[q].panel \in ScreenRow
             /\ \A i \in DOMAIN request[q].todo : request[q].todo[i].to \subseteq Everyone
  <2>1. request[q] \in GroupAsked
    BY DEF NoticeInv, NoticeTypes
  <2>2. request[q].todo \in Seq(NoticeRows)
    BY <2>1 DEF GroupAsked
  <2>3. \A i \in DOMAIN request[q].todo : request[q].todo[i] \in NoticeRows
    BY <2>2
  <2> QED BY <2>1, <2>3 DEF GroupAsked, NoticeRows
<1> QED BY <1>1, <1>2 DEF NoticeInv, NoticeTypes, NoticeTypeOK

-----------------------------------------------------------------------------
(* How many Participants a screen counts *)

\* No Participant's screen counts fewer of them than there are.
Enough == \A u \in members : listed[u].count >= Cardinality(members)

\* Who u is still to hear has joined.
Joiners(P, u) ==
  {w \in Everyone : \E n \in P : n.event = "joined" /\ u \in n.to /\ w \in n.who}

IsSent(P, u) == \E n \in P : n.event = "conversation" /\ u \in n.to

\* What is still to be told brings every Participant's count up to their number: the Conversation
\* sets it, each join adds one, and a departure, told alone, takes one from a count that has one
\* too many.
Counts(todo) ==
  /\ \A n \in Pending(todo) :
       /\ n.event = "conversation" => n.row.count >= Cardinality(members)
       /\ n.event = "joined" => \E w \in Everyone : n.who = {w}
       /\ n.event = "departed" =>
            Tail(todo) = <<>> /\ \A u \in members : listed[u].count > Cardinality(members)
  /\ \A u \in members : ~ IsSent(Pending(todo), u) =>
       listed[u].count + Cardinality(Joiners(Pending(todo), u)) >= Cardinality(members)

PanelCounts(r) == r.by \in members => r.panel.count >= Cardinality(members)

Tally(r) ==
  /\ r.op \in {"remove", "leave"} => r.who # {}
  /\ r.pc \in {"count", "ending", "delete"} => Enough
  /\ r.pc = "write" /\ r.op # "invite" => Enough
  /\ r.pc = "write" /\ r.op = "invite" => \A u \in members \ (r.who \ r.left) :
       listed[u].count + Cardinality(r.who \ r.left) >= Cardinality(members)
  /\ r.pc = "audience" /\ r.op = "invite" => \A u \in members \ r.who :
       listed[u].count + Cardinality(r.who) >= Cardinality(members)
  /\ r.pc = "audience" /\ r.op = "announce" => Enough
  /\ r.pc = "audience" /\ r.op \in {"remove", "leave"} =>
       \A u \in members : listed[u].count > Cardinality(members)
  /\ r.pc = "deliver" => Counts(r.todo) /\ (r.op \in Unread => PanelCounts(r))
  /\ r.pc = "answer" => Enough /\ PanelCounts(r)

Tallied ==
  ~ tangled =>
    /\ \A q \in Request : ~ On(q, "idle") => Tally(request[q])
    /\ (\A q \in Request : On(q, "idle")) => Enough

LEMMA TallyAlone ==
  ASSUME NoticeInv, Tallied, ~ tangled, NEW q \in Request, ~ On(q, "idle")
  PROVE  /\ Tally(request[q]) /\ Stage(request[q])
         /\ \A p \in Request : p # q => request[p].pc = "idle"
BY RunsAlone DEF NoticeInv, Tallied, On

LEMMA StaysTallied ==
  ASSUME NEW q \in Request,
         \A p \in Request : p # q => request'[p].pc = "idle",
         request'[q].pc = "idle" => Enough',
         request'[q].pc # "idle" => Tally(request[q])'
  PROVE  Tallied'
<1>1. \A p \in Request : ~ On(p, "idle")' => p = q
  BY DEF On
<1>2. \A p \in Request : ~ On(p, "idle")' => Tally(request[p])'
  BY <1>1 DEF On
<1>3. (\A p \in Request : On(p, "idle"))' => Enough'
  BY DEF On
<1> QED BY <1>2, <1>3 DEF Tallied

\* The facts about numbers that the steps share.
LEMMA Counted ==
  ASSUME NoticeTypes
  PROVE  /\ members \in SUBSET Everyone /\ IsFiniteSet(members) /\ Cardinality(members) \in Nat
         /\ \A u \in Everyone : listed[u] \in ScreenRow /\ listed[u].count \in Nat
BY EveryoneCounts DEF NoticeTypes, ScreenRow

LEMMA RefusedInTally ==
  ASSUME NoticeInv, Tallied, NEW q \in Request, ~ On(q, "idle"), Refused(q), UNCHANGED tangled,
         ~ tangled => Enough
  PROVE  Tallied'
<1>1. request'[q].pc = "idle" /\ \A p \in Request : p # q => request'[p] = request[p]
  BY IsRefused DEF NoticeInv, NoticeTypes
<1>2. ASSUME ~ tangled PROVE Tallied'
  <2>1. \A p \in Request : p # q => request'[p].pc = "idle"
    BY <1>1, <1>2, TallyAlone
  <2>2. Enough'
    BY <1>2 DEF Refused, Enough
  <2> QED BY StaysTallied, <1>1, <2>1, <2>2
<1> QED BY <1>2 DEF Tallied

LEMMA TallyInitially == NoticeInit => Tallied
BY NothingAsked DEF NoticeInit, Tallied, On, NoOne, Enough

LEMMA CreationIsTallied ==
  ASSUME NoticeInv, Tallied, NEW q \in Request, NEW who \in SUBSET Fellow, CreateGroupOf(q, who)
  PROVE  Tallied'
<1> DEFINE row == Row(Cardinality(who) + 1, 0)
           note == Note("conversation", who \cup {Founder}, NoOne, row)
           todo == <<note>>
           new == [NoRequest EXCEPT !.pc = "deliver", !.op = "create", !.panel = row, !.todo = todo]
<1>1. /\ made = 0 /\ members' = who \cup {Founder} /\ request' = [request EXCEPT ![q] = new]
      /\ listed' = listed /\ tangled' = tangled
  BY DEF CreateGroupOf
<1>2. who \in SUBSET Everyone /\ Founder \in Everyone
  BY DEF Everyone
<1>3. /\ Cardinality(who) \in Nat /\ Cardinality(who \cup {Founder}) \in Nat
      /\ Cardinality(who \cup {Founder}) <= Cardinality(who) + 1
  <2>1. IsFiniteSet(who) /\ Cardinality(who) \in Nat /\ Cardinality(who \cup {Founder}) \in Nat
    BY <1>2, EveryoneCounts
  <2>2. Cardinality(who \cup {Founder}) = IF Founder \in who THEN Cardinality(who) ELSE Cardinality(who) + 1
    BY <2>1, FS_AddElement
  <2> QED BY <2>1, <2>2
<1>4. row.count = Cardinality(who) + 1
  BY DEF Row
<1> HIDE DEF row
<1>5. note.event = "conversation" /\ note.to = who \cup {Founder} /\ note.row = row
  BY DEF Note
<1> HIDE DEF note
<1>6. Pending(todo) = {note}
  BY DEF Pending
<1> HIDE DEF todo
<1>7. new.pc = "deliver" /\ new.op = "create" /\ new.panel = row /\ new.todo = todo
  BY DEF NoRequest
<1> HIDE DEF new
<1>8. request'[q] = new /\ \A p \in Request : p # q => request'[p] = request[p]
  BY <1>1 DEF NoticeInv, NoticeTypes
<1>9. ASSUME ~ tangled PROVE Tallied'
  <2>1. Counts(todo)'
    BY <1>1, <1>3, <1>4, <1>5, <1>6 DEF Counts, IsSent
  <2>2. Tally(request[q])'
    BY <1>1, <1>3, <1>4, <1>7, <1>8, <2>1 DEF Tally, PanelCounts
  <2>3. \A p \in Request : request[p].pc = "idle"
    BY <1>1, <1>9 DEF NoticeInv, Orderly, On
  <2> QED BY StaysTallied, <1>7, <1>8, <2>2, <2>3
<1> QED BY <1>1, <1>9 DEF Tallied

LEMMA RequestIsTallied ==
  ASSUME NoticeInv, Tallied, NEW q \in Request, NEW op \in {"invite", "remove", "leave", "announce", "dissolve"},
         NEW by \in Everyone, NEW who \in (SUBSET Fellow) \cup {{Founder}}, MakeRequest(q, op, by, who)
  PROVE  Tallied'
<1> DEFINE first == FirstStatement(op)
           panel == IF op = "invite" THEN Row(0, notice) ELSE Absent
           new == [NoRequest EXCEPT !.pc = first, !.op = op, !.by = by, !.who = who, !.left = who,
                                    !.panel = panel]
<1>1. /\ Allowed(op, by, who) /\ request' = [request EXCEPT ![q] = new]
      /\ tangled' = (tangled \/ \E r \in Request : ~ On(r, "idle"))
      /\ UNCHANGED <<members, listed>> /\ On(q, "idle")
  BY DEF MakeRequest
<1>2. /\ first \in {"count", "ending", "write"}
      /\ first = "write" => op \in {"remove", "announce"}
  BY DEF FirstStatement
<1>3. op \in {"remove", "leave"} => who # {}
  <2>1. op = "remove" => Cardinality(who) = 1
    BY <1>1 DEF Allowed
  <2>2. op = "leave" => who = {by}
    BY <1>1 DEF Allowed
  <2>3. Cardinality({}) = 0
    BY FS_EmptySet
  <2> QED BY <2>1, <2>2, <2>3
<1> HIDE DEF first, panel
<1>4. new.pc = first /\ new.op = op /\ new.who = who /\ new.left = who
  BY DEF NoRequest
<1> HIDE DEF new
<1>5. request'[q] = new /\ \A p \in Request : p # q => request'[p] = request[p]
  BY <1>1 DEF NoticeInv, NoticeTypes
<1>6. ASSUME ~ tangled' PROVE Tallied'
  <2>1. ~ tangled /\ \A p \in Request : request[p].pc = "idle"
    BY <1>1, <1>6 DEF On
  <2>2. Enough'
    BY <1>1, <2>1 DEF Tallied, Enough, On
  <2>3. Tally(request[q])'
    BY <1>2, <1>3, <1>4, <1>5, <2>2 DEF Tally
  <2> QED BY StaysTallied, <1>2, <1>4, <1>5, <2>1, <2>3
<1> QED BY <1>6 DEF Tallied

LEMMA CountIsTallied ==
  ASSUME NoticeInv, Tallied, NEW q \in Request, CountParticipants(q)
  PROVE  Tallied'
<1> DEFINE r == request[q]
<1>1. ~ On(q, "idle") /\ r.pc = "count" /\ UNCHANGED tangled
  BY DEF CountParticipants, On
<1>2. ~ tangled => Tally(r) /\ Stage(r) /\ \A p \in Request : p # q => request[p].pc = "idle"
  BY <1>1, TallyAlone
<1>3. ~ tangled => Enough
  BY <1>1, <1>2 DEF Tally
<1>4. ASSUME NEW pc \in {"ending", "write"}, Turn(q, pc),
             UNCHANGED <<alive, members, notice, listed, made>>
      PROVE  Tallied'
  <2>1. pc \in Points
    BY DEF Points
  <2>2. /\ \A p \in Request : p # q => request'[p] = request[p]
        /\ request'[q].pc = pc /\ request'[q].op = r.op
        /\ request'[q].who = r.who /\ request'[q].left = r.left
    BY <1>4, <2>1, TurnsTo DEF NoticeInv, NoticeTypes
  <2>3. ASSUME ~ tangled PROVE Tallied'
    <3>1. Enough'
      BY <1>3, <1>4, <2>3 DEF Enough
    <3>2. r.op = "invite" => r.who \ r.left = {}
      BY <1>1, <1>2, <2>3 DEF Stage, Counting
    <3>3. \A u \in members' : listed'[u].count + Cardinality({}) >= Cardinality(members')
      <4>1. \A u \in members : listed[u].count \in Nat
        BY Counted DEF NoticeInv
      <4> QED BY <1>4, <3>1, <4>1, FS_EmptySet DEF Enough
    <3>4. Tally(request[q])'
      BY <1>2, <2>2, <2>3, <3>1, <3>2, <3>3 DEF Tally
    <3> QED BY StaysTallied, <1>2, <2>2, <2>3, <3>4
  <2> QED BY <1>1, <2>3 DEF Tallied
<1>5. CASE Refused(q)
  BY <1>1, <1>3, <1>5, RefusedInTally
<1> QED BY <1>4, <1>5 DEF CountParticipants

LEMMA InviteIsTallied ==
  ASSUME NoticeInv, Tallied, NEW q \in Request, InviteNext(q)
  PROVE  Tallied'
<1> DEFINE r == request[q]
<1>1. ~ On(q, "idle") /\ r.pc = "write" /\ r.op = "invite" /\ r \in GroupAsked /\ NoticeTypes
  BY DEF InviteNext, On, NoticeInv, NoticeTypes
<1>2. ~ tangled => Tally(r) /\ Stage(r) /\ \A p \in Request : p # q => request[p].pc = "idle"
  BY <1>1, TallyAlone
<1>3. ASSUME NEW u \in r.left, u \notin members, members' = members \cup {u},
             request' = [request EXCEPT ![q] = [request[q] EXCEPT
               !.left = @ \ {u}, !.pc = IF request[q].left = {u} THEN "audience" ELSE "write"]],
             UNCHANGED <<alive, notice, listed, made, tangled>>
      PROVE  Tallied'
  <2> DEFINE pc == IF r.left = {u} THEN "audience" ELSE "write"
             left == r.left \ {u}
             new == [r EXCEPT !.left = left, !.pc = pc]
  <2>1. request' = [request EXCEPT ![q] = new]
    BY <1>3
  <2>2. pc \in {"audience", "write"} /\ (pc = "audience" => left = {})
    OBVIOUS
  <2>3. left = r.left \ {u} /\ r.left \in SUBSET Everyone /\ r.who \in SUBSET Everyone /\ u \in Everyone
    BY <1>1, <1>3 DEF GroupAsked
  <2> HIDE DEF pc, left
  <2>4. new.pc = pc /\ new.left = left /\ new.op = "invite" /\ new.who = r.who
    BY <1>1 DEF GroupAsked
  <2> HIDE DEF new
  <2>5. request'[q] = new /\ \A p \in Request : p # q => request'[p] = request[p]
    BY <1>1, <2>1 DEF NoticeTypes
  <2>6. ASSUME ~ tangled PROVE Tallied'
    <3> DEFINE in == r.who \ r.left
               now == r.who \ left
    <3>1. r.left \subseteq r.who
      BY <1>1, <1>2, <2>6 DEF Stage, Writing
    <3>2. now = in \cup {u} /\ u \notin in /\ in \in SUBSET Everyone /\ now \in SUBSET Everyone
      BY <1>3, <2>3, <3>1
    <3>3. \A v \in members \ in : listed[v].count + Cardinality(in) >= Cardinality(members)
      BY <1>1, <1>2, <2>6 DEF Tally
    <3> HIDE DEF r, in, now
    <3>4. /\ Cardinality(in) \in Nat /\ Cardinality(now) = Cardinality(in) + 1
          /\ Cardinality(members) \in Nat /\ Cardinality(members') = Cardinality(members) + 1
      BY <1>1, <1>3, <3>2, EveryoneCounts, Counted, FS_AddElement
    <3>5. \A v \in members' \ now : listed'[v].count + Cardinality(now) >= Cardinality(members')
      <4> SUFFICES ASSUME NEW v \in members' \ now
                   PROVE  listed[v].count + Cardinality(now) >= Cardinality(members')
        BY <1>3
      <4>1. v \in members \ in
        BY <1>3, <3>2
      <4>2. listed[v].count \in Nat
        BY <1>1, <4>1, Counted
      <4> QED BY <3>3, <3>4, <4>1, <4>2
    <3>6. pc = "audience" => now = r.who
      BY <2>2 DEF now
    <3>7. request'[q].who \ request'[q].left = now
      BY <2>4, <2>5 DEF now
    <3>8. Tally(request[q])'
      BY <2>2, <2>4, <2>5, <3>5, <3>6, <3>7 DEF Tally
    <3> QED BY StaysTallied, <1>2, <2>2, <2>4, <2>5, <2>6, <3>8
  <2> QED BY <1>3, <2>6 DEF Tallied
<1>4. ASSUME tangled' PROVE Tallied'
  BY <1>4 DEF Tallied
<1> QED BY <1>3, <1>4, Zenon DEF InviteNext

LEMMA DepartureIsTallied ==
  ASSUME NoticeInv, Tallied, NEW q \in Request, DeleteNamed(q)
  PROVE  Tallied'
<1> DEFINE r == request[q]
<1>1. ~ On(q, "idle") /\ r.pc = "write" /\ r.op \in {"remove", "leave"} /\ NoticeTypes
  BY DEF DeleteNamed, On, NoticeInv
<1>2. ~ tangled => Tally(r) /\ Stage(r) /\ \A p \in Request : p # q => request[p].pc = "idle"
  BY <1>1, TallyAlone
<1>3. ~ tangled => Enough /\ r.who # {}
  BY <1>1, <1>2 DEF Tally
<1>4. CASE /\ r.who \subseteq members /\ members' = members \ r.who
           /\ Turn(q, "audience") /\ UNCHANGED <<alive, notice, listed, made, tangled>>
  <2>1. /\ \A p \in Request : p # q => request'[p] = request[p]
        /\ request'[q].pc = "audience" /\ request'[q].op = r.op /\ request'[q].who = r.who
    BY <1>1, <1>4, TurnsTo DEF NoticeTypes, Points
  <2>2. ASSUME ~ tangled PROVE Tallied'
    <3>1. members' \subseteq members /\ members' # members
      BY <1>3, <1>4, <2>2
    <3>2. /\ Cardinality(members') < Cardinality(members) /\ Cardinality(members) \in Nat
          /\ Cardinality(members') \in Nat
      <4>1. IsFiniteSet(members) /\ Cardinality(members) \in Nat
        BY <1>1, Counted
      <4> QED BY <3>1, <4>1, FS_Subset, FS_CardinalityType
    <3>3. \A u \in members' : listed'[u].count > Cardinality(members')
      <4> SUFFICES ASSUME NEW u \in members' PROVE listed[u].count > Cardinality(members')
        BY <1>4
      <4>1. listed[u].count >= Cardinality(members) /\ listed[u].count \in Nat
        BY <1>1, <1>3, <2>2, <3>1, Counted DEF Enough
      <4> QED BY <3>2, <4>1
    <3>4. Tally(request[q])'
      BY <1>1, <1>3, <2>1, <2>2, <3>3 DEF Tally
    <3> QED BY StaysTallied, <1>2, <2>1, <2>2, <3>4
  <2> QED BY <1>4, <2>2 DEF Tallied
<1>5. CASE Refused(q) /\ UNCHANGED tangled
  BY <1>1, <1>3, <1>5, RefusedInTally
<1> QED BY <1>4, <1>5 DEF DeleteNamed

LEMMA AnnouncementIsTallied ==
  ASSUME NoticeInv, Tallied, NEW q \in Request, SetAnnouncement(q)
  PROVE  Tallied'
<1> DEFINE r == request[q]
<1>1. ~ On(q, "idle") /\ r.pc = "write" /\ r.op = "announce" /\ r \in GroupAsked /\ NoticeTypes
  BY DEF SetAnnouncement, On, NoticeInv, NoticeTypes
<1>2. ~ tangled => Tally(r) /\ Stage(r) /\ \A p \in Request : p # q => request[p].pc = "idle"
  BY <1>1, TallyAlone
<1>3. ~ tangled => Enough
  BY <1>1, <1>2 DEF Tally
<1>4. CASE /\ UNCHANGED <<alive, members, listed, made, tangled>>
           /\ request' = [request EXCEPT ![q] = [@ EXCEPT !.pc = "audience", !.panel = Row(0, made)]]
  <2> DEFINE new == [r EXCEPT !.pc = "audience", !.panel = Row(0, made)]
  <2>1. request' = [request EXCEPT ![q] = new]
    BY <1>4
  <2>2. new.pc = "audience" /\ new.op = "announce"
    BY <1>1 DEF GroupAsked
  <2> HIDE DEF new
  <2>3. request'[q] = new /\ \A p \in Request : p # q => request'[p] = request[p]
    BY <1>1, <2>1 DEF NoticeTypes
  <2>4. ASSUME ~ tangled PROVE Tallied'
    <3>1. Enough'
      BY <1>3, <1>4, <2>4 DEF Enough
    <3>2. Tally(request[q])'
      BY <2>2, <2>3, <3>1 DEF Tally
    <3> QED BY StaysTallied, <1>2, <2>2, <2>3, <2>4, <3>2
  <2> QED BY <1>4, <2>4 DEF Tallied
<1>5. CASE Refused(q) /\ UNCHANGED tangled
  BY <1>1, <1>3, <1>5, RefusedInTally
<1> QED BY <1>4, <1>5 DEF SetAnnouncement

LEMMA EndingIsTallied ==
  ASSUME NoticeInv, Tallied, NEW q \in Request, ReadLastAudience(q)
  PROVE  Tallied'
<1> DEFINE r == request[q]
           todo == Dissolution
           new == [r EXCEPT !.pc = "delete", !.todo = todo]
<1>1. ~ On(q, "idle") /\ r.pc = "ending" /\ r \in GroupAsked /\ NoticeTypes
      /\ UNCHANGED <<alive, members, notice, listed, made, tangled>>
  BY DEF ReadLastAudience, On, NoticeInv, NoticeTypes
<1>2. request' = [request EXCEPT ![q] = new]
  BY DEF ReadLastAudience
<1>3. new.pc = "delete" /\ new.op = r.op /\ new.who = r.who
  BY <1>1 DEF GroupAsked
<1> HIDE DEF new
<1>4. request'[q] = new /\ \A p \in Request : p # q => request'[p] = request[p]
  BY <1>1, <1>2 DEF NoticeTypes
<1>5. ASSUME ~ tangled PROVE Tallied'
  <2>1. Tally(r) /\ Enough /\ \A p \in Request : p # q => request[p].pc = "idle"
    BY <1>1, <1>5, TallyAlone DEF Tally
  <2>2. Enough'
    BY <1>1, <2>1 DEF Enough
  <2>3. Tally(request[q])'
    BY <1>3, <1>4, <2>1, <2>2 DEF Tally
  <2> QED BY StaysTallied, <1>3, <1>4, <2>1, <2>3
<1> QED BY <1>1, <1>5 DEF Tallied

LEMMA DissolutionIsTallied ==
  ASSUME NoticeInv, Tallied, NEW q \in Request, DeleteGroup(q)
  PROVE  Tallied'
<1> DEFINE r == request[q]
<1>1. ~ On(q, "idle") /\ r.pc = "delete" /\ NoticeTypes
  BY DEF DeleteGroup, On, NoticeInv
<1>2. ~ tangled => Tally(r) /\ Stage(r) /\ \A p \in Request : p # q => request[p].pc = "idle"
  BY <1>1, TallyAlone
<1>3. CASE /\ members' = NoOne /\ Turn(q, "deliver") /\ UNCHANGED tangled
  <2>1. /\ \A p \in Request : p # q => request'[p] = request[p]
        /\ request'[q].pc = "deliver" /\ request'[q].op = r.op
        /\ request'[q].who = r.who /\ request'[q].todo = r.todo
    BY <1>1, <1>3, TurnsTo DEF NoticeTypes, Points
  <2>2. ASSUME ~ tangled PROVE Tallied'
    <3> DEFINE closing == Note("dissolved", members, NoOne, Absent)
    <3>1. r.todo = <<closing>>
      BY <1>1, <1>2, <2>2 DEF Stage, Deleting
    <3>2. closing.event = "dissolved"
      BY DEF Note
    <3> HIDE DEF closing
    <3>3. Pending(r.todo) = {closing}
      BY <3>1 DEF Pending
    <3>4. Counts(request[q].todo)'
      BY <1>3, <2>1, <3>2, <3>3 DEF Counts, NoOne
    <3>5. PanelCounts(request[q])'
      BY <1>3 DEF PanelCounts, NoOne
    <3>6. Tally(request[q])'
      BY <1>2, <2>1, <2>2, <3>4, <3>5 DEF Tally
    <3> QED BY StaysTallied, <1>2, <2>1, <2>2, <3>6
  <2> QED BY <1>3, <2>2 DEF Tallied
<1>4. CASE Refused(q) /\ UNCHANGED tangled
  <2>1. ~ tangled => Enough
    BY <1>1, <1>2 DEF Tally
  <2> QED BY <1>1, <1>4, <2>1, RefusedInTally
<1> QED BY <1>3, <1>4 DEF DeleteGroup

LEMMA PanelIsTallied ==
  ASSUME NoticeInv, Tallied, NEW q \in Request, ReadPanel(q)
  PROVE  Tallied'
<1> DEFINE r == request[q]
           panel == IF r.op \in Unread THEN r.panel ELSE Row(Cardinality(members), notice)
           new == [r EXCEPT !.pc = "answer", !.panel = panel]
<1>1. ~ On(q, "idle") /\ r.pc = "deliver" /\ r \in GroupAsked /\ NoticeTypes /\ r.todo = <<>>
      /\ UNCHANGED tangled
  BY DEF ReadPanel, On, NoticeInv, NoticeTypes
<1>2. ~ tangled => Tally(r) /\ Stage(r) /\ \A p \in Request : p # q => request[p].pc = "idle"
  BY <1>1, TallyAlone
<1>3. ~ tangled => Enough
  <2>1. Pending(r.todo) = {}
    BY <1>1 DEF Pending
  <2>2. \A u \in members : Joiners({}, u) = {} /\ ~ IsSent({}, u)
    BY DEF Joiners, IsSent
  <2>3. ~ tangled => \A u \in members : listed[u].count + Cardinality({}) >= Cardinality(members)
    BY <1>1, <1>2, <2>1, <2>2 DEF Tally, Counts
  <2>4. \A u \in members : listed[u].count \in Nat
    BY <1>1, Counted
  <2> QED BY <2>3, <2>4, FS_EmptySet DEF Enough
<1>4. CASE /\ request' = [request EXCEPT ![q] = new]
           /\ UNCHANGED <<alive, members, notice, listed, made>>
  <2>1. /\ r.op \in Unread => panel = r.panel
        /\ r.op \notin Unread => panel.count = Cardinality(members)
    BY DEF Row
  <2> HIDE DEF panel
  <2>2. /\ new.pc = "answer" /\ new.op = r.op /\ new.by = r.by /\ new.who = r.who
        /\ new.panel = panel
    BY <1>1 DEF GroupAsked
  <2> HIDE DEF new
  <2>3. request'[q] = new /\ \A p \in Request : p # q => request'[p] = request[p]
    BY <1>1, <1>4 DEF NoticeTypes
  <2>4. ASSUME ~ tangled PROVE Tallied'
    <3>1. Enough'
      BY <1>3, <1>4, <2>4 DEF Enough
    <3>2. r.op \in Unread => PanelCounts(r)
      BY <1>1, <1>2, <2>4 DEF Tally
    <3>3. Cardinality(members) \in Nat
      BY <1>1, Counted
    <3>4. PanelCounts(request[q])'
      BY <1>4, <2>1, <2>2, <2>3, <3>2, <3>3 DEF PanelCounts
    <3>5. Tally(request[q])'
      BY <1>2, <2>2, <2>3, <2>4, <3>1, <3>4 DEF Tally
    <3> QED BY StaysTallied, <1>2, <2>2, <2>3, <2>4, <3>5
  <2> QED BY <1>1, <2>4 DEF Tallied
<1>5. CASE Refused(q)
  BY <1>1, <1>3, <1>5, RefusedInTally
<1> QED BY <1>4, <1>5 DEF ReadPanel

LEMMA AnswerIsTallied ==
  ASSUME NoticeInv, Tallied, NEW q \in Request, TakeAnswer(q)
  PROVE  Tallied'
<1> DEFINE r == request[q]
<1>1. ~ On(q, "idle") /\ r.pc = "answer" /\ NoticeTypes
      /\ listed' = [listed EXCEPT ![r.by] = r.panel] /\ request' = [request EXCEPT ![q] = NoRequest]
      /\ UNCHANGED <<alive, members, notice, made, tangled>>
  BY DEF TakeAnswer, On, NoticeInv
<1>2. request'[q].pc = "idle" /\ \A p \in Request : p # q => request'[p] = request[p]
  BY <1>1, NothingAsked DEF NoticeTypes
<1>3. \A u \in Everyone : listed'[u] = IF u = r.by THEN r.panel ELSE listed[u]
  BY <1>1 DEF NoticeTypes
<1>4. ASSUME ~ tangled PROVE Tallied'
  <2>1. Enough /\ PanelCounts(r) /\ \A p \in Request : p # q => request[p].pc = "idle"
    BY <1>1, <1>4, TallyAlone DEF Tally
  <2>2. Enough'
    BY <1>1, <1>3, <2>1, Counted DEF Enough, PanelCounts
  <2> QED BY StaysTallied, <1>2, <2>1, <2>2
<1> QED BY <1>1, <1>4 DEF Tallied

\* The notices of an invitation tell every Participant of each invited User.
LEMMA InvitationTells ==
  ASSUME NoticeTypes, NEW S \in SUBSET Everyone, NEW s \in Orders(S), NEW text \in 0 .. MaxRequests
  PROVE  /\ \A n \in Pending(Invitation(s, text)) :
              /\ n.event \in {"conversation", "joined"}
              /\ n.event = "conversation" => n.row.count = Cardinality(members)
              /\ n.event = "joined" => \E w \in Everyone : n.who = {w}
         /\ \A u \in S : IsSent(Pending(Invitation(s, text)), u)
         /\ \A u \in members : S \subseteq Joiners(Pending(Invitation(s, text)), u)
<1> DEFINE row == Row(Cardinality(members), text)
           one(i) == Note("conversation", {s[i]}, NoOne, row)
           two(i) == Note("joined", members, {s[i]}, Absent)
           a == [i \in DOMAIN s |-> one(i)]
           b == [i \in DOMAIN s |-> two(i)]
<1>1. PICK k \in Nat : DOMAIN s = 1 .. k
  BY EveryoneCounts DEF Orders
<1>2. /\ \A i \in 1 .. k : s[i] \in S
      /\ \A u \in S : \E i \in 1 .. k : s[i] = u
  BY <1>1 DEF Orders
<1>3. row.count = Cardinality(members)
  BY DEF Row
<1> HIDE DEF row
<1>4. ASSUME NEW i \in 1 .. k
      PROVE  /\ one(i).event = "conversation" /\ one(i).to = {s[i]} /\ one(i).row = row
             /\ two(i).event = "joined" /\ two(i).to = members /\ two(i).who = {s[i]}
  BY DEF Note
<1> HIDE DEF one, two
<1>5. /\ Len(a) = k /\ Len(b) = k /\ DOMAIN a = 1 .. k /\ DOMAIN b = 1 .. k
      /\ \A i \in 1 .. k : a[i] = one(i) /\ b[i] = two(i)
  BY <1>1
<1>6. Invitation(s, text) = a \o b
  BY DEF Invitation, one, two, row
<1> HIDE DEF a, b
<1> DEFINE all == Invitation(s, text)
<1>7. /\ DOMAIN all = 1 .. (k + k)
      /\ \A i \in 1 .. (k + k) : all[i] = IF i <= k THEN a[i] ELSE b[i - k]
  BY <1>5, <1>6
<1> HIDE DEF all
<1>8. ASSUME NEW i \in 1 .. (k + k)
      PROVE  \/ all[i].event = "conversation" /\ all[i].row = row
             \/ all[i].event = "joined" /\ \E w \in Everyone : all[i].who = {w}
  <2>1. CASE i <= k
    BY <1>4, <1>5, <1>7, <2>1
  <2>2. CASE ~ i <= k
    <3>1. i - k \in 1 .. k
      BY <2>2
    <3>2. all[i] = two(i - k)
      BY <1>5, <1>7, <2>2, <3>1
    <3> QED BY <1>2, <1>4, <3>1, <3>2
  <2> QED BY <2>1, <2>2
<1>9. ASSUME NEW u \in S
      PROVE  \E i, j \in 1 .. (k + k) : /\ all[i].event = "conversation" /\ u \in all[i].to
                                        /\ all[j].event = "joined" /\ all[j].to = members
                                        /\ all[j].who = {u}
  <2>1. PICK i \in 1 .. k : s[i] = u
    BY <1>2
  <2>2. /\ i \in 1 .. (k + k) /\ k + i \in 1 .. (k + k) /\ all[i] = one(i)
        /\ ~ k + i <= k /\ (k + i) - k = i
    BY <1>5, <1>7
  <2>3. all[k + i] = two(i)
    BY <1>5, <1>7, <2>2
  <2> QED BY <1>4, <2>1, <2>2, <2>3
<1>10. \A u \in S : IsSent(Pending(all), u)
  BY <1>7, <1>9 DEF IsSent, Pending
<1>11. \A u \in members : S \subseteq Joiners(Pending(all), u)
  <2> SUFFICES ASSUME NEW u \in members, NEW w \in S PROVE w \in Joiners(Pending(all), u)
    OBVIOUS
  <2>1. PICK j \in 1 .. (k + k) : all[j].event = "joined" /\ all[j].to = members /\ all[j].who = {w}
    BY <1>9
  <2>2. all[j] \in Pending(all) /\ w \in Everyone
    BY <1>7 DEF Pending
  <2> QED BY <2>1, <2>2 DEF Joiners
<1>12. \A n \in Pending(all) :
         /\ n.event \in {"conversation", "joined"}
         /\ n.event = "conversation" => n.row.count = Cardinality(members)
         /\ n.event = "joined" => \E w \in Everyone : n.who = {w}
  BY <1>3, <1>7, <1>8 DEF Pending
<1> QED BY <1>10, <1>11, <1>12 DEF all

LEMMA AudienceIsTallied ==
  ASSUME NoticeInv, Tallied, NEW q \in Request, ReadAudience(q)
  PROVE  Tallied'
<1> DEFINE r == request[q]
           Spread(s) == CASE r.op = "invite" -> Invitation(s, r.panel.notice)
                        [] r.op = "announce" -> Announcement(r.panel.notice)
                        [] OTHER -> Departure(r.who)
<1>1. ~ On(q, "idle") /\ r.pc = "audience" /\ r \in GroupAsked /\ NoticeTypes
  BY DEF ReadAudience, On, NoticeInv, NoticeTypes
<1>2. ~ tangled => Tally(r) /\ Stage(r) /\ \A p \in Request : p # q => request[p].pc = "idle"
  BY <1>1, TallyAlone
<1>3. ~ tangled => Auditing(r)
  BY <1>1, <1>2 DEF Stage
<1>e. r.who \in SUBSET Everyone /\ r.panel.notice \in 0 .. MaxRequests
      /\ Cardinality(members) \in Nat /\ \A u \in members : listed[u].count \in Nat
  BY <1>1, Counted DEF GroupAsked, ScreenRow
<1>4. ASSUME NEW s \in Orders(r.who), request' = [request EXCEPT ![q] = [r EXCEPT
               !.pc = "deliver", !.todo = Spread(s)]],
             UNCHANGED <<alive, members, notice, listed, made, tangled>>
      PROVE  Tallied'
  <2> DEFINE todo == Spread(s)
             new == [r EXCEPT !.pc = "deliver", !.todo = todo]
  <2>1. request' = [request EXCEPT ![q] = new]
    BY <1>4
  <2>2. /\ r.op = "invite" => todo = Invitation(s, r.panel.notice)
        /\ r.op = "announce" => todo = Announcement(r.panel.notice)
        /\ r.op \notin {"invite", "announce"} => todo = Departure(r.who)
    BY Zenon
  <2> HIDE DEF todo
  <2>3. /\ new.pc = "deliver" /\ new.op = r.op /\ new.by = r.by /\ new.who = r.who
        /\ new.panel = r.panel /\ new.todo = todo
    BY <1>1 DEF GroupAsked
  <2> HIDE DEF new
  <2>4. request'[q] = new /\ \A p \in Request : p # q => request'[p] = request[p]
    BY <1>1, <2>1 DEF NoticeTypes
  <2>5. ASSUME ~ tangled PROVE Tallied'
    <3> DEFINE P == Pending(todo)
    <3>1. Tally(r) /\ Stage(r) /\ Auditing(r)
      BY <1>2, <1>3, <2>5
    <3>2. Counts(todo)
      <4>1. CASE r.op = "invite"
        <5>1. \A u \in members \ r.who :
                listed[u].count + Cardinality(r.who) >= Cardinality(members)
          BY <1>1, <3>1, <4>1 DEF Tally
        <5>2. /\ \A n \in P : /\ n.event \in {"conversation", "joined"}
                              /\ n.event = "conversation" => n.row.count = Cardinality(members)
                              /\ n.event = "joined" => \E w \in Everyone : n.who = {w}
              /\ \A u \in r.who : IsSent(P, u)
              /\ \A u \in members : r.who \subseteq Joiners(P, u)
          BY <1>1, <1>e, <2>2, <4>1, InvitationTells
        <5> HIDE DEF r, P
        <5>3. ASSUME NEW u \in members, ~ IsSent(P, u)
              PROVE  listed[u].count + Cardinality(Joiners(P, u)) >= Cardinality(members)
          <6>1. u \in members \ r.who
            BY <5>2, <5>3
          <6>2. /\ Cardinality(r.who) <= Cardinality(Joiners(P, u)) /\ Cardinality(r.who) \in Nat
                /\ Cardinality(Joiners(P, u)) \in Nat
            <7>1. Joiners(P, u) \in SUBSET Everyone
              BY DEF Joiners
            <7> QED BY <1>e, <5>2, <7>1, EveryoneCounts, FS_Subset
          <6> QED BY <1>e, <5>1, <6>1, <6>2
        <5> QED BY <1>e, <5>2, <5>3 DEF Counts, P
      <4>2. CASE r.op = "announce"
        <5> DEFINE row == Row(Cardinality(members), r.panel.notice)
                   posted == Note("conversation", members, NoOne, row)
        <5>1. row.count = Cardinality(members)
          BY DEF Row
        <5> HIDE DEF row
        <5>2. posted.event = "conversation" /\ posted.to = members /\ posted.row = row
          BY DEF Note
        <5> HIDE DEF posted
        <5>3. todo = <<posted>>
          BY <2>2, <4>2 DEF Announcement, posted, row
        <5>4. Pending(todo) = {posted}
          BY <5>3 DEF Pending
        <5> QED BY <1>e, <5>1, <5>2, <5>4 DEF Counts, IsSent
      <4>3. CASE r.op \notin {"invite", "announce"}
        <5> DEFINE parted == Note("departed", members \cup r.who, r.who, Absent)
        <5>1. parted.event = "departed"
          BY DEF Note
        <5> HIDE DEF parted
        <5>2. todo = <<parted>>
          BY <2>2, <4>3 DEF Departure, parted
        <5>3. Pending(todo) = {parted} /\ Tail(todo) = <<>>
          BY <5>2 DEF Pending
        <5>4. \A u \in members : listed[u].count > Cardinality(members)
          BY <1>1, <3>1, <4>3 DEF Tally, Auditing
        <5>5. \A u \in members : Joiners({parted}, u) = {}
          BY <5>1 DEF Joiners
        <5>6. \A u \in members : listed[u].count + Cardinality({}) >= Cardinality(members)
          BY <1>e, <5>4, FS_EmptySet
        <5> QED BY <5>1, <5>3, <5>4, <5>5, <5>6 DEF Counts
      <4> QED BY <4>1, <4>2, <4>3
    <3>3. Counts(request[q].todo)'
      BY <1>4, <2>3, <2>4, <3>2 DEF Counts, Joiners
    <3>4. r.op \in Unread => PanelCounts(request[q])'
      <4>1. r.op \in Unread => r.op = "leave"
        BY <3>1 DEF Auditing, Unread
      <4>2. r.op = "leave" => r.by \notin members
        BY <3>1 DEF Auditing, Stage
      <4> QED BY <1>4, <2>3, <2>4, <4>1, <4>2 DEF PanelCounts
    <3>5. Tally(request[q])'
      BY <2>3, <2>4, <3>1, <3>3, <3>4 DEF Tally
    <3> QED BY StaysTallied, <1>2, <2>3, <2>4, <2>5, <3>5
  <2> QED BY <1>4, <2>5 DEF Tallied
<1>5. CASE r.op = "invite" /\ ~ r.who \subseteq members /\ Refused(q) /\ UNCHANGED tangled
  <2>1. ~ tangled => FALSE
    BY <1>3, <1>5 DEF Auditing
  <2> QED BY <1>5, <2>1 DEF Tallied
<1> QED BY <1>4, <1>5 DEF ReadAudience

\* What a notice does to the count of a screen that shows the group.
LEMMA SeenCount ==
  ASSUME NEW row \in ScreenRow, NEW u \in Everyone, NEW n, row.shown
  PROVE  /\ n.event = "joined" => Seen(row, u, n).count = row.count + 1
         /\ n.event = "departed" /\ u \notin n.who =>
              Seen(row, u, n).count = IF row.count = 0 THEN 0 ELSE row.count - 1
BY DEF Seen, ScreenRow

LEMMA DeliveryIsTallied ==
  ASSUME NoticeInv, Tallied, NEW q \in Request, DeliverNotice(q)
  PROVE  Tallied'
<1> DEFINE r == request[q]
           n == Head(r.todo)
           todo == Tail(r.todo)
           new == [r EXCEPT !.todo = todo]
<1>1. /\ ~ On(q, "idle") /\ r.pc = "deliver" /\ r \in GroupAsked /\ NoticeTypes /\ r.todo # <<>>
      /\ listed' = [u \in Everyone |-> IF u \in n.to THEN Seen(listed[u], u, n) ELSE listed[u]]
      /\ UNCHANGED <<alive, members, notice, made, tangled>>
  BY DEF DeliverNotice, On, NoticeInv, NoticeTypes
<1>2. request' = [request EXCEPT ![q] = new]
  BY <1>1 DEF DeliverNotice, NoticeTypes
<1>3. r.todo \in Seq(NoticeRows)
  BY <1>1 DEF GroupAsked
<1>4. n \in NoticeRows /\ Pending(r.todo) = Pending(todo) \cup {n} /\ todo = Tail(r.todo)
      /\ n.event \in Events
  BY <1>1, <1>3, PendingOne DEF NoticeRows
<1> HIDE DEF n, todo
<1>5. new.pc = "deliver" /\ new.op = r.op /\ new.by = r.by /\ new.who = r.who
      /\ new.panel = r.panel /\ new.todo = todo
  BY <1>1 DEF GroupAsked
<1> HIDE DEF new
<1>6. request'[q] = new /\ \A p \in Request : p # q => request'[p] = request[p]
  BY <1>1, <1>2 DEF NoticeTypes
<1>7. ASSUME ~ tangled PROVE Tallied'
  <2> DEFINE N == Cardinality(members)
             P == Pending(todo)
  <2>1. Tally(r) /\ Stage(r) /\ \A p \in Request : p # q => request[p].pc = "idle"
    BY <1>1, <1>7, TallyAlone
  <2>2. Counts(r.todo) /\ Heals(Pending(r.todo))
    BY <1>1, <2>1 DEF Tally, Stage
  <2>3. /\ n.event = "conversation" => n.row.count >= N
        /\ n.event = "joined" => \E w \in Everyone : n.who = {w}
        /\ n.event = "departed" => todo = <<>> /\ n.who \cap members = {}
                                   /\ \A u \in members : listed[u].count > N
        /\ n.event = "dissolved" => members = {}
    BY <1>4, <2>2 DEF Counts, Heals
  <2>4. /\ N \in Nat /\ members \subseteq Everyone
        /\ \A u \in members : listed[u] \in ScreenRow /\ listed[u].count \in Nat
    BY <1>1, Counted
  <2>5. \A u \in Everyone : Joiners(P, u) \in SUBSET Everyone /\ IsFiniteSet(Joiners(P, u))
                            /\ Cardinality(Joiners(P, u)) \in Nat
    BY EveryoneCounts DEF Joiners
  <2>6. ASSUME NEW u \in members, ~ IsSent(P, u)
        PROVE  listed'[u].count + Cardinality(Joiners(P, u)) >= N
    <3> DEFINE J == Joiners(P, u)
               all == Joiners(Pending(r.todo), u)
    <3>1. u \in Everyone /\ Cardinality(J) \in Nat
      BY <2>4, <2>5
    <3>2. CASE n.event = "conversation" /\ u \in n.to
      <4>1. listed'[u] = n.row
        BY <1>1, <3>1, <3>2 DEF Seen
      <4>2. n.row.count \in Nat
        BY <1>4 DEF NoticeRows, ScreenRow
      <4> QED BY <2>3, <2>4, <3>1, <3>2, <4>1, <4>2
    <3>3. CASE ~ (n.event = "conversation" /\ u \in n.to)
      <4>1. ~ IsSent(Pending(r.todo), u)
        BY <1>4, <2>6, <3>3 DEF IsSent
      <4>2. listed[u].count + Cardinality(all) >= N /\ listed[u].shown
        BY <2>2, <4>1 DEF Counts, Heals, UpToDate, IsSent
      <4>3. Cardinality(all) \in Nat
        <5>1. all \in SUBSET Everyone
          BY DEF Joiners
        <5> QED BY <5>1, EveryoneCounts
      <4>4. CASE n.event = "joined" /\ u \in n.to
        <5>1. PICK w \in Everyone : n.who = {w}
          BY <2>3, <4>4
        <5>2. all \subseteq J \cup {w}
          BY <1>4, <5>1 DEF Joiners
        <5>3. Cardinality(all) <= Cardinality(J) + 1
          <6>1. IsFiniteSet(J \cup {w}) /\ Cardinality(J \cup {w}) <= Cardinality(J) + 1
                /\ Cardinality(J \cup {w}) \in Nat
            <7>1. IsFiniteSet(J) /\ J \cup {w} \in SUBSET Everyone
              BY <2>5, <3>1
            <7>2. Cardinality(J \cup {w}) = IF w \in J THEN Cardinality(J) ELSE Cardinality(J) + 1
              BY <7>1, FS_AddElement
            <7> QED BY <3>1, <7>1, <7>2, EveryoneCounts
          <6>2. Cardinality(all) <= Cardinality(J \cup {w})
            BY <5>2, <6>1, FS_Subset
          <6> QED BY <3>1, <4>3, <6>1, <6>2
        <5>4. listed'[u].count = listed[u].count + 1
          BY <1>1, <2>4, <3>1, <4>2, <4>4, SeenCount
        <5> QED BY <2>4, <3>1, <4>2, <4>3, <5>3, <5>4
      <4>5. CASE n.event = "departed" /\ u \in n.to
        <5>1. u \notin n.who /\ listed[u].count > N
          BY <2>3, <4>5
        <5>2. listed'[u].count = IF listed[u].count = 0 THEN 0 ELSE listed[u].count - 1
          BY <1>1, <2>4, <3>1, <4>2, <4>5, <5>1, SeenCount
        <5> QED BY <2>4, <3>1, <5>1, <5>2
      <4>6. CASE u \notin n.to
        <5>1. all \subseteq J
          BY <1>4, <4>6 DEF Joiners
        <5>2. Cardinality(all) <= Cardinality(J)
          BY <2>5, <3>1, <5>1, FS_Subset
        <5>3. listed'[u] = listed[u]
          BY <1>1, <3>1, <4>6
        <5> QED BY <2>4, <3>1, <4>2, <4>3, <5>2, <5>3
      <4>7. n.event # "dissolved"
        BY <2>3, <2>6
      <4> QED BY <1>4, <3>3, <4>4, <4>5, <4>6, <4>7 DEF Events
    <3> QED BY <3>2, <3>3
  <2>7. \A m \in P : /\ m.event = "conversation" => m.row.count >= N
                     /\ m.event = "joined" => \E w \in Everyone : m.who = {w}
                     /\ m.event # "departed"
    <3>1. ASSUME NEW m \in P, m.event = "departed" PROVE FALSE
      <4>1. todo = <<>>
        BY <1>4, <2>2, <3>1 DEF Counts
      <4>2. P = {}
        BY <4>1 DEF Pending
      <4> QED BY <3>1, <4>2
    <3> QED BY <1>4, <2>2, <3>1 DEF Counts
  <2> HIDE DEF r, P
  <2>8. request'[q].todo = todo /\ Pending(request'[q].todo) = P /\ members' = members
    BY <1>1, <1>5, <1>6 DEF P
  <2>9. r.op \in Unread => PanelCounts(request[q])'
    BY <1>1, <1>5, <1>6, <2>1 DEF Tally, PanelCounts, r
  <2>10. Counts(request[q].todo)'
    BY <2>6, <2>7, <2>8 DEF Counts, IsSent, Joiners
  <2>11. Tally(request[q])'
    BY <1>5, <1>6, <2>1, <2>9, <2>10 DEF Tally
  <2> QED BY StaysTallied, <1>5, <1>6, <2>1, <2>11
<1> QED BY <1>1, <1>7 DEF Tallied

LEMMA TallyStep == NoticeInv /\ Tallied /\ [NoticeNext]_groupVars => Tallied'
<1> SUFFICES ASSUME NoticeInv, Tallied, [NoticeNext]_groupVars PROVE Tallied'
  OBVIOUS
<1>1. CASE UNCHANGED groupVars
  <2>1. members' = members /\ listed' = listed /\ request' = request /\ tangled' = tangled
    BY <1>1 DEF groupVars
  <2>2. Enough' <=> Enough
    BY <2>1 DEF Enough
  <2>3. ASSUME NEW q \in Request, Tally(request[q]) PROVE Tally(request[q])'
    BY <2>1, <2>2, <2>3 DEF Tally, Counts, PanelCounts, IsSent, Joiners
  <2> QED BY <2>1, <2>2, <2>3 DEF Tallied, On
<1>2. CASE NoticeNext
  <2>1. PICK q \in Request :
          \/ \E op \in {"invite", "remove", "leave", "announce", "dissolve"},
                by \in Everyone, who \in (SUBSET Fellow) \cup {{Founder}} : MakeRequest(q, op, by, who)
          \/ \E who \in SUBSET Fellow : CreateGroupOf(q, who)
          \/ CountParticipants(q) \/ InviteNext(q) \/ DeleteNamed(q) \/ SetAnnouncement(q)
          \/ ReadAudience(q) \/ ReadLastAudience(q) \/ DeleteGroup(q) \/ DeliverNotice(q)
          \/ ReadPanel(q) \/ TakeAnswer(q) \/ RequestLost(q)
    BY <1>2 DEF NoticeNext
  <2>2. ASSUME RequestLost(q) PROVE Tallied'
    BY <2>2 DEF RequestLost, Tallied
  <2> QED BY <2>1, <2>2, RequestIsTallied, CreationIsTallied, CountIsTallied, InviteIsTallied,
             DepartureIsTallied, AnnouncementIsTallied, AudienceIsTallied, EndingIsTallied,
             DissolutionIsTallied, DeliveryIsTallied, PanelIsTallied, AnswerIsTallied
<1> QED BY <1>1, <1>2

LEMMA TallyMeans == Tallied => CountsNeverFallShort
BY DEF Tallied, Quiet, Enough, CountsNeverFallShort

-----------------------------------------------------------------------------
(* All of them *)

\* Whichever component moves, a step of the composition is a step of each of them or leaves
\* it as it is.
LEMMA EachMovesAlone ==
  ASSUME [ServicesNext]_<<serviceVars, moving>>
  PROVE  /\ [LimiterNext]_limiterVars
         /\ [LastSeenNext]_lastSeenVars
         /\ [CursorNext]_cursorVars
         /\ [DirectNext]_directVars
         /\ [HistoryNext]_historyVars
         /\ [ReplayNext]_replayVars
         /\ [SocketNext]_socketVars
         /\ [StartupNext]_startupVars
         /\ [ShellNext]_shellVars
         /\ [RequestsNext]_requestVars
         /\ [TypingNext]_typingVars
         /\ [AuthTabNext]_authTabVars
         /\ [NoticeNext]_groupVars
         /\ [OutboxNext]_outboxVars
<1>1. [LimiterNext]_limiterVars
  <2>1. CASE ServicesNext /\ moving = "limiter"
    BY Zenon, <2>1 DEF ServicesNext
  <2>2. CASE ServicesNext /\ moving # "limiter"
    BY Zenon, <2>2 DEF ServicesNext, Rest
  <2>3. CASE UNCHANGED <<serviceVars, moving>>
    BY <2>3 DEF serviceVars
  <2> QED BY <2>1, <2>2, <2>3
<1>2. [LastSeenNext]_lastSeenVars
  <2>1. CASE ServicesNext /\ moving = "lastSeen"
    BY Zenon, <2>1 DEF ServicesNext
  <2>2. CASE ServicesNext /\ moving # "lastSeen"
    BY Zenon, <2>2 DEF ServicesNext, Rest
  <2>3. CASE UNCHANGED <<serviceVars, moving>>
    BY <2>3 DEF serviceVars
  <2> QED BY <2>1, <2>2, <2>3
<1>3. [CursorNext]_cursorVars
  <2>1. CASE ServicesNext /\ moving = "cursors"
    BY Zenon, <2>1 DEF ServicesNext
  <2>2. CASE ServicesNext /\ moving # "cursors"
    BY Zenon, <2>2 DEF ServicesNext, Rest
  <2>3. CASE UNCHANGED <<serviceVars, moving>>
    BY <2>3 DEF serviceVars
  <2> QED BY <2>1, <2>2, <2>3
<1>4. [DirectNext]_directVars
  <2>1. CASE ServicesNext /\ moving = "direct"
    BY Zenon, <2>1 DEF ServicesNext
  <2>2. CASE ServicesNext /\ moving # "direct"
    BY Zenon, <2>2 DEF ServicesNext, Rest
  <2>3. CASE UNCHANGED <<serviceVars, moving>>
    BY <2>3 DEF serviceVars
  <2> QED BY <2>1, <2>2, <2>3
<1>5. [HistoryNext]_historyVars
  <2>1. CASE ServicesNext /\ moving = "history"
    BY Zenon, <2>1 DEF ServicesNext
  <2>2. CASE ServicesNext /\ moving # "history"
    BY Zenon, <2>2 DEF ServicesNext, Rest
  <2>3. CASE UNCHANGED <<serviceVars, moving>>
    BY <2>3 DEF serviceVars
  <2> QED BY <2>1, <2>2, <2>3
<1>6. [ReplayNext]_replayVars
  <2>1. CASE ServicesNext /\ moving = "replay"
    BY Zenon, <2>1 DEF ServicesNext
  <2>2. CASE ServicesNext /\ moving # "replay"
    BY Zenon, <2>2 DEF ServicesNext, Rest
  <2>3. CASE UNCHANGED <<serviceVars, moving>>
    BY <2>3 DEF serviceVars
  <2> QED BY <2>1, <2>2, <2>3
<1>7. [SocketNext]_socketVars
  <2>1. CASE ServicesNext /\ moving = "socket"
    BY Zenon, <2>1 DEF ServicesNext
  <2>2. CASE ServicesNext /\ moving # "socket"
    BY Zenon, <2>2 DEF ServicesNext, Rest
  <2>3. CASE UNCHANGED <<serviceVars, moving>>
    BY <2>3 DEF serviceVars
  <2> QED BY <2>1, <2>2, <2>3
<1>8. [StartupNext]_startupVars
  <2>1. CASE ServicesNext /\ moving = "startup"
    BY Zenon, <2>1 DEF ServicesNext
  <2>2. CASE ServicesNext /\ moving # "startup"
    BY Zenon, <2>2 DEF ServicesNext, Rest
  <2>3. CASE UNCHANGED <<serviceVars, moving>>
    BY <2>3 DEF serviceVars
  <2> QED BY <2>1, <2>2, <2>3
<1>9. [ShellNext]_shellVars
  <2>1. CASE ServicesNext /\ moving = "shell"
    BY Zenon, <2>1 DEF ServicesNext
  <2>2. CASE ServicesNext /\ moving # "shell"
    BY Zenon, <2>2 DEF ServicesNext, Rest
  <2>3. CASE UNCHANGED <<serviceVars, moving>>
    BY <2>3 DEF serviceVars
  <2> QED BY <2>1, <2>2, <2>3
<1>10. [RequestsNext]_requestVars
  <2>1. CASE ServicesNext /\ moving = "requests"
    BY Zenon, <2>1 DEF ServicesNext
  <2>2. CASE ServicesNext /\ moving # "requests"
    BY Zenon, <2>2 DEF ServicesNext, Rest
  <2>3. CASE UNCHANGED <<serviceVars, moving>>
    BY <2>3 DEF serviceVars
  <2> QED BY <2>1, <2>2, <2>3
<1>11. [TypingNext]_typingVars
  <2>1. CASE ServicesNext /\ moving = "typing"
    BY Zenon, <2>1 DEF ServicesNext
  <2>2. CASE ServicesNext /\ moving # "typing"
    BY Zenon, <2>2 DEF ServicesNext, Rest
  <2>3. CASE UNCHANGED <<serviceVars, moving>>
    BY <2>3 DEF serviceVars
  <2> QED BY <2>1, <2>2, <2>3
<1>12. [AuthTabNext]_authTabVars
  <2>1. CASE ServicesNext /\ moving = "authTab"
    BY Zenon, <2>1 DEF ServicesNext
  <2>2. CASE ServicesNext /\ moving # "authTab"
    BY Zenon, <2>2 DEF ServicesNext, Rest
  <2>3. CASE UNCHANGED <<serviceVars, moving>>
    BY <2>3 DEF serviceVars
  <2> QED BY <2>1, <2>2, <2>3
<1>13. [NoticeNext]_groupVars
  <2>1. CASE ServicesNext /\ moving = "notices"
    BY Zenon, <2>1 DEF ServicesNext
  <2>2. CASE ServicesNext /\ moving # "notices"
    BY Zenon, <2>2 DEF ServicesNext, Rest
  <2>3. CASE UNCHANGED <<serviceVars, moving>>
    BY <2>3 DEF serviceVars
  <2> QED BY <2>1, <2>2, <2>3
<1>14. [OutboxNext]_outboxVars
  <2>1. CASE ServicesNext /\ moving = "outbox"
    BY Zenon, <2>1 DEF ServicesNext
  <2>2. CASE ServicesNext /\ moving # "outbox"
    BY Zenon, <2>2 DEF ServicesNext, Rest
  <2>3. CASE UNCHANGED <<serviceVars, moving>>
    BY <2>3 DEF serviceVars
  <2> QED BY <2>1, <2>2, <2>3
<1> QED BY <1>1, <1>2, <1>3, <1>4, <1>5, <1>6, <1>7, <1>8, <1>9, <1>10, <1>11, <1>12, <1>13, <1>14

LEMMA EachBegins ==
  ServicesInit => /\ LimiterInit /\ LastSeenInit /\ CursorInit /\ DirectInit /\ HistoryInit
                  /\ ReplayInit /\ SocketInit /\ StartupInit /\ ShellInit /\ RequestsInit
                  /\ TypingInit /\ AuthTabInit /\ NoticeInit /\ OutboxInit
BY Zenon DEF ServicesInit

ServicesInv ==
  /\ LimiterInv /\ LastSeenInv /\ CursorInv /\ DirectInv /\ HistoryInv
  /\ ReplayInv /\ SocketInv /\ StartupInv /\ ShellInv /\ RequestsInv
  /\ TypingInv /\ AuthTabInv /\ NoticeInv /\ Tallied /\ OutboxInv

LEMMA ServicesInitially == ServicesInit => ServicesInv
BY EachBegins, LimiterInitially, LastSeenInitially, CursorInitially, DirectInitially,
   HistoryInitially, ReplayInitially, SocketInitially, StartupInitially, ShellInitially,
   RequestsInitially, TypingInitially, AuthTabInitially, NoticeInitially, TallyInitially,
   OutboxInitially DEF ServicesInv

LEMMA ServicesStep == ServicesInv /\ [ServicesNext]_<<serviceVars, moving>> => ServicesInv'
BY EachMovesAlone, LimiterStep, LastSeenStep, CursorStep, DirectStep, HistoryStep, ReplayStep,
   SocketStep, StartupStep, ShellStep, RequestsStep, TypingStep, AuthTabStep, NoticeStep,
   TallyStep, OutboxStep DEF ServicesInv

THEOREM ServicesInvariance == ServicesSpec => []ServicesInv
BY ServicesInitially, ServicesStep, PTL DEF ServicesSpec

\* A departure that unregister saw is stamped in users.last_seen_at and a position that
\* report_cursor took is kept for the User, although a write of either fails or is repeated.
THEOREM RecordsReachTheirTable == ServicesSpec => []NothingRecordedIsLost
<1>1. ServicesInv => NothingRecordedIsLost
  BY LastSeenMeans DEF ServicesInv, CursorInv, NothingRecordedIsLost
<1> QED BY <1>1, ServicesInvariance, PTL

\* However many times the two of a pair open their Direct Conversation, and whichever insert
\* loses, open_direct answers every one of them with the same Conversation.
THEOREM PairsMeetOnce == ServicesSpec => []PairsShareOneConversation
<1>1. ServicesInv => PairsShareOneConversation
  BY DirectMeans DEF ServicesInv
<1> QED BY <1>1, ServicesInvariance, PTL

\* Walking the pages of a Conversation misses no Message that was there when the walk began,
\* and what the client has applied after a Resume, from the ring or by repair, has no hole.
THEOREM RepairsAreWhole == ServicesSpec => []RepairsLeaveNoHole
<1>1. ServicesInv => RepairsLeaveNoHole
  BY HistoryMeans, ReplayMeans DEF ServicesInv, RepairsLeaveNoHole
<1> QED BY <1>1, ServicesInvariance, PTL

\* A step of the limiter shortens a penalty only by the passing of time, by a success or by
\* the eviction of the coldest source; and neither users.last_seen_at nor sync_cursors goes
\* back, in whatever order their writers commit.
THEOREM ClocksOnlyAdvance == ServicesSpec => StoredClocksNeverGoBack
<1>1. ServicesInv /\ [ServicesNext]_<<serviceVars, moving>> =>
        [\A s \in Source :
           Left(s) > 0 =>
             \/ Left(s)' >= Left(s)
             \/ Pass
             \/ \E a \in Attempt : attempt[a] = s /\ Succeed(a)
             \/ /\ Cardinality(tracked) = MaxTracked
                /\ s = Coldest(tracked)
                /\ \A t \in tracked : ~ Stale(record[t])]_limiterVars
  BY EachMovesAlone, PenaltyElapses DEF ServicesInv
<1>2. ServicesInv /\ [ServicesNext]_<<serviceVars, moving>> =>
        [(\A p \in Person : lastSeen'[p] >= lastSeen[p]) /\ cursor' >= cursor]_<<lastSeen, cursor>>
  BY EachMovesAlone, LastSeenForward, CursorForward DEF ServicesInv
<1> QED BY <1>1, <1>2, ServicesInvariance, PTL DEF ServicesSpec, StoredClocksNeverGoBack, PenaltyOnlyElapses

\* A server that serves has a sound configuration, the migrations of its build and its port to
\* itself; a Call window is labelled and told as the Call it was opened for; and the tab's
\* WebSocket that is not let go of is the only one.
THEOREM ProcessesStaySound == ServicesSpec => []ProcessesAreSound
<1>1. ServicesInv => ProcessesAreSound
  <2>1. StartupInv /\ ShellInv /\ SocketInv => ServesOnlyWhenSound /\ CallsKeepTheirWindows /\ OneLine
    BY StartupMeans, ShellMeans DEF SocketInv
  <2> QED BY <2>1 DEF ServicesInv, ProcessesAreSound
<1> QED BY <1>1, ServicesInvariance, PTL

\* A served answer holds only what was true while its request ran and leaves out nothing that
\* was true all along, although each of its statements reads its own snapshot: the lists, the
\* receipts of a page, presence_for and what authenticate found.
THEOREM AnswersStayTrue == ServicesSpec => []AnswersWereTrue
<1>1. ServicesInv => AnswersWereTrue
  BY DEF ServicesInv, RequestsInv
<1> QED BY <1>1, ServicesInvariance, PTL

\* What a screen shows is what the tables hold, once nothing is on its way to it: a watcher who
\* missed nothing shows whom the directory holds typing; after requests that neither overlapped
\* nor failed exactly the Participants see a Group, and count no fewer than there are; a Message
\* is stored once, a bubble says "sent" of a stored one only, and one that failed has no attempt
\* left (it may be stored: the audience is read after the commit); a settled tab holds the stream
\* and shows the server's count; and a tab's profile and tokens are of one account.
THEOREM ScreensStayTrue == ServicesSpec => []ScreensAgree
<1>1. ServicesInv => ScreensAgree
  <2>1. TypingInv /\ NoticeInv /\ Tallied =>
          ScreensFollowTheDirectory /\ OrderlyScreensAgree /\ CountsNeverFallShort
    BY TypingMeans, NoticeMeans, TallyMeans
  <2>2. OutboxInv /\ AuthTabInv => BubblesTellTheTruth /\ SettledTabsAgree /\ TabsKnowTheirAccount
    BY OutboxMeans DEF AuthTabInv
  <2> QED BY <2>1, <2>2 DEF ServicesInv, ScreensAgree
<1> QED BY <1>1, ServicesInvariance, PTL

\* The forms and the sign-in through a provider share the accounts; the state of the sign-in is
\* its own.
AccountsInv ==
  IF moving = "provider" THEN ProviderInv
  ELSE FormsInv /\ identity = {} /\ heard = {} /\ tries = 0 /\ unfinished = {}

LEMMA AccountsInitially == ServicesInit => AccountsInv
<1> SUFFICES ASSUME ServicesInit PROVE AccountsInv
  OBVIOUS
<1>1. ProviderInit /\ (moving # "provider" => FormsInit)
  BY Zenon DEF ServicesInit
<1>2. identity = {} /\ heard = {} /\ tries = 0 /\ unfinished = {}
  BY <1>1 DEF ProviderInit
<1> QED BY <1>1, <1>2, FormsInitially, ProviderInitially DEF AccountsInv

LEMMA AccountsStep == AccountsInv /\ [ServicesNext]_<<serviceVars, moving>> => AccountsInv'
<1> SUFFICES ASSUME AccountsInv, [ServicesNext]_<<serviceVars, moving>> PROVE AccountsInv'
  OBVIOUS
<1>1. moving' = moving
  <2>1. CASE ServicesNext
    BY Zenon, <2>1 DEF ServicesNext
  <2>2. CASE UNCHANGED <<serviceVars, moving>>
    BY <2>2
  <2> QED BY <2>1, <2>2
<1>2. CASE moving = "provider"
  <2>1. [ProviderNext]_<<formVars, providerVars>>
    <3>1. CASE ServicesNext
      BY Zenon, <1>2, <3>1 DEF ServicesNext
    <3>2. CASE UNCHANGED <<serviceVars, moving>>
      BY <3>2 DEF serviceVars
    <3> QED BY <3>1, <3>2
  <2>2. ProviderInv
    BY <1>2 DEF AccountsInv
  <2>3. ProviderInv'
    BY <2>1, <2>2, ProviderKept
  <2> QED BY <1>1, <1>2, <2>3 DEF AccountsInv
<1>3. CASE moving # "provider"
  <2>1. [FormsNext]_formVars /\ UNCHANGED providerVars
    <3>1. CASE ServicesNext
      <4>1. Rest(moving)
        BY Zenon, <3>1 DEF ServicesNext
      <4>2. UNCHANGED providerVars /\ (moving # "forms" => UNCHANGED formVars)
        BY <1>3, <4>1 DEF Rest
      <4>3. moving = "forms" => FormsNext
        BY Zenon, <3>1 DEF ServicesNext
      <4> QED BY <4>2, <4>3
    <3>2. CASE UNCHANGED <<serviceVars, moving>>
      BY <3>2 DEF serviceVars
    <3> QED BY <3>1, <3>2
  <2>2. FormsInv /\ identity = {} /\ heard = {} /\ tries = 0 /\ unfinished = {}
    BY <1>3 DEF AccountsInv
  <2>3. FormsInv'
    BY <2>1, <2>2, FormsKept
  <2>4. identity' = {} /\ heard' = {} /\ tries' = 0 /\ unfinished' = {}
    BY <2>1, <2>2 DEF providerVars
  <2> QED BY <1>1, <1>3, <2>3, <2>4 DEF AccountsInv
<1> QED BY <1>2, <1>3

LEMMA AccountsMean ==
  AccountsInv => FormsTypeOK /\ ProviderTypeOK /\ FormsMeetTheirTables
<1>1. CASE moving = "provider"
  BY <1>1, ProviderShows DEF AccountsInv, FormsMeetTheirTables
<1>2. CASE moving # "provider"
  BY <1>2, FormsShow DEF AccountsInv, FormsMeetTheirTables
<1> QED BY <1>1, <1>2

THEOREM AccountsInvariance == ServicesSpec => []AccountsInv
BY AccountsInitially, AccountsStep, PTL DEF ServicesSpec

\* What validation lets through, and every handle made up for a provider's account, the CHECKs of
\* the tables take, but for the return path "/" and a provider's name longer than its column; a text
\* retyped in another case or padding names the account it was registered for; and an account is
\* verified for an address its provider vouched for.  For the accounts that exist already, however
\* many, and for any sizes of the columns that leave room for a generated suffix.
THEOREM FormsFitTheirTables == ServicesSpec => []FormsMeetTheirTables
<1>1. AccountsInv => FormsMeetTheirTables
  BY AccountsMean
<1> QED BY <1>1, AccountsInvariance, PTL

\* Every component keeps its types and its bounds, the hard cap on tracked sources among them.
THEOREM ServicesTypeCorrect == ServicesSpec => []ServicesTypeOK
<1>1. ServicesInv /\ AccountsInv => ServicesTypeOK
  <2> SUFFICES ASSUME ServicesInv, AccountsInv PROVE ServicesTypeOK
    OBVIOUS
  <2>1. /\ LimiterInv /\ TypingInv /\ LastSeenInv /\ CursorInv /\ DirectInv /\ HistoryInv /\ NoticeInv
        /\ ReplayInv /\ RequestsInv /\ StartupInv /\ ShellInv /\ SocketInv /\ OutboxInv /\ AuthTabInv
    BY DEF ServicesInv
  <2>2. LimiterTypeOK /\ TypingTypeOK /\ LastSeenTypeOK
    BY <2>1 DEF LimiterInv, TypingInv, LastSeenInv
  <2>3. CursorTypeOK /\ DirectTypeOK /\ HistoryTypeOK
    BY <2>1 DEF CursorInv, DirectInv, HistoryInv
  <2>4. NoticeTypeOK /\ OutboxTypeOK
    BY <2>1, NoticeMeans, OutboxMeans
  <2>5. ReplayTypeOK /\ RequestsTypeOK /\ StartupTypeOK
    BY <2>1 DEF ReplayInv, RequestsInv, StartupInv
  <2>6. ShellTypeOK /\ SocketTypeOK /\ AuthTabTypeOK
    BY <2>1 DEF ShellInv, SocketInv, AuthTabInv
  <2>7. FormsTypeOK /\ ProviderTypeOK
    BY AccountsMean
  <2> QED BY <2>2, <2>3, <2>4, <2>5, <2>6, <2>7 DEF ServicesTypeOK
<1> QED BY <1>1, ServicesInvariance, AccountsInvariance, PTL
====
