------------------------------- MODULE Delivery -------------------------------
(***************************************************************************)
(* How the Messages of one Conversation reach one Device: the fan-out       *)
(* through the registry's control queue, the connection session and its     *)
(* answer to a resume, the client's realtime store with its wake-up         *)
(* handshake, and the client's chat store with its history load and its     *)
(* forward repair over HTTP.                                                *)
(*                                                                         *)
(* The Device only reads; other Users send.  MessageStream numbers their    *)
(* Messages 1, 2, 3 ..., so a Message is its Sequence Number.  Envelopes of *)
(* one socket arrive in the order they were sent.                           *)
(***************************************************************************)
EXTENDS Naturals, Sequences, FiniteSets, FiniteSetsExt

CONSTANTS MaxMessages,  \* bound: Messages stored
          MaxConn,      \* bound: connections opened; the last one is not lost
          MaxFaults,    \* bound: HTTP requests that fail and restarts
          ControlRoom,  \* CONTROL_QUEUE_CAPACITY
          SendRoom,     \* SEND_QUEUE_CAPACITY and what the link holds
          NewestPage,   \* Messages in a page of history
          RepairPage    \* Messages in a page of a forward repair

ASSUME DeliveryAssumption ==
  /\ MaxMessages \in Nat /\ MaxConn \in Nat /\ MaxFaults \in Nat
  /\ ControlRoom \in Nat \ {0} /\ SendRoom \in Nat \ {0, 1}
  /\ NewestPage \in Nat \ {0} /\ RepairPage \in Nat \ {0}

VARIABLES
  \* the server
  stored,    \* Messages 1 .. stored are committed
  fanning,   \* committed, and their sender's task has not fanned them out yet
  dropped,   \* fanned out into a full control queue (the server logs these)
  session,   \* the Device's connection task: "none", "open" (opening) or "pump"
  control,   \* the connection's control queue
  outbox,    \* envelopes on their way to the client
  resumes,   \* Resume frames on their way to the server
  \* the client
  conns,     \* sockets opened so far
  consumed,  \* an envelope has been applied on some socket
  reopened,  \* hasOpenedBefore
  known,     \* the Conversation has a list
  list,      \* the Messages in it
  reported,  \* the Device has reported a position: it may have a Sync Cursor
  load,      \* the history page in flight: "none", "asked" or "answer"
  page,      \* the newest Message in that answer, 0 before it
  repair,    \* the repair: "idle", "list", "load", "asked" or "answer"
  cursor,    \* the position the repair's request names
  answer,    \* what that request was answered with, Unanswered before it
  faults     \* HTTP requests failed and restarts so far

server == <<stored, fanning, dropped>>
link   == <<session, control, outbox, resumes, conns>>
socket == <<consumed, reopened>>
loader == <<load, page>>
fixer  == <<repair, cursor, answer>>
held   == <<known, list, reported>>
chat   == <<held, loader, fixer, faults>>
vars   == <<server, link, socket, chat>>

Msg == 1 .. MaxMessages

Envelope == [t : {"Ping", "SyncState"}] \cup [t : {"NewMessage"}, seq : Msg]
            \cup [t : {"Resync"}, reason : {"fresh", "replayed", "unavailable"}]

Unanswered == [upto |-> 0, more |-> FALSE]

Lower(i, j) == IF i <= j THEN i ELSE j

Init ==
  /\ stored = 0 /\ fanning = {} /\ dropped = {}
  /\ session = "none" /\ control = <<>> /\ outbox = <<>> /\ resumes = <<>>
  /\ conns = 0 /\ consumed = FALSE /\ reopened = FALSE
  /\ known = FALSE /\ list = {} /\ reported = FALSE
  /\ load = "none" /\ page = 0
  /\ repair = "idle" /\ cursor = 0 /\ answer = Unanswered
  /\ faults = 0

-----------------------------------------------------------------------------
(* The server *)

\* Another User's send commits; where the read of its audience fails, nobody is told.
Store ==
  /\ stored < MaxMessages
  /\ stored' = stored + 1
  /\ fanning' \in {fanning, fanning \cup {stored + 1}}
  /\ UNCHANGED <<dropped, link, socket, chat>>

\* Mutant: a connection is registered after its opening frames.
RegisteredLate == session = "pump"

\* A connection is in the registry before it has sent anything.
Registered == session # "none"

\* Mutant: an unbounded control queue.
QueueAll(m) == control' = Append(control, m) /\ UNCHANGED dropped

\* try_send: a full queue drops the event, before it gets a connection sequence.
Queue(m) == IF Len(control) < ControlRoom
            THEN control' = Append(control, m) /\ UNCHANGED dropped
            ELSE dropped' = dropped \cup {m} /\ UNCHANGED control

\* deliver, in the task of whoever sent m: in any order.
FanOut(m) ==
  /\ m \in fanning
  /\ fanning' = fanning \ {m}
  /\ IF Registered THEN Queue(m) ELSE UNCHANGED <<control, dropped>>
  /\ UNCHANGED <<stored, session, outbox, resumes, conns, socket, chat>>

\* The opening heartbeat, then the Sync Cursor if there is one and it can be read.
OpenSession ==
  /\ session = "open"
  /\ session' = "pump"
  /\ \/ outbox' = <<[t |-> "Ping"]>>
     \/ /\ reported
        /\ outbox' = <<[t |-> "Ping"], [t |-> "SyncState"]>>
  /\ UNCHANGED <<server, control, resumes, conns, socket, chat>>

\* send_event, for a fanned-out event.
Forward ==
  /\ session = "pump" /\ control # <<>> /\ Len(outbox) < SendRoom
  /\ outbox' = Append(outbox, [t |-> "NewMessage", seq |-> Head(control)])
  /\ control' = Tail(control)
  /\ UNCHANGED <<server, session, resumes, conns, socket, chat>>

\* Mutant: the connection a position belongs to is not compared.
PlanUnchecked(position) == IF position = "zero" THEN "fresh" ELSE "replayed"

\* resume_plan: the handshake names a position of an earlier socket, or zero.
Plan(position) == IF position = "zero" THEN "fresh" ELSE "unavailable"

AnswerResume ==
  /\ session = "pump" /\ resumes # <<>> /\ Len(outbox) < SendRoom
  /\ outbox' = Append(outbox, [t |-> "Resync", reason |-> Plan(Head(resumes))])
  /\ resumes' = Tail(resumes)
  /\ UNCHANGED <<server, session, control, conns, socket, chat>>

-----------------------------------------------------------------------------
(* The socket *)

Connect ==
  /\ session = "none" /\ conns < MaxConn
  /\ session' = "open"
  /\ conns' = conns + 1
  /\ UNCHANGED <<server, control, outbox, resumes, socket, chat>>

\* The repair in flight is over, and its locals are gone.
RepairOver == repair' = "idle" /\ cursor' = 0 /\ answer' = Unanswered

Cut == /\ session # "none" /\ conns < MaxConn
       /\ session' = "none"
       /\ control' = <<>> /\ outbox' = <<>> /\ resumes' = <<>>
       /\ UNCHANGED conns

Disconnect == Cut /\ UNCHANGED <<server, socket, chat>>

\* The server restarts: fan-outs it had not done are never done, and the HTTP
\* requests in flight fail.
Restart ==
  /\ Cut
  /\ faults < MaxFaults
  /\ faults' = faults + 1
  /\ fanning' = {}
  /\ load' = "none" /\ page' = 0
  /\ IF repair = "list" THEN UNCHANGED fixer ELSE RepairOver
  /\ UNCHANGED <<stored, dropped, socket, held>>

-----------------------------------------------------------------------------
(* The realtime store: applyEnvelope *)

Took(kind) == /\ outbox # <<>> /\ Head(outbox).t = kind
              /\ outbox' = Tail(outbox)
              /\ consumed' = TRUE

\* repairConversations: requests made while one is in flight are that one.
RequestRepair(wanted) ==
  repair' = IF wanted /\ repair = "idle" THEN "list" ELSE repair

\* The opening heartbeat is answered with the position consumed before it.
TakePing ==
  /\ Took("Ping")
  /\ resumes' = Append(resumes, IF consumed THEN "earlier" ELSE "zero")
  /\ RequestRepair(reopened /\ ~ consumed)
  /\ reopened' = TRUE
  /\ UNCHANGED <<server, session, control, conns,
                 held, loader, cursor, answer, faults>>

TakeSyncState ==
  /\ Took("SyncState")
  /\ RequestRepair(TRUE)
  /\ UNCHANGED <<server, session, control, resumes, conns, reopened,
                 held, loader, cursor, answer, faults>>

TakeResync ==
  /\ Took("Resync")
  /\ RequestRepair(Head(outbox).reason = "unavailable")
  /\ UNCHANGED <<server, session, control, resumes, conns, reopened,
                 held, loader, cursor, answer, faults>>

-----------------------------------------------------------------------------
(* The chat store *)

\* maxSeq of the list, 0 for none; as a mutant, where the walk starts.
NewestHeld(S) == IF S = {} THEN 0 ELSE Max(S)

\* repairStartSeq: the last Message before the first hole, 0 when nothing is held.
RepairStart(S) == IF S = {} THEN 0 ELSE Min({m \in S : m + 1 \notin S})

\* The list is now S; scheduleCursorReport reports how far it has no hole.
Hold(S) == /\ known' = TRUE
           /\ list' = S
           /\ reported' = (reported \/ (S # {} /\ session # "none"))

\* Mutant: the Message is merged first, and then compared with the list.
Jumps_once_merged(m) == m > NewestHeld(list \cup {m}) + 1

\* m is past the Message that would follow the newest one held.
Jumps(m) == list # {} /\ m > NewestHeld(list) + 1

\* applyNewMessage: a jump past the newest Message held asks for a repair.
TakeMessage ==
  LET m == Head(outbox).seq IN
  /\ Took("NewMessage")
  /\ Hold(list \cup {m})
  /\ RequestRepair(Jumps(m))
  /\ UNCHANGED <<server, session, control, resumes, conns, reopened,
                 loader, cursor, answer, faults>>

\* openConversation loads history, and does nothing here once there is a list.
OpenConversation ==
  /\ ~ known /\ load = "none"
  /\ load' = "asked"
  /\ UNCHANGED <<server, link, socket, held, page, fixer, faults>>

LoadRead ==
  /\ load = "asked"
  /\ load' = "answer"
  /\ page' = stored
  /\ UNCHANGED <<server, link, socket, held, fixer, faults>>

\* loadMessages replaces what the list held; a repair that waited for it is over.
LoadApply ==
  /\ load = "answer"
  /\ load' = "none" /\ page' = 0
  /\ Hold({m \in 1 .. page : m + NewestPage > page})
  /\ IF repair = "load" THEN RepairOver ELSE UNCHANGED fixer
  /\ UNCHANGED <<server, link, socket, faults>>

\* runRepairs, once the Conversations are listed, or could not be: walk the list
\* forward from its first hole, load an empty one (a client that only reads holds a
\* Sync Cursor for a Conversation only with Messages in its list).
BeginRepair ==
  /\ repair = "list"
  /\ \/ /\ ~ known
        /\ repair' = "idle"
        /\ UNCHANGED <<cursor, load>>
     \/ /\ list # {}
        /\ repair' = "asked"
        /\ cursor' = RepairStart(list)
        /\ UNCHANGED load
     \/ /\ known /\ list = {}
        /\ repair' = "load"
        /\ load' = "asked"
        /\ UNCHANGED cursor
  /\ UNCHANGED <<server, link, socket, held, page, answer, faults>>

\* list_messages after the cursor, with its probe for one Message more.
RepairRead ==
  /\ repair = "asked"
  /\ repair' = "answer"
  /\ answer' = [upto |-> Lower(stored, cursor + RepairPage),
                more |-> stored > cursor + RepairPage]
  /\ UNCHANGED <<server, link, socket, held, loader, cursor, faults>>

\* A page is merged by Message id; the report follows the last one.
RepairApply ==
  LET got == list \cup (cursor + 1) .. answer.upto IN
  /\ repair = "answer"
  /\ IF answer.more
     THEN /\ repair' = "asked" /\ cursor' = answer.upto /\ answer' = Unanswered
          /\ list' = got /\ UNCHANGED <<known, reported>>
     ELSE RepairOver /\ Hold(got)
  /\ UNCHANGED <<server, link, socket, loader, faults>>

\* An HTTP request fails: the page is not applied, the repair is given up.
RequestFails ==
  /\ faults < MaxFaults
  /\ faults' = faults + 1
  /\ \/ /\ load # "none"
        /\ load' = "none" /\ page' = 0
        /\ IF repair = "load" THEN RepairOver ELSE UNCHANGED fixer
     \/ /\ repair \in {"asked", "answer"}
        /\ RepairOver
        /\ UNCHANGED loader
  /\ UNCHANGED <<server, link, socket, held>>

-----------------------------------------------------------------------------
ServerStep == OpenSession \/ Forward \/ AnswerResume \/ \E m \in Msg : FanOut(m)
SocketStep == Connect \/ TakePing \/ TakeSyncState \/ TakeResync \/ TakeMessage
HttpStep   == LoadRead \/ LoadApply \/ BeginRepair \/ RepairRead \/ RepairApply

Next == \/ ServerStep \/ SocketStep \/ HttpStep
        \/ Store \/ OpenConversation
        \/ Disconnect \/ Restart \/ RequestFails

Spec == Init /\ [][Next]_vars

\* The server's tasks are scheduled, the client takes what its socket brings and opens
\* another one by itself, and requests that do not fail are answered.  Each of the three
\* has finitely much to do here, so whatever it can do it does in the end.
Fairness == WF_vars(ServerStep) /\ WF_vars(SocketStep) /\ WF_vars(HttpStep)

FairSpec == Spec /\ Fairness

-----------------------------------------------------------------------------
(* Properties *)

TypeOK ==
  /\ stored \in 0 .. MaxMessages /\ fanning \subseteq Msg /\ dropped \subseteq Msg
  /\ session \in {"none", "open", "pump"}
  /\ control \in Seq(Msg) /\ Len(control) <= ControlRoom
  /\ outbox \in Seq(Envelope) /\ Len(outbox) <= SendRoom
  /\ resumes \in Seq({"zero", "earlier"})
  /\ conns \in 0 .. MaxConn
  /\ consumed \in BOOLEAN /\ reopened \in BOOLEAN
  /\ known \in BOOLEAN /\ list \subseteq Msg /\ reported \in BOOLEAN
  /\ load \in {"none", "asked", "answer"} /\ page \in 0 .. MaxMessages
  /\ repair \in {"idle", "list", "load", "asked", "answer"}
  /\ cursor \in 0 .. MaxMessages
  /\ answer \in [upto : 0 .. MaxMessages, more : BOOLEAN]
  /\ faults \in 0 .. MaxFaults

\* The list holds Messages and no history page is going to replace it.
Settled == list # {} /\ load = "none"

\* The list has no hole up to n.
HeldUpTo(n) == \A m \in 1 .. n : m < Min(list) \/ m \in list

\* Whatever is lost with a socket, the next one repairs: a client that has consumed
\* an envelope before is told so by the answer to its handshake, or is repairing.
ResumeRepairs ==
  (session = "open" /\ consumed) ~> (repair # "idle" \/ session = "none")

\* A repair that begins with n Messages stored fills every hole up to n, page after
\* page and whatever arrives meanwhile, when no request fails any more.
RepairCatchesUp ==
  \A n \in 2 .. MaxMessages :
    (repair = "list" /\ Settled /\ stored >= n /\ faults = MaxFaults)
      ~> (list # {} /\ HeldUpTo(n))

\* A Message fanned out while the socket is open is shown, without any repair, unless the
\* control queue was full.  What a full queue dropped leaves no gap on the connection, but the
\* Sequence Number of a later Message shows it, and then it is fetched: when a Message arrives
\* over a socket that lasts and an older one is past the end of the list, that one is shown in
\* the end, unless a repair was under way or requests fail.
FannedOutIsShown ==
  \A m \in Msg :
    /\ (m \in fanning /\ Settled /\ session # "none")
         ~> (m \in list \cup dropped \/ session = "none")
    /\ (/\ Settled /\ NewestHeld(list) < m /\ repair = "idle" /\ faults = MaxFaults
        /\ outbox # <<>> /\ Head(outbox).t = "NewMessage" /\ m < Head(outbox).seq)
         ~> (m \in list \/ session = "none")
=============================================================================
