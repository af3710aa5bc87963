----------------------------- MODULE DesktopShell -----------------------------
(***************************************************************************)
(* The Tauri shell: the main window, which closing only hides, one window   *)
(* for each Call, the event that tells its document which Call it is, the   *)
(* tray, and the notification whose click is inferred from a focus.         *)
(***************************************************************************)
EXTENDS Naturals, Sequences, Filtering

CONSTANTS Talk,        \* ids of Conversations, sequences of marks
          MaxOpened,   \* bound: Call windows built
          MaxNoticed   \* bound: notifications shown, unread totals reported

LongestId == 3   \* 64 characters, scaled down
Kinds == {"audio", "video"}

\* Letters and digits are kept in a label, "." and "/" are not.
Safe(mark) == mark \notin {".", "/"}

\* Identifiers of the server are ULIDs: short enough, and of safe marks.
ASSUME ShellAssumption ==
  /\ MaxOpened \in Nat /\ MaxNoticed \in Nat
  /\ \A talk \in Talk : /\ talk \in Seq(STRING) /\ Len(talk) \in 1 .. LongestId
                        /\ \A i \in DOMAIN talk : Safe(talk[i])

VARIABLES main,        \* the main window: "shown", "hidden" or "gone"
          quit,        \* ghost: the person has chosen to quit
          calls,       \* the Call windows: [label, payload, page, listens, heard, overheard]
          noticed,     \* lastNotifiedConversationId, <<>> for null
          clicked,     \* ghost: the notifications shown, and the clicks emitted
          tray,        \* the unread total on the tray
          built, handles   \* bound; the (request, label) pairs returned to the page

shellVars == <<main, quit, calls, noticed, clicked, tray, built, handles>>

ShellInit ==
  /\ main = "shown" /\ quit = FALSE /\ calls = {} /\ noticed = <<>> /\ clicked = [shown |-> <<>>, emitted |-> <<>>]
  /\ tray = 0 /\ built = 0 /\ handles = {}

-----------------------------------------------------------------------------

Label(request) ==
  LET marks == request.talk
      kept == Filtered(marks, {i \in DOMAIN marks : Safe(marks[i])})
      id == IF kept = <<>> THEN <<"unknown">>
            ELSE SubSeq(kept, 1, IF Len(kept) < LongestId THEN Len(kept) ELSE LongestId) IN
  <<"call", id, request.kind>>

LabelIsCallWindow(label) == label[1] = "call"
WindowsOf(label) == {w \in calls : w.label = label}

\* A focus is heard by the page of the main window, which is loaded while the shell runs.
Focused ==
  /\ noticed' = <<>>
  /\ clicked' = IF noticed = <<>> THEN clicked ELSE [clicked EXCEPT !.emitted = Append(@, noticed)]

\* open: the window of the label is focused if it is there, or else made.
OpenCallWindow(request) ==
  LET label == Label(request) IN
  /\ main # "gone" /\ built < MaxOpened
  /\ built' = built + 1
  /\ handles' = handles \cup {[request |-> request, label |-> label]}
  /\ calls' = IF WindowsOf(label) # {} THEN calls
              ELSE calls \cup {[label |-> label, payload |-> request, page |-> "loading",
                                listens |-> FALSE, heard |-> {}, overheard |-> FALSE]}
  /\ Focused
  /\ UNCHANGED <<main, quit, tray>>

\* The document subscribes while it loads, or later than that.
Listen(w) ==
  /\ ~ w.listens
  /\ calls' = (calls \ {w}) \cup {[w EXCEPT !.listens = TRUE]}
  /\ UNCHANGED <<main, quit, noticed, clicked, tray, built, handles>>

\* Every document that listens hears whichever page was loaded (emit, not emit_to).
PageLoaded(w) ==
  /\ w.page = "loading"
  /\ calls' = {LET now == IF v # w THEN v ELSE [v EXCEPT !.page = IF v.listens THEN "told" ELSE "missed"] IN
               IF v.listens THEN [now EXCEPT !.heard = {w.payload}, !.overheard = v # w] ELSE now : v \in calls}
  /\ UNCHANGED <<main, quit, noticed, clicked, tray, built, handles>>

Reload(w) ==
  /\ w.page # "loading" /\ built < MaxOpened
  /\ built' = built + 1
  /\ calls' = (calls \ {w}) \cup {[w EXCEPT !.page = "loading", !.listens = FALSE, !.heard = {}, !.overheard = FALSE]}
  /\ UNCHANGED <<main, quit, noticed, clicked, tray, handles>>

\* close: refuses a label that is not a Call window's.
CloseCallWindow(label) ==
  /\ LabelIsCallWindow(label)
  /\ calls' = calls \ WindowsOf(label)
  /\ UNCHANGED <<main, quit, noticed, clicked, tray, built, handles>>

\* CloseRequested on the main window: hidden, not destroyed.
CloseMain ==
  /\ main = "shown" /\ main' = "hidden"
  /\ UNCHANGED <<quit, calls, noticed, clicked, tray, built, handles>>

\* The tray's left click and its first item.
ShowMain ==
  /\ main # "gone" /\ main' = "shown" /\ Focused
  /\ UNCHANGED <<quit, calls, tray, built, handles>>

Quit ==
  /\ main # "gone" /\ main' = "gone" /\ quit' = TRUE /\ calls' = {} /\ tray' = 0
  /\ UNCHANGED <<noticed, clicked, built, handles>>

Notify(talk) ==
  /\ main # "gone" /\ Len(clicked.shown) < MaxNoticed
  /\ noticed' = talk /\ clicked' = [clicked EXCEPT !.shown = Append(@, talk)]
  /\ UNCHANGED <<main, quit, calls, tray, built, handles>>

SetUnread(total) ==
  /\ main # "gone" /\ tray' = total
  /\ UNCHANGED <<main, quit, calls, noticed, clicked, built, handles>>

ShellNext ==
  \/ \E talk \in Talk :
       \/ \E kind \in Kinds : OpenCallWindow([talk |-> talk, kind |-> kind])
       \/ Notify(talk)
  \/ \E w \in calls : Listen(w) \/ PageLoaded(w) \/ Reload(w)
  \/ \E label \in {h.label : h \in handles} \cup {<<"main">>} : CloseCallWindow(label)
  \/ CloseMain \/ ShowMain \/ Quit
  \/ \E total \in 0 .. 1 : SetUnread(total)

ShellTypeOK ==
  /\ \A v, w \in calls : v.label = w.label => v = w
  /\ main = "gone" => calls = {}

-----------------------------------------------------------------------------
\* A Call stays in the window its opener was told of, and no other Call gets that window;
\* a document that listened when its page was loaded, for the first time or again, has
\* heard of its own Call, unless the page of another was loaded since; only the person
\* ends the main window; and a notification is clicked at most once, in the order shown.
InOrder(some, all) ==
  \E at \in [DOMAIN some -> DOMAIN all] :
    /\ \A i \in DOMAIN some : some[i] = all[at[i]]
    /\ \A i, j \in DOMAIN some : i < j => at[i] < at[j]

CallsKeepTheirWindows ==
  /\ \A h, g \in handles : h.label = g.label => h.request = g.request
  /\ \A w \in calls :
       /\ [request |-> w.payload, label |-> w.label] \in handles
       /\ w.page = "told" /\ ~ w.overheard => w.heard = {w.payload}
  /\ main = "gone" => quit
  /\ InOrder(clicked.emitted, clicked.shown)
=============================================================================
