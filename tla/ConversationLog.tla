--------------------------- MODULE ConversationLog ---------------------------
(***************************************************************************)
(* What the chat store promises about a Conversation, free of transactions, *)
(* locks and retries: every Conversation is an append-only list of          *)
(* Messages, an idempotency key is used by its sender at most once over all *)
(* Conversations, and a closed Conversation loses its list and never opens  *)
(* again.  MessageStream implements this specification.                     *)
(***************************************************************************)
EXTENDS Naturals, Sequences

CONSTANTS Conv,    \* Conversations
          Sender,  \* Users who may send
          Key      \* Client Message IDs

VARIABLES log,     \* log[v][i]: the Message at Sequence Number i
          open     \* open[v]: the Conversation exists

vars == <<log, open>>

Entry == [sender : Sender, key : Key]

Init == /\ log = [v \in Conv |-> <<>>]
        /\ open = [v \in Conv |-> TRUE]

\* e's key is spent by its sender, in whichever Conversation.
Spent(e) == \E w \in Conv : \E i \in DOMAIN log[w] : log[w][i] = e

Write(v, e) == /\ open[v]
               /\ ~ Spent(e)
               /\ log' = [log EXCEPT ![v] = Append(@, e)]
               /\ UNCHANGED open

Close(v) == /\ open[v]
            /\ log' = [log EXCEPT ![v] = <<>>]
            /\ open' = [open EXCEPT ![v] = FALSE]

Next == \E v \in Conv : \/ Close(v)
                        \/ \E e \in Entry : Write(v, e)

Spec == Init /\ [][Next]_vars
=============================================================================
