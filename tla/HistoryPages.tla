---------------------------- MODULE HistoryPages ----------------------------
(***************************************************************************)
(* Walking a Conversation's history: list_messages of jiuyue-chat over      *)
(* list_message_page and list_message_page_after.  A reader asks page after *)
(* page, backwards from the newest or forwards from what it holds, with the *)
(* cursor the last page returned, while Messages keep being stored.         *)
(* The committed stream is 1 .. newest, without holes (MessageStream).      *)
(***************************************************************************)
EXTENDS Integers, FiniteSets

CONSTANTS Reader,          \* walks under way at once
          Limit,           \* page sizes a request may ask for, NoLimit for none;
                           \* 0 stands for every size below 1
          DefaultPage,     \* DEFAULT_MESSAGE_PAGE_SIZE
          MaxPage,         \* MAX_MESSAGE_PAGE_SIZE
          MaxNewest        \* bound: Messages stored

ASSUME HistoryAssumption ==
  /\ DefaultPage \in 1 .. MaxPage /\ MaxPage \in Nat
  /\ Limit \subseteq Int /\ MaxNewest \in Nat

NoCursor == -1
NoLimit  == -1

VARIABLES newest,          \* conversations.next_seq
          reads,           \* [Reader -> BOOLEAN]: is it a Participant
          walk             \* [Reader -> what it asks for next, and the Messages it got]

historyVars == <<newest, reads, walk>>

NoWalk == [way |-> "none", cursor |-> NoCursor, got |-> {}, from |-> 0, upto |-> 0, more |-> FALSE]

HistoryInit ==
  /\ newest = 0
  /\ reads = [r \in Reader |-> TRUE]
  /\ walk = [r \in Reader |-> NoWalk]

StoreMessage ==
  /\ newest < MaxNewest
  /\ newest' = newest + 1
  /\ UNCHANGED <<reads, walk>>

\* An upward walk starts after the newest Message the client holds.
StartWalk(r, way, after) ==
  /\ way = "before" => after = NoCursor
  /\ way = "after" => after \in 0 .. newest
  /\ walk' = [walk EXCEPT ![r] = [way |-> way, cursor |-> after, got |-> {}, upto |-> 0, more |-> TRUE,
                                  from |-> IF way = "after" THEN after ELSE 0]]
  /\ UNCHANGED <<newest, reads>>

\* page_size: a default for a missing limit, and no refusal for an absurd one.
PageSize(requested) ==
  IF requested = NoLimit THEN DefaultPage
  ELSE IF requested < 1 THEN 1
  ELSE IF requested > MaxPage THEN MaxPage ELSE requested

Stream == 1 .. newest
Lowest(S, n)  == {s \in S : Cardinality({x \in S : x < s}) < n}
Highest(S, n) == {s \in S : Cardinality({x \in S : x > s}) < n}

\* SELECT_MESSAGE_PAGE_BEFORE and _LATEST, SELECT_MESSAGE_PAGE_AFTER: n rows at the cursor.
RowsBefore(cursor, n) == Highest({s \in Stream : cursor # NoCursor => s < cursor}, n)
RowsAfter(cursor, n)  == Lowest({s \in Stream : s > cursor}, n)

\* One row more than the page is read, to learn whether anything is left beyond it.
HasMore(rows, n) == Cardinality(rows) > n

\* A walk that has got one page more.
Turned(w, page, more, cursor, upto) ==
  [way |-> w.way, cursor |-> cursor, got |-> w.got \cup page, from |-> w.from, upto |-> upto, more |-> more]

\* list_message_page: next_before is the oldest Message of the page.
PageBefore(r, limit) ==
  LET n == PageSize(limit)
      rows == RowsBefore(walk[r].cursor, n + 1)
      page == Highest(rows, n)
  IN
  /\ walk[r].way = "before" /\ walk[r].more /\ reads[r]
  /\ walk' = [walk EXCEPT ![r] =
       Turned(@, page, HasMore(rows, n),
              IF HasMore(rows, n) THEN CHOOSE s \in page : \A x \in page : s <= x ELSE NoCursor,
              IF walk[r].got = {} THEN newest ELSE walk[r].upto)]
  /\ UNCHANGED <<newest, reads>>

\* Mutant: the page is the newest rows of the probe.
PageAfter_keeps_the_probe(r, limit) ==
  LET n == PageSize(limit)
      rows == RowsAfter(walk[r].cursor, n + 1)
      page == Highest(rows, n)
  IN
  /\ walk[r].way = "after" /\ walk[r].more /\ reads[r]
  /\ walk' = [walk EXCEPT ![r] =
       Turned(@, page, HasMore(rows, n),
              IF HasMore(rows, n) THEN CHOOSE s \in page : \A x \in page : s >= x ELSE NoCursor,
              newest)]
  /\ UNCHANGED <<newest, reads>>

\* list_message_page_after: next_after is the newest Message of the page.
PageAfter(r, limit) ==
  LET n == PageSize(limit)
      rows == RowsAfter(walk[r].cursor, n + 1)
      page == Lowest(rows, n)
  IN
  /\ walk[r].way = "after" /\ walk[r].more /\ reads[r]
  /\ walk' = [walk EXCEPT ![r] =
       Turned(@, page, HasMore(rows, n),
              IF HasMore(rows, n) THEN CHOOSE s \in page : \A x \in page : s >= x ELSE NoCursor,
              newest)]
  /\ UNCHANGED <<newest, reads>>

\* require_participant refuses; the client gives the walk up.
PageRefused(r) ==
  /\ walk[r].more /\ ~ reads[r]
  /\ walk' = [walk EXCEPT ![r] = NoWalk]
  /\ UNCHANGED <<newest, reads>>

MembershipMoves(r) ==
  /\ reads' = [reads EXCEPT ![r] = ~ @]
  /\ UNCHANGED <<newest, walk>>

HistoryNext ==
  \/ StoreMessage
  \/ \E r \in Reader :
       \/ \E way \in {"before", "after"}, after \in {NoCursor} \cup 0 .. MaxNewest :
            StartWalk(r, way, after)
       \/ \E limit \in Limit : PageBefore(r, limit) \/ PageAfter(r, limit)
       \/ PageRefused(r) \/ MembershipMoves(r)

HistorySpec == HistoryInit /\ [][HistoryNext]_historyVars

-----------------------------------------------------------------------------
HistoryTypeOK ==
  /\ newest \in 0 .. MaxNewest
  /\ reads \in [Reader -> BOOLEAN]
  /\ walk \in [Reader -> [way : {"none", "before", "after"}, cursor : NoCursor .. MaxNewest,
                          got : SUBSET (1 .. MaxNewest), from : 0 .. MaxNewest,
                          upto : 0 .. MaxNewest, more : BOOLEAN]]

\* The pages of a walk join without a hole and without leaving the range they are to
\* cover, whatever sizes were asked for and however many Messages arrived in between;
\* and a page that says it is the last one has left nothing out.
WalksLeaveNoHole ==
  \A r \in Reader : LET w == walk[r] IN
    /\ w.way = "before" =>
         \A s \in w.got : \A x \in s .. w.upto : x \in w.got
    /\ w.way = "after" =>
         \A s \in w.got : \A x \in (w.from + 1) .. s : x \in w.got
    /\ w.way # "none" /\ ~ w.more => w.got = (w.from + 1) .. w.upto
=============================================================================
