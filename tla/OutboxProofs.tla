---- MODULE OutboxProofs ----
(***************************************************************************)
(* What a tab shows of its own Messages and of a Conversation, for any keys,*)
(* tabs, numbers of Messages and of failures: a bubble tells what became of *)
(* its Message, and a tab nothing is under way to shows what the tables     *)
(* hold.                                                                    *)
(***************************************************************************)
EXTENDS Outbox, SequenceTheorems, FiniteSetTheorems, WellFoundedInduction, NaturalsInduction, TLAPS

-----------------------------------------------------------------------------
(* Least counterexamples *)

\* Numbers by size, as a relation.
NumbersBelow == {e \in Nat \X Nat : e[1] < e[2]}

\* A set of natural numbers that is not empty has a least one.
LEMMA Smallest ==
  ASSUME NEW T \in SUBSET Nat, T # {}
  PROVE  \E x \in T : \A y \in T : x <= y
<1>1. IsWellFoundedOn(NumbersBelow, Nat)
  BY NatLessThanWellFounded DEF OpToRel, NumbersBelow
<1>2. PICK x \in T : \A y \in T : ~ (<<y, x>> \in NumbersBelow)
  BY <1>1, WFMin, Zenon
<1>3. ASSUME NEW y \in T
      PROVE  x <= y
  <2>1. x \in Nat /\ y \in Nat /\ ~ (<<y, x>> \in NumbersBelow)
    BY <1>2
  <2>2. ~ (y < x)
    BY <2>1 DEF NumbersBelow
  <2> QED
    BY <2>1, <2>2
<1> QED
  BY <1>3

-----------------------------------------------------------------------------
(* Bubbles and badges *)

Pending(todo) == {todo[i] : i \in DOMAIN todo}

Sources == Tab \cup {"peer", "late", "elsewhere"}
TabAsks == {Send(k) : k \in Key} \cup [is : {"mark"}, upTo : Nat]
Tellable == [is : {"new"}, seq : Nat] \cup [is : {"marker"}, upTo : Nat, count : Nat]
Frames == Tellable \cup [is : {"ack"}, seq : Nat] \cup {Refusal(k) : k \in Key}
Bubbles == {"none", "sending", "sent", "failed"}
TabRows == [open : BOOLEAN, held : SUBSET Nat, bubble : [Key -> Bubbles], badge : Nat,
            reported : Nat, up : Seq(TabAsks), down : Seq(Frames),
            repair : {"none", "list", "listed", "pages"}, count : Nat,
            clean : BOOLEAN, settled : BOOLEAN, orphaned : SUBSET Key]

OutboxTypes ==
  /\ stream \in Seq(Key \cup {"peer"})
  /\ readRow \in [upTo : Nat, unread : Nat]
  /\ tabs \in [Tab -> TabRows]
  /\ telling \subseteq [by : Sources, event : Tellable]
  /\ late \subseteq TabAsks
  /\ troubles \in Nat

\* What is on its way names Messages and positions of the stream.
Fits(e) ==
  /\ e.is \in {"new", "ack"} => e.seq \in 1 .. Len(stream)
  /\ e.is \in {"marker", "mark"} => e.upTo <= Len(stream)

WithinStream ==
  /\ readRow.upTo <= Len(stream)
  /\ \A e \in telling : Fits(e.event)
  /\ \A r \in late : Fits(r)
  /\ \A t \in Tab :
       /\ tabs[t].held \subseteq 1 .. Len(stream) /\ tabs[t].reported <= Len(stream)
       /\ tabs[t].open \/ tabs[t].up = <<>>
       /\ \A x \in Pending(tabs[t].up) : Fits(x)
       /\ \A x \in Pending(tabs[t].down) : Fits(x)

\* No frame of the kind is queued twice.
Once(queue, kind) ==
  \A i, j \in DOMAIN queue : queue[i] = queue[j] /\ queue[i].is = kind => i = j

\* The first attempt of a key, its answer and a second attempt never exist at once.
InUp(t, k) == Send(k) \in Pending(tabs[t].up)
InLate(k) == Send(k) \in late
Refuted(t, k) == Refusal(k) \in Pending(tabs[t].down)

Attempted(k) == \A t \in Tab : InUp(t, k) \/ Refuted(t, k) => tabs[t].bubble[k] \in {"sending", "sent"}
Traced(k) == InLate(k) \/ IsStored(k) => \E t \in Tab : tabs[t].bubble[k] # "none"

\* Only the tab that made the key attempts it; the others can but show it as sent.
Mine(t, k) == tabs[t].bubble[k] \in {"sending", "failed"} \/ InUp(t, k) \/ Refuted(t, k)
Owned(k) == \A t, q \in Tab : Mine(t, k) /\ Mine(q, k) => t = q
Exclusive(k) ==
  \A t \in Tab : /\ tabs[t].bubble[k] = "sent" => IsStored(k)
                 /\ tabs[t].bubble[k] = "failed" => ~ InLate(k)
                 /\ ~ (InUp(t, k) /\ InLate(k)) /\ ~ (InUp(t, k) /\ Refuted(t, k))
                 /\ ~ (InLate(k) /\ Refuted(t, k))
OneAttempt(k) == Attempted(k) /\ Traced(k) /\ Owned(k) /\ Exclusive(k)

KeysInHand ==
  /\ \A s, r \in DOMAIN stream : stream[s] = stream[r] /\ stream[s] \in Key => s = r
  /\ \A k \in Key : OneAttempt(k)
  /\ \A t \in Tab : Once(tabs[t].up, "send") /\ Once(tabs[t].down, "rejected")

\* What a tab waits for is on its way, or went with a dead socket.
Tells1(e, k) == e.is \in {"new", "ack"} /\ stream[e.seq] = k
Awaited ==
  \A t \in Tab, k \in Key : tabs[t].bubble[k] = "sending" /\ k \notin tabs[t].orphaned =>
    /\ tabs[t].open
    /\ \/ InUp(t, k) \/ Refuted(t, k)
       \/ \E e \in telling : Tells1(e.event, k)
       \/ \E x \in Pending(tabs[t].down) : Tells1(x, k)

Fresh(list, upTo, n) == {s \in 1 .. n : s > upTo /\ list[s] = "peer"}
Missed(upTo, n) == Cardinality(Fresh(stream, upTo, n))

\* From where the tab stands (read up to u, knows Messages up to n) to where it is after e.
Moves(e, u, n, v, m) ==
  /\ v <= m
  /\ e.is \in {"new", "ack"} => v = u /\ m = e.seq /\ e.seq \in {n, n + 1} /\ e.seq # 0
  /\ e.is = "ack" => stream[e.seq] # "peer"
  /\ e.is = "marker" => v = e.upTo /\ m = n /\ e.count = Missed(e.upTo, n)
  /\ e.is = "rejected" => v = u /\ m = n

Whole(shown, n) ==
  /\ shown \subseteq 1 .. n
  /\ shown = {} => n = 0
  /\ \A s \in shown : s .. n \subseteq shown

Marks(t) ==
  \/ \E x \in Pending(tabs[t].up) : x.is = "mark"
  \/ \E x \in Pending(tabs[t].down) : x.is = "marker"
  \/ \E e \in telling : e.event.is = "marker"

\* What is queued for the tab leads from what it shows to what the tables hold, step by step.
Displays(t, u, n) ==
  Whole(tabs[t].held, n) /\ u <= n /\ (~ Marks(t) => tabs[t].badge = Missed(u, n))
FrameWalk(down, u, n) == \A i \in 1 .. Len(down) : Moves(down[i], u[i - 1], n[i - 1], u[i], n[i])
Arrives(u, n) ==
  \/ telling = {} /\ u = readRow.upTo /\ n = Len(stream)
  \/ \E e \in telling : telling = {e} /\ Moves(e.event, u, n, readRow.upTo, Len(stream))

FramePoints(down, top) == [0 .. Len(down) -> 0 .. top]
Path(t, u, n) ==
  /\ Displays(t, u[0], n[0]) /\ FrameWalk(tabs[t].down, u, n)
  /\ Arrives(u[Len(tabs[t].down)], n[Len(tabs[t].down)])

InStep(t) ==
  \E u, n \in FramePoints(tabs[t].down, Len(stream)) : Path(t, u, n)

\* What is untouched since its repair began shows what the repair read; what is settled is in step.
Untouched(t) ==
  tabs[t].clean => /\ tabs[t].open /\ telling = {}
                   /\ \A x \in Pending(tabs[t].down) : x.is = "rejected"
Repaired(t) ==
  /\ tabs[t].clean /\ tabs[t].repair = "listed" => tabs[t].count = readRow.unread
  /\ tabs[t].clean /\ tabs[t].repair = "pages" /\ ~ Marks(t) => tabs[t].badge = readRow.unread
Settled(t) == tabs[t].settled => tabs[t].open /\ tabs[t].repair = "none" /\ InStep(t)

Badges ==
  /\ readRow.unread = Missed(readRow.upTo, Len(stream))
  /\ \A e \in telling : e.event.is = "new" /\ e.by \in Tab => stream[e.event.seq] # "peer"
  /\ \A t \in Tab : Untouched(t) /\ Repaired(t) /\ Settled(t)

OutboxInv == OutboxTypes /\ WithinStream /\ KeysInHand /\ Awaited /\ Badges

\* Queues: what is taken off, what is put on.
LEMMA QueueTail ==
  ASSUME NEW T, NEW s \in Seq(T), s # <<>>
  PROVE  /\ Head(s) \in T /\ Head(s) \in Pending(s) /\ Tail(s) \in Seq(T)
         /\ Len(s) \in Nat /\ Len(s) >= 1 /\ Len(Tail(s)) = Len(s) - 1 /\ Head(s) = s[1]
         /\ \A i \in 1 .. (Len(s) - 1) : Tail(s)[i] = s[i + 1]
         /\ Pending(s) = Pending(Tail(s)) \cup {Head(s)}
<1>1. /\ Len(s) \in Nat /\ Len(s) # 0 /\ DOMAIN s = 1 .. Len(s)
      /\ Tail(s) \in Seq(T) /\ DOMAIN Tail(s) = 1 .. (Len(s) - 1) /\ Len(Tail(s)) = Len(s) - 1
      /\ \A i \in 1 .. (Len(s) - 1) : Tail(s)[i] = s[i + 1]
      /\ Head(s) = s[1]
  BY EmptySeq
<1>2. ASSUME NEW i \in 1 .. Len(s) PROVE s[i] \in Pending(Tail(s)) \cup {Head(s)}
  <2>1. CASE i = 1
    BY <1>1, <2>1
  <2>2. CASE i # 1
    <3>1. i - 1 \in 1 .. (Len(s) - 1) /\ Tail(s)[i - 1] = s[i]
      BY <1>1, <2>2
    <3> QED BY <1>1, <3>1 DEF Pending
  <2> QED BY <2>1, <2>2
<1>3. ASSUME NEW i \in 1 .. (Len(s) - 1) PROVE Tail(s)[i] \in Pending(s)
  <2>1. i + 1 \in 1 .. Len(s) /\ Tail(s)[i] = s[i + 1]
    BY <1>1
  <2> QED BY <1>1, <2>1 DEF Pending
<1>4. Head(s) \in Pending(s) /\ Head(s) \in T /\ Len(s) >= 1
  <2>1. 1 \in 1 .. Len(s)
    BY <1>1
  <2> QED BY <1>1, <2>1 DEF Pending
<1>5. Pending(s) \subseteq Pending(Tail(s)) \cup {Head(s)}
  BY <1>1, <1>2 DEF Pending
<1>6. Pending(Tail(s)) \subseteq Pending(s)
  BY <1>1, <1>3 DEF Pending
<1> QED BY <1>1, <1>4, <1>5, <1>6

LEMMA QueueAppend ==
  ASSUME NEW T, NEW s \in Seq(T), NEW x \in T
  PROVE  /\ Append(s, x) \in Seq(T) /\ Pending(Append(s, x)) = Pending(s) \cup {x}
         /\ Len(s) \in Nat /\ Len(Append(s, x)) = Len(s) + 1 /\ Append(s, x)[Len(s) + 1] = x
         /\ \A i \in 1 .. Len(s) : Append(s, x)[i] = s[i]
<1>1. /\ Append(s, x) \in Seq(T) /\ Len(s) \in Nat /\ Len(Append(s, x)) = Len(s) + 1
      /\ Append(s, x)[Len(s) + 1] = x /\ \A i \in 1 .. Len(s) : Append(s, x)[i] = s[i]
      /\ DOMAIN Append(s, x) = 1 .. (Len(s) + 1) /\ DOMAIN s = 1 .. Len(s)
  OBVIOUS
<1>2. Pending(Append(s, x)) \subseteq Pending(s) \cup {x}
  BY <1>1 DEF Pending
<1>3. x \in Pending(Append(s, x))
  <2>1. Len(s) + 1 \in 1 .. (Len(s) + 1)
    BY <1>1
  <2> QED BY <1>1, <2>1 DEF Pending
<1>4. Pending(s) \subseteq Pending(Append(s, x))
  <2>1. \A i \in 1 .. Len(s) : i \in 1 .. (Len(s) + 1)
    BY <1>1
  <2> QED BY <1>1, <2>1 DEF Pending
<1> QED BY <1>1, <1>2, <1>3, <1>4

LEMMA QueueOnce ==
  ASSUME NEW T, NEW s \in Seq(T), NEW kind, Once(s, kind)
  PROVE  /\ s # <<>> => /\ Once(Tail(s), kind)
                        /\ Head(s).is = kind => Head(s) \notin Pending(Tail(s))
         /\ \A x \in T : (x.is = kind => x \notin Pending(s)) => Once(Append(s, x), kind)
<1>1. ASSUME s # <<>>
      PROVE  Once(Tail(s), kind) /\ (Head(s).is = kind => Head(s) \notin Pending(Tail(s)))
  <2>1. /\ Len(s) \in Nat /\ Len(s) >= 1 /\ Len(Tail(s)) = Len(s) - 1 /\ Head(s) = s[1]
        /\ \A i \in 1 .. (Len(s) - 1) : Tail(s)[i] = s[i + 1]
        /\ DOMAIN s = 1 .. Len(s) /\ DOMAIN Tail(s) = 1 .. (Len(s) - 1)
    BY <1>1, QueueTail
  <2>2. ASSUME NEW i \in 1 .. (Len(s) - 1)
        PROVE  i + 1 \in DOMAIN s /\ Tail(s)[i] = s[i + 1] /\ 1 \in DOMAIN s
    BY <2>1
  <2>3. Once(Tail(s), kind)
    BY <2>1, <2>2 DEF Once
  <2>4. ASSUME Head(s).is = kind, NEW i \in 1 .. (Len(s) - 1), Tail(s)[i] = Head(s) PROVE FALSE
    <3>1. i + 1 = 1
      BY <2>1, <2>2, <2>4 DEF Once
    <3> QED BY <3>1
  <2> QED BY <2>1, <2>3, <2>4 DEF Pending
<1>2. ASSUME NEW x \in T, x.is = kind => x \notin Pending(s) PROVE Once(Append(s, x), kind)
  <2>1. /\ Len(s) \in Nat /\ Append(s, x)[Len(s) + 1] = x
        /\ \A i \in 1 .. Len(s) : Append(s, x)[i] = s[i]
        /\ DOMAIN Append(s, x) = 1 .. (Len(s) + 1) /\ DOMAIN s = 1 .. Len(s)
    BY QueueAppend
  <2>2. \A i \in 1 .. (Len(s) + 1) : i \in 1 .. Len(s) \/ i = Len(s) + 1
    BY <2>1
  <2>3. \A i \in 1 .. Len(s) : s[i] \in Pending(s)
    BY <2>1 DEF Pending
  <2> QED BY <1>2, <2>1, <2>2, <2>3 DEF Once
<1> QED BY <1>1, <1>2

LEMMA AskIs ==
  ASSUME NEW x \in TabAsks
  PROVE  /\ x.is = "send" => x.key \in Key /\ x = Send(x.key)
         /\ x.is = "mark" => x.upTo \in Nat
         /\ x.is \in {"send", "mark"}
<1>1. CASE x \in {Send(k) : k \in Key}
  <2>1. PICK k \in Key : x = Send(k)
    BY <1>1
  <2>2. x.is = "send" /\ x.key = k
    BY <2>1 DEF Send
  <2> QED BY <2>1, <2>2
<1>2. CASE x \in [is : {"mark"}, upTo : Nat]
  BY <1>2
<1> QED BY <1>1, <1>2 DEF TabAsks

LEMMA AsksAndFrames ==
  /\ \A k \in Key : /\ Send(k) \in TabAsks /\ Send(k).is = "send" /\ Send(k).key = k
                    /\ Refusal(k) \in Frames /\ Refusal(k).is = "rejected" /\ Refusal(k).key = k
  /\ \A x \in TabAsks : /\ x.is = "send" => x.key \in Key /\ x = Send(x.key)
                     /\ x.is = "mark" => x.upTo \in Nat
                     /\ x.is \in {"send", "mark"}
  /\ \A x \in Frames : /\ x.is = "rejected" => x.key \in Key /\ x = Refusal(x.key)
                       /\ x.is \in {"new", "ack"} => x.seq \in Nat
                       /\ x.is = "marker" => x.upTo \in Nat /\ x.count \in Nat
                       /\ x.is \in {"new", "ack", "marker", "rejected"}
  /\ \A x \in Tellable : x.is \in {"new", "marker"} /\ x \in Frames
<1>1. \A k \in Key : /\ Send(k) \in TabAsks /\ Send(k).is = "send" /\ Send(k).key = k
                     /\ Refusal(k) \in Frames /\ Refusal(k).is = "rejected" /\ Refusal(k).key = k
  BY DEF TabAsks, Frames, Send, Refusal
<1>2. ASSUME NEW x \in TabAsks
      PROVE  /\ x.is = "send" => x.key \in Key /\ x = Send(x.key)
             /\ x.is = "mark" => x.upTo \in Nat
             /\ x.is \in {"send", "mark"}
  BY AskIs
<1>3. ASSUME NEW x \in Frames
      PROVE  /\ x.is = "rejected" => x.key \in Key /\ x = Refusal(x.key)
             /\ x.is \in {"new", "ack"} => x.seq \in Nat
             /\ x.is = "marker" => x.upTo \in Nat /\ x.count \in Nat
             /\ x.is \in {"new", "ack", "marker", "rejected"}
  BY <1>1 DEF Frames, Tellable
<1>4. \A x \in Tellable : x.is \in {"new", "marker"} /\ x \in Frames
  BY DEF Tellable, Frames
<1> QED BY <1>1, <1>2, <1>3, <1>4

LEMMA FrameIs ==
  ASSUME NEW x \in Frames
  PROVE  /\ x.is \in {"new", "ack"} => x.seq \in Nat
         /\ x.is = "marker" => x.upTo \in Nat /\ x.count \in Nat
         /\ x.is \in {"new", "ack", "marker", "rejected"}
BY AsksAndFrames

LEMMA TabFields ==
  ASSUME OutboxTypes, NEW q \in Tab
  PROVE  /\ tabs[q] \in TabRows /\ tabs[q].up \in Seq(TabAsks) /\ tabs[q].down \in Seq(Frames)
         /\ tabs[q].held \in SUBSET Nat /\ tabs[q].badge \in Nat /\ tabs[q].reported \in Nat
         /\ Pending(tabs[q].up) \subseteq TabAsks /\ Pending(tabs[q].down) \subseteq Frames
<1>1. tabs[q] \in TabRows
  BY DEF OutboxTypes
<1>2. /\ tabs[q].up \in Seq(TabAsks) /\ tabs[q].down \in Seq(Frames)
      /\ tabs[q].held \in SUBSET Nat /\ tabs[q].badge \in Nat /\ tabs[q].reported \in Nat
  BY <1>1 DEF TabRows
<1>3. Pending(tabs[q].up) \subseteq TabAsks
  BY <1>2 DEF Pending
<1>4. Pending(tabs[q].down) \subseteq Frames
  BY <1>2 DEF Pending
<1> QED BY <1>1, <1>2, <1>3, <1>4

\* Upper ends.
LEMMA Greatest ==
  ASSUME NEW n \in Nat, NEW S \in SUBSET (1 .. n), S # {}
  PROVE  \E x \in S : \A y \in S : y <= x
<1> DEFINE T == {n - x : x \in S}
<1>0. \A x \in S : x \in Nat /\ n - x \in Nat
  OBVIOUS
<1>1. T \in SUBSET Nat /\ T # {}
  BY <1>0
<1>2. PICK z \in T : \A y \in T : z <= y
  BY <1>1, Smallest
<1>3. PICK x \in S : z = n - x
  BY <1>2
<1>4. ASSUME NEW y \in S PROVE y <= x
  <2>1. n - y \in T /\ x \in 1 .. n /\ y \in 1 .. n
    OBVIOUS
  <2>2. n - x <= n - y
    BY <1>2, <1>3, <2>1
  <2> QED BY <2>1, <2>2
<1> QED BY <1>4

LEMMA NewestHeld ==
  ASSUME NEW n \in Nat, NEW S \in SUBSET (1 .. n)
  PROVE  /\ MaxSeq(S) \in 0 .. n
         /\ S # {} => MaxSeq(S) \in S /\ \A r \in S : r <= MaxSeq(S)
<1>1. CASE S = {}
  BY <1>1 DEF MaxSeq
<1>2. CASE S # {}
  <2>1. \E x \in S : \A y \in S : y <= x
    BY <1>2, Greatest
  <2>2. MaxSeq(S) \in S /\ \A r \in S : r <= MaxSeq(S)
    BY <1>2, <2>1 DEF MaxSeq
  <2>3. \A x \in S : x \in 0 .. n
    OBVIOUS
  <2> QED BY <2>2, <2>3
<1> QED BY <1>1, <1>2

\* A repair fills whatever lies between its start and the end of the stream.
LEMMA RepairFills ==
  ASSUME NEW n \in Nat, NEW S \in SUBSET (1 .. n)
  PROVE  /\ RepairStart(S) \in 0 .. n
         /\ Whole(S \cup (RepairStart(S) + 1 .. n), n)
<1>1. CASE S = {}
  <2>1. RepairStart(S) = 0
    BY <1>1 DEF RepairStart
  <2>2. S \cup (RepairStart(S) + 1 .. n) = 1 .. n /\ RepairStart(S) \in 0 .. n
    BY <1>1, <2>1
  <2>3. Whole(1 .. n, n)
    <3>1. 1 .. n = {} => n = 0
      <4>1. n # 0 => 1 \in 1 .. n
        OBVIOUS
      <4> QED BY <4>1
    <3> QED BY <3>1 DEF Whole
  <2> DEFINE all == S \cup (RepairStart(S) + 1 .. n)
  <2>4. Whole(all, n)
    <3>1. all = 1 .. n
      BY <2>2
    <3> HIDE DEF all
    <3> QED BY <2>3, <3>1
  <2> QED BY <2>2, <2>4
<1>2. CASE S # {}
  <2> DEFINE Ends == {s \in S : s + 1 \notin S}
             start == RepairStart(S)
  <2>1. PICK top \in S : \A y \in S : y <= top
    BY <1>2, Greatest
  <2>2. top \in Ends /\ Ends \in SUBSET Nat
    <3>1. top + 1 \notin S
      <4>1. top \in Nat
        OBVIOUS
      <4> QED BY <2>1, <4>1
    <3>2. \A x \in S : x \in Nat
      OBVIOUS
    <3> QED BY <3>1, <3>2
  <2>3. PICK s \in Ends : \A y \in Ends : s <= y
    BY <2>2, Smallest
  <2>4. \A r \in S : r < s => r + 1 \in S
    <3>1. ASSUME NEW r \in S, r < s, r + 1 \notin S PROVE FALSE
      <4>1. r \in Ends /\ r \in Nat /\ s \in Nat
        BY <3>1
      <4> QED BY <2>3, <3>1, <4>1
    <3> QED BY <3>1
  <2>5. start \in S /\ start + 1 \notin S /\ \A r \in S : r < start => r + 1 \in S
    BY <1>2, <2>3, <2>4 DEF RepairStart
  <2> HIDE DEF start
  <2>6. start \in 1 .. n
    BY <2>5
  <2>7. ASSUME NEW r \in S, r <= start, NEW x \in r .. start PROVE x \in S
    <3> DEFINE Missing == {y \in r .. start : y \notin S}
    <3>1. SUFFICES ASSUME Missing # {} PROVE FALSE
      BY <3>1
    <3>2. Missing \in SUBSET Nat
      OBVIOUS
    <3>3. PICK y \in Missing : \A z \in Missing : y <= z
      BY <3>1, <3>2, Smallest
    <3>4. r \in Nat /\ y \in Nat /\ r <= y /\ y <= start /\ y \notin S
      BY <3>3
    <3>5. y # r /\ start \in Nat
      BY <2>6, <3>4
    <3>6. y - 1 \in r .. start /\ y - 1 < y
      BY <3>4, <3>5
    <3>7. y - 1 \in S
      BY <3>3, <3>6
    <3>8. y - 1 < start
      BY <3>4, <3>5
    <3> QED BY <2>5, <3>4, <3>7, <3>8
  <2> DEFINE all == S \cup (start + 1 .. n)
  <2>8. all \subseteq 1 .. n /\ all # {}
    BY <2>6, <1>2
  <2>9. ASSUME NEW r \in all, NEW x \in r .. n PROVE x \in all
    <3>0. x \in 1 .. n /\ r \in 1 .. n /\ r <= x
      BY <2>8
    <3>1. CASE x > start
      BY <2>6, <3>0, <3>1
    <3>2. CASE ~ x > start
      <4>1. r <= start /\ x \in r .. start
        BY <2>6, <3>0, <3>2
      <4>2. r \in S
        BY <2>6, <4>1
      <4> QED BY <2>7, <4>1, <4>2
    <3> QED BY <3>1, <3>2
  <2>10. Whole(all, n)
    BY <2>8, <2>9 DEF Whole
  <2> QED BY <2>6, <2>10 DEF start
<1> QED BY <1>1, <1>2

\* What there is to read up to a Message, and with the one after it.
LEMMA UnreadCounts ==
  ASSUME NEW list, NEW u \in Nat, NEW n \in Nat
  PROVE  /\ Cardinality(Fresh(list, u, n)) \in Nat
         /\ Cardinality(Fresh(list, u, n + 1)) = IF n + 1 > u /\ list[n + 1] = "peer"
                                                    THEN Cardinality(Fresh(list, u, n)) + 1
                                                    ELSE Cardinality(Fresh(list, u, n))
<1> DEFINE S == Fresh(list, u, n)
           T == Fresh(list, u, n + 1)
<1>1. IsFiniteSet(1 .. n) /\ S \subseteq 1 .. n
  BY FS_Interval DEF Fresh
<1>2. IsFiniteSet(S) /\ Cardinality(S) \in Nat
  BY <1>1, FS_Subset, FS_CardinalityType
<1>3. n + 1 \notin S
  BY <1>1
<1>4. CASE n + 1 > u /\ list[n + 1] = "peer"
  <2>1. T = S \cup {n + 1}
    BY <1>4 DEF Fresh
  <2>2. Cardinality(T) = Cardinality(S) + 1
    BY <1>2, <1>3, <2>1, FS_AddElement
  <2> QED BY <1>2, <1>4, <2>2
<1>5. CASE ~ (n + 1 > u /\ list[n + 1] = "peer")
  <2>1. T = S
    BY <1>5 DEF Fresh
  <2> QED BY <1>2, <1>5, <2>1
<1> QED BY <1>4, <1>5

\* The stream only grows.
Grows == Len(stream) <= Len(stream') /\ \A s \in 1 .. Len(stream) : stream'[s] = stream[s]

LEMMA UnreadStays ==
  ASSUME stream \in Seq(Key \cup {"peer"}), Grows, NEW u \in Nat, NEW n \in 0 .. Len(stream)
  PROVE  Missed(u, n)' = Missed(u, n)
<1>1. \A s \in 1 .. n : stream'[s] = stream[s]
  BY DEF Grows
<1> QED BY <1>1 DEF Missed, Fresh

LEMMA MovesStay ==
  ASSUME stream \in Seq(Key \cup {"peer"}), Grows, NEW e \in Frames, NEW u \in Nat,
         NEW n \in 0 .. Len(stream), NEW v \in Nat, NEW m \in 0 .. Len(stream), Moves(e, u, n, v, m)
  PROVE  Moves(e, u, n, v, m)'
<1>1. e.is = "ack" => stream'[e.seq] # "peer"
  BY DEF Moves, Grows
<1>2. e.is = "marker" => e.count = Missed(e.upTo, n)'
  BY UnreadStays, AsksAndFrames DEF Moves
<1> QED BY <1>1, <1>2 DEF Moves

\* Steps that change one tab.
LEMMA OneTab ==
  ASSUME tabs \in [Tab -> TabRows], NEW t \in Tab, NEW new \in TabRows, tabs' = [tabs EXCEPT ![t] = new]
  PROVE  tabs' \in [Tab -> TabRows] /\ tabs'[t] = new /\ \A q \in Tab : q # t => tabs'[q] = tabs[q]
OBVIOUS

\* What the keys have in hand may only shrink, or an attempt become its refusal; a bubble may
\* turn to "sent" once its key is stored, and what is stored shows in some tab.
LEMMA OneKept ==
  ASSUME NEW k \in Key, OneAttempt(k), IsStored(k) => IsStored(k)',
         IsStored(k)' => IsStored(k) \/ \E q \in Tab : tabs[q].bubble[k] # "none",
         \A q \in Tab : /\ \/ tabs'[q].bubble[k] = tabs[q].bubble[k]
                           \/ IsStored(k)' /\ tabs'[q].bubble[k] = "sent"
                        /\ InUp(q, k)' => InUp(q, k)
                        /\ Refuted(q, k)' => Refuted(q, k) \/ (InUp(q, k) /\ ~ InUp(q, k)'),
         InLate(k)' => InLate(k)
  PROVE  OneAttempt(k)'
<1>1. Attempted(k)'
  BY DEF OneAttempt, Attempted
<1>2. Traced(k)'
  BY DEF OneAttempt, Traced
<1>3. Owned(k)'
  <2>1. \A q \in Tab : Mine(q, k)' => Mine(q, k)
    BY DEF Mine
  <2>2. Owned(k)
    BY DEF OneAttempt
  <2> QED BY <2>1, <2>2 DEF Owned
<1>4. Exclusive(k)'
  BY DEF OneAttempt, Exclusive
<1> QED BY <1>1, <1>2, <1>3, <1>4 DEF OneAttempt

LEMMA KeysKept ==
  ASSUME KeysInHand,
         \A k \in Key : IsStored(k)' <=> IsStored(k),
         \A s, r \in DOMAIN stream' : stream'[s] = stream'[r] /\ stream'[s] \in Key => s = r,
         \A q \in Tab, k \in Key :
           /\ tabs'[q].bubble[k] = tabs[q].bubble[k] \/ (IsStored(k) /\ tabs'[q].bubble[k] = "sent")
           /\ InUp(q, k)' => InUp(q, k)
           /\ Refuted(q, k)' => Refuted(q, k),
         \A k \in Key : InLate(k)' => InLate(k),
         \A q \in Tab : Once(tabs'[q].up, "send") /\ Once(tabs'[q].down, "rejected")
  PROVE  KeysInHand'
<1>1. \A k \in Key : OneAttempt(k)'
  BY OneKept DEF KeysInHand
<1> QED BY <1>1 DEF KeysInHand

\* A key some tab shows is stored.
LEMMA KeysStored ==
  ASSUME OutboxTypes, KeysInHand, NEW k \in Key, ~ IsStored(k), stream' = Append(stream, k),
         \A q \in Tab : tabs'[q].bubble = tabs[q].bubble,
         \A q \in Tab, x \in Key : /\ InUp(q, x)' => InUp(q, x)
                                   /\ Refuted(q, x)' => Refuted(q, x) \/ (InUp(q, x) /\ ~ InUp(q, x)'),
         \A x \in Key : InLate(x)' => InLate(x),
         \A q \in Tab : Once(tabs'[q].up, "send") /\ Once(tabs'[q].down, "rejected"),
         \E q \in Tab : tabs[q].bubble[k] # "none"
  PROVE  KeysInHand'
<1>1. /\ Len(stream) \in Nat /\ DOMAIN stream = 1 .. Len(stream)
      /\ DOMAIN stream' = 1 .. (Len(stream) + 1) /\ stream'[Len(stream) + 1] = k
      /\ \A s \in 1 .. Len(stream) : stream'[s] = stream[s]
  BY DEF OutboxTypes
<1>2. \A x \in Key : IsStored(x)' <=> IsStored(x) \/ x = k
  <2>1. \A s \in 1 .. (Len(stream) + 1) : s \in 1 .. Len(stream) \/ s = Len(stream) + 1
    BY <1>1
  <2>2. \A s \in 1 .. Len(stream) : s \in 1 .. (Len(stream) + 1)
    BY <1>1
  <2>3. Len(stream) + 1 \in 1 .. (Len(stream) + 1)
    BY <1>1
  <2> QED BY <1>1, <2>1, <2>2, <2>3 DEF IsStored
<1>3. (\A s, r \in DOMAIN stream : stream[s] = stream[r] /\ stream[s] \in Key => s = r)'
  <2>1. \A s \in 1 .. (Len(stream) + 1) : s \in 1 .. Len(stream) \/ s = Len(stream) + 1
    BY <1>1
  <2>2. \A s \in 1 .. Len(stream) : stream[s] # k
    BY <1>1 DEF IsStored
  <2>3. \A s, r \in 1 .. Len(stream) : stream[s] = stream[r] /\ stream[s] \in Key => s = r
    BY <1>1 DEF KeysInHand
  <2> QED BY <1>1, <2>1, <2>2, <2>3
<1>4. ASSUME NEW x \in Key PROVE OneAttempt(x)'
  <2>1. OneAttempt(x)
    BY DEF KeysInHand
  <2> QED BY <1>2, <2>1, OneKept
<1> QED BY <1>3, <1>4 DEF KeysInHand

\* What a tab waits for stays on its way.
LEMMA AwaitedKept ==
  ASSUME Awaited,
         \A q \in Tab, k \in Key : tabs'[q].bubble[k] = "sending" /\ k \notin tabs'[q].orphaned =>
           \/ /\ tabs[q].bubble[k] = "sending" /\ k \notin tabs[q].orphaned
              /\ tabs[q].open => tabs'[q].open
              /\ InUp(q, k) \/ Refuted(q, k) =>
                   InUp(q, k)' \/ Refuted(q, k)' \/ \E e \in telling' : Tells1(e.event, k)'
              /\ \A e \in telling : tabs[q].open /\ Tells1(e.event, k) =>
                   \/ \E f \in telling' : Tells1(f.event, k)'
                   \/ \E x \in Pending(tabs'[q].down) : Tells1(x, k)'
              /\ \A x \in Pending(tabs[q].down) : Tells1(x, k) =>
                   \E y \in Pending(tabs'[q].down) : Tells1(y, k)'
           \/ tabs'[q].open /\ InUp(q, k)'
  PROVE  Awaited'
<1> SUFFICES ASSUME NEW q \in Tab, NEW k \in Key, tabs'[q].bubble[k] = "sending", k \notin tabs'[q].orphaned
             PROVE  /\ tabs'[q].open
                    /\ \/ InUp(q, k)' \/ Refuted(q, k)'
                       \/ \E e \in telling' : Tells1(e.event, k)'
                       \/ \E x \in Pending(tabs'[q].down) : Tells1(x, k)'
  BY DEF Awaited, Pending
<1>1. CASE tabs'[q].open /\ InUp(q, k)'
  BY <1>1
<1>2. CASE ~ (tabs'[q].open /\ InUp(q, k)')
  <2>1. /\ tabs[q].bubble[k] = "sending" /\ k \notin tabs[q].orphaned
        /\ tabs[q].open => tabs'[q].open
        /\ InUp(q, k) \/ Refuted(q, k) =>
                   InUp(q, k)' \/ Refuted(q, k)' \/ \E e \in telling' : Tells1(e.event, k)'
        /\ \A e \in telling : tabs[q].open /\ Tells1(e.event, k) =>
                   \/ \E f \in telling' : Tells1(f.event, k)'
                   \/ \E x \in Pending(tabs'[q].down) : Tells1(x, k)'
        /\ \A x \in Pending(tabs[q].down) : Tells1(x, k) =>
                   \E y \in Pending(tabs'[q].down) : Tells1(y, k)'
    BY <1>2
  <2>2. /\ tabs[q].open
        /\ \/ InUp(q, k) \/ Refuted(q, k)
           \/ \E e \in telling : Tells1(e.event, k)
           \/ \E x \in Pending(tabs[q].down) : Tells1(x, k)
    BY <2>1 DEF Awaited
  <2> QED BY <2>1, <2>2
<1> QED BY <1>1, <1>2

\* Steps along a path: one more, one less, and while the stream grows.
LEMMA WalkOn ==
  ASSUME NEW down \in Seq(Frames), NEW top \in Nat, NEW u \in FramePoints(down, top),
         NEW n \in FramePoints(down, top), FrameWalk(down, u, n), NEW x \in Frames,
         NEW v \in 0 .. top, NEW m \in 0 .. top, Moves(x, u[Len(down)], n[Len(down)], v, m)
  PROVE  \E w, o \in FramePoints(Append(down, x), top) :
           /\ FrameWalk(Append(down, x), w, o) /\ w[0] = u[0] /\ o[0] = n[0]
           /\ w[Len(down) + 1] = v /\ o[Len(down) + 1] = m
<1> DEFINE l == Len(down)
           new == Append(down, x)
           w == [i \in 0 .. (l + 1) |-> IF i = l + 1 THEN v ELSE u[i]]
           o == [i \in 0 .. (l + 1) |-> IF i = l + 1 THEN m ELSE n[i]]
<1>1. /\ l \in Nat /\ Len(new) = l + 1 /\ new[l + 1] = x /\ \A i \in 1 .. l : new[i] = down[i]
  OBVIOUS
<1>2. \A i \in 0 .. l : u[i] \in 0 .. top /\ n[i] \in 0 .. top
  BY DEF FramePoints
<1> HIDE DEF l, new
<1>3. \A i \in 0 .. (l + 1) : i # l + 1 => i \in 0 .. l
  BY <1>1
<1>4. w \in [0 .. (l + 1) -> 0 .. top] /\ o \in [0 .. (l + 1) -> 0 .. top]
  BY <1>2, <1>3
<1>5. /\ \A i \in 0 .. l : w[i] = u[i] /\ o[i] = n[i]
      /\ w[l + 1] = v /\ o[l + 1] = m
  <2>1. \A i \in 0 .. l : i \in 0 .. (l + 1) /\ i # l + 1
    BY <1>1
  <2>2. l + 1 \in 0 .. (l + 1)
    BY <1>1
  <2> QED BY <2>1, <2>2
<1> HIDE DEF w, o
<1>6. ASSUME NEW i \in 1 .. (l + 1) PROVE Moves(new[i], w[i - 1], o[i - 1], w[i], o[i])
  <2>1. CASE i = l + 1
    <3>1. i - 1 = l /\ l \in 0 .. l
      BY <1>1, <2>1
    <3>2. Moves(x, u[l], n[l], v, m)
      BY DEF l
    <3> QED BY <1>1, <1>5, <2>1, <3>1, <3>2
  <2>2. CASE i # l + 1
    <3>1. i \in 1 .. l /\ i \in 0 .. l /\ i - 1 \in 0 .. l
      BY <1>1, <2>2
    <3>2. Moves(down[i], u[i - 1], n[i - 1], u[i], n[i])
      BY <3>1 DEF l, FrameWalk
    <3> QED BY <1>1, <1>5, <3>1, <3>2
  <2> QED BY <2>1, <2>2
<1>7. FrameWalk(new, w, o)
  BY <1>1, <1>6 DEF FrameWalk
<1>8. w[0] = u[0] /\ o[0] = n[0]
  BY <1>1, <1>5
<1>9. w \in FramePoints(new, top) /\ o \in FramePoints(new, top)
  BY <1>1, <1>4 DEF FramePoints
<1> QED BY <1>5, <1>7, <1>8, <1>9 DEF l, new

LEMMA WalkOff ==
  ASSUME NEW down \in Seq(Frames), down # <<>>, NEW top \in Nat, NEW u \in FramePoints(down, top),
         NEW n \in FramePoints(down, top), FrameWalk(down, u, n)
  PROVE  \E w, o \in FramePoints(Tail(down), top) :
           /\ FrameWalk(Tail(down), w, o) /\ w[0] = u[1] /\ o[0] = n[1]
           /\ w[Len(Tail(down))] = u[Len(down)] /\ o[Len(Tail(down))] = n[Len(down)]
<1> DEFINE l == Len(down) - 1
           w == [i \in 0 .. l |-> u[i + 1]]
           o == [i \in 0 .. l |-> n[i + 1]]
<1>1. /\ Len(down) \in Nat /\ Len(down) >= 1 /\ l \in Nat /\ Len(Tail(down)) = l
      /\ \A i \in 1 .. l : Tail(down)[i] = down[i + 1]
  BY QueueTail
<1>2. \A i \in 0 .. l : i + 1 \in 0 .. Len(down)
  BY <1>1
<1>3. \A i \in 0 .. l : u[i + 1] \in 0 .. top /\ n[i + 1] \in 0 .. top
  BY <1>2 DEF FramePoints
<1>4. w \in [0 .. l -> 0 .. top] /\ o \in [0 .. l -> 0 .. top]
  BY <1>3
<1>5. \A i \in 0 .. l : w[i] = u[i + 1] /\ o[i] = n[i + 1]
  OBVIOUS
<1> HIDE DEF w, o
<1>6. ASSUME NEW i \in 1 .. l PROVE Moves(Tail(down)[i], w[i - 1], o[i - 1], w[i], o[i])
  <2>1. i \in 0 .. l /\ i - 1 \in 0 .. l /\ i + 1 \in 1 .. Len(down) /\ i - 1 + 1 = i /\ i + 1 - 1 = i
    BY <1>1
  <2>2. Moves(down[i + 1], u[i + 1 - 1], n[i + 1 - 1], u[i + 1], n[i + 1])
    BY <2>1 DEF FrameWalk
  <2> QED BY <1>1, <1>5, <2>1, <2>2
<1>7. FrameWalk(Tail(down), w, o)
  BY <1>1, <1>6 DEF FrameWalk
<1>8. w[0] = u[1] /\ o[0] = n[1] /\ w[l] = u[Len(down)] /\ o[l] = n[Len(down)]
  <2>1. 0 \in 0 .. l /\ l \in 0 .. l /\ l + 1 = Len(down) /\ 0 + 1 = 1
    BY <1>1
  <2> QED BY <1>5, <2>1
<1>9. w \in FramePoints(Tail(down), top) /\ o \in FramePoints(Tail(down), top)
  BY <1>1, <1>4 DEF FramePoints
<1> QED BY <1>1, <1>7, <1>8, <1>9

LEMMA WalkStays ==
  ASSUME stream \in Seq(Key \cup {"peer"}), Grows, NEW down \in Seq(Frames),
         NEW u \in FramePoints(down, Len(stream)), NEW n \in FramePoints(down, Len(stream)), FrameWalk(down, u, n)
  PROVE  FrameWalk(down, u, n)'
<1>1. Len(stream) \in Nat /\ Len(down) \in Nat
  OBVIOUS
<1>2. ASSUME NEW i \in 1 .. Len(down) PROVE Moves(down[i], u[i - 1], n[i - 1], u[i], n[i])'
  <2>1. i - 1 \in 0 .. Len(down) /\ i \in 0 .. Len(down)
    BY <1>1
  <2>2. /\ u[i - 1] \in Nat /\ u[i] \in Nat
        /\ n[i - 1] \in 0 .. Len(stream) /\ n[i] \in 0 .. Len(stream)
    <3>1. \A j \in 0 .. Len(down) : u[j] \in 0 .. Len(stream) /\ n[j] \in 0 .. Len(stream)
      BY DEF FramePoints
    <3>2. u[i - 1] \in 0 .. Len(stream) /\ u[i] \in 0 .. Len(stream)
      BY <2>1, <3>1
    <3> QED BY <2>1, <3>1, <3>2
  <2>3. down[i] \in Frames
    OBVIOUS
  <2>4. Moves(down[i], u[i - 1], n[i - 1], u[i], n[i])
    BY DEF FrameWalk
  <2> QED BY <2>2, <2>3, <2>4, MovesStay
<1> QED BY <1>2 DEF FrameWalk

\* A tab stays in step: through what does not concern it, through a commit, and as it is told.
LEMMA InStepKept ==
  ASSUME OutboxTypes, stream' = stream, readRow' = readRow, NEW q \in Tab, InStep(q),
         tabs'[q].held = tabs[q].held, tabs'[q].down = tabs[q].down,
         ~ Marks(q)' => ~ Marks(q) /\ tabs'[q].badge = tabs[q].badge,
         telling = {} => telling' = {},
         \A e \in telling : telling = {e} => \E f \in telling' : telling' = {f} /\ f.event = e.event
  PROVE  InStep(q)'
<1>1. PICK u \in FramePoints(tabs[q].down, Len(stream)), n \in FramePoints(tabs[q].down, Len(stream)) : Path(q, u, n)
  BY DEF InStep
<1>2. /\ Len(stream) \in Nat /\ tabs[q].down \in Seq(Frames) /\ Grows
      /\ stream \in Seq(Key \cup {"peer"}) /\ readRow.upTo \in Nat
  BY DEF OutboxTypes, TabRows, Grows
<1>3. FrameWalk(tabs[q].down, u, n) /\ Displays(q, u[0], n[0])
      /\ Arrives(u[Len(tabs[q].down)], n[Len(tabs[q].down)])
  BY <1>1 DEF Path
<1> DEFINE down == tabs[q].down
<1>4. ASSUME NEW d, d = down PROVE FrameWalk(d, u, n)'
  BY <1>2, <1>3, <1>4, WalkStays
<1>5. FrameWalk(tabs[q].down, u, n)'
  BY <1>4 DEF FrameWalk
<1>6. Displays(q, u[0], n[0])'
  BY <1>3 DEF Displays, Whole, Missed
<1>7. Arrives(u[Len(tabs[q].down)], n[Len(tabs[q].down)])'
  <2>1. ASSUME NEW v, NEW m, Arrives(v, m) PROVE Arrives(v, m)'
    <3>1. CASE telling = {}
      BY <2>1, <3>1 DEF Arrives
    <3>2. CASE telling # {}
      <4>1. PICK e \in telling : telling = {e} /\ Moves(e.event, v, m, readRow.upTo, Len(stream))
        BY <2>1, <3>2 DEF Arrives
      <4>2. PICK f \in telling' : telling' = {f} /\ f.event = e.event
        BY <4>1
      <4>3. Moves(f.event, v, m, readRow.upTo, Len(stream))'
        BY <4>1, <4>2 DEF Moves, Missed
      <4> QED BY <4>2, <4>3 DEF Arrives
    <3> QED BY <3>1, <3>2
  <2> QED BY <1>3, <2>1
<1>8. Path(q, u, n)'
  BY <1>5, <1>6, <1>7 DEF Path
<1> QED BY <1>8 DEF InStep, FramePoints

LEMMA InStepCommitted ==
  ASSUME OutboxTypes, OutboxTypes', Grows, NEW q \in Tab, InStep(q), telling = {},
         tabs'[q].held = tabs[q].held, tabs'[q].down = tabs[q].down, tabs'[q].badge = tabs[q].badge,
         ~ Marks(q)' => ~ Marks(q),
         NEW e, telling' = {e}, NEW from, from = readRow.upTo, NEW known, known = Len(stream),
         Moves(e.event, from, known, readRow.upTo, Len(stream))'
  PROVE  InStep(q)'
<1>1. PICK u \in FramePoints(tabs[q].down, Len(stream)), n \in FramePoints(tabs[q].down, Len(stream)) : Path(q, u, n)
  BY DEF InStep
<1>2. /\ Len(stream) \in Nat /\ tabs[q].down \in Seq(Frames) /\ Len(tabs[q].down) \in Nat
      /\ Len(stream') \in Nat /\ Len(stream) <= Len(stream')
      /\ stream \in Seq(Key \cup {"peer"})
  <2>1. stream \in Seq(Key \cup {"peer"}) /\ stream' \in Seq(Key \cup {"peer"})
    BY DEF OutboxTypes
  <2>2. tabs[q].down \in Seq(Frames)
    BY TabFields
  <2> QED BY <2>1, <2>2 DEF Grows
<1>3. FrameWalk(tabs[q].down, u, n) /\ Displays(q, u[0], n[0])
      /\ Arrives(u[Len(tabs[q].down)], n[Len(tabs[q].down)])
  BY <1>1 DEF Path
<1>4. \A i \in 0 .. Len(tabs[q].down) : u[i] \in 0 .. Len(stream) /\ n[i] \in 0 .. Len(stream)
  BY DEF FramePoints
<1>5. ASSUME NEW d, d = tabs[q].down PROVE FrameWalk(d, u, n)'
  BY <1>2, <1>3, <1>5, WalkStays
<1>6. FrameWalk(tabs[q].down, u, n)'
  BY <1>5 DEF FrameWalk
<1>7. Displays(q, u[0], n[0])'
  <2>1. u[0] \in Nat /\ n[0] \in 0 .. Len(stream)
    BY <1>2, <1>4
  <2>2. Missed(u[0], n[0])' = Missed(u[0], n[0])
    BY <1>2, <2>1, UnreadStays
  <2> QED BY <1>3, <2>2 DEF Displays, Whole
<1>8. u[Len(tabs[q].down)] = readRow.upTo /\ n[Len(tabs[q].down)] = Len(stream)
  BY <1>3 DEF Arrives
<1>9. Arrives(u[Len(tabs[q].down)], n[Len(tabs[q].down)])'
  <2>1. ASSUME NEW v, NEW m, v = from, m = known PROVE Arrives(v, m)'
    BY <2>1 DEF Arrives
  <2> QED BY <1>8, <2>1
<1>10. Path(q, u, n)'
  BY <1>6, <1>7, <1>9 DEF Path
<1>11. u \in FramePoints(tabs[q].down, Len(stream))' /\ n \in FramePoints(tabs[q].down, Len(stream))'
  <2>1. 0 .. Len(stream) \subseteq 0 .. Len(stream')
    BY <1>2
  <2>2. u \in [0 .. Len(tabs[q].down) -> 0 .. Len(stream')] /\ n \in [0 .. Len(tabs[q].down) -> 0 .. Len(stream')]
    BY <2>1 DEF FramePoints
  <2> QED BY <2>2 DEF FramePoints
<1> QED BY <1>10, <1>11 DEF InStep

\* The parts of a path that another queue, or another event, leaves alone.
LEMMA InStepFrom ==
  ASSUME OutboxTypes, OutboxTypes', stream' = stream, readRow' = readRow, NEW q \in Tab,
         NEW w \in FramePoints(tabs'[q].down, Len(stream)), NEW o \in FramePoints(tabs'[q].down, Len(stream)),
         FrameWalk(tabs'[q].down, w, o),
         Whole(tabs'[q].held, o[0]), w[0] <= o[0], ~ Marks(q)' => tabs'[q].badge = Missed(w[0], o[0]),
         \/ telling' = telling /\ Arrives(w[Len(tabs'[q].down)], o[Len(tabs'[q].down)])
         \/ /\ telling' = {} /\ w[Len(tabs'[q].down)] = readRow.upTo
            /\ o[Len(tabs'[q].down)] = Len(stream)
  PROVE  InStep(q)'
<1>1. Grows /\ stream \in Seq(Key \cup {"peer"}) /\ tabs'[q].down \in Seq(Frames)
  BY DEF Grows, OutboxTypes, TabRows
<1>2. ASSUME NEW d, d = tabs'[q].down PROVE FrameWalk(d, w, o)'
  BY <1>1, <1>2, WalkStays
<1>3. FrameWalk(tabs[q].down, w, o)'
  BY <1>2 DEF FrameWalk
<1>4. Displays(q, w[0], o[0])'
  BY DEF Displays, Whole, Missed
<1>5. ASSUME NEW v, NEW m,
             \/ telling' = telling /\ Arrives(v, m)
             \/ telling' = {} /\ v = readRow.upTo /\ m = Len(stream)
      PROVE  Arrives(v, m)'
  <2>1. \A e : Moves(e.event, v, m, readRow.upTo, Len(stream)) => Moves(e.event, v, m, readRow.upTo, Len(stream))'
    BY DEF Moves, Missed
  <2> QED BY <1>5, <2>1 DEF Arrives
<1>6. Path(q, w, o)'
  BY <1>3, <1>4, <1>5 DEF Path
<1>7. w \in FramePoints(tabs[q].down, Len(stream))' /\ o \in FramePoints(tabs[q].down, Len(stream))'
  BY DEF FramePoints
<1> QED BY <1>6, <1>7 DEF InStep

\* To be told of an event is to have it, or its acknowledgement and it, queued.
LEMMA Queued ==
  ASSUME NEW T, NEW s \in Seq(T), NEW x \in T, NEW y \in T
  PROVE  s \o <<x>> = Append(s, x) /\ s \o <<x, y>> = Append(Append(s, x), y)
<1>1. s \o <<x>> = Append(s, x)
  <2>1. <<x>> \in Seq(T) /\ Append(s, x) \in Seq(T)
    OBVIOUS
  <2> QED BY <2>1
<1>2. s \o <<x, y>> = Append(Append(s, x), y)
  <2> DEFINE a == Append(s, x)
             b == s \o <<x, y>>
  <2>1. <<x, y>> \in Seq(T) /\ Len(<<x, y>>) = 2
    OBVIOUS
  <2>2. /\ b \in Seq(T) /\ Len(s) \in Nat /\ Len(b) = Len(s) + 2
        /\ \A i \in 1 .. Len(s) : b[i] = s[i]
        /\ b[Len(s) + 1] = x /\ b[Len(s) + 2] = y
    BY <2>1
  <2>3. /\ a \in Seq(T) /\ Len(a) = Len(s) + 1 /\ a[Len(s) + 1] = x /\ \A i \in 1 .. Len(s) : a[i] = s[i]
    BY QueueAppend
  <2> HIDE DEF a
  <2>4. /\ Append(a, y) \in Seq(T) /\ Len(Append(a, y)) = Len(a) + 1 /\ Append(a, y)[Len(a) + 1] = y
        /\ \A i \in 1 .. Len(a) : Append(a, y)[i] = a[i]
    BY <2>3, QueueAppend
  <2> HIDE DEF b
  <2>5. Len(Append(a, y)) = Len(b)
    BY <2>2, <2>3, <2>4
  <2>6. ASSUME NEW i \in 1 .. Len(b) PROVE Append(a, y)[i] = b[i]
    <3>1. CASE i = Len(s) + 2
      BY <2>2, <2>3, <2>4, <3>1
    <3>2. CASE i = Len(s) + 1
      <4>1. i \in 1 .. Len(a)
        BY <2>2, <2>3, <3>2
      <4> QED BY <2>2, <2>3, <2>4, <3>2, <4>1
    <3>3. CASE i \in 1 .. Len(s)
      <4>1. i \in 1 .. Len(a)
        BY <2>2, <2>3, <3>3
      <4> QED BY <2>2, <2>3, <2>4, <3>3, <4>1
    <3>4. i \in 1 .. (Len(s) + 2) /\ Len(s) \in Nat
      BY <2>2
    <3>5. i = Len(s) + 2 \/ i = Len(s) + 1 \/ i \in 1 .. Len(s)
      BY <3>4
    <3> QED BY <3>1, <3>2, <3>3, <3>5
  <2> QED BY <2>2, <2>4, <2>5, <2>6 DEF a, b
<1> QED BY <1>1, <1>2

LEMMA HeardFrames ==
  ASSUME OutboxTypes, NEW q \in Tab, NEW e \in telling
  PROVE  LET ack == [is |-> "ack", seq |-> e.event.seq] IN
         /\ e.event \in Tellable /\ e.event \in Frames
         /\ e.event.is = "new" => ack \in Frames /\ ack.is = "ack" /\ ack.seq = e.event.seq
         /\ \/ FramesOf(q, e) = <<e.event>> /\ tabs[q].down \o FramesOf(q, e) = Append(tabs[q].down, e.event)
            \/ /\ e.by = q /\ e.event.is = "new" /\ FramesOf(q, e) = <<ack, e.event>>
               /\ tabs[q].down \o FramesOf(q, e) = Append(Append(tabs[q].down, ack), e.event)
<1> DEFINE ack == [is |-> "ack", seq |-> e.event.seq]
<1>1. e.event \in Tellable /\ tabs[q].down \in Seq(Frames)
  BY DEF OutboxTypes, TabRows
<1>2. e.event \in Frames
  BY <1>1, AsksAndFrames
<1>3. e.event.is = "new" => ack \in Frames /\ ack.is = "ack" /\ ack.seq = e.event.seq
  BY <1>1 DEF Tellable, Frames
<1>4. CASE e.by = q /\ e.event.is = "new"
  <2>1. FramesOf(q, e) = <<ack, e.event>>
    BY <1>4 DEF FramesOf
  <2>2. tabs[q].down \o <<ack, e.event>> = Append(Append(tabs[q].down, ack), e.event)
    <3> DEFINE x == ack
               y == e.event
               s == tabs[q].down
    <3>1. x \in Frames /\ y \in Frames /\ s \in Seq(Frames)
      BY <1>1, <1>2, <1>3, <1>4
    <3> HIDE DEF x, y, s
    <3>2. s \o <<x, y>> = Append(Append(s, x), y)
      BY <3>1, Queued
    <3> QED BY <3>2 DEF x, y, s
  <2> QED BY <1>1, <1>2, <1>3, <1>4, <2>1, <2>2
<1>5. CASE ~ (e.by = q /\ e.event.is = "new")
  <2>1. FramesOf(q, e) = <<e.event>>
    BY <1>5 DEF FramesOf
  <2>2. tabs[q].down \o <<e.event>> = Append(tabs[q].down, e.event)
    BY <1>1, <1>2, Queued
  <2> QED BY <1>1, <1>2, <1>3, <2>1, <2>2
<1> QED BY <1>4, <1>5

LEMMA InStepTold ==
  ASSUME OutboxTypes, OutboxTypes', WithinStream, stream' = stream, readRow' = readRow,
         NEW q \in Tab, InStep(q), NEW e \in telling, telling' = telling \ {e},
         e.event.is = "new" /\ e.by \in Tab => stream[e.event.seq] # "peer",
         tabs'[q].held = tabs[q].held, tabs'[q].badge = tabs[q].badge,
         tabs'[q].down = tabs[q].down \o FramesOf(q, e), ~ Marks(q)' => ~ Marks(q)
  PROVE  InStep(q)'
<1> DEFINE down == tabs[q].down
           top == Len(stream)
           l == Len(down)
<1>1. PICK u \in FramePoints(tabs[q].down, Len(stream)), n \in FramePoints(tabs[q].down, Len(stream)) : Path(q, u, n)
  BY DEF InStep
<1>2. /\ top \in Nat /\ down \in Seq(Frames) /\ l \in Nat /\ readRow.upTo \in 0 .. top
  BY DEF OutboxTypes, TabRows, WithinStream
<1>3. FrameWalk(down, u, n) /\ Displays(q, u[0], n[0]) /\ Arrives(u[l], n[l])
  BY <1>1 DEF Path
<1>4. telling = {e} /\ Moves(e.event, u[l], n[l], readRow.upTo, top)
  BY <1>3 DEF Arrives
<1>5. \A i \in 0 .. l : u[i] \in 0 .. top /\ n[i] \in 0 .. top
  BY DEF FramePoints
<1>6. top \in 0 .. top /\ l \in 0 .. l
  BY <1>2
<1>7. telling' = {}
  BY <1>4
<1>8. ~ Marks(q)' => tabs'[q].badge = Missed(u[0], n[0])
  BY <1>3 DEF Displays
<1>11. /\ u \in FramePoints(down, top) /\ n \in FramePoints(down, top) /\ l = Len(down)
       /\ Moves(e.event, u[Len(down)], n[Len(down)], readRow.upTo, top)
  BY <1>4
<1> HIDE DEF down, top, l
<1>9. CASE tabs'[q].down = Append(down, e.event)
  <2>1. e.event \in Frames
    BY HeardFrames
  <2>2. PICK w \in FramePoints(Append(down, e.event), top), o \in FramePoints(Append(down, e.event), top) :
          /\ FrameWalk(Append(down, e.event), w, o) /\ w[0] = u[0] /\ o[0] = n[0]
          /\ w[l + 1] = readRow.upTo /\ o[l + 1] = top
    BY <1>2, <1>3, <1>6, <1>11, <2>1, WalkOn
  <2>3. Len(Append(down, e.event)) = l + 1
    BY <1>2 DEF l
  <2> QED
    BY <1>3, <1>7, <1>8, <1>9, <2>2, <2>3, InStepFrom DEF top, Displays
<1>10. CASE tabs'[q].down # Append(down, e.event)
  <2> DEFINE ack == [is |-> "ack", seq |-> e.event.seq]
             half == Append(down, ack)
  <2>1. /\ e.by = q /\ e.event.is = "new" /\ e.event \in Frames /\ ack \in Frames /\ ack.is = "ack"
        /\ ack.seq = e.event.seq /\ tabs'[q].down = Append(half, e.event)
    BY <1>10, HeardFrames DEF down
  <2> HIDE DEF ack
  <2>2. u[l] = readRow.upTo /\ top = e.event.seq /\ e.event.seq \in {n[l], n[l] + 1} /\ e.event.seq # 0 /\ readRow.upTo <= top
    BY <1>4, <2>1 DEF Moves
  <2>3. Moves(ack, u[l], n[l], u[l], top) /\ Moves(e.event, u[l], top, u[l], top)
    BY <2>1, <2>2 DEF Moves
  <2>4. u[l] \in 0 .. top
    BY <1>5, <1>6
  <2>9. Moves(ack, u[Len(down)], n[Len(down)], u[l], top)
    BY <1>11, <2>3
  <2>5. PICK w \in FramePoints(half, top), o \in FramePoints(half, top) :
          /\ FrameWalk(half, w, o) /\ w[0] = u[0] /\ o[0] = n[0]
          /\ w[l + 1] = u[l] /\ o[l + 1] = top
    BY <1>2, <1>3, <1>6, <1>11, <2>1, <2>9, <2>4, WalkOn
  <2>6. half \in Seq(Frames) /\ Len(half) = l + 1 /\ Len(Append(half, e.event)) = l + 1 + 1
    BY <1>2, <2>1 DEF l
  <2> HIDE DEF half
  <2>10. Moves(e.event, w[Len(half)], o[Len(half)], u[l], top)
    BY <2>3, <2>5, <2>6
  <2>7. PICK w2 \in FramePoints(Append(half, e.event), top), o2 \in FramePoints(Append(half, e.event), top) :
          /\ FrameWalk(Append(half, e.event), w2, o2) /\ w2[0] = w[0] /\ o2[0] = o[0]
          /\ w2[Len(half) + 1] = u[l] /\ o2[Len(half) + 1] = top
    <3> DEFINE x == e.event
               v == u[l]
    <3>1. /\ FrameWalk(half, w, o) /\ half \in Seq(Frames) /\ x \in Frames /\ v \in 0 .. top
          /\ w \in FramePoints(half, top) /\ o \in FramePoints(half, top) /\ Moves(x, w[Len(half)], o[Len(half)], v, top)
      BY <2>1, <2>4, <2>5, <2>6, <2>10
    <3> HIDE DEF x, v
    <3>2. \E w2, o2 \in FramePoints(Append(half, x), top) :
            /\ FrameWalk(Append(half, x), w2, o2) /\ w2[0] = w[0] /\ o2[0] = o[0]
            /\ w2[Len(half) + 1] = v /\ o2[Len(half) + 1] = top
      BY <1>2, <1>6, <3>1, WalkOn
    <3> QED BY <3>2 DEF x, v
  <2>8. w2[0] = u[0] /\ o2[0] = n[0] /\ w2[l + 1 + 1] = readRow.upTo /\ o2[l + 1 + 1] = top
    BY <2>2, <2>5, <2>6, <2>7
  <2> QED
    BY <1>3, <1>7, <1>8, <2>1, <2>6, <2>7, <2>8, InStepFrom DEF top, Displays
<1> QED BY <1>9, <1>10

\* What each kind of frame does to the tab.
Shows(S) == {k \in Key : \E s \in S : stream[s] = k}
SameBut(new, old) ==
  /\ new.open = old.open /\ new.count = old.count /\ new.orphaned = old.orphaned /\ new.up = old.up
  /\ new.clean = old.clean /\ new.settled = old.settled

LEMMA UpsertShows ==
  ASSUME NEW mine \in TabRows, NEW S \in SUBSET Nat
  PROVE  /\ Upsert(mine, S) \in TabRows /\ Upsert(mine, S).held = mine.held \cup S
         /\ \A k \in Key : Upsert(mine, S).bubble[k] = IF k \in Shows(S) THEN "sent" ELSE mine.bubble[k]
         /\ SameBut(Upsert(mine, S), mine) /\ Upsert(mine, S).down = mine.down
         /\ Upsert(mine, S).badge = mine.badge /\ Upsert(mine, S).reported = mine.reported
         /\ Upsert(mine, S).repair = mine.repair
<1> DEFINE b == [k \in Key |-> IF \E s \in S : stream[s] = k THEN "sent" ELSE mine.bubble[k]]
           h == mine.held \cup S
           new == [mine EXCEPT !.held = h, !.bubble = b]
<1>1. b \in [Key -> Bubbles] /\ h \in SUBSET Nat
  BY DEF TabRows, Bubbles
<1>2. \A k \in Key : b[k] = IF k \in Shows(S) THEN "sent" ELSE mine.bubble[k]
  BY DEF Shows
<1> HIDE DEF b, h
<1>3. new \in TabRows /\ new.held = h /\ new.bubble = b /\ SameBut(new, mine) /\ new.down = mine.down
      /\ new.badge = mine.badge /\ new.reported = mine.reported /\ new.repair = mine.repair
  BY <1>1 DEF TabRows, SameBut
<1>4. Upsert(mine, S) = new
  BY DEF Upsert, b, h
<1> HIDE DEF new
<1> QED BY <1>2, <1>3, <1>4 DEF h

LEMMA TakenOff ==
  ASSUME OutboxTypes, NEW t \in Tab, tabs[t].down # <<>>
  PROVE  LET mine == [tabs[t] EXCEPT !.down = Tail(@)] IN
         /\ mine \in TabRows /\ mine.down = Tail(tabs[t].down) /\ SameBut(mine, tabs[t])
         /\ mine.held = tabs[t].held /\ mine.bubble = tabs[t].bubble /\ mine.badge = tabs[t].badge
         /\ mine.reported = tabs[t].reported /\ mine.repair = tabs[t].repair
<1> DEFINE d == Tail(tabs[t].down)
           mine == [tabs[t] EXCEPT !.down = d]
<1>1. tabs[t] \in TabRows /\ tabs[t].down \in Seq(Frames)
  BY DEF OutboxTypes, TabRows
<1>2. d \in Seq(Frames)
  BY <1>1, QueueTail
<1> HIDE DEF d
<1>3. /\ mine \in TabRows /\ mine.down = d /\ SameBut(mine, tabs[t])
      /\ mine.held = tabs[t].held /\ mine.bubble = tabs[t].bubble /\ mine.badge = tabs[t].badge
      /\ mine.reported = tabs[t].reported /\ mine.repair = tabs[t].repair
  BY <1>1, <1>2 DEF TabRows, SameBut
<1> QED BY <1>3 DEF d

LEMMA Taken ==
  ASSUME OutboxTypes, WithinStream, NEW t \in Tab, HandleChatEvent(t)
  PROVE  LET old == tabs[t]  new == tabs'[t]  e == Head(tabs[t].down) IN
         /\ tabs' \in [Tab -> TabRows] /\ \A q \in Tab : q # t => tabs'[q] = tabs[q]
         /\ SameBut(new, old) /\ new.down = Tail(old.down) /\ e \in Frames /\ e \in Pending(old.down)
         /\ e.is = "new" =>
              /\ e.seq \in 1 .. Len(stream) /\ new.held = old.held \cup {e.seq}
              /\ \A k \in Key : new.bubble[k] = IF stream[e.seq] = k THEN "sent" ELSE old.bubble[k]
              /\ new.badge = IF Raises(old, e.seq) THEN old.badge + 1 ELSE old.badge
              /\ new.reported = old.reported
              /\ new.repair = IF old.repair = "none" /\ old.held # {} /\ e.seq > MaxSeq(old.held) + 1
                                THEN "list" ELSE old.repair
         /\ e.is = "ack" =>
              /\ e.seq \in 1 .. Len(stream) /\ new.held = old.held \cup {e.seq}
              /\ \A k \in Key : new.bubble[k] = IF stream[e.seq] = k THEN "sent" ELSE old.bubble[k]
              /\ new.badge = old.badge /\ new.reported = old.reported /\ new.repair = old.repair
         /\ e.is = "rejected" =>
              /\ e.key \in Key /\ e = Refusal(e.key) /\ new.held = old.held /\ new.badge = old.badge
              /\ \A k \in Key : new.bubble[k] = IF k = e.key THEN "failed" ELSE old.bubble[k]
              /\ new.reported = old.reported /\ new.repair = old.repair
         /\ e.is = "marker" =>
              /\ e.upTo \in Nat /\ e.upTo <= Len(stream) /\ new.held = old.held /\ new.badge = e.count
              /\ new.bubble = old.bubble /\ new.repair = old.repair
              /\ new.reported = IF e.upTo > old.reported THEN e.upTo ELSE old.reported
         /\ e.is \in {"new", "ack", "rejected", "marker"}
<1> DEFINE old == tabs[t]
           e == Head(tabs[t].down)
           mine == [tabs[t] EXCEPT !.down = Tail(@)]
           new == CASE e.is = "new" -> ApplyNewMessage(mine, e.seq)
                    [] e.is = "ack" -> Upsert(mine, {e.seq})
                    [] e.is = "rejected" -> ApplyRejection(mine, e.key)
                    [] OTHER -> ApplyReadMarker(mine, e)
<1>1. old \in TabRows /\ old.down \in Seq(Frames) /\ old.down # <<>> /\ tabs \in [Tab -> TabRows]
  BY DEF OutboxTypes, TabRows, HandleChatEvent
<1>2. e \in Frames /\ e \in Pending(old.down)
  BY <1>1, QueueTail
<1>3. Fits(e)
  BY <1>2 DEF WithinStream
<1>4. /\ mine \in TabRows /\ mine.down = Tail(tabs[t].down) /\ SameBut(mine, old)
      /\ mine.held = old.held /\ mine.bubble = old.bubble /\ mine.badge = old.badge
      /\ mine.reported = old.reported /\ mine.repair = old.repair
  BY <1>1, TakenOff
<1>5. tabs' = [tabs EXCEPT ![t] = new]
  BY DEF HandleChatEvent
<1> HIDE DEF mine
<1>6. /\ e.is \in {"new", "ack", "rejected", "marker"}
      /\ e.is \in {"new", "ack"} => e.seq \in 1 .. Len(stream) /\ e.seq \in Nat
      /\ e.is = "rejected" => e.key \in Key /\ e = Refusal(e.key)
      /\ e.is = "marker" => e.upTo \in Nat /\ e.upTo <= Len(stream) /\ e.count \in Nat
  BY <1>2, <1>3, AsksAndFrames DEF Fits
<1> HIDE DEF e
<1>7. CASE e.is = "new"
  <2> DEFINE up == Upsert(mine, {e.seq})
             b == IF Raises(mine, e.seq) THEN up.badge + 1 ELSE up.badge
             r == IF up.repair = "none" /\ mine.held # {} /\ e.seq > MaxSeq(mine.held) + 1 THEN "list" ELSE up.repair
             row == [up EXCEPT !.badge = b, !.repair = r]
  <2>1. /\ up \in TabRows /\ up.held = mine.held \cup {e.seq} /\ SameBut(up, mine) /\ up.down = mine.down
        /\ \A k \in Key : up.bubble[k] = IF k \in Shows({e.seq}) THEN "sent" ELSE mine.bubble[k]
        /\ up.badge = mine.badge /\ up.reported = mine.reported /\ up.repair = mine.repair
    <3>1. {e.seq} \in SUBSET Nat
      BY <1>6, <1>7
    <3> QED BY <1>4, <3>1, UpsertShows
  <2>2. ApplyNewMessage(mine, e.seq) = row
    BY DEF ApplyNewMessage
  <2> HIDE DEF up
  <2>3. b \in Nat /\ r \in {"none", "list", "listed", "pages"}
    BY <2>1 DEF TabRows
  <2>4. b = (IF Raises(old, e.seq) THEN old.badge + 1 ELSE old.badge)
        /\ r = (IF old.repair = "none" /\ old.held # {} /\ e.seq > MaxSeq(old.held) + 1 THEN "list" ELSE old.repair)
    BY <1>4, <2>1 DEF Raises
  <2> HIDE DEF b, r
  <2>5. /\ row \in TabRows /\ row.badge = b /\ row.repair = r /\ row.held = up.held /\ row.down = up.down
        /\ row.bubble = up.bubble /\ row.reported = up.reported /\ SameBut(row, up)
    BY <2>1, <2>3 DEF TabRows, SameBut
  <2>6. new = row
    BY <1>7, <2>2
  <2> HIDE DEF new, row
  <2>7. tabs'[t] = row /\ tabs' \in [Tab -> TabRows] /\ \A q \in Tab : q # t => tabs'[q] = tabs[q]
    BY <1>1, <1>5, <2>5, <2>6, OneTab
  <2>8. \A k \in Key : row.bubble[k] = IF stream[e.seq] = k THEN "sent" ELSE old.bubble[k]
    BY <1>4, <2>1, <2>5 DEF Shows
  <2>9. SameBut(row, old)
    BY <1>4, <2>1, <2>5 DEF SameBut
  <2> QED BY <1>2, <1>4, <1>6, <1>7, <2>1, <2>4, <2>5, <2>7, <2>8, <2>9 DEF e
<1>8. CASE e.is = "ack"
  <2> DEFINE up == Upsert(mine, {e.seq})
  <2>1. /\ up \in TabRows /\ up.held = mine.held \cup {e.seq} /\ SameBut(up, mine) /\ up.down = mine.down
        /\ \A k \in Key : up.bubble[k] = IF k \in Shows({e.seq}) THEN "sent" ELSE mine.bubble[k]
        /\ up.badge = mine.badge /\ up.reported = mine.reported /\ up.repair = mine.repair
    <3>1. {e.seq} \in SUBSET Nat
      BY <1>6, <1>8
    <3> QED BY <1>4, <3>1, UpsertShows
  <2>2. new = up
    BY <1>8
  <2> HIDE DEF up, new
  <2>3. tabs'[t] = up /\ tabs' \in [Tab -> TabRows] /\ \A q \in Tab : q # t => tabs'[q] = tabs[q]
    BY <1>1, <1>5, <2>1, <2>2, OneTab
  <2>4. \A k \in Key : up.bubble[k] = IF stream[e.seq] = k THEN "sent" ELSE old.bubble[k]
    BY <1>4, <2>1 DEF Shows
  <2>5. SameBut(up, old)
    BY <1>4, <2>1 DEF SameBut
  <2> QED BY <1>2, <1>4, <1>6, <1>8, <2>1, <2>3, <2>4, <2>5 DEF e
<1>9. CASE e.is = "rejected"
  <2> DEFINE b == [mine.bubble EXCEPT ![e.key] = "failed"]
             row == [mine EXCEPT !.bubble = b]
  <2>1. b \in [Key -> Bubbles] /\ \A k \in Key : b[k] = IF k = e.key THEN "failed" ELSE old.bubble[k]
    BY <1>1, <1>4, <1>6, <1>9 DEF TabRows, Bubbles
  <2>2. new = row
    BY <1>9 DEF ApplyRejection
  <2> HIDE DEF b, new
  <2>3. /\ row \in TabRows /\ row.bubble = b /\ row.held = mine.held /\ row.badge = mine.badge /\ SameBut(row, mine)
        /\ row.down = mine.down /\ row.reported = mine.reported /\ row.repair = mine.repair
    BY <1>4, <2>1 DEF TabRows, SameBut
  <2> HIDE DEF row
  <2>4. tabs'[t] = row /\ tabs' \in [Tab -> TabRows] /\ \A q \in Tab : q # t => tabs'[q] = tabs[q]
    BY <1>1, <1>5, <2>2, <2>3, OneTab
  <2>5. SameBut(row, old)
    BY <1>4, <2>3 DEF SameBut
  <2> QED BY <1>2, <1>4, <1>6, <1>9, <2>1, <2>3, <2>4, <2>5 DEF e
<1>10. CASE e.is = "marker"
  <2> DEFINE far == IF e.upTo > mine.reported THEN e.upTo ELSE mine.reported
             row == [mine EXCEPT !.badge = e.count, !.reported = far]
  <2>1. far \in Nat /\ far = IF e.upTo > old.reported THEN e.upTo ELSE old.reported
    BY <1>1, <1>4, <1>6, <1>10 DEF TabRows
  <2>2. new = row
    BY <1>10 DEF ApplyReadMarker
  <2> HIDE DEF far, new
  <2>3. /\ row \in TabRows /\ row.badge = e.count /\ row.reported = far /\ SameBut(row, mine) /\ row.held = mine.held
        /\ row.bubble = mine.bubble /\ row.down = mine.down /\ row.repair = mine.repair
    BY <1>4, <1>6, <1>10, <2>1 DEF TabRows, SameBut
  <2> HIDE DEF row
  <2>4. tabs'[t] = row /\ tabs' \in [Tab -> TabRows] /\ \A q \in Tab : q # t => tabs'[q] = tabs[q]
    BY <1>1, <1>5, <2>2, <2>3, OneTab
  <2>5. SameBut(row, old)
    BY <1>4, <2>3 DEF SameBut
  <2> QED BY <1>2, <1>4, <1>6, <1>10, <2>1, <2>3, <2>4, <2>5 DEF e
<1> QED BY <1>6, <1>7, <1>8, <1>9, <1>10 DEF e

\* A frame from the server is applied.
LEMMA TakenKeys ==
  ASSUME OutboxTypes, WithinStream, KeysInHand, NEW t \in Tab, HandleChatEvent(t)
  PROVE  KeysInHand'
<1> DEFINE old == tabs[t]
           new == tabs'[t]
           e == Head(tabs[t].down)
<1>1. /\ \A q \in Tab : q # t => tabs'[q] = tabs[q]
      /\ SameBut(new, old) /\ new.down = Tail(old.down) /\ e \in Pending(old.down)
      /\ e.is \in {"new", "ack"} =>
              /\ e.seq \in 1 .. Len(stream)
              /\ \A k \in Key : new.bubble[k] = IF stream[e.seq] = k THEN "sent" ELSE old.bubble[k]
      /\ e.is = "rejected" =>
              /\ e.key \in Key /\ e = Refusal(e.key)
              /\ \A k \in Key : new.bubble[k] = IF k = e.key THEN "failed" ELSE old.bubble[k]
      /\ e.is = "marker" => new.bubble = old.bubble
      /\ e.is \in {"new", "ack", "rejected", "marker"}
  BY Taken
<1>2. old.down \in Seq(Frames) /\ old.down # <<>> /\ DOMAIN stream = 1 .. Len(stream)
  BY DEF HandleChatEvent, OutboxTypes, TabRows
<1>3. /\ Pending(Tail(old.down)) \subseteq Pending(old.down)
      /\ Once(Tail(old.down), "rejected") /\ (e.is = "rejected" => e \notin Pending(Tail(old.down)))
  <2>1. Once(old.down, "rejected")
    BY DEF KeysInHand
  <2> QED BY <1>2, <2>1, QueueTail, QueueOnce
<1>4. UNCHANGED <<stream, late>>
  BY DEF HandleChatEvent
<1> HIDE DEF e
<1>5. \A q \in Tab, k \in Key : /\ InUp(q, k)' <=> InUp(q, k)
                                /\ Refuted(q, k)' => Refuted(q, k)
  <2>1. \A q \in Tab : tabs'[q].up = tabs[q].up
    BY <1>1 DEF SameBut
  <2>2. \A q \in Tab : Pending(tabs'[q].down) \subseteq Pending(tabs[q].down)
    BY <1>1, <1>3
  <2>3. \A q \in Tab, k \in Key : InUp(q, k)' <=> InUp(q, k)
    BY <2>1 DEF InUp, Pending, Send
  <2>4. \A q \in Tab, k \in Key : Refuted(q, k)' <=> Refusal(k) \in Pending(tabs'[q].down)
    BY DEF Refuted, Pending, Refusal
  <2>5. \A q \in Tab, k \in Key : Refuted(q, k) <=> Refusal(k) \in Pending(tabs[q].down)
    BY DEF Refuted
  <2> QED BY <2>2, <2>3, <2>4, <2>5
<1>6. \A k \in Key : (IsStored(k)' <=> IsStored(k)) /\ (InLate(k)' <=> InLate(k))
  BY <1>4 DEF IsStored, InLate
<1>7. \A q \in Tab : Once(tabs'[q].up, "send") /\ Once(tabs'[q].down, "rejected")
  BY <1>1, <1>3 DEF KeysInHand, SameBut
<1>8. \A s, r \in DOMAIN stream' : stream'[s] = stream'[r] /\ stream'[s] \in Key => s = r
  BY <1>4 DEF KeysInHand
<1>9. CASE e.is \in {"new", "ack", "marker"}
  <2>1. \A q \in Tab, k \in Key :
           tabs'[q].bubble[k] = tabs[q].bubble[k] \/ (IsStored(k) /\ tabs'[q].bubble[k] = "sent")
    BY <1>1, <1>2, <1>9 DEF IsStored
  <2> QED BY <1>5, <1>6, <1>7, <1>8, <2>1, KeysKept
<1>10. CASE e.is = "rejected"
  <2>1. PICK k \in Key : e = Refusal(k) /\ k = e.key
    BY <1>1, <1>10
  <2>2. \A q \in Tab, x \in Key :
          tabs'[q].bubble[x] = IF q = t /\ x = k THEN "failed" ELSE tabs[q].bubble[x]
    BY <1>1, <1>10, <2>1
  <2>3. ASSUME NEW x \in Key, x # k PROVE OneAttempt(x)'
    BY <1>5, <1>6, <2>2, <2>3, OneKept DEF KeysInHand
  <2>4. OneAttempt(k)'
    <3>1. OneAttempt(k) /\ Refuted(t, k)
      BY <1>1, <2>1 DEF KeysInHand, Refuted
    <3>2. ~ Refuted(t, k)'
      <4>1. Refusal(k) \notin Pending(tabs'[t].down)
        BY <1>1, <1>3, <1>10, <2>1
      <4> QED BY <4>1 DEF Refuted, Refusal, Pending
    <3>3. /\ ~ InLate(k) /\ ~ InUp(t, k)
          /\ \A q \in Tab : q # t => ~ Mine(q, k)
      BY <3>1 DEF OneAttempt, Owned, Exclusive, Mine
    <3>4. \A q \in Tab : ~ InUp(q, k)' /\ ~ Refuted(q, k)'
      <4>1. \A q \in Tab : q # t => ~ InUp(q, k) /\ ~ Refuted(q, k)
        BY <3>3 DEF Mine
      <4> QED BY <1>5, <3>2, <3>3, <4>1
    <3>5. (IsStored(k)' <=> IsStored(k)) /\ ~ InLate(k)'
      BY <1>6, <3>3
    <3>6. /\ tabs'[t].bubble[k] = "failed"
          /\ \A q \in Tab : q # t => /\ tabs'[q].bubble[k] = tabs[q].bubble[k]
                                    /\ tabs[q].bubble[k] \notin {"sending", "failed"}
      BY <2>2, <3>3 DEF Mine
    <3>7. Attempted(k)'
      BY <3>4 DEF Attempted
    <3>8. Traced(k)'
      BY <3>6 DEF Traced
    <3>9. Owned(k)'
      <4>1. \A q \in Tab : Mine(q, k)' => q = t
        BY <3>4, <3>6 DEF Mine
      <4> QED BY <4>1 DEF Owned
    <3>10. Exclusive(k)'
      BY <3>1, <3>4, <3>5, <3>6 DEF OneAttempt, Exclusive
    <3> QED BY <3>7, <3>8, <3>9, <3>10 DEF OneAttempt
  <2> QED BY <1>7, <1>8, <2>3, <2>4 DEF KeysInHand
<1> QED BY <1>1, <1>9, <1>10

LEMMA OneInHand ==
  /\ \A q \in Tab, k \in Key : /\ InUp(q, k) <=> Send(k) \in Pending(tabs[q].up)
                               /\ InUp(q, k)' <=> Send(k) \in Pending(tabs'[q].up)
                               /\ Refuted(q, k) <=> Refusal(k) \in Pending(tabs[q].down)
                               /\ Refuted(q, k)' <=> Refusal(k) \in Pending(tabs'[q].down)
  /\ \A k \in Key : (InLate(k) <=> Send(k) \in late) /\ (InLate(k)' <=> Send(k) \in late')
  /\ stream' = stream => \A k \in Key : IsStored(k)' <=> IsStored(k)
BY DEF InUp, Refuted, InLate, IsStored, Send, Refusal, Pending

LEMMA MarksNext ==
  \A q \in Tab : Marks(q)' <=> \/ \E x \in Pending(tabs'[q].up) : x.is = "mark"
                               \/ \E x \in Pending(tabs'[q].down) : x.is = "marker"
                               \/ \E e \in telling' : e.event.is = "marker"
BY DEF Marks, Pending

\* A step of one tab concerns the badges of that tab only.
LEMMA BadgesOfOne ==
  ASSUME OutboxTypes, Badges, stream' = stream, readRow' = readRow, telling' = telling, NEW t \in Tab,
         \A q \in Tab : q # t => tabs'[q] = tabs[q], Untouched(t)', Repaired(t)', Settled(t)'
  PROVE  Badges'
<1>1. ASSUME NEW q \in Tab, q # t PROVE (Untouched(q) /\ Repaired(q) /\ Settled(q))'
  <2>1. tabs'[q] = tabs[q] /\ (Marks(q)' <=> Marks(q))
    BY <1>1 DEF Marks, Pending
  <2>2. Untouched(q)' /\ Repaired(q)'
    BY <2>1 DEF Badges, Untouched, Repaired, Pending
  <2>3. InStep(q) => InStep(q)'
    BY <2>1, InStepKept
  <2>4. Settled(q)'
    BY <2>1, <2>3 DEF Badges, Settled
  <2> QED BY <2>2, <2>4
<1>2. (readRow.unread = Missed(readRow.upTo, Len(stream)))'
  BY DEF Badges, Missed
<1>3. (\A e \in telling : e.event.is = "new" /\ e.by \in Tab => stream[e.event.seq] # "peer")'
  BY DEF Badges
<1>4. \A q \in Tab : (Untouched(q) /\ Repaired(q) /\ Settled(q))'
  BY <1>1
<1> QED BY <1>2, <1>3, <1>4 DEF Badges

LEMMA AwaitedHere ==
  ASSUME Awaited, stream' = stream, telling' = telling,
         \A q \in Tab, k \in Key : tabs'[q].bubble[k] = "sending" /\ k \notin tabs'[q].orphaned =>
           \/ /\ tabs[q].bubble[k] = "sending" /\ k \notin tabs[q].orphaned
              /\ tabs[q].open => tabs'[q].open
              /\ InUp(q, k) \/ Refuted(q, k) => InUp(q, k)' \/ Refuted(q, k)'
              /\ \A x \in Pending(tabs[q].down) : Tells1(x, k) => x \in Pending(tabs'[q].down)
           \/ tabs'[q].open /\ InUp(q, k)'
  PROVE  Awaited'
<1>1. \A x, k : Tells1(x, k)' <=> Tells1(x, k)
  BY DEF Tells1
<1>2. \A q \in Tab, k \in Key : tabs'[q].bubble[k] = "sending" /\ k \notin tabs'[q].orphaned =>
           \/ /\ tabs[q].bubble[k] = "sending" /\ k \notin tabs[q].orphaned
              /\ tabs[q].open => tabs'[q].open
              /\ InUp(q, k) \/ Refuted(q, k) =>
                   InUp(q, k)' \/ Refuted(q, k)' \/ \E f \in telling' : Tells1(f.event, k)'
              /\ \A f \in telling : tabs[q].open /\ Tells1(f.event, k) =>
                   \/ \E g \in telling' : Tells1(g.event, k)'
                   \/ \E x \in Pending(tabs'[q].down) : Tells1(x, k)'
              /\ \A x \in Pending(tabs[q].down) : Tells1(x, k) =>
                   \E y \in Pending(tabs'[q].down) : Tells1(y, k)'
           \/ tabs'[q].open /\ InUp(q, k)'
  BY <1>1
<1> QED BY <1>2, AwaitedKept

LEMMA TakenAwaited ==
  ASSUME OutboxTypes, WithinStream, Awaited, NEW t \in Tab, HandleChatEvent(t)
  PROVE  Awaited'
<1> DEFINE old == tabs[t]
           new == tabs'[t]
           e == Head(tabs[t].down)
<1>1. /\ \A q \in Tab : q # t => tabs'[q] = tabs[q]
      /\ SameBut(new, old) /\ new.down = Tail(old.down) /\ e \in Pending(old.down)
      /\ e.is \in {"new", "ack"} =>
              /\ e.seq \in 1 .. Len(stream)
              /\ \A k \in Key : new.bubble[k] = IF stream[e.seq] = k THEN "sent" ELSE old.bubble[k]
      /\ e.is = "rejected" =>
              /\ e.key \in Key /\ e = Refusal(e.key)
              /\ \A k \in Key : new.bubble[k] = IF k = e.key THEN "failed" ELSE old.bubble[k]
      /\ e.is = "marker" => new.bubble = old.bubble
      /\ e.is \in {"new", "ack", "rejected", "marker"}
  BY Taken
<1>2. old.down \in Seq(Frames) /\ old.down # <<>> /\ stream' = stream /\ telling' = telling
  BY DEF HandleChatEvent, OutboxTypes, TabRows
<1>3. Pending(old.down) = Pending(Tail(old.down)) \cup {e}
  BY <1>2, QueueTail
<1> HIDE DEF e
<1>4. \A k \in Key : Refusal(k).is = "rejected" /\ Refusal(k).key = k
  BY AsksAndFrames
<1>5. \A x, k : Tells1(x, k)' <=> Tells1(x, k)
  BY <1>2 DEF Tells1
<1>6. ASSUME NEW k \in Key, new.bubble[k] = "sending"
      PROVE  old.bubble[k] = "sending" /\ e # Refusal(k) /\ ~ Tells1(e, k)
  BY <1>1, <1>4, <1>6 DEF Tells1
<1>7. ASSUME NEW q \in Tab, NEW k \in Key, tabs'[q].bubble[k] = "sending", k \notin tabs'[q].orphaned
      PROVE  /\ tabs[q].bubble[k] = "sending" /\ k \notin tabs[q].orphaned
             /\ tabs[q].open => tabs'[q].open
             /\ InUp(q, k) \/ Refuted(q, k) => InUp(q, k)' \/ Refuted(q, k)'
             /\ \A x \in Pending(tabs[q].down) : Tells1(x, k) => x \in Pending(tabs'[q].down)
  <2>1. CASE q = t
    <3>1. old.bubble[k] = "sending" /\ e # Refusal(k) /\ ~ Tells1(e, k)
      BY <1>6, <1>7, <2>1
    <3>2. \A x \in Pending(old.down) : x # e => x \in Pending(new.down)
      BY <1>1, <1>3
    <3>3. \A x \in Pending(tabs[q].down) : Tells1(x, k) => x \in Pending(tabs'[q].down)
      BY <2>1, <3>1, <3>2
    <3>4. InUp(q, k) \/ Refuted(q, k) => InUp(q, k)' \/ Refuted(q, k)'
      BY <1>1, <2>1, <3>1, <3>2, OneInHand DEF SameBut
    <3> QED BY <1>1, <1>7, <2>1, <3>1, <3>3, <3>4 DEF SameBut
  <2>2. CASE q # t
    <3>1. tabs'[q] = tabs[q]
      BY <1>1, <2>2
    <3> QED BY <1>7, <3>1, OneInHand
  <2> QED BY <2>1, <2>2
<1> QED BY <1>2, <1>7, AwaitedHere

LEMMA TakenBadges ==
  ASSUME OutboxTypes, OutboxTypes', WithinStream, Badges, NEW t \in Tab, HandleChatEvent(t)
  PROVE  Badges'
<1> DEFINE old == tabs[t]
           new == tabs'[t]
           e == Head(tabs[t].down)
<1>1. /\ \A q \in Tab : q # t => tabs'[q] = tabs[q]
      /\ SameBut(new, old) /\ new.down = Tail(old.down) /\ e \in Pending(old.down) /\ e \in Frames
      /\ e.is = "new" =>
              /\ e.seq \in 1 .. Len(stream) /\ new.held = old.held \cup {e.seq}
              /\ new.badge = IF Raises(old, e.seq) THEN old.badge + 1 ELSE old.badge
              /\ new.repair = IF old.repair = "none" /\ old.held # {} /\ e.seq > MaxSeq(old.held) + 1
                                THEN "list" ELSE old.repair
      /\ e.is = "ack" =>
              /\ e.seq \in 1 .. Len(stream) /\ new.held = old.held \cup {e.seq}
              /\ new.badge = old.badge /\ new.repair = old.repair
      /\ e.is = "rejected" => new.held = old.held /\ new.badge = old.badge /\ new.repair = old.repair
      /\ e.is = "marker" => new.held = old.held /\ new.badge = e.count /\ new.repair = old.repair
      /\ e.is \in {"new", "ack", "rejected", "marker"}
  BY Taken
<1>2. /\ stream' = stream /\ readRow' = readRow /\ telling' = telling
      /\ old.down \in Seq(Frames) /\ old.down # <<>> /\ old \in TabRows /\ Len(stream) \in Nat
  <2>1. stream' = stream /\ readRow' = readRow /\ telling' = telling /\ old.down # <<>>
    BY DEF HandleChatEvent
  <2>2. old \in TabRows /\ Len(stream) \in Nat
    BY DEF OutboxTypes
  <2> QED BY <2>1, <2>2 DEF TabRows
<1>3. /\ Pending(old.down) = Pending(new.down) \cup {e} /\ Len(old.down) \in Nat /\ Len(old.down) >= 1
      /\ e = old.down[1]
  BY <1>1, <1>2, QueueTail
<1> HIDE DEF e
<1>4. ~ Marks(t)' => (e.is # "marker" => ~ Marks(t))
  BY <1>1, <1>2, <1>3, MarksNext DEF Marks, SameBut
<1>5. Untouched(t)' /\ Repaired(t)'
  <2>1. CASE old.clean
    <3>1. old.open /\ telling = {} /\ e.is = "rejected" /\ \A x \in Pending(old.down) : x.is = "rejected"
      BY <1>1, <2>1 DEF Badges, Untouched
    <3>2. Untouched(t)'
      BY <1>1, <1>2, <1>3, <3>1 DEF Untouched, SameBut, Pending
    <3>3. Repaired(t)'
      BY <1>1, <1>2, <1>4, <2>1, <3>1 DEF Badges, Repaired, SameBut
    <3> QED BY <3>2, <3>3
  <2>2. CASE ~ old.clean
    BY <1>1, <2>2 DEF Untouched, Repaired, SameBut
  <2> QED BY <2>1, <2>2
<1>6. ASSUME old.settled PROVE new.open /\ new.repair = "none" /\ InStep(t)'
  <2>1. old.open /\ old.repair = "none" /\ InStep(t)
    BY <1>6 DEF Badges, Settled
  <2>2. PICK u \in FramePoints(old.down, Len(stream)), n \in FramePoints(old.down, Len(stream)) : Path(t, u, n)
    BY <2>1 DEF InStep
  <2>3. \A i \in 0 .. Len(old.down) : u[i] \in 0 .. Len(stream) /\ n[i] \in 0 .. Len(stream)
    BY DEF FramePoints
  <2>4. 0 \in 0 .. Len(old.down) /\ 1 \in 0 .. Len(old.down) /\ 1 \in 1 .. Len(old.down)
    BY <1>3
  <2> DEFINE u0 == u[0]
             n0 == n[0]
             u1 == u[1]
             n1 == n[1]
  <2>5. u0 \in 0 .. Len(stream) /\ n0 \in 0 .. Len(stream) /\ u1 \in 0 .. Len(stream) /\ n1 \in 0 .. Len(stream)
    BY <2>3, <2>4
  <2>6. Moves(e, u0, n0, u1, n1)
    <3>1. Moves(old.down[1], u[1 - 1], n[1 - 1], u[1], n[1])
      BY <2>2, <2>4 DEF Path, FrameWalk
    <3> QED BY <1>3, <3>1
  <2>7. Displays(t, u0, n0) /\ Arrives(u[Len(old.down)], n[Len(old.down)]) /\ FrameWalk(old.down, u, n)
    BY <2>2 DEF Path
  <2>8. PICK w \in FramePoints(Tail(old.down), Len(stream)), o \in FramePoints(Tail(old.down), Len(stream)) :
           /\ FrameWalk(Tail(old.down), w, o) /\ w[0] = u[1] /\ o[0] = n[1]
           /\ w[Len(Tail(old.down))] = u[Len(old.down)] /\ o[Len(Tail(old.down))] = n[Len(old.down)]
    BY <1>2, <2>7, WalkOff
  <2> HIDE DEF u0, n0, u1, n1
  <2>9. Whole(old.held, n0) /\ u0 <= n0 /\ (~ Marks(t) => old.badge = Missed(u0, n0)) /\ old.held \in SUBSET (1 .. n0)
    BY <2>7 DEF Displays, Whole
  <2>10. u1 <= n1
    BY <2>6 DEF Moves
  <2>11. /\ Whole(new.held, n1) /\ new.repair = "none"
         /\ ~ Marks(t)' => new.badge = Missed(u1, n1)
    <3>1. CASE e.is \in {"rejected", "marker"}
      <4>1. n1 = n0 /\ (e.is = "rejected" => u1 = u0) /\ (e.is = "marker" => e.count = Missed(u1, n0))
        BY <2>6, <3>1 DEF Moves
      <4> QED BY <1>1, <1>4, <2>1, <2>9, <3>1, <4>1
    <3>2. CASE e.is \in {"new", "ack"}
      <4>1. /\ u1 = u0 /\ n1 = e.seq /\ e.seq \in {n0, n0 + 1} /\ e.seq # 0
            /\ e.is = "ack" => stream[e.seq] # "peer"
        BY <2>6, <3>2 DEF Moves
      <4>2. new.held = old.held \cup {e.seq}
        BY <1>1, <3>2
      <4>3. new.badge = IF e.is = "new" /\ Raises(old, e.seq) THEN old.badge + 1 ELSE old.badge
        BY <1>1, <3>2
      <4>4. CASE e.seq = n0
        <5>1. n0 \in old.held
          <6>1. PICK s \in old.held : TRUE
            BY <2>9, <4>1, <4>4 DEF Whole
          <6>2. s \in 1 .. n0 /\ s .. n0 \subseteq old.held
            BY <2>9 DEF Whole
          <6>3. n0 \in s .. n0
            BY <2>5, <6>2
          <6> QED BY <6>2, <6>3
        <5>2. new.held = old.held /\ new.badge = old.badge
          BY <4>2, <4>3, <4>4, <5>1 DEF Raises
        <5>3. MaxSeq(old.held) \in Nat /\ n0 <= MaxSeq(old.held)
          BY <2>5, <2>9, <5>1, NewestHeld
        <5>4. new.repair = "none"
          BY <1>1, <2>1, <2>5, <3>2, <4>4, <5>3
        <5> QED BY <1>4, <2>9, <3>2, <4>1, <4>4, <5>2, <5>4
      <4>5. CASE e.seq = n0 + 1
        <5>1. n0 + 1 \notin old.held
          <6>1. n0 + 1 \notin 1 .. n0
            BY <2>5
          <6> QED BY <2>9, <6>1
        <5>2. Whole(old.held \cup {n0 + 1}, n0 + 1)
          <6> DEFINE all == old.held \cup {n0 + 1}
          <6>1. all \subseteq 1 .. (n0 + 1) /\ all # {}
            BY <2>5, <2>9
          <6>2. ASSUME NEW s \in all, NEW x \in s .. (n0 + 1) PROVE x \in all
            <7>1. CASE x = n0 + 1
              BY <7>1
            <7>2. CASE x # n0 + 1
              <8>1. s \in 1 .. (n0 + 1) /\ x \in s .. n0 /\ s # n0 + 1
                BY <2>5, <6>1, <7>2
              <8>2. s \in old.held
                BY <8>1
              <8> QED BY <2>9, <8>1, <8>2 DEF Whole
            <7> QED BY <7>1, <7>2
          <6>3. \A s \in all : s .. (n0 + 1) \subseteq all
            BY <6>2
          <6> QED BY <6>1, <6>3 DEF Whole
        <5>3. Missed(u0, n0 + 1) = IF stream[n0 + 1] = "peer" THEN Missed(u0, n0) + 1 ELSE Missed(u0, n0)
          <6>1. u0 \in Nat /\ n0 \in Nat /\ n0 + 1 > u0
            BY <2>5, <2>9
          <6> QED BY <6>1, UnreadCounts DEF Missed
        <5>4. ~ Marks(t)' => new.badge = Missed(u1, n1)
          BY <1>4, <2>9, <3>2, <4>1, <4>3, <4>5, <5>1, <5>3 DEF Raises
        <5>5. new.repair = "none"
          <6>1. old.held # {} => ~ (n0 + 1 > MaxSeq(old.held) + 1)
            <7>1. SUFFICES ASSUME old.held # {} PROVE ~ (n0 + 1 > MaxSeq(old.held) + 1)
              OBVIOUS
            <7>2. PICK s \in old.held : TRUE
              BY <7>1
            <7>3. s \in 1 .. n0 /\ n0 \in s .. n0 /\ s .. n0 \subseteq old.held
              BY <2>5, <2>9 DEF Whole
            <7>4. MaxSeq(old.held) \in Nat /\ n0 <= MaxSeq(old.held)
              <8>1. n0 \in Nat /\ n0 \in old.held
                BY <2>5, <7>3
              <8>2. MaxSeq(old.held) \in 0 .. n0 /\ \A r \in old.held : r <= MaxSeq(old.held)
                BY <2>9, <7>1, <8>1, NewestHeld
              <8> QED BY <8>1, <8>2
            <7> QED BY <2>5, <7>4
          <6> QED BY <1>1, <2>1, <3>2, <4>5, <6>1
        <5> QED BY <4>1, <4>2, <4>5, <5>2, <5>4, <5>5
      <4> QED BY <4>1, <4>4, <4>5
    <3> QED BY <1>1, <3>1, <3>2
  <2>12. InStep(t)'
    <3>1. /\ w \in FramePoints(new.down, Len(stream)) /\ o \in FramePoints(new.down, Len(stream)) /\ FrameWalk(new.down, w, o)
          /\ Whole(new.held, o[0]) /\ w[0] <= o[0] /\ (~ Marks(t)' => new.badge = Missed(w[0], o[0]))
          /\ Arrives(w[Len(new.down)], o[Len(new.down)])
      BY <1>1, <2>7, <2>8, <2>10, <2>11 DEF u1, n1
    <3> QED BY <1>2, <3>1, InStepFrom
  <2> QED BY <1>1, <2>1, <2>11, <2>12 DEF SameBut
<1>7. Settled(t)'
  BY <1>1, <1>6 DEF Settled, SameBut
<1> QED BY <1>1, <1>2, <1>5, <1>7, BadgesOfOne

\* A step of one tab concerns what is queued for that tab only.
LEMMA WithinOfOne ==
  ASSUME OutboxTypes, WithinStream, UNCHANGED <<stream, readRow, telling, late, troubles>>, NEW t \in Tab,
         tabs' \in [Tab -> TabRows], \A q \in Tab : q # t => tabs'[q] = tabs[q],
         tabs'[t].held \subseteq 1 .. Len(stream), tabs'[t].reported <= Len(stream),
         tabs'[t].open \/ tabs'[t].up = <<>>,
         \A x \in Pending(tabs'[t].up) : Fits(x), \A x \in Pending(tabs'[t].down) : Fits(x)
  PROVE  OutboxTypes' /\ WithinStream'
<1>1. OutboxTypes'
  BY DEF OutboxTypes
<1>2. \A x : Fits(x)' <=> Fits(x)
  BY DEF Fits
<1>3. ASSUME NEW q \in Tab
      PROVE  /\ tabs'[q].held \subseteq 1 .. Len(stream) /\ tabs'[q].reported <= Len(stream)
             /\ tabs'[q].open \/ tabs'[q].up = <<>>
             /\ \A x \in Pending(tabs'[q].up) : Fits(x)
             /\ \A x \in Pending(tabs'[q].down) : Fits(x)
  BY DEF WithinStream
<1>4. WithinStream'
  BY <1>2, <1>3 DEF WithinStream, Pending
<1> QED BY <1>1, <1>4

\* Steps of the repair and of the connection that leave queues, list and bubbles alone.
LEMMA QuietTab ==
  ASSUME OutboxInv, UNCHANGED <<stream, readRow, telling, late, troubles>>, NEW t \in Tab,
         NEW new \in TabRows, tabs' = [tabs EXCEPT ![t] = new],
         new.held = tabs[t].held, new.bubble = tabs[t].bubble, new.reported = tabs[t].reported,
         new.up = tabs[t].up, new.down = tabs[t].down, new.orphaned = tabs[t].orphaned,
         tabs[t].open => new.open, Untouched(t)', Repaired(t)', Settled(t)'
  PROVE  OutboxInv'
<1>1. tabs' \in [Tab -> TabRows] /\ tabs'[t] = new /\ \A q \in Tab : q # t => tabs'[q] = tabs[q]
  BY OneTab DEF OutboxInv, OutboxTypes
<1>2. OutboxTypes' /\ WithinStream'
  <2>1. /\ tabs[t].held \subseteq 1 .. Len(stream) /\ tabs[t].reported <= Len(stream)
        /\ tabs[t].open \/ tabs[t].up = <<>>
        /\ \A x \in Pending(tabs[t].up) : Fits(x)
        /\ \A x \in Pending(tabs[t].down) : Fits(x)
    BY DEF OutboxInv, WithinStream
  <2>2. OutboxTypes /\ WithinStream
    BY DEF OutboxInv
  <2> QED BY <1>1, <2>1, <2>2, WithinOfOne
<1>3. \A q \in Tab : /\ tabs'[q].up = tabs[q].up /\ tabs'[q].down = tabs[q].down /\ tabs'[q].bubble = tabs[q].bubble
                     /\ tabs'[q].orphaned = tabs[q].orphaned /\ (tabs[q].open => tabs'[q].open)
  BY <1>1
<1>4. KeysInHand'
  <2>1. KeysInHand
    BY DEF OutboxInv
  <2>2. /\ \A k \in Key : IsStored(k)' <=> IsStored(k)
        /\ \A s, r \in DOMAIN stream' : stream'[s] = stream'[r] /\ stream'[s] \in Key => s = r
        /\ \A k \in Key : InLate(k)' => InLate(k)
    BY <2>1, OneInHand DEF KeysInHand
  <2>3. \A q \in Tab, k \in Key :
           /\ tabs'[q].bubble[k] = tabs[q].bubble[k] \/ (IsStored(k) /\ tabs'[q].bubble[k] = "sent")
           /\ InUp(q, k)' => InUp(q, k)
           /\ Refuted(q, k)' => Refuted(q, k)
    BY <1>3, OneInHand
  <2>4. \A q \in Tab : Once(tabs'[q].up, "send") /\ Once(tabs'[q].down, "rejected")
    BY <1>3, <2>1 DEF KeysInHand
  <2> QED BY <2>1, <2>2, <2>3, <2>4, KeysKept
<1>5. Awaited'
  <2>1. Awaited /\ stream' = stream /\ telling' = telling
    BY DEF OutboxInv
  <2>2. \A q \in Tab, k \in Key : tabs'[q].bubble[k] = "sending" /\ k \notin tabs'[q].orphaned =>
           \/ /\ tabs[q].bubble[k] = "sending" /\ k \notin tabs[q].orphaned
              /\ tabs[q].open => tabs'[q].open
              /\ InUp(q, k) \/ Refuted(q, k) => InUp(q, k)' \/ Refuted(q, k)'
              /\ \A x \in Pending(tabs[q].down) : Tells1(x, k) => x \in Pending(tabs'[q].down)
           \/ tabs'[q].open /\ InUp(q, k)'
    BY <1>3, OneInHand
  <2> QED BY <2>1, <2>2, AwaitedHere
<1>6. Badges'
  BY <1>1, BadgesOfOne DEF OutboxInv
<1> QED BY <1>2, <1>4, <1>5, <1>6 DEF OutboxInv

LEMMA ReopenKeeps ==
  ASSUME OutboxInv, NEW t \in Tab, Reopen(t) PROVE OutboxInv'
<1> DEFINE r == IF tabs[t].repair = "none" THEN "list" ELSE tabs[t].repair
           new == [tabs[t] EXCEPT !.open = TRUE, !.repair = r]
<1>1. tabs[t] \in TabRows /\ ~ tabs[t].open /\ UNCHANGED <<stream, readRow, telling, late, troubles>>
  BY DEF OutboxInv, OutboxTypes, Reopen
<1>2. r \in {"none", "list", "listed", "pages"}
  BY <1>1 DEF TabRows
<1>3. tabs' = [tabs EXCEPT ![t] = new]
  BY DEF Reopen
<1> HIDE DEF r
<1>4. /\ new \in TabRows /\ new.held = tabs[t].held /\ new.bubble = tabs[t].bubble
      /\ new.reported = tabs[t].reported /\ new.up = tabs[t].up /\ new.down = tabs[t].down
      /\ new.orphaned = tabs[t].orphaned /\ new.open
      /\ (new.clean <=> tabs[t].clean) /\ (new.settled <=> tabs[t].settled)
  BY <1>1, <1>2 DEF TabRows
<1> HIDE DEF new
<1>5. ~ tabs[t].clean /\ ~ tabs[t].settled
  BY <1>1 DEF OutboxInv, Badges, Untouched, Settled
<1>6. tabs'[t] = new
  BY <1>3 DEF OutboxInv, OutboxTypes
<1>7. ~ tabs'[t].clean /\ ~ tabs'[t].settled
  BY <1>4, <1>5, <1>6
<1>8. Untouched(t)' /\ Repaired(t)' /\ Settled(t)'
  BY <1>7 DEF Untouched, Repaired, Settled
<1> QED BY <1>1, <1>3, <1>4, <1>8, QuietTab

LEMMA ReadListKeeps ==
  ASSUME OutboxInv, NEW t \in Tab, ReadList(t) PROVE OutboxInv'
<1> DEFINE c == tabs[t].open /\ tabs[t].down = <<>> /\ telling = {}
           n == readRow.unread
           new == [tabs[t] EXCEPT !.repair = "listed", !.count = n, !.clean = c]
<1>1. tabs[t] \in TabRows /\ tabs[t].repair = "list" /\ UNCHANGED <<stream, readRow, telling, late, troubles>>
      /\ n \in Nat
  BY DEF OutboxInv, OutboxTypes, ReadList
<1>2. tabs' = [tabs EXCEPT ![t] = new]
  BY DEF ReadList
<1>3. c \in BOOLEAN /\ (c <=> tabs[t].open /\ tabs[t].down = <<>> /\ telling = {})
  OBVIOUS
<1>4. ~ tabs[t].settled
  BY <1>1 DEF OutboxInv, Badges, Settled
<1> HIDE DEF c, n
<1>5. /\ new \in TabRows /\ new.held = tabs[t].held /\ new.bubble = tabs[t].bubble
      /\ new.reported = tabs[t].reported /\ new.up = tabs[t].up /\ new.down = tabs[t].down
      /\ new.orphaned = tabs[t].orphaned /\ (new.open <=> tabs[t].open) /\ new.repair = "listed"
      /\ (new.clean <=> c) /\ (new.settled <=> tabs[t].settled) /\ new.count = n
  BY <1>1, <1>3 DEF TabRows
<1> HIDE DEF new
<1>6. tabs'[t] = new
  BY <1>2 DEF OutboxInv, OutboxTypes
<1>7. Untouched(t)'
  BY <1>1, <1>3, <1>5, <1>6 DEF Untouched, Pending
<1>8. Repaired(t)'
  BY <1>1, <1>5, <1>6 DEF Repaired, n
<1>9. Settled(t)'
  BY <1>4, <1>5, <1>6 DEF Settled
<1> QED BY <1>1, <1>2, <1>5, <1>7, <1>8, <1>9, QuietTab

LEMMA ApplyListKeeps ==
  ASSUME OutboxInv, NEW t \in Tab, ApplyList(t) PROVE OutboxInv'
<1>1. tabs[t] \in TabRows /\ tabs[t].repair = "listed" /\ UNCHANGED <<stream, readRow, telling, late, troubles>>
      /\ tabs \in [Tab -> TabRows] /\ ~ tabs[t].settled
  BY DEF OutboxInv, OutboxTypes, ApplyList, Badges, Settled
<1>2. CASE tabs' = [tabs EXCEPT ![t] = [tabs[t] EXCEPT !.repair = "pages", !.badge = tabs[t].count]]
  <2> DEFINE n == tabs[t].count
             new == [tabs[t] EXCEPT !.repair = "pages", !.badge = n]
  <2>1. n \in Nat
    BY <1>1 DEF TabRows
  <2>2. tabs' = [tabs EXCEPT ![t] = new]
    BY <1>2
  <2> HIDE DEF n
  <2>3. /\ new \in TabRows /\ new.held = tabs[t].held /\ new.bubble = tabs[t].bubble
        /\ new.reported = tabs[t].reported /\ new.up = tabs[t].up /\ new.down = tabs[t].down
        /\ new.orphaned = tabs[t].orphaned /\ (new.open <=> tabs[t].open) /\ new.repair = "pages"
        /\ (new.clean <=> tabs[t].clean) /\ (new.settled <=> tabs[t].settled) /\ new.badge = n
    BY <1>1, <2>1 DEF TabRows
  <2> HIDE DEF new
  <2>4. tabs'[t] = new
    BY <1>1, <2>2
  <2>5. Untouched(t)'
    BY <1>1, <2>3, <2>4 DEF OutboxInv, Badges, Untouched, Pending
  <2>6. Repaired(t)'
    BY <1>1, <2>3, <2>4 DEF OutboxInv, Badges, Repaired, n
  <2>7. Settled(t)'
    BY <1>1, <2>3, <2>4 DEF Settled
  <2> QED BY <1>1, <2>2, <2>3, <2>5, <2>6, <2>7, QuietTab
<1>3. CASE tabs' = [tabs EXCEPT ![t] = [tabs[t] EXCEPT !.repair = "pages", !.clean = FALSE]]
  <2> DEFINE new == [tabs[t] EXCEPT !.repair = "pages", !.clean = FALSE]
  <2>1. /\ new \in TabRows /\ new.held = tabs[t].held /\ new.bubble = tabs[t].bubble
        /\ new.reported = tabs[t].reported /\ new.up = tabs[t].up /\ new.down = tabs[t].down
        /\ new.orphaned = tabs[t].orphaned /\ (new.open <=> tabs[t].open)
        /\ ~ new.clean /\ (new.settled <=> tabs[t].settled)
    BY <1>1 DEF TabRows
  <2>2. tabs' = [tabs EXCEPT ![t] = new]
    BY <1>3
  <2> HIDE DEF new
  <2>3. tabs'[t] = new
    BY <1>1, <2>2
  <2>4. ~ tabs'[t].clean /\ ~ tabs'[t].settled
    BY <1>1, <2>1, <2>3
  <2>5. Untouched(t)' /\ Repaired(t)' /\ Settled(t)'
    BY <2>4 DEF Untouched, Repaired, Settled
  <2> QED BY <1>1, <2>1, <2>2, <2>5, QuietTab
<1> QED BY <1>2, <1>3 DEF ApplyList

LEMMA HandleChatEventKeeps ==
  ASSUME OutboxInv, NEW t \in Tab, HandleChatEvent(t) PROVE OutboxInv'
<1> DEFINE old == tabs[t]
           new == tabs'[t]
           e == Head(tabs[t].down)
<1>1. OutboxTypes /\ WithinStream /\ UNCHANGED <<stream, readRow, telling, late, troubles>>
      /\ old.down # <<>>
  BY DEF OutboxInv, HandleChatEvent
<1>2. /\ tabs' \in [Tab -> TabRows] /\ \A q \in Tab : q # t => tabs'[q] = tabs[q]
      /\ SameBut(new, old) /\ new.down = Tail(old.down)
      /\ e.is \in {"new", "ack"} => e.seq \in 1 .. Len(stream) /\ new.held = old.held \cup {e.seq}
                                    /\ new.reported = old.reported
      /\ e.is = "rejected" => new.held = old.held /\ new.reported = old.reported
      /\ e.is = "marker" => /\ e.upTo \in Nat /\ e.upTo <= Len(stream) /\ new.held = old.held
                            /\ new.reported = IF e.upTo > old.reported THEN e.upTo ELSE old.reported
      /\ e.is \in {"new", "ack", "rejected", "marker"}
  BY <1>1, Taken
<1>3. Pending(new.down) \subseteq Pending(old.down)
  <2>1. old.down \in Seq(Frames)
    BY <1>1 DEF OutboxTypes, TabRows
  <2> QED BY <1>1, <1>2, <2>1, QueueTail
<1>4. /\ old.held \subseteq 1 .. Len(stream) /\ old.reported <= Len(stream)
      /\ old.open \/ old.up = <<>>
      /\ \A x \in Pending(old.up) : Fits(x)
      /\ \A x \in Pending(old.down) : Fits(x)
  BY <1>1 DEF WithinStream
<1> HIDE DEF e
<1>5. new.held \subseteq 1 .. Len(stream) /\ new.reported <= Len(stream)
  BY <1>2, <1>4
<1>6. OutboxTypes' /\ WithinStream'
  BY <1>1, <1>2, <1>3, <1>4, <1>5, WithinOfOne DEF SameBut
<1> QED BY <1>1, <1>6, TakenKeys, TakenAwaited, TakenBadges DEF OutboxInv

LEMMA ApplyPagesKeeps ==
  ASSUME OutboxInv, NEW t \in Tab, ApplyPages(t) PROVE OutboxInv'
<1>1. /\ tabs[t] \in TabRows /\ tabs[t].repair = "pages" /\ UNCHANGED <<stream, readRow, telling, late, troubles>>
      /\ tabs \in [Tab -> TabRows] /\ ~ tabs[t].settled /\ Len(stream) \in Nat /\ DOMAIN stream = 1 .. Len(stream)
  BY DEF OutboxInv, OutboxTypes, ApplyPages, Badges, Settled
<1>2. CASE tabs' = [tabs EXCEPT ![t] = [tabs[t] EXCEPT !.repair = "none", !.count = 0]]
  <2> DEFINE new == [tabs[t] EXCEPT !.repair = "none", !.count = 0]
  <2>1. /\ new \in TabRows /\ new.held = tabs[t].held /\ new.bubble = tabs[t].bubble
        /\ new.reported = tabs[t].reported /\ new.up = tabs[t].up /\ new.down = tabs[t].down
        /\ new.orphaned = tabs[t].orphaned /\ (new.open <=> tabs[t].open) /\ new.repair = "none"
        /\ (new.clean <=> tabs[t].clean) /\ (new.settled <=> tabs[t].settled)
    BY <1>1 DEF TabRows
  <2>2. tabs' = [tabs EXCEPT ![t] = new]
    BY <1>2
  <2> HIDE DEF new
  <2>3. tabs'[t] = new
    BY <1>1, <2>2
  <2>4. Untouched(t)'
    BY <1>1, <2>1, <2>3 DEF OutboxInv, Badges, Untouched, Pending
  <2>5. Repaired(t)' /\ Settled(t)'
    BY <1>1, <2>1, <2>3 DEF Repaired, Settled
  <2> QED BY <1>1, <2>1, <2>2, <2>4, <2>5, QuietTab
<1>3. CASE tabs' = [tabs EXCEPT ![t] =
                     [Upsert(tabs[t], RepairStart(tabs[t].held) + 1 .. Len(stream)) EXCEPT
                        !.repair = "none", !.count = 0, !.settled = @ \/ tabs[t].clean]]
  <2> DEFINE S == RepairStart(tabs[t].held) + 1 .. Len(stream)
             up == Upsert(tabs[t], S)
             c == up.settled \/ tabs[t].clean
             new == [up EXCEPT !.repair = "none", !.count = 0, !.settled = c]
  <2>1. /\ tabs[t].held \in SUBSET (1 .. Len(stream)) /\ tabs[t].reported <= Len(stream)
        /\ tabs[t].open \/ tabs[t].up = <<>>
        /\ \A x \in Pending(tabs[t].up) : Fits(x)
        /\ \A x \in Pending(tabs[t].down) : Fits(x)
    BY DEF OutboxInv, WithinStream
  <2>2. RepairStart(tabs[t].held) \in 0 .. Len(stream) /\ Whole(tabs[t].held \cup S, Len(stream))
    BY <1>1, <2>1, RepairFills
  <2>3. S \in SUBSET Nat /\ S \subseteq 1 .. Len(stream)
    BY <1>1, <2>2
  <2>4. tabs' = [tabs EXCEPT ![t] = new]
    BY <1>3
  <2> HIDE DEF S
  <2>5. /\ up \in TabRows /\ up.held = tabs[t].held \cup S
        /\ \A k \in Key : up.bubble[k] = IF k \in Shows(S) THEN "sent" ELSE tabs[t].bubble[k]
        /\ SameBut(up, tabs[t]) /\ up.down = tabs[t].down
        /\ up.badge = tabs[t].badge /\ up.reported = tabs[t].reported
    BY <1>1, <2>3, UpsertShows
  <2>6. c \in BOOLEAN /\ (c <=> tabs[t].clean)
    BY <1>1, <2>5 DEF TabRows, SameBut
  <2> HIDE DEF up, c
  <2>7. /\ new \in TabRows /\ new.held = up.held /\ new.bubble = up.bubble
        /\ new.reported = up.reported /\ new.up = up.up /\ new.down = up.down /\ new.badge = up.badge
        /\ new.orphaned = up.orphaned /\ (new.open <=> up.open) /\ new.repair = "none"
        /\ (new.clean <=> up.clean) /\ (new.settled <=> c)
    BY <2>5, <2>6 DEF TabRows
  <2> HIDE DEF new
  <2>8. tabs' \in [Tab -> TabRows] /\ tabs'[t] = new /\ \A q \in Tab : q # t => tabs'[q] = tabs[q]
    BY <1>1, <2>4, <2>7, OneTab
  <2>9. /\ new.held = tabs[t].held \cup S /\ new.up = tabs[t].up /\ new.down = tabs[t].down
        /\ new.badge = tabs[t].badge /\ new.reported = tabs[t].reported /\ new.orphaned = tabs[t].orphaned
        /\ (new.open <=> tabs[t].open) /\ (new.clean <=> tabs[t].clean)
        /\ \A k \in Key : new.bubble[k] = IF k \in Shows(S) THEN "sent" ELSE tabs[t].bubble[k]
    BY <1>1, <2>5, <2>7 DEF SameBut, TabRows
  <2>10. OutboxTypes' /\ WithinStream'
    BY <1>1, <2>1, <2>3, <2>8, <2>9, WithinOfOne DEF OutboxInv
  <2>11. \A k \in Shows(S) : IsStored(k)
    BY <1>1, <2>3 DEF Shows, IsStored
  <2>12. \A q \in Tab : tabs'[q].up = tabs[q].up /\ tabs'[q].down = tabs[q].down
                        /\ tabs'[q].orphaned = tabs[q].orphaned /\ (tabs[q].open => tabs'[q].open)
    BY <2>8, <2>9
  <2>13. \A q \in Tab, k \in Key :
           \/ tabs'[q].bubble[k] = tabs[q].bubble[k]
           \/ IsStored(k) /\ tabs'[q].bubble[k] = "sent"
    BY <2>8, <2>9, <2>11
  <2>14. KeysInHand'
    <3>1. KeysInHand
      BY DEF OutboxInv
    <3>2. /\ \A k \in Key : IsStored(k)' <=> IsStored(k)
          /\ \A s, r \in DOMAIN stream' : stream'[s] = stream'[r] /\ stream'[s] \in Key => s = r
          /\ \A k \in Key : InLate(k)' => InLate(k)
      BY <1>1, <3>1, OneInHand DEF KeysInHand
    <3>3. \A q \in Tab, k \in Key : (InUp(q, k)' => InUp(q, k)) /\ (Refuted(q, k)' => Refuted(q, k))
      BY <2>12, OneInHand
    <3>4. \A q \in Tab : Once(tabs'[q].up, "send") /\ Once(tabs'[q].down, "rejected")
      BY <2>12, <3>1 DEF KeysInHand
    <3> QED BY <2>13, <3>1, <3>2, <3>3, <3>4, KeysKept
  <2>15. Awaited'
    <3>1. Awaited /\ stream' = stream /\ telling' = telling
      BY <1>1 DEF OutboxInv
    <3>2. \A q \in Tab, k \in Key : tabs'[q].bubble[k] = "sending" /\ k \notin tabs'[q].orphaned =>
           \/ /\ tabs[q].bubble[k] = "sending" /\ k \notin tabs[q].orphaned
              /\ tabs[q].open => tabs'[q].open
              /\ InUp(q, k) \/ Refuted(q, k) => InUp(q, k)' \/ Refuted(q, k)'
              /\ \A x \in Pending(tabs[q].down) : Tells1(x, k) => x \in Pending(tabs'[q].down)
           \/ tabs'[q].open /\ InUp(q, k)'
      BY <2>12, <2>13, OneInHand
    <3> QED BY <3>1, <3>2, AwaitedHere
  <2>16. Untouched(t)'
    BY <1>1, <2>8, <2>9 DEF OutboxInv, Badges, Untouched, Pending
  <2>17. Repaired(t)'
    BY <2>7, <2>8 DEF Repaired
  <2>18. ASSUME tabs[t].clean PROVE InStep(t)'
    <3> DEFINE down == tabs[t].down
               top == Len(stream)
               far == readRow.upTo
               w == [i \in 0 .. Len(down) |-> far]
               o == [i \in 0 .. Len(down) |-> top]
    <3>1. telling = {} /\ \A x \in Pending(down) : x.is = "rejected"
      BY <2>18 DEF OutboxInv, Badges, Untouched
    <3>2. far \in 0 .. top /\ top \in 0 .. top /\ down \in Seq(Frames) /\ Len(down) \in Nat
      BY <1>1 DEF OutboxInv, OutboxTypes, WithinStream, TabRows
    <3>3. Marks(t)' <=> Marks(t)
      BY <1>1, <2>8, <2>9 DEF Marks, Pending
    <3>4. ~ Marks(t) => tabs[t].badge = Missed(far, top)
      BY <1>1, <2>18 DEF OutboxInv, Badges, Repaired
    <3> HIDE DEF top, far
    <3>5. w \in FramePoints(down, top) /\ o \in FramePoints(down, top)
      BY <3>2 DEF FramePoints
    <3>6. \A i \in 0 .. Len(down) : w[i] = far /\ o[i] = top
      OBVIOUS
    <3> HIDE DEF w, o
    <3>7. ASSUME NEW i \in 1 .. Len(down) PROVE Moves(down[i], w[i - 1], o[i - 1], w[i], o[i])
      <4>1. i - 1 \in 0 .. Len(down) /\ i \in 0 .. Len(down)
        BY <3>2
      <4>2. down[i].is = "rejected"
        BY <3>1, <3>2 DEF Pending
      <4>3. w[i - 1] = far /\ o[i - 1] = top /\ w[i] = far /\ o[i] = top /\ far <= top
        BY <3>2, <3>6, <4>1
      <4> QED BY <4>2, <4>3 DEF Moves
    <3>8. FrameWalk(down, w, o)
      BY <3>7 DEF FrameWalk
    <3>9. 0 \in 0 .. Len(down) /\ Len(down) \in 0 .. Len(down)
      BY <3>2
    <3>10. w[0] = far /\ o[0] = top /\ w[Len(down)] = far /\ o[Len(down)] = top /\ far <= top
      BY <3>2, <3>6, <3>9
    <3>11. /\ tabs'[t].down = down /\ Whole(tabs'[t].held, o[0]) /\ w[0] <= o[0]
           /\ (~ Marks(t)' => tabs'[t].badge = Missed(w[0], o[0]))
           /\ telling' = {}
      BY <1>1, <2>2, <2>8, <2>9, <3>1, <3>3, <3>4, <3>10 DEF top
    <3> HIDE DEF down
    <3> QED
      BY <1>1, <2>10, <3>5, <3>8, <3>10, <3>11, InStepFrom DEF top, far, OutboxInv
  <2>19. Settled(t)'
    <3>1. tabs'[t].settled => tabs[t].clean
      BY <2>6, <2>7, <2>8
    <3>2. tabs[t].clean => tabs[t].open
      BY DEF OutboxInv, Badges, Untouched
    <3> QED BY <2>7, <2>8, <2>9, <2>18, <3>1, <3>2 DEF Settled
  <2>20. Badges'
    BY <1>1, <2>8, <2>16, <2>17, <2>19, BadgesOfOne DEF OutboxInv
  <2> QED BY <2>10, <2>14, <2>15, <2>20 DEF OutboxInv
<1> QED BY <1>2, <1>3 DEF ApplyPages

\* A key is put on its way, or shown as failed at once.
LEMMA DispatchedRow ==
  ASSUME NEW mine \in TabRows, NEW k \in Key
  PROVE  LET new == Dispatched(mine, k)  b == IF mine.open THEN "sending" ELSE "failed" IN
         /\ new \in TabRows /\ \A x \in Key : new.bubble[x] = IF x = k THEN b ELSE mine.bubble[x]
         /\ new.up = IF mine.open THEN Append(mine.up, Send(k)) ELSE mine.up
         /\ new.held = mine.held /\ new.badge = mine.badge /\ new.reported = mine.reported
         /\ new.down = mine.down /\ new.repair = mine.repair /\ new.count = mine.count
         /\ new.orphaned = mine.orphaned /\ (new.open <=> mine.open)
         /\ (new.clean <=> mine.clean) /\ (new.settled <=> mine.settled)
<1>1. CASE mine.open
  <2> DEFINE b == [mine.bubble EXCEPT ![k] = "sending"]
             u == Append(mine.up, Send(k))
             new == [mine EXCEPT !.bubble = b, !.up = u]
  <2>1. b \in [Key -> Bubbles] /\ \A x \in Key : b[x] = IF x = k THEN "sending" ELSE mine.bubble[x]
    BY DEF TabRows, Bubbles
  <2>2. u \in Seq(TabAsks)
    BY AsksAndFrames DEF TabRows
  <2>3. Dispatched(mine, k) = new
    BY <1>1 DEF Dispatched
  <2> HIDE DEF b, u
  <2>4. /\ new \in TabRows /\ new.bubble = b /\ new.up = u
        /\ new.held = mine.held /\ new.badge = mine.badge /\ new.reported = mine.reported
        /\ new.down = mine.down /\ new.repair = mine.repair /\ new.count = mine.count
        /\ new.orphaned = mine.orphaned /\ (new.open <=> mine.open)
        /\ (new.clean <=> mine.clean) /\ (new.settled <=> mine.settled)
    BY <2>1, <2>2 DEF TabRows
  <2> HIDE DEF new
  <2> QED BY <1>1, <2>1, <2>3, <2>4 DEF u
<1>2. CASE ~ mine.open
  <2> DEFINE b == [mine.bubble EXCEPT ![k] = "failed"]
             new == [mine EXCEPT !.bubble = b]
  <2>1. b \in [Key -> Bubbles] /\ \A x \in Key : b[x] = IF x = k THEN "failed" ELSE mine.bubble[x]
    BY DEF TabRows, Bubbles
  <2>2. Dispatched(mine, k) = new
    BY <1>2 DEF Dispatched
  <2> HIDE DEF b
  <2>3. /\ new \in TabRows /\ new.bubble = b /\ new.up = mine.up
        /\ new.held = mine.held /\ new.badge = mine.badge /\ new.reported = mine.reported
        /\ new.down = mine.down /\ new.repair = mine.repair /\ new.count = mine.count
        /\ new.orphaned = mine.orphaned /\ (new.open <=> mine.open)
        /\ (new.clean <=> mine.clean) /\ (new.settled <=> mine.settled)
    BY <2>1 DEF TabRows
  <2> HIDE DEF new
  <2> QED BY <1>2, <2>1, <2>2, <2>3
<1> QED BY <1>1, <1>2

LEMMA DispatchKeeps ==
  ASSUME OutboxInv, NEW t \in Tab, NEW k \in Key, Dispatch(t, k),
         UNCHANGED <<stream, readRow, telling, late, troubles>>,
         \A q \in Tab : q # t => ~ Mine(q, k), ~ InUp(t, k), ~ Refuted(t, k), ~ InLate(k)
  PROVE  OutboxInv'
<1> DEFINE old == tabs[t]
           new == Dispatched(tabs[t], k)
           b == IF tabs[t].open THEN "sending" ELSE "failed"
<1>1. old \in TabRows /\ tabs \in [Tab -> TabRows] /\ tabs' = [tabs EXCEPT ![t] = new] /\ old.up \in Seq(TabAsks)
  BY DEF OutboxInv, OutboxTypes, TabRows, Dispatch
<1>2. /\ new \in TabRows /\ \A x \in Key : new.bubble[x] = IF x = k THEN b ELSE old.bubble[x]
      /\ new.up = IF old.open THEN Append(old.up, Send(k)) ELSE old.up
      /\ new.held = old.held /\ new.badge = old.badge /\ new.reported = old.reported
      /\ new.down = old.down /\ new.repair = old.repair /\ new.count = old.count
      /\ new.orphaned = old.orphaned /\ (new.open <=> old.open)
      /\ (new.clean <=> old.clean) /\ (new.settled <=> old.settled)
  BY <1>1, DispatchedRow
<1>3. b = (IF old.open THEN "sending" ELSE "failed")
  OBVIOUS
<1> HIDE DEF new, b
<1>4. tabs' \in [Tab -> TabRows] /\ tabs'[t] = new /\ \A q \in Tab : q # t => tabs'[q] = tabs[q]
  BY <1>1, <1>2, OneTab
<1>5. /\ Send(k) \in TabAsks /\ Send(k).is = "send" /\ Fits(Send(k))
      /\ \A x \in Key : Send(x) = Send(k) => x = k
  BY AsksAndFrames DEF Fits
<1>6. Pending(new.up) = IF old.open THEN Pending(old.up) \cup {Send(k)} ELSE Pending(old.up)
  <2>1. Pending(Append(old.up, Send(k))) = Pending(old.up) \cup {Send(k)}
    BY <1>1, <1>5, QueueAppend
  <2> QED BY <1>2, <2>1
<1>7. OutboxTypes' /\ WithinStream'
  <2>1. /\ old.held \subseteq 1 .. Len(stream) /\ old.reported <= Len(stream)
        /\ old.open \/ old.up = <<>>
        /\ \A x \in Pending(old.up) : Fits(x)
        /\ \A x \in Pending(old.down) : Fits(x)
    BY DEF OutboxInv, WithinStream
  <2>2. /\ new.open \/ new.up = <<>>
        /\ \A x \in Pending(new.up) : Fits(x)
    BY <1>2, <1>5, <1>6, <2>1
  <2> QED BY <1>2, <1>4, <2>1, <2>2, WithinOfOne DEF OutboxInv
<1>8. OneAttempt(k) /\ KeysInHand
  BY DEF OutboxInv, KeysInHand
<1>9. \A q \in Tab : ~ InUp(q, k) /\ ~ Refuted(q, k)
  BY DEF Mine
<1>10. \A q \in Tab, x \in Key : /\ (InUp(q, x)' <=> InUp(q, x) \/ (q = t /\ x = k /\ old.open))
                                 /\ (Refuted(q, x)' <=> Refuted(q, x))
  <2>1. ASSUME NEW q \in Tab, NEW x \in Key, q # t
        PROVE  (InUp(q, x)' <=> InUp(q, x)) /\ (Refuted(q, x)' <=> Refuted(q, x))
    BY <1>4, <2>1, OneInHand
  <2>2. ASSUME NEW x \in Key
        PROVE  (InUp(t, x)' <=> InUp(t, x) \/ (x = k /\ old.open)) /\ (Refuted(t, x)' <=> Refuted(t, x))
    <3>1. InUp(t, x)' <=> Send(x) \in Pending(new.up)
      BY <1>4, OneInHand
    <3>2. Refuted(t, x)' <=> Refuted(t, x)
      BY <1>2, <1>4, OneInHand
    <3>3. InUp(t, x) <=> Send(x) \in Pending(old.up)
      BY OneInHand
    <3> QED BY <1>5, <1>6, <3>1, <3>2, <3>3
  <2> QED BY <2>1, <2>2
<1>11. /\ \A x \in Key : (IsStored(x)' <=> IsStored(x)) /\ (InLate(x)' <=> InLate(x))
       /\ \A s, r \in DOMAIN stream' : stream'[s] = stream'[r] /\ stream'[s] \in Key => s = r
  BY <1>8, OneInHand DEF KeysInHand
<1>12. \A q \in Tab, x \in Key : tabs'[q].bubble[x] = IF q = t /\ x = k THEN b ELSE tabs[q].bubble[x]
  BY <1>2, <1>4
<1>13. \A q \in Tab : Once(tabs'[q].up, "send") /\ Once(tabs'[q].down, "rejected")
  <2>1. Once(new.up, "send") /\ Once(new.down, "rejected")
    <3>1. Once(old.up, "send") /\ Once(old.down, "rejected")
      BY <1>8 DEF KeysInHand
    <3>2. Send(k) \notin Pending(old.up)
      BY <1>9, OneInHand
    <3>3. Once(Append(old.up, Send(k)), "send")
      BY <1>1, <1>5, <3>1, <3>2, QueueOnce
    <3> QED BY <1>2, <3>1, <3>3
  <2> QED BY <1>4, <1>8, <2>1 DEF KeysInHand
<1>14. OneAttempt(k)'
  <2>1. \A q \in Tab : ~ Refuted(q, k)' /\ (InUp(q, k)' <=> q = t /\ old.open)
                       /\ tabs'[q].bubble[k] = IF q = t THEN b ELSE tabs[q].bubble[k]
    BY <1>9, <1>10, <1>12
  <2>2. (IsStored(k)' <=> IsStored(k)) /\ ~ InLate(k)'
    BY <1>11
  <2>3. Attempted(k)'
    BY <1>3, <2>1 DEF Attempted
  <2>4. Traced(k)'
    BY <1>3, <2>1 DEF Traced
  <2>5. Owned(k)'
    <3>1. \A q \in Tab : Mine(q, k)' => q = t
      BY <2>1 DEF Mine
    <3> QED BY <3>1 DEF Owned
  <2>6. Exclusive(k)'
    BY <1>3, <1>8, <2>1, <2>2 DEF OneAttempt, Exclusive
  <2> QED BY <2>3, <2>4, <2>5, <2>6 DEF OneAttempt
<1>15. KeysInHand'
  <2>1. ASSUME NEW x \in Key, x # k PROVE OneAttempt(x)'
    BY <1>8, <1>10, <1>11, <1>12, <2>1, OneKept DEF KeysInHand
  <2> QED BY <1>11, <1>13, <1>14, <2>1 DEF KeysInHand
<1>16. Awaited'
  <2>1. ASSUME NEW q \in Tab, NEW x \in Key, tabs'[q].bubble[x] = "sending", x \notin tabs'[q].orphaned
        PROVE  \/ /\ tabs[q].bubble[x] = "sending" /\ x \notin tabs[q].orphaned
                  /\ tabs[q].open => tabs'[q].open
                  /\ InUp(q, x) \/ Refuted(q, x) => InUp(q, x)' \/ Refuted(q, x)'
                  /\ \A y \in Pending(tabs[q].down) : Tells1(y, x) => y \in Pending(tabs'[q].down)
               \/ tabs'[q].open /\ InUp(q, x)'
    <3>1. CASE q = t /\ x = k
      <4>1. old.open
        BY <1>3, <1>12, <2>1, <3>1
      <4> QED BY <1>2, <1>4, <1>10, <3>1, <4>1
    <3>2. CASE ~ (q = t /\ x = k)
      <4>1. tabs[q].bubble[x] = "sending"
        BY <1>12, <2>1, <3>2
      <4>2. tabs'[q].down = tabs[q].down /\ tabs'[q].orphaned = tabs[q].orphaned /\ (tabs[q].open => tabs'[q].open)
        BY <1>2, <1>4
      <4> QED BY <1>10, <2>1, <4>1, <4>2
    <3> QED BY <3>1, <3>2
  <2> QED BY <2>1, AwaitedHere DEF OutboxInv
<1>17. Marks(t)' <=> Marks(t)
  BY <1>2, <1>4, <1>5, <1>6, MarksNext DEF Marks
<1>18. Untouched(t)' /\ Repaired(t)'
  <2>1. Untouched(t)'
    BY <1>2, <1>4 DEF OutboxInv, Badges, Untouched, Pending
  <2>2. Repaired(t)'
    BY <1>2, <1>4, <1>17 DEF OutboxInv, Badges, Repaired
  <2> QED BY <2>1, <2>2
<1>19. Settled(t)'
  <2>1. InStep(t) => InStep(t)'
    BY <1>2, <1>4, <1>17, InStepKept DEF OutboxInv
  <2> QED BY <1>2, <1>4, <2>1 DEF OutboxInv, Badges, Settled
<1>20. Badges'
  BY <1>4, <1>18, <1>19, BadgesOfOne DEF OutboxInv
<1> QED BY <1>7, <1>15, <1>16, <1>20 DEF OutboxInv

LEMMA SendMessageKeeps ==
  ASSUME OutboxInv, NEW t \in Tab, NEW k \in Key, SendMessage(t, k) PROVE OutboxInv'
<1>1. (\A q \in Tab : tabs[q].bubble[k] = "none") /\ OneAttempt(k)
  BY DEF SendMessage, OutboxInv, KeysInHand
<1>2. ~ InLate(k) /\ \A q \in Tab : ~ InUp(q, k) /\ ~ Refuted(q, k)
  BY <1>1 DEF OneAttempt, Attempted, Traced
<1>3. \A q \in Tab : ~ Mine(q, k)
  BY <1>1, <1>2 DEF Mine
<1> QED BY <1>2, <1>3, DispatchKeeps DEF SendMessage

LEMMA RetryKeeps ==
  ASSUME OutboxInv, NEW t \in Tab, NEW k \in Key, Retry(t, k) PROVE OutboxInv'
<1>1. tabs[t].bubble[k] = "failed" /\ OneAttempt(k)
  BY DEF Retry, OutboxInv, KeysInHand
<1>2. ~ InLate(k) /\ ~ InUp(t, k) /\ ~ Refuted(t, k)
  BY <1>1 DEF OneAttempt, Attempted, Exclusive
<1>3. \A q \in Tab : q # t => ~ Mine(q, k)
  BY <1>1 DEF OneAttempt, Owned, Mine
<1> QED BY <1>2, <1>3, DispatchKeeps DEF Retry

\* A read is reported.
LEMMA MarkConversationReadKeeps ==
  ASSUME OutboxInv, NEW t \in Tab, MarkConversationRead(t) PROVE OutboxInv'
<1> DEFINE old == tabs[t]
           latest == MaxSeq(tabs[t].held)
           m == [is |-> "mark", upTo |-> latest]
           u == Append(tabs[t].up, m)
           new == [tabs[t] EXCEPT !.up = u, !.reported = latest, !.badge = 0]
<1>1. /\ old \in TabRows /\ tabs \in [Tab -> TabRows] /\ old.up \in Seq(TabAsks) /\ old.open
      /\ UNCHANGED <<stream, readRow, telling, late, troubles>> /\ Len(stream) \in Nat
  BY DEF OutboxInv, OutboxTypes, TabRows, MarkConversationRead
<1>2. tabs' = [tabs EXCEPT ![t] = new]
  BY DEF MarkConversationRead
<1>3. latest \in 0 .. Len(stream)
  BY <1>1, NewestHeld DEF OutboxInv, WithinStream
<1> HIDE DEF latest
<1>4. m \in TabAsks /\ m.is = "mark" /\ m.upTo = latest /\ latest \in Nat
  BY <1>3 DEF TabAsks
<1> HIDE DEF m
<1>5. u \in Seq(TabAsks) /\ Pending(u) = Pending(old.up) \cup {m}
  BY <1>1, <1>4, QueueAppend
<1>6. Once(u, "send")
  BY <1>1, <1>4, QueueOnce DEF OutboxInv, KeysInHand
<1> HIDE DEF u
<1>7. /\ new \in TabRows /\ new.bubble = old.bubble /\ new.up = u
      /\ new.held = old.held /\ new.reported = latest
      /\ new.down = old.down /\ new.repair = old.repair /\ new.count = old.count
      /\ new.orphaned = old.orphaned /\ (new.open <=> old.open)
      /\ (new.clean <=> old.clean) /\ (new.settled <=> old.settled)
  BY <1>1, <1>4, <1>5 DEF TabRows
<1> HIDE DEF new
<1>8. tabs' \in [Tab -> TabRows] /\ tabs'[t] = new /\ \A q \in Tab : q # t => tabs'[q] = tabs[q]
  BY <1>1, <1>2, <1>7, OneTab
<1>9. OutboxTypes' /\ WithinStream'
  <2>1. /\ old.held \subseteq 1 .. Len(stream)
        /\ \A x \in Pending(old.up) : Fits(x)
        /\ \A x \in Pending(old.down) : Fits(x)
    BY DEF OutboxInv, WithinStream
  <2>2. Fits(m)
    BY <1>1, <1>3, <1>4 DEF Fits
  <2>3. latest <= Len(stream) /\ \A x \in Pending(new.up) : Fits(x)
    BY <1>3, <1>5, <1>7, <2>1, <2>2
  <2> QED BY <1>1, <1>7, <1>8, <2>1, <2>3, WithinOfOne DEF OutboxInv
<1>10. \A q \in Tab : /\ tabs'[q].bubble = tabs[q].bubble /\ tabs'[q].down = tabs[q].down
                      /\ tabs'[q].orphaned = tabs[q].orphaned /\ (tabs[q].open => tabs'[q].open)
  BY <1>7, <1>8
<1>11. \A q \in Tab, k \in Key : (InUp(q, k)' <=> InUp(q, k)) /\ (Refuted(q, k)' <=> Refuted(q, k))
  <2>1. \A k \in Key : Send(k) # m
    BY <1>4, AsksAndFrames
  <2>2. \A q \in Tab, k \in Key : Send(k) \in Pending(tabs'[q].up) <=> Send(k) \in Pending(tabs[q].up)
    BY <1>5, <1>7, <1>8, <2>1
  <2> QED BY <1>10, <2>2, OneInHand
<1>12. KeysInHand'
  <2>1. KeysInHand
    BY DEF OutboxInv
  <2>2. /\ \A k \in Key : IsStored(k)' <=> IsStored(k)
        /\ \A s, r \in DOMAIN stream' : stream'[s] = stream'[r] /\ stream'[s] \in Key => s = r
        /\ \A k \in Key : InLate(k)' => InLate(k)
    BY <1>1, <2>1, OneInHand DEF KeysInHand
  <2>3. \A q \in Tab : Once(tabs'[q].up, "send") /\ Once(tabs'[q].down, "rejected")
    BY <1>6, <1>7, <1>8, <2>1 DEF KeysInHand
  <2> QED BY <1>10, <1>11, <2>1, <2>2, <2>3, KeysKept
<1>13. Awaited'
  <2>1. \A q \in Tab, x \in Key : tabs'[q].bubble[x] = "sending" /\ x \notin tabs'[q].orphaned =>
               \/ /\ tabs[q].bubble[x] = "sending" /\ x \notin tabs[q].orphaned
                  /\ tabs[q].open => tabs'[q].open
                  /\ InUp(q, x) \/ Refuted(q, x) => InUp(q, x)' \/ Refuted(q, x)'
                  /\ \A y \in Pending(tabs[q].down) : Tells1(y, x) => y \in Pending(tabs'[q].down)
               \/ tabs'[q].open /\ InUp(q, x)'
    BY <1>10, <1>11
  <2> QED BY <1>1, <2>1, AwaitedHere DEF OutboxInv
<1>14. Marks(t)'
  BY <1>4, <1>5, <1>7, <1>8, MarksNext
<1>15. Untouched(t)'
  BY <1>1, <1>7, <1>8 DEF OutboxInv, Badges, Untouched, Pending
<1>16. Repaired(t)'
  BY <1>1, <1>7, <1>8, <1>14 DEF OutboxInv, Badges, Repaired
<1>17. Settled(t)'
  <2>1. InStep(t) => InStep(t)'
    BY <1>1, <1>7, <1>8, <1>14, InStepKept DEF OutboxInv
  <2> QED BY <1>7, <1>8, <2>1 DEF OutboxInv, Badges, Settled
<1>18. Badges'
  BY <1>1, <1>8, <1>15, <1>16, <1>17, BadgesOfOne DEF OutboxInv
<1> QED BY <1>9, <1>12, <1>13, <1>18 DEF OutboxInv

\* A send is refused.
LEMMA RefusedKeeps ==
  ASSUME OutboxInv, NEW t \in Tab, NEW k \in Key, tabs[t].up # <<>>, Head(tabs[t].up) = Send(k),
         tabs' = [tabs EXCEPT ![t] = Replied(tabs[t], Refusal(k))],
         UNCHANGED <<stream, readRow, telling, late, troubles>>
  PROVE  OutboxInv'
<1> DEFINE old == tabs[t]
           u == Tail(tabs[t].up)
           d == Append(tabs[t].down, Refusal(k))
           new == [tabs[t] EXCEPT !.up = u, !.down = d]
<1>1. /\ old \in TabRows /\ tabs \in [Tab -> TabRows] /\ old.up \in Seq(TabAsks) /\ old.down \in Seq(Frames)
      /\ Len(stream) \in Nat
  BY DEF OutboxInv, OutboxTypes, TabRows
<1>2. tabs' = [tabs EXCEPT ![t] = new]
  BY DEF Replied
<1>3. KeysInHand /\ OneAttempt(k) /\ Once(old.up, "send") /\ Once(old.down, "rejected")
  BY DEF OutboxInv, KeysInHand
<1>4. /\ Send(k) \in TabAsks /\ Send(k).is = "send" /\ Refusal(k) \in Frames /\ Refusal(k).is = "rejected"
      /\ \A x \in Key : (Send(x) = Send(k) => x = k) /\ (Refusal(x) = Refusal(k) => x = k)
  BY AsksAndFrames
<1>5. /\ u \in Seq(TabAsks) /\ Pending(old.up) = Pending(u) \cup {Send(k)} /\ Send(k) \in Pending(old.up)
      /\ Once(u, "send") /\ Send(k) \notin Pending(u)
  BY <1>1, <1>3, <1>4, QueueTail, QueueOnce
<1>6. InUp(t, k) /\ ~ Refuted(t, k)
  BY <1>3, <1>5, OneInHand DEF OneAttempt, Exclusive
<1>7. d \in Seq(Frames) /\ Pending(d) = Pending(old.down) \cup {Refusal(k)} /\ Len(d) = Len(old.down) + 1
  BY <1>1, <1>4, QueueAppend
<1>8. Once(d, "rejected")
  BY <1>1, <1>3, <1>4, <1>6, QueueOnce, OneInHand
<1> HIDE DEF u, d
<1>9. /\ new \in TabRows /\ new.bubble = old.bubble /\ new.up = u /\ new.down = d
      /\ new.held = old.held /\ new.reported = old.reported /\ new.badge = old.badge
      /\ new.repair = old.repair /\ new.count = old.count
      /\ new.orphaned = old.orphaned /\ (new.open <=> old.open)
      /\ (new.clean <=> old.clean) /\ (new.settled <=> old.settled)
  BY <1>1, <1>5, <1>7 DEF TabRows
<1> HIDE DEF new
<1>10. tabs' \in [Tab -> TabRows] /\ tabs'[t] = new /\ \A q \in Tab : q # t => tabs'[q] = tabs[q]
  BY <1>1, <1>2, <1>9, OneTab
<1>11. OutboxTypes' /\ WithinStream'
  <2>1. /\ old.held \subseteq 1 .. Len(stream) /\ old.reported <= Len(stream) /\ (old.open \/ old.up = <<>>)
        /\ \A x \in Pending(old.up) : Fits(x)
        /\ \A x \in Pending(old.down) : Fits(x)
    BY DEF OutboxInv, WithinStream
  <2>2. Fits(Refusal(k)) /\ old.up # <<>>
    BY <1>4 DEF Fits
  <2>3. (\A x \in Pending(new.up) : Fits(x)) /\ (\A x \in Pending(new.down) : Fits(x)) /\ new.open
    BY <1>5, <1>7, <1>9, <2>1, <2>2
  <2> QED BY <1>1, <1>9, <1>10, <2>1, <2>3, WithinOfOne DEF OutboxInv
<1>12. \A q \in Tab : /\ tabs'[q].bubble = tabs[q].bubble
                      /\ tabs'[q].orphaned = tabs[q].orphaned /\ (tabs[q].open => tabs'[q].open)
                      /\ Pending(tabs[q].down) \subseteq Pending(tabs'[q].down)
  BY <1>7, <1>9, <1>10
<1>13. \A q \in Tab, x \in Key : /\ InUp(q, x)' <=> InUp(q, x) /\ ~ (q = t /\ x = k)
                                 /\ Refuted(q, x)' <=> Refuted(q, x) \/ (q = t /\ x = k)
  <2>1. \A q \in Tab, x \in Key :
          /\ Send(x) \in Pending(tabs'[q].up) <=> Send(x) \in Pending(tabs[q].up) /\ ~ (q = t /\ x = k)
          /\ Refusal(x) \in Pending(tabs'[q].down) <=> Refusal(x) \in Pending(tabs[q].down) \/ (q = t /\ x = k)
    BY <1>4, <1>5, <1>7, <1>9, <1>10
  <2> QED BY <2>1, OneInHand
<1>14. /\ \A x \in Key : (IsStored(x)' <=> IsStored(x)) /\ (InLate(x)' <=> InLate(x))
       /\ \A s, r \in DOMAIN stream' : stream'[s] = stream'[r] /\ stream'[s] \in Key => s = r
  BY <1>3, OneInHand DEF KeysInHand
<1>15. ASSUME NEW x \in Key PROVE OneAttempt(x)'
  <2>1. OneAttempt(x)
    BY <1>3 DEF KeysInHand
  <2>2. \A q \in Tab : Refuted(q, x)' => Refuted(q, x) \/ (InUp(q, x) /\ ~ InUp(q, x)')
    BY <1>6, <1>13
  <2> QED BY <1>12, <1>13, <1>14, <2>1, <2>2, OneKept
<1>16. KeysInHand'
  <2>2. \A q \in Tab : Once(tabs'[q].up, "send") /\ Once(tabs'[q].down, "rejected")
    BY <1>3, <1>5, <1>8, <1>9, <1>10 DEF KeysInHand
  <2> QED BY <1>14, <1>15, <2>2 DEF KeysInHand
<1>17. Awaited'
  <2>1. \A q \in Tab, x \in Key : tabs'[q].bubble[x] = "sending" /\ x \notin tabs'[q].orphaned =>
               \/ /\ tabs[q].bubble[x] = "sending" /\ x \notin tabs[q].orphaned
                  /\ tabs[q].open => tabs'[q].open
                  /\ InUp(q, x) \/ Refuted(q, x) => InUp(q, x)' \/ Refuted(q, x)'
                  /\ \A y \in Pending(tabs[q].down) : Tells1(y, x) => y \in Pending(tabs'[q].down)
               \/ tabs'[q].open /\ InUp(q, x)'
    BY <1>12, <1>13
  <2> QED BY <2>1, AwaitedHere DEF OutboxInv
<1>18. Marks(t)' <=> Marks(t)
  <2>1. \A x \in Pending(old.up) : x.is = "mark" => x \in Pending(u)
    BY <1>4, <1>5
  <2>2. \A x \in Pending(d) : x.is = "marker" => x \in Pending(old.down)
    BY <1>4, <1>7
  <2> QED BY <1>5, <1>7, <1>9, <1>10, <2>1, <2>2, MarksNext DEF Marks
<1>19. Untouched(t)'
  <2>1. (\A x \in Pending(tabs[t].down) : x.is = "rejected")' <=> \A x \in Pending(d) : x.is = "rejected"
    BY <1>9, <1>10 DEF Pending
  <2> QED BY <1>4, <1>7, <1>9, <1>10, <2>1 DEF OutboxInv, Badges, Untouched
<1>20. Repaired(t)'
  BY <1>9, <1>10, <1>18 DEF OutboxInv, Badges, Repaired
<1>21. ASSUME InStep(t) PROVE InStep(t)'
  <2> DEFINE l == Len(old.down)
             top == Len(stream)
  <2>1. PICK v \in FramePoints(old.down, top), n \in FramePoints(old.down, top) : Path(t, v, n)
    BY <1>21 DEF InStep
  <2>2. FrameWalk(old.down, v, n) /\ Displays(t, v[0], n[0]) /\ Arrives(v[l], n[l])
    BY <2>1 DEF Path
  <2>3. l \in Nat /\ l \in 0 .. l
    BY <1>1
  <2>4. v[l] \in 0 .. top /\ n[l] \in 0 .. top
    BY <2>3 DEF FramePoints
  <2>5. v[l] <= n[l]
    <3>1. CASE l = 0
      BY <2>2, <3>1 DEF Displays
    <3>2. CASE l # 0
      <4>1. l \in 1 .. l
        BY <2>3, <3>2
      <4> QED BY <2>2, <4>1 DEF FrameWalk, Moves
    <3> QED BY <3>1, <3>2
  <2>6. Moves(Refusal(k), v[l], n[l], v[l], n[l])
    BY <1>4, <2>5 DEF Moves
  <2>7. PICK w \in FramePoints(Append(old.down, Refusal(k)), top), o \in FramePoints(Append(old.down, Refusal(k)), top) :
           /\ FrameWalk(Append(old.down, Refusal(k)), w, o) /\ w[0] = v[0] /\ o[0] = n[0]
           /\ w[Len(old.down) + 1] = v[l] /\ o[Len(old.down) + 1] = n[l]
    <3>1. top \in Nat /\ Moves(Refusal(k), v[Len(old.down)], n[Len(old.down)], v[l], n[l])
      BY <1>1, <2>6
    <3> DEFINE x == Refusal(k)
               a == v[l]
               b == n[l]
               down == tabs[t].down
    <3>2. /\ x \in Frames /\ a \in 0 .. top /\ b \in 0 .. top /\ FrameWalk(down, v, n) /\ down \in Seq(Frames)
          /\ Moves(x, v[Len(down)], n[Len(down)], a, b)
          /\ v \in FramePoints(down, top) /\ n \in FramePoints(down, top)
      BY <1>1, <1>4, <2>2, <2>4, <3>1
    <3> HIDE DEF x, a, b, top, down
    <3>3. \E w, o \in FramePoints(Append(down, x), top) :
           /\ FrameWalk(Append(down, x), w, o) /\ w[0] = v[0] /\ o[0] = n[0]
           /\ w[Len(down) + 1] = a /\ o[Len(down) + 1] = b
      BY <3>1, <3>2, WalkOn
    <3> QED BY <3>3 DEF x, a, b, top, down
  <2>8. /\ w \in FramePoints(tabs'[t].down, Len(stream)) /\ o \in FramePoints(tabs'[t].down, Len(stream))
        /\ FrameWalk(tabs'[t].down, w, o)
    BY <1>9, <1>10, <2>7 DEF d
  <2>9. Whole(tabs'[t].held, o[0]) /\ w[0] <= o[0] /\ (~ Marks(t)' => tabs'[t].badge = Missed(w[0], o[0]))
    BY <1>9, <1>10, <1>18, <2>2, <2>7 DEF Displays
  <2>10. Len(tabs'[t].down) = l + 1
    BY <1>7, <1>9, <1>10
  <2>11. Arrives(w[Len(tabs'[t].down)], o[Len(tabs'[t].down)])
    BY <2>2, <2>7, <2>10
  <2> QED BY <1>11, <2>8, <2>9, <2>11, InStepFrom DEF OutboxInv
<1>22. Settled(t)'
  BY <1>9, <1>10, <1>21 DEF OutboxInv, Badges, Settled
<1>23. Badges'
  BY <1>10, <1>19, <1>20, <1>22, BadgesOfOne DEF OutboxInv
<1> QED BY <1>11, <1>16, <1>17, <1>23 DEF OutboxInv

\* A commit blurs the badges of all tabs and leaves a fan-out owing.
Alike(new, old) ==
  /\ new.held = old.held /\ new.bubble = old.bubble /\ new.badge = old.badge /\ new.reported = old.reported
  /\ new.down = old.down /\ new.repair = old.repair /\ new.count = old.count /\ new.orphaned = old.orphaned
  /\ new.open = old.open

LEMMA BlurredRows ==
  ASSUME OutboxTypes
  PROVE  /\ Blurred \in [Tab -> TabRows]
         /\ \A q \in Tab : /\ Alike(Blurred[q], tabs[q]) /\ Blurred[q].up = tabs[q].up
                           /\ ~ Blurred[q].clean /\ (Blurred[q].settled <=> tabs[q].settled /\ telling = {})
         /\ \A t \in Tab : tabs[t].up # <<>> =>
              LET all == [Blurred EXCEPT ![t] = Served(Blurred[t])] IN
              /\ all \in [Tab -> TabRows]
              /\ \A q \in Tab : /\ Alike(all[q], tabs[q])
                                /\ all[q].up = IF q = t THEN Tail(tabs[t].up) ELSE tabs[q].up
                                /\ ~ all[q].clean /\ (all[q].settled <=> tabs[q].settled /\ telling = {})
<1>1. ASSUME NEW q \in Tab
      PROVE  /\ Blurred[q] \in TabRows /\ Alike(Blurred[q], tabs[q]) /\ Blurred[q].up = tabs[q].up
             /\ ~ Blurred[q].clean /\ (Blurred[q].settled <=> tabs[q].settled /\ telling = {})
  <2> DEFINE c == tabs[q].settled /\ telling = {}
             new == [tabs[q] EXCEPT !.clean = FALSE, !.settled = c]
  <2>1. tabs[q] \in TabRows
    BY DEF OutboxTypes
  <2>2. c \in BOOLEAN /\ (c <=> tabs[q].settled /\ telling = {})
    BY <2>1 DEF TabRows
  <2>3. Blurred[q] = new
    BY DEF Blurred
  <2> HIDE DEF c
  <2>4. /\ new \in TabRows /\ new.up = tabs[q].up /\ ~ new.clean /\ (new.settled <=> c)
    BY <2>1, <2>2 DEF TabRows
  <2>5. Alike(new, tabs[q])
    BY <2>1, <2>2 DEF TabRows, Alike
  <2> HIDE DEF new
  <2> QED BY <2>2, <2>3, <2>4, <2>5
<1>2. Blurred \in [Tab -> TabRows]
  <2>1. Blurred = [q \in Tab |-> Blurred[q]]
    BY DEF Blurred
  <2> QED BY <1>1, <2>1
<1>3. ASSUME NEW t \in Tab, tabs[t].up # <<>>
      PROVE  LET all == [Blurred EXCEPT ![t] = Served(Blurred[t])] IN
              /\ all \in [Tab -> TabRows]
              /\ \A q \in Tab : /\ Alike(all[q], tabs[q])
                                /\ all[q].up = IF q = t THEN Tail(tabs[t].up) ELSE tabs[q].up
                                /\ ~ all[q].clean /\ (all[q].settled <=> tabs[q].settled /\ telling = {})
  <2> DEFINE row == Blurred[t]
             u == Tail(Blurred[t].up)
             new == [Blurred[t] EXCEPT !.up = u]
             all == [Blurred EXCEPT ![t] = Served(Blurred[t])]
  <2>1. row \in TabRows /\ u \in Seq(TabAsks) /\ u = Tail(tabs[t].up)
    <3>1. row \in TabRows /\ row.up = tabs[t].up
      BY <1>1
    <3>2. row.up \in Seq(TabAsks)
      BY <3>1 DEF TabRows
    <3> QED BY <1>3, <3>1, <3>2, QueueTail
  <2>2. Served(Blurred[t]) = new
    BY DEF Served
  <2> HIDE DEF u
  <2>3. /\ new \in TabRows /\ new.up = u /\ (new.clean <=> row.clean) /\ (new.settled <=> row.settled)
    BY <2>1 DEF TabRows
  <2>4. Alike(new, row)
    BY <2>1 DEF TabRows, Alike
  <2> HIDE DEF new
  <2>5. all \in [Tab -> TabRows] /\ all[t] = new /\ \A q \in Tab : q # t => all[q] = Blurred[q]
    <3> DEFINE z == Blurred
    <3>1. z \in [Tab -> TabRows] /\ all = [z EXCEPT ![t] = new]
      BY <1>2, <2>2
    <3> HIDE DEF z, all
    <3>2. all \in [Tab -> TabRows] /\ all[t] = new /\ \A q \in Tab : q # t => all[q] = z[q]
      BY <2>3, <3>1
    <3> QED BY <3>2 DEF z
  <2> HIDE DEF all
  <2>6. ASSUME NEW q \in Tab
        PROVE  /\ Alike(all[q], tabs[q])
               /\ all[q].up = IF q = t THEN Tail(tabs[t].up) ELSE tabs[q].up
               /\ ~ all[q].clean /\ (all[q].settled <=> tabs[q].settled /\ telling = {})
    <3>1. CASE q = t
      <4>1. Alike(new, tabs[t])
        BY <1>1, <2>4 DEF Alike
      <4> QED BY <1>1, <2>1, <2>3, <2>5, <3>1, <4>1
    <3>2. CASE q # t
      BY <1>1, <2>5, <3>2
    <3> QED BY <3>1, <3>2
  <2> QED BY <2>5, <2>6 DEF all
<1> QED BY <1>1, <1>2, <1>3

\* What a tab shows, whatever is on its socket.
SameFace(new, old) ==
  /\ new.held = old.held /\ new.bubble = old.bubble /\ new.badge = old.badge /\ new.reported = old.reported
  /\ new.repair = old.repair /\ new.count = old.count /\ new.orphaned = old.orphaned /\ new.open = old.open

LEMMA AdriftRow ==
  ASSUME NEW mine \in TabRows
  PROVE  /\ Adrift(mine) \in TabRows /\ Alike(Adrift(mine), mine) /\ SameFace(Adrift(mine), mine)
         /\ Adrift(mine).up = mine.up /\ ~ Adrift(mine).clean /\ ~ Adrift(mine).settled
<1> DEFINE new == [mine EXCEPT !.clean = FALSE, !.settled = FALSE]
<1>1. Adrift(mine) = new
  BY DEF Adrift
<1>2. new \in TabRows /\ new.up = mine.up /\ ~ new.clean /\ ~ new.settled
  BY DEF TabRows
<1>3. Alike(new, mine)
  BY DEF TabRows, Alike
<1>4. SameFace(new, mine)
  BY <1>3 DEF Alike, SameFace
<1> HIDE DEF new
<1> QED BY <1>1, <1>2, <1>3, <1>4

LEMMA ServedRow ==
  ASSUME NEW mine \in TabRows, mine.up # <<>>
  PROVE  /\ Served(mine) \in TabRows /\ Alike(Served(mine), mine) /\ SameFace(Served(mine), mine)
         /\ Served(mine).up = Tail(mine.up)
         /\ (Served(mine).clean <=> mine.clean) /\ (Served(mine).settled <=> mine.settled)
<1> DEFINE u == Tail(mine.up)
           new == [mine EXCEPT !.up = u]
<1>1. u \in Seq(TabAsks) /\ Served(mine) = new
  BY QueueTail DEF TabRows, Served
<1> HIDE DEF u
<1>2. new \in TabRows /\ new.up = u /\ (new.clean <=> mine.clean) /\ (new.settled <=> mine.settled)
  BY <1>1 DEF TabRows
<1>3. Alike(new, mine)
  BY DEF TabRows, Alike
<1>4. SameFace(new, mine)
  BY <1>3 DEF Alike, SameFace
<1> HIDE DEF new
<1> QED BY <1>1, <1>2, <1>3, <1>4 DEF u

LEMMA RepliedRow ==
  ASSUME NEW mine \in TabRows, mine.up # <<>>, NEW x \in Frames
  PROVE  /\ Replied(mine, x) \in TabRows /\ SameFace(Replied(mine, x), mine)
         /\ Replied(mine, x).up = Tail(mine.up) /\ Replied(mine, x).down = Append(mine.down, x)
         /\ (Replied(mine, x).clean <=> mine.clean) /\ (Replied(mine, x).settled <=> mine.settled)
<1> DEFINE u == Tail(mine.up)
           d == Append(mine.down, x)
           new == [mine EXCEPT !.up = u, !.down = d]
<1>1. u \in Seq(TabAsks) /\ d \in Seq(Frames) /\ Replied(mine, x) = new
  BY QueueTail, QueueAppend DEF TabRows, Replied
<1> HIDE DEF u, d
<1>2. /\ new \in TabRows /\ new.up = u /\ new.down = d
      /\ (new.clean <=> mine.clean) /\ (new.settled <=> mine.settled)
  BY <1>1 DEF TabRows
<1>3. SameFace(new, mine)
  BY DEF TabRows, SameFace
<1> HIDE DEF new
<1> QED BY <1>1, <1>2, <1>3 DEF u, d

LEMMA UnawareRows ==
  ASSUME OutboxTypes
  PROVE  /\ Unaware \in [Tab -> TabRows]
         /\ \A q \in Tab : /\ Unaware[q] \in TabRows
                           /\ Alike(Unaware[q], tabs[q]) /\ SameFace(Unaware[q], tabs[q])
                           /\ Unaware[q].up = tabs[q].up /\ ~ Unaware[q].clean /\ ~ Unaware[q].settled
<1>1. ASSUME NEW q \in Tab
      PROVE  /\ Unaware[q] \in TabRows /\ Alike(Unaware[q], tabs[q]) /\ SameFace(Unaware[q], tabs[q])
             /\ Unaware[q].up = tabs[q].up /\ ~ Unaware[q].clean /\ ~ Unaware[q].settled
  <2>1. tabs[q] \in TabRows /\ Unaware[q] = Adrift(tabs[q])
    BY DEF OutboxTypes, Unaware
  <2> QED BY <2>1, AdriftRow
<1>2. Unaware = [q \in Tab |-> Unaware[q]]
  BY DEF Unaware
<1> QED BY <1>1, <1>2

\* What was handled without anybody being told leaves the tabs it may concern adrift.
LEMMA UntoldKeeps ==
  ASSUME OutboxInv, tabs' \in [Tab -> TabRows], stream' \in Seq(Key \cup {"peer"}), Grows,
         readRow' \in [upTo : Nat, unread : Nat], readRow'.upTo <= Len(stream'),
         (readRow.unread = Missed(readRow.upTo, Len(stream)))',
         telling' = telling, late' \subseteq late, troubles' \in Nat,
         \A q \in Tab : /\ SameFace(tabs'[q], tabs[q])
                        /\ \/ ~ tabs'[q].clean /\ ~ tabs'[q].settled
                           \/ tabs'[q] = tabs[q] /\ stream' = stream /\ readRow' = readRow
                        /\ Pending(tabs'[q].up) \subseteq Pending(tabs[q].up)
                        /\ tabs[q].up = <<>> => tabs'[q].up = <<>>
                        /\ Pending(tabs[q].down) \subseteq Pending(tabs'[q].down)
                        /\ \A x \in Pending(tabs'[q].down) : x \in Pending(tabs[q].down) \/ Fits(x)',
         \A q \in Tab, k \in Key : InUp(q, k) => \/ InUp(q, k)' \/ Refuted(q, k)'
                                             \/ \E x \in Pending(tabs'[q].down) : Tells1(x, k)',
         KeysInHand'
  PROVE  OutboxInv'
<1>1. OutboxTypes /\ WithinStream /\ Awaited /\ Badges
  BY DEF OutboxInv
<1>2. /\ Len(stream) \in Nat /\ Len(stream') \in Nat /\ Len(stream) <= Len(stream')
      /\ \A s \in 1 .. Len(stream) : s \in 1 .. Len(stream') /\ stream'[s] = stream[s]
  BY <1>1 DEF OutboxTypes, Grows
<1>3. OutboxTypes'
  BY <1>1 DEF OutboxTypes
<1>4. \A e \in telling : e.event \in Frames
  <2>1. ASSUME NEW e \in telling PROVE e.event \in Frames
    <3>1. e.event \in Tellable
      BY <1>1 DEF OutboxTypes
    <3> QED BY <3>1, AsksAndFrames
  <2> QED BY <2>1
<1>5. ASSUME NEW x \in TabAsks \cup Frames, Fits(x) PROVE Fits(x)'
  <2>1. x.is \in {"marker", "mark"} => x.upTo \in Nat
    <3>1. CASE x \in TabAsks
      BY <3>1, AskIs
    <3>2. CASE x \in Frames
      BY <3>2, FrameIs
    <3> QED BY <3>1, <3>2
  <2> QED BY <1>2, <1>5, <2>1 DEF Fits
<1>6. \A q \in Tab : /\ Pending(tabs[q].up) \subseteq TabAsks /\ Pending(tabs[q].down) \subseteq Frames
                     /\ tabs[q].reported \in Nat
  BY <1>1, TabFields
<1>7. WithinStream'
  <2>1. ASSUME NEW q \in Tab
        PROVE  /\ tabs'[q].held \subseteq 1 .. Len(stream') /\ tabs'[q].reported <= Len(stream')
               /\ tabs'[q].open \/ tabs'[q].up = <<>>
               /\ \A x \in Pending(tabs'[q].up) : Fits(x)'
               /\ \A x \in Pending(tabs'[q].down) : Fits(x)'
    <3>1. /\ tabs[q].held \subseteq 1 .. Len(stream) /\ tabs[q].reported <= Len(stream)
          /\ tabs[q].open \/ tabs[q].up = <<>>
          /\ \A x \in Pending(tabs[q].up) : Fits(x)
          /\ \A x \in Pending(tabs[q].down) : Fits(x)
      BY <1>1 DEF WithinStream
    <3>2. /\ tabs'[q].held = tabs[q].held /\ tabs'[q].reported = tabs[q].reported
          /\ tabs'[q].open = tabs[q].open
          /\ (tabs[q].up = <<>> => tabs'[q].up = <<>>)
          /\ Pending(tabs'[q].up) \subseteq Pending(tabs[q].up)
      BY DEF SameFace
    <3>3. tabs'[q].held \subseteq 1 .. Len(stream') /\ tabs'[q].reported <= Len(stream')
      BY <1>2, <1>6, <3>1, <3>2
    <3>4. \A x \in Pending(tabs'[q].up) : Fits(x)'
      BY <1>5, <1>6, <3>1, <3>2
    <3>5. \A x \in Pending(tabs'[q].down) : Fits(x)'
      <4>1. ASSUME NEW x \in Pending(tabs'[q].down) PROVE Fits(x)'
        <5>1. x \in Pending(tabs[q].down) \/ Fits(x)'
          OBVIOUS
        <5>2. x \in Pending(tabs[q].down) => Fits(x)'
          BY <1>5, <1>6, <3>1
        <5> QED BY <5>1, <5>2
      <4> QED BY <4>1
    <3> QED BY <3>1, <3>2, <3>3, <3>4, <3>5
  <2>2. \A e \in telling' : Fits(e.event)'
    BY <1>1, <1>4, <1>5 DEF WithinStream
  <2>3. \A r \in late' : Fits(r)'
    BY <1>1, <1>5 DEF WithinStream, OutboxTypes
  <2> QED BY <2>1, <2>2, <2>3 DEF WithinStream, Pending
<1>8. ASSUME NEW x, NEW k, Fits(x), Tells1(x, k) PROVE Tells1(x, k)'
  BY <1>2, <1>8 DEF Fits, Tells1
<1>9. Awaited'
  <2>1. ASSUME NEW q \in Tab, NEW k \in Key, tabs'[q].bubble[k] = "sending", k \notin tabs'[q].orphaned
        PROVE  /\ tabs'[q].open
               /\ \/ InUp(q, k)' \/ Refuted(q, k)'
                  \/ \E e \in telling' : Tells1(e.event, k)'
                  \/ \E x \in Pending(tabs'[q].down) : Tells1(x, k)'
    <3>1. /\ tabs'[q].bubble = tabs[q].bubble /\ tabs'[q].orphaned = tabs[q].orphaned
          /\ tabs'[q].open = tabs[q].open /\ Pending(tabs[q].down) \subseteq Pending(tabs'[q].down)
      BY DEF SameFace
    <3>2. /\ tabs[q].open
          /\ \/ InUp(q, k) \/ Refuted(q, k)
             \/ \E e \in telling : Tells1(e.event, k)
             \/ \E x \in Pending(tabs[q].down) : Tells1(x, k)
      BY <1>1, <2>1, <3>1 DEF Awaited
    <3>3. Refuted(q, k) => Refuted(q, k)'
      BY <3>1, OneInHand
    <3>4. \A e \in telling : Tells1(e.event, k) => e \in telling' /\ Tells1(e.event, k)'
      BY <1>1, <1>8 DEF WithinStream
    <3>5. \A x \in Pending(tabs[q].down) : Tells1(x, k) => x \in Pending(tabs'[q].down) /\ Tells1(x, k)'
      BY <1>1, <1>8, <3>1 DEF WithinStream
    <3> QED BY <3>1, <3>2, <3>3, <3>4, <3>5
  <2> QED BY <2>1 DEF Awaited, Pending
<1>10. (\A e \in telling : e.event.is = "new" /\ e.by \in Tab => stream[e.event.seq] # "peer")'
  <2>1. ASSUME NEW e \in telling, e.event.is = "new", e.by \in Tab PROVE stream'[e.event.seq] # "peer"
    <3>1. e.event.seq \in 1 .. Len(stream) /\ stream[e.event.seq] # "peer"
      BY <1>1, <2>1 DEF WithinStream, Fits, Badges
    <3> QED BY <1>2, <3>1
  <2> QED BY <2>1
<1>11. ASSUME NEW q \in Tab PROVE (Untouched(q) /\ Repaired(q) /\ Settled(q))'
  <2>1. CASE ~ tabs'[q].clean /\ ~ tabs'[q].settled
    BY <2>1 DEF Untouched, Repaired, Settled
  <2>2. CASE tabs'[q] = tabs[q] /\ stream' = stream /\ readRow' = readRow
    <3>1. Untouched(q) /\ Repaired(q) /\ Settled(q)
      BY <1>1 DEF Badges
    <3>2. Marks(q)' <=> Marks(q)
      BY <2>2, MarksNext DEF Marks
    <3>3. InStep(q) => InStep(q)'
      BY <1>1, <2>2, <3>2, InStepKept
    <3>4. Untouched(q)'
      BY <2>2, <3>1 DEF Untouched, Pending
    <3>5. Repaired(q)'
      BY <2>2, <3>1, <3>2 DEF Repaired
    <3>6. Settled(q)'
      BY <2>2, <3>1, <3>3 DEF Settled
    <3> QED BY <3>4, <3>5, <3>6
  <2> QED BY <2>1, <2>2
<1>12. Badges'
  BY <1>10, <1>11 DEF Badges
<1> QED BY <1>3, <1>7, <1>9, <1>12 DEF OutboxInv

LEMMA CommitKeeps ==
  ASSUME OutboxInv, tabs' \in [Tab -> TabRows],
         \A q \in Tab : /\ Alike(tabs'[q], tabs[q]) /\ ~ tabs'[q].clean
                        /\ tabs'[q].settled => tabs[q].settled /\ telling = {}
                        /\ Pending(tabs'[q].up) \subseteq Pending(tabs[q].up)
                        /\ tabs[q].up = <<>> => tabs'[q].up = <<>>
                        /\ ~ Marks(q)' => ~ Marks(q),
         stream' \in Seq(Key \cup {"peer"}), Grows,
         readRow' \in [upTo : Nat, unread : Nat], readRow'.upTo <= Len(stream'),
         NEW by \in Sources, NEW event \in Tellable, telling' = telling \cup {[by |-> by, event |-> event]},
         Fits(event)', late' \subseteq late, troubles' \in Nat,
         (readRow.unread = Missed(readRow.upTo, Len(stream)))',
         NEW from, from = readRow.upTo, NEW known, known = Len(stream),
         Moves(event, from, known, readRow.upTo, Len(stream))',
         event.is = "new" /\ by \in Tab => stream'[event.seq] # "peer",
         \A q \in Tab, k \in Key : InUp(q, k) => InUp(q, k)' \/ Tells1(event, k)',
         KeysInHand'
  PROVE  OutboxInv'
<1> DEFINE news == [by |-> by, event |-> event]
<1>1. OutboxTypes /\ WithinStream /\ Awaited /\ Badges
  BY DEF OutboxInv
<1>2. /\ Len(stream) \in Nat /\ Len(stream') \in Nat /\ Len(stream) <= Len(stream')
      /\ \A s \in 1 .. Len(stream) : s \in 1 .. Len(stream') /\ stream'[s] = stream[s]
  BY <1>1 DEF OutboxTypes, Grows
<1>3. news \in [by : Sources, event : Tellable] /\ news.by = by /\ news.event = event
  OBVIOUS
<1> HIDE DEF news
<1>4. telling' = telling \cup {news}
  BY DEF news
<1>5. OutboxTypes'
  BY <1>1, <1>3, <1>4 DEF OutboxTypes
<1>6. \A e \in telling : e \in [by : Sources, event : Tellable] /\ e.event \in Frames
  BY <1>1, AsksAndFrames DEF OutboxTypes
<1>7. ASSUME NEW x \in TabAsks \cup Frames, Fits(x) PROVE Fits(x)'
  <2>1. x.is \in {"marker", "mark"} => x.upTo \in Nat
    <3>1. CASE x \in TabAsks
      BY <3>1, AskIs
    <3>2. CASE x \in Frames
      BY <3>2, FrameIs
    <3> QED BY <3>1, <3>2
  <2> QED BY <1>2, <1>7, <2>1 DEF Fits
<1>8. \A q \in Tab : /\ Pending(tabs[q].up) \subseteq TabAsks /\ Pending(tabs[q].down) \subseteq Frames
                     /\ tabs[q].reported \in Nat
  BY <1>1, TabFields
<1>9. WithinStream'
  <2>1. ASSUME NEW q \in Tab
        PROVE  /\ tabs'[q].held \subseteq 1 .. Len(stream') /\ tabs'[q].reported <= Len(stream')
               /\ tabs'[q].open \/ tabs'[q].up = <<>>
               /\ \A x \in Pending(tabs'[q].up) : Fits(x)'
               /\ \A x \in Pending(tabs'[q].down) : Fits(x)'
    <3>1. /\ tabs[q].held \subseteq 1 .. Len(stream) /\ tabs[q].reported <= Len(stream)
          /\ tabs[q].open \/ tabs[q].up = <<>>
          /\ \A x \in Pending(tabs[q].up) : Fits(x)
          /\ \A x \in Pending(tabs[q].down) : Fits(x)
      BY <1>1 DEF WithinStream
    <3>2. /\ tabs'[q].held = tabs[q].held /\ tabs'[q].reported = tabs[q].reported
          /\ tabs'[q].open = tabs[q].open /\ tabs'[q].down = tabs[q].down
          /\ (tabs[q].up = <<>> => tabs'[q].up = <<>>)
          /\ Pending(tabs'[q].up) \subseteq Pending(tabs[q].up)
      BY DEF Alike
    <3>3. tabs'[q].held \subseteq 1 .. Len(stream') /\ tabs'[q].reported <= Len(stream')
      BY <1>2, <1>8, <3>1, <3>2
    <3>4. \A x \in Pending(tabs'[q].up) : Fits(x)'
      BY <1>7, <1>8, <3>1, <3>2
    <3>5. \A x \in Pending(tabs'[q].down) : Fits(x)'
      BY <1>7, <1>8, <3>1, <3>2
    <3> QED BY <3>1, <3>2, <3>3, <3>4, <3>5
  <2>2. \A e \in telling' : Fits(e.event)'
    BY <1>1, <1>3, <1>4, <1>6, <1>7 DEF WithinStream
  <2>3. \A r \in late' : Fits(r)'
    BY <1>1, <1>7 DEF WithinStream, OutboxTypes
  <2> QED BY <2>1, <2>2, <2>3 DEF WithinStream, Pending
<1>10. ASSUME NEW x, NEW k, Fits(x), Tells1(x, k) PROVE Tells1(x, k)'
  BY <1>2, <1>10 DEF Fits, Tells1
<1>11. Awaited'
  <2>1. ASSUME NEW q \in Tab, NEW k \in Key, tabs'[q].bubble[k] = "sending", k \notin tabs'[q].orphaned
        PROVE  /\ tabs[q].bubble[k] = "sending" /\ k \notin tabs[q].orphaned
               /\ tabs[q].open => tabs'[q].open
               /\ InUp(q, k) \/ Refuted(q, k) =>
                   InUp(q, k)' \/ Refuted(q, k)' \/ \E e \in telling' : Tells1(e.event, k)'
               /\ \A e \in telling : tabs[q].open /\ Tells1(e.event, k) =>
                   \/ \E f \in telling' : Tells1(f.event, k)'
                   \/ \E x \in Pending(tabs'[q].down) : Tells1(x, k)'
               /\ \A x \in Pending(tabs[q].down) : Tells1(x, k) =>
                   \E y \in Pending(tabs'[q].down) : Tells1(y, k)'
    <3>1. /\ tabs'[q].bubble = tabs[q].bubble /\ tabs'[q].orphaned = tabs[q].orphaned
          /\ tabs'[q].open = tabs[q].open /\ tabs'[q].down = tabs[q].down
      BY DEF Alike
    <3>2. Refuted(q, k) => Refuted(q, k)'
      BY <3>1, OneInHand
    <3>3. InUp(q, k) => InUp(q, k)' \/ Tells1(news.event, k)'
      <4>1. Tells1(event, k)' => Tells1(news.event, k)'
        BY <1>3 DEF Tells1
      <4> QED BY <4>1
    <3>4. news \in telling'
      BY <1>4
    <3>5. \A e \in telling : Tells1(e.event, k) => e \in telling' /\ Tells1(e.event, k)'
      BY <1>1, <1>4, <1>10 DEF WithinStream
    <3>6. \A x \in Pending(tabs[q].down) : Tells1(x, k) => x \in Pending(tabs'[q].down) /\ Tells1(x, k)'
      BY <1>1, <1>10, <3>1 DEF WithinStream
    <3> QED BY <2>1, <3>1, <3>2, <3>3, <3>4, <3>5, <3>6
  <2> QED BY <1>1, <2>1, AwaitedKept
<1>12. (\A e \in telling : e.event.is = "new" /\ e.by \in Tab => stream[e.event.seq] # "peer")'
  <2>1. ASSUME NEW e \in telling, e.event.is = "new", e.by \in Tab PROVE stream'[e.event.seq] # "peer"
    <3>1. e.event.seq \in 1 .. Len(stream) /\ stream[e.event.seq] # "peer"
      BY <1>1, <2>1 DEF WithinStream, Fits, Badges
    <3> QED BY <1>2, <3>1
  <2> QED BY <1>3, <1>4, <2>1
<1>13. ASSUME NEW q \in Tab PROVE (Untouched(q) /\ Repaired(q) /\ Settled(q))'
  <2>1. Untouched(q)' /\ Repaired(q)'
    BY DEF Untouched, Repaired
  <2>2. ASSUME tabs'[q].settled PROVE (tabs[q].open /\ tabs[q].repair = "none" /\ InStep(q))'
    <3>1. tabs[q].settled /\ telling = {} /\ telling' = {news}
      BY <1>4, <2>2
    <3>2. tabs[q].open /\ tabs[q].repair = "none" /\ InStep(q)
      BY <1>1, <3>1 DEF Badges, Settled
    <3>3. /\ tabs'[q].held = tabs[q].held /\ tabs'[q].down = tabs[q].down /\ tabs'[q].badge = tabs[q].badge
          /\ tabs'[q].open = tabs[q].open /\ tabs'[q].repair = tabs[q].repair
      BY DEF Alike
    <3>4. Moves(news.event, from, known, readRow.upTo, Len(stream))'
      BY <1>3 DEF Moves, Missed
    <3>5. InStep(q)'
      BY <1>1, <1>5, <3>1, <3>2, <3>3, <3>4, InStepCommitted
    <3> QED BY <3>2, <3>3, <3>5
  <2> QED BY <2>1, <2>2 DEF Settled
<1>14. Badges'
  BY <1>12, <1>13 DEF Badges
<1> QED BY <1>5, <1>9, <1>11, <1>14 DEF OutboxInv

LEMMA Appended ==
  ASSUME OutboxInv, NEW author \in Key \cup {"peer"}, stream' = Append(stream, author),
         readRow' = [readRow EXCEPT !.unread = IF author = "peer" THEN @ + 1 ELSE @],
         NEW event, event = [is |-> "new", seq |-> Len(stream) + 1],
         NEW from, from = readRow.upTo, NEW known, known = Len(stream)
  PROVE  /\ stream' \in Seq(Key \cup {"peer"}) /\ Grows /\ stream'[event.seq] = author
         /\ \A k \in Key : IsStored(k)' <=> IsStored(k) \/ k = author
         /\ readRow' \in [upTo : Nat, unread : Nat] /\ readRow'.upTo <= Len(stream')
         /\ event \in Tellable /\ event.is = "new" /\ Fits(event)'
         /\ (readRow.unread = Missed(readRow.upTo, Len(stream)))'
         /\ Moves(event, from, known, readRow.upTo, Len(stream))'
         /\ \A k : k = author => Tells1(event, k)'
<1>1. /\ stream \in Seq(Key \cup {"peer"}) /\ readRow \in [upTo : Nat, unread : Nat]
      /\ readRow.upTo <= Len(stream) /\ Len(stream) \in Nat /\ DOMAIN stream = 1 .. Len(stream)
      /\ readRow.unread = Missed(readRow.upTo, Len(stream))
  BY DEF OutboxInv, OutboxTypes, WithinStream, Badges
<1>2. /\ stream' \in Seq(Key \cup {"peer"}) /\ Len(stream') = Len(stream) + 1
      /\ DOMAIN stream' = 1 .. (Len(stream) + 1) /\ stream'[Len(stream) + 1] = author
      /\ \A s \in 1 .. Len(stream) : stream'[s] = stream[s]
  BY <1>1
<1>3. Grows
  BY <1>1, <1>2 DEF Grows
<1>4. \A k \in Key : IsStored(k)' <=> IsStored(k) \/ k = author
  <2>1. \A s \in 1 .. (Len(stream) + 1) : s \in 1 .. Len(stream) \/ s = Len(stream) + 1
    BY <1>1
  <2>2. \A s \in 1 .. Len(stream) : s \in 1 .. (Len(stream) + 1)
    BY <1>1
  <2>3. Len(stream) + 1 \in 1 .. (Len(stream) + 1)
    BY <1>1
  <2> QED BY <1>1, <1>2, <2>1, <2>2, <2>3 DEF IsStored
<1>5. /\ event \in Tellable /\ event.is = "new" /\ event.seq = Len(stream) + 1
  BY <1>1 DEF Tellable
<1> DEFINE c == IF author = "peer" THEN readRow.unread + 1 ELSE readRow.unread
<1>6. readRow' \in [upTo : Nat, unread : Nat] /\ readRow'.upTo = readRow.upTo /\ readRow'.unread = c
  <2>1. c \in Nat /\ readRow' = [readRow EXCEPT !.unread = c]
    BY <1>1
  <2> HIDE DEF c
  <2> QED BY <1>1, <2>1
<1>7. Missed(readRow.upTo, Len(stream))' = c
  <2> DEFINE u == readRow.upTo
             n == Len(stream)
             new == stream'
  <2>1. u \in Nat /\ n \in Nat
    BY <1>1
  <2>2. Fresh(new, u, n) = Fresh(stream, u, n)
    BY <1>2 DEF Fresh
  <2>3. Cardinality(Fresh(new, u, n)) = readRow.unread
    BY <1>1, <2>2 DEF Missed
  <2>4. Missed(readRow.upTo, Len(stream))' = Cardinality(Fresh(new, u, n + 1))
    BY <1>2, <1>6 DEF Missed, Fresh
  <2>5. Cardinality(Fresh(new, u, n + 1)) = IF n + 1 > u /\ new[n + 1] = "peer"
                                             THEN Cardinality(Fresh(new, u, n)) + 1
                                             ELSE Cardinality(Fresh(new, u, n))
    <3> HIDE DEF u, n, new
    <3> QED BY <2>1, UnreadCounts
  <2>6. n + 1 > u /\ stream'[n + 1] = author
    BY <1>1, <1>2
  <2> QED BY <2>3, <2>4, <2>5, <2>6
<1>8. (readRow.unread = Missed(readRow.upTo, Len(stream)))'
  BY <1>6, <1>7
<1>9. Fits(event)' /\ Moves(event, from, known, readRow.upTo, Len(stream))'
  <2>1. Len(stream) + 1 \in 1 .. (Len(stream) + 1) /\ readRow.upTo <= Len(stream) + 1
    BY <1>1
  <2>2. Fits(event)'
    BY <1>2, <1>5, <2>1 DEF Fits
  <2>3. Moves(event, from, known, readRow.upTo, Len(stream))'
    BY <1>1, <1>2, <1>5, <1>6, <2>1 DEF Moves
  <2> QED BY <2>2, <2>3
<1>10. \A k : k = author => Tells1(event, k)'
  BY <1>2, <1>5 DEF Tells1
<1>11. readRow'.upTo <= Len(stream')
  BY <1>1, <1>2, <1>6
<1> QED BY <1>2, <1>3, <1>4, <1>5, <1>6, <1>8, <1>9, <1>10, <1>11

\* A Message of the peer: its key is nobody's.
LEMMA PeerKeys ==
  ASSUME OutboxInv, stream' = Append(stream, "peer"), late' = late,
         \A q \in Tab : Alike(tabs'[q], tabs[q]) /\ tabs'[q].up = tabs[q].up,
         \A k \in Key : IsStored(k)' <=> IsStored(k) \/ k = "peer"
  PROVE  KeysInHand'
<1>1. OutboxTypes /\ KeysInHand
  BY DEF OutboxInv
<1>2. \A q \in Tab, k \in Key : /\ (InUp(q, k)' <=> InUp(q, k)) /\ (Refuted(q, k)' <=> Refuted(q, k))
                                /\ tabs'[q].bubble[k] = tabs[q].bubble[k]
  BY OneInHand DEF Alike
<1>3. \A k \in Key : (IsStored(k)' <=> IsStored(k)) /\ (InLate(k)' => InLate(k))
  BY OutboxAssumption, OneInHand
<1>4. \A s, r \in DOMAIN stream' : stream'[s] = stream'[r] /\ stream'[s] \in Key => s = r
  <2>1. /\ DOMAIN stream = 1 .. Len(stream) /\ Len(stream) \in Nat
        /\ DOMAIN stream' = 1 .. (Len(stream) + 1) /\ stream'[Len(stream) + 1] = "peer"
        /\ \A s \in 1 .. Len(stream) : stream'[s] = stream[s]
    BY <1>1 DEF OutboxTypes
  <2>2. \A s \in 1 .. (Len(stream) + 1) : s \in 1 .. Len(stream) \/ s = Len(stream) + 1
    BY <2>1
  <2>3. \A s, r \in 1 .. Len(stream) : stream[s] = stream[r] /\ stream[s] \in Key => s = r
    BY <1>1, <2>1 DEF KeysInHand
  <2> QED BY <2>1, <2>2, <2>3, OutboxAssumption
<1>5. \A q \in Tab : Once(tabs'[q].up, "send") /\ Once(tabs'[q].down, "rejected")
  BY <1>1 DEF KeysInHand, Alike
<1> QED BY <1>1, <1>2, <1>3, <1>4, <1>5, KeysKept

LEMMA PeerPostsKeeps ==
  ASSUME OutboxInv, PeerPosts PROVE OutboxInv'
<1>1. PICK event : event = [is |-> "new", seq |-> Len(stream) + 1]
  OBVIOUS
<1>2. PICK from, known : from = readRow.upTo /\ known = Len(stream)
  OBVIOUS
<1>3. /\ stream' = Append(stream, "peer") /\ late' = late /\ troubles' = troubles
      /\ readRow' = [readRow EXCEPT !.unread = readRow.unread + 1]
      /\ Published("peer", event)
  BY <1>1 DEF PeerPosts, AppendMessage, NextMessage
<1>4. readRow' = [readRow EXCEPT !.unread = IF "peer" = "peer" THEN @ + 1 ELSE @]
  BY <1>3
<1>5. /\ stream' \in Seq(Key \cup {"peer"}) /\ Grows /\ stream'[event.seq] = "peer"
      /\ \A k \in Key : IsStored(k)' <=> IsStored(k) \/ k = "peer"
      /\ readRow' \in [upTo : Nat, unread : Nat] /\ readRow'.upTo <= Len(stream')
      /\ event \in Tellable /\ event.is = "new" /\ Fits(event)'
      /\ (readRow.unread = Missed(readRow.upTo, Len(stream)))'
      /\ Moves(event, from, known, readRow.upTo, Len(stream))'
  BY <1>1, <1>2, <1>3, <1>4, Appended
<1>6. OutboxTypes
  BY DEF OutboxInv
<1>7. late' \subseteq late /\ troubles' \in Nat /\ "peer" \in Sources /\ "peer" \notin Tab
  BY <1>3, <1>6, OutboxAssumption DEF OutboxTypes, Sources
<1>8. CASE Tells("peer", event) /\ tabs' = Blurred
  <2>1. telling' = telling \cup {[by |-> "peer", event |-> event]}
    BY <1>8 DEF Tells
  <2>2. /\ tabs' \in [Tab -> TabRows]
        /\ \A q \in Tab : /\ Alike(tabs'[q], tabs[q]) /\ tabs'[q].up = tabs[q].up
                          /\ ~ tabs'[q].clean /\ (tabs'[q].settled <=> tabs[q].settled /\ telling = {})
    BY <1>6, <1>8, BlurredRows
  <2>3. \A q \in Tab : ~ Marks(q)' => ~ Marks(q)
    BY <2>1, <2>2, MarksNext DEF Marks, Alike
  <2>4. \A q \in Tab, k \in Key : InUp(q, k)' <=> InUp(q, k)
    BY <2>2, OneInHand
  <2>5. KeysInHand'
    BY <1>3, <1>5, <2>2, PeerKeys
  <2>6. \A q \in Tab : /\ Alike(tabs'[q], tabs[q]) /\ ~ tabs'[q].clean
                       /\ tabs'[q].settled => tabs[q].settled /\ telling = {}
                       /\ Pending(tabs'[q].up) \subseteq Pending(tabs[q].up)
                       /\ tabs[q].up = <<>> => tabs'[q].up = <<>>
                       /\ ~ Marks(q)' => ~ Marks(q)
    BY <2>2, <2>3
  <2> QED BY <1>2, <1>5, <1>7, <2>1, <2>2, <2>4, <2>5, <2>6, CommitKeeps
<1>9. CASE UNCHANGED telling /\ tabs' = Unaware
  <2>1. /\ tabs' \in [Tab -> TabRows]
        /\ \A q \in Tab : /\ Alike(tabs'[q], tabs[q]) /\ SameFace(tabs'[q], tabs[q])
                          /\ tabs'[q].up = tabs[q].up /\ ~ tabs'[q].clean /\ ~ tabs'[q].settled
    BY <1>6, <1>9, UnawareRows
  <2>2. \A q \in Tab : tabs'[q].down = tabs[q].down
    BY <2>1 DEF Alike
  <2>3. \A q \in Tab, k \in Key : InUp(q, k)' <=> InUp(q, k)
    BY <2>1, OneInHand
  <2>4. KeysInHand'
    BY <1>3, <1>5, <2>1, PeerKeys
  <2>5. \A q \in Tab : /\ SameFace(tabs'[q], tabs[q])
                       /\ ~ tabs'[q].clean /\ ~ tabs'[q].settled
                       /\ Pending(tabs'[q].up) \subseteq Pending(tabs[q].up)
                       /\ tabs[q].up = <<>> => tabs'[q].up = <<>>
                       /\ Pending(tabs[q].down) \subseteq Pending(tabs'[q].down)
                       /\ \A x \in Pending(tabs'[q].down) : x \in Pending(tabs[q].down)
    BY <2>1, <2>2
  <2> QED BY <1>5, <1>7, <1>9, <2>1, <2>3, <2>4, <2>5, UntoldKeeps
<1> QED BY <1>3, <1>8, <1>9 DEF Published

\* A send is stored: the author's tab is served, or its socket died meanwhile.
LEMMA StoredKeeps ==
  ASSUME OutboxInv, NEW k \in Key, ~ IsStored(k), NEW by \in Sources,
         AppendMessage(k, readRow.unread), Tells(by, NextMessage), troubles' = troubles,
         tabs' \in [Tab -> TabRows],
         \A q \in Tab : /\ Alike(tabs'[q], tabs[q]) /\ ~ tabs'[q].clean
                        /\ tabs'[q].settled => tabs[q].settled /\ telling = {}
                        /\ Pending(tabs'[q].up) \subseteq Pending(tabs[q].up)
                        /\ Pending(tabs[q].up) \subseteq Pending(tabs'[q].up) \cup {Send(k)}
                        /\ tabs[q].up = <<>> => tabs'[q].up = <<>>
                        /\ Once(tabs'[q].up, "send"),
         \E q \in Tab : tabs[q].bubble[k] # "none",
         late' \subseteq late
  PROVE  OutboxInv'
<1>1. PICK event : event = [is |-> "new", seq |-> Len(stream) + 1]
  OBVIOUS
<1>2. PICK from, known : from = readRow.upTo /\ known = Len(stream)
  OBVIOUS
<1>3. /\ stream' = Append(stream, k)
      /\ readRow' = [readRow EXCEPT !.unread = readRow.unread]
      /\ telling' = telling \cup {[by |-> by, event |-> event]}
  BY <1>1 DEF AppendMessage, NextMessage, Tells
<1>4. readRow' = [readRow EXCEPT !.unread = IF k = "peer" THEN @ + 1 ELSE @] /\ k \in Key \cup {"peer"} /\ k # "peer"
  BY <1>3, OutboxAssumption
<1>5. /\ stream' \in Seq(Key \cup {"peer"}) /\ Grows /\ stream'[event.seq] = k
      /\ readRow' \in [upTo : Nat, unread : Nat] /\ readRow'.upTo <= Len(stream')
      /\ event \in Tellable /\ event.is = "new" /\ Fits(event)'
      /\ (readRow.unread = Missed(readRow.upTo, Len(stream)))'
      /\ Moves(event, from, known, readRow.upTo, Len(stream))'
      /\ \A x : x = k => Tells1(event, x)'
  BY <1>1, <1>2, <1>3, <1>4, Appended
<1>6. OutboxTypes /\ KeysInHand
  BY DEF OutboxInv
<1>7. \A q \in Tab : ~ Marks(q)' => ~ Marks(q)
  <2>1. Send(k).is # "mark"
    BY AsksAndFrames
  <2>2. ASSUME NEW q \in Tab, ~ Marks(q)' PROVE ~ Marks(q)
    <3>1. telling \subseteq telling'
      BY <1>3
    <3> QED BY <1>3, <2>1, <2>2, <3>1, MarksNext DEF Marks, Alike
  <2> QED BY <2>2
<1>8. \A q \in Tab, x \in Key : /\ (InUp(q, x)' => InUp(q, x)) /\ (InUp(q, x) => InUp(q, x)' \/ x = k)
                                /\ (Refuted(q, x)' <=> Refuted(q, x))
  <2>1. \A x \in Key : Send(x) = Send(k) => x = k
    BY AsksAndFrames
  <2>2. \A q \in Tab, x \in Key : InUp(q, x)' => InUp(q, x)
    BY OneInHand
  <2>3. \A q \in Tab, x \in Key : InUp(q, x) => InUp(q, x)' \/ x = k
    <3>1. ASSUME NEW q \in Tab, NEW x \in Key, Send(x) \in Pending(tabs[q].up), x # k
          PROVE  Send(x) \in Pending(tabs'[q].up)
      <4>1. Send(x) # Send(k)
        BY <2>1, <3>1
      <4> QED BY <3>1, <4>1
    <3> QED BY <3>1, OneInHand
  <2>4. \A q \in Tab : tabs'[q].down = tabs[q].down
    BY DEF Alike
  <2>5. \A q \in Tab, x \in Key : Refuted(q, x)' <=> Refuted(q, x)
    BY <2>4, OneInHand
  <2> QED BY <2>2, <2>3, <2>5
<1>9. \A x \in Key : InLate(x)' => InLate(x)
  BY OneInHand
<1>10. KeysInHand'
  <2>1. \A q \in Tab : tabs'[q].bubble = tabs[q].bubble /\ Once(tabs'[q].down, "rejected")
    BY <1>6 DEF Alike, KeysInHand
  <2> QED BY <1>3, <1>6, <1>8, <1>9, <2>1, KeysStored
<1>11. \A q \in Tab, x \in Key : InUp(q, x) => InUp(q, x)' \/ Tells1(event, x)'
  BY <1>5, <1>8
<1>12. troubles' \in Nat /\ (event.is = "new" /\ by \in Tab => stream'[event.seq] # "peer")
  BY <1>4, <1>5, <1>6 DEF OutboxTypes
<1>13. \A q \in Tab : /\ Alike(tabs'[q], tabs[q]) /\ ~ tabs'[q].clean
                      /\ tabs'[q].settled => tabs[q].settled /\ telling = {}
                      /\ Pending(tabs'[q].up) \subseteq Pending(tabs[q].up)
                      /\ tabs[q].up = <<>> => tabs'[q].up = <<>>
                      /\ ~ Marks(q)' => ~ Marks(q)
  BY <1>7
<1> QED BY <1>2, <1>3, <1>5, <1>10, <1>11, <1>12, <1>13, CommitKeeps

\* It is stored, and the statement after the commit fails.
LEMMA StoredUntold ==
  ASSUME OutboxInv, NEW k \in Key, ~ IsStored(k), AppendMessage(k, readRow.unread), UNCHANGED telling,
         troubles' = troubles, tabs' \in [Tab -> TabRows],
         \A q \in Tab : /\ SameFace(tabs'[q], tabs[q]) /\ ~ tabs'[q].clean /\ ~ tabs'[q].settled
                        /\ Pending(tabs'[q].up) \subseteq Pending(tabs[q].up)
                        /\ tabs[q].up = <<>> => tabs'[q].up = <<>>
                        /\ Pending(tabs[q].down) \subseteq Pending(tabs'[q].down)
                        /\ Pending(tabs'[q].down) \subseteq Pending(tabs[q].down) \cup {Refusal(k)}
                        /\ Once(tabs'[q].up, "send") /\ Once(tabs'[q].down, "rejected"),
         \A q \in Tab, x \in Key : /\ InUp(q, x) => InUp(q, x)' \/ Refuted(q, x)'
                                   /\ Refuted(q, x)' => Refuted(q, x) \/ (InUp(q, x) /\ ~ InUp(q, x)'),
         \E q \in Tab : tabs[q].bubble[k] # "none",
         late' \subseteq late
  PROVE  OutboxInv'
<1>1. PICK event : event = [is |-> "new", seq |-> Len(stream) + 1]
  OBVIOUS
<1>2. PICK from, known : from = readRow.upTo /\ known = Len(stream)
  OBVIOUS
<1>3. stream' = Append(stream, k) /\ readRow' = [readRow EXCEPT !.unread = readRow.unread]
  BY DEF AppendMessage
<1>4. readRow' = [readRow EXCEPT !.unread = IF k = "peer" THEN @ + 1 ELSE @] /\ k \in Key \cup {"peer"} /\ k # "peer"
  BY <1>3, OutboxAssumption
<1>5. /\ stream' \in Seq(Key \cup {"peer"}) /\ Grows
      /\ readRow' \in [upTo : Nat, unread : Nat] /\ readRow'.upTo <= Len(stream')
      /\ (readRow.unread = Missed(readRow.upTo, Len(stream)))'
  BY <1>1, <1>2, <1>3, <1>4, Appended
<1>6. OutboxTypes /\ KeysInHand /\ troubles' \in Nat
  BY DEF OutboxInv, OutboxTypes
<1>7. Fits(Refusal(k))'
  <2>1. Refusal(k).is = "rejected"
    BY AsksAndFrames
  <2> QED BY <2>1 DEF Fits
<1>8. KeysInHand'
  <2>1. \A q \in Tab : tabs'[q].bubble = tabs[q].bubble
    BY DEF SameFace
  <2>2. \A q \in Tab, x \in Key : InUp(q, x)' => InUp(q, x)
    BY OneInHand
  <2>3. \A x \in Key : InLate(x)' => InLate(x)
    BY OneInHand
  <2> QED BY <1>3, <1>6, <2>1, <2>2, <2>3, KeysStored
<1>9. \A q \in Tab : /\ SameFace(tabs'[q], tabs[q]) /\ ~ tabs'[q].clean /\ ~ tabs'[q].settled
                     /\ Pending(tabs'[q].up) \subseteq Pending(tabs[q].up)
                     /\ tabs[q].up = <<>> => tabs'[q].up = <<>>
                     /\ Pending(tabs[q].down) \subseteq Pending(tabs'[q].down)
                     /\ \A x \in Pending(tabs'[q].down) : x \in Pending(tabs[q].down) \/ Fits(x)'
  <2>1. ASSUME NEW q \in Tab, NEW x \in Pending(tabs'[q].down) PROVE x \in Pending(tabs[q].down) \/ Fits(x)'
    <3>1. x \in Pending(tabs[q].down) \/ x = Refusal(k)
      OBVIOUS
    <3>2. \A y : y = Refusal(k) => Fits(y)'
      BY <1>7
    <3> QED BY <3>1, <3>2
  <2> QED BY <2>1
<1> QED BY <1>5, <1>6, <1>8, <1>9, UntoldKeeps

\* A read is counted.
LEMMA MarkedLate ==
  ASSUME OutboxInv, NEW upTo \in Nat, upTo <= Len(stream), readRow' = Mark(upTo), stream' = stream,
         NEW from, from = readRow.upTo, NEW known, known = Len(stream)
  PROVE  \E event \in Tellable :
           /\ event = [is |-> "marker", upTo |-> readRow'.upTo, count |-> readRow'.unread]
           /\ event.is = "marker" /\ Fits(event)'
           /\ readRow' \in [upTo : Nat, unread : Nat] /\ readRow'.upTo <= Len(stream')
           /\ (readRow.unread = Missed(readRow.upTo, Len(stream)))'
           /\ Moves(event, from, known, readRow.upTo, Len(stream))'
<1> DEFINE reach == IF upTo > readRow.upTo THEN upTo ELSE readRow.upTo
           c == Missed(reach, Len(stream))
<1>1. /\ readRow \in [upTo : Nat, unread : Nat] /\ Len(stream) \in Nat /\ DOMAIN stream = 1 .. Len(stream)
      /\ readRow.upTo <= Len(stream)
  BY DEF OutboxInv, OutboxTypes, WithinStream
<1>2. reach \in Nat /\ reach <= Len(stream)
  BY <1>1
<1>3. Mark(upTo) = [upTo |-> reach, unread |-> c]
  BY <1>1 DEF Mark, Missed, Fresh
<1> HIDE DEF reach
<1>4. c \in Nat
  BY <1>1, <1>2, UnreadCounts DEF Missed
<1>5. Missed(reach, Len(stream)) = c
  OBVIOUS
<1> HIDE DEF c
<1>6. readRow' = [upTo |-> reach, unread |-> c]
  BY <1>3
<1>7. readRow'.upTo = reach /\ readRow'.unread = c /\ readRow' \in [upTo : Nat, unread : Nat]
  BY <1>2, <1>4, <1>6
<1>8. PICK event : event = [is |-> "marker", upTo |-> reach, count |-> c]
  OBVIOUS
<1>9. event \in Tellable /\ event.is = "marker" /\ event.upTo = reach /\ event.count = c
  BY <1>2, <1>4, <1>8 DEF Tellable
<1>10. Fits(event)'
  BY <1>2, <1>9 DEF Fits
<1>11. (readRow.unread = Missed(readRow.upTo, Len(stream)))'
  BY <1>5, <1>7 DEF Missed
<1>12. Moves(event, from, known, readRow.upTo, Len(stream))'
  BY <1>1, <1>2, <1>5, <1>7, <1>9 DEF Moves, Missed
<1> QED BY <1>2, <1>7, <1>8, <1>9, <1>10, <1>11, <1>12

LEMMA MarkedKeeps ==
  ASSUME OutboxInv, NEW upTo \in Nat, upTo <= Len(stream), readRow' = Mark(upTo), stream' = stream,
         NEW by \in Sources, Tells(by, [is |-> "marker", upTo |-> readRow'.upTo, count |-> readRow'.unread]),
         tabs' \in [Tab -> TabRows],
         \A q \in Tab : /\ Alike(tabs'[q], tabs[q]) /\ ~ tabs'[q].clean
                        /\ tabs'[q].settled => tabs[q].settled /\ telling = {}
                        /\ Pending(tabs'[q].up) \subseteq Pending(tabs[q].up)
                        /\ \A x \in Pending(tabs[q].up) : x.is = "send" => x \in Pending(tabs'[q].up)
                        /\ tabs[q].up = <<>> => tabs'[q].up = <<>>
                        /\ Once(tabs'[q].up, "send"),
         late' \subseteq late, troubles' \in Nat
  PROVE  OutboxInv'
<1>1. PICK from, known : from = readRow.upTo /\ known = Len(stream)
  OBVIOUS
<1>2. PICK event \in Tellable :
        /\ event = [is |-> "marker", upTo |-> readRow'.upTo, count |-> readRow'.unread]
        /\ event.is = "marker" /\ Fits(event)'
        /\ readRow' \in [upTo : Nat, unread : Nat] /\ readRow'.upTo <= Len(stream')
        /\ (readRow.unread = Missed(readRow.upTo, Len(stream)))'
        /\ Moves(event, from, known, readRow.upTo, Len(stream))'
  BY <1>1, MarkedLate
<1>3. telling' = telling \cup {[by |-> by, event |-> event]}
  BY <1>2 DEF Tells
<1>4. OutboxTypes /\ KeysInHand
  BY DEF OutboxInv
<1>5. stream' \in Seq(Key \cup {"peer"}) /\ Grows
  BY <1>4 DEF OutboxTypes, Grows
<1>6. \A q \in Tab : ~ Marks(q)' => ~ Marks(q)
  <2>0. \E e \in telling' : e.event.is = "marker"
    <3> DEFINE news == [by |-> by, event |-> event]
    <3>1. news.event = event /\ news \in telling'
      BY <1>3
    <3> QED BY <1>2, <3>1
  <2>1. \A q \in Tab : Marks(q)'
    BY <2>0, MarksNext
  <2> QED BY <2>1
<1>7. \A q \in Tab, x \in Key : /\ (InUp(q, x)' <=> InUp(q, x)) /\ (Refuted(q, x)' <=> Refuted(q, x))
                                /\ tabs'[q].bubble[x] = tabs[q].bubble[x]
  <2>1. \A x \in Key : Send(x).is = "send"
    BY AsksAndFrames
  <2> QED BY <2>1, OneInHand DEF Alike
<1>8. KeysInHand'
  <2>1. /\ \A x \in Key : (IsStored(x)' <=> IsStored(x)) /\ (InLate(x)' => InLate(x))
        /\ \A s, r \in DOMAIN stream' : stream'[s] = stream'[r] /\ stream'[s] \in Key => s = r
    BY <1>4, OneInHand DEF KeysInHand
  <2>2. \A q \in Tab : Once(tabs'[q].up, "send") /\ Once(tabs'[q].down, "rejected")
    BY <1>4 DEF KeysInHand, Alike
  <2> QED BY <1>4, <1>7, <2>1, <2>2, KeysKept
<1>9. \A q \in Tab, x \in Key : InUp(q, x) => InUp(q, x)' \/ Tells1(event, x)'
  BY <1>7
<1>10. event.is = "new" /\ by \in Tab => stream'[event.seq] # "peer"
  BY <1>2
<1>11. \A q \in Tab : /\ Alike(tabs'[q], tabs[q]) /\ ~ tabs'[q].clean
                      /\ tabs'[q].settled => tabs[q].settled /\ telling = {}
                      /\ Pending(tabs'[q].up) \subseteq Pending(tabs[q].up)
                      /\ tabs[q].up = <<>> => tabs'[q].up = <<>>
                      /\ ~ Marks(q)' => ~ Marks(q)
  BY <1>6
<1> QED BY <1>1, <1>2, <1>3, <1>5, <1>8, <1>9, <1>10, <1>11, CommitKeeps

\* A report of which nobody is told, counted or not.
LEMMA MarkedUntold ==
  ASSUME OutboxInv, stream' = stream, telling' = telling, late' \subseteq late, troubles' \in Nat,
         \/ readRow' = readRow
         \/ \E upTo \in Nat : upTo <= Len(stream) /\ readRow' = Mark(upTo),
         tabs' \in [Tab -> TabRows],
         \A q \in Tab : /\ Alike(tabs'[q], tabs[q])
                        /\ \/ ~ tabs'[q].clean /\ ~ tabs'[q].settled
                           \/ tabs'[q] = tabs[q] /\ readRow' = readRow
                        /\ Pending(tabs'[q].up) \subseteq Pending(tabs[q].up)
                        /\ \A x \in Pending(tabs[q].up) : x.is = "send" => x \in Pending(tabs'[q].up)
                        /\ tabs[q].up = <<>> => tabs'[q].up = <<>>
                        /\ Once(tabs'[q].up, "send")
  PROVE  OutboxInv'
<1>1. OutboxTypes /\ KeysInHand /\ WithinStream /\ Badges
  BY DEF OutboxInv
<1>2. stream' \in Seq(Key \cup {"peer"}) /\ Grows
  BY <1>1 DEF OutboxTypes, Grows
<1>3. /\ readRow' \in [upTo : Nat, unread : Nat] /\ readRow'.upTo <= Len(stream')
      /\ (readRow.unread = Missed(readRow.upTo, Len(stream)))'
  <2>1. CASE readRow' = readRow
    BY <1>1, <2>1 DEF OutboxTypes, WithinStream, Badges, Missed
  <2>2. CASE \E upTo \in Nat : upTo <= Len(stream) /\ readRow' = Mark(upTo)
    <3>1. PICK upTo \in Nat : upTo <= Len(stream) /\ readRow' = Mark(upTo)
      BY <2>2
    <3>2. PICK from, known : from = readRow.upTo /\ known = Len(stream)
      OBVIOUS
    <3> QED BY <3>1, <3>2, MarkedLate
  <2> QED BY <2>1, <2>2
<1>4. \A q \in Tab, x \in Key : /\ (InUp(q, x)' <=> InUp(q, x)) /\ (Refuted(q, x)' <=> Refuted(q, x))
                                /\ tabs'[q].bubble[x] = tabs[q].bubble[x]
  <2>1. \A x \in Key : Send(x).is = "send"
    BY AsksAndFrames
  <2> QED BY <2>1, OneInHand DEF Alike
<1>5. KeysInHand'
  <2>1. /\ \A x \in Key : (IsStored(x)' <=> IsStored(x)) /\ (InLate(x)' => InLate(x))
        /\ \A s, r \in DOMAIN stream' : stream'[s] = stream'[r] /\ stream'[s] \in Key => s = r
    BY <1>1, OneInHand DEF KeysInHand
  <2>2. \A q \in Tab : Once(tabs'[q].up, "send") /\ Once(tabs'[q].down, "rejected")
    BY <1>1 DEF KeysInHand, Alike
  <2> QED BY <1>1, <1>4, <2>1, <2>2, KeysKept
<1>6. \A q \in Tab : /\ SameFace(tabs'[q], tabs[q]) /\ tabs'[q].down = tabs[q].down
  BY DEF Alike, SameFace
<1>7. \A q \in Tab : /\ SameFace(tabs'[q], tabs[q])
                     /\ \/ ~ tabs'[q].clean /\ ~ tabs'[q].settled
                        \/ tabs'[q] = tabs[q] /\ stream' = stream /\ readRow' = readRow
                     /\ Pending(tabs'[q].up) \subseteq Pending(tabs[q].up)
                     /\ tabs[q].up = <<>> => tabs'[q].up = <<>>
                     /\ Pending(tabs[q].down) \subseteq Pending(tabs'[q].down)
                     /\ \A x \in Pending(tabs'[q].down) : x \in Pending(tabs[q].down)
  BY <1>6
<1> QED BY <1>2, <1>3, <1>4, <1>5, <1>7, UntoldKeeps

LEMMA MarkedElsewhereKeeps ==
  ASSUME OutboxInv, NEW upTo \in DOMAIN stream, MarkedElsewhere(upTo) PROVE OutboxInv'
<1>1. OutboxTypes /\ KeysInHand
  BY DEF OutboxInv
<1>2. upTo \in Nat /\ upTo <= Len(stream) /\ troubles' \in Nat /\ "elsewhere" \in Sources
  BY <1>1 DEF OutboxTypes, MarkedElsewhere, Sources
<1>3. /\ readRow' = Mark(upTo) /\ stream' = stream /\ late' = late
      /\ Published("elsewhere", [is |-> "marker", upTo |-> readRow'.upTo, count |-> readRow'.unread])
  BY DEF MarkedElsewhere
<1>4. \A q \in Tab : Once(tabs[q].up, "send")
  BY <1>1 DEF KeysInHand
<1>5. CASE /\ Tells("elsewhere", [is |-> "marker", upTo |-> readRow'.upTo, count |-> readRow'.unread])
           /\ tabs' = Blurred
  <2>1. /\ tabs' \in [Tab -> TabRows]
        /\ \A q \in Tab : /\ Alike(tabs'[q], tabs[q]) /\ tabs'[q].up = tabs[q].up
                          /\ ~ tabs'[q].clean /\ (tabs'[q].settled <=> tabs[q].settled /\ telling = {})
    BY <1>1, <1>5, BlurredRows
  <2>2. \A q \in Tab : Once(tabs'[q].up, "send")
    BY <1>4, <2>1
  <2> QED BY <1>2, <1>3, <1>5, <2>1, <2>2, MarkedKeeps
<1>6. CASE UNCHANGED telling /\ tabs' = Unaware
  <2>1. /\ tabs' \in [Tab -> TabRows]
        /\ \A q \in Tab : /\ Alike(tabs'[q], tabs[q]) /\ tabs'[q].up = tabs[q].up
                          /\ ~ tabs'[q].clean /\ ~ tabs'[q].settled
    BY <1>1, <1>6, UnawareRows
  <2>2. \A q \in Tab : Once(tabs'[q].up, "send")
    BY <1>4, <2>1
  <2> QED BY <1>2, <1>3, <1>6, <2>1, <2>2, MarkedUntold
<1> QED BY <1>3, <1>5, <1>6 DEF Published

\* A request of a socket that died is handled as well.
LEMMA HandleLateKeeps ==
  ASSUME OutboxInv, NEW r \in late, HandleLate(r) PROVE OutboxInv'
<1>1. OutboxTypes /\ KeysInHand /\ WithinStream
  BY DEF OutboxInv
<1>2. r \in TabAsks /\ late' = late \ {r} /\ troubles' = troubles /\ troubles \in Nat /\ Fits(r)
      /\ "late" \in Sources /\ "late" \notin Tab
  BY <1>1, OutboxAssumption DEF OutboxTypes, WithinStream, HandleLate, Sources
<1>3. \A q \in Tab : Once(tabs[q].up, "send") /\ Once(tabs[q].down, "rejected")
  BY <1>1 DEF KeysInHand
<1>a. ASSUME tabs' = Blurred
      PROVE  /\ tabs' \in [Tab -> TabRows]
             /\ \A q \in Tab : /\ Alike(tabs'[q], tabs[q]) /\ tabs'[q].up = tabs[q].up
                               /\ ~ tabs'[q].clean /\ (tabs'[q].settled <=> tabs[q].settled /\ telling = {})
                               /\ Once(tabs'[q].up, "send")
  BY <1>1, <1>3, <1>a, BlurredRows
<1>b. ASSUME tabs' = Unaware
      PROVE  /\ tabs' \in [Tab -> TabRows]
             /\ \A q \in Tab : /\ Alike(tabs'[q], tabs[q]) /\ SameFace(tabs'[q], tabs[q])
                               /\ tabs'[q].up = tabs[q].up /\ tabs'[q].down = tabs[q].down
                               /\ ~ tabs'[q].clean /\ ~ tabs'[q].settled
                               /\ Once(tabs'[q].up, "send") /\ Once(tabs'[q].down, "rejected")
  <2>1. /\ tabs' \in [Tab -> TabRows]
        /\ \A q \in Tab : /\ Alike(tabs'[q], tabs[q]) /\ SameFace(tabs'[q], tabs[q])
                          /\ tabs'[q].up = tabs[q].up /\ ~ tabs'[q].clean /\ ~ tabs'[q].settled
    BY <1>1, <1>b, UnawareRows
  <2>2. \A q \in Tab : tabs'[q].down = tabs[q].down
    BY <2>1 DEF Alike
  <2> QED BY <1>3, <2>1, <2>2
<1>4. CASE /\ r.is = "mark" /\ readRow' = Mark(r.upTo) /\ UNCHANGED stream
           /\ Published("late", [is |-> "marker", upTo |-> readRow'.upTo, count |-> readRow'.unread])
  <2>1. r.upTo \in Nat /\ r.upTo <= Len(stream)
    BY <1>2, <1>4, AsksAndFrames DEF Fits
  <2>2. CASE /\ Tells("late", [is |-> "marker", upTo |-> readRow'.upTo, count |-> readRow'.unread])
             /\ tabs' = Blurred
    BY <1>2, <1>4, <1>a, <2>1, <2>2, MarkedKeeps
  <2>3. CASE UNCHANGED telling /\ tabs' = Unaware
    BY <1>2, <1>4, <1>b, <2>1, <2>3, MarkedUntold
  <2> QED BY <1>4, <2>2, <2>3 DEF Published
<1>5. CASE r.is = "send" /\ ~ IsStored(r.key) /\ AppendMessage(r.key, readRow.unread) /\ Published("late", NextMessage)
  <2>1. PICK k \in Key : r = Send(k) /\ r.key = k
    <3>1. r.key \in Key /\ r = Send(r.key)
      BY <1>2, <1>5, AskIs
    <3> QED BY <3>1
  <2>2. InLate(k) /\ OneAttempt(k) /\ ~ IsStored(k) /\ AppendMessage(k, readRow.unread)
    BY <1>1, <1>5, <2>1 DEF InLate, KeysInHand
  <2>3. \E q \in Tab : tabs[q].bubble[k] # "none"
    BY <2>2 DEF OneAttempt, Traced
  <2>4. CASE Tells("late", NextMessage) /\ tabs' = Blurred
    BY <1>2, <1>a, <2>2, <2>3, <2>4, StoredKeeps
  <2>5. CASE UNCHANGED telling /\ tabs' = Unaware
    <3>1. \A q \in Tab, x \in Key : (InUp(q, x)' <=> InUp(q, x)) /\ (Refuted(q, x)' <=> Refuted(q, x))
      BY <1>b, <2>5, OneInHand
    <3> QED BY <1>2, <1>b, <2>2, <2>3, <2>5, <3>1, StoredUntold
  <2> QED BY <1>5, <2>4, <2>5 DEF Published
<1>6. CASE UNCHANGED <<stream, readRow, tabs, telling>>
  <2>1. OutboxTypes'
    BY <1>1, <1>2, <1>6 DEF OutboxTypes
  <2>2. WithinStream'
    BY <1>1, <1>2, <1>6 DEF WithinStream, Fits, Pending
  <2>3. KeysInHand'
    <3>1. /\ \A x \in Key : (IsStored(x)' <=> IsStored(x)) /\ (InLate(x)' => InLate(x))
          /\ \A s, q \in DOMAIN stream' : stream'[s] = stream'[q] /\ stream'[s] \in Key => s = q
      BY <1>1, <1>2, <1>6, OneInHand DEF KeysInHand
    <3>2. \A q \in Tab, x \in Key : (InUp(q, x)' <=> InUp(q, x)) /\ (Refuted(q, x)' <=> Refuted(q, x))
      BY <1>6, OneInHand
    <3>3. \A q \in Tab : Once(tabs'[q].up, "send") /\ Once(tabs'[q].down, "rejected")
      BY <1>1, <1>6 DEF KeysInHand
    <3> QED BY <1>1, <1>6, <3>1, <3>2, <3>3, KeysKept
  <2>4. Awaited'
    <3>1. \A q \in Tab, x \in Key : (InUp(q, x)' <=> InUp(q, x)) /\ (Refuted(q, x)' <=> Refuted(q, x))
      BY <1>6, OneInHand
    <3> QED BY <1>6, <3>1, AwaitedHere DEF OutboxInv
  <2>5. \A q \in Tab : Untouched(q)' /\ Repaired(q)' /\ Settled(q)'
    <3>1. ASSUME NEW q \in Tab PROVE Untouched(q)' /\ Repaired(q)' /\ Settled(q)'
      <4>1. Marks(q)' <=> Marks(q)
        BY <1>6 DEF Marks, Pending
      <4>2. InStep(q) => InStep(q)'
        BY <1>1, <1>6, <4>1, InStepKept
      <4>3. Untouched(q) /\ Repaired(q) /\ Settled(q)
        BY DEF OutboxInv, Badges
      <4>4. Untouched(q)'
        BY <1>6, <4>3 DEF Untouched, Pending
      <4>5. Repaired(q)'
        BY <1>6, <4>1, <4>3 DEF Repaired
      <4>6. Settled(q)'
        BY <1>6, <4>2, <4>3 DEF Settled
      <4> QED BY <4>4, <4>5, <4>6
    <3> QED BY <3>1
  <2>6. Badges'
    <3>1. (readRow.unread = Missed(readRow.upTo, Len(stream)))'
      BY <1>6 DEF OutboxInv, Badges, Missed
    <3>2. (\A e \in telling : e.event.is = "new" /\ e.by \in Tab => stream[e.event.seq] # "peer")'
      BY <1>6 DEF OutboxInv, Badges
    <3> QED BY <2>5, <3>1, <3>2 DEF Badges
  <2> QED BY <2>1, <2>2, <2>3, <2>4, <2>6 DEF OutboxInv
<1> QED BY <1>4, <1>5, <1>6 DEF HandleLate

LEMMA HandleMarkKeeps ==
  ASSUME OutboxInv, NEW t \in Tab, HandleMark(t) PROVE OutboxInv'
<1>1. OutboxTypes /\ KeysInHand /\ WithinStream
  BY DEF OutboxInv
<1> DEFINE r == Head(tabs[t].up)
<1>2. /\ tabs[t].up # <<>> /\ r.is = "mark" /\ stream' = stream /\ late' = late /\ troubles' = troubles
      /\ \/ /\ readRow' = Mark(r.upTo)
            /\ \/ /\ Tells(t, [is |-> "marker", upTo |-> readRow'.upTo, count |-> readRow'.unread])
                  /\ tabs' = [Blurred EXCEPT ![t] = Served(Blurred[t])]
               \/ UNCHANGED telling /\ tabs' = [Unaware EXCEPT ![t] = Served(Unaware[t])]
         \/ /\ tabs' = [tabs EXCEPT ![t] = Served(Adrift(tabs[t]))]
            /\ UNCHANGED <<readRow, telling>>
  BY DEF HandleMark, Ready
<1>3. /\ tabs \in [Tab -> TabRows] /\ tabs[t].up \in Seq(TabAsks) /\ troubles \in Nat /\ t \in Sources
      /\ late' \subseteq late /\ troubles' \in Nat
  BY <1>1, <1>2 DEF OutboxTypes, TabRows, Sources
<1>4. /\ r \in TabAsks /\ r \in Pending(tabs[t].up) /\ Pending(tabs[t].up) = Pending(Tail(tabs[t].up)) \cup {r}
      /\ Once(Tail(tabs[t].up), "send")
  BY <1>1, <1>2, <1>3, QueueTail, QueueOnce DEF KeysInHand
<1>5. r.upTo \in Nat /\ r.upTo <= Len(stream)
  <2>1. Fits(r)
    BY <1>1, <1>4 DEF WithinStream
  <2> QED BY <1>2, <1>4, <2>1, AsksAndFrames DEF Fits
<1> HIDE DEF r
<1>6. ASSUME \A q \in Tab : tabs'[q].up = IF q = t THEN Tail(tabs[t].up) ELSE tabs[q].up
      PROVE  \A q \in Tab : /\ Pending(tabs'[q].up) \subseteq Pending(tabs[q].up)
                            /\ \A x \in Pending(tabs[q].up) : x.is = "send" => x \in Pending(tabs'[q].up)
                            /\ tabs[q].up = <<>> => tabs'[q].up = <<>>
                            /\ Once(tabs'[q].up, "send")
  BY <1>1, <1>2, <1>4, <1>6 DEF KeysInHand
<1>7. CASE /\ readRow' = Mark(r.upTo)
           /\ Tells(t, [is |-> "marker", upTo |-> readRow'.upTo, count |-> readRow'.unread])
           /\ tabs' = [Blurred EXCEPT ![t] = Served(Blurred[t])]
  <2>1. /\ tabs' \in [Tab -> TabRows]
        /\ \A q \in Tab : /\ Alike(tabs'[q], tabs[q])
                          /\ tabs'[q].up = IF q = t THEN Tail(tabs[t].up) ELSE tabs[q].up
                          /\ ~ tabs'[q].clean /\ (tabs'[q].settled <=> tabs[q].settled /\ telling = {})
    BY <1>1, <1>2, <1>7, BlurredRows
  <2>2. \A q \in Tab : /\ Pending(tabs'[q].up) \subseteq Pending(tabs[q].up)
                       /\ \A x \in Pending(tabs[q].up) : x.is = "send" => x \in Pending(tabs'[q].up)
                       /\ tabs[q].up = <<>> => tabs'[q].up = <<>>
                       /\ Once(tabs'[q].up, "send")
    BY <1>6, <2>1
  <2> QED BY <1>2, <1>3, <1>5, <1>7, <2>1, <2>2, MarkedKeeps
<1>8. CASE /\ readRow' = Mark(r.upTo) /\ UNCHANGED telling
           /\ tabs' = [Unaware EXCEPT ![t] = Served(Unaware[t])]
  <2> DEFINE z == Unaware
             new == Served(z[t])
  <2>1. /\ z \in [Tab -> TabRows]
        /\ \A q \in Tab : /\ z[q] \in TabRows /\ Alike(z[q], tabs[q])
                          /\ z[q].up = tabs[q].up /\ ~ z[q].clean /\ ~ z[q].settled
    BY <1>1, UnawareRows
  <2>2. tabs' = [z EXCEPT ![t] = new]
    BY <1>8
  <2> HIDE DEF z
  <2>3. /\ new \in TabRows /\ Alike(new, z[t]) /\ new.up = Tail(tabs[t].up) /\ ~ new.clean /\ ~ new.settled
    BY <1>2, <2>1, ServedRow
  <2> HIDE DEF new
  <2>4. tabs' \in [Tab -> TabRows] /\ tabs'[t] = new /\ \A q \in Tab : q # t => tabs'[q] = z[q]
    BY <2>1, <2>2, <2>3
  <2>5. Alike(new, tabs[t])
    BY <2>1, <2>3 DEF Alike
  <2>6. \A q \in Tab : /\ Alike(tabs'[q], tabs[q]) /\ ~ tabs'[q].clean /\ ~ tabs'[q].settled
                       /\ tabs'[q].up = IF q = t THEN Tail(tabs[t].up) ELSE tabs[q].up
    BY <2>1, <2>3, <2>4, <2>5
  <2>7. \A q \in Tab : /\ Pending(tabs'[q].up) \subseteq Pending(tabs[q].up)
                       /\ \A x \in Pending(tabs[q].up) : x.is = "send" => x \in Pending(tabs'[q].up)
                       /\ tabs[q].up = <<>> => tabs'[q].up = <<>>
                       /\ Once(tabs'[q].up, "send")
    BY <1>6, <2>6
  <2> QED BY <1>2, <1>3, <1>5, <1>8, <2>4, <2>6, <2>7, MarkedUntold
<1>9. CASE tabs' = [tabs EXCEPT ![t] = Served(Adrift(tabs[t]))] /\ UNCHANGED <<readRow, telling>>
  <2> DEFINE z == Adrift(tabs[t])
             new == Served(z)
  <2>1. /\ z \in TabRows /\ Alike(z, tabs[t]) /\ z.up = tabs[t].up /\ ~ z.clean /\ ~ z.settled
    BY <1>3, AdriftRow
  <2>2. tabs' = [tabs EXCEPT ![t] = new]
    BY <1>9
  <2> HIDE DEF z
  <2>3. /\ new \in TabRows /\ Alike(new, z) /\ new.up = Tail(tabs[t].up) /\ ~ new.clean /\ ~ new.settled
    BY <1>2, <2>1, ServedRow
  <2> HIDE DEF new
  <2>4. tabs' \in [Tab -> TabRows] /\ tabs'[t] = new /\ \A q \in Tab : q # t => tabs'[q] = tabs[q]
    BY <1>3, <2>2, <2>3, OneTab
  <2>5. Alike(new, tabs[t]) /\ \A q \in Tab : Alike(tabs[q], tabs[q])
    BY <2>1, <2>3 DEF Alike
  <2>6. \A q \in Tab : /\ Alike(tabs'[q], tabs[q])
                       /\ \/ ~ tabs'[q].clean /\ ~ tabs'[q].settled
                          \/ tabs'[q] = tabs[q] /\ readRow' = readRow
                       /\ tabs'[q].up = IF q = t THEN Tail(tabs[t].up) ELSE tabs[q].up
    BY <1>9, <2>3, <2>4, <2>5
  <2>7. \A q \in Tab : /\ Pending(tabs'[q].up) \subseteq Pending(tabs[q].up)
                       /\ \A x \in Pending(tabs[q].up) : x.is = "send" => x \in Pending(tabs'[q].up)
                       /\ tabs[q].up = <<>> => tabs'[q].up = <<>>
                       /\ Once(tabs'[q].up, "send")
    BY <1>6, <2>6
  <2> QED BY <1>2, <1>3, <1>9, <2>4, <2>6, <2>7, MarkedUntold
<1> QED BY <1>2, <1>7, <1>8, <1>9

\* A retry is answered with the row it finds.
LEMMA FoundKeeps ==
  ASSUME OutboxInv, NEW t \in Tab, NEW k \in Key, tabs[t].up # <<>>, Head(tabs[t].up) = Send(k),
         NEW s \in DOMAIN stream, stream[s] = k, NEW x \in Frames, x = [is |-> "ack", seq |-> s],
         tabs' = [tabs EXCEPT ![t] = Replied(Adrift(tabs[t]), x)],
         UNCHANGED <<stream, readRow, telling, late, troubles>>
  PROVE  OutboxInv'
<1>1. OutboxTypes /\ KeysInHand /\ WithinStream /\ Badges
  BY DEF OutboxInv
<1>2. /\ tabs \in [Tab -> TabRows] /\ tabs[t].up \in Seq(TabAsks) /\ tabs[t].down \in Seq(Frames)
      /\ s \in 1 .. Len(stream) /\ x.is = "ack" /\ x.seq = s
  BY <1>1 DEF OutboxTypes, TabRows
<1> DEFINE z == Adrift(tabs[t])
           new == Replied(z, x)
<1>3. /\ z \in TabRows /\ Alike(z, tabs[t]) /\ z.up = tabs[t].up /\ ~ z.clean /\ ~ z.settled
  BY <1>2, AdriftRow
<1>4. tabs' = [tabs EXCEPT ![t] = new]
  OBVIOUS
<1> HIDE DEF z
<1>5. /\ new \in TabRows /\ SameFace(new, z) /\ new.up = Tail(tabs[t].up) /\ new.down = Append(tabs[t].down, x)
      /\ ~ new.clean /\ ~ new.settled
  <2>1. z.down = tabs[t].down
    BY <1>3 DEF Alike
  <2> QED BY <1>3, <2>1, RepliedRow
<1> HIDE DEF new
<1>6. tabs' \in [Tab -> TabRows] /\ tabs'[t] = new /\ \A q \in Tab : q # t => tabs'[q] = tabs[q]
  BY <1>2, <1>4, <1>5, OneTab
<1>7. SameFace(new, tabs[t]) /\ \A q \in Tab : SameFace(tabs[q], tabs[q])
  BY <1>3, <1>5 DEF Alike, SameFace
<1>8. /\ Pending(tabs[t].up) = Pending(new.up) \cup {Send(k)}
      /\ Pending(new.down) = Pending(tabs[t].down) \cup {x}
  BY <1>2, <1>5, QueueTail, QueueAppend
<1>9. /\ Once(new.up, "send") /\ Once(new.down, "rejected")
  <2>1. Once(tabs[t].up, "send") /\ Once(tabs[t].down, "rejected")
    BY <1>1 DEF KeysInHand
  <2>2. Once(new.up, "send")
    BY <1>2, <1>5, <2>1, QueueOnce
  <2>3. x.is # "rejected"
    BY <1>2
  <2> QED BY <1>2, <1>5, <2>1, <2>2, <2>3, QueueOnce
<1>10. \A q \in Tab, y \in Key : /\ InUp(q, y)' => InUp(q, y)
                                 /\ InUp(q, y) => InUp(q, y)' \/ (q = t /\ y = k)
                                 /\ Refuted(q, y)' <=> Refuted(q, y)
  <2>1. \A y \in Key : /\ Send(y) = Send(k) => y = k
                       /\ Refusal(y) # x
    BY <1>2, AsksAndFrames
  <2>2. ASSUME NEW q \in Tab, NEW y \in Key
        PROVE  /\ InUp(q, y)' => InUp(q, y)
               /\ InUp(q, y) => InUp(q, y)' \/ (q = t /\ y = k)
               /\ Refuted(q, y)' <=> Refuted(q, y)
    <3>1. CASE q = t
      BY <1>6, <1>8, <2>1, <3>1, OneInHand
    <3>2. CASE q # t
      BY <1>6, <3>2, OneInHand
    <3> QED BY <3>1, <3>2
  <2> QED BY <2>2
<1>11. \A q \in Tab : SameFace(tabs'[q], tabs[q]) /\ tabs'[q].bubble = tabs[q].bubble
  BY <1>6, <1>7 DEF SameFace
<1>12. KeysInHand'
  <2>1. /\ \A y \in Key : (IsStored(y)' <=> IsStored(y)) /\ (InLate(y)' => InLate(y))
        /\ \A p, r \in DOMAIN stream' : stream'[p] = stream'[r] /\ stream'[p] \in Key => p = r
    BY <1>1, OneInHand DEF KeysInHand
  <2>2. \A q \in Tab : Once(tabs'[q].up, "send") /\ Once(tabs'[q].down, "rejected")
    BY <1>1, <1>6, <1>9 DEF KeysInHand
  <2> QED BY <1>1, <1>10, <1>11, <2>1, <2>2, KeysKept
<1>13. Fits(x)' /\ Tells1(x, k)'
  BY <1>2 DEF Fits, Tells1
<1>14. \A q \in Tab, y \in Key : InUp(q, y) => \/ InUp(q, y)' \/ Refuted(q, y)'
                                             \/ \E f \in Pending(tabs'[q].down) : Tells1(f, y)'
  <2>1. x \in Pending(tabs'[t].down)
    BY <1>6, <1>8
  <2>2. \A y : y = k => Tells1(x, y)'
    BY <1>13
  <2> QED BY <1>10, <2>1, <2>2
<1>15. \A q \in Tab : /\ SameFace(tabs'[q], tabs[q])
                      /\ \/ ~ tabs'[q].clean /\ ~ tabs'[q].settled
                         \/ tabs'[q] = tabs[q] /\ stream' = stream /\ readRow' = readRow
                      /\ Pending(tabs'[q].up) \subseteq Pending(tabs[q].up)
                      /\ tabs[q].up = <<>> => tabs'[q].up = <<>>
                      /\ Pending(tabs[q].down) \subseteq Pending(tabs'[q].down)
                      /\ \A f \in Pending(tabs'[q].down) : f \in Pending(tabs[q].down) \/ Fits(f)'
  <2>1. ASSUME NEW q \in Tab, q = t, NEW f \in Pending(tabs'[q].down)
        PROVE  f \in Pending(tabs[q].down) \/ Fits(f)'
    <3>1. f \in Pending(tabs[t].down) \/ f = x
      BY <1>6, <1>8, <2>1
    <3>2. \A y : y = x => Fits(y)'
      BY <1>13
    <3> QED BY <2>1, <3>1, <3>2
  <2>2. ASSUME NEW q \in Tab, q = t
        PROVE  /\ Pending(tabs'[q].up) \subseteq Pending(tabs[q].up)
               /\ tabs[q].up # <<>>
               /\ Pending(tabs[q].down) \subseteq Pending(tabs'[q].down)
               /\ ~ tabs'[q].clean /\ ~ tabs'[q].settled
    BY <1>5, <1>6, <1>8, <2>2
  <2> QED BY <1>6, <1>11, <2>1, <2>2
<1>16. Grows /\ stream' \in Seq(Key \cup {"peer"}) /\ readRow' \in [upTo : Nat, unread : Nat]
       /\ readRow'.upTo <= Len(stream') /\ (readRow.unread = Missed(readRow.upTo, Len(stream)))'
       /\ late' \subseteq late /\ troubles' \in Nat
  BY <1>1 DEF Grows, OutboxTypes, WithinStream, Badges, Missed
<1> QED BY <1>6, <1>12, <1>14, <1>15, <1>16, UntoldKeeps

LEMMA HandleSendKeeps ==
  ASSUME OutboxInv, NEW t \in Tab, HandleSend(t) PROVE OutboxInv'
<1>1. OutboxTypes /\ KeysInHand /\ WithinStream
  BY DEF OutboxInv
<1>2. tabs[t].up # <<>> /\ Head(tabs[t].up).is = "send" /\ late' = late /\ troubles' = troubles
  BY DEF HandleSend, Ready
<1>3. tabs[t].up \in Seq(TabAsks) /\ tabs[t].down \in Seq(Frames) /\ t \in Sources
  BY <1>1 DEF OutboxTypes, TabRows, Sources
<1>4. Head(tabs[t].up) \in TabAsks
  BY <1>2, <1>3, QueueTail
<1>5. PICK k \in Key : Head(tabs[t].up) = Send(k) /\ Head(tabs[t].up).key = k
  <2>1. Head(tabs[t].up).key \in Key /\ Head(tabs[t].up) = Send(Head(tabs[t].up).key)
    BY <1>2, <1>4, AskIs
  <2> QED BY <2>1
<1>6. /\ Pending(tabs[t].up) = Pending(Tail(tabs[t].up)) \cup {Send(k)}
      /\ Once(Tail(tabs[t].up), "send") /\ Send(k) \notin Pending(Tail(tabs[t].up))
      /\ Pending(Tail(tabs[t].up)) \subseteq Pending(tabs[t].up)
  BY <1>1, <1>2, <1>3, <1>5, QueueTail, QueueOnce DEF KeysInHand
<1>7. InUp(t, k) /\ OneAttempt(k)
  BY <1>1, <1>6, OneInHand DEF KeysInHand
<1>8. (\E q \in Tab : tabs[q].bubble[k] # "none") /\ ~ Refuted(t, k)
  BY <1>7 DEF OneAttempt, Attempted, Exclusive
<1>9. CASE /\ ~ IsStored(k) /\ AppendMessage(k, readRow.unread) /\ Tells(t, NextMessage)
           /\ tabs' = [Blurred EXCEPT ![t] = Served(Blurred[t])]
  <2>1. /\ tabs' \in [Tab -> TabRows]
        /\ \A q \in Tab : /\ Alike(tabs'[q], tabs[q])
                          /\ tabs'[q].up = IF q = t THEN Tail(tabs[t].up) ELSE tabs[q].up
                          /\ ~ tabs'[q].clean /\ (tabs'[q].settled <=> tabs[q].settled /\ telling = {})
    BY <1>1, <1>2, <1>9, BlurredRows
  <2>2. \A q \in Tab : /\ Pending(tabs'[q].up) \subseteq Pending(tabs[q].up)
                       /\ Pending(tabs[q].up) \subseteq Pending(tabs'[q].up) \cup {Send(k)}
                       /\ tabs[q].up = <<>> => tabs'[q].up = <<>>
                       /\ Once(tabs'[q].up, "send")
    <3>1. ASSUME NEW q \in Tab, q # t PROVE tabs'[q].up = tabs[q].up /\ Once(tabs[q].up, "send")
      BY <1>1, <2>1, <3>1 DEF KeysInHand
    <3> QED BY <1>2, <1>6, <2>1, <3>1
  <2>3. late' \subseteq late
    BY <1>2
  <2> QED BY <1>2, <1>3, <1>8, <1>9, <2>1, <2>2, <2>3, StoredKeeps
<1>10. CASE /\ ~ IsStored(k) /\ AppendMessage(k, readRow.unread) /\ UNCHANGED telling
            /\ tabs' = [Unaware EXCEPT ![t] = Replied(Unaware[t], Refusal(k))]
  <2> DEFINE z == Unaware
             x == Refusal(k)
             new == Replied(z[t], x)
  <2>1. /\ z \in [Tab -> TabRows]
        /\ \A q \in Tab : /\ z[q] \in TabRows /\ Alike(z[q], tabs[q]) /\ SameFace(z[q], tabs[q])
                          /\ z[q].up = tabs[q].up /\ ~ z[q].clean /\ ~ z[q].settled
    BY <1>1, UnawareRows
  <2>2. \A q \in Tab : z[q].down = tabs[q].down
    BY <2>1 DEF Alike
  <2>3. tabs' = [z EXCEPT ![t] = new]
    BY <1>10
  <2>4. /\ x \in Frames /\ x.is = "rejected" /\ x = Refusal(k)
        /\ \A y \in Key : (Refusal(y) = x => y = k) /\ (Send(y) = Send(k) => y = k)
    BY AsksAndFrames
  <2> HIDE DEF z, x
  <2>5. /\ new \in TabRows /\ SameFace(new, z[t]) /\ new.up = Tail(tabs[t].up) /\ new.down = Append(tabs[t].down, x)
        /\ ~ new.clean /\ ~ new.settled
    BY <1>2, <2>1, <2>2, <2>4, RepliedRow
  <2> HIDE DEF new
  <2>6. tabs' \in [Tab -> TabRows] /\ tabs'[t] = new /\ \A q \in Tab : q # t => tabs'[q] = z[q]
    BY <2>1, <2>3, <2>5
  <2>7. SameFace(new, tabs[t])
    BY <2>1, <2>5 DEF SameFace
  <2>8. Pending(new.down) = Pending(tabs[t].down) \cup {x} /\ Once(new.down, "rejected")
    <3>1. x \notin Pending(tabs[t].down) /\ Once(tabs[t].down, "rejected")
      BY <1>1, <1>8, <2>4, OneInHand DEF KeysInHand
    <3> QED BY <1>3, <2>4, <2>5, <3>1, QueueAppend, QueueOnce
  <2>9. \A q \in Tab : q # t => /\ tabs'[q].up = tabs[q].up /\ tabs'[q].down = tabs[q].down
                               /\ Once(tabs[q].up, "send") /\ Once(tabs[q].down, "rejected")
    BY <1>1, <2>1, <2>2, <2>6 DEF KeysInHand
  <2>10. \A q \in Tab : /\ SameFace(tabs'[q], tabs[q]) /\ ~ tabs'[q].clean /\ ~ tabs'[q].settled
    BY <2>1, <2>5, <2>6, <2>7
  <2>11. \A q \in Tab : /\ Pending(tabs'[q].up) \subseteq Pending(tabs[q].up)
                        /\ tabs[q].up = <<>> => tabs'[q].up = <<>>
                        /\ Pending(tabs[q].down) \subseteq Pending(tabs'[q].down)
                        /\ Pending(tabs'[q].down) \subseteq Pending(tabs[q].down) \cup {Refusal(k)}
                        /\ Once(tabs'[q].up, "send") /\ Once(tabs'[q].down, "rejected")
    <3>1. ASSUME NEW q \in Tab, q = t
          PROVE  /\ Pending(tabs'[q].up) \subseteq Pending(tabs[q].up)
                 /\ tabs[q].up # <<>>
                 /\ Pending(tabs[q].down) \subseteq Pending(tabs'[q].down)
                 /\ Pending(tabs'[q].down) \subseteq Pending(tabs[q].down) \cup {Refusal(k)}
                 /\ Once(tabs'[q].up, "send") /\ Once(tabs'[q].down, "rejected")
      BY <1>2, <1>6, <2>4, <2>5, <2>6, <2>8, <3>1
    <3> QED BY <2>9, <3>1
  <2>12. \A q \in Tab, y \in Key : /\ InUp(q, y) => InUp(q, y)' \/ Refuted(q, y)'
                                   /\ Refuted(q, y)' => Refuted(q, y) \/ (InUp(q, y) /\ ~ InUp(q, y)')
    <3>1. ASSUME NEW y \in Key
          PROVE  /\ InUp(t, y) => InUp(t, y)' \/ Refuted(t, y)'
                 /\ Refuted(t, y)' => Refuted(t, y) \/ (InUp(t, y) /\ ~ InUp(t, y)')
      <4>1. CASE y = k
        <5>1. Refuted(t, y)' /\ InUp(t, y) /\ ~ InUp(t, y)'
          BY <1>6, <1>7, <2>4, <2>5, <2>6, <2>8, <4>1, OneInHand
        <5> QED BY <5>1
      <4>2. CASE y # k
        <5>1. (InUp(t, y)' <=> InUp(t, y)) /\ (Refuted(t, y)' <=> Refuted(t, y))
          <6>1. Send(y) # Send(k) /\ Refusal(y) # x
            BY <2>4, <4>2
          <6>2. /\ Pending(tabs'[t].up) = Pending(Tail(tabs[t].up))
                /\ Pending(tabs'[t].down) = Pending(tabs[t].down) \cup {x}
            BY <2>5, <2>6, <2>8
          <6>3. /\ Send(y) \in Pending(tabs'[t].up) <=> Send(y) \in Pending(tabs[t].up)
                /\ Refusal(y) \in Pending(tabs'[t].down) <=> Refusal(y) \in Pending(tabs[t].down)
            BY <1>6, <6>1, <6>2
          <6> QED BY <6>3, OneInHand
        <5> QED BY <5>1
      <4> QED BY <4>1, <4>2
    <3>2. ASSUME NEW q \in Tab, NEW y \in Key, q # t
          PROVE  (InUp(q, y)' <=> InUp(q, y)) /\ (Refuted(q, y)' <=> Refuted(q, y))
      BY <2>9, <3>2, OneInHand
    <3> QED BY <3>1, <3>2
  <2>13. late' \subseteq late
    BY <1>2
  <2> QED BY <1>2, <1>8, <1>10, <2>6, <2>10, <2>11, <2>12, <2>13, StoredUntold
<1>11. CASE /\ IsStored(k)
            /\ LET s == CHOOSE r \in DOMAIN stream : stream[r] = k IN
               tabs' = [tabs EXCEPT ![t] = Replied(Adrift(tabs[t]), [is |-> "ack", seq |-> s])]
            /\ UNCHANGED <<stream, readRow, telling>>
  <2>1. PICK s \in DOMAIN stream : stream[s] = k /\ s = CHOOSE r \in DOMAIN stream : stream[r] = k
    BY <1>11 DEF IsStored
  <2>2. PICK x : x = [is |-> "ack", seq |-> s]
    OBVIOUS
  <2>3. x \in Frames
    <3>1. s \in Nat
      BY <1>1, <2>1 DEF OutboxTypes
    <3> QED BY <2>2, <3>1 DEF Frames
  <2>4. tabs' = [tabs EXCEPT ![t] = Replied(Adrift(tabs[t]), x)]
    BY <1>11, <2>1, <2>2
  <2> QED BY <1>2, <1>5, <1>11, <2>1, <2>2, <2>3, <2>4, FoundKeeps
<1>12. CASE /\ tabs' = [tabs EXCEPT ![t] = Replied(tabs[t], Refusal(k))]
            /\ UNCHANGED <<stream, readRow, telling>>
  BY <1>2, <1>5, <1>12, RefusedKeeps
<1> QED BY <1>5, <1>9, <1>10, <1>11, <1>12 DEF HandleSend

\* The open tabs are told.
LEMMA TellTabsKeeps ==
  ASSUME OutboxInv, NEW e \in telling, TellTabs(e) PROVE OutboxInv'
<1>1. OutboxTypes /\ KeysInHand /\ WithinStream /\ Awaited /\ Badges
  BY DEF OutboxInv
<1>2. /\ telling' = telling \ {e} /\ UNCHANGED <<stream, readRow, late, troubles>>
      /\ tabs' = [t \in Tab |-> IF tabs[t].open THEN [tabs[t] EXCEPT !.down = @ \o FramesOf(t, e)] ELSE tabs[t]]
  BY DEF TellTabs
<1>3. ASSUME NEW q \in Tab
      PROVE  /\ tabs'[q] \in TabRows /\ tabs'[q].up = tabs[q].up /\ SameBut(tabs'[q], tabs[q])
             /\ tabs'[q].held = tabs[q].held /\ tabs'[q].bubble = tabs[q].bubble /\ tabs'[q].badge = tabs[q].badge
             /\ tabs'[q].reported = tabs[q].reported /\ tabs'[q].repair = tabs[q].repair
             /\ tabs'[q].down = IF tabs[q].open THEN tabs[q].down \o FramesOf(q, e) ELSE tabs[q].down
             /\ Once(tabs'[q].down, "rejected")
             /\ Pending(tabs[q].down) \subseteq Pending(tabs'[q].down)
             /\ tabs[q].open => e.event \in Pending(tabs'[q].down)
             /\ \A x \in Pending(tabs'[q].down) \ Pending(tabs[q].down) :
                  x.is \in {"new", "ack", "marker"} /\ Fits(x)
  <2> DEFINE d == tabs[q].down \o FramesOf(q, e)
             new == [tabs[q] EXCEPT !.down = d]
             ack == [is |-> "ack", seq |-> e.event.seq]
  <2>1. tabs[q] \in TabRows /\ tabs[q].down \in Seq(Frames) /\ Once(tabs[q].down, "rejected")
    BY <1>1 DEF OutboxTypes, TabRows, KeysInHand
  <2>2. /\ e.event \in Tellable /\ e.event \in Frames
        /\ e.event.is = "new" => ack \in Frames /\ ack.is = "ack" /\ ack.seq = e.event.seq
        /\ \/ d = Append(tabs[q].down, e.event)
           \/ e.event.is = "new" /\ d = Append(Append(tabs[q].down, ack), e.event)
    BY <1>1, HeardFrames
  <2>3. e.event.is \in {"new", "marker"} /\ Fits(e.event)
    BY <1>1, <2>2, AsksAndFrames DEF WithinStream
  <2>4. e.event.is = "new" => Fits(ack)
    BY <2>2, <2>3 DEF Fits
  <2> HIDE DEF ack
  <2>5. /\ d \in Seq(Frames) /\ Once(d, "rejected") /\ Pending(tabs[q].down) \subseteq Pending(d)
        /\ e.event \in Pending(d)
        /\ \A x \in Pending(d) \ Pending(tabs[q].down) : x.is \in {"new", "ack", "marker"} /\ Fits(x)
    <3>1. CASE d = Append(tabs[q].down, e.event)
      <4>1. Append(tabs[q].down, e.event) \in Seq(Frames)
            /\ Pending(Append(tabs[q].down, e.event)) = Pending(tabs[q].down) \cup {e.event}
        BY <2>1, <2>2, QueueAppend
      <4>2. Once(Append(tabs[q].down, e.event), "rejected")
        BY <2>1, <2>2, <2>3, QueueOnce
      <4> HIDE DEF d
      <4> QED BY <2>3, <3>1, <4>1, <4>2
    <3>2. CASE e.event.is = "new" /\ d = Append(Append(tabs[q].down, ack), e.event)
      <4> DEFINE half == Append(tabs[q].down, ack)
      <4>1. half \in Seq(Frames) /\ Pending(half) = Pending(tabs[q].down) \cup {ack}
        BY <2>1, <2>2, <3>2, QueueAppend
      <4>2. Once(half, "rejected")
        BY <2>1, <2>2, <3>2, QueueOnce
      <4> HIDE DEF half
      <4>3. Append(half, e.event) \in Seq(Frames) /\ Pending(Append(half, e.event)) = Pending(half) \cup {e.event}
        BY <2>2, <4>1, QueueAppend
      <4>4. Once(Append(half, e.event), "rejected")
        BY <2>2, <2>3, <4>1, <4>2, QueueOnce
      <4>5. d = Append(half, e.event)
        BY <3>2 DEF half
      <4> HIDE DEF d
      <4> QED BY <2>2, <2>3, <2>4, <3>2, <4>1, <4>3, <4>4, <4>5
    <3> QED BY <2>2, <3>1, <3>2
  <2> HIDE DEF d
  <2>6. new \in TabRows /\ new.up = tabs[q].up /\ new.down = d /\ new.held = tabs[q].held
        /\ new.bubble = tabs[q].bubble /\ new.badge = tabs[q].badge
        /\ new.reported = tabs[q].reported /\ new.repair = tabs[q].repair
    BY <2>1, <2>5 DEF TabRows
  <2>7. SameBut(new, tabs[q])
    BY <2>1, <2>5 DEF TabRows, SameBut
  <2>8. tabs'[q] = IF tabs[q].open THEN new ELSE tabs[q]
    BY <1>2 DEF d
  <2> HIDE DEF new
  <2>9. CASE tabs[q].open
    <3>1. tabs'[q] = new
      BY <2>8, <2>9
    <3> QED BY <2>5, <2>6, <2>7, <2>9, <3>1 DEF d
  <2>10. CASE ~ tabs[q].open
    <3>1. tabs'[q] = tabs[q]
      BY <2>8, <2>10
    <3> QED BY <2>1, <2>10, <3>1 DEF SameBut
  <2> QED BY <2>9, <2>10
<1>4. OutboxTypes'
  <2>1. tabs' \in [Tab -> TabRows]
    <3>1. tabs' = [q \in Tab |-> tabs'[q]]
      BY <1>2
    <3> QED BY <1>3, <3>1
  <2> QED BY <1>1, <1>2, <2>1 DEF OutboxTypes
<1>5. \A x : Fits(x)' <=> Fits(x)
  BY <1>2 DEF Fits
<1>6. WithinStream'
  <2>1. ASSUME NEW q \in Tab
        PROVE  /\ tabs'[q].held \subseteq 1 .. Len(stream') /\ tabs'[q].reported <= Len(stream')
               /\ tabs'[q].open \/ tabs'[q].up = <<>>
               /\ \A x \in Pending(tabs'[q].up) : Fits(x)'
               /\ \A x \in Pending(tabs'[q].down) : Fits(x)'
    <3>1. /\ tabs[q].held \subseteq 1 .. Len(stream) /\ tabs[q].reported <= Len(stream)
          /\ tabs[q].open \/ tabs[q].up = <<>>
          /\ \A x \in Pending(tabs[q].up) : Fits(x)
          /\ \A x \in Pending(tabs[q].down) : Fits(x)
      BY <1>1 DEF WithinStream
    <3>2. \A x \in Pending(tabs'[q].down) : Fits(x)
      BY <1>3, <3>1
    <3> QED BY <1>2, <1>3, <1>5, <3>1, <3>2 DEF SameBut
  <2>2. (\A x \in telling' : Fits(x.event)') /\ (\A r \in late' : Fits(r)') /\ readRow'.upTo <= Len(stream')
    BY <1>1, <1>2, <1>5 DEF WithinStream
  <2> QED BY <2>1, <2>2 DEF WithinStream, Pending
<1>7. \A q \in Tab, x \in Key : (InUp(q, x)' <=> InUp(q, x)) /\ (Refuted(q, x)' <=> Refuted(q, x))
  <2>1. \A x \in Key : Refusal(x).is = "rejected"
    BY AsksAndFrames
  <2>2. \A q \in Tab, x \in Key : Refusal(x) \in Pending(tabs'[q].down) <=> Refusal(x) \in Pending(tabs[q].down)
    <3>1. ASSUME NEW q \in Tab, NEW x \in Key
          PROVE  Refusal(x) \in Pending(tabs'[q].down) <=> Refusal(x) \in Pending(tabs[q].down)
      <4>1. Refusal(x).is \notin {"new", "ack", "marker"}
        BY <2>1
      <4>2. /\ Pending(tabs[q].down) \subseteq Pending(tabs'[q].down)
            /\ \A y \in Pending(tabs'[q].down) \ Pending(tabs[q].down) : y.is \in {"new", "ack", "marker"}
        BY <1>3
      <4> QED BY <4>1, <4>2
    <3> QED BY <3>1
  <2> QED BY <1>3, <2>2, OneInHand
<1>8. KeysInHand'
  <2>1. /\ \A x \in Key : (IsStored(x)' <=> IsStored(x)) /\ (InLate(x)' => InLate(x))
        /\ \A s, q \in DOMAIN stream' : stream'[s] = stream'[q] /\ stream'[s] \in Key => s = q
    BY <1>1, <1>2, OneInHand DEF KeysInHand
  <2>2. \A q \in Tab : Once(tabs'[q].up, "send") /\ Once(tabs'[q].down, "rejected")
    BY <1>1, <1>3 DEF KeysInHand
  <2>3. \A q \in Tab, x \in Key : tabs'[q].bubble[x] = tabs[q].bubble[x]
    BY <1>3
  <2> QED BY <1>1, <1>7, <2>1, <2>2, <2>3, KeysKept
<1>9. \A x, k : Tells1(x, k)' <=> Tells1(x, k)
  BY <1>2 DEF Tells1
<1>10. Awaited'
  <2>1. ASSUME NEW q \in Tab, NEW k \in Key, tabs'[q].bubble[k] = "sending", k \notin tabs'[q].orphaned
        PROVE  /\ tabs[q].bubble[k] = "sending" /\ k \notin tabs[q].orphaned
               /\ tabs[q].open => tabs'[q].open
               /\ InUp(q, k) \/ Refuted(q, k) =>
                   InUp(q, k)' \/ Refuted(q, k)' \/ \E f \in telling' : Tells1(f.event, k)'
               /\ \A f \in telling : tabs[q].open /\ Tells1(f.event, k) =>
                   \/ \E g \in telling' : Tells1(g.event, k)'
                   \/ \E x \in Pending(tabs'[q].down) : Tells1(x, k)'
               /\ \A x \in Pending(tabs[q].down) : Tells1(x, k) =>
                   \E y \in Pending(tabs'[q].down) : Tells1(y, k)'
    <3>1. /\ tabs'[q].bubble = tabs[q].bubble /\ SameBut(tabs'[q], tabs[q])
          /\ Pending(tabs[q].down) \subseteq Pending(tabs'[q].down)
          /\ tabs[q].open => e.event \in Pending(tabs'[q].down)
      BY <1>3
    <3>2. ASSUME NEW f \in telling, tabs[q].open, Tells1(f.event, k)
          PROVE  \/ \E g \in telling' : Tells1(g.event, k)'
                 \/ \E x \in Pending(tabs'[q].down) : Tells1(x, k)'
      <4>1. CASE f = e
        BY <1>9, <3>1, <3>2, <4>1
      <4>2. CASE f # e
        BY <1>2, <1>9, <3>2, <4>2
      <4> QED BY <4>1, <4>2
    <3> QED BY <1>7, <1>9, <2>1, <3>1, <3>2 DEF SameBut
  <2> QED BY <1>1, <2>1, AwaitedKept
<1>11. ASSUME NEW q \in Tab PROVE (Untouched(q) /\ Repaired(q) /\ Settled(q))'
  <2>1. ~ tabs[q].clean /\ ~ tabs'[q].clean
    BY <1>1, <1>3 DEF Badges, Untouched, SameBut
  <2>2. ASSUME tabs'[q].settled PROVE (tabs[q].open /\ tabs[q].repair = "none" /\ InStep(q))'
    <3>1. tabs[q].open /\ tabs[q].repair = "none" /\ InStep(q)
      BY <1>1, <1>3, <2>2 DEF Badges, Settled, SameBut
    <3>2. tabs'[q].open /\ tabs'[q].repair = "none" /\ tabs'[q].down = tabs[q].down \o FramesOf(q, e)
          /\ tabs'[q].held = tabs[q].held /\ tabs'[q].badge = tabs[q].badge
      BY <1>3, <3>1 DEF SameBut
    <3>3. ~ Marks(q)' => ~ Marks(q)
      <4>1. /\ tabs'[q].up = tabs[q].up /\ Pending(tabs[q].down) \subseteq Pending(tabs'[q].down)
            /\ e.event \in Pending(tabs'[q].down)
        BY <1>3, <3>1
      <4> QED BY <1>2, <4>1, MarksNext DEF Marks
    <3>4. e.event.is = "new" /\ e.by \in Tab => stream[e.event.seq] # "peer"
      BY <1>1 DEF Badges
    <3> QED BY <1>1, <1>2, <1>4, <3>1, <3>2, <3>3, <3>4, InStepTold
  <2> QED BY <2>1, <2>2 DEF Untouched, Repaired, Settled
<1>12. Badges'
  <2>1. (readRow.unread = Missed(readRow.upTo, Len(stream)))'
    BY <1>1, <1>2 DEF Badges, Missed
  <2>2. (\A f \in telling : f.event.is = "new" /\ f.by \in Tab => stream[f.event.seq] # "peer")'
    BY <1>1, <1>2 DEF Badges
  <2> QED BY <1>11, <2>1, <2>2 DEF Badges
<1> QED BY <1>4, <1>6, <1>8, <1>10, <1>12 DEF OutboxInv

\* A socket dies: its frames are lost, except what the server has read.
LEMMA SocketDiesKeeps ==
  ASSUME OutboxInv, NEW t \in Tab, SocketDies(t) PROVE OutboxInv'
<1>1. OutboxTypes /\ KeysInHand /\ WithinStream /\ Awaited /\ Badges
  BY DEF OutboxInv
<1> DEFINE By(e) == IF e.by = t THEN [e EXCEPT !.by = "late"] ELSE e
           new == Dead(tabs[t])
<1>2. /\ telling' = {By(e) : e \in telling} /\ UNCHANGED <<stream, readRow>> /\ troubles' = troubles + 1
      /\ tabs' = [tabs EXCEPT ![t] = new]
  BY DEF SocketDies
<1>3. PICK n \in 0 .. Len(tabs[t].up) : late' = late \cup {tabs[t].up[i] : i \in 1 .. n}
  BY DEF SocketDies
<1>4. tabs[t] \in TabRows /\ tabs[t].up \in Seq(TabAsks) /\ Len(tabs[t].up) \in Nat
  BY <1>1 DEF OutboxTypes, TabRows
<1>5. late' \subseteq late \cup Pending(tabs[t].up) /\ late \subseteq late' /\ Pending(tabs[t].up) \subseteq TabAsks
  <2>1. \A i \in 1 .. n : i \in DOMAIN tabs[t].up
    BY <1>3, <1>4
  <2> QED BY <1>3, <1>4, <2>1 DEF Pending
<1>6. /\ new \in TabRows /\ ~ new.open /\ new.up = <<>> /\ new.down = <<>> /\ ~ new.settled /\ ~ new.clean
      /\ new.held = tabs[t].held /\ new.bubble = tabs[t].bubble /\ new.reported = tabs[t].reported
      /\ \A k \in Key : new.bubble[k] = "sending" => k \in new.orphaned
  <2> DEFINE o == tabs[t].orphaned \cup {k \in Key : tabs[t].bubble[k] = "sending"}
             row == [tabs[t] EXCEPT !.open = FALSE, !.up = <<>>, !.down = <<>>, !.settled = FALSE,
                                    !.clean = FALSE, !.orphaned = o]
  <2>1. o \in SUBSET Key /\ \A k \in Key : tabs[t].bubble[k] = "sending" => k \in o
    BY <1>4 DEF TabRows
  <2>2. new = row
    BY DEF Dead
  <2> HIDE DEF o, new
  <2>3. <<>> \in Seq(TabAsks) /\ <<>> \in Seq(Frames)
    OBVIOUS
  <2>4. row \in TabRows
    BY <1>4, <2>1, <2>3 DEF TabRows
  <2>5. /\ ~ row.open /\ row.up = <<>> /\ row.down = <<>> /\ ~ row.settled /\ ~ row.clean
        /\ row.held = tabs[t].held /\ row.bubble = tabs[t].bubble /\ row.reported = tabs[t].reported
        /\ row.orphaned = o
    BY <1>4 DEF TabRows
  <2> HIDE DEF row
  <2> QED BY <2>1, <2>2, <2>4, <2>5
<1> HIDE DEF new
<1>7. tabs' \in [Tab -> TabRows] /\ tabs'[t] = new /\ \A q \in Tab : q # t => tabs'[q] = tabs[q]
  BY <1>1, <1>2, <1>6, OneTab DEF OutboxTypes
<1>8. \A e \in telling : /\ By(e) \in [by : Sources, event : Tellable] /\ By(e).event = e.event
                         /\ (By(e).by \in Tab => By(e).by = e.by)
  <2>1. ASSUME NEW e \in telling
        PROVE  /\ By(e) \in [by : Sources, event : Tellable] /\ By(e).event = e.event
               /\ (By(e).by \in Tab => By(e).by = e.by)
    <3>1. e \in [by : Sources, event : Tellable] /\ "late" \in Sources /\ "late" \notin Tab
      BY <1>1, OutboxAssumption DEF OutboxTypes, Sources
    <3> QED BY <3>1
  <2> QED BY <2>1
<1> HIDE DEF By
<1>9. OutboxTypes'
  <2>1. telling' \subseteq [by : Sources, event : Tellable] /\ late' \subseteq TabAsks /\ troubles' \in Nat
    BY <1>1, <1>2, <1>5, <1>8 DEF OutboxTypes
  <2> QED BY <1>1, <1>2, <1>7, <2>1 DEF OutboxTypes
<1>10. \A x : Fits(x)' <=> Fits(x)
  BY <1>2 DEF Fits
<1>11. Pending(<<>>) = {} /\ (\A kind : Once(<<>>, kind))
  BY DEF Pending, Once
<1>12. WithinStream'
  <2>1. ASSUME NEW q \in Tab
        PROVE  /\ tabs'[q].held \subseteq 1 .. Len(stream') /\ tabs'[q].reported <= Len(stream')
               /\ tabs'[q].open \/ tabs'[q].up = <<>>
               /\ \A x \in Pending(tabs'[q].up) : Fits(x)'
               /\ \A x \in Pending(tabs'[q].down) : Fits(x)'
    <3>1. /\ tabs[q].held \subseteq 1 .. Len(stream) /\ tabs[q].reported <= Len(stream)
          /\ tabs[q].open \/ tabs[q].up = <<>>
          /\ \A x \in Pending(tabs[q].up) : Fits(x)
          /\ \A x \in Pending(tabs[q].down) : Fits(x)
      BY <1>1 DEF WithinStream
    <3>2. CASE q = t
      BY <1>2, <1>6, <1>7, <1>11, <3>1, <3>2
    <3>3. CASE q # t
      BY <1>2, <1>7, <1>10, <3>1, <3>3
    <3> QED BY <3>2, <3>3
  <2>2. \A x \in telling' : Fits(x.event)'
    BY <1>1, <1>2, <1>8, <1>10 DEF WithinStream
  <2>3. \A r \in late' : Fits(r)'
    BY <1>1, <1>5, <1>10 DEF WithinStream
  <2>4. readRow'.upTo <= Len(stream')
    BY <1>1, <1>2 DEF WithinStream
  <2> QED BY <2>1, <2>2, <2>3, <2>4 DEF WithinStream, Pending
<1>13. \A q \in Tab, x \in Key : /\ InUp(q, x)' <=> q # t /\ InUp(q, x)
                                 /\ Refuted(q, x)' <=> q # t /\ Refuted(q, x)
                                 /\ tabs'[q].bubble[x] = tabs[q].bubble[x]
  <2>1. ASSUME NEW q \in Tab, NEW x \in Key
        PROVE  /\ InUp(q, x)' <=> q # t /\ InUp(q, x)
               /\ Refuted(q, x)' <=> q # t /\ Refuted(q, x)
               /\ tabs'[q].bubble[x] = tabs[q].bubble[x]
    <3>1. CASE q = t
      BY <1>6, <1>7, <1>11, <3>1, OneInHand
    <3>2. CASE q # t
      BY <1>7, <3>2, OneInHand
    <3> QED BY <3>1, <3>2
  <2> QED BY <2>1
<1>14. \A x \in Key : InLate(x)' => InLate(x) \/ InUp(t, x)
  BY <1>5, OneInHand
<1>15. ASSUME NEW k \in Key PROVE OneAttempt(k)'
  <2>1. OneAttempt(k) /\ (IsStored(k)' <=> IsStored(k))
    BY <1>1, <1>2, OneInHand DEF KeysInHand
  <2>2. InUp(t, k) => /\ tabs[t].bubble[k] \in {"sending", "sent"}
                      /\ \A q \in Tab : q # t => ~ Mine(q, k)
    BY <2>1 DEF OneAttempt, Attempted, Owned, Mine
  <2>3. Attempted(k)'
    BY <1>13, <2>1 DEF OneAttempt, Attempted
  <2>4. Traced(k)'
    BY <1>13, <1>14, <2>1, <2>2 DEF OneAttempt, Traced
  <2>5. Owned(k)'
    <3>1. \A q \in Tab : Mine(q, k)' => Mine(q, k)
      BY <1>13 DEF Mine
    <3> QED BY <2>1, <3>1 DEF OneAttempt, Owned
  <2>6. Exclusive(k)'
    <3>1. CASE InUp(t, k)
      <4>1. \A q \in Tab : /\ ~ InUp(q, k)' /\ ~ Refuted(q, k)' /\ tabs'[q].bubble[k] # "failed"
                           /\ tabs'[q].bubble[k] = tabs[q].bubble[k]
        BY <1>13, <2>2, <3>1 DEF Mine
      <4> QED BY <2>1, <4>1 DEF OneAttempt, Exclusive
    <3>2. CASE ~ InUp(t, k)
      BY <1>13, <1>14, <2>1, <3>2 DEF OneAttempt, Exclusive
    <3> QED BY <3>1, <3>2
  <2> QED BY <2>3, <2>4, <2>5, <2>6 DEF OneAttempt
<1>16. KeysInHand'
  <2>1. \A s, q \in DOMAIN stream' : stream'[s] = stream'[q] /\ stream'[s] \in Key => s = q
    BY <1>1, <1>2 DEF KeysInHand
  <2>2. \A q \in Tab : Once(tabs'[q].up, "send") /\ Once(tabs'[q].down, "rejected")
    BY <1>1, <1>6, <1>7, <1>11 DEF KeysInHand
  <2> QED BY <1>15, <2>1, <2>2 DEF KeysInHand
<1>17. \A x, k : Tells1(x, k)' <=> Tells1(x, k)
  BY <1>2 DEF Tells1
<1>18. Awaited'
  <2>1. ASSUME NEW q \in Tab, NEW k \in Key, tabs'[q].bubble[k] = "sending", k \notin tabs'[q].orphaned
        PROVE  /\ tabs[q].bubble[k] = "sending" /\ k \notin tabs[q].orphaned
               /\ tabs[q].open => tabs'[q].open
               /\ InUp(q, k) \/ Refuted(q, k) =>
                   InUp(q, k)' \/ Refuted(q, k)' \/ \E f \in telling' : Tells1(f.event, k)'
               /\ \A f \in telling : tabs[q].open /\ Tells1(f.event, k) =>
                   \/ \E g \in telling' : Tells1(g.event, k)'
                   \/ \E x \in Pending(tabs'[q].down) : Tells1(x, k)'
               /\ \A x \in Pending(tabs[q].down) : Tells1(x, k) =>
                   \E y \in Pending(tabs'[q].down) : Tells1(y, k)'
    <3>1. q # t /\ tabs'[q] = tabs[q]
      BY <1>6, <1>7, <2>1
    <3>2. \A f \in telling : Tells1(f.event, k) => \E g \in telling' : Tells1(g.event, k)'
      <4>1. ASSUME NEW f \in telling, Tells1(f.event, k) PROVE \E g \in telling' : Tells1(g.event, k)'
        <5>1. By(f) \in telling' /\ By(f).event = f.event
          BY <1>2, <1>8
        <5>2. \A y : y = f.event => Tells1(y, k)'
          BY <1>17, <4>1
        <5> QED BY <5>1, <5>2
      <4> QED BY <4>1
    <3> QED BY <1>13, <1>17, <2>1, <3>1, <3>2
  <2> QED BY <1>1, <2>1, AwaitedKept
<1>19. ASSUME NEW q \in Tab PROVE (Untouched(q) /\ Repaired(q) /\ Settled(q))'
  <2>1. CASE q = t
    BY <1>6, <1>7, <2>1 DEF Untouched, Repaired, Settled
  <2>2. CASE q # t
    <3>1. tabs'[q] = tabs[q]
      BY <1>7, <2>2
    <3>2. telling = {} <=> telling' = {}
      BY <1>2
    <3>3. \A e \in telling : telling = {e} => \E f \in telling' : telling' = {f} /\ f.event = e.event
      BY <1>2, <1>8
    <3>4. Marks(q)' <=> Marks(q)
      <4>1. (\E e \in telling' : e.event.is = "marker") <=> \E e \in telling : e.event.is = "marker"
        BY <1>2, <1>8
      <4> QED BY <3>1, <4>1, MarksNext DEF Marks
    <3>5. InStep(q) => InStep(q)'
      BY <1>1, <1>2, <3>1, <3>2, <3>3, <3>4, InStepKept
    <3>6. Untouched(q) /\ Repaired(q) /\ Settled(q)
      BY <1>1 DEF Badges
    <3>7. Untouched(q)'
      BY <3>1, <3>2, <3>6 DEF Untouched, Pending
    <3>8. Repaired(q)'
      BY <1>2, <3>1, <3>4, <3>6 DEF Repaired
    <3>9. Settled(q)'
      BY <3>1, <3>5, <3>6 DEF Settled
    <3> QED BY <3>7, <3>8, <3>9
  <2> QED BY <2>1, <2>2
<1>20. Badges'
  <2>1. (readRow.unread = Missed(readRow.upTo, Len(stream)))'
    BY <1>1, <1>2 DEF Badges, Missed
  <2>2. (\A e \in telling : e.event.is = "new" /\ e.by \in Tab => stream[e.event.seq] # "peer")'
    <3>1. ASSUME NEW e \in telling, By(e).event.is = "new", By(e).by \in Tab
          PROVE  stream'[By(e).event.seq] # "peer"
      <4>1. e.event.is = "new" /\ e.by \in Tab /\ By(e).event = e.event
        BY <1>8, <3>1
      <4> QED BY <1>1, <1>2, <4>1 DEF Badges
    <3> QED BY <1>2, <3>1
  <2> QED BY <1>19, <2>1, <2>2 DEF Badges
<1> QED BY <1>9, <1>12, <1>16, <1>18, <1>20 DEF OutboxInv

-----------------------------------------------------------------------------
LEMMA OutboxInitially == OutboxInit => OutboxInv
<1> SUFFICES ASSUME OutboxInit PROVE OutboxInv
  OBVIOUS
<1> DEFINE row == [open |-> TRUE, held |-> {}, bubble |-> [k \in Key |-> "none"], badge |-> 0, reported |-> 0,
                   up |-> <<>>, down |-> <<>>, repair |-> "none", count |-> 0,
                   clean |-> TRUE, settled |-> TRUE, orphaned |-> {}]
<1>1. /\ stream = <<>> /\ readRow = [upTo |-> 0, unread |-> 0] /\ telling = {} /\ late = {} /\ troubles = 0
      /\ tabs = [t \in Tab |-> row]
  BY DEF OutboxInit
<1>2. /\ row \in TabRows /\ row.open /\ row.held = {} /\ row.badge = 0 /\ row.reported = 0 /\ row.up = <<>>
      /\ row.down = <<>> /\ row.repair = "none" /\ \A k \in Key : row.bubble[k] = "none"
  <2>1. <<>> \in Seq(TabAsks) /\ <<>> \in Seq(Frames)
    OBVIOUS
  <2>2. [k \in Key |-> "none"] \in [Key -> Bubbles]
    BY DEF Bubbles
  <2> QED BY <2>1, <2>2 DEF TabRows
<1> HIDE DEF row
<1>3. \A t \in Tab : tabs[t] = row
  BY <1>1
<1>4. OutboxTypes
  <2>1. tabs \in [Tab -> TabRows] /\ <<>> \in Seq(Key \cup {"peer"}) /\ [upTo |-> 0, unread |-> 0] \in [upTo : Nat, unread : Nat]
    BY <1>1, <1>2
  <2> QED BY <1>1, <2>1 DEF OutboxTypes
<1>5. Pending(<<>>) = {} /\ (\A kind : Once(<<>>, kind)) /\ Len(stream) = 0 /\ DOMAIN stream = {}
  BY <1>1 DEF Pending, Once
<1>6. WithinStream
  BY <1>1, <1>2, <1>3, <1>5 DEF WithinStream
<1>7. KeysInHand
  <2>1. ASSUME NEW k \in Key PROVE OneAttempt(k)
    <3>1. ~ IsStored(k) /\ ~ InLate(k)
      BY <1>1, <1>5 DEF IsStored, InLate
    <3>2. \A t \in Tab : tabs[t].bubble[k] = "none" /\ ~ InUp(t, k) /\ ~ Refuted(t, k)
      BY <1>2, <1>3, <1>5 DEF InUp, Refuted
    <3> QED BY <3>1, <3>2 DEF OneAttempt, Attempted, Traced, Owned, Exclusive, Mine
  <2> QED BY <1>2, <1>3, <1>5, <2>1 DEF KeysInHand
<1>8. Awaited
  BY <1>2, <1>3 DEF Awaited
<1>9. Missed(0, 0) = 0
  <2>1. Fresh(stream, 0, 0) = {}
    BY DEF Fresh
  <2> QED BY <2>1, FS_EmptySet DEF Missed
<1>10. ASSUME NEW t \in Tab PROVE InStep(t)
  <2> DEFINE z == [i \in 0 .. 0 |-> 0]
  <2>1. Len(tabs[t].down) = 0 /\ tabs[t].held = {} /\ tabs[t].badge = 0
    BY <1>2, <1>3
  <2>2. z \in FramePoints(tabs[t].down, Len(stream)) /\ z[0] = 0
    BY <1>5, <2>1 DEF FramePoints
  <2> HIDE DEF z
  <2>3. Displays(t, z[0], z[0])
    BY <1>9, <2>1, <2>2 DEF Displays, Whole
  <2>4. FrameWalk(tabs[t].down, z, z)
    BY <2>1 DEF FrameWalk
  <2>5. Arrives(z[Len(tabs[t].down)], z[Len(tabs[t].down)])
    BY <1>1, <1>5, <2>1, <2>2 DEF Arrives
  <2>6. Path(t, z, z)
    BY <2>3, <2>4, <2>5 DEF Path
  <2> QED BY <2>2, <2>6 DEF InStep
<1>11. Badges
  <2>1. readRow.unread = Missed(readRow.upTo, Len(stream))
    BY <1>1, <1>5, <1>9
  <2>2. \A t \in Tab : Untouched(t) /\ Repaired(t) /\ Settled(t)
    BY <1>1, <1>2, <1>3, <1>5, <1>10 DEF Untouched, Repaired, Settled
  <2> QED BY <1>1, <2>1, <2>2 DEF Badges
<1> QED BY <1>4, <1>6, <1>7, <1>8, <1>11 DEF OutboxInv

LEMMA OutboxUnmoved == OutboxInv /\ UNCHANGED outboxVars => OutboxInv'
<1> SUFFICES ASSUME OutboxInv, UNCHANGED outboxVars PROVE OutboxInv'
  OBVIOUS
<1>1. /\ stream' = stream /\ readRow' = readRow /\ tabs' = tabs
      /\ telling' = telling /\ late' = late /\ troubles' = troubles
  BY DEF outboxVars
<1>2. OutboxTypes'
  BY <1>1 DEF OutboxInv, OutboxTypes
<1>3. WithinStream'
  BY <1>1 DEF OutboxInv, WithinStream, Fits, Pending
<1>4. KeysInHand'
  <2>1. \A k \in Key : OneAttempt(k)'
    BY <1>1 DEF OutboxInv, KeysInHand, OneAttempt, Attempted, Traced, Owned, Mine, Exclusive, IsStored,
       InUp, InLate, Refuted, Pending
  <2> QED BY <1>1, <2>1 DEF OutboxInv, KeysInHand, Once
<1>5. Awaited'
  BY <1>1 DEF OutboxInv, Awaited, InUp, Refuted, Tells1, Pending
<1>6. Badges'
  <2>1. ASSUME NEW upTo, NEW n PROVE Missed(upTo, n)' = Missed(upTo, n)
    BY <1>1 DEF Missed, Fresh
  <2>2. \A t \in Tab : Untouched(t)' <=> Untouched(t)
    BY <1>1 DEF Untouched, Pending
  <2>3. \A t \in Tab : Marks(t)' <=> Marks(t)
    BY <1>1 DEF Marks, Pending
  <2>4. \A t \in Tab : Repaired(t)' <=> Repaired(t)
    BY <1>1, <2>3 DEF Repaired
  <2>5. ASSUME NEW e, NEW u, NEW n, NEW v, NEW m PROVE Moves(e, u, n, v, m)' <=> Moves(e, u, n, v, m)
    BY <1>1 DEF Moves, Missed, Fresh
  <2>6. ASSUME NEW t \in Tab, InStep(t) PROVE InStep(t)'
    <3>1. PICK u \in FramePoints(tabs[t].down, Len(stream)), n \in FramePoints(tabs[t].down, Len(stream)) : Path(t, u, n)
      BY <2>6 DEF InStep
    <3>2. Displays(t, u[0], n[0])'
      BY <1>1, <2>3, <3>1 DEF Path, Displays, Missed, Fresh
    <3>3. FrameWalk(tabs[t].down, u, n)'
      BY <1>1, <3>1 DEF Path, FrameWalk, Moves, Missed, Fresh
    <3>4. Arrives(u[Len(tabs[t].down)], n[Len(tabs[t].down)])'
      BY <1>1, <3>1 DEF Path, Arrives, Moves, Missed, Fresh
    <3>5. Path(t, u, n)'
      BY <1>1, <3>2, <3>3, <3>4 DEF Path
    <3> QED BY <1>1, <3>1, <3>5 DEF InStep, FramePoints
  <2>7. \A t \in Tab : Settled(t)'
    BY <1>1, <2>6 DEF OutboxInv, Badges, Settled
  <2>8. \A t \in Tab : Untouched(t)' /\ Repaired(t)'
    BY <2>2, <2>4 DEF OutboxInv, Badges
  <2>9. (readRow.unread = Missed(readRow.upTo, Len(stream)))'
    BY <1>1 DEF OutboxInv, Badges, Missed, Fresh
  <2> QED BY <1>1, <2>7, <2>8, <2>9 DEF OutboxInv, Badges
<1> QED BY <1>2, <1>3, <1>4, <1>5, <1>6 DEF OutboxInv

LEMMA OutboxStep == OutboxInv /\ [OutboxNext]_outboxVars => OutboxInv'
<1> SUFFICES ASSUME OutboxInv, [OutboxNext]_outboxVars PROVE OutboxInv'
  OBVIOUS
<1>0. CASE UNCHANGED outboxVars
  BY <1>0, OutboxUnmoved
<1>1. CASE PeerPosts
  BY <1>1, PeerPostsKeeps
<1>2. CASE \E upTo \in DOMAIN stream : MarkedElsewhere(upTo)
  BY <1>2, MarkedElsewhereKeeps
<1>3. CASE \E r \in late : HandleLate(r)
  BY <1>3, HandleLateKeeps
<1>4. CASE \E e \in telling : TellTabs(e)
  BY <1>4, TellTabsKeeps
<1>5. ASSUME NEW t \in Tab, NEW k \in Key, SendMessage(t, k) \/ Retry(t, k) PROVE OutboxInv'
  BY <1>5, SendMessageKeeps, RetryKeeps
<1>6. ASSUME NEW t \in Tab, \/ MarkConversationRead(t) \/ HandleSend(t) \/ HandleMark(t)
                            \/ HandleChatEvent(t) \/ SocketDies(t) \/ Reopen(t)
                            \/ ReadList(t) \/ ApplyList(t) \/ ApplyPages(t)
      PROVE  OutboxInv'
  BY <1>6, MarkConversationReadKeeps, HandleSendKeeps, HandleMarkKeeps, HandleChatEventKeeps, SocketDiesKeeps,
     ReopenKeeps, ReadListKeeps, ApplyListKeeps, ApplyPagesKeeps
<1> QED BY <1>0, <1>1, <1>2, <1>3, <1>4, <1>5, <1>6 DEF OutboxNext

LEMMA OutboxMeans == OutboxInv => OutboxTypeOK /\ BubblesTellTheTruth /\ SettledTabsAgree
<1> SUFFICES ASSUME OutboxInv PROVE OutboxTypeOK /\ BubblesTellTheTruth /\ SettledTabsAgree
  OBVIOUS
<1>1. OutboxTypes /\ WithinStream /\ KeysInHand /\ Awaited /\ Badges
  BY DEF OutboxInv
<1>2. DOMAIN stream = 1 .. Len(stream) /\ Len(stream) \in Nat
  BY <1>1 DEF OutboxTypes
<1>3. OutboxTypeOK
  BY <1>1, <1>2 DEF OutboxTypeOK, WithinStream
<1>4. BubblesTellTheTruth
  <2>1. ASSUME NEW k \in Key PROVE Cardinality({s \in DOMAIN stream : stream[s] = k}) <= 1
    <3> DEFINE S == {s \in DOMAIN stream : stream[s] = k}
    <3>1. \A s, r \in S : s = r
      BY <1>1 DEF KeysInHand
    <3>2. CASE S = {}
      <4>1. Cardinality(S) = 0
        BY <3>2, FS_EmptySet
      <4> QED BY <4>1
    <3>3. CASE S # {}
      <4>1. PICK s \in S : TRUE
        BY <3>3
      <4>2. S = {s}
        BY <3>1, <4>1
      <4>3. Cardinality(S) = 1
        BY <4>2, FS_Singleton
      <4> QED BY <4>3
    <3> QED BY <3>2, <3>3
  <2>2. ASSUME NEW t \in Tab, NEW k \in Key
        PROVE  /\ tabs[t].bubble[k] = "sent" => IsStored(k)
               /\ tabs[t].bubble[k] = "failed" => Send(k) \notin late /\ \A q \in Tab : ~ AttemptOn(q, k)
    <3>1. OneAttempt(k)
      BY <1>1 DEF KeysInHand
    <3>2. tabs[t].bubble[k] = "sent" => IsStored(k)
      BY <3>1 DEF OneAttempt, Exclusive
    <3>3. tabs[t].bubble[k] = "failed" => ~ InLate(k)
      BY <3>1 DEF OneAttempt, Exclusive
    <3>4. ASSUME tabs[t].bubble[k] = "failed", NEW q \in Tab, InUp(q, k) \/ Refuted(q, k) PROVE FALSE
      <4>1. q = t
        BY <3>1, <3>4 DEF OneAttempt, Owned, Mine
      <4> QED BY <3>1, <3>4, <4>1 DEF OneAttempt, Attempted
    <3>5. \A q \in Tab : AttemptOn(q, k) => InUp(q, k) \/ Refuted(q, k)
      BY DEF AttemptOn, InUp, Refuted, Pending
    <3> QED BY <3>2, <3>3, <3>4, <3>5 DEF InLate
  <2> QED BY <2>1, <2>2 DEF BubblesTellTheTruth
<1>5. ASSUME NEW t \in Tab, tabs[t].open, tabs[t].settled, NothingUnderWay(t)
      PROVE  /\ tabs[t].held = {} => stream = <<>>
             /\ \A s \in tabs[t].held : s .. Len(stream) \subseteq tabs[t].held
             /\ tabs[t].badge = readRow.unread
             /\ \A k \in Key : tabs[t].bubble[k] = "sending" => k \in tabs[t].orphaned
  <2>1. telling = {} /\ late = {} /\ tabs[t].up = <<>> /\ tabs[t].down = <<>> /\ InStep(t)
    BY <1>1, <1>5 DEF NothingUnderWay, Badges, Settled
  <2>2. Pending(tabs[t].up) = {} /\ Pending(tabs[t].down) = {} /\ Len(tabs[t].down) = 0
    BY <2>1 DEF Pending
  <2>3. ~ Marks(t)
    BY <2>1, <2>2 DEF Marks
  <2>4. PICK u \in FramePoints(tabs[t].down, Len(stream)), n \in FramePoints(tabs[t].down, Len(stream)) : Path(t, u, n)
    BY <2>1 DEF InStep
  <2>5. u[0] = readRow.upTo /\ n[0] = Len(stream)
    BY <2>1, <2>2, <2>4 DEF Path, Arrives
  <2>6. Whole(tabs[t].held, Len(stream)) /\ tabs[t].badge = Missed(readRow.upTo, Len(stream))
    BY <2>3, <2>4, <2>5 DEF Path, Displays
  <2>7. tabs[t].held = {} => stream = <<>>
    <3>1. Len(stream) = 0 => stream = <<>>
      BY <1>1, EmptySeq DEF OutboxTypes
    <3> QED BY <2>6, <3>1 DEF Whole
  <2>8. \A k \in Key : tabs[t].bubble[k] = "sending" => k \in tabs[t].orphaned
    BY <1>1, <2>1, <2>2 DEF Awaited, InUp, Refuted
  <2> QED BY <1>1, <2>6, <2>7, <2>8 DEF Whole, Badges
<1>6. SettledTabsAgree
  BY <1>5 DEF SettledTabsAgree
<1> QED BY <1>3, <1>4, <1>6
====
