---------------------------- MODULE MessageQueue ----------------------------
(***************************************************************************)
(* The storage of a message_queue (skynet_mq.c): a ring buffer that is     *)
(* doubled when it becomes full, and the overload warning.  Whether the    *)
(* queue is in the global queue is the business of SkynetServer, where a   *)
(* queue is a sequence; this module shows that the ring is that sequence.  *)
(*                                                                         *)
(* Every operation is one section under the lock of the queue (that of     *)
(* skynet_mq_pop in several steps, for its loop), but for                  *)
(* skynet_mq_overload, which the dispatching thread calls without it after *)
(* each message it has taken.  Other threads push whenever the lock is     *)
(* free.                                                                   *)
(***************************************************************************)
EXTENDS Integers, Sequences, TLAPS

CONSTANTS Messages,
          Junk,        \* what memory holds before it is written
          QueueSize,   \* DEFAULT_QUEUE_SIZE
          Overload,    \* MQ_OVERLOAD
          MaxLength    \* bound on the messages waiting

ASSUME QueueAssumption ==
  /\ QueueSize \in Nat \ {0}
  /\ Overload \in Nat \ {0}
  /\ MaxLength \in Nat
  /\ Junk \notin Messages

VARIABLES queue,               \* q->queue
          cap, head, tail,     \* q->cap, q->head, q->tail
          overload,            \* q->overload
          overload_threshold,  \* q->overload_threshold
          dispatcher,          \* the dispatcher: before its pop, in it, after it
          fifo,                \* the messages pushed and not popped
          popped,              \* what skynet_mq_pop returned, and should
          peak, warned         \* the greatest length a pop left behind, and
                               \* the last warning, since the queue was empty

mqVars == <<queue, cap, head, tail, overload, overload_threshold, dispatcher,
          fifo, popped, peak, warned>>

MqInit ==
  /\ queue = [i \in 0..(QueueSize - 1) |-> Junk]
  /\ cap = QueueSize
  /\ head = 0 /\ tail = 0
  /\ overload = 0
  /\ overload_threshold = Overload
  /\ dispatcher = "pop"
  /\ fifo = << >>
  /\ popped = [got |-> Junk, want |-> Junk]
  /\ peak = 0 /\ warned = 0

-----------------------------------------------------------------------------
skynet_mq_length == IF head <= tail THEN tail - head ELSE tail + cap - head

(* expand_queue: the ring q, unrolled from its head.                       *)
expand_queue(q) ==
  [i \in 0..(2 * cap - 1) |-> IF i < cap THEN q[(head + i) % cap] ELSE Junk]

(* Variant: the tail may catch up with the head.                           *)
skynet_mq_push_NoExpand(m) ==
  LET t == IF tail + 1 >= cap THEN 0 ELSE tail + 1 IN
  /\ dispatcher # "locked"
  /\ Len(fifo) < MaxLength
  /\ queue' = [queue EXCEPT ![tail] = m]
  /\ tail' = t
  /\ fifo' = Append(fifo, m)
  /\ UNCHANGED <<cap, head, overload, overload_threshold, dispatcher, popped, peak, warned>>

skynet_mq_push(m) ==
  LET q == [queue EXCEPT ![tail] = m]
      t == IF tail + 1 >= cap THEN 0 ELSE tail + 1
  IN
  /\ dispatcher # "locked"
  /\ Len(fifo) < MaxLength
  /\ \/ /\ head # t
        /\ queue' = q
        /\ tail' = t
        /\ UNCHANGED <<head, cap>>
     \/ /\ head = t
        /\ queue' = expand_queue(q)
        /\ head' = 0
        /\ tail' = cap
        /\ cap' = 2 * cap
  /\ fifo' = Append(fifo, m)
  /\ UNCHANGED <<overload, overload_threshold, dispatcher, popped, peak, warned>>

NextHead(h) == IF h + 1 >= cap THEN 0 ELSE h + 1

(* Variant: the head is moved on before the message is read.               *)
skynet_mq_pop_After ==
  LET h == NextHead(head) IN
  /\ dispatcher = "pop"
  /\ head # tail
  /\ popped' = [got |-> queue[h], want |-> Head(fifo)]
  /\ head' = h
  /\ fifo' = Tail(fifo)
  /\ peak' = IF Len(fifo) - 1 > peak THEN Len(fifo) - 1 ELSE peak
  /\ dispatcher' = "locked"
  /\ UNCHANGED <<queue, cap, tail, overload, overload_threshold, warned>>

(* skynet_mq_pop up to its loop; the lock is held on.                      *)
skynet_mq_pop ==
  LET h == NextHead(head) IN
  /\ dispatcher = "pop"
  /\ head # tail
  /\ popped' = [got |-> queue[head], want |-> Head(fifo)]
  /\ head' = h
  /\ fifo' = Tail(fifo)
  /\ peak' = IF Len(fifo) - 1 > peak THEN Len(fifo) - 1 ELSE peak
  /\ dispatcher' = "locked"
  /\ UNCHANGED <<queue, cap, tail, overload, overload_threshold, warned>>

(* One round of the loop, and its end.  Nobody changes the queue meanwhile,*)
(* so length is skynet_mq_length.                                          *)
DoubleThreshold ==
  /\ dispatcher = "locked"
  /\ skynet_mq_length > overload_threshold
  /\ overload' = skynet_mq_length
  /\ overload_threshold' = 2 * overload_threshold
  /\ UNCHANGED <<queue, cap, head, tail, dispatcher, fifo, popped, peak, warned>>

PopDone ==
  /\ dispatcher = "locked"
  /\ skynet_mq_length <= overload_threshold
  /\ dispatcher' = "check"
  /\ UNCHANGED <<queue, cap, head, tail, overload, overload_threshold, fifo, popped, peak, warned>>

(* The queue was empty.                                                    *)
PopNothing ==
  /\ dispatcher = "pop"
  /\ head = tail
  /\ overload_threshold' = Overload
  /\ peak' = 0 /\ warned' = 0
  /\ UNCHANGED <<queue, cap, head, tail, overload, dispatcher, fifo, popped>>

(* Variant: the pending warning is cleared without being reported.         *)
skynet_mq_overload_Silent ==
  /\ dispatcher = "check"
  /\ overload' = 0
  /\ dispatcher' = "pop"
  /\ UNCHANGED <<queue, cap, head, tail, overload_threshold, fifo, popped, peak, warned>>

(* The dispatcher reports the overload and dispatches the message.         *)
skynet_mq_overload ==
  /\ dispatcher = "check"
  /\ warned' = IF overload # 0 THEN overload ELSE warned
  /\ overload' = 0
  /\ dispatcher' = "pop"
  /\ UNCHANGED <<queue, cap, head, tail, overload_threshold, fifo, popped, peak>>

MqNext ==
  \/ \E m \in Messages : skynet_mq_push(m)
  \/ skynet_mq_pop \/ DoubleThreshold \/ PopDone \/ PopNothing \/ skynet_mq_overload

MqSpec == MqInit /\ [][MqNext]_mqVars

-----------------------------------------------------------------------------
(* The type invariant: head and tail stay inside the ring.                 *)
RingType ==
  /\ cap \in Nat \ {0}
  /\ queue \in [0..(cap - 1) -> Messages \cup {Junk}]
  /\ head \in 0..(cap - 1) /\ tail \in 0..(cap - 1)
  /\ fifo \in Seq(Messages)

(* The place of the i-th message waiting.                                  *)
Place(i) == IF head + i - 1 < cap THEN head + i - 1 ELSE head + i - 1 - cap

(* The ring holds the messages pushed and not popped, in that order, with  *)
(* at least one free place, whatever the wraps and expansions; and         *)
(* skynet_mq_length, which decides how many a worker dispatches in a row,  *)
(* is their number.                                                        *)
RingIsFifo ==
  /\ Len(fifo) = skynet_mq_length
  /\ Len(fifo) < cap
  /\ \A i \in 1..Len(fifo) : queue[Place(i)] = fifo[i]

(* So each pop returns the oldest message.                                 *)
PopsOldest == popped.got = popped.want

(* A queue does not grow without warnings: when a message has been         *)
(* dispatched, a length above MQ_OVERLOAD has been reported since the      *)
(* queue was empty, and it has not doubled since the last report.          *)
NoSilentGrowth ==
  dispatcher = "pop" /\ peak > Overload => warned > 0 /\ peak < 2 * warned

-----------------------------------------------------------------------------
(* Why growth is reported: the threshold stays above every length seen,    *)
(* and once it was doubled it is less than twice the length that is        *)
(* reported, or is about to be.                                            *)
Reported == IF overload # 0 THEN overload ELSE warned

GrowthInv ==
  /\ overload \in Nat /\ warned \in Nat /\ peak \in Nat
  /\ overload_threshold \in Nat /\ overload_threshold >= Overload
  /\ dispatcher \in {"pop", "locked", "check"}
  /\ dispatcher = "pop" => overload = 0
  /\ IF dispatcher = "locked"
     THEN peak <= overload_threshold \/ peak = skynet_mq_length
     ELSE peak <= overload_threshold
  /\ overload_threshold = Overload \/ overload_threshold < 2 * Reported

-----------------------------------------------------------------------------
(* Theorems.  The ring is a FIFO for every initial size and any number of  *)
(* messages: the inductive invariant is RingType and RingIsFifo together.  *)
(* With GrowthInv, its growth is reported.                                 *)

(* What % does to an index that is less than twice the size of the ring.   *)
LEMMA ModTwice ==
  ASSUME NEW c \in Nat \ {0}, NEW x \in 0..(2 * c - 1)
  PROVE  x % c = IF x < c THEN x ELSE x - c
  OBVIOUS

RingInv == RingType /\ RingIsFifo

(* The ring is empty at first.                                             *)
LEMMA InitRing ==
  ASSUME MqInit PROVE RingInv
  BY QueueAssumption DEF MqInit, RingInv, RingType, RingIsFifo, skynet_mq_length, Place

(* A push appends one message, with or without an expansion.               *)
LEMMA PushRing ==
  ASSUME RingInv, NEW m \in Messages, skynet_mq_push(m)
  PROVE  RingInv'
  <1> DEFINE q == [queue EXCEPT ![tail] = m]
             t == IF tail + 1 >= cap THEN 0 ELSE tail + 1
             n == Len(fifo)
  <1>1. /\ cap \in Nat \ {0} /\ head \in 0..(cap - 1) /\ tail \in 0..(cap - 1)
        /\ queue \in [0..(cap - 1) -> Messages \cup {Junk}]
        /\ fifo \in Seq(Messages) /\ n \in Nat /\ n < cap
        /\ n = IF head <= tail THEN tail - head ELSE tail + cap - head
        /\ \A i \in 1..n : queue[Place(i)] = fifo[i]
    BY DEF RingInv, RingType, RingIsFifo, skynet_mq_length
  <1>2. /\ q \in [0..(cap - 1) -> Messages \cup {Junk}] /\ t \in 0..(cap - 1)
        /\ q[tail] = m /\ \A i \in 0..(cap - 1) : i # tail => q[i] = queue[i]
    BY <1>1
  <1>3. /\ fifo' = Append(fifo, m) /\ fifo' \in Seq(Messages) /\ Len(fifo') = n + 1
        /\ fifo'[n + 1] = m /\ \A i \in 1..n : fifo'[i] = fifo[i]
    BY <1>1 DEF skynet_mq_push
  <1>4. Place(n + 1) = tail /\ \A i \in 1..n : Place(i) \in 0..(cap - 1) /\ Place(i) # tail
    BY <1>1 DEF Place
  <1>5. \A i \in 1..(n + 1) : q[Place(i)] = fifo'[i]
    <2> TAKE i \in 1..(n + 1)
    <2>1. CASE i = n + 1 BY <1>2, <1>3, <1>4, <2>1
    <2>2. CASE i # n + 1
      <3>1. i \in 1..n BY <1>1, <2>2
      <3> QED BY <1>1, <1>2, <1>3, <1>4, <3>1
    <2> QED BY <2>1, <2>2
  <1> HIDE DEF q
  <1>6. CASE head # t
    <2>1. queue' = q /\ tail' = t /\ head' = head /\ cap' = cap
      BY <1>6 DEF skynet_mq_push, q
    <2>2. RingType' BY <1>1, <1>2, <1>3, <2>1 DEF RingType
    <2>3. n + 1 < cap /\ (n + 1 = skynet_mq_length')
      BY <1>1, <1>6, <2>1 DEF skynet_mq_length
    <2>4. \A i : Place(i)' = Place(i) BY <2>1 DEF Place
    <2> QED BY <1>3, <1>5, <2>1, <2>2, <2>3, <2>4 DEF RingInv, RingIsFifo
  <1>7. CASE head = t
    <2>1. /\ queue' = [i \in 0..(2 * cap - 1) |-> IF i < cap THEN q[(head + i) % cap] ELSE Junk]
          /\ head' = 0 /\ tail' = cap /\ cap' = 2 * cap
      BY <1>7 DEF skynet_mq_push, expand_queue, q
    <2>2. n + 1 = cap BY <1>1, <1>7
    <2>3. \A i \in 0..(cap - 1) : (head + i) % cap = Place(i + 1)
                                  /\ Place(i + 1) \in 0..(cap - 1)
      <3> TAKE i \in 0..(cap - 1)
      <3>1. cap \in Nat \ {0} /\ head + i \in 0..(2 * cap - 1) BY <1>1
      <3>2. (head + i) % cap = IF head + i < cap THEN head + i ELSE head + i - cap
        <4> DEFINE x == head + i
        <4>1. x \in 0..(2 * cap - 1) BY <3>1
        <4> HIDE DEF x
        <4>2. x % cap = IF x < cap THEN x ELSE x - cap BY <3>1, <4>1, ModTwice
        <4> QED BY <1>1, <3>1, <4>2 DEF x
      <3>3. head + (i + 1) - 1 = head + i BY <1>1
      <3>4. Place(i + 1) = IF head + i < cap THEN head + i ELSE head + i - cap
        BY <3>3 DEF Place
      <3>5. (IF head + i < cap THEN head + i ELSE head + i - cap) \in 0..(cap - 1)
        BY <1>1
      <3> QED BY <3>2, <3>4, <3>5
    <2>4. queue' \in [0..(2 * cap - 1) -> Messages \cup {Junk}]
      BY <1>1, <1>2, <2>1, <2>3
    <2>5. RingType'
      <3>1. cap' \in Nat \ {0} /\ head' \in 0..(cap' - 1) /\ tail' \in 0..(cap' - 1)
        BY <1>1, <2>1
      <3>2. queue' \in [0..(cap' - 1) -> Messages \cup {Junk}] BY <2>1, <2>4
      <3> QED BY <1>3, <3>1, <3>2 DEF RingType
    <2>6. /\ \A i \in 1..(n + 1) : Place(i)' = i - 1 /\ i - 1 \in 0..(cap - 1)
          /\ skynet_mq_length' = cap /\ cap < cap'
      BY <1>1, <2>1, <2>2 DEF Place, skynet_mq_length
    <2>7. \A i \in 0..(cap - 1) : queue'[i] = q[Place(i + 1)]
      <3> TAKE i \in 0..(cap - 1)
      <3>1. i \in 0..(2 * cap - 1) /\ i < cap BY <1>1
      <3>2. queue'[i] = q[(head + i) % cap] BY <2>1, <3>1
      <3> QED BY <2>3, <3>2
    <2>8. \A i \in 1..(n + 1) : queue'[Place(i)'] = fifo'[i]
      <3> TAKE i \in 1..(n + 1)
      <3>1. i - 1 \in 0..(cap - 1) /\ (i - 1) + 1 = i /\ Place(i)' = i - 1 BY <1>1, <2>6
      <3>2. queue'[i - 1] = q[Place((i - 1) + 1)] BY <2>7, <3>1
      <3> QED BY <1>5, <3>1, <3>2
    <2> QED BY <1>3, <2>2, <2>5, <2>6, <2>8 DEF RingInv, RingIsFifo
  <1> QED BY <1>6, <1>7

(* A pop takes the oldest message.                                         *)
LEMMA PopRing ==
  ASSUME RingInv, skynet_mq_pop
  PROVE  RingInv' /\ popped'.got = popped'.want
  <1> DEFINE n == Len(fifo)
  <1>1. /\ cap \in Nat \ {0} /\ head \in 0..(cap - 1) /\ tail \in 0..(cap - 1)
        /\ queue \in [0..(cap - 1) -> Messages \cup {Junk}]
        /\ fifo \in Seq(Messages) /\ n \in Nat /\ n < cap
        /\ n = IF head <= tail THEN tail - head ELSE tail + cap - head
        /\ \A i \in 1..n : queue[Place(i)] = fifo[i]
    BY DEF RingInv, RingType, RingIsFifo, skynet_mq_length
  <1>2. /\ head # tail /\ head' = (IF head + 1 >= cap THEN 0 ELSE head + 1)
        /\ queue' = queue /\ cap' = cap /\ tail' = tail /\ fifo' = Tail(fifo)
        /\ popped' = [got |-> queue[head], want |-> Head(fifo)]
    BY DEF skynet_mq_pop, NextHead
  <1>3. n > 0 BY <1>1, <1>2
  <1>4. /\ Head(fifo) = fifo[1] /\ fifo' \in Seq(Messages) /\ Len(fifo') = n - 1
        /\ \A i \in 1..(n - 1) : fifo'[i] = fifo[i + 1]
    BY <1>1, <1>2, <1>3
  <1>5. Place(1) = head BY <1>1 DEF Place
  <1>6. popped'.got = popped'.want
    <2>1. 1 \in 1..n BY <1>1, <1>3
    <2>2. queue[head] = fifo[1] BY <1>1, <1>5, <2>1
    <2>3. popped'.got = queue[head] /\ popped'.want = Head(fifo) BY <1>2
    <2> QED BY <1>4, <2>2, <2>3
  <1>7. \A i \in 1..(n - 1) : Place(i)' = Place(i + 1)
    BY <1>1, <1>2 DEF Place
  <1>8. n - 1 = skynet_mq_length' BY <1>1, <1>2 DEF skynet_mq_length
  <1>9. RingType' BY <1>1, <1>2, <1>4 DEF RingType
  <1>10. \A i \in 1..(n - 1) : queue'[Place(i)'] = fifo'[i]
    <2> TAKE i \in 1..(n - 1)
    <2>1. i + 1 \in 1..n BY <1>1
    <2> QED BY <1>1, <1>2, <1>4, <1>7, <2>1
  <1> QED BY <1>1, <1>2, <1>4, <1>6, <1>8, <1>9, <1>10 DEF RingInv, RingIsFifo

(* Nothing else touches the ring.                                          *)
LEMMA SameRing ==
  ASSUME RingInv, UNCHANGED <<queue, cap, head, tail, fifo>>
  PROVE  RingInv'
  BY DEF RingInv, RingType, RingIsFifo, skynet_mq_length, Place

(* RingInv is an invariant.                                                *)
LEMMA RingInvariant == MqSpec => []RingInv
  <1>1. MqInit => RingInv BY InitRing
  <1>2. RingInv /\ [MqNext]_mqVars => RingInv'
    <2> SUFFICES ASSUME RingInv, [MqNext]_mqVars PROVE RingInv' OBVIOUS
    <2>1. CASE \E m \in Messages : skynet_mq_push(m) BY <2>1, PushRing
    <2>2. CASE skynet_mq_pop BY <2>2, PopRing
    <2>3. CASE PopNothing BY <2>3, SameRing DEF PopNothing
    <2>4. CASE skynet_mq_overload BY <2>4, SameRing DEF skynet_mq_overload
    <2>5. CASE UNCHANGED mqVars BY <2>5, SameRing DEF mqVars
    <2>6. CASE DoubleThreshold \/ PopDone BY <2>6, SameRing DEF DoubleThreshold, PopDone
    <2> QED BY <2>1, <2>2, <2>3, <2>4, <2>5, <2>6 DEF MqNext
  <1> QED BY <1>1, <1>2, PTL DEF MqSpec

(* The ring buffer holds the messages pushed and not popped, in order.     *)
THEOREM RingCorrect == MqSpec => []RingIsFifo
  <1>1. RingInv => RingIsFifo BY DEF RingInv
  <1> QED BY <1>1, RingInvariant, PTL

(* Every pop returns the oldest message waiting.                           *)
THEOREM OldestFirst == MqSpec => []PopsOldest
  <1> DEFINE Inv == RingInv /\ PopsOldest
  <1>1. MqInit => Inv BY InitRing DEF MqInit, PopsOldest
  <1>2. Inv /\ [MqNext]_mqVars => Inv'
    <2> SUFFICES ASSUME Inv, [MqNext]_mqVars PROVE Inv' OBVIOUS
    <2>1. CASE \E m \in Messages : skynet_mq_push(m)
      BY <2>1, PushRing DEF skynet_mq_push, PopsOldest
    <2>2. CASE skynet_mq_pop BY <2>2, PopRing DEF PopsOldest
    <2>3. CASE PopNothing BY <2>3, SameRing DEF PopNothing, PopsOldest
    <2>4. CASE skynet_mq_overload BY <2>4, SameRing DEF skynet_mq_overload, PopsOldest
    <2>5. CASE UNCHANGED mqVars BY <2>5, SameRing DEF mqVars, PopsOldest
    <2>6. CASE DoubleThreshold \/ PopDone
      BY <2>6, SameRing DEF DoubleThreshold, PopDone, PopsOldest
    <2> QED BY <2>1, <2>2, <2>3, <2>4, <2>5, <2>6 DEF MqNext
  <1> QED BY <1>1, <1>2, PTL DEF MqSpec

(* Every step preserves GrowthInv.                                         *)
LEMMA NextGrowth ==
  ASSUME RingInv, RingInv', GrowthInv, MqNext PROVE GrowthInv'
  <1> USE QueueAssumption
  <1>1. CASE \E m \in Messages : skynet_mq_push(m)
    BY <1>1 DEF skynet_mq_push, GrowthInv, Reported
  <1>2. CASE skynet_mq_pop
    <2>1. /\ dispatcher = "pop" /\ dispatcher' = "locked"
          /\ peak' = IF Len(fifo) - 1 > peak THEN Len(fifo) - 1 ELSE peak
          /\ fifo' = Tail(fifo) /\ head # tail
          /\ UNCHANGED <<overload, overload_threshold, warned>>
      BY <1>2 DEF skynet_mq_pop
    <2>2. fifo \in Seq(Messages) /\ Len(fifo) \in Nat /\ Len(fifo) > 0
      BY <2>1 DEF RingInv, RingType, RingIsFifo, skynet_mq_length
    <2>3. Len(fifo') = Len(fifo) - 1 BY <2>1, <2>2
    <2>4. Len(fifo) - 1 = skynet_mq_length' BY <2>3 DEF RingInv, RingIsFifo
    <2>5. peak' \in Nat /\ (peak' <= overload_threshold \/ peak' = skynet_mq_length')
      BY <2>1, <2>2, <2>4 DEF GrowthInv
    <2> QED BY <2>1, <2>5 DEF GrowthInv, Reported
  <1>3. CASE DoubleThreshold
    <2>1. skynet_mq_length' = skynet_mq_length /\ skynet_mq_length \in Nat
      BY <1>3 DEF DoubleThreshold, skynet_mq_length, RingInv, RingType
    <2> QED BY <1>3, <2>1 DEF DoubleThreshold, GrowthInv, Reported
  <1>4. CASE PopDone
    <2>1. skynet_mq_length \in Nat BY DEF skynet_mq_length, RingInv, RingType
    <2> QED BY <1>4, <2>1 DEF PopDone, GrowthInv, Reported
  <1>5. CASE PopNothing
    BY <1>5 DEF PopNothing, GrowthInv, Reported
  <1>6. CASE skynet_mq_overload
    BY <1>6 DEF skynet_mq_overload, GrowthInv, Reported
  <1> QED BY <1>1, <1>2, <1>3, <1>4, <1>5, <1>6 DEF MqNext

(* A queue that grows is reported each time its length doubles.            *)
THEOREM GrowthReported == MqSpec => []NoSilentGrowth
  <1>1. MqInit => GrowthInv
    BY QueueAssumption DEF MqInit, GrowthInv, Reported
  <1>2. RingInv /\ RingInv' /\ GrowthInv /\ [MqNext]_mqVars => GrowthInv'
    <2>1. ASSUME GrowthInv, UNCHANGED mqVars PROVE GrowthInv'
      BY <2>1 DEF mqVars, GrowthInv, Reported, skynet_mq_length
    <2> QED BY <2>1, NextGrowth
  <1>3. GrowthInv => NoSilentGrowth
    BY QueueAssumption DEF GrowthInv, Reported, NoSilentGrowth
  <1> QED BY <1>1, <1>2, <1>3, RingInvariant, PTL DEF MqSpec
=============================================================================
