----------------------------- MODULE PeerProofs -----------------------------
(***************************************************************************)
(* Theorems about a peer: the event queue between its threads, and whole   *)
(* peers around the tracker, for any number of events and of peers.        *)
(***************************************************************************)
EXTENDS EventQueue, Sync, FileTableLemmas, WellFoundedInduction, TLAPS

-----------------------------------------------------------------------------
(***************************************************************************)
(* The event queue.  However many events there are: as long as the         *)
(* consumer's second unlock has not hit the producer, the threads keep out *)
(* of each other's way, the producer follows no bad pointer, and no event  *)
(* is lost or reordered.  Events are numbered in the order they are        *)
(* allocated, so what the consumer holds or has freed has lower numbers    *)
(* than what is in the queue.                                              *)
(***************************************************************************)
\* Everything the consumer can reach or has freed is older than event x.
Below(x) ==
  /\ batch < x
  /\ \A e \in freed : e < x
  /\ \A e \in Events : e < x => next[e] < x

\* Nothing points to the event the producer is about to put in the queue, and
\* nothing points beyond it.
Fresh ==
  LET bound == IF prodPc \in {"lock", "test", "first", "append"} THEN added - 1 ELSE added
  IN  /\ head <= bound /\ tail <= bound /\ batch <= bound
      /\ \A e \in freed : e <= bound
      /\ \A e \in Events : next[e] <= bound

Apart ==
  /\ prodPc \in ProdInside \/ consPc \in ConsInside => locked
  /\ ~(prodPc \in ProdInside /\ consPc \in ConsInside)

\* head and tail while either thread is at work on them.
Ends ==
  /\ consPc = "clearHead" => batch = head
  /\ consPc = "clearTail" => head = Null
  /\ consPc # "clearTail" /\ prodPc # "setTail" => (head = Null <=> tail = Null)
  /\ head # Null /\ tail # Null => head <= tail
  /\ prodPc = "first" => head = Null
  /\ prodPc = "setTail" => head = added
  /\ prodPc = "append" => tail # Null
  /\ prodPc = "advance" => tail # Null /\ next[tail] = added
  /\ prodPc # "idle" => added # Null

Old ==
  head # Null =>
    IF consPc = "clearHead"
      THEN /\ \A e \in freed : e < head
           /\ \A e \in Events : e < head => next[e] < head
      ELSE Below(head)

Good == Apart /\ Fresh /\ Ends /\ Old /\ ~crashed

\* The types the argument needs.
Typed ==
  /\ locked \in BOOLEAN /\ stray \in BOOLEAN /\ crashed \in BOOLEAN
  /\ head \in Pointers /\ tail \in Pointers /\ batch \in Pointers
  /\ next \in [Events -> Pointers]
  /\ freed \subseteq Events
  /\ added \in 0..MaxEvents

QueueInv == Typed /\ (~stray => Good)

LEMMA InitQueueInv == QueueInit => QueueInv
<1>. SUFFICES ASSUME QueueInit PROVE QueueInv
  OBVIOUS
<1>. USE MaxEventsAssumption DEF QueueInit, Events, Pointers, Null
<1>1. Typed
  <2>1. /\ locked \in BOOLEAN /\ stray \in BOOLEAN /\ crashed \in BOOLEAN
        /\ freed \subseteq Events /\ next \in [Events -> Pointers]
    OBVIOUS
  <2>2. head \in Pointers /\ tail \in Pointers /\ batch \in Pointers /\ added \in 0..MaxEvents
    OBVIOUS
  <2>. QED
    BY <2>1, <2>2 DEF Typed
<1>2. Apart /\ Ends /\ Old
  BY DEF Apart, Ends, Old, ProdInside, ConsInside
<1>3. Fresh
  BY DEF Fresh
<1>. QED
  BY <1>1, <1>2, <1>3 DEF QueueInv, Good

\* Each step keeps the types.
LEMMA TypedNext == Typed /\ [QueueNext]_queueVars => Typed'
<1>. SUFFICES ASSUME Typed, [QueueNext]_queueVars PROVE Typed'
  OBVIOUS
<1>. USE MaxEventsAssumption
     DEF Typed, Events, Pointers, Null, queue, producer, consumer, Running, ProdGoes, ConsGoes,
         Lock, Unlock
<1>1. CASE Produce
  BY <1>1 DEF Produce
<1>2. CASE AddStep
  <2>1. CASE AddLock \/ AddTest \/ AddSetTail
    BY <2>1 DEF AddLock, AddTest, AddSetTail
  <2>6. CASE AddFirst
    <3>1. added \in Pointers
      OBVIOUS
    <3>. QED
      BY <2>6, <3>1 DEF AddFirst
  <2>2. CASE AddAppend
    <3>1. tail \in Events /\ added \in Pointers /\ next' = [next EXCEPT ![tail] = added]
      BY <2>2 DEF AddAppend
    <3>2. next' \in [Events -> Pointers]
      BY <3>1
    <3>. QED
      BY <2>2, <3>2 DEF AddAppend
  <2>3. CASE AddAdvance
    BY <2>3 DEF AddAdvance
  <2>4. CASE AddCrash
    BY <2>4 DEF AddCrash
  <2>5. CASE AddLoadLength \/ AddStoreLength \/ AddSignal \/ AddUnlock
    BY <2>5 DEF AddLoadLength, AddStoreLength, AddSignal, AddUnlock
  <2>. QED
    BY <1>2, <2>1, <2>2, <2>3, <2>4, <2>5, <2>6 DEF AddStep
<1>3. CASE GetStep \/ GetSpurious
  BY <1>3 DEF GetStep, GetLock, GetCheck, GetSpurious, GetRelock, TakeHead, ClearHead, ClearTail,
              ClearLength, RemoveAllUnlock, GetUnlock, SendBatch, FreeOne, FreeDone
<1>4. CASE UNCHANGED queueVars
  BY <1>4 DEF queueVars
<1>. QED
  BY <1>1, <1>2, <1>3, <1>4 DEF QueueNext

\* Each step of the producer keeps what holds until the lock is broken ...
LEMMA ProducerNext == Typed /\ Typed' /\ Good /\ (Produce \/ AddStep) => Good'
<1>. SUFFICES ASSUME Typed, Typed', Good, Produce \/ AddStep PROVE Good'
  OBVIOUS
<1>. USE MaxEventsAssumption
     DEF Typed, Good, Apart, Fresh, Ends, Old, Below, Events, Pointers, Null, ProdInside, ConsInside,
         queue, producer, consumer, Running, ProdGoes, Lock, Unlock
<1>1. CASE Produce
  BY <1>1 DEF Produce
<1>2. CASE AddLock
  BY <1>2 DEF AddLock
<1>3. CASE AddTest
  BY <1>3 DEF AddTest
<1>4. CASE AddFirst
  BY <1>4 DEF AddFirst
<1>5. CASE AddSetTail
  BY <1>5 DEF AddSetTail
<1>6. CASE AddAppend
  BY <1>6 DEF AddAppend
<1>7. CASE AddAdvance
  BY <1>7 DEF AddAdvance
<1>8. CASE AddCrash
  BY <1>8 DEF AddCrash
<1>9. CASE AddLoadLength \/ AddStoreLength
  BY <1>9 DEF AddLoadLength, AddStoreLength
<1>10. CASE AddSignal
  BY <1>10 DEF AddSignal
<1>11. CASE AddUnlock
  BY <1>11 DEF AddUnlock
<1>. QED
  BY <1>1, <1>2, <1>3, <1>4, <1>5, <1>6, <1>7, <1>8, <1>9, <1>10, <1>11 DEF AddStep

\* ... and so does each step of the consumer, but for the second unlock that finds
\* the lock taken.
LEMMA ConsumerNext ==
  Typed /\ Typed' /\ Good /\ ~stray' /\ (GetStep \/ GetSpurious) => Good'
<1>. SUFFICES ASSUME Typed, Typed', Good, ~stray', GetStep \/ GetSpurious PROVE Good'
  OBVIOUS
<1>. USE MaxEventsAssumption
     DEF Typed, Good, Apart, Fresh, Ends, Old, Below, Events, Pointers, Null, ProdInside, ConsInside,
         queue, producer, consumer, Running, ConsGoes, Lock, Unlock
<1>1. CASE GetLock \/ GetRelock \/ GetSpurious
  BY <1>1 DEF GetLock, GetRelock, GetSpurious
<1>2. CASE GetCheck
  BY <1>2 DEF GetCheck
<1>3. CASE TakeHead
  BY <1>3 DEF TakeHead
<1>4. CASE ClearHead
  BY <1>4 DEF ClearHead
<1>5. CASE ClearTail \/ ClearLength
  BY <1>5 DEF ClearTail, ClearLength
<1>6. CASE RemoveAllUnlock
  BY <1>6 DEF RemoveAllUnlock
<1>7. CASE GetUnlock
  BY <1>7 DEF GetUnlock
<1>8. CASE SendBatch \/ FreeDone
  BY <1>8 DEF SendBatch, FreeDone
<1>9. CASE FreeOne
  BY <1>9 DEF FreeOne
<1>. QED
  BY <1>1, <1>2, <1>3, <1>4, <1>5, <1>6, <1>7, <1>8, <1>9 DEF GetStep

LEMMA NextQueueInv == QueueInv /\ [QueueNext]_queueVars => QueueInv'
<1>. SUFFICES ASSUME QueueInv, [QueueNext]_queueVars PROVE QueueInv'
  OBVIOUS
<1>1. Typed /\ Typed'
  BY TypedNext DEF QueueInv
<1>2. stray => stray'
  BY DEF QueueNext, queueVars, Produce, AddStep, AddLock, AddTest, AddFirst, AddSetTail, AddAppend, AddAdvance,
         AddCrash, AddLoadLength, AddStoreLength, AddSignal, AddUnlock, GetStep, GetLock, GetCheck,
         GetSpurious, GetRelock, TakeHead, ClearHead, ClearTail, ClearLength, RemoveAllUnlock,
         GetUnlock, SendBatch, FreeOne, FreeDone
<1>3. CASE UNCHANGED queueVars
  BY <1>3 DEF QueueInv, Typed, Good, Apart, Fresh, Ends, Old, Below, queueVars, queue, producer, consumer
<1>. QED
  BY <1>1, <1>2, <1>3, ProducerNext, ConsumerNext DEF QueueInv, QueueNext

\* The lock excludes the threads from each other until a stray unlock.
THEOREM StayApart == QueueSpec => []ApartUntilStray
<1>1. QueueInv => ApartUntilStray
  BY DEF QueueInv, Good, Apart, ApartUntilStray
<1>. QED
  BY <1>1, InitQueueInv, NextQueueInv, PTL DEF QueueSpec

\* eventqueue_add follows no null or freed tail until a stray unlock.
THEOREM StaySafe == QueueSpec => []SafeUntilStray
<1>1. QueueInv => SafeUntilStray
  BY DEF QueueInv, Good, SafeUntilStray
<1>. QED
  BY <1>1, InitQueueInv, NextQueueInv, PTL DEF QueueSpec
-----------------------------------------------------------------------------
(***************************************************************************)
(* The order of the events.  They are numbered as they are added, so that  *)
(* a list of them is an interval, and what is to be shown is that the      *)
(* intervals sent, in hand and in the queue follow each other.             *)
(***************************************************************************)
Interval(a, b) == [i \in 1..(b - a + 1) |-> a + i - 1]

\* The events up to here are linked to the queue, or were.
Linked == IF prodPc \in {"lock", "test", "first", "append"} THEN added - 1 ELSE added

\* An event is followed by the one added after it, or by none yet.
Forward ==
  /\ \A e \in Events : next[e] \in {Null, e + 1}
  /\ \A e \in Events : e >= Linked => next[e] = Null

\* The list that starts at h is that of the events a, ..., b.
Chain(h, a, b) ==
  IF h = Null THEN a = b + 1
  ELSE /\ h = a /\ a <= b /\ next[b] = Null
       /\ \A e \in Events : a <= e /\ e < b => next[e] = e + 1

Order ==
  /\ Len(sent) \in 0..Linked /\ sent = Interval(1, Len(sent))
  /\ IF consPc \in {"clearTail", "clearLength", "unlock", "unlock2", "send"}
     THEN \E m \in Len(sent)..Linked :
            Chain(batch, Len(sent) + 1, m) /\ Chain(head, m + 1, Linked)
     ELSE Chain(head, Len(sent) + 1, Linked)

\* What tail and length say of the list, and what the threads have read of it.
Size == IF head = Null THEN 0 ELSE Linked - head + 1

Fields ==
  /\ length \in Int /\ seen \in Int
  /\ consPc = "clearLength" => head = Null
  /\ consPc # "clearTail" /\ prodPc \notin {"setTail", "advance"} /\ tail # Null => tail = Linked
  /\ prodPc = "advance" => tail = Linked - 1
  /\ consPc \notin {"clearTail", "clearLength"} =>
       length = IF prodPc \in {"setTail", "advance", "load", "store"} THEN Size - 1 ELSE Size
  /\ prodPc = "store" => seen = length

OrderInv == ~stray => Forward /\ Order /\ Fields

LEMMA Least ==
  ASSUME NEW S \in SUBSET Nat, S # {}
  PROVE  \E x \in S : \A y \in S : x <= y
<1> DEFINE R == OpToRel(<, Nat)
<1>1. IsWellFoundedOn(R, Nat)
  BY NatLessThanWellFounded
<1>2. \A x, y \in Nat : <<y, x>> \in R <=> y < x
  BY DEF OpToRel
<1> HIDE DEF R
<1>3. PICK x \in S : \A y \in S : ~ (<<y, x>> \in R)
  BY <1>1, WFMin
<1>4. ASSUME NEW y \in S PROVE x <= y
  <2>1. x \in Nat /\ y \in Nat /\ ~ (<<y, x>> \in R)
    BY <1>3
  <2>2. ~ (y < x)
    BY <1>2, <2>1
  <2> QED
    BY <2>1, <2>2
<1> QED
  BY <1>4

LEMMA Intervals ==
  ASSUME NEW a \in Int, NEW b \in Int, a <= b + 1
  PROVE  /\ Interval(a, b) \in Seq(Int) /\ Len(Interval(a, b)) = b - a + 1
         /\ DOMAIN Interval(a, b) = 1..(b - a + 1)
         /\ \A i \in 1..(b - a + 1) : Interval(a, b)[i] = a + i - 1
         /\ a = b + 1 => Interval(a, b) = <<>>
         /\ a = b => Interval(a, b) = <<a>>
<1>1. b - a + 1 \in Nat
  OBVIOUS
<1>2. Interval(a, b) \in [1..(b - a + 1) -> Int]
  BY DEF Interval
<1>3. Interval(a, b) \in Seq(Int) /\ Len(Interval(a, b)) = b - a + 1
  BY <1>1, <1>2
<1>4. \A i \in 1..(b - a + 1) : Interval(a, b)[i] = a + i - 1
  BY DEF Interval
<1> QED
  BY <1>2, <1>3, <1>4

LEMMA IntervalConcat ==
  ASSUME NEW a \in Int, NEW b \in Int, NEW c \in Int, a <= b + 1, b <= c
  PROVE  Interval(a, b) \o Interval(b + 1, c) = Interval(a, c)
<1>1. PICK s : s = Interval(a, b)
  OBVIOUS
<1>2. PICK t : t = Interval(b + 1, c)
  OBVIOUS
<1>3. PICK u : u = Interval(a, c)
  OBVIOUS
<1>4. /\ s \in Seq(Int) /\ Len(s) = b - a + 1
      /\ \A i \in 1..(b - a + 1) : s[i] = a + i - 1
  BY <1>1, Intervals
<1>5. /\ t \in Seq(Int) /\ Len(t) = c - b
      /\ \A i \in 1..(c - b) : t[i] = b + i
  <2>1. PICK q \in Int : q = b + 1
    OBVIOUS
  <2>2. q <= c + 1
    BY <2>1
  <2>3. /\ t \in Seq(Int) /\ Len(t) = c - q + 1
        /\ \A i \in 1..(c - q + 1) : t[i] = q + i - 1
    BY <1>2, <2>1, <2>2, Intervals
  <2> QED
    BY <2>1, <2>3
<1>6. /\ u \in Seq(Int) /\ Len(u) = c - a + 1
      /\ \A i \in 1..(c - a + 1) : u[i] = a + i - 1
  <2>1. a <= c + 1
    OBVIOUS
  <2> QED
    BY <1>3, <2>1, Intervals
<1>a. s \o t \in Seq(Int) /\ Len(s \o t) = Len(u)
  BY <1>4, <1>5, <1>6
<1>7. PICK w \in Seq(Int) : w = s \o t
  BY <1>a
<1>8. Len(w) = Len(u)
  BY <1>a, <1>7
<1>9. ASSUME NEW i \in 1..Len(u) PROVE w[i] = u[i]
  <2>1. CASE i <= Len(s)
    BY <1>4, <1>5, <1>6, <1>7, <2>1
  <2>2. CASE i > Len(s)
    <3>1. w[i] = t[i - Len(s)] /\ i - Len(s) \in 1..(c - b)
      <4>1. Len(s) \in Nat /\ Len(t) \in Nat /\ Len(u) = Len(s) + Len(t) /\ Len(t) = c - b
        BY <1>4, <1>5, <1>6
      <4>2. i \in Nat /\ i <= Len(s) + Len(t)
        BY <1>9, <4>1
      <4>. QED
        BY <1>4, <1>5, <1>7, <2>2, <4>1, <4>2
    <3> QED
      BY <1>4, <1>5, <1>6, <3>1
  <2>3. Len(s) \in Int /\ i \in Int
    BY <1>4, <1>6
  <2> QED
    BY <2>1, <2>2, <2>3
<1>10. w = u
  <2>1. DOMAIN w = 1..Len(u) /\ DOMAIN u = 1..Len(u)
    BY <1>6, <1>8
  <2>2. w = [i \in DOMAIN w |-> w[i]] /\ u = [i \in DOMAIN u |-> u[i]]
    BY <1>6
  <2> QED
    BY <1>9, <2>1, <2>2
<1> QED
  BY <1>1, <1>2, <1>3, <1>7, <1>10

\* The recursive definition of a list has a solution: from each event up to the next that
\* has no successor.
LEMMA ListsExist ==
  ASSUME next \in [Events -> Pointers], \A e \in Events : next[e] \in {Null, e + 1}
  PROVE  \E f : f = [x \in Pointers |-> IF x = Null THEN <<>> ELSE <<x>> \o f[next[x]]]
<1> DEFINE Stops(e) == {k \in Events : e <= k /\ next[k] = Null}
           final(e) == CHOOSE k \in Stops(e) : \A y \in Stops(e) : k <= y
<1>1. MaxEvents \in Nat
  BY MaxEventsAssumption
<1>2. \A e \in Events : e \in Int /\ MaxEvents \in Stops(e) /\ Stops(e) \subseteq Int
  BY <1>1 DEF Events, Pointers, Null
<1>3. ASSUME NEW e \in Events
      PROVE  final(e) \in Stops(e) /\ \A y \in Stops(e) : final(e) <= y
  <2>1. Stops(e) \in SUBSET Nat /\ Stops(e) # {}
    BY <1>2 DEF Events
  <2>2. \E x \in Stops(e) : \A y \in Stops(e) : x <= y
    BY <2>1, Least
  <2> QED
    BY <2>2
<1>4. ASSUME NEW e \in Events, next[e] = Null PROVE final(e) = e
  <2>1. e \in Stops(e) /\ e \in Int
    BY <1>2, <1>4
  <2>2. final(e) \in Int /\ e <= final(e) /\ final(e) <= e
    <3>1. final(e) \in Stops(e) /\ final(e) <= e
      BY <1>3, <2>1
    <3> HIDE DEF final
    <3> QED
      BY <1>2, <3>1
  <2> HIDE DEF final
  <2> QED
    BY <2>1, <2>2
<1>5. ASSUME NEW e \in Events, next[e] # Null
      PROVE  next[e] = e + 1 /\ e + 1 \in Events /\ final(e + 1) = final(e)
  <2>1. next[e] = e + 1 /\ e + 1 \in Events
    BY <1>5 DEF Pointers
  <2>2. Stops(e) = Stops(e + 1)
    <3>1. ASSUME NEW k \in Events PROVE k \in Stops(e) <=> k \in Stops(e + 1)
      BY <1>5 DEF Events
    <3> QED
      BY <3>1
  <2> QED
    BY <2>1, <2>2
<1>6. ASSUME NEW e \in Events PROVE final(e) \in Int /\ e <= final(e)
  <2>1. final(e) \in Stops(e)
    BY <1>3
  <2> HIDE DEF final
  <2> QED
    BY <1>2, <2>1
<1> HIDE DEF final
<1> DEFINE g == [x \in Pointers |-> IF x = Null THEN <<>> ELSE Interval(x, final(x))]
<1>7. ASSUME NEW x \in Pointers
      PROVE  g[x] = IF x = Null THEN <<>> ELSE <<x>> \o g[next[x]]
  <2>1. CASE x = Null
    BY <2>1
  <2>2. CASE x # Null /\ next[x] = Null
    <3>1. x \in Events /\ x \in Int /\ Null \in Pointers
      BY <1>2, <2>2 DEF Pointers
    <3>2. Interval(x, x) = <<x>>
      BY <3>1, Intervals
    <3>3. g[x] = <<x>> /\ g[Null] = <<>>
      BY <1>4, <2>2, <3>1, <3>2
    <3> QED
      BY <2>2, <3>1, <3>3
  <2>3. CASE x # Null /\ next[x] # Null
    <3>1. x \in Events /\ x \in Int
      BY <1>2, <2>3 DEF Pointers
    <3>2. next[x] = x + 1 /\ x + 1 \in Events /\ final(x + 1) = final(x)
      BY <1>5, <2>3, <3>1
    <3>3. final(x) \in Int /\ x <= final(x)
      BY <1>6, <3>1
    <3>4. Interval(x, x) = <<x>>
      BY <3>1, Intervals
    <3>5. Interval(x, x) \o Interval(x + 1, final(x)) = Interval(x, final(x))
      <4>1. PICK z \in Int : z = final(x)
        BY <3>3
      <4>2. x <= x + 1 /\ x <= z
        BY <3>1, <3>3, <4>1
      <4> QED
        BY <3>1, <4>1, <4>2, IntervalConcat
    <3>6. x + 1 # Null /\ x + 1 \in Pointers
      BY <3>2 DEF Events, Pointers, Null
    <3> QED
      BY <2>3, <3>2, <3>4, <3>5, <3>6
  <2> QED
    BY <2>1, <2>2, <2>3
<1>8. g = [x \in Pointers |-> IF x = Null THEN <<>> ELSE <<x>> \o g[next[x]]]
  BY <1>7
<1> QED
  BY <1>8

\* A chain of events is a list, and List yields its interval.
LEMMA ListOfChain ==
  ASSUME next \in [Events -> Pointers], \A e \in Events : next[e] \in {Null, e + 1},
         NEW h, NEW a \in Int, NEW b \in Int, Chain(h, a, b), h # Null => a \in Events /\ b \in Events
  PROVE  List(h) = Interval(a, b)
<1>1. PICK f : /\ f = [x \in Pointers |-> IF x = Null THEN <<>> ELSE <<x>> \o f[next[x]]]
               /\ List(h) = f[h]
  BY ListsExist DEF List
<1>2. CASE h = Null
  <2>1. f[h] = <<>>
    BY <1>1, <1>2 DEF Pointers
  <2>2. a = b + 1
    BY <1>2 DEF Chain
  <2> QED
    <3>1. a <= b + 1
      BY <2>2
    <3> QED
      BY <1>1, <2>1, <2>2, <3>1, Intervals
<1>3. CASE h # Null
  <2>1. /\ h = a /\ a <= b /\ next[b] = Null
        /\ \A e \in Events : a <= e /\ e < b => next[e] = e + 1
    BY <1>3 DEF Chain
  <2>2. \A x \in Events : f[x] = <<x>> \o f[next[x]]
    <3> SUFFICES ASSUME NEW x \in Events PROVE f[x] = <<x>> \o f[next[x]]
      OBVIOUS
    <3>1. x \in Pointers /\ x # Null
      BY DEF Pointers, Events, Null
    <3> QED
      BY <1>1, <3>1
  <2>3. f[Null] = <<>>
    BY <1>1 DEF Pointers
  <2> DEFINE Bad == {n \in 0..(b - a) : f[b - n] # Interval(b - n, b)}
  <2>4. Bad = {}
    <3> SUFFICES ASSUME Bad # {} PROVE FALSE
      OBVIOUS
    <3>0. Bad \in SUBSET Nat
      BY <2>1
    <3>1. PICK n \in Bad : \A y \in Bad : n <= y
      BY <3>0, Least
    <3>2. n \in Nat /\ n <= b - a /\ f[b - n] # Interval(b - n, b)
      BY <2>1, <3>1
    <3>3. PICK e \in Int : e = b - n
      BY <3>2
    <3>4. e \in Events /\ a <= e /\ e <= b
      <4>1. a \in 1..MaxEvents /\ b \in 1..MaxEvents
        BY <1>3 DEF Events
      <4> QED
        BY <3>2, <3>3, <4>1, MaxEventsAssumption DEF Events
    <3>5. Interval(e, e) = <<e>>
      <4>1. e <= e + 1
        OBVIOUS
      <4> QED
        BY <4>1, Intervals
    <3>6. CASE n = 0
      BY <2>1, <2>2, <2>3, <3>2, <3>3, <3>4, <3>5, <3>6
    <3>7. CASE n # 0
      <4>1. n - 1 \in 0..(b - a) /\ n - 1 < n /\ b - (n - 1) = e + 1
        BY <2>1, <3>2, <3>3, <3>7
      <4>2. n - 1 \notin Bad
        BY <3>1, <3>2, <4>1
      <4>3. f[e + 1] = Interval(e + 1, b)
        BY <4>1, <4>2
      <4>4. e < b
        BY <3>2, <3>3, <3>7
      <4>5. f[e] = <<e>> \o Interval(e + 1, b)
        BY <2>1, <2>2, <3>4, <4>3, <4>4
      <4>6. Interval(e, e) \o Interval(e + 1, b) = Interval(e, b)
        <5>1. e <= e + 1 /\ e <= b
          BY <4>4
        <5> QED
          BY <5>1, IntervalConcat
      <4> QED
        BY <3>2, <3>3, <3>5, <4>5, <4>6
    <3> QED
      BY <3>6, <3>7
  <2>5. b - a \in 0..(b - a) /\ b - (b - a) = a
    BY <2>1
  <2> QED
    BY <1>1, <2>1, <2>4, <2>5
<1> QED
  BY <1>2, <1>3

LEMMA OrderInit == QueueInit => OrderInv
<1> SUFFICES ASSUME QueueInit PROVE Forward /\ Order /\ Fields
  BY DEF OrderInv
<1>1. Forward
  BY DEF QueueInit, Forward, Linked, Null
<1>2. Order
  <2>1. Interval(1, 0) = <<>>
    BY Intervals
  <2>2. Len(sent) = 0 /\ Linked = 0 /\ Chain(head, 1, 0)
    BY DEF QueueInit, Linked, Chain, Null
  <2> QED
    BY <2>1, <2>2 DEF QueueInit, Order
<1>3. Fields
  BY DEF QueueInit, Fields, Size, Null
<1> QED
  BY <1>1, <1>2, <1>3

LEMMA LinkedTypes ==
  ASSUME Typed, Good
  PROVE  Linked \in Int /\ Linked >= 0 /\ Linked <= MaxEvents /\ added \in Int
BY MaxEventsAssumption DEF Typed, Good, Ends, Linked, Null

\* The steps that touch what is linked to what.
Linking == AddFirst \/ AddAppend

LEMMA OtherSteps ==
  ASSUME Typed, [QueueNext]_queueVars, ~Linking
  PROVE  /\ UNCHANGED next /\ Linked' = Linked
         /\ ClearHead \/ UNCHANGED head
BY MaxEventsAssumption
   DEF Typed, QueueNext, queueVars, Linking, Linked, queue, producer, consumer, Running, ProdGoes, ConsGoes, Null,
       Produce, AddStep, AddLock, AddTest, AddSetTail, AddAdvance,
       AddCrash, AddLoadLength, AddStoreLength, AddSignal, AddUnlock, GetStep, GetLock, GetCheck,
       GetSpurious, GetRelock, TakeHead, ClearHead, ClearTail, ClearLength, RemoveAllUnlock,
       GetUnlock, SendBatch, FreeOne, FreeDone

\* An event is linked behind the final one, when the consumer is outside.
LEMMA LinkingFacts ==
  ASSUME Typed, Good, Forward, Fields, Linking
  PROVE  /\ consPc \notin ConsInside /\ consPc' = consPc
         /\ Linked' = added /\ added = Linked + 1 /\ added \in Events
         /\ UNCHANGED <<sent, batch, added, tail, length, seen>>
         /\ \/ /\ AddFirst /\ head = Null /\ head' = added /\ UNCHANGED next
            \/ /\ AddAppend /\ head # Null /\ UNCHANGED head /\ tail = Linked
               /\ tail \in Events /\ next' = [next EXCEPT ![tail] = added]
<1>1. CASE AddFirst
  BY <1>1, MaxEventsAssumption
     DEF AddFirst, Running, ProdGoes, Typed, Good, Apart, Ends, Linked, Null, ProdInside, Events, consumer
<1>2. CASE AddAppend
  BY <1>2, MaxEventsAssumption
     DEF AddAppend, Running, ProdGoes, Typed, Good, Apart, Ends, Fields, Linked, Null, ProdInside,
         ConsInside, Events, Pointers, consumer
<1> QED
  BY <1>1, <1>2 DEF Linking

LEMMA ForwardNext ==
  ASSUME Typed, Good, Forward, Fields, [QueueNext]_queueVars
  PROVE  Forward'
<1>0. Linked \in Int /\ \A e \in Events : e \in Int
  BY LinkedTypes DEF Events
<1>1. CASE ~Linking
  BY <1>1, OtherSteps DEF Forward, Null
<1>2. CASE Linking
  <2>1. Linked' = Linked + 1 /\ added = Linked + 1
    BY <1>2, LinkingFacts
  <2>2. CASE UNCHANGED next
    BY <1>0, <2>1, <2>2 DEF Forward, Null
  <2>3. CASE tail = Linked /\ next' = [next EXCEPT ![tail] = added]
    BY <1>0, <2>1, <2>3 DEF Forward, Null, Typed
  <2> QED
    BY <1>2, <2>2, <2>3, LinkingFacts
<1> QED
  BY <1>1, <1>2

LEMMA FieldsNext ==
  ASSUME Typed, Typed', Good, Good', Forward, Fields, Order, [QueueNext]_queueVars
  PROVE  Fields'
<1>0. Linked \in Int /\ Size \in Int /\ added \in Int
  BY LinkedTypes DEF Size, Typed, Pointers, Events
<1> USE DEF Typed, Good, Apart, Ends, Null, ProdInside, ConsInside, Events, Pointers,
            queue, producer, consumer, Running, ProdGoes, ConsGoes, Lock, Unlock, Fields
<1>1. CASE Linking
  BY <1>0, <1>1, LinkingFacts DEF AddFirst, AddAppend, Size
<1>2. CASE ~Linking /\ (Produce \/ AddStep)
  <2>1. Linked' = Linked /\ Size' = Size
    <3>1. Linked' = Linked
      BY <1>2, OtherSteps
    <3>2. UNCHANGED head
      BY <1>2 DEF Linking, Produce, AddStep, AddLock, AddTest, AddSetTail, AddAdvance, AddCrash,
                  AddLoadLength, AddStoreLength, AddSignal, AddUnlock
    <3> QED
      BY <3>1, <3>2 DEF Size
  <2>2. CASE Produce \/ AddLock \/ AddTest \/ AddCrash \/ AddSignal \/ AddUnlock
    BY <1>0, <2>1, <2>2 DEF Produce, AddLock, AddTest, AddCrash, AddSignal, AddUnlock, Size
  <2>3. CASE AddSetTail
    BY <1>0, <2>1, <2>3 DEF AddSetTail, Linked
  <2>4. CASE AddAdvance
    BY <1>0, <2>1, <2>4 DEF AddAdvance, Linked
  <2>5. CASE AddLoadLength \/ AddStoreLength
    BY <1>0, <2>1, <2>5 DEF AddLoadLength, AddStoreLength
  <2> QED
    BY <1>2, <2>2, <2>3, <2>4, <2>5 DEF AddStep, Linking
<1>3. CASE GetStep \/ GetSpurious
  <2>1. Linked' = Linked
    BY <1>3, OtherSteps DEF Linked, QueueNext, GetStep, GetLock, GetCheck,
       GetSpurious, GetRelock, TakeHead, ClearHead, ClearTail, ClearLength, RemoveAllUnlock,
       GetUnlock, SendBatch, FreeOne, FreeDone
  <2>2. CASE GetLock \/ GetCheck \/ GetSpurious \/ GetRelock \/ TakeHead \/ RemoveAllUnlock
             \/ GetUnlock \/ SendBatch \/ FreeOne \/ FreeDone
    <3>1. Size' = Size
      BY <2>1, <2>2 DEF Size, GetLock, GetCheck, GetSpurious, GetRelock, TakeHead, RemoveAllUnlock,
         GetUnlock, SendBatch, FreeOne, FreeDone
    <3> QED
      BY <2>1, <2>2, <3>1 DEF GetLock, GetCheck, GetSpurious, GetRelock, TakeHead, RemoveAllUnlock,
         GetUnlock, SendBatch, FreeOne, FreeDone
  <2>3. CASE ClearHead \/ ClearTail \/ ClearLength
    BY <1>0, <2>1, <2>3 DEF ClearHead, ClearTail, ClearLength, Size
  <2> QED
    BY <1>3, <2>2, <2>3 DEF GetStep
<1>4. CASE UNCHANGED queueVars
  BY <1>4 DEF queueVars, Linked, Size
<1> QED
  BY <1>1, <1>2, <1>3, <1>4 DEF QueueNext

\* A list is lengthened by the event that is linked to its end, ...
LEMMA ChainGrows ==
  ASSUME Typed, Good, Forward, Fields, Linking, NEW a \in Nat, 1 <= a, a <= Linked + 1,
         Chain(head, a, Linked)
  PROVE  Chain(head, a, Linked)'
<1>0. Linked \in Int /\ \A e \in Events : e \in Int
  BY LinkedTypes DEF Events
<1>1. /\ Linked' = Linked + 1 /\ added = Linked + 1 /\ added \in Events
      /\ \/ head = Null /\ head' = added /\ UNCHANGED next
         \/ /\ head # Null /\ UNCHANGED head /\ tail = Linked
            /\ tail \in Events /\ next' = [next EXCEPT ![tail] = added]
  BY LinkingFacts
<1>2. added # Null
  BY <1>1 DEF Events, Null
<1>3. next[added] = Null
  BY <1>0, <1>1 DEF Forward
<1>4. CASE head = Null
  BY <1>0, <1>1, <1>2, <1>3, <1>4 DEF Chain
<1>5. CASE head # Null
  <2>1. head = a /\ a <= Linked /\ \A e \in Events : a <= e /\ e < Linked => next[e] = e + 1
    BY <1>5 DEF Chain
  <2>2. next'[added] = Null
    BY <1>0, <1>1, <1>3, <1>5 DEF Typed
  <2>3. \A e \in Events : a <= e /\ e < Linked + 1 => next'[e] = e + 1
    BY <1>0, <1>1, <1>5, <2>1 DEF Typed
  <2> QED
    BY <1>0, <1>1, <1>5, <2>1, <2>2, <2>3 DEF Chain
<1> QED
  BY <1>4, <1>5

\* ... and no list that ends before is touched.
LEMMA ChainStays ==
  ASSUME Typed, Good, Forward, Fields, Linking, NEW a \in Int, NEW b \in Int,
         Chain(batch, a, b), b < Linked \/ head = Null
  PROVE  Chain(batch, a, b)'
<1>0. Linked \in Int /\ \A e \in Events : e \in Int
  BY LinkedTypes DEF Events
<1>1. /\ UNCHANGED batch
      /\ \/ UNCHANGED next
         \/ /\ head # Null /\ tail = Linked /\ next' = [next EXCEPT ![tail] = added]
  BY LinkingFacts
<1>2. CASE UNCHANGED next
  BY <1>1, <1>2 DEF Chain
<1>3. CASE head # Null /\ tail = Linked /\ next' = [next EXCEPT ![tail] = added]
  <2>1. \A e \in Int : e < Linked => next'[e] = next[e]
    BY <1>0, <1>3 DEF Typed
  <2> QED
    BY <1>0, <1>1, <1>3, <2>1 DEF Chain
<1> QED
  BY <1>1, <1>2, <1>3

LEMMA OrderNext ==
  ASSUME Typed, Good, Forward, Fields, Order, [QueueNext]_queueVars
  PROVE  Order'
<1> DEFINE Held == {"clearTail", "clearLength", "unlock", "unlock2", "send"}
<1>1. /\ Len(sent) \in Nat /\ Len(sent) <= Linked /\ sent = Interval(1, Len(sent))
      /\ Linked \in Int /\ Linked <= MaxEvents
  BY LinkedTypes DEF Order
<1>2. PICK s \in Nat : s = Len(sent)
  BY <1>1
<1>3. CASE Linking
  <2>1. /\ UNCHANGED sent /\ consPc' = consPc /\ Linked' = Linked + 1
    BY <1>3, LinkingFacts
  <2>2. CASE consPc \in Held
    <3>1. PICK m \in Int : s <= m /\ m <= Linked /\ Chain(batch, s + 1, m) /\ Chain(head, m + 1, Linked)
      BY <1>1, <1>2, <2>2 DEF Order
    <3>2. m < Linked \/ head = Null
      BY <1>1, <3>1 DEF Chain
    <3>3. Chain(batch, s + 1, m)'
      <4>1. s + 1 \in Int
        OBVIOUS
      <4> QED
        BY <1>3, <3>1, <3>2, <4>1, ChainStays
    <3>4. Chain(head, m + 1, Linked)'
      <4>1. m + 1 \in Nat /\ 1 <= m + 1 /\ m + 1 <= Linked + 1
        BY <1>1, <3>1
      <4> QED
        BY <1>3, <3>1, <4>1, ChainGrows
    <3>5. s \in 0..Linked' /\ m \in s..Linked'
      BY <1>1, <1>2, <2>1, <3>1
    <3>6. Len(sent') = s /\ sent' = Interval(1, s)
      BY <1>1, <1>2, <2>1
    <3> QED
      BY <2>1, <2>2, <3>3, <3>4, <3>5, <3>6 DEF Order
  <2>3. CASE consPc \notin Held
    <3>1. Chain(head, s + 1, Linked)
      BY <1>2, <2>3 DEF Order
    <3>2. Chain(head, s + 1, Linked)'
      <4>1. s + 1 \in Nat /\ 1 <= s + 1 /\ s + 1 <= Linked + 1
        BY <1>1, <1>2
      <4> QED
        BY <1>3, <3>1, <4>1, ChainGrows
    <3>3. s \in 0..Linked' /\ Len(sent') = s /\ sent' = Interval(1, s)
      BY <1>1, <1>2, <2>1
    <3> QED
      BY <2>1, <2>3, <3>2, <3>3 DEF Order
  <2> QED
    BY <2>2, <2>3
<1>4. CASE ~Linking
  <2>1. UNCHANGED next /\ Linked' = Linked /\ (ClearHead \/ UNCHANGED head)
    BY <1>4, OtherSteps
  <2>2. CASE Produce \/ AddStep \/ UNCHANGED queueVars
    <3>1. UNCHANGED <<consPc, batch, sent>> \/ (UNCHANGED <<batch, sent>> /\ consPc = "waiting" /\ consPc' = "relock")
      BY <2>2 DEF queueVars, consumer, Produce, AddStep, AddLock, AddTest, AddFirst, AddSetTail, AddAppend,
         AddAdvance, AddCrash, AddLoadLength, AddStoreLength, AddSignal, AddUnlock
    <3>2. UNCHANGED head
      BY <1>4, <2>2 DEF queueVars, queue, Linking, Produce, AddStep, AddLock, AddTest, AddSetTail, AddAdvance, AddCrash,
         AddLoadLength, AddStoreLength, AddSignal, AddUnlock
    <3> QED
      BY <2>1, <3>1, <3>2 DEF Order, Chain
  <2>3. CASE GetStep \/ GetSpurious
    <3>1. CASE GetLock \/ GetCheck \/ GetSpurious \/ GetRelock \/ TakeHead \/ FreeOne \/ FreeDone
      <4>1. consPc \notin Held /\ consPc' \notin Held /\ UNCHANGED sent
        BY <3>1 DEF GetLock, GetCheck, GetSpurious, GetRelock, TakeHead, FreeOne, FreeDone, ConsGoes
      <4>2. UNCHANGED head
        BY <3>1 DEF GetLock, GetCheck, GetSpurious, GetRelock, TakeHead, FreeOne, FreeDone, queue
      <4> QED
        BY <2>1, <4>1, <4>2 DEF Order, Chain
    <3>2. CASE ClearTail \/ ClearLength \/ RemoveAllUnlock \/ GetUnlock
      <4>1. consPc \in Held /\ consPc' \in Held /\ UNCHANGED <<sent, batch, head>>
        BY <3>2 DEF ClearTail, ClearLength, RemoveAllUnlock, GetUnlock, ConsGoes, queue
      <4> QED
        BY <2>1, <4>1 DEF Order, Chain
    <3>3. CASE ClearHead
      <4>1. /\ consPc = "clearHead" /\ consPc' = "clearTail" /\ UNCHANGED <<sent, batch>>
            /\ head' = Null /\ batch = head
        BY <3>3 DEF ClearHead, ConsGoes, Good, Ends
      <4>2. Chain(head, s + 1, Linked)
        BY <1>2, <4>1 DEF Order
      <4>3. PICK m \in Int : m = Linked
        BY <1>1
      <4>4. Chain(batch, s + 1, m)' /\ Chain(head, m + 1, Linked)'
        BY <2>1, <4>1, <4>2, <4>3 DEF Chain
      <4>5. m \in s..Linked' /\ s \in 0..Linked'
        BY <1>1, <1>2, <2>1, <4>3
      <4>6. s = Len(sent') /\ sent' = Interval(1, s)
        BY <1>1, <1>2, <4>1
      <4> QED
        BY <4>1, <4>4, <4>5, <4>6 DEF Order
    <3>4. CASE SendBatch
      <4>1. /\ consPc = "send" /\ consPc' = "free" /\ UNCHANGED <<head, batch>>
            /\ sent' = sent \o List(batch)
        BY <3>4 DEF SendBatch, ConsGoes, queue
      <4>2. PICK m \in Int : s <= m /\ m <= Linked /\ Chain(batch, s + 1, m) /\ Chain(head, m + 1, Linked)
        BY <1>1, <1>2, <4>1 DEF Order
      <4>3. batch # Null => s + 1 \in Events /\ m \in Events
        BY <1>1, <4>2, MaxEventsAssumption DEF Chain, Events
      <4>4. List(batch) = Interval(s + 1, m)
        <5>1. next \in [Events -> Pointers] /\ \A e \in Events : next[e] \in {Null, e + 1}
          BY DEF Typed, Forward
        <5>2. s + 1 \in Int
          OBVIOUS
        <5> QED
          BY <4>2, <4>3, <5>1, <5>2, ListOfChain
      <4>5. sent' = Interval(1, m)
        <5>1. 1 \in Int /\ s \in Int /\ 1 <= s + 1 /\ s <= m
          BY <4>2
        <5>2. Interval(1, s) \o Interval(s + 1, m) = Interval(1, m)
          BY <4>2, <5>1, IntervalConcat
        <5> QED
          BY <1>1, <1>2, <4>1, <4>4, <5>2
      <4>6. Len(sent') = m
        <5>1. 1 <= m + 1 /\ m - 1 + 1 = m
          BY <4>2
        <5> QED
          BY <4>2, <4>5, <5>1, Intervals
      <4>7. Chain(head, m + 1, Linked)'
        BY <2>1, <4>1, <4>2 DEF Chain
      <4>8. m \in 0..Linked'
        BY <2>1, <4>2
      <4> QED
        BY <4>1, <4>5, <4>6, <4>7, <4>8 DEF Order
    <3> QED
      BY <2>3, <3>1, <3>2, <3>3, <3>4 DEF GetStep
  <2> QED
    BY <2>2, <2>3 DEF QueueNext
<1> QED
  BY <1>3, <1>4

LEMMA OrderInvNext == QueueInv /\ QueueInv' /\ OrderInv /\ [QueueNext]_queueVars => OrderInv'
<1> SUFFICES ASSUME QueueInv, QueueInv', OrderInv, [QueueNext]_queueVars, ~stray' PROVE Forward' /\ Order' /\ Fields'
  BY DEF OrderInv
<1>1. ~stray
  BY DEF QueueNext, queueVars, Produce, AddStep, AddLock, AddTest, AddFirst, AddSetTail, AddAppend, AddAdvance,
         AddCrash, AddLoadLength, AddStoreLength, AddSignal, AddUnlock, GetStep, GetLock, GetCheck,
         GetSpurious, GetRelock, TakeHead, ClearHead, ClearTail, ClearLength, RemoveAllUnlock,
         GetUnlock, SendBatch, FreeOne, FreeDone
<1>2. Typed /\ Typed' /\ Good /\ Good' /\ Forward /\ Order /\ Fields
  BY <1>1 DEF QueueInv, OrderInv
<1> QED
  BY <1>2, ForwardNext, OrderNext, FieldsNext

\* What the invariant says while nobody is at the queue.
LEMMA OrderIsIntact == Typed /\ Good /\ Forward /\ Order /\ Fields => Intact
<1> SUFFICES ASSUME Typed, Good, Forward, Order, Fields, prodPc \in {"idle", "lock"},
                    consPc \notin {"clearHead", "clearTail", "clearLength"}
             PROVE  /\ sent \o InHand \o List(head) = [i \in 1..Entered |-> i]
                    /\ length = Len(List(head))
                    /\ tail = IF head = Null THEN Null ELSE List(head)[Len(List(head))]
  BY DEF Intact
<1>1. PICK s \in Nat, k \in Nat : s = Len(sent) /\ k = Linked /\ s <= k /\ sent = Interval(1, s)
  BY LinkedTypes DEF Order
<1>2. k <= MaxEvents /\ k = Entered
  BY <1>1, LinkedTypes DEF Entered, Linked
<1>3. PICK m \in Nat : s <= m /\ m <= k /\ Chain(head, m + 1, k) /\ InHand = Interval(s + 1, m)
  <2>1. CASE consPc \in {"unlock", "unlock2", "send"}
    <3>1. PICK m \in Int : s <= m /\ m <= k /\ Chain(batch, s + 1, m) /\ Chain(head, m + 1, k)
      BY <1>1, <2>1 DEF Order
    <3>2. batch # Null => s + 1 \in Events /\ m \in Events
      BY <1>2, <3>1, MaxEventsAssumption DEF Chain, Events
    <3>3. List(batch) = Interval(s + 1, m)
      <4>1. next \in [Events -> Pointers] /\ \A e \in Events : next[e] \in {Null, e + 1}
        BY DEF Typed, Forward
      <4>2. s + 1 \in Int
        OBVIOUS
      <4> QED
        BY <3>1, <3>2, <4>1, <4>2, ListOfChain
    <3>4. m \in Nat
      BY <3>1
    <3> QED
      BY <2>1, <3>1, <3>3, <3>4 DEF InHand
  <2>2. CASE consPc \notin {"unlock", "unlock2", "send"}
    <3>1. Chain(head, s + 1, k)
      BY <1>1, <2>2 DEF Order
    <3>2. Interval(s + 1, s) = <<>>
      <4>1. s + 1 \in Int /\ s + 1 <= s + 1
        OBVIOUS
      <4> QED
        BY <4>1, Intervals
    <3> QED
      BY <1>1, <2>2, <3>1, <3>2 DEF InHand
  <2> QED
    BY <2>1, <2>2
<1>4. List(head) = Interval(m + 1, k)
  <2>1. next \in [Events -> Pointers] /\ \A e \in Events : next[e] \in {Null, e + 1}
    BY DEF Typed, Forward
  <2>2. m + 1 \in Int
    OBVIOUS
  <2>3. head # Null => m + 1 \in Events /\ k \in Events
    BY <1>2, <1>3, MaxEventsAssumption DEF Chain, Events
  <2> QED
    BY <1>3, <2>1, <2>2, <2>3, ListOfChain
<1>5. sent \o InHand \o List(head) = [i \in 1..Entered |-> i]
  <2>1. Interval(1, s) \o Interval(s + 1, m) = Interval(1, m)
    <3>1. 1 \in Int /\ s \in Int /\ m \in Int /\ 1 <= s + 1 /\ s <= m
      BY <1>3
    <3> QED
      BY <3>1, IntervalConcat
  <2>2. Interval(1, m) \o Interval(m + 1, k) = Interval(1, k)
    <3>1. 1 \in Int /\ m \in Int /\ k \in Int /\ 1 <= m + 1 /\ m <= k
      BY <1>3
    <3> QED
      BY <1>3, <3>1, IntervalConcat
  <2>3. Interval(1, k) = [i \in 1..k |-> i]
    BY DEF Interval
  <2> QED
    BY <1>1, <1>2, <1>3, <1>4, <2>1, <2>2, <2>3
<1>6. m + 1 <= k + 1
  BY <1>3
<1>7. /\ Len(List(head)) = k - m
      /\ \A i \in 1..(k - m) : List(head)[i] = m + i
  <2>1. PICK q \in Int : q = m + 1
    OBVIOUS
  <2>2. /\ Len(Interval(q, k)) = k - q + 1
        /\ \A i \in 1..(k - q + 1) : Interval(q, k)[i] = q + i - 1
    <3>1. k \in Int /\ q <= k + 1
      BY <1>6, <2>1
    <3> QED
      BY <3>1, Intervals
  <2> QED
    BY <1>4, <2>1, <2>2
<1>8. head = Null => k = m
  BY <1>3 DEF Chain
<1>9. head # Null => head = m + 1 /\ m + 1 <= k
  BY <1>3 DEF Chain
<1>10. length = k - m
  BY <1>1, <1>8, <1>9 DEF Fields, Size
<1>11. tail = IF head = Null THEN Null ELSE k
  BY <1>1 DEF Fields, Good, Ends
<1> QED
  BY <1>5, <1>7, <1>9, <1>10, <1>11

(***************************************************************************)
(* Until the second unlock hits the producer no event is lost, repeated or *)
(* reordered between eventqueue_add and send_file_update, and tail and     *)
(* length agree with the list whenever nobody is at work on it.            *)
(***************************************************************************)
THEOREM StayIntact == QueueSpec => []IntactUntilStray
<1>1. QueueInv /\ OrderInv => IntactUntilStray
  BY OrderIsIntact DEF QueueInv, OrderInv, IntactUntilStray
<1> QED
  BY <1>1, InitQueueInv, NextQueueInv, OrderInit, OrderInvNext, PTL DEF QueueSpec

----------------------------------------------------------------------------
(***************************************************************************)
(* The table has at most the one file.                                     *)
(***************************************************************************)
Entries == {e \in Entry : e.dir = FALSE /\ (e.mtime = 0 => e = NoEntry)}

PlainTable(t) == GoodTable(t) /\ EntryOf(t) \in Entries
                 /\ (1 \in Present(t) <=> EntryOf(t) # NoEntry)

Updates == {e \in FileEvent : /\ ~e.file.dir
                              /\ e.action \in {"FILE_CREATED", "FILE_MODIFIED"} => e.file.mtime > 0}

\* What an event makes of the entry.
Effect(entry, e, a) ==
  CASE e.action = "FILE_CREATED" -> SoleHolder(e.file, FALSE, a)
    [] e.action = "FILE_MODIFIED" -> IF entry = NoEntry THEN entry ELSE SoleHolder(e.file, FALSE, a)
    [] e.action = "FILE_DELETED" -> NoEntry
    [] e.action = "DOWNLOAD_COMPLETE" ->
         IF entry = NoEntry \/ entry.size # e.file.size \/ HasIp(entry, a) THEN entry ELSE Joined(entry, a)
    [] e.action = "NONE" -> entry

LEMMA NoEntryFacts == NoEntry \in Entries /\ NoEntry.mtime = 0 /\ NoEntry.size = 0 /\ NoEntry.peers = {}
  BY SyncAssumption, DataAssumption DEF NoEntry, Entries, Entry

LEMMA PlainEntry ==
  ASSUME NEW t, PlainTable(t), 1 \in Present(t)
  PROVE  /\ EntryOf(t) = t.entry[1] /\ Present(t) = {1} /\ t.entry[1].mtime > 0
         /\ GoodEntry(t.entry[1]) /\ t.entry[1].dir = FALSE
<1>1. EntryOf(t) = t.entry[1]
  BY DEF EntryOf
<1>2. Present(t) \subseteq Names
  BY DEF PlainTable, GoodTable, IsTable, Present
<1>3. t.entry[1].mtime > 0
  <2>1. t.entry[1] \in Entries /\ t.entry[1] # NoEntry
    BY <1>1 DEF PlainTable
  <2>2. t.entry[1].mtime \in Nat /\ t.entry[1].mtime # 0
    BY <2>1, DataAssumption DEF Entries, Entry
  <2> QED
    BY <2>2
<1>4. GoodEntry(t.entry[1])
  BY GoodEntries DEF PlainTable
<1> QED
  BY <1>1, <1>2, <1>3, <1>4, SyncAssumption DEF PlainTable, Entries

LEMMA PlainAbsent ==
  ASSUME NEW t, GoodTable(t), 1 \notin Present(t)
  PROVE  PlainTable(t) /\ EntryOf(t) = NoEntry /\ Present(t) = {}
  BY NoEntryFacts, SyncAssumption DEF PlainTable, EntryOf, GoodTable, IsTable, Present

\* A table whose one entry is e.
LEMMA PlainWith ==
  ASSUME NEW t, PlainTable(t), NEW e, GoodEntry(e), ~e.dir, e.mtime > 0
  PROVE  PlainTable(WithEntry(t, 1, e)) /\ EntryOf(WithEntry(t, 1, e)) = e
<1> DEFINE u == WithEntry(t, 1, e)
<1>1. GoodTable(u) /\ 1 \in Present(u) /\ u.entry[1] = e
  BY WithEntryGood, SyncAssumption DEF PlainTable
<1>2. EntryOf(u) = e
  BY <1>1 DEF EntryOf
<1>3. e \in Entries /\ e # NoEntry
  BY NoEntryFacts, DataAssumption DEF GoodEntry, Entries, Entry
<1> QED
  BY <1>1, <1>2, <1>3 DEF PlainTable

LEMMA PlainModified ==
  ASSUME NEW t, PlainTable(t), NEW f \in FileInfo, ~f.dir, f.mtime > 0, NEW a \in Addrs
  PROVE  /\ PlainTable(UpdateMod(t, f, a))
         /\ EntryOf(UpdateMod(t, f, a)) = IF EntryOf(t) = NoEntry THEN NoEntry ELSE SoleHolder(f, FALSE, a)
<1>1. f.name = 1
  BY SyncAssumption DEF FileInfo
<1>2. CASE 1 \notin Present(t)
  BY <1>1, <1>2 DEF UpdateMod, PlainTable
<1>3. CASE 1 \in Present(t)
  <2>1. t.entry[1].dir = FALSE
    BY <1>3, PlainEntry
  <2> DEFINE e == SoleHolder(f, FALSE, a)
  <2>2. GoodEntry(e) /\ ~e.dir /\ e.mtime > 0
    BY SoleHolderGood DEF SoleHolder
  <2>3. UpdateMod(t, f, a) = WithEntry(t, 1, e)
    BY <1>1, <1>3, <2>1 DEF UpdateMod
  <2> QED
    BY <1>3, <2>2, <2>3, PlainWith DEF PlainTable
<1> QED
  BY <1>2, <1>3

LEMMA PlainCreated ==
  ASSUME NEW t, PlainTable(t), NEW f \in FileInfo, ~f.dir, f.mtime > 0, NEW a \in Addrs
  PROVE  PlainTable(Insert(t, f, a)) /\ EntryOf(Insert(t, f, a)) = SoleHolder(f, FALSE, a)
<1>1. f.name = 1 /\ f.name \notin DotNames
  BY SyncAssumption DEF FileInfo
<1>2. Sized(f) = f
  BY DEF Sized, FileInfo
<1>3. CASE 1 \in Present(t)
  BY <1>1, <1>2, <1>3, PlainModified DEF Insert, PlainTable
<1>4. CASE 1 \notin Present(t)
  <2> DEFINE e == SoleHolder(f, FALSE, a)
  <2>1. GoodEntry(e) /\ ~e.dir /\ e.mtime > 0
    BY SoleHolderGood DEF SoleHolder
  <2>2. Insert(t, f, a) = WithEntry(t, 1, e)
    BY <1>1, <1>2, <1>4 DEF Insert, FileInfo
  <2> QED
    BY <2>1, <2>2, PlainWith
<1> QED
  BY <1>3, <1>4

LEMMA PlainDeleted ==
  ASSUME NEW t, PlainTable(t), NEW u \in RemoveResults(t, 1)
  PROVE  PlainTable(u) /\ EntryOf(u) = NoEntry
<1>1. PICK gone \in RemovedSets(t, 1) : u = Without(t, gone)
  BY DEF RemoveResults
<1>2. 1 \notin Present(t) \ gone /\ gone \subseteq Present(t)
  <2>1. CASE 1 \notin Present(t)
    BY <1>1, <2>1, RemovedSetsPresent
  <2>2. CASE 1 \in Present(t)
    BY <1>1, <2>2, PlainEntry, RemovedSetsPresent DEF RemovedSets
  <2> QED
    BY <2>1, <2>2
<1>3. GoodTable(u) /\ Present(u) = Present(t) \ gone
  BY <1>1, <1>2, WithoutGood DEF PlainTable
<1> QED
  BY <1>2, <1>3, PlainAbsent

LEMMA PlainCompleted ==
  ASSUME NEW t, PlainTable(t), NEW f \in FileInfo, NEW a \in Addrs
  PROVE  /\ PlainTable(AddPeer(t, f, a))
         /\ EntryOf(AddPeer(t, f, a)) =
              IF EntryOf(t) = NoEntry \/ EntryOf(t).size # f.size \/ HasIp(EntryOf(t), a)
              THEN EntryOf(t) ELSE Joined(EntryOf(t), a)
<1>1. f.name = 1
  BY SyncAssumption DEF FileInfo
<1>2. CASE 1 \notin Present(t)
  BY <1>1, <1>2 DEF AddPeer, PlainTable
<1>3. CASE 1 \in Present(t)
  <2> DEFINE e == t.entry[1]
  <2>1. EntryOf(t) = e /\ EntryOf(t) # NoEntry /\ GoodEntry(e) /\ ~e.dir /\ e.mtime > 0
    BY <1>3, PlainEntry DEF PlainTable
  <2>2. CASE e.size # f.size \/ HasIp(e, a)
    BY <1>1, <1>3, <2>1, <2>2 DEF AddPeer
  <2>3. CASE ~(e.size # f.size \/ HasIp(e, a))
    <3>1. GoodEntry(Joined(e, a))
      BY <2>1, <2>3, JoinedGood
    <3>2. ~Joined(e, a).dir /\ Joined(e, a).mtime > 0
      BY <2>1 DEF Joined, WithPeers
    <3>3. AddPeer(t, f, a) = WithEntry(t, 1, Joined(e, a))
      BY <1>1, <1>3, <2>3 DEF AddPeer
    <3> QED
      BY <2>1, <2>3, <3>1, <3>2, <3>3, PlainWith
  <2> QED
    BY <2>2, <2>3
<1> QED
  BY <1>2, <1>3

\* One round of the loop of filetable_eventMerge.
LEMMA PlainApplied ==
  ASSUME NEW t, PlainTable(t), NEW e \in Updates, NEW a \in Addrs, NEW u \in Applied(t, e, a)
  PROVE  PlainTable(u) /\ EntryOf(u) = Effect(EntryOf(t), e, a)
<1>0. e.action \in Actions /\ e.file \in FileInfo /\ ~e.file.dir /\ e.file.name = 1
  BY SyncAssumption DEF Updates, FileEvent, FileInfo
<1>1. CASE e.action = "FILE_CREATED"
  BY <1>0, <1>1, PlainCreated DEF Updates, Applied, Effect
<1>2. CASE e.action = "FILE_MODIFIED"
  BY <1>0, <1>2, PlainModified DEF Updates, Applied, Effect
<1>3. CASE e.action = "FILE_DELETED"
  BY <1>0, <1>3, PlainDeleted DEF Applied, Effect
<1>4. CASE e.action = "DOWNLOAD_COMPLETE"
  BY <1>0, <1>4, PlainCompleted DEF Applied, Effect
<1>5. CASE e.action = "NONE"
  BY <1>5 DEF Applied, Effect
<1> QED
  BY <1>0, <1>1, <1>2, <1>3, <1>4, <1>5 DEF Actions

\* filetable_removePeerAll.
LEMMA PlainRemoved ==
  ASSUME NEW t, PlainTable(t), NEW a
  PROVE  /\ PlainTable(RemovePeerAll(t, a))
         /\ EntryOf(RemovePeerAll(t, a)) = EntryRemovePeer(EntryOf(t), a)
<1> DEFINE u == RemovePeerAll(t, a)
<1>1. GoodTable(u) /\ Present(u) = Present(t) /\ \A n \in Present(t) : u.entry[n] = EntryRemovePeer(t.entry[n], a)
  BY RemovePeerAllGood DEF PlainTable
<1> HIDE DEF u
<1>2. CASE 1 \notin Present(t)
  BY <1>1, <1>2, PlainAbsent, NoEntryFacts DEF EntryRemovePeer, PlainTable, u
<1>3. CASE 1 \in Present(t)
  <2> DEFINE e == EntryRemovePeer(t.entry[1], a)
  <2>1. EntryOf(t) = t.entry[1] /\ EntryOf(u) = e
    BY <1>1, <1>3 DEF EntryOf
  <2>2. GoodEntry(e) /\ e.mtime = t.entry[1].mtime /\ e.dir = t.entry[1].dir
    BY <1>3, PlainEntry, EntryRemovePeerGood DEF EntryRemovePeer, WithPeers
  <2>3. e.mtime > 0 /\ ~e.dir /\ e \in Entry
    BY <1>3, <2>2, PlainEntry DEF GoodEntry
  <2>4. e \in Entries /\ e # NoEntry
    BY <2>3, NoEntryFacts DEF Entries
  <2> QED
    BY <1>1, <1>3, <2>1, <2>4 DEF PlainTable, u
<1> QED
  BY <1>2, <1>3

----------------------------------------------------------------------------
(***************************************************************************)
(* Types.                                                                  *)
(***************************************************************************)
Changes == {"FILE_CREATED", "FILE_MODIFIED", "FILE_DELETED"}
Registered == {f \in FileInfo : ~f.dir /\ f.mtime > 0}
Messages ==
  [type : {"REGISTER"}, items : {<<>>} \cup {<<f>> : f \in Registered}, n : Nat]
  \cup [type : {"FILE_UPDATE"}, items : {<<e>> : e \in Updates}, n : Nat]
  \cup [type : {"EOF"}, items : {<<>>}, n : Nat]

Stamps == [mtime : Times, size : Sizes]

\* Time and size tell the versions apart.
Distinct ==
  \A j, k \in 1..writes : wrote[j].size > 0 /\ wrote[j] = wrote[k] => j = k

DiskTypes ==
  /\ disk \in [Peers -> Copies] /\ \A p \in Peers : disk[p].mtime = 0 => disk[p] = NoCopy
  /\ raw \in [Peers -> Seq([action : Changes, n : Nat])]
  /\ made \in [Peers -> Nat] /\ heard \in [Peers -> Nat]
  /\ \A p \in Peers : heard[p] <= made[p] /\ \A i \in DOMAIN raw[p] : raw[p][i].n <= made[p]
  /\ last \in 0..MaxWrites /\ writes \in 1..MaxWrites /\ acts \in 0..MaxActs
  /\ overlap \in BOOLEAN /\ harm \subseteq Harms

UpTypes ==
  /\ up \in [Addrs -> Seq(Messages)]
  /\ \A a \in Addrs :
       /\ up[a] # <<>> => a[2] <= port[a[1]]
       /\ \A i \in DOMAIN up[a] : /\ up[a][i].n <= made[a[1]]
                                  /\ up[a][i].type = "EOF" => a[2] < port[a[1]] /\ i = Len(up[a])

WireTypes ==
  /\ UpTypes
  /\ down \in [Peers -> Seq([entry : Entries, heard : Nat])]
  /\ port \in [Peers -> 1..MaxStarts] /\ listed \subseteq Peers
  /\ PlainTable(table)

ThreadTypes ==
  /\ main \in [Peers -> [pc : {"idle", "drop", "show", "get", "wait"}, entry : Entries, heard : Nat]]
  /\ job \in [Peers -> [phase : {"none", "fetch", "wait", "hung"}, entry : Entries, heard : Nat]]
  /\ \A p \in Peers : /\ main[p].pc = "get" => main[p].entry # NoEntry
                      /\ main[p].pc = "wait" => job[p].phase = "wait"
                      /\ job[p].phase = "fetch" => job[p].entry # NoEntry
  /\ deaf \subseteq Peers

StampTypes ==
  /\ wrote \in [1..MaxWrites -> Stamps] /\ now \in Times \ {0}
  /\ "alike" \notin harm => Distinct

StateTypes == DiskTypes /\ WireTypes /\ ThreadTypes
SyncTypes == DiskTypes /\ WireTypes /\ ThreadTypes /\ StampTypes

LEMMA StampFacts ==
  /\ Times \subseteq Nat /\ 0 \in Times /\ 1 \in Times /\ 0 \in Sizes /\ 1 \in Sizes /\ Sizes \subseteq Nat
  /\ \A c \in Copies : Stamp(c) \in Stamps
  /\ \A e \in Entries : Stamp(e) \in Stamps
  /\ \A s \in Stamps : s.mtime \in Nat /\ s.size \in Nat
<1>1. /\ Times \subseteq Nat /\ 0 \in Times /\ 1 \in Times /\ 0 \in Sizes /\ 1 \in Sizes /\ Sizes \subseteq Nat
  BY SyncAssumption, DataAssumption
<1> QED
  BY <1>1 DEF Stamp, Stamps, Copies, Entries, Entry

LEMMA AddressFacts ==
  /\ \A a \in Addrs : a[1] \in Peers /\ a[2] \in 1..MaxStarts /\ a = <<a[1], a[2]>>
  /\ \A p \in Peers, k \in 1..MaxStarts : <<p, k>> \in Addrs /\ <<p, k>>[1] = p /\ <<p, k>>[2] = k
  BY SyncAssumption

LEMMA AddressOf ==
  ASSUME NEW p \in Peers, port \in [Peers -> 1..MaxStarts]
  PROVE  Address(p) \in Addrs /\ Address(p)[1] = p /\ Address(p)[2] = port[p]
  BY AddressFacts DEF Address

LEMMA CopyFacts ==
  /\ NoCopy \in Copies /\ NoCopy.mtime = 0
  /\ \A c \in Copies : /\ Info(c) \in FileInfo /\ ~Info(c).dir /\ Info(c).mtime = c.mtime
                       /\ c.mtime \in Nat /\ c.size \in Nat /\ c.version \in Nat
<1>1. 0 \in Times /\ 0 \in Sizes /\ 0 \in 0..MaxWrites /\ Times \subseteq Nat /\ Sizes \subseteq Nat
      /\ 0..MaxWrites \subseteq Nat
  BY SyncAssumption, DataAssumption
<1>2. NoCopy \in Copies /\ NoCopy.mtime = 0
  BY <1>1 DEF Copies, NoCopy
<1>3. ASSUME NEW c \in Copies
      PROVE  /\ Info(c) \in FileInfo /\ ~Info(c).dir /\ Info(c).mtime = c.mtime
             /\ c.mtime \in Nat /\ c.size \in Nat /\ c.version \in Nat
  <2>1. c.mtime \in Times /\ c.size \in Sizes /\ c.version \in 0..MaxWrites
    BY DEF Copies
  <2>2. Info(c) \in FileInfo /\ ~Info(c).dir /\ Info(c).mtime = c.mtime
    BY <2>1, SyncAssumption DEF Info, FileInfo
  <2> QED
    BY <1>1, <2>1, <2>2
<1> QED
  BY <1>2, <1>3

LEMMA EntryFacts ==
  ASSUME NEW e \in Entries
  PROVE  /\ e.mtime \in Times /\ e.mtime \in Nat /\ e.size \in Sizes /\ e.size \in Nat
         /\ e # NoEntry => e.mtime > 0
         /\ Info(e) \in FileInfo /\ ~Info(e).dir
<1>1. e.mtime \in Times /\ e.mtime \in Nat /\ e.size \in Sizes /\ e.size \in Nat
  BY DataAssumption DEF Entries, Entry
<1>2. e # NoEntry => e.mtime # 0
  BY DEF Entries
<1> QED
  BY <1>1, <1>2, SyncAssumption DEF Info, FileInfo

LEMMA TypesImply == SyncTypes => TypeOK
<1> SUFFICES ASSUME SyncTypes PROVE TypeOK
  OBVIOUS
<1>1. IsTable(table)
  BY DEF SyncTypes, WireTypes, PlainTable, GoodTable
<1>2. ASSUME NEW a \in Addrs, NEW i \in DOMAIN up[a]
      PROVE  /\ up[a][i].type \in {"REGISTER", "FILE_UPDATE", "EOF"}
             /\ up[a][i].type = "EOF" => a # Address(a[1]) /\ i = Len(up[a])
  <2>1. up[a][i] \in Messages
    BY DEF SyncTypes, WireTypes, UpTypes
  <2>2. up[a][i].type \in {"REGISTER", "FILE_UPDATE", "EOF"}
    BY <2>1 DEF Messages
  <2>3. a[2] \in Nat /\ a[1] \in Peers /\ port[a[1]] \in Nat /\ Address(a[1])[2] = port[a[1]]
    BY AddressFacts, AddressOf DEF SyncTypes, WireTypes
  <2>4. up[a][i].type = "EOF" => a[2] < port[a[1]] /\ i = Len(up[a])
    BY DEF SyncTypes, WireTypes, UpTypes
  <2> QED
    BY <2>2, <2>3, <2>4
<1>3. ASSUME NEW p \in Peers
      PROVE  /\ main[p].pc \in {"idle", "drop", "show", "get", "wait"}
             /\ job[p].phase \in {"none", "fetch", "wait", "hung"}
             /\ main[p].entry \in Entry /\ job[p].entry \in Entry
             /\ main[p].pc = "wait" => job[p].phase = "wait"
             /\ heard[p] <= made[p]
  BY DEF SyncTypes, ThreadTypes, DiskTypes, Entries
<1> QED
  BY <1>1, <1>2, <1>3 DEF TypeOK, SyncTypes, DiskTypes, WireTypes, ThreadTypes, StampTypes, Stamps

LEMMA InitTypes == Init => SyncTypes
<1> SUFFICES ASSUME Init PROVE SyncTypes
  OBVIOUS
<1>1. PICK there \in BOOLEAN :
        /\ disk = [p \in Peers |-> IF there THEN [mtime |-> 1, size |-> 1, version |-> 1] ELSE NoCopy]
        /\ table = IF there
                   THEN [entry |-> [n \in Names |-> [mtime |-> 1, size |-> 1, dir |-> FALSE,
                                                     peers |-> Peers \X {1},
                                                     numpeers |-> Cardinality(Peers)]],
                         numfiles |-> 1]
                   ELSE EmptyTable
        /\ last = IF there THEN 1 ELSE 0
        /\ wrote = [k \in 1..MaxWrites |-> IF there /\ k = 1 THEN [mtime |-> 1, size |-> 1]
                                          ELSE Stamp(NoCopy)]
  BY DEF Init
<1>2. /\ raw = [p \in Peers |-> <<>>]
      /\ up = [a \in Addrs |-> <<>>] /\ down = [p \in Peers |-> <<>>]
      /\ port = [p \in Peers |-> 1] /\ listed = Peers
      /\ main = [p \in Peers |-> Idle] /\ job = [p \in Peers |-> NoJob]
      /\ deaf = {}
      /\ writes = 1 /\ acts = 0
      /\ made = [p \in Peers |-> 0] /\ heard = [p \in Peers |-> 0]
      /\ overlap = FALSE /\ harm = {} /\ now = 1
  BY DEF Init
<1>3. [mtime |-> 1, size |-> 1, version |-> 1] \in Copies /\ 1 \in 1..MaxStarts /\ 0 \in 0..MaxActs
      /\ 1 \in 1..MaxWrites /\ 0 \in 0..MaxWrites /\ 1 \in 0..MaxWrites
  BY SyncAssumption DEF Copies
<1>4. DiskTypes
  <2>1. disk \in [Peers -> Copies] /\ \A p \in Peers : disk[p].mtime = 0 => disk[p] = NoCopy
    BY <1>1, <1>3, CopyFacts
  <2>2. raw \in [Peers -> Seq([action : Changes, n : Nat])]
        /\ \A p \in Peers : raw[p] = <<>>
    BY <1>2
  <2>3. made \in [Peers -> Nat] /\ heard \in [Peers -> Nat] /\ \A p \in Peers : heard[p] <= made[p]
    BY <1>2
  <2>4. \A p \in Peers : \A i \in DOMAIN raw[p] : raw[p][i].n <= made[p]
    BY <2>2
  <2> QED
    BY <1>1, <1>2, <1>3, <2>1, <2>2, <2>3, <2>4 DEF DiskTypes
<1>5. ThreadTypes
  BY <1>2, NoEntryFacts DEF ThreadTypes, Idle, NoJob
<1>6. PlainTable(table)
  <2>1. CASE ~there
    <3>1. GoodTable(EmptyTable) /\ 1 \notin Present(EmptyTable)
      BY EmptyTableGood DEF EmptyTable, Present
    <3> QED
      BY <1>1, <2>1, <3>1, PlainAbsent
  <2>2. CASE there
    <3> DEFINE e == [mtime |-> 1, size |-> 1, dir |-> FALSE,
                     peers |-> Peers \X {1}, numpeers |-> Cardinality(Peers)]
    <3>1. IsFiniteSet({1}) /\ Cardinality({1}) = 1 /\ Cardinality(Peers) \in Nat
      BY FS_Singleton, FS_CardinalityType, SyncAssumption
    <3>2. Cardinality(Peers \X {1}) = Cardinality(Peers)
      <4>1. Cardinality(Peers \X {1}) = Cardinality(Peers) * Cardinality({1})
        BY <3>1, FS_Product, SyncAssumption
      <4> QED
        BY <3>1, <4>1
    <3>3. Peers \X {1} \subseteq Addrs
      BY <1>3, SyncAssumption
    <3>4. e \in Entry
      BY <3>1, <3>3, SyncAssumption DEF Entry
    <3>5. GoodEntry(e)
      BY <3>2, <3>4 DEF GoodEntry
    <3>6. table.entry = [n \in Names |-> e] /\ table.numfiles = 1
          /\ table = [entry |-> table.entry, numfiles |-> table.numfiles]
      BY <1>1, <2>2
    <3> HIDE DEF e
    <3>7. Present(table) = {1} /\ table.entry[1] = e
      BY <3>6, SyncAssumption DEF Present
    <3>8. GoodTable(table)
      <4>1. /\ Present(table) \subseteq Names /\ table.numfiles \in Int
            /\ table.entry \in [Present(table) -> Entry]
            /\ \A n \in Present(table) : GoodEntry(table.entry[n])
        BY <3>4, <3>5, <3>6, <3>7, SyncAssumption
      <4>2. table.numfiles = Cardinality(Present(table))
        BY <3>1, <3>6, <3>7
      <4> QED
        BY <3>6, <4>1, <4>2, GoodTableIs
    <3>9. EntryOf(table) = e
      BY <3>7 DEF EntryOf
    <3>10. e # NoEntry /\ e \in Entries
      BY <3>4 DEF e, NoEntry, Entries
    <3> QED
      BY <3>7, <3>8, <3>9, <3>10 DEF PlainTable
  <2> QED
    BY <2>1, <2>2
<1>7. WireTypes
  BY <1>2, <1>3, <1>6 DEF WireTypes, UpTypes
<1>8. StampTypes
  <2>1. wrote \in [1..MaxWrites -> Stamps]
    BY <1>1, CopyFacts, StampFacts DEF Stamps
  <2>2. Distinct
    BY <1>2 DEF Distinct
  <2> QED
    BY <1>2, <2>1, <2>2, StampFacts DEF StampTypes
<1> QED
  BY <1>4, <1>5, <1>7, <1>8 DEF SyncTypes

LEMMA MessageIs ==
  ASSUME NEW m \in Messages
  PROVE  /\ m.n \in Nat
         /\ m.type = "REGISTER" => m.items = <<>> \/ \E f \in Registered : m.items = <<f>>
         /\ m.type = "FILE_UPDATE" => \E e \in Updates : m.items = <<e>>
         /\ m.type \in {"REGISTER", "FILE_UPDATE", "EOF"}
  BY DEF Messages

LEMMA UpdateMessage ==
  ASSUME NEW e \in Updates, NEW n \in Nat
  PROVE  /\ Message("FILE_UPDATE", <<e>>, n) \in Messages
         /\ Message("FILE_UPDATE", <<e>>, n).type = "FILE_UPDATE" /\ Message("FILE_UPDATE", <<e>>, n).n = n
  BY DEF Message, Messages

LEMMA UpSend ==
  ASSUME UpTypes, port \in [Peers -> 1..MaxStarts], made \in [Peers -> Nat], NEW p \in Peers,
         NEW m \in Messages, m.type # "EOF", m.n <= made[p], Send(Address(p), m),
         UNCHANGED <<port, made>>
  PROVE  UpTypes'
<1> DEFINE a == Address(p)
<1>1. a \in Addrs /\ a[1] = p /\ a[2] = port[p] /\ port[p] \in Nat
  BY AddressOf
<1> HIDE DEF a
<1>2. up' = [up EXCEPT ![a] = Append(@, m)]
  BY DEF Send, a
<1>3. up' \in [Addrs -> Seq(Messages)] /\ up'[a] = Append(up[a], m) /\ \A b \in Addrs \ {a} : up'[b] = up[b]
  BY <1>1, <1>2 DEF UpTypes
<1>4. up[a] \in Seq(Messages) /\ Len(up[a]) \in Nat
  BY <1>1 DEF UpTypes
<1>5. ASSUME NEW i \in DOMAIN up'[a] PROVE up'[a][i].n <= made[p] /\ up'[a][i].type # "EOF"
  <2>1. CASE i \in DOMAIN up[a]
    <3>1. up'[a][i] = up[a][i]
      BY <1>3, <1>4, <2>1
    <3> QED
      BY <1>1, <2>1, <3>1 DEF UpTypes
  <2>2. CASE i = Len(up[a]) + 1
    BY <1>3, <1>4, <2>2
  <2> QED
    BY <1>3, <1>4, <2>1, <2>2
<1>6. ASSUME NEW b \in Addrs
      PROVE  /\ up'[b] # <<>> => b[2] <= port[b[1]]
             /\ \A i \in DOMAIN up'[b] : /\ up'[b][i].n <= made[b[1]]
                                         /\ up'[b][i].type = "EOF" => b[2] < port[b[1]] /\ i = Len(up'[b])
  <2>1. CASE b = a
    BY <1>1, <1>5, <2>1
  <2>2. CASE b # a
    BY <1>3, <2>2 DEF UpTypes
  <2> QED
    BY <2>1, <2>2
<1> QED
  BY <1>3, <1>6 DEF UpTypes

LEMMA UpTail ==
  ASSUME UpTypes, NEW a \in Addrs, up[a] # <<>>, up' = [up EXCEPT ![a] = Tail(@)],
         UNCHANGED <<port, made>>
  PROVE  UpTypes'
<1>1. up[a] \in Seq(Messages) /\ Tail(up[a]) \in Seq(Messages) /\ Len(Tail(up[a])) = Len(up[a]) - 1
      /\ Len(up[a]) \in Nat
      /\ \A i \in DOMAIN Tail(up[a]) : i + 1 \in DOMAIN up[a] /\ Tail(up[a])[i] = up[a][i + 1]
                                       /\ i \in Nat
  BY DEF UpTypes
<1>2. up' \in [Addrs -> Seq(Messages)] /\ up'[a] = Tail(up[a]) /\ \A b \in Addrs \ {a} : up'[b] = up[b]
  BY <1>1 DEF UpTypes
<1>3. ASSUME NEW b \in Addrs
      PROVE  /\ up'[b] # <<>> => b[2] <= port[b[1]]
             /\ \A i \in DOMAIN up'[b] : /\ up'[b][i].n <= made[b[1]]
                                         /\ up'[b][i].type = "EOF" => b[2] < port[b[1]] /\ i = Len(up'[b])
  <2>1. CASE b = a
    <3>1. b[2] <= port[b[1]]
      BY <2>1 DEF UpTypes
    <3>2. ASSUME NEW i \in DOMAIN up'[b]
          PROVE  /\ up'[b][i].n <= made[b[1]]
                 /\ up'[b][i].type = "EOF" => b[2] < port[b[1]] /\ i = Len(up'[b])
      <4>1. i + 1 \in DOMAIN up[b] /\ up'[b][i] = up[b][i + 1] /\ i \in Nat
        BY <1>1, <1>2, <2>1, <3>2
      <4>2. /\ up[b][i + 1].n <= made[b[1]]
            /\ up[b][i + 1].type = "EOF" => b[2] < port[b[1]] /\ i + 1 = Len(up[b])
        BY <4>1 DEF UpTypes
      <4>3. i + 1 = Len(up[b]) => i = Len(up'[b])
        <5>1. Len(up'[b]) = Len(up[b]) - 1 /\ Len(up[b]) \in Nat
          BY <1>1, <1>2, <2>1
        <5> QED
          BY <4>1, <5>1
      <4> QED
        BY <4>1, <4>2, <4>3
    <3> QED
      BY <3>1, <3>2
  <2>2. CASE b # a
    BY <1>2, <2>2 DEF UpTypes
  <2> QED
    BY <2>1, <2>2
<1> QED
  BY <1>2, <1>3 DEF UpTypes

LEMMA TypesChanged ==
  ASSUME SyncTypes, NEW p \in Peers, NEW copy \in Copies, NEW kind \in Changes,
         copy.mtime = 0 => copy = NoCopy, Changed(p, copy, kind), writes' \in 1..MaxWrites,
         harm' \subseteq Harms
  PROVE  StateTypes'
<1>1. /\ acts < MaxActs /\ acts' = acts + 1
      /\ disk' = [disk EXCEPT ![p] = copy]
      /\ raw' = [raw EXCEPT ![p] = Append(@, [action |-> kind, n |-> made[p] + 1])]
      /\ made' = [made EXCEPT ![p] = @ + 1]
      /\ last' = copy.version
      /\ overlap' = (overlap \/ ~Quiet)
      /\ UNCHANGED <<network, tracker, main, job, deaf>>
  BY DEF Changed, Act
<1>2. made[p] \in Nat /\ raw[p] \in Seq([action : Changes, n : Nat])
      /\ \A i \in DOMAIN raw[p] : raw[p][i].n <= made[p]
  BY DEF SyncTypes, DiskTypes
<1>3. /\ made' \in [Peers -> Nat] /\ made'[p] = made[p] + 1
      /\ \A q \in Peers \ {p} : made'[q] = made[q]
  BY <1>1, <1>2 DEF SyncTypes, DiskTypes
<1>4. ASSUME NEW q \in Peers PROVE made[q] \in Nat /\ made'[q] \in Nat /\ made[q] <= made'[q]
  <2>1. made[q] \in Nat /\ (made'[q] = made[q] \/ made'[q] = made[q] + 1)
    BY <1>3 DEF SyncTypes, DiskTypes
  <2> QED
    BY <2>1
<1> DEFINE x == [action |-> kind, n |-> made[p] + 1]
           Raws == [action : Changes, n : Nat]
<1>5. x \in Raws /\ x.n = made[p] + 1
  BY <1>2
<1>0. raw' = [raw EXCEPT ![p] = Append(@, x)] /\ raw \in [Peers -> Seq(Raws)]
      /\ \A y \in Raws : y.n \in Nat
  BY <1>1 DEF SyncTypes, DiskTypes
<1> HIDE DEF x, Raws
<1>6. /\ raw' \in [Peers -> Seq(Raws)]
      /\ raw'[p] = Append(raw[p], x)
      /\ \A q \in Peers \ {p} : raw'[q] = raw[q]
  BY <1>5, <1>0
<1>7. \A i \in DOMAIN raw'[p] : raw'[p][i].n <= made'[p]
  <2> SUFFICES ASSUME NEW i \in DOMAIN raw'[p] PROVE raw'[p][i].n <= made'[p]
    OBVIOUS
  <2>2. Len(raw[p]) \in Nat /\ raw[p] \in Seq(Raws)
    BY <1>0
  <2>3. CASE i \in DOMAIN raw[p]
    <3>1. raw'[p][i] = raw[p][i] /\ raw[p][i].n \in Nat
      BY <1>6, <1>0, <2>2, <2>3
    <3> QED
      BY <1>2, <1>3, <2>3, <3>1
  <2>4. CASE i = Len(raw[p]) + 1
    <3>1. raw'[p][i] = x
      BY <1>6, <2>2, <2>4
    <3> QED
      BY <1>2, <1>3, <1>5, <3>1
  <2> QED
    BY <1>6, <2>2, <2>3, <2>4
<1>8. /\ disk' \in [Peers -> Copies] /\ \A q \in Peers : disk'[q].mtime = 0 => disk'[q] = NoCopy
  BY <1>1 DEF SyncTypes, DiskTypes
<1>9. acts' \in 0..MaxActs /\ last' \in 0..MaxWrites
  BY <1>1, SyncAssumption DEF SyncTypes, DiskTypes, Copies
<1>10. ASSUME NEW q \in Peers PROVE heard[q] \in Nat /\ heard[q] <= made'[q]
  <2>1. heard[q] \in Nat /\ heard[q] <= made[q]
    BY DEF SyncTypes, DiskTypes
  <2> QED
    BY <1>4, <2>1
<1>11. \A q \in Peers : \A i \in DOMAIN raw'[q] : raw'[q][i].n <= made'[q]
  BY <1>3, <1>6, <1>7 DEF SyncTypes, DiskTypes
<1>12. UNCHANGED <<up, port, down, listed, table, heard, main, job, deaf>>
  BY <1>1 DEF network, tracker
<1>13. DiskTypes'
  BY <1>1, <1>3, <1>6, <1>8, <1>9, <1>10, <1>11, <1>12 DEF SyncTypes, DiskTypes, Raws
<1>14. ASSUME NEW a \in Addrs, NEW i \in DOMAIN up[a] PROVE up[a][i].n <= made'[a[1]]
  <2>1. up[a][i] \in Messages /\ up[a][i].n <= made[a[1]] /\ a[1] \in Peers
    BY AddressFacts DEF SyncTypes, WireTypes, UpTypes
  <2> QED
    BY <1>3, <1>4, <2>1, MessageIs
<1>15. UpTypes'
  BY <1>12, <1>14 DEF SyncTypes, WireTypes, UpTypes
<1>16. WireTypes'
  BY <1>12, <1>15 DEF SyncTypes, WireTypes
<1>17. ThreadTypes'
  BY <1>12 DEF SyncTypes, ThreadTypes
<1> QED
  BY <1>13, <1>16, <1>17 DEF StateTypes

LEMMA TypesUser ==
  ASSUME SyncTypes, User
  PROVE  StateTypes'
<1>1. ASSUME NEW p \in Peers, UserDeletes(p) PROVE StateTypes'
  BY <1>1, TypesChanged, CopyFacts DEF UserDeletes, Changes, SyncTypes, DiskTypes
<1>2. ASSUME NEW p \in Peers, NEW size \in Sizes, NEW t \in Times, UserWrites(p, size, t) PROVE StateTypes'
  <2> DEFINE copy == [mtime |-> t, size |-> size, version |-> writes']
             kind == IF disk[p] = NoCopy THEN "FILE_CREATED" ELSE "FILE_MODIFIED"
  <2>1. writes' = writes + 1 /\ writes < MaxWrites /\ writes \in 1..MaxWrites /\ Changed(p, copy, kind)
    BY <1>2 DEF UserWrites, SyncTypes, DiskTypes
  <2>2. writes' \in 1..MaxWrites /\ writes' \in 0..MaxWrites /\ t # 0
    BY <1>2, <2>1, StampFacts, SyncAssumption DEF UserWrites, InSecond, SyncTypes, StampTypes
  <2>5. harm' \subseteq Harms
    BY <1>2 DEF UserWrites, Harms, SyncTypes, DiskTypes
  <2>3. copy \in Copies /\ copy.mtime # 0
    BY <2>2 DEF Copies
  <2>4. kind \in Changes
    BY DEF Changes
  <2> HIDE DEF copy, kind
  <2> QED
    BY <2>1, <2>2, <2>3, <2>4, <2>5, TypesChanged
<1> QED
  BY <1>1, <1>2 DEF User

LEMMA TypesObserve ==
  ASSUME SyncTypes, NEW p \in Peers, Observe(p)
  PROVE  StateTypes'
<1> DEFINE e == Head(raw[p])
           Raws == [action : Changes, n : Nat]
           deleted == e.action = "FILE_DELETED"
           event == [action |-> e.action, file |-> Info(IF deleted THEN NoCopy ELSE disk[p])]
<1>1. /\ raw[p] # <<>> /\ raw' = [raw EXCEPT ![p] = Tail(@)]
      /\ UNCHANGED <<disk, made, last, writes, acts, overlap, down, port, listed, table, heard, main, job, deaf>>
  BY DEF Observe, tracker
<1>2. \/ UNCHANGED <<up, harm>>
      \/ harm' = harm \cup {"ignored"} /\ UNCHANGED up
      \/ (deleted \/ disk[p] # NoCopy)
           /\ Send(Address(p), Message("FILE_UPDATE", <<event>>, e.n)) /\ UNCHANGED harm
  BY DEF Observe
<1>0. raw \in [Peers -> Seq(Raws)] /\ \A x \in Raws : x.action \in Changes /\ x.n \in Nat
  BY DEF SyncTypes, DiskTypes
<1> HIDE DEF Raws
<1>3. raw[p] \in Seq(Raws) /\ e \in Raws /\ 1 \in DOMAIN raw[p] /\ e = raw[p][1]
  BY <1>1, <1>0
<1>4. e.action \in Changes /\ e.n \in Nat /\ e.n <= made[p]
  BY <1>3, <1>0 DEF SyncTypes, DiskTypes
<1>5. DiskTypes'
  <2>1. raw' \in [Peers -> Seq(Raws)] /\ raw'[p] = Tail(raw[p]) /\ \A q \in Peers \ {p} : raw'[q] = raw[q]
    <3>1. Tail(raw[p]) \in Seq(Raws)
      BY <1>1, <1>3
    <3> QED
      BY <1>1, <1>0, <3>1
  <2>2. \A i \in DOMAIN raw'[p] : i + 1 \in DOMAIN raw[p] /\ raw'[p][i] = raw[p][i + 1]
    BY <1>1, <1>3, <2>1
  <2>3. ASSUME NEW q \in Peers PROVE \A i \in DOMAIN raw'[q] : raw'[q][i].n <= made[q]
    <3>1. \A i \in DOMAIN raw[q] : raw[q][i].n <= made[q]
      BY DEF SyncTypes, DiskTypes
    <3>2. CASE q # p
      BY <2>1, <3>1, <3>2
    <3>3. CASE q = p
      BY <2>2, <3>1, <3>3
    <3> QED
      BY <3>2, <3>3
  <2>4. harm' \subseteq Harms
    BY <1>2 DEF SyncTypes, DiskTypes, Harms
  <2> QED
    BY <1>1, <2>1, <2>3, <2>4 DEF SyncTypes, DiskTypes, Raws
<1>6. UpTypes'
  <2>1. CASE UNCHANGED up
    BY <1>1, <2>1 DEF SyncTypes, WireTypes, UpTypes
  <2>2. CASE (deleted \/ disk[p] # NoCopy) /\ Send(Address(p), Message("FILE_UPDATE", <<event>>, e.n))
    <3>1. disk[p] \in Copies /\ (disk[p] # NoCopy => disk[p].mtime > 0)
      BY CopyFacts DEF SyncTypes, DiskTypes
    <3>2. event.file \in FileInfo /\ ~event.file.dir /\ (~deleted => event.file.mtime > 0)
      BY <2>2, <3>1, CopyFacts
    <3>3. event.action \in Actions /\ event.action = e.action
      BY <1>4 DEF Actions, Changes
    <3>4. event = [action |-> event.action, file |-> event.file]
      OBVIOUS
    <3> HIDE DEF event
    <3>5. event \in Updates
      BY <3>2, <3>3, <3>4 DEF Updates, FileEvent
    <3> QED
      BY <1>1, <1>4, <2>2, <3>5, UpdateMessage, UpSend DEF SyncTypes, WireTypes, DiskTypes
  <2> QED
    BY <1>2, <2>1, <2>2
<1>7. WireTypes'
  BY <1>1, <1>6 DEF SyncTypes, WireTypes
<1>8. ThreadTypes'
  BY <1>1 DEF SyncTypes, ThreadTypes
<1> QED
  BY <1>5, <1>7, <1>8 DEF StateTypes

LEMMA BroadcastTypes ==
  ASSUME down \in [Peers -> Seq([entry : Entries, heard : Nat])], NEW to, Broadcast(to),
         PlainTable(table'), heard' \in [Peers -> Nat]
  PROVE  down' \in [Peers -> Seq([entry : Entries, heard : Nat])]
<1> DEFINE New(p) == [entry |-> EntryOf(table'), heard |-> heard'[p]]
           Tables == [entry : Entries, heard : Nat]
<1>1. \A p \in Peers : New(p) \in Tables
  BY DEF PlainTable
<1>2. down' = [p \in Peers |-> IF p \in to THEN Append(down[p], New(p)) ELSE down[p]]
  BY DEF Broadcast
<1>3. down \in [Peers -> Seq(Tables)]
  OBVIOUS
<1> HIDE DEF New, Tables
<1>4. down' \in [Peers -> Seq(Tables)]
  BY <1>1, <1>2, <1>3
<1> QED
  BY <1>4 DEF Tables

LEMMA HearTypes ==
  ASSUME heard \in [Peers -> Nat], made \in [Peers -> Nat], \A q \in Peers : heard[q] <= made[q],
         NEW p \in Peers, NEW n \in Nat, n <= made[p], Hear(p, n)
  PROVE  heard' \in [Peers -> Nat] /\ \A q \in Peers : heard'[q] <= made[q]
<1>1. heard' = [heard EXCEPT ![p] = IF n > heard[p] THEN n ELSE heard[p]]
  BY DEF Hear
<1> QED
  BY <1>1

\* The first message of a connection.
LEMMA HeadIs ==
  ASSUME UpTypes, NEW a \in Addrs, up[a] # <<>>
  PROVE  /\ Head(up[a]) \in Messages /\ Head(up[a]) = up[a][1] /\ 1 \in DOMAIN up[a]
         /\ Head(up[a]).n \in Nat /\ Head(up[a]).n <= made[a[1]] /\ a[1] \in Peers
<1>1. up[a] \in Seq(Messages)
  BY DEF UpTypes
<1>2. Head(up[a]) \in Messages /\ Head(up[a]) = up[a][1] /\ 1 \in DOMAIN up[a]
  BY <1>1
<1> QED
  BY <1>2, MessageIs, AddressFacts DEF UpTypes

\* What REGISTER does to the entry.
RegisterEffect(entry, items, a) ==
  IF items = <<>> THEN entry
  ELSE LET f == items[1] IN
       CASE entry = NoEntry -> SoleHolder(f, FALSE, a)
         [] entry # NoEntry /\ entry.mtime < f.mtime -> SoleHolder(f, FALSE, a)
         [] entry # NoEntry /\ entry.mtime = f.mtime -> Effect(entry, [action |-> "DOWNLOAD_COMPLETE", file |-> f], a)
         [] OTHER -> entry

LEMMA Registers ==
  ASSUME PlainTable(table), UpTypes, NEW a \in Addrs, HandleRegister(a)
  PROVE  PlainTable(table') /\ EntryOf(table') = RegisterEffect(EntryOf(table), Head(up[a]).items, a)
<1> DEFINE items == Head(up[a]).items
           events == FileDiff(table, items)
<1>1. IF events = <<>> THEN table' = table ELSE table' \in Applied(table, Head(events), a)
  BY DEF HandleRegister
<1>2. items = <<>> \/ \E f \in Registered : items = <<f>>
  BY HeadIs, MessageIs DEF HandleRegister
<1>0. events = FileDiff(table, items)
  OBVIOUS
<1> HIDE DEF items, events
<1>3. CASE items = <<>>
  <2>1. items \in Seq(FileInfo) /\ Len(items) = 0
    BY <1>3
  <2>2. events \in Seq(FileEvent) /\ Len(events) = 0
    <3>1. events \in Seq(FileEvent)
      BY <1>0, <2>1, FileDiffType
    <3>2. DOMAIN events = 1..0
      BY <1>0, <2>1 DEF FileDiff
    <3> QED
      BY <3>1, <3>2
  <2> QED
    BY <1>1, <1>3, <2>2 DEF RegisterEffect, items
<1>4. ASSUME NEW f \in Registered, items = <<f>>
      PROVE  PlainTable(table') /\ EntryOf(table') = RegisterEffect(EntryOf(table), items, a)
  <2> DEFINE e == DiffEvent(table, f)
  <2>1. f \in FileInfo /\ ~f.dir /\ f.mtime > 0 /\ f.name = 1
    BY SyncAssumption DEF Registered, FileInfo
  <2>2. Len(items) = 1 /\ items[1] = f /\ items # <<>>
    BY <1>4
  <2>3. events # <<>> /\ Head(events) = e
    <3>1. events = [i \in 1..1 |-> DiffEvent(table, items[Len(items) + 1 - i])]
      BY <1>0, <2>2 DEF FileDiff
    <3>2. events[1] = e
      BY <2>2, <3>1
    <3>3. events = <<e>>
      BY <3>1, <3>2
    <3> QED
      BY <3>3
  <2>4. e.action \in Actions /\ e.file = f /\ e \in FileEvent
    BY <2>1 DEF DiffEvent, FileEvent, Actions
  <2>5. e \in Updates
    BY <2>1, <2>4 DEF Updates
  <2>6. PlainTable(table') /\ EntryOf(table') = Effect(EntryOf(table), e, a)
    BY <1>1, <2>3, <2>5, PlainApplied
  <2>7. (1 \in Present(table) <=> EntryOf(table) # NoEntry)
        /\ (1 \in Present(table) => EntryOf(table) = table.entry[1])
    BY PlainEntry DEF PlainTable
  <2>8. EntryOf(table).mtime \in Nat /\ f.mtime \in Nat
    BY <2>1, EntryFacts, DataAssumption DEF PlainTable, FileInfo
  <2>9. e.action = CASE EntryOf(table) = NoEntry -> "FILE_CREATED"
                     [] EntryOf(table) # NoEntry /\ EntryOf(table).mtime < f.mtime -> "FILE_MODIFIED"
                     [] EntryOf(table) # NoEntry /\ EntryOf(table).mtime = f.mtime -> "DOWNLOAD_COMPLETE"
                     [] OTHER -> "NONE"
    BY <2>1, <2>7 DEF DiffEvent
  <2>10. Effect(EntryOf(table), e, a) = RegisterEffect(EntryOf(table), items, a)
    <3> HIDE DEF e, items
    <3>1. CASE EntryOf(table) = NoEntry
      BY <2>2, <2>4, <2>9, <3>1 DEF Effect, RegisterEffect
    <3>2. CASE EntryOf(table) # NoEntry /\ EntryOf(table).mtime < f.mtime
      <4>1. e.action = "FILE_MODIFIED" /\ EntryOf(table).mtime # f.mtime
        BY <2>8, <2>9, <3>2
      <4> QED
        <5>1. Effect(EntryOf(table), e, a) = SoleHolder(f, FALSE, a)
          BY <2>4, <3>2, <4>1 DEF Effect
        <5>2. RegisterEffect(EntryOf(table), items, a) = SoleHolder(f, FALSE, a)
          BY <2>2, <3>2, <4>1 DEF RegisterEffect
        <5> QED
          BY <5>1, <5>2
    <3>3. CASE EntryOf(table) # NoEntry /\ EntryOf(table).mtime = f.mtime
      <4>1. e.action = "DOWNLOAD_COMPLETE" /\ ~(EntryOf(table).mtime < f.mtime)
        BY <2>8, <2>9, <3>3
      <4> QED
        BY <2>2, <2>4, <3>3, <4>1 DEF Effect, RegisterEffect
    <3>4. CASE EntryOf(table) # NoEntry /\ EntryOf(table).mtime > f.mtime
      <4>1. e.action = "NONE" /\ ~(EntryOf(table).mtime < f.mtime) /\ EntryOf(table).mtime # f.mtime
        BY <2>8, <2>9, <3>4
      <4> QED
        BY <2>2, <2>4, <3>4, <4>1 DEF Effect, RegisterEffect
    <3> QED
      BY <2>8, <3>1, <3>2, <3>3, <3>4
  <2> QED
    BY <2>6, <2>10
<1> QED
  BY <1>2, <1>3, <1>4 DEF items

LEMMA Updated ==
  ASSUME PlainTable(table), UpTypes, NEW a \in Addrs, HandleUpdate(a)
  PROVE  /\ PlainTable(table') /\ Head(up[a]).items[1] \in Updates
         /\ EntryOf(table') = Effect(EntryOf(table), Head(up[a]).items[1], a)
<1>1. PICK e \in Updates : Head(up[a]).items = <<e>>
  BY HeadIs, MessageIs DEF HandleUpdate
<1>2. Head(up[a]).items[1] = e
  BY <1>1
<1> QED
  BY <1>2, PlainApplied DEF HandleUpdate

LEMMA TypesHandle ==
  ASSUME SyncTypes, NEW a \in Addrs, Handle(a)
  PROVE  StateTypes'
<1>1. PlainTable(table) /\ UpTypes /\ up[a] # <<>>
  BY DEF SyncTypes, WireTypes, Handle, HandleRegister, HandleUpdate, HandleEof
<1>2. UNCHANGED <<disk, raw, made, last, writes, acts, overlap, port, main, job, deaf>>
      /\ up' = [up EXCEPT ![a] = Tail(@)]
  BY DEF Handle, HandleRegister, HandleUpdate, HandleEof, disks
<1>3. PlainTable(table')
  BY <1>1, Registers, Updated, PlainRemoved DEF Handle, HandleEof
<1>4. heard' \in [Peers -> Nat] /\ \A q \in Peers : heard'[q] <= made[q]
  <2>0. heard \in [Peers -> Nat] /\ made \in [Peers -> Nat] /\ \A q \in Peers : heard[q] <= made[q]
    BY DEF SyncTypes, DiskTypes
  <2>1. CASE UNCHANGED heard
    BY <2>0, <2>1
  <2>2. CASE Hear(a[1], Head(up[a]).n)
    BY <1>1, <2>0, <2>2, HeadIs, HearTypes
  <2> QED
    BY <2>1, <2>2 DEF Handle, HandleRegister, HandleUpdate, HandleEof
<1>5. UpTypes'
  BY <1>1, <1>2, UpTail
<1>6. listed' \subseteq Peers
  BY <1>1, HeadIs DEF SyncTypes, WireTypes, Handle, HandleRegister, HandleUpdate, HandleEof
<1>7. down' \in [Peers -> Seq([entry : Entries, heard : Nat])]
  BY <1>3, <1>4, BroadcastTypes DEF SyncTypes, WireTypes, Handle, HandleRegister, HandleUpdate, HandleEof
<1>8. harm' \subseteq Harms
  BY DEF SyncTypes, DiskTypes, Handle, HandleRegister, HandleUpdate, HandleEof, Mistake, Harms
<1>9. DiskTypes'
  BY <1>2, <1>4, <1>8 DEF SyncTypes, DiskTypes
<1>10. WireTypes'
  BY <1>2, <1>3, <1>5, <1>6, <1>7 DEF SyncTypes, WireTypes
<1>11. ThreadTypes'
  BY <1>2 DEF SyncTypes, ThreadTypes
<1> QED
  BY <1>9, <1>10, <1>11 DEF StateTypes

Mains == [pc : {"idle", "drop", "show", "get", "wait"}, entry : Entries, heard : Nat]
Jobs == [phase : {"none", "fetch", "wait", "hung"}, entry : Entries, heard : Nat]

LEMMA ThreadFacts ==
  /\ \A pc \in {"idle", "drop", "show", "get", "wait"}, e \in Entries, h \in Nat :
       [pc |-> pc, entry |-> e, heard |-> h] \in Mains
  /\ \A phase \in {"none", "fetch", "wait", "hung"}, e \in Entries, h \in Nat :
       [phase |-> phase, entry |-> e, heard |-> h] \in Jobs
  /\ \A pc \in {"idle", "drop", "show", "get", "wait"} :
       [Idle EXCEPT !.pc = pc] \in Mains /\ [Idle EXCEPT !.pc = pc].pc = pc
  /\ Idle \in Mains /\ Idle.pc = "idle" /\ NoJob \in Jobs /\ NoJob.phase = "none"
  /\ \A j \in Jobs, phase \in {"none", "fetch", "wait", "hung"} :
       [j EXCEPT !.phase = phase] \in Jobs /\ [j EXCEPT !.phase = phase].phase = phase
       /\ [j EXCEPT !.phase = phase].entry = j.entry
  BY NoEntryFacts DEF Mains, Jobs, Idle, NoJob

\* DOWNLOAD_COMPLETE of an entry is a message.
LEMMA ReportTypes ==
  ASSUME UpTypes, port \in [Peers -> 1..MaxStarts], made \in [Peers -> Nat], NEW p \in Peers,
         NEW e \in Entries, Report(p, e), UNCHANGED <<port, made>>
  PROVE  UpTypes'
<1> DEFINE ev == [action |-> "DOWNLOAD_COMPLETE", file |-> Info(e)]
<1>1. ev \in Updates
  BY EntryFacts DEF Updates, FileEvent, Actions
<1> HIDE DEF ev
<1>2. Message("FILE_UPDATE", <<ev>>, 0) \in Messages /\ Message("FILE_UPDATE", <<ev>>, 0).type # "EOF"
      /\ Message("FILE_UPDATE", <<ev>>, 0).n = 0
  BY <1>1, UpdateMessage
<1>3. 0 <= made[p]
  OBVIOUS
<1>4. Send(Address(p), Message("FILE_UPDATE", <<ev>>, 0))
  BY DEF Report, ev
<1> QED
  BY <1>2, <1>3, <1>4, UpSend

LEMMA TypesMain ==
  ASSUME SyncTypes, NEW p \in Peers, MainThread(p)
  PROVE  StateTypes'
<1>1. UNCHANGED <<raw, made, last, writes, acts, overlap, port, listed, table, heard, deaf>>
  BY DEF MainThread, TakeTable, Drop, Show, Skip, Place, disks, network, tracker
<1>2. main \in [Peers -> Mains] /\ job \in [Peers -> Jobs]
  BY DEF SyncTypes, ThreadTypes, Mains, Jobs
<1>3. CASE TakeTable(p)
  <2> DEFINE m == Head(down[p])
             Tables == [entry : Entries, heard : Nat]
  <2>0. UNCHANGED <<disk, up, job>> /\ down[p] # <<>> /\ down' = [down EXCEPT ![p] = Tail(@)]
    BY <1>3 DEF TakeTable, disks
  <2>01. harm' \in {harm, harm \cup {"skipped"}}
    BY <1>3 DEF TakeTable
  <2>1. PICK verdict \in {"get", "drop", "idle"} :
          /\ main' = [main EXCEPT ![p] = IF verdict = "idle" THEN Idle
                                         ELSE [pc |-> verdict, entry |-> m.entry, heard |-> m.heard]]
          /\ verdict = "get" => m.entry # NoEntry
    BY <1>3 DEF TakeTable
  <2>2. down \in [Peers -> Seq(Tables)] /\ \A x \in Tables : x.entry \in Entries /\ x.heard \in Nat
    BY DEF SyncTypes, WireTypes
  <2> HIDE DEF Tables
  <2>3. m \in Tables /\ Tail(down[p]) \in Seq(Tables)
    BY <2>0, <2>2
  <2>4. down' \in [Peers -> Seq(Tables)]
    BY <2>0, <2>2, <2>3
  <2> DEFINE new == IF verdict = "idle" THEN Idle ELSE [pc |-> verdict, entry |-> m.entry, heard |-> m.heard]
  <2>5. new \in Mains /\ new.pc # "wait" /\ (new.pc = "get" => new.entry # NoEntry)
    BY <2>1, <2>2, <2>3, ThreadFacts
  <2>6. main' = [main EXCEPT ![p] = new]
    BY <2>1
  <2> HIDE DEF new
  <2>7. main' \in [Peers -> Mains] /\ main'[p] = new /\ \A q \in Peers \ {p} : main'[q] = main[q]
    BY <1>2, <2>5, <2>6
  <2>8. ThreadTypes'
    BY <1>1, <2>0, <2>5, <2>7 DEF SyncTypes, ThreadTypes, Mains
  <2>9. WireTypes'
    BY <1>1, <2>0, <2>4 DEF SyncTypes, WireTypes, UpTypes, Tables
  <2>10. harm' \subseteq Harms
    BY <2>01 DEF SyncTypes, DiskTypes, Harms
  <2>11. DiskTypes'
    BY <1>1, <2>0, <2>10 DEF SyncTypes, DiskTypes
  <2> QED
    BY <2>8, <2>9, <2>11 DEF StateTypes
<1>4. ASSUME NEW new \in Mains, new.pc \in {"idle", "show"}, main' = [main EXCEPT ![p] = new],
             UNCHANGED <<job, up, down>>, harm' \subseteq Harms,
             disk' = disk \/ disk' = [disk EXCEPT ![p] = NoCopy]
      PROVE  StateTypes'
  <2>1. main' \in [Peers -> Mains] /\ main'[p] = new /\ \A q \in Peers \ {p} : main'[q] = main[q]
    BY <1>2, <1>4
  <2>2. ThreadTypes'
    BY <1>1, <1>4, <2>1 DEF SyncTypes, ThreadTypes, Mains
  <2>3. WireTypes'
    BY <1>1, <1>4 DEF SyncTypes, WireTypes, UpTypes
  <2>4. disk' \in [Peers -> Copies] /\ \A q \in Peers : disk'[q].mtime = 0 => disk'[q] = NoCopy
    BY <1>4, CopyFacts DEF SyncTypes, DiskTypes
  <2>5. DiskTypes'
    BY <1>1, <1>4, <2>4 DEF SyncTypes, DiskTypes
  <2> QED
    BY <2>2, <2>3, <2>5 DEF StateTypes
<1>5. CASE Drop(p) \/ Show(p) \/ Skip(p)
  <2>1. harm' \subseteq Harms
    BY <1>5 DEF Drop, Show, Skip, Harms, SyncTypes, DiskTypes
  <2>2. UNCHANGED <<job, up, down>> /\ (disk' = disk \/ disk' = [disk EXCEPT ![p] = NoCopy])
    BY <1>5 DEF Drop, Show, Skip, disks, network
  <2>3. \E new \in Mains : new.pc \in {"idle", "show"} /\ main' = [main EXCEPT ![p] = new]
    BY <1>5, ThreadFacts DEF Drop, Show, Skip
  <2> QED
    BY <1>4, <2>1, <2>2, <2>3
<1>6. ASSUME NEW t \in Times, Place(p, t) PROVE StateTypes'
  <2> DEFINE e == main[p].entry
             copy == [mtime |-> t, size |-> 0, version |-> 0]
             newJob == [phase |-> IF e.size = 0 THEN "wait" ELSE "fetch", entry |-> e, heard |-> main[p].heard]
             newMain == IF e.size = 0 THEN [Idle EXCEPT !.pc = "wait"] ELSE Idle
  <2>1. /\ main[p].pc = "get"
        /\ disk' = [disk EXCEPT ![p] = copy]
        /\ job' = [job EXCEPT ![p] = newJob]
        /\ main' = [main EXCEPT ![p] = newMain]
        /\ Report(p, e) \/ UNCHANGED up
        /\ harm' = harm \cup Overwrites(p, main[p].heard) \cup Begins(p, e)
        /\ UNCHANGED down
    BY <1>6 DEF Place
  <2>2. e \in Entries /\ e # NoEntry /\ main[p].heard \in Nat
    BY <2>1 DEF SyncTypes, ThreadTypes
  <2>3. copy \in Copies /\ copy.mtime # 0
    <3>1. t # 0 /\ 0 \in Sizes /\ 0 \in 0..MaxWrites
      BY <1>6, StampFacts, SyncAssumption DEF Place, InSecond, SyncTypes, StampTypes
    <3> QED
      BY <3>1 DEF Copies
  <2>4. newJob \in Jobs /\ newMain \in Mains /\ newMain.pc \in {"idle", "wait"}
        /\ (newMain.pc = "wait" => newJob.phase = "wait") /\ newJob.entry = e
    BY <2>2, ThreadFacts
  <2>5. harm' \subseteq Harms
    BY <2>1 DEF Overwrites, Begins, Harms, SyncTypes, DiskTypes
  <2> HIDE DEF e, copy, newJob, newMain
  <2>6. disk' \in [Peers -> Copies] /\ \A q \in Peers : disk'[q].mtime = 0 => disk'[q] = NoCopy
    BY <2>1, <2>3 DEF SyncTypes, DiskTypes
  <2>7. /\ main' \in [Peers -> Mains] /\ main'[p] = newMain /\ \A q \in Peers \ {p} : main'[q] = main[q]
        /\ job' \in [Peers -> Jobs] /\ job'[p] = newJob /\ \A q \in Peers \ {p} : job'[q] = job[q]
    BY <1>2, <2>1, <2>4
  <2>8. ThreadTypes'
    <3>1. \A q \in Peers : /\ main[q].pc = "get" => main[q].entry # NoEntry
                           /\ main[q].pc = "wait" => job[q].phase = "wait"
                           /\ job[q].phase = "fetch" => job[q].entry # NoEntry
      BY DEF SyncTypes, ThreadTypes
    <3>2. deaf' \subseteq Peers
      BY <1>1 DEF SyncTypes, ThreadTypes
    <3>3. /\ main'[p].pc \in {"idle", "wait"} /\ (main'[p].pc = "wait" => job'[p].phase = "wait")
          /\ job'[p].entry # NoEntry
      BY <2>2, <2>4, <2>7
    <3>4. \A q \in Peers : /\ main'[q].pc = "get" => main'[q].entry # NoEntry
                           /\ main'[q].pc = "wait" => job'[q].phase = "wait"
                           /\ job'[q].phase = "fetch" => job'[q].entry # NoEntry
      BY <2>7, <3>1, <3>3
    <3> QED
      BY <2>7, <3>2, <3>4 DEF ThreadTypes, Mains, Jobs
  <2>9. UpTypes'
    <3>1. CASE Report(p, e)
      BY <1>1, <2>2, <3>1, ReportTypes DEF SyncTypes, WireTypes, DiskTypes
    <3>2. CASE UNCHANGED up
      BY <1>1, <3>2 DEF SyncTypes, WireTypes, UpTypes
    <3> QED
      BY <2>1, <3>1, <3>2
  <2>10. WireTypes'
    BY <1>1, <2>1, <2>9 DEF SyncTypes, WireTypes
  <2>11. DiskTypes'
    BY <1>1, <2>5, <2>6 DEF SyncTypes, DiskTypes
  <2> QED
    BY <2>8, <2>10, <2>11 DEF StateTypes
<1> QED
  BY <1>3, <1>5, <1>6 DEF MainThread

LEMMA TypesDownload ==
  ASSUME SyncTypes, NEW p \in Peers, Download(p)
  PROVE  StateTypes'
<1>1. UNCHANGED <<raw, made, last, writes, acts, overlap, port, listed, table, heard, down>>
  BY DEF Download, Strand, Spoil, Resume, Fetch, Hang, disks, network, tracker
<1>2. main \in [Peers -> Mains] /\ job \in [Peers -> Jobs] /\ job[p] \in Jobs /\ job[p].entry \in Entries
  BY DEF SyncTypes, ThreadTypes, Mains, Jobs
<1>3. PICK new \in Jobs : /\ job' = [job EXCEPT ![p] = new] /\ new.phase # "fetch"
                          /\ new.phase # "wait" => ~(main'[p].pc = "wait")
                          /\ main' = main \/ main' = [main EXCEPT ![p] = Idle]
  <2>1. CASE Resume(p)
    <3>1. job' = [job EXCEPT ![p] = NoJob] /\ (main' = main \/ main' = [main EXCEPT ![p] = Idle])
      BY <2>1 DEF Resume
    <3>2. main'[p].pc # "wait"
      BY <1>2, <2>1, ThreadFacts DEF Resume
    <3> QED
      BY <3>1, <3>2, ThreadFacts
  <2>2. CASE ~Resume(p)
    <3>1. job[p].phase = "fetch" /\ main' = main
      BY <2>2 DEF Download, Strand, Spoil, Fetch, Hang
    <3>2. main[p].pc # "wait"
      BY <3>1 DEF SyncTypes, ThreadTypes
    <3>3. \E ph \in {"wait", "hung"} : job' = [job EXCEPT ![p].phase = ph]
      BY <2>2 DEF Download, Strand, Spoil, Fetch, Hang
    <3>4. PICK ph \in {"wait", "hung"} : job' = [job EXCEPT ![p].phase = ph]
      BY <3>3
    <3>5. job' = [job EXCEPT ![p] = [job[p] EXCEPT !.phase = ph]]
      BY <3>4
    <3>6. [job[p] EXCEPT !.phase = ph] \in Jobs /\ [job[p] EXCEPT !.phase = ph].phase = ph
      BY <1>2 DEF Jobs
    <3> QED
      BY <3>1, <3>2, <3>5, <3>6
  <2> QED
    BY <2>1, <2>2
<1>4. /\ main' \in [Peers -> Mains] /\ (main'[p] = main[p] \/ main'[p] = Idle)
      /\ \A q \in Peers \ {p} : main'[q] = main[q]
      /\ job' \in [Peers -> Jobs] /\ job'[p] = new /\ \A q \in Peers \ {p} : job'[q] = job[q]
  BY <1>2, <1>3, ThreadFacts
<1>5. deaf' \subseteq Peers /\ harm' \subseteq Harms
  <2>1. ASSUME NEW q \in Peers, Fetch(p, q) PROVE deaf' \subseteq Peers /\ harm' \subseteq Harms
    <3>1. harm' \subseteq harm \cup {"overwritten", "mixed"} /\ deaf' = deaf
      BY <2>1 DEF Fetch, Overwrites
    <3> QED
      BY <3>1 DEF SyncTypes, ThreadTypes, DiskTypes, Harms
  <2>3. CASE Spoil(p)
    <3>1. harm' \subseteq harm \cup {"overwritten", "mixed"} /\ deaf' = deaf
      BY <2>3 DEF Spoil, Overwrites
    <3> QED
      BY <3>1 DEF SyncTypes, ThreadTypes, DiskTypes, Harms
  <2>2. CASE Strand(p) \/ Resume(p) \/ \E q \in Peers : Hang(p, q)
    <3>1. harm' \subseteq harm \cup {"unheld"} /\ deaf' \subseteq deaf \cup Peers
      BY <2>2 DEF Strand, Resume, Hang
    <3>2. harm \subseteq Harms /\ deaf \subseteq Peers /\ "unheld" \in Harms
      BY DEF SyncTypes, ThreadTypes, DiskTypes, Harms
    <3> QED
      BY <3>1, <3>2
  <2> QED
    BY <2>1, <2>2, <2>3 DEF Download
<1>6. main'[p].pc = "get" => main'[p].entry # NoEntry
  <2>1. main[p].pc = "get" => main[p].entry # NoEntry
    BY DEF SyncTypes, ThreadTypes
  <2> QED
    BY <1>4, <2>1, ThreadFacts
<1>7. ThreadTypes'
  <2>1. \A q \in Peers : /\ main'[q].pc = "get" => main'[q].entry # NoEntry
                         /\ main'[q].pc = "wait" => job'[q].phase = "wait"
                         /\ job'[q].phase = "fetch" => job'[q].entry # NoEntry
    BY <1>3, <1>4, <1>6 DEF SyncTypes, ThreadTypes
  <2> QED
    BY <1>4, <1>5, <2>1 DEF ThreadTypes, Mains, Jobs
<1>8. ASSUME NEW q \in Peers, Fetch(p, q)
      PROVE  /\ disk' \in [Peers -> Copies] /\ (\A x \in Peers : disk'[x].mtime = 0 => disk'[x] = NoCopy)
             /\ UpTypes'
  <2> DEFINE e == job[p].entry
             version == IF disk[q].size = e.size THEN disk[q].version ELSE 0
             copy == [mtime |-> e.mtime, size |-> e.size, version |-> version]
  <2>1. /\ disk' = [disk EXCEPT ![p] = copy] \/ UNCHANGED disk
        /\ Report(p, e)
        /\ job[p].phase = "fetch"
    BY <1>8 DEF Fetch
  <2>2. e \in Entries /\ e # NoEntry /\ disk[q] \in Copies
    BY <1>2, <2>1 DEF SyncTypes, ThreadTypes, DiskTypes
  <2>3. e.mtime \in Times /\ e.size \in Sizes /\ e.mtime # 0 /\ e.mtime \in Nat
    BY <2>2, EntryFacts
  <2>4. version \in 0..MaxWrites
    BY <2>2, SyncAssumption DEF Copies
  <2>5. copy \in Copies /\ copy.mtime # 0
    BY <2>3, <2>4 DEF Copies
  <2> HIDE DEF copy, e
  <2>6. disk' \in [Peers -> Copies] /\ (\A x \in Peers : disk'[x].mtime = 0 => disk'[x] = NoCopy)
    BY <2>1, <2>5 DEF SyncTypes, DiskTypes
  <2>7. UpTypes'
    BY <1>1, <2>1, <2>2, ReportTypes DEF SyncTypes, WireTypes, DiskTypes
  <2> QED
    BY <2>6, <2>7
<1>13. ASSUME Spoil(p)
       PROVE  /\ disk' \in [Peers -> Copies] /\ (\A x \in Peers : disk'[x].mtime = 0 => disk'[x] = NoCopy)
              /\ UpTypes'
  <2> DEFINE e == job[p].entry
             copy == [mtime |-> e.mtime, size |-> e.size, version |-> 0]
  <2>1. /\ disk' = [disk EXCEPT ![p] = copy] \/ UNCHANGED disk
        /\ Report(p, e)
        /\ job[p].phase = "fetch"
    BY <1>13 DEF Spoil
  <2>2. e \in Entries /\ e # NoEntry
    BY <1>2, <2>1 DEF SyncTypes, ThreadTypes
  <2>3. e.mtime \in Times /\ e.size \in Sizes /\ e.mtime # 0 /\ 0 \in 0..MaxWrites
    BY <2>2, EntryFacts, SyncAssumption
  <2>4. copy \in Copies /\ copy.mtime # 0
    BY <2>3 DEF Copies
  <2> HIDE DEF copy, e
  <2>5. disk' \in [Peers -> Copies] /\ (\A x \in Peers : disk'[x].mtime = 0 => disk'[x] = NoCopy)
    BY <2>1, <2>4 DEF SyncTypes, DiskTypes
  <2>6. UpTypes'
    BY <1>1, <2>1, <2>2, ReportTypes DEF SyncTypes, WireTypes, DiskTypes
  <2> QED
    BY <2>5, <2>6
<1>9. ASSUME UNCHANGED <<disk, up>>
      PROVE  /\ disk' \in [Peers -> Copies] /\ (\A x \in Peers : disk'[x].mtime = 0 => disk'[x] = NoCopy)
             /\ UpTypes'
  BY <1>1, <1>9 DEF SyncTypes, DiskTypes, WireTypes, UpTypes
<1>10. /\ disk' \in [Peers -> Copies] /\ (\A x \in Peers : disk'[x].mtime = 0 => disk'[x] = NoCopy)
       /\ UpTypes'
  <2>1. CASE \E q \in Peers : Fetch(p, q)
    BY <1>8, <2>1
  <2>3. CASE Spoil(p)
    BY <1>13, <2>3
  <2>2. CASE ~Spoil(p) /\ ~\E q \in Peers : Fetch(p, q)
    BY <1>9, <2>2 DEF Download, Strand, Resume, Hang, disks, network
  <2> QED
    BY <2>1, <2>2, <2>3
<1>11. DiskTypes'
  BY <1>1, <1>5, <1>10 DEF SyncTypes, DiskTypes
<1>12. WireTypes'
  BY <1>1, <1>10 DEF SyncTypes, WireTypes
<1> QED
  BY <1>7, <1>11, <1>12 DEF StateTypes

LEMMA TypesRestart ==
  ASSUME SyncTypes, NEW p \in Peers, Restart(p)
  PROVE  StateTypes'
<1> DEFINE old == Address(p)
           new == <<p, port[p] + 1>>
           files == IF disk[p] = NoCopy THEN <<>> ELSE <<Info(disk[p])>>
           eof == Message("EOF", <<>>, 0)
           reg == Message("REGISTER", files, made[p])
<1>1. /\ port[p] < MaxStarts /\ acts < MaxActs /\ acts' = acts + 1
      /\ port' = [port EXCEPT ![p] = @ + 1]
      /\ up' = [up EXCEPT ![old] = Append(@, eof), ![new] = <<reg>>]
      /\ down' = [down EXCEPT ![p] = <<>>]
      /\ listed' = listed \ {p}
      /\ raw' = [raw EXCEPT ![p] = <<>>]
      /\ main' = [main EXCEPT ![p] = Idle]
      /\ job' = [job EXCEPT ![p] = NoJob]
      /\ deaf' = deaf \ {p}
      /\ overlap' \in BOOLEAN
      /\ UNCHANGED <<disk, made, last, writes, table, heard, harm>>
  BY DEF Restart, Act, tracker, SyncTypes, DiskTypes
<1>2. port \in [Peers -> 1..MaxStarts] /\ port[p] \in Nat /\ port[p] + 1 \in 1..MaxStarts
  BY <1>1, SyncAssumption DEF SyncTypes, WireTypes
<1>3. old \in Addrs /\ new \in Addrs /\ old # new /\ old[1] = p /\ old[2] = port[p] /\ new[1] = p /\ new[2] = port[p] + 1
  BY <1>2, AddressOf, AddressFacts
<1>4. /\ port' \in [Peers -> 1..MaxStarts] /\ port'[p] = port[p] + 1
      /\ \A q \in Peers \ {p} : port'[q] = port[q]
  BY <1>1, <1>2
<1>5. eof \in Messages /\ eof.type = "EOF" /\ eof.n = 0
  BY DEF Message, Messages
<1>6. reg \in Messages /\ reg.type = "REGISTER" /\ reg.n = made[p] /\ made[p] \in Nat
  <2>1. made[p] \in Nat /\ disk[p] \in Copies /\ (disk[p] # NoCopy => disk[p].mtime > 0)
    BY CopyFacts DEF SyncTypes, DiskTypes
  <2>2. disk[p] # NoCopy => Info(disk[p]) \in Registered
    BY <2>1, CopyFacts DEF Registered
  <2>3. files \in {<<>>} \cup {<<f>> : f \in Registered}
    BY <2>2
  <2> HIDE DEF files
  <2> QED
    BY <2>1, <2>3 DEF Message, Messages
<1> HIDE DEF old, new, files, eof, reg
<1>7. up \in [Addrs -> Seq(Messages)] /\ up[old] \in Seq(Messages) /\ Len(up[old]) \in Nat
  BY <1>3 DEF SyncTypes, WireTypes, UpTypes
<1>8. /\ up' \in [Addrs -> Seq(Messages)] /\ up'[old] = Append(up[old], eof) /\ up'[new] = <<reg>>
      /\ \A a \in Addrs \ {old, new} : up'[a] = up[a]
  <2>1. Append(up[old], eof) \in Seq(Messages) /\ <<reg>> \in Seq(Messages)
    BY <1>5, <1>6, <1>7
  <2> QED
    BY <1>1, <1>3, <1>7, <2>1
<1>9. ASSUME NEW a \in Addrs
      PROVE  /\ up'[a] # <<>> => a[2] <= port'[a[1]]
             /\ \A i \in DOMAIN up'[a] : /\ up'[a][i].n <= made[a[1]]
                                         /\ up'[a][i].type = "EOF" => a[2] < port'[a[1]] /\ i = Len(up'[a])
  <2>1. CASE a = new
    <3>1. DOMAIN up'[a] = {1} /\ up'[a][1] = reg /\ a[1] = p
      BY <1>3, <1>8, <2>1
    <3> QED
      BY <1>2, <1>3, <1>4, <1>6, <2>1, <3>1
  <2>2. CASE a = old
    <3>1. a[1] = p /\ a[2] = port[p] /\ a[2] < port'[p]
      BY <1>2, <1>3, <1>4, <2>2
    <3>2. ASSUME NEW i \in DOMAIN up'[a]
          PROVE  up'[a][i].n <= made[a[1]] /\ (up'[a][i].type = "EOF" => i = Len(up'[a]))
      <4>1. CASE i \in DOMAIN up[a]
        <5>1. up'[a][i] = up[a][i]
          <6>1. up'[a] = Append(up[a], eof) /\ up[a] \in Seq(Messages)
            BY <1>7, <1>8, <2>2
          <6> QED
            BY <1>5, <4>1, <6>1
        <5>2. up[a][i].n <= made[a[1]] /\ (up[a][i].type = "EOF" => a[2] < port[a[1]])
          BY <4>1 DEF SyncTypes, WireTypes, UpTypes
        <5> QED
          BY <1>2, <3>1, <5>1, <5>2
      <4>2. CASE i = Len(up[a]) + 1
        <5>1. up'[a][i] = eof /\ i = Len(up'[a])
          BY <1>5, <1>7, <1>8, <2>2, <4>2
        <5> QED
          BY <1>5, <1>6, <3>1, <5>1
      <4> QED
        BY <1>7, <1>8, <2>2, <4>1, <4>2
    <3> QED
      BY <1>2, <1>4, <3>1, <3>2
  <2>3. CASE a \notin {old, new}
    <3>1. a[1] \in Peers /\ a[2] \in Nat /\ port[a[1]] \in Nat /\ port'[a[1]] \in Nat /\ port[a[1]] <= port'[a[1]]
      BY <1>2, <1>4, AddressFacts
    <3>2. /\ up[a] # <<>> => a[2] <= port[a[1]]
          /\ \A i \in DOMAIN up[a] : /\ up[a][i].n <= made[a[1]]
                                     /\ up[a][i].type = "EOF" => a[2] < port[a[1]] /\ i = Len(up[a])
      BY DEF SyncTypes, WireTypes, UpTypes
    <3>3. (a[2] <= port[a[1]] => a[2] <= port'[a[1]]) /\ (a[2] < port[a[1]] => a[2] < port'[a[1]])
      BY <3>1
    <3> QED
      BY <1>8, <2>3, <3>2, <3>3
  <2> QED
    BY <2>1, <2>2, <2>3
<1>10. UpTypes'
  BY <1>1, <1>8, <1>9 DEF UpTypes
<1>11. WireTypes'
  <2>1. down' \in [Peers -> Seq([entry : Entries, heard : Nat])]
    <3> DEFINE Announced == [entry : Entries, heard : Nat]
    <3>1. down \in [Peers -> Seq(Announced)]
      BY DEF SyncTypes, WireTypes
    <3> HIDE DEF Announced
    <3>2. down' \in [Peers -> Seq(Announced)]
      BY <1>1, <3>1
    <3> QED
      BY <3>2 DEF Announced
  <2>3. listed' \subseteq Peers
    BY <1>1 DEF SyncTypes, WireTypes
  <2>2. PlainTable(table)'
    BY <1>1 DEF SyncTypes, WireTypes
  <2> QED
    BY <1>4, <1>10, <2>1, <2>2, <2>3 DEF WireTypes
<1>12. DiskTypes'
  <2>1. raw' \in [Peers -> Seq([action : Changes, n : Nat])] /\ raw'[p] = <<>>
        /\ \A q \in Peers \ {p} : raw'[q] = raw[q]
    <3> DEFINE Observed == [action : Changes, n : Nat]
    <3>1. raw \in [Peers -> Seq(Observed)]
      BY DEF SyncTypes, DiskTypes
    <3> HIDE DEF Observed
    <3>2. raw' \in [Peers -> Seq(Observed)] /\ raw'[p] = <<>> /\ \A q \in Peers \ {p} : raw'[q] = raw[q]
      BY <1>1, <3>1
    <3> QED
      BY <3>2 DEF Observed
  <2>2. ASSUME NEW q \in Peers
        PROVE  heard[q] <= made[q] /\ \A i \in DOMAIN raw'[q] : raw'[q][i].n <= made[q]
    <3>1. heard[q] <= made[q] /\ \A i \in DOMAIN raw[q] : raw[q][i].n <= made[q]
      BY DEF SyncTypes, DiskTypes
    <3>2. raw'[q] = raw[q] \/ DOMAIN raw'[q] = {}
      BY <2>1
    <3> QED
      BY <3>1, <3>2
  <2>3. acts' \in 0..MaxActs
    BY <1>1, SyncAssumption DEF SyncTypes, DiskTypes
  <2> QED
    BY <1>1, <2>1, <2>2, <2>3 DEF SyncTypes, DiskTypes
<1>13. main \in [Peers -> Mains] /\ job \in [Peers -> Jobs]
  BY DEF SyncTypes, ThreadTypes, Mains, Jobs
<1>14. /\ main' \in [Peers -> Mains] /\ main'[p] = Idle /\ \A q \in Peers \ {p} : main'[q] = main[q]
       /\ job' \in [Peers -> Jobs] /\ job'[p] = NoJob /\ \A q \in Peers \ {p} : job'[q] = job[q]
  BY <1>1, <1>13, ThreadFacts
<1>15. ThreadTypes'
  <2>1. ASSUME NEW q \in Peers
        PROVE  /\ main'[q].pc = "get" => main'[q].entry # NoEntry
               /\ main'[q].pc = "wait" => job'[q].phase = "wait"
               /\ job'[q].phase = "fetch" => job'[q].entry # NoEntry
    <3>1. CASE q = p
      BY <1>14, <3>1 DEF Idle, NoJob
    <3>2. CASE q # p
      BY <1>14, <3>2 DEF SyncTypes, ThreadTypes
    <3> QED
      BY <3>1, <3>2
  <2>2. deaf' \subseteq Peers
    BY <1>1 DEF SyncTypes, ThreadTypes
  <2> QED
    BY <1>14, <2>1, <2>2 DEF ThreadTypes, Mains, Jobs
<1> QED
  BY <1>11, <1>12, <1>15 DEF StateTypes

\* Whatever is not a write of a user leaves the history alone, and a new version has
\* a stamp of its own or does harm.
LEMMA NextStamps == SyncTypes /\ [Next]_vars => StampTypes'
<1> SUFFICES ASSUME SyncTypes, [Next]_vars PROVE StampTypes'
  OBVIOUS
<1>1. wrote \in [1..MaxWrites -> Stamps] /\ now \in Times \ {0} /\ ("alike" \notin harm => Distinct)
      /\ writes \in 1..MaxWrites
  BY DEF SyncTypes, DiskTypes, StampTypes
<1>2. ASSUME NEW p \in Peers, NEW size \in Sizes, NEW t \in Times, UserWrites(p, size, t)
      PROVE  StampTypes'
  <2> DEFINE stamp == [mtime |-> t, size |-> size]
  <2>1. /\ writes' = writes + 1 /\ writes' \in 1..MaxWrites /\ now' \in Times \ {0}
        /\ wrote' = [wrote EXCEPT ![writes'] = stamp]
        /\ harm' = IF Alike(stamp) THEN harm \cup {"alike"} ELSE harm
    BY <1>1, <1>2, StampFacts, SyncAssumption DEF UserWrites, InSecond, Stamp
  <2>2. stamp \in Stamps /\ stamp.size = size
    BY DEF Stamps
  <2> HIDE DEF stamp
  <2>3. wrote' \in [1..MaxWrites -> Stamps] /\ wrote'[writes'] = stamp
        /\ \A k \in 1..writes : wrote'[k] = wrote[k]
    BY <1>1, <2>1, <2>2
  <2>4. ASSUME "alike" \notin harm' PROVE Distinct'
    <3>1. Distinct /\ ~Alike(stamp)
      BY <1>1, <2>1, <2>4
    <3>2. ASSUME NEW j \in 1..writes', NEW k \in 1..writes', wrote'[j].size > 0, wrote'[j] = wrote'[k]
          PROVE  j = k
      <4>1. CASE j \in 1..writes /\ k \in 1..writes
        BY <2>3, <3>1, <3>2, <4>1 DEF Distinct
      <4>2. CASE ~(j \in 1..writes) /\ ~(k \in 1..writes)
        BY <1>1, <2>1, <4>2
      <4>3. CASE j \in 1..writes /\ ~(k \in 1..writes)
        <5>1. k = writes' /\ wrote[j] = stamp /\ stamp.size > 0
          BY <1>1, <2>1, <2>3, <3>2, <4>3
        <5> QED
          BY <3>1, <4>3, <5>1 DEF Alike
      <4>4. CASE ~(j \in 1..writes) /\ k \in 1..writes
        <5>1. j = writes' /\ wrote[k] = stamp /\ stamp.size > 0
          BY <1>1, <2>1, <2>3, <3>2, <4>4
        <5> QED
          BY <3>1, <4>4, <5>1 DEF Alike
      <4> QED
        BY <4>1, <4>2, <4>3, <4>4
    <3> QED
      BY <3>2 DEF Distinct
  <2> QED
    BY <2>1, <2>3, <2>4 DEF StampTypes
<1>3. ASSUME UNCHANGED <<wrote, writes>>, now' \in Times \ {0}, harm \subseteq harm' PROVE StampTypes'
  BY <1>1, <1>3 DEF StampTypes, Distinct
<1>4. CASE UNCHANGED vars
  BY <1>1, <1>3, <1>4 DEF vars, disks, clock
<1>5. ASSUME NEW p \in Peers, UserDeletes(p) PROVE StampTypes'
  BY <1>1, <1>3, <1>5 DEF UserDeletes, clock
<1>6. ASSUME NEW a \in Addrs, Handle(a) PROVE StampTypes'
  BY <1>1, <1>3, <1>6 DEF Handle, HandleRegister, HandleUpdate, HandleEof, disks, clock
<1>7. ASSUME NEW p \in Peers, Observe(p) \/ Restart(p) PROVE StampTypes'
  BY <1>1, <1>3, <1>7 DEF Observe, Restart, clock
<1>8. ASSUME NEW p \in Peers, TakeTable(p) \/ Drop(p) \/ Show(p) \/ Skip(p) PROVE StampTypes'
  BY <1>1, <1>3, <1>8 DEF TakeTable, Drop, Show, Skip, disks, clock
<1>9. ASSUME NEW p \in Peers, NEW t \in Times, Place(p, t) PROVE StampTypes'
  BY <1>1, <1>3, <1>9, StampFacts DEF Place, InSecond
<1>10. ASSUME NEW p \in Peers, Download(p) PROVE StampTypes'
  BY <1>1, <1>3, <1>10 DEF Download, Strand, Spoil, Resume, Fetch, Hang, disks, clock
<1> QED
  BY <1>2, <1>4, <1>5, <1>6, <1>7, <1>8, <1>9, <1>10 DEF Next, User, MainThread

LEMMA NextTypes == SyncTypes /\ [Next]_vars => SyncTypes'
<1> SUFFICES ASSUME SyncTypes, [Next]_vars PROVE SyncTypes'
  OBVIOUS
<1>0. SUFFICES StateTypes'
  BY NextStamps DEF StateTypes, SyncTypes
<1>1. CASE UNCHANGED vars
  BY <1>1 DEF vars, disks, network, tracker, StateTypes, SyncTypes, DiskTypes, WireTypes, UpTypes, ThreadTypes
<1>2. CASE User
  BY <1>2, TypesUser
<1>3. CASE \E a \in Addrs : Handle(a)
  BY <1>3, TypesHandle
<1>4. CASE \E p \in Peers : Observe(p) \/ MainThread(p) \/ Download(p) \/ Restart(p)
  BY <1>4, TypesObserve, TypesMain, TypesDownload, TypesRestart
<1> QED
  BY <1>1, <1>2, <1>3, <1>4 DEF Next

(***************************************************************************)
(* Every variable keeps its type (TypeOK), whatever the users, restarts,   *)
(* messages and downloads do, with any number of peers.                    *)
(***************************************************************************)
THEOREM TypeCorrect == Spec => []TypeOK
<1>1. Spec => []SyncTypes
  BY InitTypes, NextTypes, PTL DEF Spec
<1> QED
  BY <1>1, TypesImply, PTL

----------------------------------------------------------------------------
(***************************************************************************)
(* Users who take turns.  Between two turns the system is in one of three  *)
(* states: a change is on its way to the tracker, a peer that started      *)
(* again is registering, or the version of the table flows to those who do *)
(* not hold it yet.                                                        *)
(***************************************************************************)
Current == EntryOf(table)

\* The peers whose copy is the version of the table.  All empty files are alike.
Holders ==
  {q \in Peers : CASE Current = NoEntry -> disk[q] = NoCopy
                   [] Current # NoEntry /\ Current.size = 0 -> disk[q] # NoCopy /\ disk[q].size = 0
                   [] OTHER -> disk[q] = [mtime |-> Current.mtime, size |-> Current.size, version |-> last]}

\* What a table may say that q has still to deal with: the version is the present
\* one, whom it names as a holder is one, and if q needs the bytes it names somebody,
\* and nobody that has gone.
Usable(q) ==
  {e \in Entries : /\ e.mtime = Current.mtime /\ e.size = Current.size
                   /\ Reachable(e) \subseteq Holders
                   /\ e.size > 0 /\ q \notin Holders => Reachable(e) # {} /\ Unreachable(e) = {}}
Tables(q) == [entry : Usable(q), heard : {made[q]}]

Eof == Message("EOF", <<>>, 0)
Completion == Message("FILE_UPDATE", <<[action |-> "DOWNLOAD_COMPLETE", file |-> Info(Current)]>>, 0)
Registration(p) ==
  Message("REGISTER", IF disk[p] = NoCopy THEN <<>> ELSE <<Info(disk[p])>>, made[p])
Change(p, kind) == Message("FILE_UPDATE", <<[action |-> kind, file |-> Info(disk[p])]>>, made[p])

\* Nothing is left to deliver, or the end of a former connection.
Closing(a) == up[a] = <<>> \/ (a # Address(a[1]) /\ up[a] = <<Eof>>)

Still == \A q \in Peers : down[q] = <<>> /\ main[q].pc = "idle" /\ job[q].phase = "none"
Told == \A q \in Peers : raw[q] = <<>> /\ heard[q] = made[q]
Dated == Current.size > 0 => last \in 1..writes /\ wrote[last] = Stamp(Current)

\* A copy has the bytes of the version that was written then, with that size.
Genuine(c) == c.size > 0 => c.version \in 1..writes /\ wrote[c.version] = Stamp(c)

\* In every state: holders that went away will be taken off the list.
Safe ==
  /\ harm = {} /\ deaf = {}
  /\ Current.mtime <= now
  /\ \A q \in Peers : disk[q].mtime <= now /\ Genuine(disk[q])
  /\ \A b \in Current.peers : b # Address(b[1]) => up[b] # <<>>

RegisteringOf(p) ==
  /\ Still /\ Told /\ Dated
  /\ Holders = Peers
  /\ up[Address(p)] = <<Registration(p)>>
  /\ \A a \in Addrs \ {Address(p)} : Closing(a)
  /\ listed = Peers \ {p}

Registering == \E p \in Peers : RegisteringOf(p)

PendingOf(p, kind) ==
  /\ Still /\ listed = Peers
  /\ \A q \in Peers \ {p} : raw[q] = <<>> /\ heard[q] = made[q]
  /\ \A a \in Addrs \ {Address(p)} : up[a] = <<>>
  /\ \/ raw[p] = <<[action |-> kind, n |-> made[p]]>> /\ up[Address(p)] = <<>>
     \/ raw[p] = <<>> /\ up[Address(p)] = <<Change(p, kind)>>
  /\ IF kind = "FILE_DELETED"
     THEN disk[p] = NoCopy /\ last = 0
     ELSE /\ disk[p] # NoCopy /\ disk[p].version = last
          /\ last \in 1..writes /\ wrote[last] = Stamp(disk[p])
          /\ Current.mtime <= disk[p].mtime
          /\ \A q \in Peers \ {p} :
               Off(disk[q], disk[p]) \/ (disk[q] # NoCopy /\ disk[q].size = 0 /\ disk[p].size = 0)
  /\ kind = "FILE_MODIFIED" => Current # NoEntry

Pending == \E p \in Peers, kind \in Changes : PendingOf(p, kind)

FlowPeer(p) ==
  /\ p \notin Holders => down[p] # <<>> \/ main[p].pc \in {"get", "drop"} \/ job[p].phase = "fetch"
  /\ p \notin Holders /\ disk[p] # NoCopy /\ Current # NoEntry => Off(disk[p], Current)
  /\ down[p] \in Seq(Tables(p))
  /\ main[p].pc \in {"get", "drop"} => main[p].entry \in Usable(p) /\ main[p].heard = made[p]
  /\ main[p].pc = "get" => Current # NoEntry
  /\ main[p].pc = "drop" => Current = NoEntry
  /\ job[p].phase = "fetch" => /\ job[p].entry \in Usable(p) /\ job[p].heard = made[p]
                               /\ Current.size > 0 /\ disk[p] # NoCopy /\ p \notin Holders
  /\ job[p].phase = "wait" => p \in Holders /\ Current # NoEntry
  /\ job[p].phase # "hung"

FlowWire(a) ==
  \/ Closing(a)
  \/ /\ a = Address(a[1]) /\ a[1] \in Holders /\ Current # NoEntry
     /\ up[a] \in Seq({Completion})

Flow ==
  /\ Told /\ Dated /\ listed = Peers
  /\ \A q \in Peers : Current \in Usable(q)
  /\ \A p \in Peers : FlowPeer(p)
  /\ \A a \in Addrs : FlowWire(a)

TurnInv == overlap \/ harm \cap {"again", "alike"} # {} \/ (Safe /\ (Registering \/ Pending \/ Flow))

LEMMA SeqWider ==
  ASSUME NEW S, NEW T, S \subseteq T, NEW s \in Seq(S)
  PROVE  s \in Seq(T)
<1>1. Len(s) \in Nat /\ DOMAIN s = 1..Len(s) /\ \A i \in 1..Len(s) : s[i] \in T
  OBVIOUS
<1>2. s = [i \in 1..Len(s) |-> s[i]]
  OBVIOUS
<1> QED
  BY <1>1, <1>2

LEMMA CurrentFacts ==
  ASSUME SyncTypes
  PROVE  /\ Current \in Entries /\ Current.mtime \in Nat /\ Current.size \in Nat
         /\ Current # NoEntry => Current.mtime > 0
         /\ Current = NoEntry => Current.mtime = 0 /\ Current.size = 0 /\ Current.peers = {}
         /\ Current.peers \subseteq Addrs
         /\ (1 \in Present(table) <=> Current # NoEntry)
<1>1. Current \in Entries /\ (1 \in Present(table) <=> Current # NoEntry)
  BY DEF SyncTypes, WireTypes, PlainTable, Current
<1>2. Current.peers \subseteq Addrs
  BY <1>1 DEF Entries, Entry
<1> QED
  BY <1>1, <1>2, EntryFacts, NoEntryFacts

LEMMA DiskFacts ==
  ASSUME SyncTypes, NEW q \in Peers
  PROVE  /\ disk[q] \in Copies /\ disk[q].mtime \in Nat /\ disk[q].size \in Nat /\ disk[q].version \in Nat
         /\ disk[q] # NoCopy => disk[q].mtime > 0
         /\ disk[q] = [mtime |-> disk[q].mtime, size |-> disk[q].size, version |-> disk[q].version]
         /\ NoCopy.size = 0 /\ NoCopy.mtime = 0
<1>1. disk[q] \in Copies /\ (disk[q] # NoCopy => disk[q].mtime # 0)
  BY DEF SyncTypes, DiskTypes
<1>2. disk[q] = [mtime |-> disk[q].mtime, size |-> disk[q].size, version |-> disk[q].version]
  BY <1>1 DEF Copies
<1> QED
  BY <1>1, <1>2, CopyFacts DEF NoCopy

LEMMA CountFacts ==
  ASSUME SyncTypes
  PROVE  /\ writes \in Nat /\ writes > 0 /\ last \in Nat
         /\ now \in Times /\ now \in Nat /\ now > 0
         /\ \A q \in Peers : made[q] \in Nat /\ heard[q] \in Nat /\ heard[q] <= made[q]
         /\ port \in [Peers -> 1..MaxStarts]
<1>1. now \in Times /\ now \in Nat /\ now # 0
  BY StampFacts DEF SyncTypes, StampTypes
<1> QED
  BY <1>1 DEF SyncTypes, DiskTypes, WireTypes

\* Until two versions are alike, a version with bytes is known by its stamp.
LEMMA OneVersion ==
  ASSUME SyncTypes, "alike" \notin harm, NEW k \in 1..writes, NEW e, e.size > 0, wrote[k] = Stamp(e)
  PROVE  Versions(e) = {k}
<1>1. wrote[k].size > 0
  BY DEF Stamp
<1> QED
  BY <1>1 DEF SyncTypes, StampTypes, Distinct, Versions

LEMMA UsableFacts ==
  ASSUME SyncTypes, NEW q \in Peers, NEW e \in Usable(q)
  PROVE  /\ e \in Entries /\ e.mtime = Current.mtime /\ e.size = Current.size
         /\ (e = NoEntry <=> Current = NoEntry)
         /\ Stamp(e) = Stamp(Current)
         /\ Reachable(e) \subseteq Holders
         /\ e.size > 0 /\ q \notin Holders => Reachable(e) # {} /\ Unreachable(e) = {}
<1>1. e \in Entries /\ e.mtime = Current.mtime /\ e.size = Current.size
      /\ Reachable(e) \subseteq Holders
      /\ (e.size > 0 /\ q \notin Holders => Reachable(e) # {} /\ Unreachable(e) = {})
  BY DEF Usable
<1>2. e = NoEntry <=> Current = NoEntry
  BY <1>1, EntryFacts, CurrentFacts, NoEntryFacts
<1> QED
  BY <1>1, <1>2 DEF Stamp

\* The versions of the two tables are the same.
SameVersion ==
  /\ Current'.mtime = Current.mtime /\ Current'.size = Current.size
  /\ (Current' = NoEntry <=> Current = NoEntry)

LEMMA SameHolder ==
  ASSUME NEW q \in Peers, UNCHANGED last, disk'[q] = disk[q],
         Current'.size = Current.size, Current.size # 0 => Current'.mtime = Current.mtime,
         (Current' = NoEntry <=> Current = NoEntry)
  PROVE  q \in Holders' <=> q \in Holders
<1>1. CASE Current = NoEntry
  BY <1>1 DEF Holders
<1>2. CASE Current # NoEntry /\ Current.size = 0
  BY <1>2 DEF Holders
<1>3. CASE Current # NoEntry /\ Current.size # 0
  BY <1>3 DEF Holders
<1> QED
  BY <1>1, <1>2, <1>3

LEMMA UsableStays ==
  ASSUME UNCHANGED port, SameVersion, Holders \subseteq Holders', NEW q \in Peers
  PROVE  Usable(q) \subseteq Usable(q)'
<1> SUFFICES ASSUME NEW e \in Usable(q) PROVE e \in Usable(q)'
  OBVIOUS
<1>1. Reachable(e)' = Reachable(e) /\ Unreachable(e)' = Unreachable(e)
  BY DEF Reachable, Unreachable, Address
<1>2. e \in Entries /\ e.mtime = Current.mtime /\ e.size = Current.size
      /\ Reachable(e) \subseteq Holders
      /\ (e.size > 0 /\ q \notin Holders => Reachable(e) # {} /\ Unreachable(e) = {})
  BY DEF Usable
<1> QED
  BY <1>1, <1>2 DEF Usable, SameVersion

LEMMA HolderBytes ==
  ASSUME SyncTypes, Dated, "alike" \notin harm, NEW q \in Holders, Current # NoEntry, NEW e,
         e.mtime = Current.mtime, e.size = Current.size
  PROVE  SameBytes(disk[q], e) /\ disk[q].size = Current.size /\ disk[q] # NoCopy
<1>0. q \in Peers
  BY DEF Holders
<1>1. CASE Current.size = 0
  BY <1>1 DEF Holders, SameBytes
<1>2. CASE Current.size # 0
  <2>1. disk[q].mtime = Current.mtime /\ disk[q].size = Current.size /\ disk[q].version = last
    BY <1>2 DEF Holders
  <2>2. disk[q] # NoCopy
    BY <1>0, <1>2, <2>1, DiskFacts
  <2>3. e.size > 0 /\ last \in 1..writes /\ wrote[last] = Stamp(e)
    BY <1>2, CurrentFacts DEF Dated, Stamp
  <2>4. Versions(e) = {last}
    BY <2>3, OneVersion
  <2> QED
    BY <2>1, <2>2, <2>4 DEF SameBytes
<1> QED
  BY <1>1, <1>2

LEMMA QuietFlow ==
  ASSUME SyncTypes, Quiet, Safe, Registering \/ Pending \/ Flow
  PROVE  /\ Flow /\ Still /\ Holders = Peers
         /\ \A a \in Addrs : up[a] = <<>>
         /\ \A b \in Current.peers : b = Address(b[1])
<1>1. \A p \in Peers : Address(p) \in Addrs
  BY AddressOf, CountFacts
<1>2. ~Registering
  BY <1>1 DEF Quiet, Registering, RegisteringOf
<1>3. ~Pending
  <2> SUFFICES ASSUME NEW p \in Peers, NEW kind \in Changes, PendingOf(p, kind) PROVE FALSE
    BY DEF Pending
  <2>1. \/ raw[p] = <<[action |-> kind, n |-> made[p]]>>
        \/ up[Address(p)] = <<Change(p, kind)>>
    BY DEF PendingOf
  <2>2. raw[p] = <<>> /\ up[Address(p)] = <<>>
    BY <1>1 DEF Quiet
  <2> QED
    BY <2>1, <2>2
<1>4. Flow
  BY <1>2, <1>3
<1>5. \A a \in Addrs : up[a] = <<>>
  BY DEF Quiet
<1>6. ASSUME NEW p \in Peers
      PROVE  p \in Holders /\ down[p] = <<>> /\ main[p].pc = "idle" /\ job[p].phase = "none"
  <2>1. down[p] = <<>> /\ main[p].pc = "idle" /\ job[p].phase \in {"none", "hung"}
    BY DEF Quiet
  <2>2. FlowPeer(p)
    BY <1>4 DEF Flow
  <2> QED
    BY <2>1, <2>2 DEF FlowPeer
<1>7. Holders = Peers
  BY <1>6 DEF Holders
<1>8. \A b \in Current.peers : b = Address(b[1])
  BY <1>5, CurrentFacts DEF Safe
<1> QED
  BY <1>4, <1>5, <1>6, <1>7, <1>8 DEF Still

LEMMA TurnsImply == SyncTypes /\ TurnInv => TurnsAreSafe
<1> SUFFICES ASSUME SyncTypes, TurnInv, ~overlap, harm \cap {"again", "alike"} = {} PROVE TurnsAreSafe
  BY DEF TurnsAreSafe
<1>1. Safe /\ (Registering \/ Pending \/ Flow)
  BY DEF TurnInv
<1>2. ASSUME Quiet PROVE Agree /\ \A p \in Peers : disk[p].size > 0 => disk[p].version = last
  <2>1. Flow /\ Holders = Peers /\ Dated
    BY <1>1, <1>2, QuietFlow DEF Flow
  <2>2. ASSUME NEW p \in Peers
        PROVE  /\ IF 1 \in Present(table) THEN SameBytes(disk[p], EntryOf(table)) ELSE disk[p] = NoCopy
               /\ disk[p].size > 0 => disk[p].version = last
    <3>1. CASE Current = NoEntry
      <4>1. disk[p] = NoCopy
        BY <2>1, <3>1 DEF Holders
      <4>2. ~(disk[p].size > 0)
        BY <4>1 DEF NoCopy
      <4> QED
        BY <3>1, <4>1, <4>2, CurrentFacts
    <3>2. CASE Current # NoEntry
      <4>1. SameBytes(disk[p], Current) /\ disk[p].size = Current.size
        BY <1>1, <2>1, <3>2, HolderBytes DEF Safe
      <4>2. Current.size > 0 => disk[p].version = last
        BY <2>1, <3>2 DEF Holders
      <4> QED
        BY <3>2, <4>1, <4>2, CurrentFacts DEF Current
    <3> QED
      BY <3>1, <3>2
  <2> QED
    BY <2>2 DEF Agree
<1> QED
  BY <1>1, <1>2 DEF TurnsAreSafe, Safe

LEMMA InitTurns == Init /\ SyncTypes => TurnInv
<1> SUFFICES ASSUME Init, SyncTypes PROVE Safe /\ Flow
  BY DEF TurnInv
<1>1. PICK there \in BOOLEAN :
        /\ disk = [p \in Peers |-> IF there THEN [mtime |-> 1, size |-> 1, version |-> 1] ELSE NoCopy]
        /\ table = IF there
                   THEN [entry |-> [n \in Names |-> [mtime |-> 1, size |-> 1, dir |-> FALSE,
                                                     peers |-> Peers \X {1},
                                                     numpeers |-> Cardinality(Peers)]],
                         numfiles |-> 1]
                   ELSE EmptyTable
        /\ last = IF there THEN 1 ELSE 0
        /\ wrote = [k \in 1..MaxWrites |-> IF there /\ k = 1 THEN [mtime |-> 1, size |-> 1]
                                          ELSE Stamp(NoCopy)]
  BY DEF Init
<1>2. /\ raw = [p \in Peers |-> <<>>]
      /\ up = [a \in Addrs |-> <<>>] /\ down = [p \in Peers |-> <<>>]
      /\ port = [p \in Peers |-> 1] /\ listed = Peers
      /\ main = [p \in Peers |-> Idle] /\ job = [p \in Peers |-> NoJob]
      /\ deaf = {} /\ writes = 1 /\ now = 1 /\ harm = {}
      /\ made = [p \in Peers |-> 0] /\ heard = [p \in Peers |-> 0]
  BY DEF Init
<1>3. IF there THEN Current = [mtime |-> 1, size |-> 1, dir |-> FALSE,
                               peers |-> Peers \X {1}, numpeers |-> Cardinality(Peers)]
      ELSE Current = NoEntry
  BY <1>1, SyncAssumption DEF Current, EntryOf, Present, EmptyTable
<1>4. /\ there => Current.mtime = 1 /\ Current.size = 1 /\ Current.peers = Peers \X {1} /\ Current # NoEntry
      /\ ~there => Current = NoEntry /\ Current.mtime = 0 /\ Current.size = 0 /\ Current.peers = {}
  BY <1>3 DEF NoEntry
<1>5. \A q \in Peers : /\ there => disk[q] = [mtime |-> 1, size |-> 1, version |-> 1]
                       /\ ~there => disk[q] = NoCopy
  BY <1>1
<1>6. Holders = Peers
  BY <1>1, <1>4, <1>5 DEF Holders
<1>70. there => 1 \in 1..writes /\ wrote[1] = [mtime |-> 1, size |-> 1]
  BY <1>1, <1>2, SyncAssumption
<1>7. Dated /\ Told
  BY <1>1, <1>2, <1>4, <1>70 DEF Dated, Told, Stamp
<1>8. Safe
  <2>1. \A q \in Peers : disk[q].mtime <= 1 /\ Genuine(disk[q])
    BY <1>5, <1>70 DEF NoCopy, Genuine, Stamp
  <2>2. \A b \in Current.peers : b = Address(b[1])
    BY <1>2, <1>4 DEF Address
  <2>3. Current.mtime <= 1
    BY <1>4
  <2> QED
    BY <1>2, <2>1, <2>2, <2>3 DEF Safe
<1>9. \A q \in Peers : Current \in Usable(q)
  BY <1>6, CurrentFacts DEF Usable, Reachable, Unreachable
<1>10. ASSUME NEW p \in Peers PROVE FlowPeer(p)
  <2>1. down[p] = <<>> /\ main[p].pc = "idle" /\ job[p].phase = "none"
    BY <1>2 DEF Idle, NoJob
  <2>2. down[p] \in Seq(Tables(p))
    BY <2>1
  <2> QED
    BY <1>6, <2>1, <2>2 DEF FlowPeer
<1>11. \A a \in Addrs : FlowWire(a)
  BY <1>2 DEF FlowWire, Closing
<1> QED
  BY <1>2, <1>7, <1>8, <1>9, <1>10, <1>11 DEF Flow

----------------------------------------------------------------------------
\* A step of p's own threads while the version of the table flows.
Frame(p) ==
  /\ UNCHANGED <<raw, made, last, writes, wrote, overlap, port, listed, table, heard, deaf>>
  /\ now' \in Nat /\ now <= now'
  /\ \A q \in Peers \ {p} : /\ disk'[q] = disk[q] /\ down'[q] = down[q]
                            /\ main'[q] = main[q] /\ job'[q] = job[q]
  /\ \A a \in Addrs \ {Address(p)} : up'[a] = up[a]

LEMMA FrameMain ==
  ASSUME SyncTypes, NEW p \in Peers, MainThread(p) \/ Resume(p) \/ \E q \in Peers : Fetch(p, q)
  PROVE  Frame(p)
<1>1. UNCHANGED <<raw, made, last, writes, wrote, overlap, port, listed, table, heard, deaf>>
  BY DEF MainThread, TakeTable, Drop, Show, Skip, Place, Resume, Fetch, disks, clock, network, tracker
<1>11. now' \in Nat /\ now <= now'
  <2>1. now' = now \/ now' = now + 1
    BY DEF MainThread, TakeTable, Drop, Show, Skip, Place, InSecond, Resume, Fetch, disks, clock
  <2> QED
    BY <2>1, CountFacts
<1>2. /\ disk \in [Peers -> Copies] /\ up \in [Addrs -> Seq(Messages)]
      /\ main \in [Peers -> Mains] /\ job \in [Peers -> Jobs]
      /\ down \in [Peers -> Seq([entry : Entries, heard : Nat])]
  BY DEF SyncTypes, DiskTypes, WireTypes, UpTypes, ThreadTypes, Mains, Jobs
<1>3. \A q \in Peers \ {p} : down'[q] = down[q]
  BY <1>2 DEF MainThread, TakeTable, Drop, Show, Skip, Place, Resume, Fetch, network
<1>4. \A q \in Peers \ {p} : disk'[q] = disk[q]
  BY <1>2 DEF MainThread, TakeTable, Drop, Show, Skip, Place, Resume, Fetch, disks
<1>5. \A q \in Peers \ {p} : main'[q] = main[q]
  BY <1>2 DEF MainThread, TakeTable, Drop, Show, Skip, Place, Resume, Fetch
<1>6. \A q \in Peers \ {p} : job'[q] = job[q]
  BY <1>2 DEF MainThread, TakeTable, Drop, Show, Skip, Place, Resume, Fetch
<1>7. \A a \in Addrs \ {Address(p)} : up'[a] = up[a]
  BY <1>2 DEF MainThread, TakeTable, Drop, Show, Skip, Place, Resume, Fetch, Report, Send, network
<1> QED
  BY <1>1, <1>11, <1>3, <1>4, <1>5, <1>6, <1>7 DEF Frame

LEMMA FrameFacts ==
  ASSUME SyncTypes, NEW p \in Peers, Frame(p), p \in Holders => p \in Holders'
  PROVE  /\ Current' = Current /\ Completion' = Completion /\ SameVersion
         /\ \A q \in Peers \ {p} : q \in Holders' <=> q \in Holders
         /\ Holders \subseteq Holders'
         /\ \A q \in Peers : Usable(q) \subseteq Usable(q)' /\ Tables(q) \subseteq Tables(q)'
         /\ \A q \in Peers : Address(q)' = Address(q)
<1>1. Current' = Current /\ UNCHANGED <<last, port, made>>
  BY DEF Frame, Current
<1>2. SameVersion /\ Completion' = Completion
  BY <1>1 DEF SameVersion, Completion
<1>3. \A q \in Peers \ {p} : q \in Holders' <=> q \in Holders
  BY <1>1, SameHolder DEF Frame
<1>4. Holders \subseteq Holders'
  BY <1>3 DEF Holders
<1>5. \A q \in Peers : Usable(q) \subseteq Usable(q)'
  BY <1>1, <1>2, <1>4, UsableStays
<1>6. \A q \in Peers : Tables(q) \subseteq Tables(q)'
  BY <1>1, <1>5 DEF Tables
<1>7. \A q \in Peers : Address(q)' = Address(q)
  BY <1>1 DEF Address
<1> QED
  BY <1>1, <1>2, <1>3, <1>4, <1>5, <1>6, <1>7

LEMMA PeerStep ==
  ASSUME SyncTypes, Safe, Flow, NEW p \in Peers, Frame(p), p \in Holders => p \in Holders',
         FlowPeer(p)', FlowWire(Address(p))', harm' = {}, disk'[p].mtime <= now', Genuine(disk[p])'
  PROVE  Safe' /\ Flow'
<1>1. /\ Current' = Current /\ Completion' = Completion /\ SameVersion
      /\ \A q \in Peers \ {p} : q \in Holders' <=> q \in Holders
      /\ Holders \subseteq Holders'
      /\ \A q \in Peers : Usable(q) \subseteq Usable(q)' /\ Tables(q) \subseteq Tables(q)'
      /\ \A q \in Peers : Address(q)' = Address(q)
  BY FrameFacts
<1>2. UNCHANGED <<raw, made, last, writes, wrote, listed, heard, deaf>>
  BY DEF Frame
<1>3. Told' /\ Dated' /\ listed' = Peers
  BY <1>1, <1>2 DEF Flow, Told, Dated, Stamp
<1>4. \A q \in Peers : (Current \in Usable(q))'
  BY <1>1 DEF Flow
<1>5. ASSUME NEW q \in Peers, q # p PROVE FlowPeer(q)'
  <2>1. FlowPeer(q)
    BY DEF Flow
  <2>2. disk'[q] = disk[q] /\ down'[q] = down[q] /\ main'[q] = main[q] /\ job'[q] = job[q] /\ made'[q] = made[q]
    BY <1>2, <1>5 DEF Frame
  <2>3. (down[q] \in Seq(Tables(q)))'
    BY <1>1, <2>1, <2>2, SeqWider DEF FlowPeer
  <2>4. q \in Holders' <=> q \in Holders
    BY <1>1, <1>5
  <2>5. Usable(q) \subseteq Usable(q)'
    BY <1>1
  <2> QED
    BY <1>1, <2>1, <2>2, <2>3, <2>4, <2>5 DEF FlowPeer
<1>6. ASSUME NEW a \in Addrs, a # Address(p) PROVE FlowWire(a)'
  <2>1. FlowWire(a) /\ up'[a] = up[a] /\ a[1] \in Peers
    BY <1>6, AddressFacts DEF Flow, Frame
  <2>2. Address(a[1])' = Address(a[1])
    BY <1>1, <2>1
  <2>3. CASE Closing(a)
    BY <2>1, <2>2, <2>3 DEF FlowWire, Closing
  <2>4. CASE ~Closing(a)
    BY <1>1, <2>1, <2>2, <2>4 DEF FlowWire
  <2> QED
    BY <2>3, <2>4
<1>7. FlowPeer(p)'
  OBVIOUS
<1>8. \A q \in Peers : FlowPeer(q)'
  BY <1>5, <1>7
<1>9. \A a \in Addrs : FlowWire(a)'
  <2>1. Address(p) \in Addrs /\ Address(p)' = Address(p)
    BY <1>1, AddressOf, CountFacts
  <2>2. PICK b \in Addrs : b = Address(p)
    BY <2>1
  <2>3. FlowWire(b)'
    BY <2>1, <2>2 DEF FlowWire, Closing
  <2> QED
    BY <1>6, <2>2, <2>3
<1>10. Flow'
  BY <1>3, <1>4, <1>8, <1>9 DEF Flow
<1>11. ASSUME NEW b \in Current.peers, b # Address(b[1]) PROVE up'[b] # <<>>
  <2>1. b \in Addrs /\ b[1] \in Peers
    BY CurrentFacts, AddressFacts
  <2>2. b # Address(p)
    BY <1>11, <2>1, AddressOf, CountFacts
  <2> QED
    BY <1>11, <2>1, <2>2 DEF Safe, Frame
<1>12. \A b \in Current'.peers : b # Address(b[1])' => up'[b] # <<>>
  <2>1. \A b \in Current.peers : b[1] \in Peers
    BY CurrentFacts, AddressFacts
  <2> QED
    BY <1>1, <1>11, <2>1
<1>13. ASSUME NEW q \in Peers PROVE disk'[q].mtime <= now' /\ Genuine(disk[q])'
  <2>1. CASE q = p
    BY <2>1
  <2>2. CASE q # p
    <3>1. disk'[q] = disk[q] /\ UNCHANGED <<writes, wrote>> /\ now' \in Nat /\ now <= now'
      BY <2>2 DEF Frame
    <3>2. disk[q].mtime <= now /\ Genuine(disk[q])
      BY DEF Safe
    <3>3. disk[q].mtime \in Nat /\ now \in Nat
      BY DiskFacts, CountFacts
    <3>4. disk[q].mtime <= now'
      BY <3>1, <3>2, <3>3
    <3> QED
      BY <3>1, <3>2, <3>4 DEF Genuine, Stamp
  <2> QED
    BY <2>1, <2>2
<1>14. Current'.mtime <= now'
  BY <1>1, CurrentFacts, CountFacts DEF Safe, Frame
<1> QED
  BY <1>1, <1>2, <1>10, <1>12, <1>13, <1>14 DEF Safe

\* A step that leaves the copy alone.
LEMMA KeptCopy ==
  ASSUME SyncTypes, Safe, NEW p \in Peers, Frame(p), disk'[p] = disk[p]
  PROVE  disk'[p].mtime <= now' /\ Genuine(disk[p])'
<1>1. disk[p].mtime <= now /\ Genuine(disk[p])
  BY DEF Safe
<1>2. UNCHANGED <<writes, wrote>> /\ now' \in Nat /\ now <= now'
  BY DEF Frame
<1>3. disk[p].mtime \in Nat /\ now \in Nat
  BY DiskFacts, CountFacts
<1>4. disk[p].mtime <= now'
  BY <1>1, <1>2, <1>3
<1> QED
  BY <1>1, <1>2, <1>4 DEF Genuine, Stamp

\* The address of p keeps its queue, or one more completion is put at its end.
LEMMA OwnWire ==
  ASSUME SyncTypes, Flow, NEW p \in Peers, Frame(p), p \in Holders => p \in Holders',
         \/ up'[Address(p)] = up[Address(p)]
         \/ /\ p \in Holders' /\ Current # NoEntry
            /\ up'[Address(p)] = Append(up[Address(p)], Completion)
  PROVE  FlowWire(Address(p))'
<1> DEFINE a == Address(p)
<1>1. a \in Addrs /\ a[1] = p /\ a' = a
  BY AddressOf, CountFacts, FrameFacts
<1>2. Current' = Current /\ Completion' = Completion /\ Holders \subseteq Holders'
  BY FrameFacts
<1>3. up[a] = <<>> \/ (p \in Holders /\ Current # NoEntry /\ up[a] \in Seq({Completion}))
  <2>1. FlowWire(a)
    BY <1>1 DEF Flow
  <2> QED
    BY <1>1, <2>1 DEF FlowWire, Closing
<1> HIDE DEF a
<1>4. up'[a] = <<>> \/ (p \in Holders' /\ Current # NoEntry /\ up'[a] \in Seq({Completion}))
  <2>0. <<>> \in Seq({Completion})
    OBVIOUS
  <2>1. up[a] \in Seq({Completion})
    BY <1>3, <2>0
  <2>2. Append(up[a], Completion) \in Seq({Completion})
    BY <2>1
  <2> QED
    BY <1>2, <1>3, <2>2 DEF a
<1>5. (a = Address(a[1]))' /\ a'[1] = p
  BY <1>1 DEF a
<1> QED
  BY <1>1, <1>2, <1>4, <1>5 DEF FlowWire, Closing, a

LEMMA FlowTakeTable ==
  ASSUME SyncTypes, Safe, Flow, NEW p \in Peers, TakeTable(p)
  PROVE  Safe' /\ Flow'
<1> DEFINE m == Head(down[p])
<1>1. Frame(p) /\ UNCHANGED <<disk, up, job>>
  BY FrameMain DEF MainThread, TakeTable, disks
<1>2. FlowPeer(p) /\ main[p].pc = "idle" /\ down[p] # <<>>
  BY DEF Flow, TakeTable
<1>3. p \in Holders' <=> p \in Holders
  <2>1. Current' = Current /\ UNCHANGED last /\ disk'[p] = disk[p]
    BY <1>1 DEF Frame, Current
  <2> QED
    BY <2>1, SameHolder
<1>4. /\ Current' = Current /\ Usable(p) \subseteq Usable(p)' /\ Tables(p) \subseteq Tables(p)'
      /\ made'[p] = made[p]
  BY <1>1, <1>3, FrameFacts DEF Frame
<1>5. m \in Tables(p) /\ Tail(down[p]) \in Seq(Tables(p))
  BY <1>2 DEF FlowPeer
<1>6. m.entry \in Usable(p) /\ m.heard = made[p]
  BY <1>5 DEF Tables
<1>7. /\ m.entry \in Entries /\ m.entry.mtime = Current.mtime /\ m.entry.size = Current.size
      /\ (m.entry = NoEntry <=> Current = NoEntry)
      /\ Reachable(m.entry) \subseteq Holders
  BY <1>6, UsableFacts
<1>8. down'[p] = Tail(down[p]) /\ job'[p] = job[p] /\ disk'[p] = disk[p]
  BY <1>1 DEF TakeTable, SyncTypes, WireTypes
<1>9. PICK verdict \in {"get", "drop", "idle"} :
        /\ main' = [main EXCEPT ![p] = IF verdict = "idle" THEN Idle
                                       ELSE [pc |-> verdict, entry |-> m.entry, heard |-> m.heard]]
        /\ verdict = "get" => m.entry # NoEntry
        /\ verdict = "drop" => m.entry = NoEntry
        /\ verdict = "idle" => \/ disk[p] = NoCopy /\ m.entry = NoEntry
                               \/ disk[p] # NoCopy /\ m.entry # NoEntry /\ ~WorthDownloading(p, m.entry)
  BY DEF TakeTable
<1>91. harm' = harm
  <2>1. job[p].phase = "fetch" => Stamp(job[p].entry) = Stamp(Current)
    BY <1>2, UsableFacts DEF FlowPeer
  <2>2. ~Missed(p, m.entry)
    BY <1>7, <2>1 DEF Missed, Stamp
  <2> QED
    BY <2>2 DEF TakeTable
<1>10. main'[p] = IF verdict = "idle" THEN Idle ELSE [pc |-> verdict, entry |-> m.entry, heard |-> m.heard]
  BY <1>9 DEF SyncTypes, ThreadTypes
<1> HIDE DEF m
<1>11. verdict = "idle" => p \in Holders
  <2> SUFFICES ASSUME verdict = "idle", p \notin Holders PROVE FALSE
    OBVIOUS
  <2>1. disk[p] # NoCopy /\ Current # NoEntry /\ ~WorthDownloading(p, m.entry)
    BY <1>7, <1>9 DEF Holders
  <2>2. Off(disk[p], Current)
    BY <1>2, <2>1 DEF FlowPeer
  <2>3. Address(p) \notin m.entry.peers
    BY <1>7 DEF Reachable
  <2> QED
    BY <1>7, <2>1, <2>2, <2>3 DEF WorthDownloading, Off
<1>12. (down[p] \in Seq(Tables(p)))'
  BY <1>4, <1>5, <1>8, SeqWider
<1>13. FlowPeer(p)'
  <2>1. CASE verdict = "idle"
    <3>1. main'[p].pc = "idle"
      BY <1>10, <2>1 DEF Idle
    <3> QED
      BY <1>2, <1>3, <1>4, <1>8, <1>11, <1>12, <2>1, <3>1 DEF FlowPeer
  <2>2. CASE verdict # "idle"
    <3>1. main'[p].pc = verdict /\ main'[p].entry = m.entry /\ main'[p].heard = m.heard
      BY <1>10, <2>2
    <3>2. (main[p].entry \in Usable(p) /\ main[p].heard = made[p])'
      BY <1>4, <1>6, <3>1
    <3> QED
      BY <1>2, <1>3, <1>4, <1>7, <1>8, <1>9, <1>12, <2>2, <3>1, <3>2 DEF FlowPeer
  <2> QED
    BY <2>1, <2>2
<1>14. FlowWire(Address(p))'
  BY <1>1, <1>3, OwnWire
<1>15. disk'[p].mtime <= now' /\ Genuine(disk[p])'
  BY <1>1, KeptCopy
<1> QED
  BY <1>1, <1>3, <1>8, <1>91, <1>13, <1>14, <1>15, PeerStep DEF Safe

LEMMA FlowDrop ==
  ASSUME SyncTypes, Safe, Flow, NEW p \in Peers, Drop(p)
  PROVE  Safe' /\ Flow'
<1>1. Frame(p) /\ UNCHANGED <<down, up, job>>
  BY FrameMain DEF MainThread, Drop, network
<1>2. FlowPeer(p) /\ main[p].pc = "drop" /\ Current = NoEntry /\ main[p].heard = made[p]
  BY DEF Flow, Drop, FlowPeer
<1>3. disk'[p] = NoCopy /\ main'[p].pc = "show"
  BY ThreadFacts DEF Drop, SyncTypes, DiskTypes, ThreadTypes
<1>4. p \in Holders'
  BY <1>1, <1>2, <1>3 DEF Frame, Current, Holders
<1>5. Current' = Current /\ Tables(p) \subseteq Tables(p)'
  BY <1>1, <1>4, FrameFacts
<1>6. job[p].phase # "fetch" /\ job[p].phase # "wait"
  BY <1>2, CurrentFacts DEF FlowPeer
<1>7. harm' = {}
  <2>1. ~News(p, main[p].heard)
    BY <1>2, CountFacts DEF News
  <2> QED
    BY <1>6, <2>1 DEF Drop, Safe
<1>8. (down[p] \in Seq(Tables(p)))'
  BY <1>1, <1>2, <1>5, SeqWider DEF FlowPeer
<1>9. FlowPeer(p)'
  BY <1>1, <1>2, <1>3, <1>4, <1>5, <1>6, <1>8 DEF FlowPeer
<1>10. FlowWire(Address(p))'
  BY <1>1, <1>4, OwnWire
<1>11. disk'[p].mtime <= now' /\ Genuine(disk[p])'
  <2>1. now' \in Nat
    BY <1>1 DEF Frame
  <2> QED
    BY <1>3, <2>1 DEF NoCopy, Genuine
<1> QED
  BY <1>1, <1>4, <1>7, <1>9, <1>10, <1>11, PeerStep

LEMMA FlowIdles ==
  ASSUME SyncTypes, Safe, Flow, NEW p \in Peers, Show(p) \/ Skip(p)
  PROVE  Safe' /\ Flow'
<1>1. Frame(p) /\ UNCHANGED <<disk, down, up, job>>
  BY FrameMain DEF MainThread, Show, Skip, network, disks
<1>2. FlowPeer(p)
  BY DEF Flow
<1>3. main'[p].pc = "idle"
  BY ThreadFacts DEF Show, Skip, SyncTypes, ThreadTypes
<1>4. p \in Holders' <=> p \in Holders
  <2>1. Current' = Current /\ UNCHANGED last /\ disk'[p] = disk[p]
    BY <1>1 DEF Frame, Current
  <2> QED
    BY <2>1, SameHolder
<1>5. Current' = Current /\ Usable(p) \subseteq Usable(p)' /\ Tables(p) \subseteq Tables(p)' /\ made' = made
  BY <1>1, <1>4, FrameFacts DEF Frame
<1>6. (down[p] \in Seq(Tables(p)))'
  BY <1>1, <1>2, <1>5, SeqWider DEF FlowPeer
<1>7. harm' = {}
  <2>1. CASE Show(p)
    BY <2>1 DEF Show, Safe
  <2>2. CASE Skip(p)
    <3>1. main[p].entry \in Usable(p) /\ Current # NoEntry /\ job[p].phase # "none"
      BY <1>2, <2>2 DEF Skip, FlowPeer, Marked
    <3>2. main[p].entry.mtime = Current.mtime /\ main[p].entry.size = Current.size
      BY <3>1, UsableFacts
    <3>3. CASE job[p].phase = "fetch"
      <4>1. Stamp(job[p].entry) = Stamp(Current)
        BY <1>2, <3>3, UsableFacts DEF FlowPeer
      <4> QED
        BY <2>2, <3>2, <3>3, <4>1 DEF Skip, Coming, Missed, Safe, Stamp
    <3>4. CASE job[p].phase = "wait"
      <4>1. p \in Holders /\ Dated
        BY <1>2, <3>4 DEF FlowPeer, Flow
      <4>2. SameBytes(disk[p], main[p].entry)
        BY <3>1, <3>2, <4>1, HolderBytes DEF Safe
      <4> QED
        BY <2>2, <3>4, <4>2 DEF Skip, Coming, Missed, Safe
    <3> QED
      BY <1>2, <3>1, <3>3, <3>4 DEF FlowPeer, SyncTypes, ThreadTypes
  <2> QED
    BY <2>1, <2>2
<1>8. p \notin Holders => down[p] # <<>> \/ job[p].phase = "fetch"
  <2>1. main[p].pc = "show" \/ (main[p].pc = "get" /\ job[p].phase # "none")
    BY DEF Show, Skip, Marked
  <2>2. job[p].phase \in {"none", "fetch", "wait", "hung"}
    BY DEF SyncTypes, ThreadTypes
  <2> QED
    BY <1>2, <2>1, <2>2 DEF FlowPeer
<1>9. FlowPeer(p)'
  BY <1>1, <1>2, <1>3, <1>4, <1>5, <1>6, <1>8 DEF FlowPeer
<1>10. FlowWire(Address(p))'
  BY <1>1, <1>4, OwnWire
<1> QED
  BY <1>1, <1>4, <1>7, <1>9, <1>10, KeptCopy, PeerStep

\* What Report sends is a completion of the version of the table.
LEMMA Reports ==
  ASSUME SyncTypes, NEW p \in Peers, NEW e \in Usable(p), Report(p, e)
  PROVE  up'[Address(p)] = Append(up[Address(p)], Completion)
<1>1. Address(p) \in Addrs /\ up \in [Addrs -> Seq(Messages)]
  BY AddressOf, CountFacts DEF SyncTypes, WireTypes, UpTypes
<1>2. Info(e) = Info(Current)
  BY UsableFacts DEF Info
<1>3. Completion = Message("FILE_UPDATE", <<[action |-> "DOWNLOAD_COMPLETE", file |-> Info(e)]>>, 0)
  BY <1>2 DEF Completion
<1>4. up' = [up EXCEPT ![Address(p)] = Append(@, Completion)]
  BY <1>3 DEF Report, Send
<1> QED
  BY <1>1, <1>4

LEMMA FlowPlace ==
  ASSUME SyncTypes, Safe, Flow, NEW p \in Peers, NEW t \in Times, Place(p, t), "again" \notin harm'
  PROVE  Safe' /\ Flow'
<1> DEFINE e == main[p].entry
           copy == [mtime |-> t, size |-> 0, version |-> 0]
<1>1. Frame(p) /\ UNCHANGED down
  BY FrameMain DEF MainThread, Place
<1>2. FlowPeer(p) /\ main[p].pc = "get" /\ job[p].phase = "none" /\ Current # NoEntry
      /\ e \in Usable(p) /\ main[p].heard = made[p]
  BY DEF Flow, Place, FlowPeer, Marked
<1>3. e \in Entries /\ e.mtime = Current.mtime /\ e.size = Current.size
  BY <1>2, UsableFacts
<1>4. harm' = harm \cup Overwrites(p, main[p].heard) \cup Begins(p, e)
  BY DEF Place
<1>5. Off(disk[p], e)
  BY <1>4 DEF Begins
<1>6. harm' = {}
  <2>1. Overwrites(p, main[p].heard) = {}
    BY <1>2, CountFacts DEF Overwrites, News
  <2>2. Begins(p, e) = {}
    BY <1>5 DEF Begins
  <2> QED
    BY <1>4, <2>1, <2>2 DEF Safe
<1>7. /\ disk'[p] = copy
      /\ job'[p] = [phase |-> IF e.size = 0 THEN "wait" ELSE "fetch", entry |-> e, heard |-> main[p].heard]
      /\ main'[p] = IF e.size = 0 THEN [Idle EXCEPT !.pc = "wait"] ELSE Idle
      /\ IF e.size = 0 THEN Report(p, e) ELSE UNCHANGED up
  BY DEF Place, SyncTypes, DiskTypes, ThreadTypes
<1>8. copy # NoCopy /\ copy.size = 0 /\ copy.mtime = t /\ copy.mtime <= now' /\ copy.mtime > 0
  <2>1. t = now' /\ t \in Nat /\ t > 0
    BY CountFacts DEF Place, InSecond
  <2> QED
    BY <2>1 DEF NoCopy
<1>9. Current' = Current /\ UNCHANGED <<made, last, writes, port>>
  BY <1>1 DEF Frame, Current
<1>91. Genuine(disk[p])'
  BY <1>7, <1>8 DEF Genuine
<1> HIDE DEF e, copy
<1>10. CASE e.size = 0
  <2>1. p \in Holders'
    BY <1>2, <1>3, <1>7, <1>8, <1>9, <1>10 DEF Holders
  <2>2. Usable(p) \subseteq Usable(p)' /\ Tables(p) \subseteq Tables(p)'
    BY <1>1, <2>1, FrameFacts
  <2>3. (down[p] \in Seq(Tables(p)))'
    BY <1>1, <1>2, <2>2, SeqWider DEF FlowPeer
  <2>4. main'[p].pc = "wait" /\ job'[p].phase = "wait"
    BY <1>7, <1>10, ThreadFacts
  <2>5. FlowPeer(p)'
    BY <1>2, <1>9, <2>1, <2>3, <2>4 DEF FlowPeer
  <2>6. up'[Address(p)] = Append(up[Address(p)], Completion)
    BY <1>2, <1>7, <1>10, Reports
  <2>7. FlowWire(Address(p))'
    BY <1>1, <1>2, <2>1, <2>6, OwnWire
  <2> QED
    BY <1>1, <1>6, <1>7, <1>8, <1>91, <2>1, <2>5, <2>7, PeerStep
<1>11. CASE e.size # 0
  <2>1. e.size > 0 /\ Current.size > 0
    BY <1>3, <1>11, CurrentFacts
  <2>2. p \notin Holders
    <3>1. ASSUME p \in Holders PROVE FALSE
      <4>1. disk[p].mtime = Current.mtime /\ disk[p].size = Current.size
        BY <1>2, <1>3, <1>11, <3>1 DEF Holders
      <4> QED
        BY <1>3, <1>5, <4>1, CurrentFacts DEF Off
    <3> QED
      BY <3>1
  <2>3. p \notin Holders'
    <3>1. ASSUME p \in Holders' PROVE FALSE
      <4>1. disk'[p].size = Current.size
        BY <1>2, <1>3, <1>9, <1>11, <3>1 DEF Holders
      <4> QED
        BY <1>3, <1>7, <1>8, <1>11, <4>1
    <3> QED
      BY <3>1
  <2>4. Usable(p) \subseteq Usable(p)' /\ Tables(p) \subseteq Tables(p)'
    BY <1>1, <2>2, FrameFacts
  <2>5. (down[p] \in Seq(Tables(p)))'
    BY <1>1, <1>2, <2>4, SeqWider DEF FlowPeer
  <2>6. main'[p].pc = "idle" /\ job'[p].phase = "fetch" /\ job'[p].entry = e /\ job'[p].heard = made[p]
    BY <1>2, <1>7, <1>11, ThreadFacts
  <2>7. Off(disk[p], Current)'
    BY <1>3, <1>7, <1>8, <1>9, <1>11 DEF Off
  <2>8. (job[p].entry \in Usable(p) /\ job[p].heard = made[p])'
    BY <1>2, <1>9, <2>4, <2>6
  <2>9. FlowPeer(p)'
    BY <1>2, <1>7, <1>8, <1>9, <2>1, <2>3, <2>5, <2>6, <2>7, <2>8 DEF FlowPeer
  <2>10. FlowWire(Address(p))'
    BY <1>1, <1>7, <1>11, <2>2, OwnWire
  <2> QED
    BY <1>1, <1>6, <1>7, <1>8, <1>91, <2>2, <2>9, <2>10, PeerStep
<1> QED
  BY <1>10, <1>11

LEMMA FlowFetch ==
  ASSUME SyncTypes, Safe, Flow, NEW p \in Peers, NEW q \in Peers, Fetch(p, q)
  PROVE  Safe' /\ Flow'
<1> DEFINE e == job[p].entry
           version == IF disk[q].size = e.size THEN disk[q].version ELSE 0
<1>1. Frame(p) /\ UNCHANGED <<main, down>>
  BY FrameMain DEF Fetch
<1>2. FlowPeer(p) /\ job[p].phase = "fetch" /\ Current.size > 0 /\ disk[p] # NoCopy
      /\ e \in Usable(p) /\ job[p].heard = made[p]
  BY DEF Flow, Fetch, FlowPeer
<1>3. e.mtime = Current.mtime /\ e.size = Current.size /\ Reachable(e) \subseteq Holders /\ Current # NoEntry
  BY <1>2, UsableFacts, CurrentFacts
<1>4. q \in Holders
  BY <1>3 DEF Fetch
<1>5. disk[q].size = e.size /\ disk[q].version = last
  BY <1>2, <1>3, <1>4 DEF Holders
<1>6. version = last
  BY <1>5
<1>7. /\ disk' = [disk EXCEPT ![p] = [mtime |-> e.mtime, size |-> e.size, version |-> version]]
      /\ harm' = harm \cup Overwrites(p, job[p].heard) \cup (IF Versions(e) = {version} THEN {} ELSE {"mixed"})
      /\ Report(p, e) /\ job' = [job EXCEPT ![p].phase = "wait"]
  BY <1>2 DEF Fetch
<1> HIDE DEF e, version
<1>8. disk'[p] = [mtime |-> Current.mtime, size |-> Current.size, version |-> last]
  BY <1>3, <1>6, <1>7 DEF SyncTypes, DiskTypes
<1>9. job'[p].phase = "wait" /\ main'[p] = main[p] /\ down'[p] = down[p]
  BY <1>1, <1>7 DEF SyncTypes, ThreadTypes
<1>10. Current' = Current /\ UNCHANGED <<made, last, writes, port>>
  BY <1>1 DEF Frame, Current
<1>11. p \in Holders'
  BY <1>2, <1>3, <1>8, <1>10 DEF Holders
<1>12. harm' = {}
  <2>1. Versions(e) = {last}
    <3>1. e.size > 0 /\ last \in 1..writes /\ wrote[last] = Stamp(e)
      BY <1>2, <1>3 DEF Flow, Dated, Stamp
    <3> QED
      BY <3>1, OneVersion DEF Safe
  <2>2. Overwrites(p, job[p].heard) = {}
    BY <1>2, CountFacts DEF Overwrites, News
  <2> QED
    BY <1>6, <1>7, <2>1, <2>2 DEF Safe
<1>13. Usable(p) \subseteq Usable(p)' /\ Tables(p) \subseteq Tables(p)'
  BY <1>1, <1>11, FrameFacts
<1>14. (down[p] \in Seq(Tables(p)))'
  BY <1>2, <1>9, <1>13, SeqWider DEF FlowPeer
<1>15. FlowPeer(p)'
  BY <1>2, <1>3, <1>9, <1>10, <1>11, <1>13, <1>14 DEF FlowPeer
<1>16. up'[Address(p)] = Append(up[Address(p)], Completion)
  BY <1>2, <1>7, Reports
<1>17. FlowWire(Address(p))'
  BY <1>1, <1>3, <1>11, <1>16, OwnWire
<1>18. disk'[p].mtime <= now' /\ Genuine(disk[p])'
  <2>1. Current.mtime <= now' /\ UNCHANGED <<writes, wrote>>
    BY <1>1, CurrentFacts, CountFacts DEF Frame, Safe
  <2>2. last \in 1..writes /\ wrote[last] = Stamp(Current)
    BY <1>2 DEF Flow, Dated
  <2> QED
    BY <1>8, <1>10, <2>1, <2>2 DEF Genuine, Stamp
<1> QED
  BY <1>1, <1>11, <1>12, <1>15, <1>17, <1>18, PeerStep

LEMMA FlowResume ==
  ASSUME SyncTypes, Safe, Flow, NEW p \in Peers, Resume(p)
  PROVE  Safe' /\ Flow'
<1>1. Frame(p) /\ UNCHANGED <<disk, down, up, harm>>
  BY FrameMain DEF Resume, network, disks
<1>2. FlowPeer(p) /\ p \in Holders /\ Current # NoEntry
  BY DEF Flow, FlowPeer, Resume
<1>3. job'[p].phase = "none" /\ (main'[p] = main[p] \/ main'[p].pc = "idle")
  BY ThreadFacts DEF Resume, SyncTypes, ThreadTypes
<1>4. p \in Holders'
  <2>1. Current' = Current /\ UNCHANGED last /\ disk'[p] = disk[p]
    BY <1>1 DEF Frame, Current
  <2> QED
    BY <1>2, <2>1, SameHolder
<1>5. Current' = Current /\ Usable(p) \subseteq Usable(p)' /\ Tables(p) \subseteq Tables(p)' /\ made' = made
  BY <1>1, <1>4, FrameFacts DEF Frame
<1>6. (down[p] \in Seq(Tables(p)))'
  BY <1>1, <1>2, <1>5, SeqWider DEF FlowPeer
<1>7. FlowPeer(p)'
  BY <1>1, <1>2, <1>3, <1>4, <1>5, <1>6 DEF FlowPeer
<1>8. FlowWire(Address(p))'
  BY <1>1, <1>4, OwnWire
<1> QED
  BY <1>1, <1>4, <1>7, <1>8, KeptCopy, PeerStep DEF Safe

\* Whom a download asks can be reached, and has the file.
LEMMA FlowFinds ==
  ASSUME SyncTypes, Safe, Flow, NEW p \in Peers
  PROVE  ~Spoil(p) /\ ~Strand(p) /\ \A q \in Peers : ~Hang(p, q)
<1>1. FlowPeer(p) /\ deaf = {}
  BY DEF Flow, Safe
<1> SUFFICES ASSUME job[p].phase = "fetch"
             PROVE  /\ Reachable(job[p].entry) # {} /\ Unreachable(job[p].entry) = {}
                    /\ \A q \in Reachable(job[p].entry) : disk[q] # NoCopy
  BY <1>1 DEF Spoil, Strand, Hang
<1>2. job[p].entry \in Usable(p) /\ Current.size > 0 /\ p \notin Holders
  BY <1>1 DEF FlowPeer
<1>3. job[p].entry.size > 0 /\ Reachable(job[p].entry) # {} /\ Unreachable(job[p].entry) = {}
      /\ Reachable(job[p].entry) \subseteq Holders
  BY <1>2, UsableFacts
<1>4. Current # NoEntry /\ Dated
  BY <1>2, CurrentFacts DEF Flow
<1>5. \A q \in Holders : disk[q] # NoCopy
  BY <1>4, HolderBytes DEF Safe
<1> QED
  BY <1>3, <1>5

----------------------------------------------------------------------------
\* The tracker handles a message while the version of the table flows.
LEMMA TableStep ==
  ASSUME SyncTypes, Safe, Flow, SameVersion, harm' = {},
         UNCHANGED <<disk, raw, made, last, writes, clock, port, listed, main, job, deaf>>,
         \A q \in Peers : heard'[q] = heard[q],
         NEW c \in Entries, c = Current', Reachable(Current) \subseteq Reachable(c), Reachable(c) \subseteq Holders,
         Unreachable(c) \subseteq Unreachable(Current),
         \A q \in Peers : \/ down'[q] = down[q]
                          \/ down'[q] = Append(down[q], [entry |-> c, heard |-> made[q]]),
         NEW a \in Addrs, up[a] # <<>>, up'[a] = Tail(up[a]), \A b \in Addrs \ {a} : up'[b] = up[b],
         \A b \in c.peers : b = Address(b[1]) \/ b \in Current.peers \ {a}
  PROVE  Safe' /\ Flow'
<1>1. /\ \A q \in Peers : q \in Holders' <=> q \in Holders
      /\ \A q \in Peers : Address(q)' = Address(q)
  BY SameHolder DEF SameVersion, Address
<1>2. Holders' = Holders
  BY <1>1 DEF Holders
<1>3. \A q \in Peers : Usable(q) \subseteq Usable(q)'
  BY <1>2, UsableStays
<1>4. \A q \in Peers : Tables(q) \subseteq Tables(q)'
  BY <1>3 DEF Tables
<1>5. ASSUME NEW q \in Peers PROVE c \in Usable(q)'
  <2>1. Current \in Usable(q)
    BY DEF Flow
  <2>2. Current.size > 0 /\ q \notin Holders => Reachable(Current) # {} /\ Unreachable(Current) = {}
    BY <2>1, UsableFacts
  <2>3. c.mtime = Current'.mtime /\ c.size = Current'.size /\ c.size = Current.size
    BY DEF SameVersion
  <2>4. Reachable(c)' = Reachable(c) /\ Unreachable(c)' = Unreachable(c)
    BY DEF Reachable, Unreachable, Address
  <2> QED
    BY <1>2, <2>2, <2>3, <2>4 DEF Usable
<1>6. ASSUME NEW q \in Peers PROVE FlowPeer(q)'
  <2>1. FlowPeer(q) /\ down[q] \in Seq(Tables(q))
    BY DEF Flow, FlowPeer
  <2>2. down[q] \in Seq(Tables(q)')
    BY <1>4, <2>1, SeqWider
  <2>3. [entry |-> c, heard |-> made[q]] \in Tables(q)'
    BY <1>5 DEF Tables
  <2>4. (down[q] \in Seq(Tables(q)))' /\ (down[q] # <<>> => down'[q] # <<>>)
    <3> DEFINE new == [entry |-> c, heard |-> made[q]]
    <3> HIDE DEF new
    <3>1. Append(down[q], new) \in Seq(Tables(q)') /\ Append(down[q], new) # <<>>
      BY <2>2, <2>3 DEF new
    <3> QED
      BY <2>2, <3>1 DEF new
  <2>5. disk[q] # NoCopy => (Off(disk[q], Current)' <=> Off(disk[q], Current))
    BY DEF Off, SameVersion
  <2>6. Usable(q) \subseteq Usable(q)'
    BY <1>3
  <2> QED
    BY <1>2, <2>1, <2>4, <2>5, <2>6 DEF FlowPeer, SameVersion
<1>7. Completion' = Completion
  BY DEF Completion, Info, SameVersion
<1>8. ASSUME NEW b \in Addrs PROVE FlowWire(b)'
  <2>1. FlowWire(b) /\ b[1] \in Peers
    BY AddressFacts DEF Flow
  <2>2. Address(b[1])' = Address(b[1])
    BY <1>1, <2>1
  <2>3. CASE b # a
    BY <1>2, <1>7, <2>1, <2>2, <2>3 DEF FlowWire, Closing, SameVersion
  <2>4. CASE b = a
    <3>1. CASE Closing(a)
      <4>1. up[a] = <<Eof>>
        BY <3>1 DEF Closing
      <4>2. up'[a] = <<>>
        BY <4>1
      <4> QED
        BY <2>4, <4>2 DEF FlowWire, Closing
    <3>2. CASE ~Closing(a)
      <4>1. up[a] \in Seq({Completion})
        BY <2>1, <2>4, <3>2 DEF FlowWire
      <4>2. up'[a] \in Seq({Completion})
        BY <4>1
      <4> QED
        BY <1>2, <1>7, <2>1, <2>2, <2>4, <3>2, <4>2 DEF FlowWire, SameVersion
    <3> QED
      BY <3>1, <3>2
  <2> QED
    BY <2>3, <2>4
<1>9. Told' /\ Dated' /\ listed' = Peers
  BY DEF Flow, Told, Dated, SameVersion, Stamp, clock
<1>10. Flow'
  BY <1>5, <1>6, <1>8, <1>9 DEF Flow
<1>11. \A b \in Current'.peers : b # Address(b[1])' => up'[b] # <<>>
  <2> SUFFICES ASSUME NEW b \in c.peers, b # Address(b[1])' PROVE up'[b] # <<>>
    OBVIOUS
  <2>1. b \in Addrs /\ b[1] \in Peers
    BY AddressFacts DEF Entries, Entry
  <2>2. b # Address(b[1])
    BY <1>1, <2>1
  <2>3. b \in Current.peers \ {a}
    BY <2>2
  <2> QED
    BY <2>1, <2>2, <2>3 DEF Safe
<1>12. Safe'
  BY <1>11 DEF Safe, SameVersion, Genuine, Stamp, clock
<1> QED
  BY <1>10, <1>12

\* The first message of a connection whose queue is known.
LEMMA ClosingHead ==
  ASSUME NEW a \in Addrs, up[a] # <<>>, Closing(a)
  PROVE  up[a] = <<Eof>> /\ Head(up[a]).type = "EOF" /\ Tail(up[a]) = <<>> /\ a # Address(a[1])
<1>1. up[a] = <<Eof>> /\ a # Address(a[1])
  BY DEF Closing
<1>2. Eof.type = "EOF"
  BY DEF Eof, Message
<1> QED
  BY <1>1, <1>2

LEMMA UpTailed ==
  ASSUME SyncTypes, NEW a \in Addrs, Handle(a)
  PROVE  up[a] # <<>> /\ up'[a] = Tail(up[a]) /\ \A b \in Addrs \ {a} : up'[b] = up[b]
<1>1. up \in [Addrs -> Seq(Messages)]
  BY DEF SyncTypes, WireTypes, UpTypes
<1>2. up' = [up EXCEPT ![a] = Tail(@)] /\ up[a] # <<>>
  BY DEF Handle, HandleRegister, HandleUpdate, HandleEof
<1> QED
  BY <1>1, <1>2

\* A holder that went away: nobody can reach it any more.
LEMMA EofEntry ==
  ASSUME SyncTypes, NEW a \in Addrs, HandleEof(a), a # Address(a[1])
  PROVE  /\ Current' \in Entries /\ SameVersion /\ Current'.peers = Current.peers \ {a}
         /\ Reachable(Current)' = Reachable(Current)
<1>1. PlainTable(table)
  BY DEF SyncTypes, WireTypes
<1>2. PlainTable(table') /\ EntryOf(table') = EntryRemovePeer(EntryOf(table), a)
  BY <1>1, PlainRemoved DEF HandleEof
<1>3. Current' \in Entries /\ Current' = EntryRemovePeer(Current, a)
  BY <1>2 DEF Current, PlainTable
<1>4. Current'.mtime = Current.mtime /\ Current'.size = Current.size /\ Current'.peers = Current.peers \ {a}
  BY <1>3 DEF EntryRemovePeer, WithPeers
<1>5. Current' = NoEntry <=> Current = NoEntry
  BY <1>3, <1>4, CurrentFacts, NoEntryFacts, EntryFacts
<1>6. \A q \in Peers : Address(q) # a /\ Address(q)' = Address(q)
  BY AddressOf, CountFacts DEF HandleEof, Address
<1> QED
  BY <1>3, <1>4, <1>5, <1>6 DEF SameVersion, Reachable

LEMMA FlowEof ==
  ASSUME SyncTypes, Safe, Flow, NEW a \in Addrs, HandleEof(a)
  PROVE  Safe' /\ Flow'
<1>1. up[a] # <<>> /\ up'[a] = Tail(up[a]) /\ \A b \in Addrs \ {a} : up'[b] = up[b]
  BY UpTailed DEF Handle
<1>2. UNCHANGED <<disk, raw, made, last, writes, clock, port, listed, main, job, deaf, heard, down, harm>>
  BY DEF HandleEof, disks
<1>3. a # Address(a[1])
  <2>1. Closing(a)
    <3> SUFFICES ASSUME ~Closing(a) PROVE FALSE
      OBVIOUS
    <3>1. up[a] \in Seq({Completion})
      BY DEF Flow, FlowWire
    <3>2. Head(up[a]) = Completion
      BY <1>1, <3>1
    <3>3. Completion.type = "FILE_UPDATE"
      BY DEF Completion, Message
    <3> QED
      BY <3>2, <3>3 DEF HandleEof
  <2> QED
    BY <1>1, <2>1, ClosingHead
<1>4. Current' \in Entries /\ SameVersion /\ Current'.peers = Current.peers \ {a}
  BY <1>3, EofEntry
<1>5. PICK c \in Entries : c = Current'
  BY <1>4
<1>6. Reachable(c) = Reachable(Current)
  <2>1. \A q \in Peers : Address(q) # a
    BY <1>3, AddressOf, CountFacts
  <2> QED
    BY <1>4, <1>5, <2>1 DEF Reachable
<1>7. Reachable(Current) \subseteq Holders
  <2>1. \A q \in Peers : Current \in Usable(q)
    BY DEF Flow
  <2> QED
    BY <2>1 DEF Usable, Reachable
<1>8. harm' = {}
  BY <1>2 DEF Safe
<1>9. (\A b \in c.peers : b \in Current.peers \ {a}) /\ Unreachable(c) \subseteq Unreachable(Current)
  BY <1>4, <1>5 DEF Unreachable
<1> QED
  BY <1>1, <1>2, <1>4, <1>5, <1>6, <1>7, <1>8, <1>9, TableStep

LEMMA FlowUpdate ==
  ASSUME SyncTypes, Safe, Flow, NEW a \in Addrs, HandleUpdate(a)
  PROVE  Safe' /\ Flow'
<1> DEFINE p == a[1]
           e == Head(up[a]).items[1]
<1>1. up[a] # <<>> /\ up'[a] = Tail(up[a]) /\ \A b \in Addrs \ {a} : up'[b] = up[b]
  BY UpTailed DEF Handle
<1>2. UNCHANGED <<disk, raw, made, last, writes, clock, port, listed, main, job, deaf>>
  BY DEF HandleUpdate, disks
<1>3. p \in Peers
  BY AddressFacts
<1>4. ~Closing(a)
  BY <1>1, ClosingHead DEF HandleUpdate
<1>5. a = Address(p) /\ p \in Holders /\ Current # NoEntry /\ up[a] \in Seq({Completion})
  BY <1>4 DEF Flow, FlowWire
<1>6. Head(up[a]) = Completion
  BY <1>1, <1>5
<1>7. e = [action |-> "DOWNLOAD_COMPLETE", file |-> Info(Current)] /\ Head(up[a]).n = 0
  BY <1>6 DEF Completion, Message
<1>8. e.action = "DOWNLOAD_COMPLETE" /\ e.file.size = Current.size
  BY <1>7 DEF Info
<1>9. PlainTable(table') /\ EntryOf(table') = Effect(EntryOf(table), e, a)
  BY Updated DEF SyncTypes, WireTypes
<1> HIDE DEF e, p
<1>10. Current' \in Entries /\ (Current' = Current \/ Current' = Joined(Current, a))
  BY <1>5, <1>8, <1>9 DEF Current, PlainTable, Effect
<1>11. /\ Current'.mtime = Current.mtime /\ Current'.size = Current.size
       /\ Current'.peers = Current.peers \/ Current'.peers = Current.peers \cup {a}
  BY <1>10 DEF Joined, WithPeers
<1>12. SameVersion
  <2>1. Current' # NoEntry
    BY <1>5, <1>11, CurrentFacts, NoEntryFacts
  <2> QED
    BY <1>5, <1>11, <2>1 DEF SameVersion
<1>13. PICK c \in Entries : c = Current'
  BY <1>10
<1>14. Reachable(Current) \subseteq Holders
  <2>1. \A q \in Peers : Current \in Usable(q)
    BY DEF Flow
  <2> QED
    BY <2>1 DEF Usable, Reachable
<1>15. Reachable(Current) \subseteq Reachable(c) /\ Reachable(c) \subseteq Holders
  <2>1. \A q \in Peers : Address(q) = a => q \in Holders
    BY <1>3, <1>5, AddressOf, CountFacts DEF p
  <2> QED
    BY <1>11, <1>13, <1>14, <2>1 DEF Reachable
<1>16. \A q \in Peers : heard'[q] = heard[q] /\ heard[q] = made[q]
  <2>1. heard' = [heard EXCEPT ![p] = IF 0 > heard[p] THEN 0 ELSE heard[p]]
    BY <1>7 DEF HandleUpdate, Hear, p
  <2>2. ~(0 > heard[p]) /\ heard \in [Peers -> Nat]
    BY <1>3, CountFacts DEF SyncTypes, DiskTypes
  <2> QED
    BY <1>3, <2>1, <2>2 DEF Flow, Told
<1>17. ASSUME NEW q \in Peers
       PROVE  down'[q] = down[q] \/ down'[q] = Append(down[q], [entry |-> c, heard |-> made[q]])
  <2>1. down'[q] = down[q] \/ down'[q] = Append(down[q], [entry |-> EntryOf(table'), heard |-> heard'[q]])
    BY DEF HandleUpdate, Broadcast
  <2>2. EntryOf(table') = c /\ heard'[q] = made[q]
    BY <1>13, <1>16 DEF Current
  <2> QED
    BY <2>1, <2>2
<1>18. harm' = {}
  BY <1>8 DEF HandleUpdate, Mistake, Safe, e
<1>19. \A b \in c.peers : b = Address(b[1]) \/ b \in Current.peers \ {a}
  BY <1>5, <1>11, <1>13 DEF p
<1>20. Unreachable(c) \subseteq Unreachable(Current)
  BY <1>5, <1>11, <1>13 DEF p, Unreachable
<1> QED
  BY <1>1, <1>2, <1>12, <1>13, <1>15, <1>16, <1>17, <1>18, <1>19, <1>20, TableStep

LEMMA FlowNoRegister ==
  ASSUME SyncTypes, Flow, NEW a \in Addrs
  PROVE  ~HandleRegister(a)
<1> SUFFICES ASSUME HandleRegister(a) PROVE FALSE
  OBVIOUS
<1>1. up[a] # <<>> /\ Head(up[a]).type = "REGISTER"
  BY DEF HandleRegister
<1>2. ~Closing(a)
  BY <1>1, ClosingHead
<1>3. up[a] \in Seq({Completion})
  BY <1>2 DEF Flow, FlowWire
<1>4. Head(up[a]) = Completion
  BY <1>1, <1>3
<1> QED
  BY <1>1, <1>4 DEF Completion, Message

----------------------------------------------------------------------------
\* The change of p is on its way.
LEMMA PendingObserve ==
  ASSUME SyncTypes, Safe, NEW p \in Peers, NEW kind \in Changes, PendingOf(p, kind),
         NEW q \in Peers, Observe(q)
  PROVE  Safe' /\ PendingOf(p, kind)'
<1> DEFINE e == Head(raw[q])
           deleted == e.action = "FILE_DELETED"
           event == [action |-> e.action, file |-> Info(IF deleted THEN NoCopy ELSE disk[q])]
<1>1. raw[q] # <<>> /\ q = p /\ raw[p] = <<[action |-> kind, n |-> made[p]]>> /\ up[Address(p)] = <<>>
  BY DEF Observe, PendingOf
<1>2. e = [action |-> kind, n |-> made[p]] /\ Tail(raw[p]) = <<>>
  BY <1>1
<1>3. UNCHANGED <<disk, made, last, writes, overlap, now, wrote, down, port, listed, table, heard, main, job, deaf>>
      /\ raw' = [raw EXCEPT ![p] = Tail(@)]
  BY <1>1 DEF Observe, tracker, clock
<1>4. main[p].pc = "idle" /\ ~Marked(p)
  BY DEF PendingOf, Still, Marked
<1>5. (kind = "FILE_DELETED" => disk[p] = NoCopy) /\ (kind # "FILE_DELETED" => disk[p] # NoCopy)
  BY DEF PendingOf
<1>6. /\ up' = [up EXCEPT ![Address(p)] = Append(@, Message("FILE_UPDATE", <<event>>, e.n))]
      /\ UNCHANGED harm
  BY <1>1, <1>2, <1>4, <1>5 DEF Observe, Send
<1>7. Message("FILE_UPDATE", <<event>>, e.n) = Change(p, kind)
  BY <1>1, <1>2, <1>5 DEF Change
<1> HIDE DEF e, deleted, event
<1>8. Address(p) \in Addrs /\ up \in [Addrs -> Seq(Messages)]
  BY AddressOf, CountFacts DEF SyncTypes, WireTypes, UpTypes
<1>9. up'[Address(p)] = <<Change(p, kind)>> /\ \A a \in Addrs \ {Address(p)} : up'[a] = up[a]
  <2>1. up'[Address(p)] = Append(up[Address(p)], Change(p, kind))
    BY <1>6, <1>7, <1>8
  <2> QED
    BY <1>1, <1>6, <1>8, <2>1
<1>10. raw'[p] = <<>> /\ \A r \in Peers \ {p} : raw'[r] = raw[r]
  BY <1>2, <1>3 DEF SyncTypes, DiskTypes
<1>11. /\ Current' = Current /\ Change(p, kind)' = Change(p, kind)
       /\ \A r \in Peers : Address(r)' = Address(r)
  BY <1>3 DEF Current, Change, Address
<1>12. PendingOf(p, kind)'
  <2>1. Still'
    BY <1>3 DEF PendingOf, Still
  <2>2. \A r \in Peers \ {p} : raw'[r] = <<>> /\ heard'[r] = made'[r]
    BY <1>3, <1>10 DEF PendingOf
  <2>3. \A a \in Addrs \ {Address(p)} : up'[a] = <<>>
    BY <1>9 DEF PendingOf
  <2> QED
    BY <1>3, <1>9, <1>10, <1>11, <2>1, <2>2, <2>3 DEF PendingOf, Stamp, Off
<1>13. Safe'
  <2>1. \A b \in Current.peers : b[1] \in Peers /\ b \in Addrs
    BY CurrentFacts, AddressFacts
  <2>2. \A b \in Current.peers : b # Address(b[1]) => b # Address(p)
    BY <2>1, AddressOf, CountFacts
  <2>3. \A b \in Current'.peers : b # Address(b[1])' => up'[b] # <<>>
    BY <1>9, <1>11, <2>1, <2>2 DEF Safe
  <2> QED
    BY <1>3, <1>6, <1>11, <2>3 DEF Safe, Genuine, Stamp
<1> QED
  BY <1>12, <1>13

LEMMA PendingUpdate ==
  ASSUME SyncTypes, SyncTypes', Safe, NEW p \in Peers, NEW kind \in Changes, PendingOf(p, kind),
         NEW a \in Addrs, HandleUpdate(a)
  PROVE  Safe' /\ Flow'
<1> DEFINE e == Head(up[a]).items[1]
<1>1. up[a] # <<>> /\ up'[a] = Tail(up[a]) /\ \A b \in Addrs \ {a} : up'[b] = up[b]
  BY UpTailed DEF Handle
<1>2. UNCHANGED <<disk, raw, made, last, writes, clock, port, listed, main, job, deaf>>
  BY DEF HandleUpdate, disks
<1>3. a = Address(p) /\ a[1] = p /\ \A q \in Peers : Address(q) = a => q = p
  BY <1>1, AddressOf, CountFacts DEF PendingOf
<1>4. up[a] = <<Change(p, kind)>> /\ raw[p] = <<>>
  BY <1>1, <1>3 DEF PendingOf
<1>5. Head(up[a]) = Change(p, kind) /\ up'[a] = <<>>
  BY <1>1, <1>4
<1>6. e = [action |-> kind, file |-> Info(disk[p])] /\ Head(up[a]).n = made[p]
  BY <1>5 DEF Change, Message
<1>7. e.action = kind /\ e.file.mtime = disk[p].mtime /\ e.file.size = disk[p].size
  BY <1>6 DEF Info
<1>8. EntryOf(table') = Effect(EntryOf(table), e, a)
  BY Updated DEF SyncTypes, WireTypes
<1>9. harm' = harm \cup Mistake(a, e)
  BY DEF HandleUpdate
<1> HIDE DEF e
<1>10. \A b \in Addrs \ {a} : up[b] = <<>> /\ up'[b] = <<>>
  BY <1>1, <1>3 DEF PendingOf
<1>11. IF kind = "FILE_DELETED" THEN Current' = NoEntry ELSE Current' = SoleHolder(e.file, FALSE, a)
  BY <1>7, <1>8 DEF Current, Effect, PendingOf, Changes
<1>12. harm' = {}
  <2>1. CASE kind = "FILE_DELETED"
    <3>1. ~\E b \in Current.peers \ {a} : b[1] = a[1]
      <4> SUFFICES ASSUME NEW b \in Current.peers, b # a, b[1] = p PROVE FALSE
        BY <1>3
      <4>1. b \in Addrs /\ b # Address(b[1])
        BY <1>3, CurrentFacts
      <4> QED
        BY <1>10, <4>1 DEF Safe
    <3>2. Mistake(a, e) = {}
      BY <1>7, <2>1, <3>1 DEF Mistake, Current
    <3> QED
      BY <1>9, <3>2 DEF Safe
  <2>2. CASE kind # "FILE_DELETED"
    <3>1. ~(e.file.mtime < Current.mtime)
      <4>1. Current.mtime <= e.file.mtime
        BY <1>7, <2>2 DEF PendingOf
      <4>2. Current.mtime \in Nat /\ e.file.mtime \in Nat
        BY <1>7, CurrentFacts, DiskFacts
      <4> QED
        BY <4>1, <4>2
    <3>2. Mistake(a, e) = {}
      BY <1>7, <2>2, <3>1 DEF Mistake, Current
    <3> QED
      BY <1>9, <3>2 DEF Safe
  <2> QED
    BY <2>1, <2>2
<1>13. \A q \in Peers : heard'[q] = made[q]
  <2>1. heard' = [heard EXCEPT ![p] = IF made[p] > heard[p] THEN made[p] ELSE heard[p]]
    BY <1>3, <1>6 DEF HandleUpdate, Hear
  <2>2. heard \in [Peers -> Nat] /\ heard[p] \in Nat /\ made[p] \in Nat /\ heard[p] <= made[p]
    BY CountFacts DEF SyncTypes, DiskTypes
  <2>3. heard'[p] = made[p]
    BY <2>1, <2>2
  <2>4. \A q \in Peers \ {p} : heard'[q] = heard[q]
    BY <2>1, <2>2
  <2> QED
    BY <2>3, <2>4 DEF PendingOf
<1>14. /\ kind = "FILE_DELETED" => Current' = NoEntry /\ Current'.mtime = 0 /\ Current'.size = 0
                                   /\ Current'.peers = {} /\ disk[p] = NoCopy
       /\ kind # "FILE_DELETED" => /\ Current'.mtime = disk[p].mtime /\ Current'.size = disk[p].size
                                   /\ Current'.peers = {a} /\ Current' # NoEntry /\ disk[p] # NoCopy
                                   /\ disk[p].version = last /\ last \in 1..writes
                                   /\ wrote[last] = Stamp(disk[p])
  <2>1. CASE kind = "FILE_DELETED"
    BY <1>11, <2>1, NoEntryFacts DEF PendingOf
  <2>2. CASE kind # "FILE_DELETED"
    <3>1. disk[p] # NoCopy /\ disk[p].version = last /\ last \in 1..writes /\ wrote[last] = Stamp(disk[p])
      BY <2>2 DEF PendingOf
    <3>2. Current'.mtime = disk[p].mtime /\ Current'.size = disk[p].size /\ Current'.peers = {a}
      BY <1>7, <1>11, <2>2 DEF SoleHolder
    <3> QED
      BY <2>2, <3>1, <3>2, NoEntryFacts
  <2> QED
    BY <2>1, <2>2
<1>15. p \in Holders'
  <2>1. CASE kind = "FILE_DELETED"
    BY <1>2, <1>14, <2>1 DEF Holders
  <2>2. CASE kind # "FILE_DELETED"
    <3>1. disk[p] = [mtime |-> Current'.mtime, size |-> Current'.size, version |-> last]
      BY <1>14, <2>2, DiskFacts
    <3> QED
      BY <1>2, <1>14, <2>2, <3>1 DEF Holders
  <2> QED
    BY <2>1, <2>2
<1>16. PICK c \in Entries : c = Current'
  BY CurrentFacts DEF SyncTypes, WireTypes, PlainTable, Current
<1>17. \A q \in Peers : Address(q)' = Address(q)
  BY <1>2 DEF Address
<1>18. Reachable(c)' \subseteq {p} /\ (c.size > 0 => p \in Reachable(c)') /\ Unreachable(c)' = {}
  <2>1. c.peers \subseteq {a} /\ (c.size > 0 => c.peers = {a})
    BY <1>14, <1>16
  <2> QED
    BY <1>3, <1>17, <2>1 DEF Reachable, Unreachable
<1>19. ASSUME NEW q \in Peers PROVE c \in Usable(q)'
  BY <1>15, <1>16, <1>18 DEF Usable
<1>20. ASSUME NEW q \in Peers
       PROVE  /\ down'[q] = IF q = p THEN <<>> ELSE <<[entry |-> c, heard |-> made[q]]>>
              /\ main'[q].pc = "idle" /\ job'[q].phase = "none"
  <2>1. down'[q] = IF q \in {r \in listed : Address(r) # a}
                   THEN Append(down[q], [entry |-> EntryOf(table'), heard |-> heard'[q]]) ELSE down[q]
    BY DEF HandleUpdate, Broadcast
  <2>2. q \in {r \in listed : Address(r) # a} <=> q # p
    BY <1>3 DEF PendingOf
  <2>3. down[q] = <<>> /\ main'[q].pc = "idle" /\ job'[q].phase = "none"
    BY <1>2 DEF PendingOf, Still
  <2>4. EntryOf(table') = c /\ heard'[q] = made[q]
    BY <1>13, <1>16 DEF Current
  <2>5. Append(<<>>, [entry |-> c, heard |-> made[q]]) = <<[entry |-> c, heard |-> made[q]]>>
    OBVIOUS
  <2> QED
    BY <2>1, <2>2, <2>3, <2>4, <2>5
<1>21. ASSUME NEW q \in Peers PROVE FlowPeer(q)'
  <2>1. CASE q = p
    <3>0. down'[q] = <<>>
      BY <1>20, <2>1
    <3>1. (down[q] \in Seq(Tables(q)))'
      BY <3>0
    <3> QED
      BY <1>15, <1>20, <2>1, <3>1 DEF FlowPeer
  <2>2. CASE q # p
    <3>1. [entry |-> c, heard |-> made[q]] \in Tables(q)'
      BY <1>2, <1>19 DEF Tables
    <3>2. (down[q] \in Seq(Tables(q)))' /\ down'[q] # <<>>
      <4> DEFINE new == [entry |-> c, heard |-> made[q]]
      <4>1. down'[q] = <<new>> /\ new \in Tables(q)'
        BY <1>20, <2>2, <3>1
      <4> HIDE DEF new
      <4> QED
        BY <4>1
    <3>3. Current' # NoEntry => Off(disk[q], Current)' \/ q \in Holders'
      <4> SUFFICES ASSUME Current' # NoEntry, ~Off(disk[q], Current)' PROVE q \in Holders'
        OBVIOUS
      <4>1. kind # "FILE_DELETED"
        BY <1>14
      <4>2. disk[q] # NoCopy /\ disk[q].size = 0 /\ disk[p].size = 0
        BY <1>2, <1>14, <2>2, <4>1 DEF PendingOf, Off
      <4> QED
        BY <1>2, <1>14, <4>1, <4>2 DEF Holders
    <3> QED
      BY <1>20, <3>2, <3>3 DEF FlowPeer
  <2> QED
    BY <2>1, <2>2
<1>22. \A b \in Addrs : FlowWire(b)'
  BY <1>5, <1>10 DEF FlowWire, Closing
<1>23. Told' /\ listed' = Peers
  BY <1>2, <1>4, <1>13 DEF Told, PendingOf
<1>24. Dated'
  BY <1>2, <1>14 DEF Dated, Stamp, clock
<1>25. Flow'
  BY <1>16, <1>19, <1>21, <1>22, <1>23, <1>24 DEF Flow
<1>26. Safe'
  <2>1. Current'.mtime <= now
    BY <1>14, CountFacts DEF Safe
  <2>2. \A b \in Current'.peers : b = Address(b[1])'
    BY <1>3, <1>14, <1>17
  <2> QED
    BY <1>2, <1>12, <2>1, <2>2 DEF Safe, Genuine, Stamp, clock
<1> QED
  BY <1>25, <1>26

LEMMA PendingOthers ==
  ASSUME SyncTypes, NEW p \in Peers, NEW kind \in Changes, PendingOf(p, kind)
  PROVE  /\ \A a \in Addrs : ~HandleRegister(a) /\ ~HandleEof(a)
         /\ \A q \in Peers : ~MainThread(q) /\ ~Download(q)
<1>1. ASSUME NEW a \in Addrs PROVE ~HandleRegister(a) /\ ~HandleEof(a)
  <2>1. up[a] = <<>> \/ up[a] = <<Change(p, kind)>>
    BY DEF PendingOf
  <2>2. Change(p, kind).type = "FILE_UPDATE"
    BY DEF Change, Message
  <2>3. up[a] # <<>> => Head(up[a]).type = "FILE_UPDATE"
    BY <2>1, <2>2
  <2> QED
    BY <2>3 DEF HandleRegister, HandleEof
<1>2. ASSUME NEW q \in Peers PROVE ~MainThread(q) /\ ~Download(q)
  BY DEF PendingOf, Still, MainThread, Download, TakeTable, Drop, Show, Skip, Place,
         Spoil, Strand, Resume, Fetch, Hang
<1> QED
  BY <1>1, <1>2

----------------------------------------------------------------------------
\* p, started again, registers a version that all have.
LEMMA RegisteringEof ==
  ASSUME SyncTypes, Safe, NEW p \in Peers, RegisteringOf(p), NEW a \in Addrs, HandleEof(a)
  PROVE  Safe' /\ RegisteringOf(p)'
<1>1. up[a] # <<>> /\ up'[a] = Tail(up[a]) /\ \A b \in Addrs \ {a} : up'[b] = up[b]
  BY UpTailed DEF Handle
<1>2. UNCHANGED <<disk, raw, made, last, writes, clock, port, listed, main, job, deaf, heard, down, harm>>
  BY DEF HandleEof, disks
<1>3. a # Address(p)
  <2> SUFFICES ASSUME a = Address(p) PROVE FALSE
    OBVIOUS
  <2>1. up[a] = <<Registration(p)>>
    BY DEF RegisteringOf
  <2>2. Registration(p).type = "REGISTER"
    BY DEF Registration, Message
  <2>3. Head(up[a]) = Registration(p)
    BY <2>1
  <2> QED
    BY <2>2, <2>3 DEF HandleEof
<1>4. a # Address(a[1]) /\ Tail(up[a]) = <<>>
  BY <1>1, <1>3, ClosingHead DEF RegisteringOf
<1>5. SameVersion /\ Current'.peers = Current.peers \ {a}
  BY <1>4, EofEntry
<1>6. Holders' = Peers
  <2>1. \A q \in Peers : q \in Holders' <=> q \in Holders
    BY <1>2, <1>5, SameHolder DEF SameVersion
  <2> QED
    BY <2>1 DEF RegisteringOf, Holders
<1>7. Still' /\ Told' /\ Dated' /\ listed' = Peers \ {p}
  BY <1>2, <1>5 DEF RegisteringOf, Still, Told, Dated, SameVersion, Stamp, clock
<1>8. \A q \in Peers : Address(q)' = Address(q)
  BY <1>2 DEF Address
<1>9. Address(p) \in Addrs /\ Registration(p)' = Registration(p)
  BY <1>2, AddressOf, CountFacts DEF Registration
<1>10. up'[Address(p)] = <<Registration(p)>>
  BY <1>1, <1>3, <1>9 DEF RegisteringOf
<1>11. ASSUME NEW b \in Addrs, b # Address(p) PROVE Closing(b)'
  <2>1. CASE b = a
    BY <1>1, <1>4, <2>1 DEF Closing
  <2>2. CASE b # a
    <3>1. Closing(b) /\ up'[b] = up[b] /\ b[1] \in Peers
      BY <1>1, <1>11, <2>2, AddressFacts DEF RegisteringOf
    <3>2. Address(b[1])' = Address(b[1])
      BY <1>8, <3>1
    <3> QED
      BY <3>1, <3>2 DEF Closing
  <2> QED
    BY <2>1, <2>2
<1>12. RegisteringOf(p)'
  BY <1>6, <1>7, <1>8, <1>9, <1>10, <1>11 DEF RegisteringOf
<1>13. \A b \in Current'.peers : b # Address(b[1])' => up'[b] # <<>>
  <2> SUFFICES ASSUME NEW b \in Current.peers, b # a, b # Address(b[1])' PROVE up'[b] # <<>>
    BY <1>5
  <2>1. b \in Addrs /\ b[1] \in Peers
    BY CurrentFacts, AddressFacts
  <2> QED
    BY <1>1, <1>8, <2>1 DEF Safe
<1>14. Safe'
  BY <1>2, <1>5, <1>13 DEF Safe, SameVersion, Genuine, Stamp, clock
<1> QED
  BY <1>12, <1>14

LEMMA RegisteringRegister ==
  ASSUME SyncTypes, SyncTypes', Safe, NEW p \in Peers, RegisteringOf(p), NEW a \in Addrs, HandleRegister(a)
  PROVE  Safe' /\ Flow'
<1> DEFINE items == Head(up[a]).items
<1>1. up[a] # <<>> /\ up'[a] = Tail(up[a]) /\ \A b \in Addrs \ {a} : up'[b] = up[b]
  BY UpTailed DEF Handle
<1>2. UNCHANGED <<disk, raw, made, last, writes, clock, port, main, job, deaf, harm>>
  BY DEF HandleRegister, disks
<1>3. a = Address(p)
  BY <1>1, ClosingHead DEF RegisteringOf, HandleRegister
<1>4. a[1] = p /\ \A q \in Peers : Address(q) = a => q = p
  BY <1>3, AddressOf, CountFacts
<1>5. up[a] = <<Registration(p)>>
  BY <1>3 DEF RegisteringOf
<1>6. Head(up[a]) = Registration(p) /\ up'[a] = <<>>
  BY <1>1, <1>5
<1>7. items = (IF disk[p] = NoCopy THEN <<>> ELSE <<Info(disk[p])>>) /\ Head(up[a]).n = made[p]
  BY <1>6 DEF Registration, Message
<1>8. EntryOf(table') = RegisterEffect(EntryOf(table), items, a)
  BY Registers DEF SyncTypes, WireTypes
<1>9. p \in Holders /\ Dated
  BY DEF RegisteringOf
<1>10. disk[p] = NoCopy <=> Current = NoEntry
  BY <1>9, HolderBytes DEF Holders, Safe
<1> HIDE DEF items
<1>11. /\ Current'.size = Current.size /\ (Current.size # 0 => Current'.mtime = Current.mtime)
       /\ (Current' = NoEntry <=> Current = NoEntry)
       /\ Current'.mtime <= now
       /\ Current'.peers \subseteq Current.peers \cup {a}
  <2>0. Current.mtime <= now /\ disk[p].mtime <= now
    BY DEF Safe
  <2>1. CASE Current = NoEntry
    <3>1. items = <<>>
      BY <1>7, <1>10, <2>1
    <3>2. Current' = Current
      BY <1>8, <3>1 DEF RegisterEffect, Current
    <3> QED
      BY <2>0, <3>2
  <2>2. CASE Current # NoEntry
    <3> DEFINE f == Info(disk[p])
               e == [action |-> "DOWNLOAD_COMPLETE", file |-> f]
    <3>1. items = <<f>>
      BY <1>7, <1>10, <2>2
    <3>2. f.mtime = disk[p].mtime /\ f.size = disk[p].size
      BY DEF Info
    <3>3. disk[p].size = Current.size /\ disk[p] # NoCopy
      BY <1>9, <2>2, HolderBytes DEF Safe
    <3>4. e.action = "DOWNLOAD_COMPLETE" /\ e.file = f
      OBVIOUS
    <3>5. items # <<>> /\ items[1] = f
      BY <3>1
    <3>6. disk[p].mtime \in Nat /\ disk[p].mtime > 0 /\ Current.mtime \in Nat /\ Current.mtime > 0
      BY <2>2, <3>3, DiskFacts, CurrentFacts
    <3> HIDE DEF f
    <3>7. \/ Current.mtime < f.mtime /\ Current' = SoleHolder(f, FALSE, a)
          \/ Current' = Current
          \/ Current' = Effect(Current, e, a)
      BY <1>8, <2>2, <3>2, <3>5, <3>6 DEF RegisterEffect, Current
    <3> HIDE DEF e
    <3>8. CASE Current.mtime < f.mtime /\ Current' = SoleHolder(f, FALSE, a)
      <4>1. Current'.mtime = disk[p].mtime /\ Current'.size = Current.size /\ Current'.peers = {a}
        BY <3>2, <3>3, <3>8 DEF SoleHolder
      <4>2. Current.size = 0
        <5> SUFFICES ASSUME Current.size # 0 PROVE FALSE
          OBVIOUS
        <5>1. disk[p].mtime = Current.mtime
          BY <1>9, <2>2 DEF Holders
        <5> QED
          BY <3>2, <3>6, <3>8, <5>1
      <4>3. Current' # NoEntry
        BY <3>6, <4>1, NoEntryFacts
      <4> QED
        BY <2>0, <2>2, <4>1, <4>2, <4>3
    <3>9. CASE Current' = Current
      BY <2>0, <3>9
    <3>10. CASE Current' = Effect(Current, e, a)
      <4>1. Current' = Current \/ Current' = Joined(Current, a)
        BY <3>4, <3>10 DEF Effect
      <4>2. Current'.mtime = Current.mtime /\ Current'.size = Current.size
            /\ Current'.peers \subseteq Current.peers \cup {a}
        BY <4>1 DEF Joined, WithPeers
      <4>3. Current' # NoEntry
        BY <3>6, <4>2, NoEntryFacts
      <4> QED
        BY <2>0, <2>2, <4>2, <4>3
    <3> QED
      BY <3>7, <3>8, <3>9, <3>10
  <2> QED
    BY <2>1, <2>2
<1>12. Holders' = Peers
  <2>1. \A q \in Peers : q \in Holders' <=> q \in Holders
    BY <1>2, <1>11, SameHolder
  <2> QED
    BY <2>1 DEF RegisteringOf, Holders
<1>13. \A q \in Peers : heard'[q] = made[q]
  <2>1. heard' = [heard EXCEPT ![p] = IF made[p] > heard[p] THEN made[p] ELSE heard[p]]
    BY <1>4, <1>7 DEF HandleRegister, Hear
  <2>2. heard \in [Peers -> Nat] /\ \A q \in Peers : heard[q] = made[q]
    BY DEF SyncTypes, DiskTypes, RegisteringOf, Told
  <2> QED
    BY <2>1, <2>2
<1>14. PICK c \in Entries : c = Current'
  BY DEF SyncTypes, WireTypes, PlainTable, Current
<1>15. \A q \in Peers : Address(q)' = Address(q)
  BY <1>2 DEF Address
<1>16. ASSUME NEW q \in Peers PROVE c \in Usable(q)'
  BY <1>12, <1>14 DEF Usable, Reachable
<1>17. listed' = Peers
  BY <1>3, <1>4 DEF HandleRegister, RegisteringOf
<1>18. ASSUME NEW q \in Peers
       PROVE  /\ down'[q] = <<[entry |-> c, heard |-> made[q]]>>
              /\ main'[q].pc = "idle" /\ job'[q].phase = "none"
  <2>1. down'[q] = Append(down[q], [entry |-> EntryOf(table'), heard |-> heard'[q]])
    BY <1>17 DEF HandleRegister, Broadcast
  <2>2. down[q] = <<>> /\ main'[q].pc = "idle" /\ job'[q].phase = "none"
    BY <1>2 DEF RegisteringOf, Still
  <2>3. EntryOf(table') = c /\ heard'[q] = made[q]
    BY <1>13, <1>14 DEF Current
  <2>4. Append(<<>>, [entry |-> c, heard |-> made[q]]) = <<[entry |-> c, heard |-> made[q]]>>
    OBVIOUS
  <2> QED
    BY <2>1, <2>2, <2>3, <2>4
<1>19. ASSUME NEW q \in Peers PROVE FlowPeer(q)'
  <2>1. [entry |-> c, heard |-> made[q]] \in Tables(q)'
    BY <1>2, <1>16 DEF Tables
  <2>2. (down[q] \in Seq(Tables(q)))'
    <3> DEFINE new == [entry |-> c, heard |-> made[q]]
    <3>1. down'[q] = <<new>> /\ new \in Tables(q)'
      BY <1>18, <2>1
    <3> HIDE DEF new
    <3> QED
      BY <3>1
  <2> QED
    BY <1>12, <1>18, <2>2 DEF FlowPeer
<1>20. ASSUME NEW b \in Addrs PROVE FlowWire(b)'
  <2>1. CASE b = a
    BY <1>6, <2>1 DEF FlowWire, Closing
  <2>2. CASE b # a
    <3>1. Closing(b) /\ up'[b] = up[b] /\ b[1] \in Peers
      BY <1>1, <1>3, <2>2, AddressFacts DEF RegisteringOf
    <3>2. Address(b[1])' = Address(b[1])
      BY <1>15, <3>1
    <3> QED
      BY <3>1, <3>2 DEF FlowWire, Closing
  <2> QED
    BY <2>1, <2>2
<1>21. Told' /\ Dated'
  <2>1. Current'.size > 0 => Current.size # 0 /\ Current.size > 0
    BY <1>11, CurrentFacts
  <2> QED
    BY <1>2, <1>9, <1>11, <1>13, <2>1 DEF RegisteringOf, Told, Dated, Stamp, clock
<1>22. Flow'
  BY <1>14, <1>16, <1>17, <1>19, <1>20, <1>21 DEF Flow
<1>23. \A b \in Current'.peers : b # Address(b[1])' => up'[b] # <<>>
  <2> SUFFICES ASSUME NEW b \in Current.peers, b # a, b # Address(b[1])' PROVE up'[b] # <<>>
    BY <1>3, <1>4, <1>11, <1>15
  <2>1. b \in Addrs /\ b[1] \in Peers
    BY CurrentFacts, AddressFacts
  <2> QED
    BY <1>1, <1>15, <2>1 DEF Safe
<1>24. Safe'
  BY <1>2, <1>11, <1>23 DEF Safe, Genuine, Stamp, clock
<1> QED
  BY <1>22, <1>24

LEMMA RegisteringOthers ==
  ASSUME SyncTypes, NEW p \in Peers, RegisteringOf(p)
  PROVE  /\ \A a \in Addrs : ~HandleUpdate(a)
         /\ \A q \in Peers : ~Observe(q) /\ ~MainThread(q) /\ ~Download(q)
<1>1. ASSUME NEW a \in Addrs PROVE ~HandleUpdate(a)
  <2>1. up[a] # <<>> => Head(up[a]).type \in {"REGISTER", "EOF"}
    <3>1. CASE a = Address(p)
      <4>1. up[a] = <<Registration(p)>>
        BY <3>1 DEF RegisteringOf
      <4>2. Head(up[a]) = Registration(p)
        BY <4>1
      <4> QED
        BY <4>2 DEF Registration, Message
    <3>2. CASE a # Address(p)
      BY <3>2, ClosingHead DEF RegisteringOf
    <3> QED
      BY <3>1, <3>2
  <2> QED
    BY <2>1 DEF HandleUpdate
<1>2. ASSUME NEW q \in Peers PROVE ~Observe(q) /\ ~MainThread(q) /\ ~Download(q)
  <2>1. raw[q] = <<>> /\ down[q] = <<>> /\ main[q].pc = "idle" /\ job[q].phase = "none"
    BY DEF RegisteringOf, Still, Told
  <2> QED
    BY <2>1 DEF Observe, MainThread, Download, TakeTable, Drop, Show, Skip, Place,
                Spoil, Strand, Resume, Fetch, Hang
<1> QED
  BY <1>1, <1>2

----------------------------------------------------------------------------
\* A turn begins when all have the version of the table and nothing is on its way.
LEMMA TurnChange ==
  ASSUME SyncTypes, Safe, Flow, Still, Holders = Peers, \A a \in Addrs : up[a] = <<>>,
         NEW p \in Peers, NEW copy, NEW kind \in Changes, Changed(p, copy, kind),
         kind = "FILE_MODIFIED" => disk[p] # NoCopy,
         harm' = {}, now' \in Nat, now <= now',
         \A k \in 1..writes : wrote'[k] = wrote[k],
         IF kind = "FILE_DELETED" THEN copy = NoCopy /\ writes' = writes
         ELSE /\ writes' = writes + 1 /\ copy # NoCopy /\ copy.size \in Nat
              /\ copy.mtime = now' /\ copy.version = writes' /\ wrote'[writes'] = Stamp(copy)
              /\ ~Alike(Stamp(copy))
  PROVE  Safe' /\ PendingOf(p, kind)'
<1>1. UNCHANGED <<up, down, port, listed, table, heard, main, job, deaf>>
  BY DEF Changed, network, tracker
<1>2. Told /\ listed = Peers /\ writes \in Nat
  BY CountFacts DEF Flow
<1>3. disk'[p] = copy /\ \A q \in Peers \ {p} : disk'[q] = disk[q]
  BY DEF Changed, SyncTypes, DiskTypes
<1>4. made'[p] = made[p] + 1 /\ \A q \in Peers \ {p} : made'[q] = made[q]
  BY DEF Changed, SyncTypes, DiskTypes
<1>5. raw'[p] = <<[action |-> kind, n |-> made'[p]]>> /\ \A q \in Peers \ {p} : raw'[q] = raw[q]
  <2> DEFINE new == [action |-> kind, n |-> made[p] + 1]
  <2>1. raw' = [raw EXCEPT ![p] = Append(@, new)] /\ raw[p] = <<>>
    BY <1>2 DEF Changed, Told
  <2>2. \E S : raw \in [Peers -> S]
    BY DEF SyncTypes, DiskTypes
  <2> HIDE DEF new
  <2>3. raw'[p] = Append(raw[p], new) /\ \A q \in Peers \ {p} : raw'[q] = raw[q]
    BY <2>1, <2>2
  <2>4. Append(<<>>, new) = <<new>>
    OBVIOUS
  <2> QED
    BY <1>4, <2>1, <2>3, <2>4 DEF new
<1>6. Current' = Current /\ \A q \in Peers : Address(q)' = Address(q)
  BY <1>1 DEF Current, Address
<1>7. Still' /\ last' = copy.version
  BY <1>1 DEF Changed, Still
<1>8. \A q \in Peers \ {p} : raw'[q] = <<>> /\ heard'[q] = made'[q]
  BY <1>1, <1>2, <1>4, <1>5 DEF Told
<1>9. Address(p) \in Addrs
  BY AddressOf, CountFacts
<1>10. IF kind = "FILE_DELETED"
       THEN disk'[p] = NoCopy /\ last' = 0
       ELSE /\ disk'[p] # NoCopy /\ disk'[p].version = last'
            /\ last' \in 1..writes' /\ wrote'[last'] = Stamp(disk'[p])
            /\ Current'.mtime <= disk'[p].mtime
            /\ \A q \in Peers \ {p} :
                 \/ Off(disk'[q], disk'[p])
                 \/ disk'[q] # NoCopy /\ disk'[q].size = 0 /\ disk'[p].size = 0
  <2>1. CASE kind = "FILE_DELETED"
    BY <1>3, <1>7, <2>1 DEF NoCopy
  <2>2. CASE kind # "FILE_DELETED"
    <3>1. /\ writes' = writes + 1 /\ copy # NoCopy /\ copy.size \in Nat
          /\ copy.mtime = now' /\ copy.version = writes' /\ wrote'[writes'] = Stamp(copy)
          /\ ~Alike(Stamp(copy))
      BY <2>2
    <3>2. Current'.mtime <= copy.mtime
      BY <1>6, <3>1, CurrentFacts, CountFacts DEF Safe
    <3>3. ASSUME NEW q \in Peers, q # p, ~Off(disk'[q], copy)
          PROVE  disk'[q] # NoCopy /\ disk'[q].size = 0 /\ copy.size = 0
      <4>1. /\ disk'[q] = disk[q] /\ disk[q].mtime <= now /\ Genuine(disk[q])
            /\ disk[q].mtime \in Nat /\ disk[q].size \in Nat /\ now \in Nat /\ now > 0
        BY <1>3, <3>3, DiskFacts, CountFacts DEF Safe
      <4>2. disk[q].size = copy.size /\ ~(disk[q].mtime < copy.mtime)
        BY <3>3, <4>1 DEF Off
      <4>3. disk[q].mtime = copy.mtime /\ disk[q].mtime > 0
        BY <3>1, <4>1, <4>2
      <4>4. copy.size = 0
        <5> SUFFICES ASSUME copy.size # 0 PROVE FALSE
          OBVIOUS
        <5>1. copy.size > 0 /\ Stamp(copy).size > 0
          BY <3>1 DEF Stamp
        <5>2. disk[q].version \in 1..writes /\ wrote[disk[q].version] = Stamp(copy)
          BY <4>1, <4>2, <4>3, <5>1 DEF Genuine, Stamp
        <5> QED
          BY <3>1, <5>1, <5>2 DEF Alike
      <4> QED
        BY <4>1, <4>2, <4>3, <4>4 DEF NoCopy
    <3>4. last' \in 1..writes'
      BY <1>2, <1>7, <3>1, CountFacts
    <3> QED
      BY <1>3, <1>7, <2>2, <3>1, <3>2, <3>3, <3>4
  <2> QED
    BY <2>1, <2>2
<1>11. kind = "FILE_MODIFIED" => Current' # NoEntry
  BY <1>6 DEF Holders
<1>12. PendingOf(p, kind)'
  <2>1. \A a \in Addrs : up'[a] = <<>>
    BY <1>1
  <2>2. listed' = Peers
    BY <1>1, <1>2
  <2>3. (up[Address(p)])' = <<>>
    BY <1>6, <1>9, <2>1
  <2> QED
    BY <1>5, <1>7, <1>8, <1>10, <1>11, <2>1, <2>2, <2>3 DEF PendingOf
<1>13. Safe'
  <2>1. writes' \in Nat /\ writes <= writes'
    BY <1>2
  <2>2. Current'.mtime <= now'
    BY <1>6, CurrentFacts, CountFacts DEF Safe
  <2>3. ASSUME NEW q \in Peers PROVE disk'[q].mtime <= now' /\ Genuine(disk[q])'
    <3>1. CASE q # p
      <4>1. /\ disk'[q] = disk[q] /\ disk[q].mtime <= now /\ Genuine(disk[q])
            /\ disk[q].mtime \in Nat /\ now \in Nat
        BY <1>3, <3>1, DiskFacts, CountFacts DEF Safe
      <4>2. disk[q].size > 0 => disk[q].version \in 1..writes' /\ wrote'[disk[q].version] = Stamp(disk[q])
        BY <1>2, <2>1, <4>1 DEF Genuine
      <4> QED
        BY <4>1, <4>2 DEF Genuine, Stamp
    <3>2. CASE q = p
      <4>1. CASE kind = "FILE_DELETED"
        BY <1>3, <3>2, <4>1 DEF NoCopy, Genuine
      <4>2. CASE kind # "FILE_DELETED"
        <5>1. writes' \in 1..writes' /\ copy.mtime = now'
          BY <1>2, <4>2, CountFacts
        <5> QED
          BY <1>3, <3>2, <4>2, <5>1 DEF Genuine, Stamp
      <4> QED
        BY <4>1, <4>2
    <3> QED
      BY <3>1, <3>2
  <2>4. \A b \in Current'.peers : b # Address(b[1])' => up'[b] # <<>>
    <3>1. \A b \in Current.peers : b[1] \in Peers
      BY CurrentFacts, AddressFacts
    <3> QED
      BY <1>1, <1>6, <3>1 DEF Safe
  <2> QED
    BY <1>1, <2>2, <2>3, <2>4 DEF Safe
<1> QED
  BY <1>12, <1>13

LEMMA TurnUser ==
  ASSUME SyncTypes, Safe, Flow, Still, Holders = Peers, \A a \in Addrs : up[a] = <<>>, User,
         "alike" \notin harm'
  PROVE  Safe' /\ Pending'
<1>1. PICK p \in Peers : UserDeletes(p) \/ \E size \in Sizes, t \in Times : UserWrites(p, size, t)
  BY DEF User
<1>2. \E kind \in Changes : Safe' /\ PendingOf(p, kind)'
  <2>1. CASE UserDeletes(p)
    <3>1. /\ Changed(p, NoCopy, "FILE_DELETED") /\ UNCHANGED <<writes, wrote, now, harm>>
          /\ "FILE_DELETED" \in Changes
      BY <2>1 DEF UserDeletes, Changes, clock
    <3>2. harm' = {} /\ now' \in Nat /\ now <= now'
      BY <3>1, CountFacts DEF Safe
    <3> QED
      BY <3>1, <3>2, TurnChange
  <2>2. ASSUME NEW size \in Sizes, NEW t \in Times, UserWrites(p, size, t)
        PROVE  \E kind \in Changes : Safe' /\ PendingOf(p, kind)'
    <3> DEFINE kind == IF disk[p] = NoCopy THEN "FILE_CREATED" ELSE "FILE_MODIFIED"
               copy == [mtime |-> t, size |-> size, version |-> writes']
    <3>1. /\ Changed(p, copy, kind) /\ writes' = writes + 1 /\ writes < MaxWrites
          /\ now' = t /\ t \in {now, now + 1}
          /\ wrote' = [wrote EXCEPT ![writes'] = Stamp(copy)]
          /\ harm' = IF Alike(Stamp(copy)) THEN harm \cup {"alike"} ELSE harm
      BY <2>2 DEF UserWrites, InSecond
    <3>2. copy.mtime = now' /\ copy.version = writes' /\ copy # NoCopy /\ copy.size \in Nat
      BY <3>1, CountFacts, StampFacts DEF NoCopy
    <3>3. kind \in Changes /\ kind # "FILE_DELETED" /\ (kind = "FILE_MODIFIED" => disk[p] # NoCopy)
      BY DEF Changes
    <3>4. PICK k \in Changes : k = kind
      BY <3>3
    <3>5. PICK c : c = copy
      OBVIOUS
    <3> HIDE DEF kind, copy
    <3>6. harm' = {} /\ ~Alike(Stamp(c))
      BY <3>1, <3>5 DEF Safe
    <3>7. now' \in Nat /\ now <= now'
      BY <3>1, CountFacts
    <3>8. wrote'[writes'] = Stamp(c) /\ \A j \in 1..writes : wrote'[j] = wrote[j]
      <4>1. wrote \in [1..MaxWrites -> Stamps] /\ writes' \in 1..MaxWrites
        BY <3>1, CountFacts, SyncAssumption DEF SyncTypes, StampTypes
      <4>2. \A j \in 1..writes : j # writes' /\ j \in 1..MaxWrites
        BY <3>1, CountFacts, SyncAssumption
      <4> QED
        BY <3>1, <3>5, <4>1, <4>2
    <3>9. Safe' /\ PendingOf(p, k)'
      BY <3>1, <3>2, <3>3, <3>4, <3>5, <3>6, <3>7, <3>8, TurnChange
    <3> QED
      BY <3>9
  <2> QED
    BY <1>1, <2>1, <2>2
<1> QED
  BY <1>2 DEF Pending

LEMMA TurnRestart ==
  ASSUME SyncTypes, Safe, Flow, Still, Holders = Peers, \A a \in Addrs : up[a] = <<>>,
         \A b \in Current.peers : b = Address(b[1]), NEW p \in Peers, Restart(p)
  PROVE  Safe' /\ RegisteringOf(p)'
<1> DEFINE old == Address(p)
           new == <<p, port[p] + 1>>
<1>1. /\ port[p] < MaxStarts
      /\ port' = [port EXCEPT ![p] = @ + 1]
      /\ up' = [up EXCEPT ![old] = Append(@, Eof), ![new] = <<Registration(p)>>]
      /\ down' = [down EXCEPT ![p] = <<>>]
      /\ listed' = listed \ {p}
      /\ raw' = [raw EXCEPT ![p] = <<>>]
      /\ main' = [main EXCEPT ![p] = Idle]
      /\ job' = [job EXCEPT ![p] = NoJob]
      /\ deaf' = deaf \ {p}
      /\ UNCHANGED <<disk, made, last, writes, now, wrote, table, heard, harm>>
  BY DEF Restart, tracker, clock, Registration, Eof
<1>2. port \in [Peers -> 1..MaxStarts] /\ port[p] \in Nat /\ port[p] + 1 \in 1..MaxStarts
  BY <1>1, CountFacts, SyncAssumption
<1>3. old \in Addrs /\ new \in Addrs /\ old # new /\ old[1] = p /\ old[2] = port[p] /\ new[1] = p /\ new[2] = port[p] + 1
  BY <1>2, AddressOf, AddressFacts
<1>4. Address(p)' = new /\ \A q \in Peers \ {p} : Address(q)' = Address(q)
  BY <1>1, <1>2 DEF Address
<1> HIDE DEF old, new
<1>5. up \in [Addrs -> Seq(Messages)] /\ up[old] = <<>>
  BY <1>3 DEF SyncTypes, WireTypes, UpTypes
<1>6. up'[old] = <<Eof>> /\ up'[new] = <<Registration(p)>> /\ \A a \in Addrs \ {old, new} : up'[a] = <<>>
  <2>1. up'[old] = Append(up[old], Eof)
    BY <1>1, <1>3, <1>5
  <2>2. Append(<<>>, Eof) = <<Eof>>
    OBVIOUS
  <2>3. up'[new] = <<Registration(p)>> /\ \A a \in Addrs \ {old, new} : up'[a] = up[a]
    BY <1>1, <1>3, <1>5
  <2> QED
    BY <1>5, <2>1, <2>2, <2>3
<1>7. Current' = Current /\ Registration(p)' = Registration(p)
  BY <1>1 DEF Current, Registration
<1>8. Holders' = Peers /\ Dated'
  BY <1>1, <1>7 DEF Holders, Flow, Dated, Stamp
<1>9. Still'
  <2> SUFFICES ASSUME NEW q \in Peers
               PROVE  down'[q] = <<>> /\ main'[q].pc = "idle" /\ job'[q].phase = "none"
    BY DEF Still
  <2>1. down[q] = <<>> /\ main[q].pc = "idle" /\ job[q].phase = "none"
    BY DEF Still
  <2>2. \E S, T, U : down \in [Peers -> S] /\ main \in [Peers -> T] /\ job \in [Peers -> U]
    BY DEF SyncTypes, WireTypes, ThreadTypes
  <2>3. down'[q] = <<>>
    BY <1>1, <2>1, <2>2
  <2>4. main'[q].pc = "idle" /\ job'[q].phase = "none"
    BY <1>1, <2>1, <2>2, ThreadFacts
  <2> QED
    BY <2>3, <2>4
<1>10. Told'
  <2>1. \A q \in Peers : raw[q] = <<>> /\ heard[q] = made[q]
    BY DEF Flow, Told
  <2>2. \E S : raw \in [Peers -> S]
    BY DEF SyncTypes, DiskTypes
  <2>3. \A q \in Peers : raw'[q] = <<>>
    BY <1>1, <2>1, <2>2
  <2> QED
    BY <1>1, <2>1, <2>3 DEF Told
<1>11. ASSUME NEW a \in Addrs, a # new PROVE Closing(a)'
  <2>1. CASE a = old
    <3>1. Address(a[1])' = new
      BY <1>3, <1>4, <2>1
    <3> QED
      BY <1>3, <1>6, <2>1, <3>1 DEF Closing, Eof
  <2>2. CASE a # old
    BY <1>6, <1>11, <2>2 DEF Closing
  <2> QED
    BY <2>1, <2>2
<1>12. listed' = Peers \ {p}
  BY <1>1 DEF Flow
<1>13. RegisteringOf(p)'
  <2>1. (up[Address(p)])' = <<Registration(p)>>
    BY <1>4, <1>6
  <2>2. \A a \in Addrs \ {Address(p)'} : Closing(a)'
    BY <1>4, <1>11
  <2> QED
    BY <1>7, <1>8, <1>9, <1>10, <1>12, <2>1, <2>2 DEF RegisteringOf
<1>14. ASSUME NEW b \in Current.peers, b # Address(b[1])' PROVE up'[b] # <<>>
  <2>1. b = Address(b[1]) /\ b[1] \in Peers
    BY CurrentFacts, AddressFacts
  <2>2. b[1] = p
    BY <1>4, <1>14, <2>1
  <2>3. b = old
    BY <2>1, <2>2 DEF old
  <2> QED
    BY <1>6, <2>3
<1>15. Safe'
  BY <1>1, <1>7, <1>14 DEF Safe, Genuine, Stamp
<1> QED
  BY <1>13, <1>15

LEMMA HistoryGrows ==
  ASSUME Next
  PROVE  harm \subseteq harm' /\ (overlap => overlap')
<1>1. CASE User
  BY <1>1 DEF User, UserDeletes, UserWrites, Changed
<1>2. ASSUME NEW a \in Addrs, Handle(a) PROVE harm \subseteq harm' /\ (overlap => overlap')
  BY <1>2 DEF Handle, HandleRegister, HandleUpdate, HandleEof, disks
<1>3. ASSUME NEW p \in Peers, Observe(p) PROVE harm \subseteq harm' /\ (overlap => overlap')
  BY <1>3 DEF Observe
<1>4. ASSUME NEW p \in Peers, MainThread(p) PROVE harm \subseteq harm' /\ (overlap => overlap')
  BY <1>4 DEF MainThread, TakeTable, Drop, Show, Skip, Place, disks
<1>5. ASSUME NEW p \in Peers, Download(p) PROVE harm \subseteq harm' /\ (overlap => overlap')
  BY <1>5 DEF Download, Spoil, Strand, Resume, Fetch, Hang, disks
<1>6. ASSUME NEW p \in Peers, Restart(p) PROVE harm \subseteq harm' /\ (overlap => overlap')
  BY <1>6 DEF Restart
<1> QED
  BY <1>1, <1>2, <1>3, <1>4, <1>5, <1>6 DEF Next

LEMMA NextTurns == SyncTypes /\ TurnInv /\ [Next]_vars => TurnInv'
<1> SUFFICES ASSUME SyncTypes, TurnInv, [Next]_vars, ~overlap', harm' \cap {"again", "alike"} = {}
             PROVE  Safe' /\ (Registering' \/ Pending' \/ Flow')
  BY DEF TurnInv
<1>1. SyncTypes'
  BY NextTypes
<1>2. CASE UNCHANGED vars
  <2>1. ~overlap /\ harm \cap {"again", "alike"} = {}
    BY <1>2 DEF vars, disks
  <2>2. Safe /\ (Registering \/ Pending \/ Flow)
    BY <2>1 DEF TurnInv
  <2>3. /\ Current' = Current /\ Holders' = Holders /\ Completion' = Completion
        /\ UNCHANGED <<disk, raw, made, last, writes, now, wrote, up, down, port, listed, table, heard,
                       main, job, deaf, harm>>
    BY <1>2 DEF vars, disks, clock, network, tracker, Current, Holders, Completion
  <2>4. \A q \in Peers : Usable(q)' = Usable(q) /\ Tables(q)' = Tables(q)
    BY <2>3 DEF Usable, Tables, Reachable, Unreachable, Address
  <2>5. Safe' /\ (Still' <=> Still) /\ (Told' <=> Told) /\ (Dated' <=> Dated)
    BY <2>2, <2>3 DEF Safe, Genuine, Stamp, Still, Told, Dated, Address
  <2>6. CASE Registering
    BY <2>3, <2>5, <2>6 DEF Registering, RegisteringOf, Registration, Address, Closing
  <2>7. CASE Pending
    <3>1. PICK p \in Peers, kind \in Changes : PendingOf(p, kind)
      BY <2>7 DEF Pending
    <3>2. Change(p, kind)' = Change(p, kind) /\ Address(p)' = Address(p)
      BY <2>3 DEF Change, Address
    <3>3. PendingOf(p, kind)'
      BY <2>3, <2>5, <3>1, <3>2 DEF PendingOf, Stamp, Off
    <3> QED
      BY <2>5, <3>3 DEF Pending
  <2>8. CASE Flow
    <3>1. \A q \in Peers : FlowPeer(q)'
      BY <2>3, <2>4, <2>8 DEF Flow, FlowPeer
    <3>2. \A a \in Addrs : FlowWire(a)'
      BY <2>3, <2>8 DEF Flow, FlowWire, Closing, Address
    <3> QED
      BY <2>3, <2>4, <2>5, <2>8, <3>1, <3>2 DEF Flow
  <2> QED
    BY <2>2, <2>5, <2>6, <2>7, <2>8
<1>3. CASE Next
  <2>1. ~overlap /\ harm \cap {"again", "alike"} = {}
    <3>1. harm \subseteq harm' /\ (overlap => overlap')
      BY <1>3, HistoryGrows
    <3> QED
      BY <3>1
  <2>2. Safe /\ (Registering \/ Pending \/ Flow)
    BY <2>1 DEF TurnInv
  <2>3. CASE User \/ \E p \in Peers : Restart(p)
    <3>1. Quiet
      BY <2>3 DEF User, UserDeletes, UserWrites, Changed, Restart
    <3>2. /\ Flow /\ Still /\ Holders = Peers
          /\ \A a \in Addrs : up[a] = <<>>
          /\ \A b \in Current.peers : b = Address(b[1])
      BY <2>2, <3>1, QuietFlow
    <3>3. CASE User
      BY <2>2, <3>2, <3>3, TurnUser
    <3>4. ASSUME NEW p \in Peers, Restart(p) PROVE Safe' /\ Registering'
      <4>1. Safe' /\ RegisteringOf(p)'
        BY <2>2, <3>2, <3>4, TurnRestart
      <4> QED
        BY <4>1 DEF Registering
    <3> QED
      BY <2>3, <3>3, <3>4
  <2>4. CASE (\E a \in Addrs : Handle(a)) \/ \E p \in Peers : Observe(p) \/ MainThread(p) \/ Download(p)
    <3>1. CASE Flow
      <4>1. ASSUME NEW a \in Addrs, Handle(a) PROVE Safe' /\ Flow'
        BY <2>2, <3>1, <4>1, FlowUpdate, FlowEof, FlowNoRegister DEF Handle
      <4>2. ASSUME NEW p \in Peers, MainThread(p) PROVE Safe' /\ Flow'
        BY <2>2, <3>1, <4>2, FlowTakeTable, FlowDrop, FlowIdles, FlowPlace DEF MainThread
      <4>3. ASSUME NEW p \in Peers, Download(p) PROVE Safe' /\ Flow'
        BY <2>2, <3>1, <4>3, FlowResume, FlowFetch, FlowFinds DEF Download
      <4>4. \A p \in Peers : ~Observe(p)
        BY <3>1 DEF Flow, Told, Observe
      <4> QED
        BY <2>4, <4>1, <4>2, <4>3, <4>4
    <3>2. ASSUME NEW p \in Peers, NEW kind \in Changes, PendingOf(p, kind) PROVE Safe' /\ (Pending' \/ Flow')
      <4>1. ASSUME NEW q \in Peers, Observe(q) PROVE Safe' /\ Pending'
        <5>1. Safe' /\ PendingOf(p, kind)'
          BY <2>2, <3>2, <4>1, PendingObserve
        <5> QED
          BY <5>1 DEF Pending
      <4>2. ASSUME NEW a \in Addrs, HandleUpdate(a) PROVE Safe' /\ Flow'
        BY <1>1, <2>2, <3>2, <4>2, PendingUpdate
      <4> QED
        BY <2>4, <3>2, <4>1, <4>2, PendingOthers DEF Handle
    <3>3. ASSUME NEW p \in Peers, RegisteringOf(p) PROVE Safe' /\ (Registering' \/ Flow')
      <4>1. ASSUME NEW a \in Addrs, HandleEof(a) PROVE Safe' /\ Registering'
        <5>1. Safe' /\ RegisteringOf(p)'
          BY <2>2, <3>3, <4>1, RegisteringEof
        <5> QED
          BY <5>1 DEF Registering
      <4>2. ASSUME NEW a \in Addrs, HandleRegister(a) PROVE Safe' /\ Flow'
        BY <1>1, <2>2, <3>3, <4>2, RegisteringRegister
      <4> QED
        BY <2>4, <3>3, <4>1, <4>2, RegisteringOthers DEF Handle
    <3> QED
      BY <2>2, <3>1, <3>2, <3>3 DEF Pending, Registering
  <2> QED
    BY <1>3, <2>3, <2>4 DEF Next
<1> QED
  BY <1>2, <1>3

(***************************************************************************)
(* Users who take turns never lose anything (TurnsAreSafe), with any       *)
(* number of peers, versions and restarts.                                 *)
(***************************************************************************)
THEOREM TurnsCorrect == Spec => []TurnsAreSafe
<1>1. Spec => []SyncTypes
  BY InitTypes, NextTypes, PTL DEF Spec
<1>2. Spec => []TurnInv
  BY <1>1, InitTypes, InitTurns, NextTurns, PTL DEF Spec
<1> QED
  BY <1>1, <1>2, TurnsImply, PTL
----------------------------------------------------------------------------
(***************************************************************************)
(* Whoever overlaps: until harm is done each peer is in line with the      *)
(* table, by itself and whatever the others do.  A version is known by its *)
(* time and its size.                                                      *)
(***************************************************************************)
\* What a message tells of a change of its peer, and of which file.
Kind(m) == CASE m.type = "REGISTER" -> IF m.items = <<>> THEN "FILE_DELETED" ELSE "FILE_CREATED"
             [] m.type = "FILE_UPDATE" -> m.items[1].action
             [] OTHER -> "NONE"
Tells(m) == Kind(m) \in Changes
File(m) == IF m.type = "REGISTER" THEN m.items[1] ELSE m.items[1].file

\* A peer is a holder by its present connection only when that is registered.
Named ==
  \A b \in Current.peers : b[2] <= port[b[1]] /\ (b = Address(b[1]) => b[1] \in listed)

\* What the present connection of q has still to deliver.
Wire(q) == up[Address(q)]

\* A change of q of that kind, the n-th, that the tracker has not handled.
Awaits(q, kind, n) ==
  \/ \E i \in DOMAIN Wire(q) : Wire(q)[i].n = n /\ Kind(Wire(q)[i]) = kind
  \/ \E i \in DOMAIN raw[q] : raw[q][i] = [action |-> kind, n |-> n]

\* The tracker has heard everything from q.
Settled(q) == q \in listed /\ heard[q] = made[q]

\* A connection begins with REGISTER and goes on without; before that is handled the
\* peer does nothing.  What is left of a former connection is old.
Connected(q) ==
  /\ \A i \in DOMAIN Wire(q) : /\ Wire(q)[i].type = "REGISTER" <=> (i = 1 /\ q \notin listed)
                               /\ ~Tells(Wire(q)[i]) => Wire(q)[i].n = 0
  /\ q \notin listed => /\ Wire(q) # <<>> /\ heard[q] <= Wire(q)[1].n
                        /\ down[q] = <<>> /\ main[q].pc = "idle" /\ job[q].phase = "none"
  /\ \A a \in Addrs : a[1] = q /\ a # Address(q) =>
       \A i \in DOMAIN up[a] : up[a][i].n <= IF q \in listed THEN heard[q] ELSE Wire(q)[1].n

\* Changes are told in their order.
Ordered(q) ==
  /\ heard[q] <= made[q] - Len(raw[q])
  /\ \A i \in DOMAIN raw[q] : raw[q][i].n = made[q] - Len(raw[q]) + i
  /\ \A i \in DOMAIN Wire(q) : Tells(Wire(q)[i]) =>
       /\ Wire(q)[i].n <= made[q] - Len(raw[q])
       /\ q \in listed => Wire(q)[i].n > heard[q]
       /\ \A j \in 1..(i - 1) : Tells(Wire(q)[j]) => Wire(q)[j].n < Wire(q)[i].n

\* The last change tells of the file on disk, which has been created since it was deleted.
LastTold(q) ==
  /\ raw[q] # <<>> => (raw[q][Len(raw[q])].action = "FILE_DELETED" <=> disk[q] = NoCopy)
  /\ \A i \in DOMAIN Wire(q) : Tells(Wire(q)[i]) /\ Wire(q)[i].n = made[q] =>
       IF Kind(Wire(q)[i]) = "FILE_DELETED" THEN disk[q] = NoCopy
       ELSE disk[q] # NoCopy /\ File(Wire(q)[i]) = Info(disk[q])
  /\ ~Settled(q) => raw[q] # <<>> \/ \E i \in DOMAIN Wire(q) : Tells(Wire(q)[i]) /\ Wire(q)[i].n = made[q]
  /\ disk[q] # NoCopy =>
       \A n \in Nat : Awaits(q, "FILE_DELETED", n) => \E k \in Nat : k > n /\ Awaits(q, "FILE_CREATED", k)

\* What q is about to act upon is older than its last change: harm is on its way.
Overtaken(q) ==
  \/ job[q].phase = "fetch" /\ job[q].heard < made[q]
  \/ /\ disk[q] # NoCopy
     /\ \/ main[q].pc = "drop" /\ main[q].heard < made[q]
        \/ \E i \in DOMAIN down[q] : down[q][i].entry = NoEntry /\ down[q][i].heard < made[q]

\* A file that is changed is in the table or will be; or harm is on its way.
Known(q) ==
  ~Settled(q) /\ disk[q] # NoCopy =>
    Current # NoEntry \/ Overtaken(q) \/ \E n \in Nat : Awaits(q, "FILE_CREATED", n)

\* What q acts upon is no newer than what the tracker has heard, and older than what
\* q will act upon after it.
Past(q) ==
  /\ \A i \in DOMAIN down[q] : /\ down[q][i].heard <= heard[q]
                              /\ \A j \in 1..i : down[q][j].heard <= down[q][i].heard
  /\ main[q].pc \in {"get", "drop"} => /\ main[q].heard <= heard[q]
                                       /\ \A i \in DOMAIN down[q] : main[q].heard <= down[q][i].heard
  /\ main[q].pc = "drop" => main[q].entry = NoEntry
  /\ job[q].phase = "fetch" => job[q].heard <= heard[q] /\ (disk[q] = NoCopy => job[q].heard < made[q])
  /\ job[q].phase # "hung"

\* What q has made of the tables so far, or is about to, is the version stamped s.
View(q, s) ==
  IF main[q].pc \in {"get", "drop"} /\ main[q].heard = made[q] THEN Stamp(main[q].entry) = s
  ELSE IF job[q].phase = "fetch" THEN Stamp(job[q].entry) = s
  ELSE IF s.mtime = 0 THEN disk[q] = NoCopy
  ELSE disk[q] # NoCopy /\ (Stamp(disk[q]) = s \/ (disk[q].size = 0 /\ s.size = 0))

\* With the version stamped s, q will see whether it needs e.
Follows(q, s, e) ==
  s.mtime = 0 \/ e.mtime = 0 \/ Stamp(e) = s \/ (e.mtime >= s.mtime /\ Address(q) \notin e.peers)

\* The first k tables are older than the last change of q; the others lead from the
\* version stamped s to the present one.
Leads(q, k, s) ==
  /\ \A i \in 1..k : down[q][i].heard < made[q]
  /\ \A i \in (k + 1)..Len(down[q]) : down[q][i].heard = made[q]
  /\ k = Len(down[q]) => Stamp(Current) = s
  /\ k < Len(down[q]) => /\ Follows(q, s, down[q][k + 1].entry)
                         /\ Stamp(down[q][Len(down[q])].entry) = Stamp(Current)
  /\ \A i \in (k + 1)..(Len(down[q]) - 1) : Follows(q, Stamp(down[q][i].entry), down[q][i + 1].entry)

InLine(q) == \E k \in 0..Len(down[q]), s \in Stamps : Leads(q, k, s) /\ View(q, s)

PeerLine(q) ==
  /\ Genuine(disk[q])
  /\ Connected(q) /\ Ordered(q) /\ LastTold(q) /\ Known(q) /\ Past(q)
  /\ Settled(q) => Overtaken(q) \/ InLine(q)

Line == Named /\ \A q \in Peers : PeerLine(q)
LineInv == Unharmed => Line

LEMMA PeerTypes ==
  ASSUME SyncTypes, NEW q \in Peers
  PROVE  /\ raw[q] \in Seq([action : Changes, n : Nat]) /\ Len(raw[q]) \in Nat
         /\ made[q] \in Nat /\ heard[q] \in Nat /\ heard[q] <= made[q]
         /\ Address(q) \in Addrs /\ Address(q)[1] = q
         /\ Wire(q) \in Seq(Messages) /\ Len(Wire(q)) \in Nat
         /\ down[q] \in Seq([entry : Entries, heard : Nat]) /\ Len(down[q]) \in Nat
         /\ main[q] \in Mains /\ job[q] \in Jobs
         /\ main[q].entry \in Entries /\ job[q].entry \in Entries /\ main[q].heard \in Nat /\ job[q].heard \in Nat
         /\ writes \in Nat /\ writes > 0 /\ writes <= MaxWrites
<1>1. raw[q] \in Seq([action : Changes, n : Nat]) /\ made[q] \in Nat /\ heard[q] \in Nat /\ heard[q] <= made[q]
  BY DEF SyncTypes, DiskTypes
<1>2. Address(q) \in Addrs /\ Address(q)[1] = q
  BY AddressOf, CountFacts
<1>3. Wire(q) \in Seq(Messages)
  BY <1>2 DEF SyncTypes, WireTypes, UpTypes, Wire
<1>4. down[q] \in Seq([entry : Entries, heard : Nat])
  BY DEF SyncTypes, WireTypes
<1>5. main[q] \in Mains /\ job[q] \in Jobs
  BY DEF SyncTypes, ThreadTypes, Mains, Jobs
<1>6. main[q].entry \in Entries /\ job[q].entry \in Entries /\ main[q].heard \in Nat /\ job[q].heard \in Nat
  BY <1>5 DEF Mains, Jobs
<1>7. writes \in Nat /\ writes > 0 /\ writes <= MaxWrites
  BY SyncAssumption DEF SyncTypes, DiskTypes
<1>8. Len(raw[q]) \in Nat /\ Len(Wire(q)) \in Nat /\ Len(down[q]) \in Nat
  BY <1>1, <1>3, <1>4
<1> QED
  BY <1>1, <1>2, <1>3, <1>4, <1>5, <1>6, <1>7, <1>8

LEMMA KindFacts ==
  ASSUME NEW m \in Messages
  PROVE  /\ m.n \in Nat
         /\ m.type = "REGISTER" => Tells(m) /\ Kind(m) \in {"FILE_CREATED", "FILE_DELETED"}
                                   /\ (Kind(m) = "FILE_DELETED" <=> m.items = <<>>)
         /\ m.type = "FILE_UPDATE" => Kind(m) = m.items[1].action /\ m.items # <<>> /\ m.items[1] \in Updates
         /\ m.type = "EOF" => Kind(m) = "NONE" /\ ~Tells(m)
<1>1. m.n \in Nat
  BY MessageIs
<1>2. CASE m.type = "FILE_UPDATE"
  <2>1. PICK e \in Updates : m.items = <<e>>
    BY <1>2, MessageIs
  <2>2. m.items # <<>> /\ m.items[1] = e
    BY <2>1
  <2> QED
    BY <1>1, <1>2, <2>2 DEF Kind
<1>3. CASE m.type # "FILE_UPDATE"
  BY <1>1, <1>3, MessageIs DEF Kind, Tells, Changes
<1> QED
  BY <1>2, <1>3

\* With the version of the table a peer has its bytes.
LEMMA ViewBytes ==
  ASSUME SyncTypes, "alike" \notin harm, NEW q \in Peers, Genuine(disk[q]), main[q].pc \notin {"get", "drop"},
         job[q].phase # "fetch", View(q, Stamp(Current))
  PROVE  IF Current = NoEntry THEN disk[q] = NoCopy ELSE SameBytes(disk[q], Current)
<1>1. Stamp(Current).mtime = Current.mtime /\ Stamp(Current).size = Current.size
  BY DEF Stamp
<1>2. CASE Current = NoEntry
  BY <1>1, <1>2, CurrentFacts DEF View
<1>3. CASE Current # NoEntry
  <2>1. Current.mtime \in Nat /\ Current.mtime > 0
    BY <1>3, CurrentFacts
  <2>2. disk[q] # NoCopy /\ (Stamp(disk[q]) = Stamp(Current) \/ (disk[q].size = 0 /\ Current.size = 0))
    BY <1>1, <2>1 DEF View
  <2>3. disk[q].size = Current.size
    BY <2>2 DEF Stamp
  <2>4. disk[q].size \in Nat
    BY DiskFacts
  <2>5. CASE disk[q].size = 0
    BY <1>3, <2>2, <2>3, <2>5 DEF SameBytes
  <2>6. CASE disk[q].size > 0
    <3>1. disk[q].version \in 1..writes /\ wrote[disk[q].version] = Stamp(Current) /\ Current.size > 0
      BY <2>2, <2>3, <2>6 DEF Genuine
    <3>2. Versions(Current) = {disk[q].version}
      BY <3>1, OneVersion
    <3> QED
      BY <1>3, <2>2, <2>3, <3>2 DEF SameBytes
  <2> QED
    BY <2>4, <2>5, <2>6
<1> QED
  BY <1>2, <1>3

\* A peer that has heard all and has nothing to do has the version of the table.
LEMMA AtRest ==
  ASSUME SyncTypes, "alike" \notin harm, NEW q \in Peers, PeerLine(q), Settled(q),
         down[q] = <<>>, main[q].pc \notin {"get", "drop"}, job[q].phase # "fetch"
  PROVE  IF Current = NoEntry THEN disk[q] = NoCopy ELSE SameBytes(disk[q], Current)
<1>1. ~Overtaken(q)
  BY DEF Overtaken
<1>2. PICK k \in 0..Len(down[q]), s \in Stamps : Leads(q, k, s) /\ View(q, s)
  BY <1>1 DEF PeerLine, InLine
<1>3. Len(down[q]) = 0 /\ k = 0
  BY <1>2
<1>4. Stamp(Current) = s
  BY <1>2, <1>3 DEF Leads
<1>5. Genuine(disk[q])
  BY DEF PeerLine
<1> QED
  BY <1>2, <1>4, <1>5, ViewBytes

LEMMA LineHolds ==
  ASSUME SyncTypes, LineInv
  PROVE  HoldersHold
<1> SUFFICES ASSUME Unharmed, NEW q \in Reachable(Current), ~AtWork(q), ~News(q, heard[q])
             PROVE  SameBytes(disk[q], Current)
  BY DEF HoldersHold, Current
<1>1. Line /\ "alike" \notin harm
  BY DEF LineInv, Unharmed
<1>2. q \in Peers /\ Address(q) \in Current.peers /\ Address(q)[1] = q
  BY PeerTypes DEF Reachable
<1>3. q \in listed
  BY <1>1, <1>2 DEF Line, Named
<1>4. heard[q] = made[q]
  BY <1>2, PeerTypes DEF News
<1>5. Settled(q)
  BY <1>3, <1>4 DEF Settled
<1>6. down[q] = <<>> /\ main[q].pc = "idle" /\ job[q].phase \notin {"fetch", "wait"}
  BY DEF AtWork
<1>7. Current # NoEntry
  BY <1>2, CurrentFacts
<1> QED
  BY <1>1, <1>2, <1>5, <1>6, <1>7, AtRest DEF Line

LEMMA LineConverges ==
  ASSUME SyncTypes, LineInv
  PROVE  Converged
<1> SUFFICES ASSUME Unharmed, Quiet PROVE Agree
  BY DEF Converged
<1>1. Line /\ "alike" \notin harm
  BY DEF LineInv, Unharmed
<1>2. ASSUME NEW q \in Peers
      PROVE  IF Current = NoEntry THEN disk[q] = NoCopy ELSE SameBytes(disk[q], Current)
  <2>1. raw[q] = <<>> /\ down[q] = <<>> /\ main[q].pc = "idle" /\ job[q].phase \in {"none", "hung"}
    BY DEF Quiet
  <2>2. Wire(q) = <<>>
    BY PeerTypes DEF Quiet, Wire
  <2>3. PeerLine(q)
    BY <1>1 DEF Line
  <2>4. Settled(q)
    BY <2>1, <2>2, <2>3 DEF PeerLine, LastTold
  <2> QED
    BY <1>1, <2>1, <2>3, <2>4, AtRest DEF Line
<1> QED
  BY <1>2, CurrentFacts DEF Agree, Current

LEMMA InitLine ==
  ASSUME Init, SyncTypes
  PROVE  LineInv
<1>1. PICK there \in BOOLEAN :
        /\ disk = [p \in Peers |-> IF there THEN [mtime |-> 1, size |-> 1, version |-> 1] ELSE NoCopy]
        /\ table = IF there
                   THEN [entry |-> [n \in Names |-> [mtime |-> 1, size |-> 1, dir |-> FALSE,
                                                     peers |-> Peers \X {1},
                                                     numpeers |-> Cardinality(Peers)]],
                         numfiles |-> 1]
                   ELSE EmptyTable
        /\ wrote = [k \in 1..MaxWrites |-> IF there /\ k = 1 THEN [mtime |-> 1, size |-> 1]
                                           ELSE Stamp(NoCopy)]
  BY DEF Init
<1>2. /\ raw = [p \in Peers |-> <<>>]
      /\ up = [a \in Addrs |-> <<>>] /\ down = [p \in Peers |-> <<>>]
      /\ port = [p \in Peers |-> 1] /\ listed = Peers
      /\ main = [p \in Peers |-> Idle] /\ job = [p \in Peers |-> NoJob]
      /\ writes = 1 /\ made = [p \in Peers |-> 0] /\ heard = [p \in Peers |-> 0]
  BY DEF Init
<1>3. /\ Stamp(Current) = (IF there THEN [mtime |-> 1, size |-> 1] ELSE [mtime |-> 0, size |-> 0])
      /\ Current.peers = IF there THEN Peers \X {1} ELSE {}
  <2>1. CASE there
    <3> DEFINE e == [mtime |-> 1, size |-> 1, dir |-> FALSE, peers |-> Peers \X {1},
                     numpeers |-> Cardinality(Peers)]
    <3>1. table.entry = [n \in Names |-> e]
      BY <1>1, <2>1
    <3>2. Present(table) = {1} /\ table.entry[1] = e
      BY <3>1, SyncAssumption DEF Present
    <3>3. Current = e
      BY <3>2 DEF Current, EntryOf
    <3> QED
      BY <2>1, <3>3 DEF Stamp
  <2>2. CASE ~there
    BY <1>1, <2>2, CurrentFacts DEF Current, EntryOf, EmptyTable, Present, Stamp
  <2> QED
    BY <2>1, <2>2
<1>4. there => wrote[1] = [mtime |-> 1, size |-> 1]
  BY <1>1, SyncAssumption
<1>5. \A p \in Peers : disk[p] = IF there THEN [mtime |-> 1, size |-> 1, version |-> 1] ELSE NoCopy
  BY <1>1
<1>6. ASSUME NEW p \in Peers PROVE Genuine(disk[p]) /\ (there => Stamp(disk[p]) = [mtime |-> 1, size |-> 1])
  BY <1>2, <1>4, <1>5 DEF Genuine, Stamp, NoCopy
<1>8. Named
  BY <1>2, <1>3 DEF Named, Address
<1>9. ASSUME NEW q \in Peers PROVE PeerLine(q)
  <2>1. /\ Wire(q) = <<>> /\ down[q] = <<>> /\ raw[q] = <<>> /\ made[q] = 0 /\ heard[q] = 0
        /\ main[q].pc = "idle" /\ job[q].phase = "none" /\ q \in listed
    BY <1>2, PeerTypes DEF Wire, Idle, NoJob
  <2>2. \A a \in Addrs : up[a] = <<>>
    BY <1>2
  <2>3. Settled(q)
    BY <2>1 DEF Settled
  <2>4. Connected(q) /\ Ordered(q) /\ Past(q)
    BY <2>1, <2>2 DEF Connected, Ordered, Past
  <2>5. LastTold(q) /\ Known(q)
    BY <2>1, <2>3 DEF LastTold, Known, Awaits
  <2>6. View(q, Stamp(Current))
    BY <1>3, <1>5, <1>6, <2>1 DEF View, NoCopy
  <2>7. Leads(q, 0, Stamp(Current))
    BY <2>1 DEF Leads
  <2>8. Len(down[q]) = 0 /\ Stamp(Current) \in Stamps
    BY <2>1, CurrentFacts, StampFacts
  <2>9. InLine(q)
    BY <2>6, <2>7, <2>8 DEF InLine
  <2> QED
    BY <1>6, <2>4, <2>5, <2>9 DEF PeerLine
<1> QED
  BY <1>8, <1>9 DEF LineInv, Line

\* The connection may lose what it was to deliver, and nothing else happens to it.
Drains(a) == \A i \in DOMAIN up'[a] : \E j \in DOMAIN up[a] : up'[a][i] = up[a][j]

LEMMA Tailed ==
  ASSUME NEW S, NEW s \in Seq(S), s # <<>>
  PROVE  /\ Tail(s) \in Seq(S) /\ Len(s) \in Nat /\ Len(s) > 0 /\ Len(Tail(s)) = Len(s) - 1
         /\ DOMAIN s = 1..Len(s) /\ DOMAIN Tail(s) = 1..(Len(s) - 1)
         /\ s[1] \in S /\ Head(s) = s[1]
         /\ \A i \in 1..(Len(s) - 1) : i + 1 \in 1..Len(s) /\ Tail(s)[i] = s[i + 1]
<1>1. Len(s) \in Nat /\ Len(s) > 0 /\ Tail(s) \in Seq(S) /\ Len(Tail(s)) = Len(s) - 1
  OBVIOUS
<1>2. \A i \in 1..(Len(s) - 1) : i + 1 \in 1..Len(s) /\ Tail(s)[i] = s[i + 1]
  BY <1>1
<1>3. s[1] \in S /\ Head(s) = s[1]
  BY <1>1
<1> QED
  BY <1>1, <1>2, <1>3

LEMMA Elements ==
  ASSUME NEW S, NEW s \in Seq(S)
  PROVE  Len(s) \in Nat /\ DOMAIN s = 1..Len(s) /\ \A i \in 1..Len(s) : s[i] \in S
  OBVIOUS

LEMMA Appended ==
  ASSUME NEW S, NEW s \in Seq(S), NEW x \in S
  PROVE  /\ Append(s, x) \in Seq(S) /\ Len(s) \in Nat /\ Len(Append(s, x)) = Len(s) + 1
         /\ DOMAIN s = 1..Len(s) /\ DOMAIN Append(s, x) = 1..(Len(s) + 1)
         /\ \A i \in 1..Len(s) : Append(s, x)[i] = s[i]
         /\ Append(s, x)[Len(s) + 1] = x /\ Append(s, x) # <<>>
<1>1. Append(s, x) \in Seq(S) /\ Len(s) \in Nat /\ Len(Append(s, x)) = Len(s) + 1
  OBVIOUS
<1>2. \A i \in 1..Len(s) : Append(s, x)[i] = s[i]
  BY <1>1
<1>3. Append(s, x)[Len(s) + 1] = x /\ Append(s, x) # <<>>
  BY <1>1
<1> QED
  BY <1>1, <1>2, <1>3

\* What happens elsewhere leaves a peer in line: the table keeps its version for q, or
\* q is told of the one that follows.
LEMMA LineOthers ==
  ASSUME SyncTypes, NEW q \in Peers, PeerLine(q),
         writes' \in Nat, writes <= writes', \A k \in 1..writes : wrote'[k] = wrote[k],
         disk'[q] = disk[q], raw'[q] = raw[q], made'[q] = made[q], main'[q] = main[q], job'[q] = job[q],
         Address(q)' = Address(q), up'[Address(q)] = up[Address(q)], q \in listed' <=> q \in listed,
         \A a \in Addrs \ {Address(q)} : a[1] = q => Drains(a),
         heard'[q] \in Nat,
         IF q \in listed THEN heard'[q] = heard[q] ELSE heard[q] <= heard'[q] /\ heard'[q] <= Wire(q)[1].n,
         NEW c \in Entries, c = Current',
         \/ down'[q] = down[q] /\ (q \in listed => Stamp(c) = Stamp(Current))
         \/ /\ q \in listed /\ down'[q] = Append(down[q], [entry |-> c, heard |-> heard[q]])
            /\ Follows(q, Stamp(Current), c)
  PROVE  PeerLine(q)'
<1>0. /\ raw[q] \in Seq([action : Changes, n : Nat]) /\ Len(raw[q]) \in Nat
      /\ made[q] \in Nat /\ heard[q] \in Nat /\ heard[q] <= made[q]
      /\ Address(q) \in Addrs /\ Address(q)[1] = q
      /\ Wire(q) \in Seq(Messages) /\ Len(Wire(q)) \in Nat
      /\ down[q] \in Seq([entry : Entries, heard : Nat]) /\ Len(down[q]) \in Nat
      /\ main[q].heard \in Nat /\ job[q].heard \in Nat /\ writes \in Nat
  BY PeerTypes
<1>1. Wire(q)' = Wire(q)
  BY DEF Wire
<1>2. Settled(q)' <=> Settled(q)
  BY DEF Settled
<1>3. /\ Genuine(disk[q]) /\ Connected(q) /\ Ordered(q) /\ LastTold(q) /\ Known(q) /\ Past(q)
      /\ (Settled(q) => Overtaken(q) \/ InLine(q))
  BY DEF PeerLine
<1>4. \A i \in DOMAIN Wire(q) : Wire(q)[i] \in Messages /\ Wire(q)[i].n \in Nat
  <2>1. \A i \in DOMAIN Wire(q) : Wire(q)[i] \in Messages
    BY <1>0
  <2> QED
    BY <2>1, KindFacts
<1>5. q \notin listed => /\ 1 \in DOMAIN Wire(q) /\ Wire(q)[1].type = "REGISTER" /\ Tells(Wire(q)[1])
                         /\ Kind(Wire(q)[1]) \in {"FILE_CREATED", "FILE_DELETED"}
  <2> SUFFICES ASSUME q \notin listed
               PROVE  /\ 1 \in DOMAIN Wire(q) /\ Wire(q)[1].type = "REGISTER" /\ Tells(Wire(q)[1])
                      /\ Kind(Wire(q)[1]) \in {"FILE_CREATED", "FILE_DELETED"}
    OBVIOUS
  <2>1. 1 \in DOMAIN Wire(q)
    BY <1>0, <1>3 DEF Connected
  <2>2. Wire(q)[1].type = "REGISTER"
    BY <1>3, <2>1 DEF Connected
  <2> QED
    BY <1>4, <2>1, <2>2, KindFacts
<1>6. Connected(q)'
  <2>1. \A i \in DOMAIN Wire(q)' : /\ Wire(q)'[i].type = "REGISTER" <=> (i = 1 /\ q \notin listed')
                                   /\ ~Tells(Wire(q)'[i]) => Wire(q)'[i].n = 0
    BY <1>1, <1>3 DEF Connected
  <2>2. q \notin listed' => /\ Wire(q)' # <<>> /\ heard'[q] <= Wire(q)'[1].n
                            /\ down'[q] = <<>> /\ main'[q].pc = "idle" /\ job'[q].phase = "none"
    BY <1>1, <1>3 DEF Connected
  <2>3. ASSUME NEW a \in Addrs, a[1] = q, a # Address(q), NEW i \in DOMAIN up'[a]
        PROVE  up'[a][i].n <= IF q \in listed' THEN heard'[q] ELSE Wire(q)'[1].n
    <3>1. PICK j \in DOMAIN up[a] : up'[a][i] = up[a][j]
      BY <2>3 DEF Drains
    <3>2. up[a][j].n <= IF q \in listed THEN heard[q] ELSE Wire(q)[1].n
      BY <1>3, <2>3 DEF Connected
    <3> QED
      BY <1>1, <3>1, <3>2
  <2> QED
    BY <1>1, <2>1, <2>2, <2>3 DEF Connected, Tells, Kind
<1>7. Ordered(q)'
  <2>1. heard'[q] <= made[q] - Len(raw[q])
    <3>1. CASE q \in listed
      BY <1>3, <3>1 DEF Ordered
    <3>2. CASE q \notin listed
      <4>1. Wire(q)[1].n <= made[q] - Len(raw[q]) /\ Wire(q)[1].n \in Nat
        BY <1>3, <1>4, <1>5, <3>2 DEF Ordered
      <4> QED
        BY <1>0, <3>2, <4>1
    <3> QED
      BY <3>1, <3>2
  <2> QED
    BY <1>1, <1>3, <2>1 DEF Ordered, Tells, Kind
<1>8. \A kind, n : Awaits(q, kind, n)' <=> Awaits(q, kind, n)
  BY <1>1 DEF Awaits, Kind
<1>9. LastTold(q)'
  BY <1>1, <1>2, <1>3, <1>8 DEF LastTold, Tells, Kind, File
<1>14. Genuine(disk[q])'
  <2>1. \A k \in 1..writes : k \in 1..writes'
    BY <1>0
  <2> QED
    BY <1>3, <2>1 DEF Genuine, Stamp
<1>10. /\ Stamp(Current)' = Stamp(c) /\ (c.mtime = 0 <=> c = NoEntry) /\ (Current.mtime = 0 <=> Current = NoEntry)
       /\ Stamp(c).mtime = c.mtime /\ Stamp(Current).mtime = Current.mtime
  <2>1. c.mtime = 0 <=> c = NoEntry
    BY EntryFacts, NoEntryFacts
  <2> QED
    BY <2>1, CurrentFacts, NoEntryFacts DEF Stamp
<1>11. DOMAIN down[q] = 1..Len(down[q]) /\ \A i \in DOMAIN down[q] : down[q][i].heard \in Nat
  <2>1. DOMAIN down[q] = 1..Len(down[q]) /\ \A i \in 1..Len(down[q]) : down[q][i] \in [entry : Entries, heard : Nat]
    BY <1>0, Elements
  <2> QED
    BY <2>1
<1>12. CASE down'[q] = down[q] /\ (q \in listed => Stamp(c) = Stamp(Current))
  <2>1. Overtaken(q)' <=> Overtaken(q)
    BY <1>12 DEF Overtaken
  <2>2. Known(q)'
    <3> SUFFICES ASSUME ~Settled(q), disk[q] # NoCopy
                 PROVE  c # NoEntry \/ Overtaken(q) \/ \E n \in Nat : Awaits(q, "FILE_CREATED", n)
      BY <1>2, <1>8, <2>1 DEF Known
    <3>1. CASE q \in listed
      BY <1>3, <1>10, <1>12, <3>1 DEF Known
    <3>2. CASE q \notin listed
      <4>1. Awaits(q, Kind(Wire(q)[1]), Wire(q)[1].n) /\ Wire(q)[1].n \in Nat
        BY <1>4, <1>5, <3>2 DEF Awaits
      <4>2. CASE Kind(Wire(q)[1]) = "FILE_CREATED"
        BY <4>1, <4>2
      <4>3. CASE Kind(Wire(q)[1]) = "FILE_DELETED"
        BY <1>3, <4>1, <4>3 DEF LastTold
      <4> QED
        BY <1>5, <3>2, <4>2, <4>3
    <3> QED
      BY <3>1, <3>2
  <2>3. Past(q)'
    <3>1. CASE q \in listed
      BY <1>3, <1>12, <3>1 DEF Past
    <3>2. CASE q \notin listed
      <4>1. down'[q] = <<>> /\ main'[q].pc = "idle" /\ job'[q].phase = "none"
        BY <1>3, <1>12, <3>2 DEF Connected
      <4> QED
        BY <4>1 DEF Past
    <3> QED
      BY <3>1, <3>2
  <2>4. Settled(q) /\ ~Overtaken(q) => InLine(q)'
    <3> SUFFICES ASSUME Settled(q), ~Overtaken(q) PROVE InLine(q)'
      OBVIOUS
    <3>1. PICK k \in 0..Len(down[q]), s \in Stamps : Leads(q, k, s) /\ View(q, s)
      BY <1>3 DEF InLine
    <3>2. Leads(q, k, s)'
      BY <1>10, <1>12, <3>1 DEF Leads, Follows, Settled, Stamp
    <3>3. View(q, s)'
      BY <3>1 DEF View, Stamp
    <3> QED
      BY <1>12, <3>2, <3>3 DEF InLine
  <2> QED
    BY <1>2, <1>6, <1>7, <1>9, <1>14, <2>1, <2>2, <2>3, <2>4 DEF PeerLine
<1>13. CASE /\ q \in listed /\ down'[q] = Append(down[q], [entry |-> c, heard |-> heard[q]])
            /\ Follows(q, Stamp(Current), c)
  <2> DEFINE new == [entry |-> c, heard |-> heard[q]]
             l == Len(down[q])
  <2>1. new \in [entry : Entries, heard : Nat] /\ new.entry = c /\ new.heard = heard[q]
    BY <1>0
  <2>2. down'[q] = Append(down[q], new)
    BY <1>13
  <2> HIDE DEF new
  <2>3. /\ Len(down'[q]) = l + 1 /\ DOMAIN down'[q] = 1..(l + 1) /\ l \in Nat
        /\ down'[q][l + 1] = new /\ \A i \in 1..l : down'[q][i] = down[q][i]
    BY <1>0, <2>1, <2>2, Appended
  <2> HIDE DEF l
  <2>0. l = Len(down[q])
    BY DEF l
  <2>4. Overtaken(q) => Overtaken(q)'
    BY <1>11, <2>0, <2>3 DEF Overtaken
  <2>5. Known(q)'
    <3> SUFFICES ASSUME ~Settled(q), disk[q] # NoCopy, c = NoEntry PROVE Overtaken(q)'
      BY <1>2 DEF Known
    <3>1. heard[q] < made[q]
      BY <1>0, <1>13 DEF Settled
    <3>2. l + 1 \in DOMAIN down'[q] /\ down'[q][l + 1].entry = NoEntry /\ down'[q][l + 1].heard < made'[q]
      BY <2>1, <2>3, <3>1
    <3> QED
      BY <3>2 DEF Overtaken
  <2>6. Past(q)'
    <3>1. ASSUME NEW i \in 1..(l + 1)
          PROVE  /\ down'[q][i].heard <= heard[q]
                 /\ \A j \in 1..i : down'[q][j].heard <= down'[q][i].heard
                 /\ main[q].pc \in {"get", "drop"} => main[q].heard <= down'[q][i].heard
      <4>1. CASE i \in 1..l
        <5>1. \A j \in 1..i : j \in 1..l
          BY <2>3, <4>1
        <5> QED
          BY <1>3, <1>11, <2>0, <2>3, <4>1, <5>1 DEF Past
      <4>2. CASE i = l + 1
        <5>1. \A j \in 1..l : down'[q][j].heard <= heard[q]
          BY <1>3, <1>11, <2>0, <2>3 DEF Past
        <5>2. \A j \in 1..i : j \in 1..l \/ j = l + 1
          BY <2>3, <4>2
        <5>3. main[q].pc \in {"get", "drop"} => main[q].heard <= heard[q]
          BY <1>3 DEF Past
        <5>4. down'[q][i].heard = heard[q]
          BY <2>1, <2>3, <4>2
        <5> QED
          BY <1>0, <4>2, <5>1, <5>2, <5>3, <5>4
      <4> QED
        BY <2>3, <4>1, <4>2
    <3> QED
      BY <1>3, <1>13, <2>3, <3>1 DEF Past
  <2>7. Settled(q) /\ ~Overtaken(q) => InLine(q)'
    <3> SUFFICES ASSUME Settled(q), ~Overtaken(q) PROVE InLine(q)'
      OBVIOUS
    <3>1. PICK k \in 0..l, s \in Stamps : Leads(q, k, s) /\ View(q, s)
      BY <1>3, <2>0 DEF InLine
    <3>2. heard[q] = made[q] /\ new.heard = made[q]
      BY <2>1 DEF Settled
    <3>0. /\ \A i \in 1..k : down[q][i].heard < made[q]
          /\ \A i \in (k + 1)..l : down[q][i].heard = made[q]
          /\ k = l => Stamp(Current) = s
          /\ k < l => Follows(q, s, down[q][k + 1].entry) /\ Stamp(down[q][l].entry) = Stamp(Current)
          /\ \A i \in (k + 1)..(l - 1) : Follows(q, Stamp(down[q][i].entry), down[q][i + 1].entry)
      BY <2>0, <3>1 DEF Leads
    <3>8. k \in Nat /\ k <= l
      BY <2>3, <3>1
    <3>3. \A i \in 1..k : down'[q][i].heard < made[q]
      <4>1. \A i \in 1..k : i \in 1..l
        BY <2>3, <3>8
      <4> QED
        BY <2>3, <3>0, <4>1
    <3>4. \A i \in (k + 1)..(l + 1) : down'[q][i].heard = made[q]
      <4>1. \A i \in (k + 1)..(l + 1) : (i \in 1..l /\ i \in (k + 1)..l) \/ i = l + 1
        BY <2>3, <3>8
      <4> QED
        BY <2>3, <3>0, <3>2, <4>1
    <3>5. Stamp(down'[q][l + 1].entry) = Stamp(Current')
      BY <2>1, <2>3
    <3>6. Follows(q, s, down'[q][k + 1].entry)
      <4>1. CASE k = l
        BY <1>13, <2>1, <2>3, <3>0, <4>1
      <4>2. CASE k < l
        <5>1. k + 1 \in 1..l
          BY <2>3, <3>8, <4>2
        <5> QED
          BY <2>3, <3>0, <4>2, <5>1
      <4> QED
        BY <2>3, <4>1, <4>2
    <3>7. ASSUME NEW i \in (k + 1)..l PROVE Follows(q, Stamp(down'[q][i].entry), down'[q][i + 1].entry)
      <4>1. CASE i = l
        <5>1. Stamp(down[q][l].entry) = Stamp(Current)
          BY <2>3, <3>0, <3>8, <3>7, <4>1
        <5>2. l \in 1..l
          BY <2>3, <3>8, <3>7, <4>1
        <5>3. down'[q][l] = down[q][l] /\ down'[q][l + 1] = new
          BY <2>3, <5>2
        <5> QED
          BY <1>13, <2>1, <4>1, <5>1, <5>3
      <4>2. CASE i < l
        <5>1. i \in (k + 1)..(l - 1) /\ i \in 1..l /\ i + 1 \in 1..l
          BY <2>3, <3>1, <3>7, <4>2
        <5> QED
          BY <2>3, <3>0, <5>1
      <4> QED
        BY <2>3, <3>1, <3>7, <4>1, <4>2
    <3>9. k < l + 1 /\ k # l + 1 /\ l + 1 - 1 = l
      BY <2>3, <3>1
    <3>10. Leads(q, k, s)'
      <4>1. Follows(q, s, down[q][k + 1].entry)'
        BY <3>6 DEF Follows, Stamp
      <4>2. \A i \in (k + 1)..l : Follows(q, Stamp(down[q][i].entry), down[q][i + 1].entry)'
        BY <3>7 DEF Follows, Stamp
      <4>3. \A i \in (k + 1)..(Len(down'[q]) - 1) : i \in (k + 1)..l
        BY <2>3, <3>9
      <4> QED
        BY <2>3, <3>3, <3>4, <3>5, <3>9, <4>1, <4>2, <4>3 DEF Leads, Stamp
    <3>11. View(q, s)'
      BY <3>1 DEF View, Stamp
    <3>12. k \in 0..Len(down'[q])
      BY <2>3, <3>8
    <3> QED
      BY <3>10, <3>11, <3>12 DEF InLine
  <2> QED
    BY <1>2, <1>6, <1>7, <1>9, <1>14, <2>4, <2>5, <2>6, <2>7 DEF PeerLine
<1> QED
  BY <1>12, <1>13

\* Only p does something, and the connections from it.
Only(p) ==
  /\ UNCHANGED table
  /\ \A q \in Peers \ {p} :
       /\ disk'[q] = disk[q] /\ raw'[q] = raw[q] /\ made'[q] = made[q] /\ heard'[q] = heard[q]
       /\ down'[q] = down[q] /\ main'[q] = main[q] /\ job'[q] = job[q] /\ port'[q] = port[q]
       /\ (q \in listed' <=> q \in listed)
  /\ \A a \in Addrs : a[1] # p => up'[a] = up[a]

LEMMA FileIs ==
  ASSUME NEW m \in Messages, m.items # <<>>
  PROVE  File(m) \in FileInfo /\ File(m).mtime \in Nat
<1>1. File(m) \in FileInfo
  <2>1. CASE m.type = "REGISTER"
    <3>1. PICK f \in Registered : m.items = <<f>>
      BY <2>1, MessageIs
    <3>2. m.items[1] = f
      BY <3>1
    <3> QED
      BY <2>1, <3>2 DEF File, Registered
  <2>2. CASE m.type # "REGISTER"
    <3>1. m.type = "FILE_UPDATE"
      BY <2>2 DEF Messages
    <3>2. PICK e \in Updates : m.items = <<e>>
      BY <3>1, MessageIs
    <3>3. m.items[1] = e
      BY <3>2
    <3> QED
      BY <2>2, <3>3 DEF File, Updates, FileEvent
  <2> QED
    BY <2>1, <2>2
<1> QED
  BY <1>1, DataAssumption DEF FileInfo

LEMMA OwnStep ==
  ASSUME SyncTypes, NEW p \in Peers, Only(p), Line,
         writes' \in Nat, writes <= writes', \A k \in 1..writes : wrote'[k] = wrote[k],
         Named', PeerLine(p)'
  PROVE  Line'
<1>1. Current' = Current /\ Current \in Entries
  BY CurrentFacts DEF Only, Current
<1>2. PICK c \in Entries : c = Current
  BY <1>1
<1>3. ASSUME NEW q \in Peers, q # p PROVE PeerLine(q)'
  <2>1. PeerLine(q)
    BY DEF Line
  <2>2. Address(q) \in Addrs /\ Address(q)[1] = q /\ heard[q] \in Nat
    BY PeerTypes
  <2>3. Address(q)' = Address(q) /\ up'[Address(q)] = up[Address(q)]
    BY <1>3, <2>2 DEF Only, Address
  <2>4. \A a \in Addrs \ {Address(q)} : a[1] = q => Drains(a)
    BY <1>3 DEF Only, Drains
  <2>5. q \notin listed => heard[q] <= Wire(q)[1].n
    BY <2>1 DEF PeerLine, Connected
  <2>6. IF q \in listed THEN heard'[q] = heard[q] ELSE heard[q] <= heard'[q] /\ heard'[q] <= Wire(q)[1].n
    BY <1>3, <2>2, <2>5 DEF Only
  <2> QED
    BY <1>1, <1>2, <1>3, <2>1, <2>2, <2>3, <2>4, <2>6, LineOthers DEF Only
<1> QED
  BY <1>3 DEF Line

----------------------------------------------------------------------------
\* When the tracker has heard everything, nothing is on its way to it.
LEMMA NothingAwaits ==
  ASSUME SyncTypes, NEW p \in Peers, p \in listed, heard[p] = made[p], Connected(p), Ordered(p)
  PROVE  /\ raw[p] = <<>> /\ \A i \in DOMAIN Wire(p) : ~Tells(Wire(p)[i])
         /\ \A kind \in Changes : \A n : ~Awaits(p, kind, n)
<1>1. /\ raw[p] \in Seq([action : Changes, n : Nat]) /\ Len(raw[p]) \in Nat /\ made[p] \in Nat
      /\ Wire(p) \in Seq(Messages)
  BY PeerTypes
<1>2. Len(raw[p]) = 0
  BY <1>1 DEF Ordered
<1>3. raw[p] = <<>>
  BY <1>1, <1>2
<1>4. ASSUME NEW i \in DOMAIN Wire(p), Tells(Wire(p)[i]) PROVE FALSE
  <2>1. Wire(p)[i].n <= made[p] /\ Wire(p)[i].n > made[p]
    BY <1>1, <1>2, <1>4 DEF Ordered
  <2>2. Wire(p)[i].n \in Nat
    BY <1>1, <1>4, Elements, KindFacts
  <2> QED
    BY <1>1, <2>1, <2>2
<1>5. \A kind \in Changes : \A n : ~Awaits(p, kind, n)
  BY <1>3, <1>4 DEF Awaits, Tells
<1> QED
  BY <1>3, <1>4, <1>5

\* The threads of p send nothing but completions.  They touch its file when the tracker
\* knows it.
LEMMA StreamKept ==
  ASSUME SyncTypes, NEW p \in Peers, Frame(p), p \in listed, Connected(p), Ordered(p), LastTold(p),
         \/ up'[Address(p)] = up[Address(p)]
         \/ \E m \in Messages : /\ m.type = "FILE_UPDATE" /\ ~Tells(m) /\ m.n = 0
                                /\ up'[Address(p)] = Append(up[Address(p)], m),
         disk'[p] = disk[p] \/ heard[p] = made[p]
  PROVE  Connected(p)' /\ Ordered(p)' /\ LastTold(p)'
<1>0. /\ Address(p) \in Addrs /\ Address(p)[1] = p /\ Wire(p) \in Seq(Messages) /\ Len(Wire(p)) \in Nat
      /\ Address(p)' = Address(p) /\ made[p] \in Nat
  BY PeerTypes DEF Frame, Address
<1>1. UNCHANGED <<raw, made, port, listed, heard>> /\ \A a \in Addrs \ {Address(p)} : up'[a] = up[a]
  BY DEF Frame
<1>2. Settled(p)' <=> Settled(p)
  BY <1>1 DEF Settled
<1>3. CASE up'[Address(p)] = up[Address(p)]
  <2>1. Wire(p)' = Wire(p)
    BY <1>0, <1>3 DEF Wire
  <2>2. Connected(p)' /\ Ordered(p)'
    BY <1>0, <1>1, <2>1 DEF Connected, Ordered, Tells, Kind
  <2>3. \A kind, n : Awaits(p, kind, n)' <=> Awaits(p, kind, n)
    BY <1>1, <2>1 DEF Awaits, Kind
  <2>4. LastTold(p)'
    <3>1. CASE disk'[p] = disk[p]
      BY <1>1, <1>2, <2>1, <2>3, <3>1 DEF LastTold, Tells, Kind, File
    <3>2. CASE heard[p] = made[p]
      <4>1. raw[p] = <<>> /\ (\A i \in DOMAIN Wire(p) : ~Tells(Wire(p)[i])) /\ \A n : ~Awaits(p, "FILE_DELETED", n)
        BY <3>2, NothingAwaits DEF Changes
      <4> QED
        BY <1>1, <1>2, <2>1, <2>3, <3>2, <4>1 DEF LastTold, Tells, Kind, Settled
    <3> QED
      BY <3>1, <3>2
  <2> QED
    BY <2>2, <2>4
<1>4. ASSUME NEW m \in Messages, m.type = "FILE_UPDATE", ~Tells(m), m.n = 0,
             up'[Address(p)] = Append(up[Address(p)], m)
      PROVE  Connected(p)' /\ Ordered(p)' /\ LastTold(p)'
  <2>1. Wire(p)' = Append(Wire(p), m)
    BY <1>0, <1>4 DEF Wire
  <2> DEFINE l == Len(Wire(p))
  <2>2. /\ l \in Nat /\ DOMAIN Wire(p) = 1..l /\ DOMAIN Wire(p)' = 1..(l + 1)
        /\ Wire(p)'[l + 1] = m /\ \A i \in 1..l : Wire(p)'[i] = Wire(p)[i]
    BY <1>0, <2>1, Appended
  <2> HIDE DEF l
  <2>3. \A i \in 1..(l + 1) : i \in 1..l \/ i = l + 1
    BY <2>2
  <2>4. Connected(p)'
    <3>1. \A i \in DOMAIN Wire(p)' : /\ Wire(p)'[i].type = "REGISTER" <=> (i = 1 /\ p \notin listed)
                                     /\ ~Tells(Wire(p)'[i]) => Wire(p)'[i].n = 0
      BY <1>4, <2>2, <2>3 DEF Connected
    <3> QED
      BY <1>0, <1>1, <3>1 DEF Connected, Tells, Kind
  <2>5. Ordered(p)'
    <3>1. ASSUME NEW i \in DOMAIN Wire(p)', Tells(Wire(p)'[i])
          PROVE  /\ Wire(p)'[i].n <= made[p] - Len(raw[p]) /\ Wire(p)'[i].n > heard[p]
                 /\ \A j \in 1..(i - 1) : Tells(Wire(p)'[j]) => Wire(p)'[j].n < Wire(p)'[i].n
      <4>1. i \in 1..l /\ \A j \in 1..(i - 1) : j \in 1..l
        BY <1>4, <2>2, <2>3, <3>1
      <4> QED
        BY <2>2, <3>1, <4>1 DEF Ordered
    <3> QED
      BY <1>1, <3>1 DEF Ordered, Tells, Kind
  <2>6. \A kind \in Changes : \A n : Awaits(p, kind, n)' <=> Awaits(p, kind, n)
    <3> SUFFICES ASSUME NEW kind \in Changes, NEW n PROVE Awaits(p, kind, n)' <=> Awaits(p, kind, n)
      OBVIOUS
    <3>1. (\E i \in DOMAIN Wire(p)' : Wire(p)'[i].n = n /\ Kind(Wire(p)'[i]) = kind)
          <=> (\E i \in DOMAIN Wire(p) : Wire(p)[i].n = n /\ Kind(Wire(p)[i]) = kind)
      <4>1. Kind(m) # kind
        BY <1>4 DEF Tells
      <4> QED
        BY <2>2, <2>3, <4>1
    <3> QED
      BY <1>1, <3>1 DEF Awaits, Kind
  <2>7. LastTold(p)'
    <3>1. \A i \in DOMAIN Wire(p)' : Tells(Wire(p)'[i]) => i \in DOMAIN Wire(p) /\ Wire(p)'[i] = Wire(p)[i]
      BY <1>4, <2>2, <2>3
    <3>2. \A n \in Nat : /\ Awaits(p, "FILE_DELETED", n)' <=> Awaits(p, "FILE_DELETED", n)
                         /\ Awaits(p, "FILE_CREATED", n)' <=> Awaits(p, "FILE_CREATED", n)
      BY <2>6 DEF Changes
    <3>3. ~Settled(p) => raw[p] # <<>> \/ \E i \in DOMAIN Wire(p)' : Tells(Wire(p)'[i]) /\ Wire(p)'[i].n = made[p]
      BY <2>2, <2>3 DEF LastTold
    <3>4. CASE disk'[p] = disk[p]
      BY <1>1, <1>2, <3>1, <3>2, <3>3, <3>4 DEF LastTold, Tells, Kind, File
    <3>5. CASE heard[p] = made[p]
      <4>1. raw[p] = <<>> /\ (\A i \in DOMAIN Wire(p) : ~Tells(Wire(p)[i])) /\ \A n : ~Awaits(p, "FILE_DELETED", n)
        BY <3>5, NothingAwaits DEF Changes
      <4>2. \A i \in DOMAIN Wire(p)' : ~Tells(Wire(p)'[i])
        BY <3>1, <4>1
      <4> QED
        BY <1>1, <1>2, <3>2, <3>3, <3>5, <4>1, <4>2 DEF LastTold, Tells, Kind, Settled
    <3> QED
      BY <3>4, <3>5
  <2> QED
    BY <2>4, <2>5, <2>7
<1> QED
  BY <1>3, <1>4

----------------------------------------------------------------------------
\* A step of p's own threads.
LEMMA Busy ==
  ASSUME NEW p, Connected(p), down[p] # <<>> \/ main[p].pc # "idle" \/ job[p].phase # "none"
  PROVE  p \in listed
  BY DEF Connected

LEMMA ThreadStep ==
  ASSUME SyncTypes, NEW p \in Peers, Line, Frame(p), p \in listed,
         \/ up'[Address(p)] = up[Address(p)]
         \/ \E m \in Messages : /\ m.type = "FILE_UPDATE" /\ ~Tells(m) /\ m.n = 0 
                                /\ up'[Address(p)] = Append(up[Address(p)], m),
         disk'[p] = disk[p] \/ heard[p] = made[p],
         Genuine(disk[p])', Known(p)', Past(p)', Settled(p) => Overtaken(p)' \/ InLine(p)'
  PROVE  Line'
<1>0. /\ Address(p) \in Addrs /\ Address(p)[1] = p /\ Address(p)' = Address(p) /\ writes \in Nat
      /\ UNCHANGED <<raw, made, writes, wrote, port, listed, table, heard>>
  BY PeerTypes DEF Frame, Address
<1>1. Connected(p)' /\ Ordered(p)' /\ LastTold(p)'
  <2>1. Connected(p) /\ Ordered(p) /\ LastTold(p)
    BY DEF Line, PeerLine
  <2> QED
    BY <2>1, StreamKept
<1>2. Settled(p)' <=> Settled(p)
  BY <1>0 DEF Settled
<1>3. PeerLine(p)'
  BY <1>1, <1>2 DEF PeerLine
<1>4. Only(p)
  BY <1>0 DEF Only, Frame
<1>5. Named'
  BY <1>0 DEF Line, Named, Current, Address
<1> QED
  BY <1>0, <1>3, <1>4, <1>5, OwnStep

\* What a peer has at hand.
LEMMA HandFacts ==
  ASSUME SyncTypes, NEW p \in Peers, Line
  PROVE  /\ Connected(p) /\ Ordered(p) /\ LastTold(p) /\ Known(p) /\ Past(p)
         /\ Settled(p) => Overtaken(p) \/ InLine(p)
         /\ Genuine(disk[p]) /\ PeerLine(p)
  BY DEF Line, PeerLine

LEMMA TableFacts ==
  ASSUME SyncTypes, NEW p \in Peers
  PROVE  /\ DOMAIN down[p] = 1..Len(down[p]) /\ Len(down[p]) \in Nat
         /\ \A i \in DOMAIN down[p] : /\ down[p][i] \in [entry : Entries, heard : Nat]
                                      /\ down[p][i].entry \in Entries /\ down[p][i].heard \in Nat
                                      /\ down[p][i].entry.mtime \in Nat
                                      /\ (down[p][i].entry.mtime = 0 <=> down[p][i].entry = NoEntry)
<1>1. down[p] \in Seq([entry : Entries, heard : Nat])
  BY PeerTypes
<1>2. /\ DOMAIN down[p] = 1..Len(down[p]) /\ Len(down[p]) \in Nat
      /\ \A i \in DOMAIN down[p] : down[p][i] \in [entry : Entries, heard : Nat]
  BY <1>1, Elements
<1>3. \A e \in Entries : e.mtime \in Nat /\ (e.mtime = 0 <=> e = NoEntry)
  BY EntryFacts, NoEntryFacts
<1> QED
  BY <1>2, <1>3

LEMMA LineTakeTable ==
  ASSUME SyncTypes, NEW p \in Peers, Line, TakeTable(p), "skipped" \notin harm'
  PROVE  Line'
<1> DEFINE m == Head(down[p])
           l == Len(down[p])
<1>1. Frame(p) /\ UNCHANGED <<disk, up, job>> /\ p \in listed
  BY FrameMain, Busy, HandFacts DEF MainThread, TakeTable, disks
<1>2. main[p].pc = "idle" /\ down[p] # <<>>
  BY DEF TakeTable
<1>3. down'[p] = Tail(down[p])
  BY DEF TakeTable, SyncTypes, WireTypes
<1>4. PICK verdict \in {"get", "drop", "idle"} :
        /\ main' = [main EXCEPT ![p] = IF verdict = "idle" THEN Idle
                                       ELSE [pc |-> verdict, entry |-> m.entry, heard |-> m.heard]]
        /\ verdict = "drop" => m.entry = NoEntry
        /\ disk[p] # NoCopy /\ m.entry = NoEntry => verdict = "drop"
        /\ verdict = "idle" => /\ ~Missed(p, m.entry)
                               /\ \/ disk[p] = NoCopy /\ m.entry = NoEntry
                                  \/ disk[p] # NoCopy /\ m.entry # NoEntry /\ ~WorthDownloading(p, m.entry)
  BY DEF TakeTable
<1>5. main'[p] = IF verdict = "idle" THEN Idle ELSE [pc |-> verdict, entry |-> m.entry, heard |-> m.heard]
  BY <1>4 DEF SyncTypes, ThreadTypes
<1>6. /\ down[p] \in Seq([entry : Entries, heard : Nat]) /\ made[p] \in Nat /\ heard[p] \in Nat /\ writes \in Nat
      /\ job[p].heard \in Nat
  BY PeerTypes
<1>7. /\ l \in Nat /\ l > 0 /\ DOMAIN down[p] = 1..l /\ DOMAIN down'[p] = 1..(l - 1) /\ Len(down'[p]) = l - 1
      /\ m = down[p][1] /\ 1 \in DOMAIN down[p]
      /\ \A i \in 1..(l - 1) : i + 1 \in 1..l /\ down'[p][i] = down[p][i + 1]
  BY <1>2, <1>3, <1>6, Tailed
<1>8. m.entry \in Entries /\ m.heard \in Nat /\ m.entry.mtime \in Nat /\ (m.entry.mtime = 0 <=> m.entry = NoEntry)
  BY <1>7, TableFacts
<1>9. UNCHANGED <<raw, made, writes, wrote, port, listed, table, heard>> /\ disk'[p] = disk[p] /\ job'[p] = job[p]
      /\ Current' = Current
  BY <1>1 DEF Frame, Current
<1>10. Past(p) /\ Known(p) /\ Genuine(disk[p])
  BY HandFacts
<1> HIDE DEF m, l
<1>0. l = Len(down[p]) /\ \A i \in 1..l : down[p][i].heard \in Nat
  BY TableFacts DEF l
<1>11. /\ verdict # "idle" => main'[p].pc = verdict /\ main'[p].entry = m.entry /\ main'[p].heard = m.heard
       /\ verdict = "idle" => main'[p].pc = "idle" /\ main'[p].entry = NoEntry
  BY <1>5 DEF Idle
<1>12. Overtaken(p) => Overtaken(p)'
  <2> SUFFICES ASSUME Overtaken(p) PROVE Overtaken(p)'
    OBVIOUS
  <2>1. CASE job[p].phase = "fetch" /\ job[p].heard < made[p]
    BY <1>9, <2>1 DEF Overtaken
  <2>2. ASSUME NEW i \in DOMAIN down[p], disk[p] # NoCopy, down[p][i].entry = NoEntry, down[p][i].heard < made[p]
        PROVE  Overtaken(p)'
    <3>1. CASE i = 1
      <4>1. verdict = "drop" /\ main'[p].heard < made[p]
        BY <1>4, <1>7, <1>11, <2>2, <3>1
      <4> QED
        BY <1>9, <1>11, <2>2, <4>1 DEF Overtaken
    <3>2. CASE i # 1
      <4>1. i - 1 \in 1..(l - 1) /\ (i - 1) + 1 = i
        BY <1>7, <2>2, <3>2
      <4>2. down'[p][i - 1] = down[p][i]
        BY <1>7, <4>1
      <4>3. i - 1 \in DOMAIN down'[p]
        BY <1>7, <4>1
      <4> QED
        BY <1>9, <2>2, <4>2, <4>3 DEF Overtaken
    <3> QED
      BY <3>1, <3>2
  <2> QED
    BY <1>2, <2>1, <2>2 DEF Overtaken
<1>13. Known(p)'
  <2> SUFFICES ASSUME ~Settled(p), disk[p] # NoCopy, Current = NoEntry, ~Overtaken(p)
               PROVE  (\E n \in Nat : Awaits(p, "FILE_CREATED", n))'
    BY <1>9, <1>12 DEF Known, Settled
  <2>1. PICK n \in Nat : Awaits(p, "FILE_CREATED", n)
    BY <1>10 DEF Known
  <2>2. Awaits(p, "FILE_CREATED", n)'
    BY <1>1, <1>9, <2>1 DEF Awaits, Kind, Wire, Address
  <2> QED
    BY <2>2
<1>14. Past(p)'
  <2>1. ASSUME NEW i \in 1..(l - 1)
        PROVE  /\ down'[p][i].heard <= heard[p] /\ m.heard <= down'[p][i].heard
               /\ \A j \in 1..i : down'[p][j].heard <= down'[p][i].heard
    <3>1. i + 1 \in 1..l /\ 1 \in 1..(i + 1) /\ \A j \in 1..i : j \in 1..(l - 1) /\ j + 1 \in 1..(i + 1)
      BY <1>7
    <3>2. /\ down[p][i + 1].heard <= heard[p]
          /\ \A j \in 1..(i + 1) : down[p][j].heard <= down[p][i + 1].heard
      BY <1>7, <1>10, <3>1 DEF Past
    <3> QED
      BY <1>7, <3>1, <3>2
  <2>2. m.heard <= heard[p]
    BY <1>7, <1>10 DEF Past
  <2> QED
    BY <1>4, <1>7, <1>9, <1>10, <1>11, <2>1, <2>2 DEF Past
<1>15. Genuine(disk[p])'
  BY <1>9, <1>10 DEF Genuine, Stamp
<1>16. ASSUME Settled(p), ~Overtaken(p) PROVE InLine(p)'
  <2>1. PICK k \in 0..l, s \in Stamps : Leads(p, k, s) /\ View(p, s)
    BY <1>16, HandFacts, <1>0 DEF InLine
  <2>2. /\ \A i \in 1..k : down[p][i].heard < made[p]
        /\ \A i \in (k + 1)..l : down[p][i].heard = made[p]
        /\ k = l => Stamp(Current) = s
        /\ k < l => Follows(p, s, down[p][k + 1].entry) /\ Stamp(down[p][l].entry) = Stamp(Current)
        /\ \A i \in (k + 1)..(l - 1) : Follows(p, Stamp(down[p][i].entry), down[p][i + 1].entry)
    BY <1>0, <2>1 DEF Leads
  <2>3. \A i \in (k + 1)..(l - 1) : Follows(p, Stamp(down[p][i].entry), down[p][i + 1].entry)
    BY <2>2
  <2>0. k \in Nat /\ k <= l
    BY <1>7, <2>1
  <2>5. CASE k > 0
    <3>1. k - 1 \in 0..(l - 1) /\ k - 1 + 1 = k
      BY <2>0, <2>5, <1>7
    <3>2. m.heard < made[p]
      BY <1>7, <2>2, <2>0, <2>5
    <3>3. View(p, s)'
      BY <1>2, <1>6, <1>8, <1>9, <1>11, <2>1, <3>2 DEF View, Stamp
    <3>4. \A i \in 1..(k - 1) : down'[p][i].heard < made[p]
      <4>1. \A i \in 1..(k - 1) : i \in 1..(l - 1) /\ i + 1 \in 1..k
        BY <1>7, <2>0
      <4> QED
        BY <1>7, <2>2, <4>1
    <3>5. \A i \in k..(l - 1) : down'[p][i].heard = made[p]
      <4>1. \A i \in k..(l - 1) : i \in 1..(l - 1) /\ i + 1 \in (k + 1)..l
        BY <1>7, <2>0, <2>5
      <4>2. \A i \in k..(l - 1) : down'[p][i] = down[p][i + 1]
        BY <1>7, <4>1
      <4> QED
        BY <2>2, <4>1, <4>2
    <3>6. k - 1 = l - 1 => Stamp(Current) = s
      BY <1>7, <2>2, <2>0
    <3>7. k - 1 < l - 1 => Follows(p, s, down'[p][k].entry) /\ Stamp(down'[p][l - 1].entry) = Stamp(Current)
      <4> SUFFICES ASSUME k < l PROVE Follows(p, s, down'[p][k].entry) /\ Stamp(down'[p][l - 1].entry) = Stamp(Current)
        BY <1>7, <2>0
      <4>0. l \in Nat
        BY <1>7
      <4>1. k \in 1..(l - 1) /\ l - 1 \in 1..(l - 1) /\ l - 1 + 1 = l
        BY <2>0, <2>5, <4>0
      <4>2. down'[p][k] = down[p][k + 1] /\ down'[p][l - 1] = down[p][l]
        BY <1>7, <4>1
      <4> QED
        BY <2>2, <4>2
    <3>8. ASSUME NEW i \in k..(l - 2) PROVE Follows(p, Stamp(down'[p][i].entry), down'[p][i + 1].entry)
      <4>1. i \in 1..(l - 1) /\ i + 1 \in 1..(l - 1) /\ i + 1 \in (k + 1)..(l - 1)
        BY <1>7, <2>0, <2>5
      <4> QED
        BY <1>7, <2>3, <4>1
    <3>9. Leads(p, k - 1, s)'
      <4>1. k - 1 + 1 = k /\ Len(down'[p]) - 1 = l - 2
        BY <1>7, <2>0
      <4>2. k - 1 < l - 1 => Follows(p, s, down[p][k].entry)'
        BY <1>9, <3>7 DEF Follows, Address, Stamp
      <4>3. \A i \in k..(l - 2) : Follows(p, Stamp(down[p][i].entry), down[p][i + 1].entry)'
        BY <1>9, <3>8 DEF Follows, Address, Stamp
      <4> QED
        BY <1>7, <1>9, <3>4, <3>5, <3>6, <3>7, <4>1, <4>2, <4>3 DEF Leads, Stamp
    <3> QED
      BY <1>7, <1>9, <2>1, <3>1, <3>3, <3>9 DEF InLine
  <2>6. CASE k = 0
    <3>0. PICK u : u = Stamp(m.entry)
      OBVIOUS
    <3>1. m.heard = made[p] /\ Follows(p, s, m.entry)
      BY <3>0, <1>7, <2>2, <2>6
    <3>2. u.mtime = m.entry.mtime /\ u.size = m.entry.size
      BY <3>0 DEF Stamp
    <3>3. u \in Stamps
      BY <3>0, <1>8, StampFacts
    <3>4. Leads(p, 0, u)'
      <4>1. \A i \in 1..(l - 1) : i + 1 \in 1..l /\ down'[p][i].heard = made[p]
        <5>1. \A i \in 1..(l - 1) : i + 1 \in 1..l /\ i + 1 \in (k + 1)..l /\ down'[p][i] = down[p][i + 1]
          BY <1>7, <2>6
        <5> QED
          BY <2>2, <5>1
      <4>2. l - 1 = 0 => Stamp(Current) = u
        BY <3>0, <1>7, <2>2, <2>6
      <4>3. 0 < l - 1 => Follows(p, u, down'[p][1].entry) /\ Stamp(down'[p][l - 1].entry) = Stamp(Current)
        <5> SUFFICES ASSUME 0 < l - 1 PROVE Follows(p, u, down'[p][1].entry) /\ Stamp(down'[p][l - 1].entry) = Stamp(Current)
          OBVIOUS
        <5>1. 1 \in 1..(l - 1) /\ l - 1 \in 1..(l - 1) /\ l - 1 + 1 = l /\ 1 + 1 = 2
          BY <3>0, <1>7
        <5>2. down'[p][1] = down[p][2] /\ down'[p][l - 1] = down[p][l]
          BY <3>0, <1>7, <5>1
        <5>3. Follows(p, Stamp(down[p][1].entry), down[p][2].entry)
          BY <3>0, <2>3, <2>6, <5>1
        <5> QED
          BY <3>0, <1>7, <2>2, <2>6, <5>2, <5>3
      <4>4. ASSUME NEW i \in 1..(l - 2) PROVE Follows(p, Stamp(down'[p][i].entry), down'[p][i + 1].entry)
        <5>1. i \in 1..(l - 1) /\ i + 1 \in 1..(l - 1) /\ i + 1 \in (k + 1)..(l - 1)
          BY <1>7, <2>6
        <5> QED
          BY <3>0, <1>7, <2>3, <2>6, <5>1
      <4>5. Len(down'[p]) - 1 = l - 2
        BY <3>0, <1>7
      <4>6. 0 < l - 1 => Follows(p, u, down[p][1].entry)'
        BY <3>0, <1>9, <4>3 DEF Follows, Address, Stamp
      <4>7. \A i \in 1..(l - 2) : Follows(p, Stamp(down[p][i].entry), down[p][i + 1].entry)'
        BY <3>0, <1>9, <4>4 DEF Follows, Address, Stamp
      <4>8. /\ \A i \in 1..0 : down'[p][i].heard < made'[p]
            /\ \A i \in (0 + 1)..Len(down'[p]) : down'[p][i].heard = made'[p]
            /\ 0 = Len(down'[p]) => Stamp(Current') = u
            /\ 0 < Len(down'[p]) => 0 < l - 1
            /\ down'[p][Len(down'[p])] = down'[p][l - 1] /\ 0 + 1 = 1
        BY <1>7, <1>9, <4>1, <4>2
      <4>9. 0 < Len(down'[p]) => /\ Follows(p, u, down[p][0 + 1].entry)'
                                 /\ Stamp(down'[p][Len(down'[p])].entry) = Stamp(Current')
        BY <1>9, <4>3, <4>6, <4>8
      <4> QED
        BY <4>5, <4>7, <4>8, <4>9 DEF Leads, Stamp
    <3>5. View(p, u)'
      <4>1. CASE verdict # "idle"
        BY <3>0, <1>4, <1>9, <1>11, <3>1, <4>1 DEF View, Stamp
      <4>2. CASE verdict = "idle" /\ job[p].phase = "fetch"
        <5>1. job[p].heard = made[p]
          BY <3>0, <1>10, <1>16, <1>6, <4>2 DEF Overtaken, Past, Settled
        <5>2. m.entry # NoEntry
          BY <3>0, <1>4, <1>6, <1>10, <4>2, <5>1 DEF Past
        <5>3. Stamp(job[p].entry) = u
          BY <3>0, <1>4, <4>2, <5>2 DEF Missed
        <5> QED
          BY <3>0, <1>9, <1>11, <4>2, <5>3 DEF View, Stamp
      <4>3. CASE verdict = "idle" /\ job[p].phase # "fetch"
        <5>1. IF s.mtime = 0 THEN disk[p] = NoCopy
              ELSE disk[p] # NoCopy /\ (Stamp(disk[p]) = s \/ (disk[p].size = 0 /\ s.size = 0))
          BY <1>2, <2>1, <4>3 DEF View
        <5>2. IF u.mtime = 0 THEN disk[p] = NoCopy
              ELSE disk[p] # NoCopy /\ (Stamp(disk[p]) = u \/ (disk[p].size = 0 /\ u.size = 0))
          <6>1. CASE disk[p] = NoCopy
            BY <1>4, <1>8, <3>2, <4>3, <6>1
          <6>2. CASE disk[p] # NoCopy
            <7>1. m.entry # NoEntry /\ ~WorthDownloading(p, m.entry) /\ u.mtime # 0 /\ s.mtime # 0
              BY <1>4, <1>8, <3>2, <4>3, <5>1, <6>2
            <7>2. CASE u = s
              BY <5>1, <7>1, <7>2
            <7>3. CASE m.entry.mtime >= s.mtime /\ Address(p) \notin m.entry.peers
              <8>1. ~(disk[p].mtime < u.mtime) /\ disk[p].size = u.size
                BY <3>2, <7>1, <7>3 DEF WorthDownloading, Off
              <8>2. disk[p].mtime \in Nat /\ s.mtime \in Nat /\ u.mtime \in Nat
                BY <2>1, <3>3, DiskFacts, StampFacts
              <8>3. CASE disk[p].size = 0
                BY <6>2, <7>1, <8>1, <8>3
              <8>4. CASE Stamp(disk[p]) = s
                <9>1. disk[p].mtime = s.mtime
                  BY <8>4 DEF Stamp
                <9>2. disk[p].mtime = u.mtime
                  BY <3>2, <7>3, <8>1, <8>2, <9>1
                <9>3. Stamp(disk[p]) = u
                  BY <3>0, <3>2, <8>1, <9>2 DEF Stamp
                <9> QED
                  BY <6>2, <7>1, <9>3
              <8> QED
                BY <5>1, <7>1, <8>3, <8>4
            <7> QED
              BY <3>0, <3>1, <3>2, <7>1, <7>2, <7>3 DEF Follows
          <6> QED
            BY <6>1, <6>2
        <5> QED
          BY <3>0, <1>9, <1>11, <4>3, <5>2 DEF View, Stamp
      <4> QED
        BY <3>0, <4>1, <4>2, <4>3
    <3>6. 0 \in 0..(l - 1)
      BY <3>0, <1>7
    <3> QED
      BY <3>0, <1>7, <1>9, <3>3, <3>4, <3>5, <3>6 DEF InLine
  <2> QED
    BY <2>0, <2>5, <2>6
<1> QED
  BY <1>1, <1>9, <1>12, <1>13, <1>14, <1>15, <1>16, ThreadStep

\* The threads of p leave the tables that wait for it alone.
LEMMA InLineStays ==
  ASSUME NEW p \in Peers, Frame(p), down'[p] = down[p], InLine(p),
         \A s \in Stamps : View(p, s) => View(p, s)'
  PROVE  InLine(p)'
<1>1. /\ UNCHANGED <<writes, made, port>> /\ Current' = Current
  BY DEF Frame, Current
<1>2. PICK k \in 0..Len(down[p]), s \in Stamps : Leads(p, k, s) /\ View(p, s)
  BY DEF InLine
<1>3. Leads(p, k, s)'
  BY <1>1, <1>2 DEF Leads, Follows, Address, Stamp
<1>4. View(p, s)'
  BY <1>2
<1> QED
  BY <1>1, <1>2, <1>3, <1>4 DEF InLine

LEMMA KnownStays ==
  ASSUME NEW p \in Peers, Frame(p), Known(p), disk'[p] = disk[p], UNCHANGED up, Overtaken(p) => Overtaken(p)'
  PROVE  Known(p)'
<1>1. UNCHANGED <<raw, made, heard, listed, port>> /\ Current' = Current
  BY DEF Frame, Current
<1>2. \A n : Awaits(p, "FILE_CREATED", n)' <=> Awaits(p, "FILE_CREATED", n)
  BY <1>1 DEF Awaits, Wire, Address, Kind
<1> QED
  BY <1>1, <1>2 DEF Known, Settled

LEMMA LineDrop ==
  ASSUME SyncTypes, NEW p \in Peers, Line, Drop(p), Unharmed'
  PROVE  Line'
<1>1. Frame(p) /\ UNCHANGED <<down, up, job>> /\ p \in listed /\ main[p].pc = "drop"
  BY FrameMain, Busy, HandFacts DEF MainThread, Drop, network
<1>2. disk'[p] = NoCopy /\ main'[p].pc = "show" /\ main'[p].entry = NoEntry
  <2>1. disk' = [disk EXCEPT ![p] = NoCopy] /\ main' = [main EXCEPT ![p] = [Idle EXCEPT !.pc = "show"]]
    BY DEF Drop
  <2>2. \E S, T : disk \in [Peers -> S] /\ main \in [Peers -> T]
    BY DEF SyncTypes, DiskTypes, ThreadTypes
  <2>3. disk'[p] = NoCopy /\ main'[p] = [Idle EXCEPT !.pc = "show"]
    BY <2>1, <2>2
  <2> QED
    BY <2>3 DEF Idle
<1>3. ~(disk[p] # NoCopy /\ News(p, main[p].heard)) /\ job[p].phase # "fetch"
  BY DEF Drop, Unharmed
<1>4. /\ made[p] \in Nat /\ heard[p] \in Nat /\ heard[p] <= made[p] /\ main[p].heard \in Nat
      /\ \A i \in DOMAIN down[p] : down[p][i].heard \in Nat
  BY PeerTypes, TableFacts
<1>5. Past(p)
  BY HandFacts
<1>6. disk[p] # NoCopy => main[p].heard = made[p] /\ heard[p] = made[p]
  BY <1>1, <1>3, <1>4, <1>5 DEF News, Past
<1>7. UNCHANGED <<raw, made, last, writes, port, listed, table, heard, deaf>> /\ Current' = Current
  BY <1>1 DEF Frame, Current
<1>8. Known(p)'
  BY <1>2 DEF Known
<1>9. Past(p)'
  BY <1>1, <1>2, <1>3, <1>5, <1>7 DEF Past
<1>10. Genuine(disk[p])'
  BY <1>2 DEF Genuine, NoCopy
<1>11. Settled(p) => InLine(p)'
  <2> SUFFICES ASSUME Settled(p) PROVE InLine(p)'
    OBVIOUS
  <2>1. ~Overtaken(p)
    BY <1>1, <1>3, <1>4, <1>5, <1>6 DEF Overtaken, Past
  <2>2. InLine(p)
    BY <2>1, HandFacts
  <2>3. ASSUME NEW s \in Stamps, View(p, s) PROVE View(p, s)'
    <3>1. main[p].entry.mtime = 0
      BY <1>1, <1>5, NoEntryFacts DEF Past
    <3>2. s.mtime = 0
      BY <1>1, <1>3, <1>6, <2>3, <3>1 DEF View, Stamp
    <3> QED
      BY <1>1, <1>2, <1>3, <3>2 DEF View
  <2> QED
    BY <1>1, <2>2, <2>3, InLineStays
<1> QED
  BY <1>1, <1>2, <1>6, <1>8, <1>9, <1>10, <1>11, ThreadStep

\* The main thread has nothing more to do, and the file and the tables stay.
LEMMA LineRests ==
  ASSUME SyncTypes, NEW p \in Peers, Line, Frame(p), p \in listed, UNCHANGED <<disk, down, up>>,
         main'[p] = Idle \/ (main'[p] = main[p] /\ main[p].pc \notin {"get", "drop"}),
         main[p].pc # "drop",
         job'[p] = job[p] \/ (job[p].phase # "fetch" /\ job'[p] = NoJob),
         main[p].pc = "get" /\ main[p].heard = made[p] =>
           \A s \in Stamps : s = Stamp(main[p].entry) =>
             IF job[p].phase = "fetch" THEN Stamp(job[p].entry) = s
             ELSE IF s.mtime = 0 THEN disk[p] = NoCopy
             ELSE disk[p] # NoCopy /\ (Stamp(disk[p]) = s \/ (disk[p].size = 0 /\ s.size = 0))
  PROVE  Line'
<1>1. UNCHANGED <<raw, made, last, writes, wrote, port, listed, table, heard, deaf>> /\ Current' = Current
  BY DEF Frame, Current
<1>2. main'[p].pc \notin {"get", "drop"} /\ (main'[p].entry = NoEntry \/ main'[p].entry = main[p].entry)
  BY DEF Idle
<1>3. (job'[p].phase = "fetch" <=> job[p].phase = "fetch") /\ (job[p].phase = "fetch" => job'[p] = job[p])
      /\ (job'[p].entry = NoEntry \/ job'[p].entry = job[p].entry)
      /\ (job'[p].phase = "hung" => job[p].phase = "hung")
  BY DEF NoJob
<1>4. Overtaken(p) => Overtaken(p)'
  BY <1>1, <1>3 DEF Overtaken
<1>5. Known(p) /\ Past(p) /\ Genuine(disk[p])
  BY HandFacts
<1>6. Known(p)'
  BY <1>4, <1>5, KnownStays
<1>7. Past(p)'
  BY <1>1, <1>2, <1>3, <1>5 DEF Past
<1>8. Genuine(disk[p])'
  BY <1>1, <1>5 DEF Genuine, Stamp
<1>9. \A s \in Stamps : View(p, s) => View(p, s)'
  BY <1>1, <1>2, <1>3 DEF View, Stamp
<1>10. InLine(p) => InLine(p)'
  BY <1>9, InLineStays
<1>11. Settled(p) => Overtaken(p)' \/ InLine(p)'
  BY <1>4, <1>10, HandFacts
<1> QED
  BY <1>6, <1>7, <1>8, <1>11, ThreadStep

LEMMA LineShow ==
  ASSUME SyncTypes, NEW p \in Peers, Line, Show(p)
  PROVE  Line'
<1>1. Frame(p) /\ p \in listed /\ UNCHANGED <<disk, down, up, job>> /\ main[p].pc = "show"
  BY FrameMain, Busy, HandFacts DEF MainThread, Show, network, disks
<1>2. main'[p] = Idle
  BY DEF Show, SyncTypes, ThreadTypes
<1> QED
  BY <1>1, <1>2, LineRests

LEMMA LineResume ==
  ASSUME SyncTypes, NEW p \in Peers, Line, Resume(p)
  PROVE  Line'
<1>1. Frame(p) /\ p \in listed /\ UNCHANGED <<disk, down, up>> /\ job[p].phase = "wait"
  BY FrameMain, Busy, HandFacts DEF MainThread, Resume, network, disks
<1>2. job'[p] = NoJob /\ main'[p] = IF main[p].pc = "wait" THEN Idle ELSE main[p]
  BY DEF Resume, SyncTypes, ThreadTypes
<1>3. CASE main[p].pc \notin {"get", "drop"}
  BY <1>1, <1>2, <1>3, LineRests
<1>4. CASE main[p].pc \in {"get", "drop"}
  <2>1. main'[p] = main[p] /\ job'[p].phase = "none" /\ job'[p].entry = NoEntry
    BY <1>2, <1>4 DEF NoJob
  <2>2. UNCHANGED <<raw, made, last, writes, wrote, port, listed, table, heard, deaf>>
    BY <1>1 DEF Frame
  <2>3. Known(p) /\ Past(p) /\ Genuine(disk[p])
    BY HandFacts
  <2>4. Overtaken(p) => Overtaken(p)'
    BY <1>1, <2>1, <2>2 DEF Overtaken
  <2>5. Known(p)'
    BY <1>1, <2>3, <2>4, KnownStays
  <2>6. Past(p)'
    BY <1>1, <2>1, <2>2, <2>3 DEF Past
  <2>7. Genuine(disk[p])'
    BY <1>1, <2>2, <2>3 DEF Genuine, Stamp
  <2>8. \A s \in Stamps : View(p, s) => View(p, s)'
    BY <1>1, <2>1, <2>2 DEF View, Stamp
  <2>9. InLine(p) => InLine(p)'
    BY <1>1, <2>8, InLineStays
  <2> QED
    BY <1>1, <2>4, <2>5, <2>6, <2>7, <2>9, HandFacts, ThreadStep
<1> QED
  BY <1>3, <1>4

\* A copy with the bytes of the entry has its stamp, or both are empty.
LEMMA BytesView ==
  ASSUME SyncTypes, NEW q \in Peers, Genuine(disk[q]), NEW e, SameBytes(disk[q], e)
  PROVE  disk[q] # NoCopy /\ (Stamp(disk[q]) = Stamp(e) \/ (disk[q].size = 0 /\ Stamp(e).size = 0))
<1>1. disk[q] # NoCopy /\ disk[q].size = e.size /\ (disk[q].size = 0 \/ Versions(e) = {disk[q].version})
  BY DEF SameBytes
<1>2. CASE disk[q].size = 0
  BY <1>1, <1>2 DEF Stamp
<1>3. CASE disk[q].size # 0
  <2>0. disk[q].size \in Nat
    BY DiskFacts
  <2>1. disk[q].size > 0
    BY <1>3, <2>0
  <2>2. wrote[disk[q].version] = Stamp(disk[q])
    BY <2>1 DEF Genuine
  <2>3. wrote[disk[q].version] = Stamp(e)
    BY <1>1, <1>3 DEF Versions
  <2> QED
    BY <1>1, <2>2, <2>3
<1> QED
  BY <1>2, <1>3

LEMMA LineSkip ==
  ASSUME SyncTypes, NEW p \in Peers, Line, Skip(p), Unharmed'
  PROVE  Line'
<1>1. Frame(p) /\ p \in listed /\ UNCHANGED <<disk, down, up, job>> /\ main[p].pc = "get" /\ job[p].phase # "none"
  BY FrameMain, Busy, HandFacts DEF MainThread, Skip, Marked, network, disks
<1>2. main'[p] = Idle
  BY DEF Skip, SyncTypes, ThreadTypes
<1>3. Coming(p, main[p].entry)
  BY DEF Skip, Unharmed
<1>4. main[p].entry \in Entries /\ main[p].entry # NoEntry /\ main[p].entry.mtime > 0 /\ main[p].entry.mtime \in Nat
  <2>1. main[p].entry # NoEntry
    BY <1>1 DEF SyncTypes, ThreadTypes
  <2> QED
    BY <2>1, PeerTypes, EntryFacts
<1>5. Genuine(disk[p])
  BY HandFacts
<1>6. ASSUME NEW s, s = Stamp(main[p].entry)
      PROVE  IF job[p].phase = "fetch" THEN Stamp(job[p].entry) = s
             ELSE IF s.mtime = 0 THEN disk[p] = NoCopy
             ELSE disk[p] # NoCopy /\ (Stamp(disk[p]) = s \/ (disk[p].size = 0 /\ s.size = 0))
  <2>1. CASE job[p].phase = "fetch"
    BY <1>3, <1>4, <1>6, <2>1 DEF Coming, Missed
  <2>2. CASE job[p].phase # "fetch"
    <3>1. SameBytes(disk[p], main[p].entry)
      BY <1>3, <2>2 DEF Coming
    <3>2. s.mtime > 0
      BY <1>4, <1>6 DEF Stamp
    <3>3. disk[p] # NoCopy /\ (Stamp(disk[p]) = s \/ (disk[p].size = 0 /\ s.size = 0))
      BY <1>5, <1>6, <3>1, BytesView
    <3> QED
      BY <2>2, <3>2, <3>3
  <2> QED
    BY <2>1, <2>2
<1> QED
  BY <1>1, <1>2, <1>6, LineRests

\* A completion tells of no change.
LEMMA ReportIs ==
  ASSUME SyncTypes, NEW p \in Peers, NEW e \in Entries, Report(p, e)
  PROVE  \E m \in Messages : /\ m.type = "FILE_UPDATE" /\ ~Tells(m) /\ m.n = 0
                             /\ up'[Address(p)] = Append(up[Address(p)], m)
<1> DEFINE ev == [action |-> "DOWNLOAD_COMPLETE", file |-> Info(e)]
           m == Message("FILE_UPDATE", <<ev>>, 0)
<1>1. ev \in Updates /\ ev.action = "DOWNLOAD_COMPLETE" /\ ev.file = Info(e)
  BY EntryFacts DEF Updates, FileEvent, Actions
<1>2. up' = [up EXCEPT ![Address(p)] = Append(@, m)]
  BY DEF Report, Send
<1> HIDE DEF ev
<1>3. m \in Messages /\ m.type = "FILE_UPDATE" /\ m.n = 0 /\ m.items = <<ev>> /\ m.items[1] = ev
  BY <1>1, UpdateMessage DEF Message
<1> HIDE DEF m
<1>4. ~Tells(m)
  BY <1>1, <1>3, KindFacts DEF Tells, Changes
<1>7. up'[Address(p)] = Append(up[Address(p)], m)
  BY <1>2, PeerTypes DEF SyncTypes, WireTypes, UpTypes
<1> QED
  BY <1>3, <1>4, <1>7

LEMMA LinePlace ==
  ASSUME SyncTypes, NEW p \in Peers, Line, NEW t \in Times, Place(p, t), Unharmed'
  PROVE  Line'
<1> DEFINE e == main[p].entry
<1>1. Frame(p) /\ p \in listed /\ down' = down /\ main[p].pc = "get" /\ job[p].phase = "none"
  BY FrameMain, Busy, HandFacts DEF MainThread, Place, Marked
<1>2. /\ disk'[p] = [mtime |-> t, size |-> 0, version |-> 0] /\ t \in {now, now + 1}
      /\ job'[p] = [phase |-> IF e.size = 0 THEN "wait" ELSE "fetch", entry |-> e, heard |-> main[p].heard]
      /\ main'[p] = IF e.size = 0 THEN [Idle EXCEPT !.pc = "wait"] ELSE Idle
      /\ IF e.size = 0 THEN Report(p, e) ELSE UNCHANGED up
  BY DEF Place, InSecond, SyncTypes, DiskTypes, ThreadTypes
<1>3. ~News(p, main[p].heard)
  BY DEF Place, Overwrites, Unharmed
<1>4. /\ made[p] \in Nat /\ heard[p] \in Nat /\ heard[p] <= made[p] /\ main[p].heard \in Nat
      /\ t \in Nat /\ t > 0 /\ \A i \in DOMAIN down[p] : down[p][i].heard \in Nat
  <2>1. now \in Nat /\ now > 0
    BY CountFacts
  <2>2. t \in Nat /\ t > 0
    BY <1>2, <2>1
  <2> QED
    BY <2>2, PeerTypes, TableFacts
<1>5. Past(p)
  BY HandFacts
<1>6. main[p].heard = made[p] /\ heard[p] = made[p]
  BY <1>1, <1>3, <1>4, <1>5 DEF News, Past
<1>7. UNCHANGED <<raw, made, writes, listed, heard>>
  BY <1>1 DEF Frame
<1>8. e \in Entries /\ e # NoEntry /\ e.mtime \in Nat /\ e.mtime > 0
  <2>1. e \in Entries /\ e # NoEntry
    BY <1>1, PeerTypes DEF SyncTypes, ThreadTypes
  <2> QED
    BY <2>1, EntryFacts
<1> HIDE DEF e
<1>9. /\ disk'[p].mtime = t /\ disk'[p].size = 0
      /\ main'[p].pc \notin {"get", "drop"} /\ main'[p].entry = NoEntry
      /\ job'[p].phase = (IF e.size = 0 THEN "wait" ELSE "fetch") /\ job'[p].entry = e /\ job'[p].heard = made[p]
  BY <1>2, <1>6 DEF Idle
<1>10. disk'[p] # NoCopy
  BY <1>4, <1>9 DEF NoCopy
<1>11. Known(p)'
  BY <1>1, <1>6, <1>7 DEF Known, Settled
<1>12. Past(p)'
  BY <1>1, <1>4, <1>5, <1>6, <1>7, <1>9, <1>10 DEF Past
<1>13. Genuine(disk[p])'
  BY <1>9 DEF Genuine
<1>14. InLine(p)'
  <2>1. ~Overtaken(p)
    BY <1>1, <1>4, <1>5, <1>6 DEF Overtaken, Past
  <2>2. InLine(p)
    BY <1>1, <1>6, <2>1, HandFacts DEF Settled
  <2>3. ASSUME NEW s \in Stamps, View(p, s) PROVE View(p, s)'
    <3>1. Stamp(e) = s
      BY <1>1, <1>6, <2>3 DEF View, e
    <3>2. s.mtime # 0 /\ e.size = s.size
      BY <1>8, <3>1 DEF Stamp
    <3>3. CASE e.size = 0
      BY <1>9, <1>10, <3>2, <3>3 DEF View
    <3>4. CASE e.size # 0
      BY <1>9, <3>1, <3>4 DEF View, Stamp
    <3> QED
      BY <3>3, <3>4
  <2> QED
    BY <1>1, <2>2, <2>3, InLineStays
<1>15. \/ up'[Address(p)] = up[Address(p)]
       \/ \E m \in Messages : /\ m.type = "FILE_UPDATE" /\ ~Tells(m) /\ m.n = 0
                              /\ up'[Address(p)] = Append(up[Address(p)], m)
  BY <1>2, <1>8, ReportIs
<1> QED
  BY <1>1, <1>6, <1>11, <1>12, <1>13, <1>14, <1>15, ThreadStep

LEMMA LineFetch ==
  ASSUME SyncTypes, NEW p \in Peers, NEW q \in Peers, Line, Fetch(p, q), Unharmed'
  PROVE  Line'
<1> DEFINE e == job[p].entry
           version == IF disk[q].size = e.size THEN disk[q].version ELSE 0
<1>1. Frame(p) /\ p \in listed /\ down' = down /\ main' = main /\ job[p].phase = "fetch"
  BY FrameMain, Busy, HandFacts DEF Fetch
<1>2. /\ \/ disk' = [disk EXCEPT ![p] = [mtime |-> e.mtime, size |-> e.size, version |-> version]]
         \/ disk[p] = NoCopy
      /\ harm' = harm \cup Overwrites(p, job[p].heard) \cup (IF Versions(e) = {version} THEN {} ELSE {"mixed"})
      /\ Report(p, e) /\ job' = [job EXCEPT ![p].phase = "wait"]
  BY DEF Fetch
<1>3. ~News(p, job[p].heard) /\ Versions(e) = {version}
  <2>1. "overwritten" \notin harm' /\ "mixed" \notin harm'
    BY DEF Unharmed
  <2> HIDE DEF version, e
  <2>2. Versions(e) = {version}
    BY <1>2, <2>1
  <2> QED
    BY <1>2, <2>1, <2>2 DEF Overwrites
<1> HIDE DEF version
<1>4. /\ made[p] \in Nat /\ heard[p] \in Nat /\ heard[p] <= made[p] /\ job[p].heard \in Nat
      /\ writes \in Nat /\ \A i \in DOMAIN down[p] : down[p][i].heard \in Nat
  BY PeerTypes, TableFacts
<1>5. Past(p)
  BY HandFacts
<1>6. job[p].heard = made[p] /\ heard[p] = made[p] /\ disk[p] # NoCopy
  BY <1>1, <1>3, <1>4, <1>5 DEF News, Past
<1>7. UNCHANGED <<raw, made, writes, wrote, listed, heard>>
  BY <1>1 DEF Frame
<1>8. e \in Entries /\ e # NoEntry /\ e.mtime \in Nat /\ e.mtime > 0 /\ e.size \in Nat
  <2>1. e \in Entries /\ e # NoEntry
    BY <1>1, PeerTypes DEF SyncTypes, ThreadTypes
  <2> QED
    BY <2>1, EntryFacts
<1> HIDE DEF e
<1>9. /\ disk'[p].mtime = e.mtime /\ disk'[p].size = e.size /\ disk'[p].version = version
      /\ job'[p].phase = "wait" /\ job'[p].entry = e /\ main'[p] = main[p]
  <2>1. disk'[p] = [mtime |-> e.mtime, size |-> e.size, version |-> version]
    BY <1>2, <1>6 DEF SyncTypes, DiskTypes
  <2>2. job'[p].phase = "wait" /\ job'[p].entry = e
    BY <1>2 DEF SyncTypes, ThreadTypes, e
  <2> QED
    BY <1>1, <2>1, <2>2
<1>10. disk'[p] # NoCopy
  BY <1>8, <1>9 DEF NoCopy
<1>11. Known(p)'
  BY <1>1, <1>6, <1>7 DEF Known, Settled
<1>12. Past(p)'
  BY <1>1, <1>5, <1>7, <1>9, <1>10 DEF Past
<1>13. Genuine(disk[p])'
  <2>1. version \in 1..writes /\ wrote[version] = Stamp(e)
    BY <1>3 DEF Versions
  <2>2. Stamp(disk'[p]) = Stamp(e)
    BY <1>9 DEF Stamp
  <2> QED
    BY <1>7, <1>9, <2>1, <2>2 DEF Genuine, Stamp
<1>14. Settled(p) => Overtaken(p)' \/ InLine(p)'
  <2>1. Overtaken(p) => Overtaken(p)'
    BY <1>1, <1>4, <1>6, <1>7, <1>10 DEF Overtaken
  <2>2. ASSUME NEW s \in Stamps, View(p, s) PROVE View(p, s)'
    <3>1. CASE main[p].pc \in {"get", "drop"} /\ main[p].heard = made[p]
      BY <1>7, <1>9, <2>2, <3>1 DEF View, Stamp
    <3>2. CASE ~(main[p].pc \in {"get", "drop"} /\ main[p].heard = made[p])
      <4>1. Stamp(e) = s
        BY <1>1, <2>2, <3>2 DEF View, e
      <4>2. Stamp(disk'[p]) = s /\ s.mtime # 0
        BY <1>8, <1>9, <4>1 DEF Stamp
      <4> QED
        BY <1>7, <1>9, <1>10, <3>2, <4>2 DEF View, Stamp
    <3> QED
      BY <3>1, <3>2
  <2>3. InLine(p) => InLine(p)'
    BY <1>1, <2>2, InLineStays
  <2> QED
    BY <2>1, <2>3, HandFacts
<1>15. \E m \in Messages : /\ m.type = "FILE_UPDATE" /\ ~Tells(m) /\ m.n = 0
                           /\ up'[Address(p)] = Append(up[Address(p)], m)
  BY <1>2, <1>8, ReportIs DEF e
<1> QED
  BY <1>1, <1>6, <1>11, <1>12, <1>13, <1>14, <1>15, ThreadStep
----------------------------------------------------------------------------
\* What p observes goes from one queue to the other.
LEMMA ObserveFacts ==
  ASSUME SyncTypes, NEW p \in Peers, Observe(p), Unharmed'
  PROVE  /\ Only(p) /\ disk'[p] = disk[p] /\ made'[p] = made[p] /\ heard'[p] = heard[p] /\ down'[p] = down[p]
         /\ main'[p] = main[p] /\ job'[p] = job[p] /\ UNCHANGED <<port, listed, writes, wrote, table>>
         /\ raw[p] # <<>> /\ raw'[p] = Tail(raw[p])
         /\ \A a \in Addrs \ {Address(p)} : up'[a] = up[a]
         /\ \/ Head(raw[p]).action # "FILE_DELETED" /\ disk[p] = NoCopy /\ up' = up
            \/ \E m \in Messages :
                 /\ m.type = "FILE_UPDATE" /\ m.n = Head(raw[p]).n /\ Kind(m) = Head(raw[p]).action
                 /\ File(m) = Info(IF Kind(m) = "FILE_DELETED" THEN NoCopy ELSE disk[p])
                 /\ Kind(m) # "FILE_DELETED" => disk[p] # NoCopy
                 /\ up'[Address(p)] = Append(up[Address(p)], m)
<1> DEFINE e == Head(raw[p])
           deleted == e.action = "FILE_DELETED"
           ignored == IF deleted THEN main[p].pc = "show" ELSE Marked(p)
           event == [action |-> e.action, file |-> Info(IF deleted THEN NoCopy ELSE disk[p])]
           m == Message("FILE_UPDATE", <<event>>, e.n)
<1>1. /\ raw[p] # <<>> /\ raw' = [raw EXCEPT ![p] = Tail(@)]
      /\ UNCHANGED <<disk, made, last, writes, wrote, acts, overlap, down, port, listed, table, heard, main, job, deaf>>
  BY DEF Observe, tracker, clock
<1>2. \/ ~deleted /\ disk[p] = NoCopy /\ UNCHANGED <<up, harm>>
      \/ harm' = harm \cup {"ignored"} /\ (deleted \/ disk[p] # NoCopy)
      \/ Send(Address(p), m) /\ (deleted \/ disk[p] # NoCopy)
  BY DEF Observe
<1>3. e \in [action : Changes, n : Nat]
  <2>1. raw[p] \in Seq([action : Changes, n : Nat])
    BY PeerTypes
  <2>2. raw[p] # <<>>
    BY <1>1
  <2>3. raw[p][1] \in [action : Changes, n : Nat] /\ Head(raw[p]) = raw[p][1]
    BY <2>1, <2>2, Tailed
  <2> QED
    BY <2>3
<1>4. /\ deleted \/ disk[p] # NoCopy => event \in Updates
      /\ event.action = e.action /\ event.file = Info(IF deleted THEN NoCopy ELSE disk[p])
  <2> SUFFICES ASSUME deleted \/ disk[p] # NoCopy PROVE event \in Updates
    OBVIOUS
  <2>1. disk[p] \in Copies /\ (disk[p] # NoCopy => disk[p].mtime > 0)
    BY DiskFacts
  <2> DEFINE c == IF deleted THEN NoCopy ELSE disk[p]
  <2>2. c \in Copies /\ (~deleted => c.mtime > 0)
    BY <2>1, CopyFacts
  <2>3. event.action = e.action /\ event.file = Info(c) /\ event = [action |-> e.action, file |-> Info(c)]
    OBVIOUS
  <2> HIDE DEF c
  <2>4. Info(c) \in FileInfo /\ ~Info(c).dir /\ Info(c).mtime = c.mtime
    BY <2>2, CopyFacts
  <2> HIDE DEF event
  <2>5. event.action \in Actions
    BY <1>3, <2>3 DEF Changes, Actions
  <2>6. event \in FileEvent
    BY <2>3, <2>4, <2>5 DEF FileEvent
  <2>7. event.action \in {"FILE_CREATED", "FILE_MODIFIED"} => event.file.mtime > 0
    BY <2>2, <2>3, <2>4
  <2> QED
    BY <2>3, <2>4, <2>6, <2>7 DEF Updates
<1>5. raw'[p] = Tail(raw[p]) /\ \A q \in Peers \ {p} : raw'[q] = raw[q]
  BY <1>1 DEF SyncTypes, DiskTypes
<1>6. CASE ~deleted /\ disk[p] = NoCopy
  <2>1. up' = up
    BY <1>2, <1>6
  <2>2. Only(p)
    BY <1>1, <1>5, <2>1 DEF Only
  <2> QED
    BY <1>1, <1>5, <1>6, <2>1, <2>2
<1>7. CASE deleted \/ disk[p] # NoCopy
  <2>1. Send(Address(p), m)
    <3> HIDE DEF ignored, m
    <3>1. "ignored" \notin harm'
      BY DEF Unharmed
    <3> QED
      BY <1>2, <1>7, <3>1
  <2> HIDE DEF event
  <2>2. m \in Messages /\ m.type = "FILE_UPDATE" /\ m.n = e.n /\ m.items = <<event>> /\ m.items[1] = event
    BY <1>3, <1>4, <1>7, UpdateMessage DEF Message
  <2> HIDE DEF m
  <2>3. Kind(m) = e.action /\ File(m) = event.file
    BY <1>4, <1>7, <2>2, KindFacts DEF File
  <2>4. up' = [up EXCEPT ![Address(p)] = Append(@, m)] /\ Address(p) \in Addrs /\ Address(p)[1] = p
        /\ up \in [Addrs -> Seq(Messages)]
    BY <2>1, PeerTypes DEF Send, SyncTypes, WireTypes, UpTypes
  <2>5. up'[Address(p)] = Append(up[Address(p)], m) /\ \A a \in Addrs \ {Address(p)} : up'[a] = up[a]
    BY <2>4
  <2>6. Only(p)
    BY <1>1, <1>5, <2>4, <2>5 DEF Only
  <2> QED
    BY <1>1, <1>4, <1>5, <1>7, <2>2, <2>3, <2>5, <2>6
<1> QED
  BY <1>6, <1>7

LEMMA RawFacts ==
  ASSUME SyncTypes, NEW p \in Peers, Ordered(p), raw[p] # <<>>
  PROVE  /\ Len(raw[p]) \in Nat /\ Len(raw[p]) > 0 /\ made[p] \in Nat /\ heard[p] \in Nat
         /\ Head(raw[p]).n = made[p] - Len(raw[p]) + 1 /\ Head(raw[p]).action \in Changes
         /\ Head(raw[p]).n \in Nat /\ Head(raw[p]).n > heard[p] /\ ~Settled(p)
         /\ \A i \in DOMAIN raw[p] : raw[p][i] \in [action : Changes, n : Nat]
         /\ raw[p] = <<Head(raw[p])>> \o Tail(raw[p])
<1>1. raw[p] \in Seq([action : Changes, n : Nat]) /\ made[p] \in Nat /\ heard[p] \in Nat
  BY PeerTypes
<1>2. /\ Len(raw[p]) \in Nat /\ Len(raw[p]) > 0 /\ Head(raw[p]) = raw[p][1] /\ 1 \in DOMAIN raw[p]
      /\ raw[p][1] \in [action : Changes, n : Nat] /\ DOMAIN raw[p] = 1..Len(raw[p])
  <2>1. PICK s \in Seq([action : Changes, n : Nat]) : s = raw[p]
    BY <1>1
  <2>2. /\ Len(s) \in Nat /\ Len(s) > 0 /\ Head(s) = s[1]
        /\ s[1] \in [action : Changes, n : Nat] /\ DOMAIN s = 1..Len(s)
    BY <2>1, Tailed
  <2>3. 1 \in DOMAIN s
    BY <2>2
  <2> QED
    BY <2>1, <2>2, <2>3
<1>3. raw[p][1].n = made[p] - Len(raw[p]) + 1 /\ heard[p] <= made[p] - Len(raw[p])
  BY <1>2 DEF Ordered
<1>4. heard[p] < made[p] /\ raw[p][1].n > heard[p]
  BY <1>1, <1>2, <1>3
<1>5. \A i \in DOMAIN raw[p] : raw[p][i] \in [action : Changes, n : Nat]
  BY <1>1, Elements
<1>6. raw[p] = <<Head(raw[p])>> \o Tail(raw[p])
  BY <1>1
<1> QED
  BY <1>1, <1>2, <1>3, <1>4, <1>5, <1>6 DEF Settled

LEMMA LineObserve ==
  ASSUME SyncTypes, NEW p \in Peers, Line, Observe(p), Unharmed'
  PROVE  Line'
<1> DEFINE e == Head(raw[p])
           r == Len(raw[p])
           l == Len(Wire(p))
<1>1. /\ Only(p) /\ disk'[p] = disk[p] /\ made'[p] = made[p] /\ heard'[p] = heard[p] /\ down'[p] = down[p]
      /\ main'[p] = main[p] /\ job'[p] = job[p] /\ UNCHANGED <<port, listed, writes, wrote, table>>
      /\ raw[p] # <<>> /\ raw'[p] = Tail(raw[p])
      /\ \A a \in Addrs \ {Address(p)} : up'[a] = up[a]
  BY ObserveFacts
<1>2. Connected(p) /\ Ordered(p) /\ LastTold(p) /\ Known(p) /\ Past(p) /\ Genuine(disk[p])
  BY HandFacts
<1>3. /\ r \in Nat /\ r > 0 /\ made[p] \in Nat /\ heard[p] \in Nat /\ e.n = made[p] - r + 1
      /\ e.action \in Changes /\ e.n \in Nat /\ e.n > heard[p] /\ ~Settled(p)
  BY <1>1, <1>2, RawFacts
<1>4. /\ DOMAIN raw[p] = 1..r /\ DOMAIN raw'[p] = 1..(r - 1) /\ Len(raw'[p]) = r - 1 /\ e = raw[p][1]
      /\ \A i \in 1..(r - 1) : i + 1 \in 1..r /\ raw'[p][i] = raw[p][i + 1]
  BY <1>1, PeerTypes, Tailed
<1>5. /\ Wire(p) \in Seq(Messages) /\ l \in Nat /\ DOMAIN Wire(p) = 1..l
      /\ Address(p) \in Addrs /\ Address(p)' = Address(p) /\ Address(p)[1] = p
      /\ \A i \in 1..l : Wire(p)[i] \in Messages /\ Wire(p)[i].n \in Nat
  <2>1. Wire(p) \in Seq(Messages) /\ Address(p) \in Addrs /\ Address(p)' = Address(p) /\ Address(p)[1] = p
    BY <1>1, PeerTypes DEF Address
  <2>2. l \in Nat /\ DOMAIN Wire(p) = 1..l /\ \A i \in 1..l : Wire(p)[i] \in Messages
    BY <2>1, Elements
  <2> QED
    BY <2>1, <2>2, MessageIs
<1> HIDE DEF e, r, l
<1>6. ~Settled(p)'
  BY <1>1, <1>3 DEF Settled
<1>7. Past(p)' /\ (Overtaken(p) => Overtaken(p)') /\ Current' = Current
  BY <1>1, <1>2 DEF Past, Overtaken, Current
<1>8. Genuine(disk[p])' /\ Named'
  <2>1. Genuine(disk[p])'
    BY <1>1, <1>2 DEF Genuine, Stamp
  <2>2. Named'
    BY <1>1 DEF Line, Named, Current, Address
  <2> QED
    BY <2>1, <2>2
<1>9. heard[p] <= made[p] - (r - 1) /\ \A i \in 1..(r - 1) : raw'[p][i].n = made[p] - (r - 1) + i
  <2>1. heard[p] <= made[p] - r /\ \A i \in 1..r : raw[p][i].n = made[p] - r + i
    BY <1>2, <1>4 DEF Ordered, r
  <2>2. ASSUME NEW i \in 1..(r - 1) PROVE raw'[p][i].n = made[p] - (r - 1) + i
    <3>1. raw'[p][i].n = made[p] - r + (i + 1)
      BY <1>4, <2>1
    <3> QED
      BY <1>3, <3>1
  <2>3. heard[p] <= made[p] - (r - 1)
    BY <1>3, <2>1
  <2> QED
    BY <2>2, <2>3
<1>10. \A i \in 1..l : Tells(Wire(p)[i]) =>
         /\ Wire(p)[i].n <= made[p] - r /\ Wire(p)[i].n < e.n /\ Wire(p)[i].n # made[p]
         /\ Wire(p)[i].n <= made[p] - (r - 1)
         /\ p \in listed => Wire(p)[i].n > heard[p]
         /\ \A j \in 1..(i - 1) : Tells(Wire(p)[j]) => Wire(p)[j].n < Wire(p)[i].n
  <2> SUFFICES ASSUME NEW i \in 1..l, Tells(Wire(p)[i])
               PROVE  /\ Wire(p)[i].n <= made[p] - r /\ Wire(p)[i].n < e.n /\ Wire(p)[i].n # made[p]
                      /\ Wire(p)[i].n <= made[p] - (r - 1)
                      /\ p \in listed => Wire(p)[i].n > heard[p]
                      /\ \A j \in 1..(i - 1) : Tells(Wire(p)[j]) => Wire(p)[j].n < Wire(p)[i].n
    OBVIOUS
  <2>1. Wire(p)[i].n <= made[p] - r /\ Wire(p)[i].n \in Nat
    BY <1>2, <1>5 DEF Ordered, r
  <2>2. Wire(p)[i].n < e.n /\ Wire(p)[i].n # made[p] /\ Wire(p)[i].n <= made[p] - (r - 1)
    BY <1>3, <2>1
  <2> QED
    BY <1>2, <1>5, <2>1, <2>2 DEF Ordered
<1>11. (raw'[p] # <<>> <=> r > 1) /\ (r > 1 => raw'[p][r - 1].action = "FILE_DELETED" <=> disk[p] = NoCopy)
       /\ (r = 1 => (e.action = "FILE_DELETED" <=> disk[p] = NoCopy))
  <2>1. raw[p][r].action = "FILE_DELETED" <=> disk[p] = NoCopy
    BY <1>1, <1>2 DEF LastTold, r
  <2>2. raw'[p] # <<>> <=> r > 1
    <3>1. raw[p] \in Seq([action : Changes, n : Nat])
      BY PeerTypes
    <3>2. raw'[p] \in Seq([action : Changes, n : Nat])
      BY <1>1, <3>1, Tailed
    <3> QED
      BY <1>3, <1>4, <3>2
  <2>3. r > 1 => raw'[p][r - 1] = raw[p][r]
    <3>1. r > 1 => r - 1 \in 1..(r - 1) /\ (r - 1) + 1 = r
      BY <1>3
    <3> QED
      BY <1>4, <3>1
  <2> QED
    BY <1>4, <2>1, <2>2, <2>3
<1>12. CASE e.action # "FILE_DELETED" /\ disk[p] = NoCopy /\ up' = up
  <2>1. Wire(p)' = Wire(p) /\ r > 1
    <3>1. Wire(p)' = Wire(p)
      BY <1>5, <1>12 DEF Wire
    <3> QED
      BY <1>3, <1>11, <1>12, <3>1
  <2>2. Connected(p)'
    BY <1>1, <1>2, <1>5, <1>12, <2>1 DEF Connected, Tells, Kind
  <2>3. Ordered(p)'
    BY <1>1, <1>4, <1>5, <1>9, <1>10, <2>1 DEF Ordered, Tells, Kind
  <2>4. LastTold(p)'
    BY <1>1, <1>4, <1>5, <1>10, <1>11, <1>12, <2>1 DEF LastTold, Tells, Kind
  <2>5. Known(p)'
    BY <1>1, <1>12 DEF Known
  <2>6. PeerLine(p)'
    BY <1>6, <1>7, <1>8, <2>2, <2>3, <2>4, <2>5 DEF PeerLine
  <2>8. writes' \in Nat /\ writes <= writes'
    BY <1>1, CountFacts
  <2> QED
    BY <1>1, <1>8, <2>6, <2>8, OwnStep
<1>13. ASSUME NEW m \in Messages, m.type = "FILE_UPDATE", m.n = e.n, Kind(m) = e.action,
              File(m) = Info(IF Kind(m) = "FILE_DELETED" THEN NoCopy ELSE disk[p]),
              Kind(m) # "FILE_DELETED" => disk[p] # NoCopy,
              up'[Address(p)] = Append(up[Address(p)], m)
       PROVE  Line'
  <2>1. Wire(p)' = Append(Wire(p), m) /\ Tells(m)
    BY <1>3, <1>5, <1>13 DEF Wire, Tells
  <2>2. /\ DOMAIN Wire(p)' = 1..(l + 1) /\ Wire(p)'[l + 1] = m /\ (\A i \in 1..l : Wire(p)'[i] = Wire(p)[i])
        /\ Wire(p)' # <<>>
    BY <1>5, <2>1, Appended DEF l
  <2>3. \A i \in 1..(l + 1) : i \in 1..l \/ i = l + 1
    BY <1>5
  <2>4. p \notin listed => l > 0 /\ 1 \in 1..l
    <3>1. p \notin listed => Wire(p) # <<>>
      BY <1>2 DEF Connected
    <3>2. Wire(p) # <<>> => l > 0
      BY <1>5 DEF l
    <3> QED
      BY <1>5, <3>1, <3>2
  <2>5. Connected(p)'
    <3>1. \A i \in DOMAIN Wire(p)' : /\ Wire(p)'[i].type = "REGISTER" <=> (i = 1 /\ p \notin listed)
                                     /\ ~Tells(Wire(p)'[i]) => Wire(p)'[i].n = 0
      BY <1>2, <1>5, <1>13, <2>1, <2>2, <2>3, <2>4 DEF Connected
    <3>2. p \notin listed => /\ Wire(p)' # <<>> /\ heard'[p] <= Wire(p)'[1].n
                             /\ down'[p] = <<>> /\ main'[p].pc = "idle" /\ job'[p].phase = "none"
      BY <1>1, <1>2, <2>2, <2>4 DEF Connected
    <3>3. \A a \in Addrs : a[1] = p /\ a # Address(p) =>
            \A i \in DOMAIN up'[a] : up'[a][i].n <= IF p \in listed THEN heard'[p] ELSE Wire(p)'[1].n
      BY <1>1, <1>2, <2>2, <2>4 DEF Connected
    <3> QED
      BY <1>1, <1>5, <3>1, <3>2, <3>3 DEF Connected, Tells, Kind
  <2>6. Ordered(p)'
    <3>1. ASSUME NEW i \in DOMAIN Wire(p)', Tells(Wire(p)'[i])
          PROVE  /\ Wire(p)'[i].n <= made[p] - (r - 1)
                 /\ p \in listed => Wire(p)'[i].n > heard[p]
                 /\ \A j \in 1..(i - 1) : Tells(Wire(p)'[j]) => Wire(p)'[j].n < Wire(p)'[i].n
      <4>1. CASE i \in 1..l
        <5>1. \A j \in 1..(i - 1) : j \in 1..l
          BY <1>5, <4>1
        <5> QED
          BY <1>10, <2>2, <3>1, <4>1, <5>1
      <4>2. CASE i = l + 1
        <5>1. \A j \in 1..(i - 1) : j \in 1..l
          BY <1>5, <4>2
        <5>2. Wire(p)'[i].n = e.n /\ e.n <= made[p] - (r - 1)
          BY <1>3, <1>13, <2>2, <4>2
        <5> QED
          BY <1>3, <1>10, <2>2, <5>1, <5>2
      <4> QED
        BY <2>2, <2>3, <4>1, <4>2
    <3> QED
      BY <1>1, <1>4, <1>9, <3>1 DEF Ordered, Tells, Kind
  <2>7. ASSUME NEW kind \in Changes, NEW n PROVE Awaits(p, kind, n)' <=> Awaits(p, kind, n)
    <3>1. (\E i \in DOMAIN Wire(p)' : Wire(p)'[i].n = n /\ Kind(Wire(p)'[i]) = kind)
          <=> \/ \E i \in DOMAIN Wire(p) : Wire(p)[i].n = n /\ Kind(Wire(p)[i]) = kind
              \/ e.n = n /\ e.action = kind
      <4>1. ASSUME NEW i \in 1..(l + 1), Wire(p)'[i].n = n, Kind(Wire(p)'[i]) = kind
            PROVE  (\E j \in 1..l : Wire(p)[j].n = n /\ Kind(Wire(p)[j]) = kind) \/ (e.n = n /\ e.action = kind)
        <5>1. CASE i \in 1..l
          BY <2>2, <4>1, <5>1
        <5>2. CASE i = l + 1
          BY <1>13, <2>2, <4>1, <5>2
        <5> QED
          BY <2>3, <5>1, <5>2
      <4>2. ASSUME NEW j \in 1..l, Wire(p)[j].n = n, Kind(Wire(p)[j]) = kind
            PROVE  \E i \in 1..(l + 1) : Wire(p)'[i].n = n /\ Kind(Wire(p)'[i]) = kind
        <5>1. j \in 1..(l + 1)
          BY <1>5
        <5> QED
          BY <2>2, <4>2, <5>1
      <4>3. e.n = n /\ e.action = kind => \E i \in 1..(l + 1) : Wire(p)'[i].n = n /\ Kind(Wire(p)'[i]) = kind
        <5>1. l + 1 \in 1..(l + 1)
          BY <1>5
        <5> QED
          BY <1>13, <2>2, <5>1
      <4>4. DOMAIN Wire(p) = 1..l /\ DOMAIN Wire(p)' = 1..(l + 1)
        BY <1>5, <2>2
      <4> QED
        BY <4>1, <4>2, <4>3, <4>4
    <3>2. (\E i \in DOMAIN raw[p] : raw[p][i] = [action |-> kind, n |-> n])
          <=> \/ \E i \in DOMAIN raw'[p] : raw'[p][i] = [action |-> kind, n |-> n]
              \/ e = [action |-> kind, n |-> n]
      <4>1. PICK x : x = [action |-> kind, n |-> n]
        OBVIOUS
      <4>2. ASSUME NEW i \in 1..r, raw[p][i] = x PROVE e = x \/ \E j \in 1..(r - 1) : raw'[p][j] = x
        <5>1. CASE i = 1
          BY <1>4, <4>2, <5>1
        <5>2. CASE i # 1
          <6>1. i - 1 \in 1..(r - 1) /\ (i - 1) + 1 = i
            BY <1>3, <5>2
          <6> QED
            BY <1>4, <4>2, <6>1
        <5> QED
          BY <5>1, <5>2
      <4>3. ASSUME NEW j \in 1..(r - 1), raw'[p][j] = x PROVE \E i \in 1..r : raw[p][i] = x
        BY <1>4, <4>3
      <4>4. e = x => \E i \in 1..r : raw[p][i] = x
        <5>1. 1 \in 1..r
          BY <1>3
        <5> QED
          BY <1>4, <5>1
      <4> QED
        BY <1>4, <4>1, <4>2, <4>3, <4>4
    <3>3. e = [action |-> kind, n |-> n] <=> e.n = n /\ e.action = kind
      <4>1. e \in [action : Changes, n : Nat]
        BY <1>1, <1>4, PeerTypes, Tailed
      <4>2. e = [action |-> e.action, n |-> e.n]
        BY <4>1
      <4> QED
        BY <4>2
    <3> QED
      BY <3>1, <3>2, <3>3 DEF Awaits, Kind
  <2>8. LastTold(p)'
    <3>1. ASSUME NEW i \in DOMAIN Wire(p)', Tells(Wire(p)'[i]), Wire(p)'[i].n = made[p]
          PROVE  IF Kind(Wire(p)'[i]) = "FILE_DELETED" THEN disk[p] = NoCopy
                 ELSE disk[p] # NoCopy /\ File(Wire(p)'[i]) = Info(disk[p])
      <4>1. i = l + 1 /\ Wire(p)'[i] = m
        BY <1>10, <2>2, <2>3, <3>1
      <4>2. r = 1
        BY <1>3, <1>13, <3>1, <4>1
      <4> QED
        BY <1>11, <1>13, <4>1, <4>2
    <3>2. raw'[p] # <<>> \/ \E i \in DOMAIN Wire(p)' : Tells(Wire(p)'[i]) /\ Wire(p)'[i].n = made[p]
      <4>1. r = 1 => m.n = made[p]
        BY <1>3, <1>13
      <4>2. l + 1 \in DOMAIN Wire(p)'
        BY <1>5, <2>2
      <4> QED
        BY <1>3, <1>11, <2>1, <2>2, <4>1, <4>2
    <3>3. \A n \in Nat : /\ Awaits(p, "FILE_DELETED", n)' <=> Awaits(p, "FILE_DELETED", n)
                         /\ Awaits(p, "FILE_CREATED", n)' <=> Awaits(p, "FILE_CREATED", n)
      BY <2>7 DEF Changes
    <3>4. disk[p] # NoCopy =>
            \A n \in Nat : Awaits(p, "FILE_DELETED", n)' => \E k \in Nat : k > n /\ Awaits(p, "FILE_CREATED", k)'
      BY <1>2, <3>3 DEF LastTold
    <3>5. raw'[p] # <<>> => (raw'[p][Len(raw'[p])].action = "FILE_DELETED" <=> disk[p] = NoCopy)
      BY <1>4, <1>11
    <3> QED
      BY <1>1, <3>1, <3>2, <3>4, <3>5 DEF LastTold, Tells, Kind, File
  <2>9. Known(p)'
    <3>1. \A n \in Nat : Awaits(p, "FILE_CREATED", n)' <=> Awaits(p, "FILE_CREATED", n)
      BY <2>7 DEF Changes
    <3> QED
      BY <1>1, <1>2, <1>3, <1>7, <3>1 DEF Known
  <2>10. PeerLine(p)'
    BY <1>6, <1>7, <1>8, <2>5, <2>6, <2>8, <2>9 DEF PeerLine
  <2>13. writes' \in Nat /\ writes <= writes'
    BY <1>1, CountFacts
  <2> QED
    BY <1>1, <1>8, <2>10, <2>13, OwnStep
<1> QED
  BY <1>12, <1>13, ObserveFacts DEF e
----------------------------------------------------------------------------
\* A user changes the file of p: nobody has heard of that yet.
LEMMA LineChanged ==
  ASSUME SyncTypes, NEW p \in Peers, Line, NEW copy \in Copies, NEW kind \in Changes,
         Changed(p, copy, kind), writes' \in Nat, writes <= writes',
         \A k \in 1..writes : wrote'[k] = wrote[k], Genuine(copy)',
         kind = "FILE_DELETED" <=> copy = NoCopy,
         disk[p] = NoCopy => kind = "FILE_CREATED"
  PROVE  Line'
<1> DEFINE r == Len(raw[p])
           new == [action |-> kind, n |-> made[p] + 1]
<1>1. /\ disk'[p] = copy /\ raw'[p] = Append(raw[p], new) /\ made'[p] = made[p] + 1
      /\ \A q \in Peers \ {p} : disk'[q] = disk[q] /\ raw'[q] = raw[q] /\ made'[q] = made[q]
      /\ UNCHANGED <<up, down, port, listed, table, heard, main, job>>
  BY DEF Changed, network, tracker, SyncTypes, DiskTypes
<1>2. Only(p) /\ Current' = Current /\ Address(p)' = Address(p) /\ Wire(p)' = Wire(p)
  BY <1>1 DEF Only, Current, Address, Wire
<1>3. Connected(p) /\ Ordered(p) /\ LastTold(p) /\ Known(p) /\ Past(p)
      /\ (Settled(p) => Overtaken(p) \/ InLine(p))
  BY HandFacts
<1>4. /\ made[p] \in Nat /\ heard[p] \in Nat /\ heard[p] <= made[p] /\ main[p].heard \in Nat /\ job[p].heard \in Nat
      /\ writes \in Nat /\ \A i \in DOMAIN down[p] : down[p][i].heard \in Nat
  BY PeerTypes, TableFacts
<1>5. new.action = kind /\ new.n = made[p] + 1 /\ new \in [action : Changes, n : Nat]
  BY <1>4
<1> HIDE DEF new
<1>6. /\ r \in Nat /\ DOMAIN raw[p] = 1..r /\ DOMAIN raw'[p] = 1..(r + 1) /\ Len(raw'[p]) = r + 1
      /\ raw'[p] # <<>> /\ raw'[p][r + 1] = new /\ \A i \in 1..r : raw'[p][i] = raw[p][i]
  <2>1. raw[p] \in Seq([action : Changes, n : Nat])
    BY PeerTypes
  <2>2. PICK x \in [action : Changes, n : Nat] : x = new
    BY <1>5
  <2>3. PICK s : s = raw[p]
    OBVIOUS
  <2>4. PICK s2 : s2 = Append(s, x)
    OBVIOUS
  <2>5. /\ s2 \in Seq([action : Changes, n : Nat]) /\ Len(s) \in Nat /\ Len(s2) = Len(s) + 1
        /\ DOMAIN s = 1..Len(s) /\ DOMAIN s2 = 1..(Len(s) + 1) /\ s2[Len(s) + 1] = x /\ s2 # <<>>
        /\ \A i \in 1..Len(s) : s2[i] = s[i]
    BY <2>1, <2>3, <2>4, Appended
  <2>6. raw'[p] = s2 /\ r = Len(s)
    BY <1>1, <2>2, <2>3, <2>4
  <2> QED
    BY <2>2, <2>3, <2>5, <2>6
<1> HIDE DEF r
<1>7. ~Settled(p)'
  BY <1>1, <1>4 DEF Settled
<1>8. \A i \in DOMAIN Wire(p) : Wire(p)[i] \in Messages /\ Wire(p)[i].n \in Nat
  <2>1. \A i \in DOMAIN Wire(p) : Wire(p)[i] \in Messages
    BY PeerTypes, Elements
  <2> QED
    BY <2>1, MessageIs
<1>9. heard[p] <= made[p] - r /\ \A i \in 1..r : raw[p][i].n = made[p] - r + i
  BY <1>3, <1>6 DEF Ordered, r
<1>10. \A i \in DOMAIN Wire(p) : Tells(Wire(p)[i]) => Wire(p)[i].n <= made[p] - r
  BY <1>3 DEF Ordered, r
<1>11. Connected(p)'
  <2>1. up' = up /\ down'[p] = down[p] /\ listed' = listed /\ heard'[p] = heard[p] /\ main'[p] = main[p] /\ job'[p] = job[p]
    BY <1>1
  <2>2. \A i \in DOMAIN Wire(p)' : /\ Wire(p)'[i].type = "REGISTER" <=> (i = 1 /\ p \notin listed)
                                   /\ ~Tells(Wire(p)'[i]) => Wire(p)'[i].n = 0
    BY <1>2, <1>3 DEF Connected
  <2>3. p \notin listed => /\ Wire(p)' # <<>> /\ heard[p] <= Wire(p)'[1].n
                           /\ down[p] = <<>> /\ main[p].pc = "idle" /\ job[p].phase = "none"
    BY <1>2, <1>3 DEF Connected
  <2>4. \A a \in Addrs : a[1] = p /\ a # Address(p) =>
          \A i \in DOMAIN up[a] : up[a][i].n <= IF p \in listed THEN heard[p] ELSE Wire(p)'[1].n
    BY <1>2, <1>3 DEF Connected
  <2> QED
    BY <1>2, <2>1, <2>2, <2>3, <2>4 DEF Connected, Tells, Kind
<1>12. Ordered(p)'
  <2>0. made'[p] = made[p] + 1 /\ made[p] \in Nat /\ Len(raw'[p]) = r + 1 /\ r \in Nat
    BY <1>1, <1>4, <1>6
  <2>1. made'[p] - Len(raw'[p]) = made[p] - r
    BY <2>0
  <2>2. ASSUME NEW i \in 1..(r + 1) PROVE raw'[p][i].n = made[p] - r + i
    <3>1. CASE i \in 1..r
      BY <1>6, <1>9, <3>1
    <3>2. CASE i = r + 1
      <4>1. raw'[p][i].n = made[p] + 1
        BY <1>5, <1>6, <3>2
      <4> QED
        BY <1>4, <1>6, <3>2, <4>1
    <3> QED
      BY <1>6, <3>1, <3>2
  <2>3. \A i \in DOMAIN Wire(p) : Tells(Wire(p)[i]) =>
          /\ Wire(p)[i].n <= made[p] - r
          /\ p \in listed => Wire(p)[i].n > heard[p]
          /\ \A j \in 1..(i - 1) : Tells(Wire(p)[j]) => Wire(p)[j].n < Wire(p)[i].n
    BY <1>3 DEF Ordered, r
  <2> QED
    BY <1>1, <1>2, <1>6, <1>9, <2>1, <2>2, <2>3 DEF Ordered, Tells, Kind
<1>13. \A k \in Changes, n \in Nat : Awaits(p, k, n)' <=> Awaits(p, k, n) \/ (k = kind /\ n = made[p] + 1)
  <2> SUFFICES ASSUME NEW k \in Changes, NEW n \in Nat
               PROVE  Awaits(p, k, n)' <=> Awaits(p, k, n) \/ (k = kind /\ n = made[p] + 1)
    OBVIOUS
  <2>1. PICK x : x = [action |-> k, n |-> n]
    OBVIOUS
  <2>2. new = x <=> k = kind /\ n = made[p] + 1
    BY <2>1 DEF new
  <2>3. (\E i \in 1..(r + 1) : raw'[p][i] = x) <=> (\E i \in 1..r : raw[p][i] = x) \/ new = x
    <3>1. ASSUME NEW i \in 1..(r + 1), raw'[p][i] = x PROVE (\E j \in 1..r : raw[p][j] = x) \/ new = x
      <4>1. i \in 1..r \/ i = r + 1
        BY <1>6
      <4> QED
        BY <1>6, <3>1, <4>1
    <3>2. ASSUME NEW i \in 1..r, raw[p][i] = x PROVE \E j \in 1..(r + 1) : raw'[p][j] = x
      <4>1. i \in 1..(r + 1)
        BY <1>6
      <4> QED
        BY <1>6, <3>2, <4>1
    <3>3. new = x => \E j \in 1..(r + 1) : raw'[p][j] = x
      <4>1. r + 1 \in 1..(r + 1)
        BY <1>6
      <4> QED
        BY <1>6, <4>1
    <3> QED
      BY <3>1, <3>2, <3>3
  <2> QED
    BY <1>2, <1>6, <2>1, <2>2, <2>3 DEF Awaits, Kind
<1>14. ASSUME NEW k \in Changes, NEW n \in Nat, Awaits(p, k, n) PROVE n < made[p] + 1
  <2>1. CASE \E i \in DOMAIN Wire(p) : Wire(p)[i].n = n /\ Kind(Wire(p)[i]) = k
    <3>1. n <= made[p] - r
      BY <1>10, <1>14, <2>1 DEF Tells
    <3> QED
      BY <1>4, <1>6, <3>1
  <2>2. ASSUME NEW i \in DOMAIN raw[p], raw[p][i] = [action |-> k, n |-> n] PROVE n < made[p] + 1
    <3>1. raw[p][i].n = n
      BY <2>2
    <3>2. n = made[p] - r + i
      BY <1>6, <1>9, <2>2, <3>1
    <3> QED
      BY <1>4, <1>6, <2>2, <3>2
  <2> QED
    BY <1>14, <2>1, <2>2 DEF Awaits
<1>15. LastTold(p)'
  <2>1. raw'[p][Len(raw'[p])].action = "FILE_DELETED" <=> disk'[p] = NoCopy
    BY <1>1, <1>5, <1>6
  <2>2. \A i \in DOMAIN Wire(p) : ~(Tells(Wire(p)[i]) /\ Wire(p)[i].n = made'[p])
    <3>1. ASSUME NEW i \in DOMAIN Wire(p), Tells(Wire(p)[i]), Wire(p)[i].n = made[p] + 1 PROVE FALSE
      <4>1. Wire(p)[i].n <= made[p] - r
        BY <1>10, <3>1
      <4> QED
        BY <1>4, <1>6, <3>1, <4>1
    <3> QED
      BY <1>1, <3>1
  <2>3. ASSUME copy # NoCopy, NEW n \in Nat, Awaits(p, "FILE_DELETED", n)'
        PROVE  \E k \in Nat : k > n /\ Awaits(p, "FILE_CREATED", k)'
    <3>1. "FILE_DELETED" \in Changes /\ "FILE_CREATED" \in Changes
      BY DEF Changes
    <3>2. Awaits(p, "FILE_DELETED", n)
      BY <1>13, <2>3, <3>1
    <3>3. CASE disk[p] # NoCopy
      <4>1. PICK k \in Nat : k > n /\ Awaits(p, "FILE_CREATED", k)
        BY <1>3, <3>2, <3>3 DEF LastTold
      <4> QED
        BY <1>13, <3>1, <4>1
    <3>4. CASE disk[p] = NoCopy
      <4>1. kind = "FILE_CREATED" /\ made[p] + 1 \in Nat /\ made[p] + 1 > n
        BY <1>4, <1>14, <3>1, <3>2, <3>4
      <4> QED
        BY <1>13, <3>1, <4>1
    <3> QED
      BY <3>3, <3>4
  <2> QED
    BY <1>1, <1>2, <1>6, <2>1, <2>2, <2>3 DEF LastTold, Tells, Kind
<1>16. job[p].phase = "fetch" => Overtaken(p)'
  <2> SUFFICES ASSUME job[p].phase = "fetch" PROVE Overtaken(p)'
    OBVIOUS
  <2>1. job[p].heard < made[p] + 1
    BY <1>3, <1>4 DEF Past
  <2> QED
    BY <1>1, <2>1 DEF Overtaken
<1>17. copy # NoCopy /\ main[p].pc = "drop" => Overtaken(p)'
  <2> SUFFICES ASSUME copy # NoCopy, main[p].pc = "drop" PROVE Overtaken(p)'
    OBVIOUS
  <2>1. main[p].heard < made[p] + 1
    BY <1>3, <1>4 DEF Past
  <2> QED
    BY <1>1, <2>1 DEF Overtaken
<1>18. ASSUME copy # NoCopy, NEW i \in DOMAIN down[p], down[p][i].entry = NoEntry PROVE Overtaken(p)'
  <2>1. down[p][i].heard < made[p] + 1
    BY <1>3, <1>4 DEF Past
  <2> QED
    BY <1>1, <1>18, <2>1 DEF Overtaken
<1>19. copy # NoCopy /\ Overtaken(p) => Overtaken(p)'
  BY <1>16, <1>17, <1>18 DEF Overtaken
<1>20. Known(p)'
  <2> SUFFICES ASSUME copy # NoCopy, Current = NoEntry, ~Overtaken(p)'
               PROVE  \E n \in Nat : Awaits(p, "FILE_CREATED", n)'
    BY <1>1, <1>2 DEF Known
  <2>1. "FILE_CREATED" \in Changes /\ made[p] + 1 \in Nat
    BY <1>4 DEF Changes
  <2>2. CASE kind = "FILE_CREATED"
    BY <1>13, <2>1, <2>2
  <2>3. CASE kind # "FILE_CREATED" /\ ~Settled(p)
    <3>1. PICK n \in Nat : Awaits(p, "FILE_CREATED", n)
      BY <1>3, <1>19, <2>3 DEF Known
    <3> QED
      BY <1>13, <2>1, <3>1
  <2>4. CASE kind # "FILE_CREATED" /\ Settled(p)
    <3>1. disk[p] # NoCopy /\ ~Overtaken(p) /\ job[p].phase # "fetch" /\ main[p].pc # "drop"
      BY <1>16, <1>17, <1>19, <2>4
    <3>2. PICK k \in 0..Len(down[p]), s \in Stamps : Leads(p, k, s) /\ View(p, s)
      BY <1>3, <2>4, <3>1 DEF InLine
    <3>3. Stamp(Current).mtime = 0 /\ k \in Nat /\ k <= Len(down[p]) /\ Len(down[p]) \in Nat
      BY NoEntryFacts, TableFacts, <3>2 DEF Stamp
    <3>4. CASE k = Len(down[p])
      <4>1. s.mtime = 0
        BY <3>2, <3>3, <3>4 DEF Leads
      <4>2. main[p].pc = "get" => main[p].entry.mtime # 0
        <5>1. main[p].pc = "get" => main[p].entry # NoEntry
          BY DEF SyncTypes, ThreadTypes
        <5>2. main[p].entry \in Entries
          BY PeerTypes
        <5> QED
          BY <5>1, <5>2, EntryFacts
      <4> QED
        BY <3>1, <3>2, <4>1, <4>2 DEF View, Stamp
    <3>5. CASE k < Len(down[p])
      <4>1. Len(down[p]) \in DOMAIN down[p] /\ down[p][Len(down[p])].entry.mtime = 0
        <5>1. Len(down[p]) \in DOMAIN down[p]
          BY <3>3, <3>5, TableFacts
        <5> QED
          BY <3>2, <3>3, <3>5, <5>1 DEF Leads, Stamp
      <4>2. down[p][Len(down[p])].entry = NoEntry
        BY <4>1, TableFacts
      <4> QED
        BY <1>18, <4>1, <4>2
    <3> QED
      BY <3>3, <3>4, <3>5
  <2> QED
    BY <2>2, <2>3, <2>4
<1>21. Past(p)'
  <2>1. job[p].phase = "fetch" => job[p].heard < made[p] + 1
    BY <1>3, <1>4 DEF Past
  <2> QED
    BY <1>1, <1>3, <2>1 DEF Past
<1>22. PeerLine(p)'
  <2>1. Genuine(disk[p])'
    BY <1>1 DEF Genuine, Stamp
  <2> QED
    BY <1>7, <1>11, <1>12, <1>15, <1>20, <1>21, <2>1 DEF PeerLine
<1>23. Named'
  BY <1>1, <1>2 DEF Line, Named, Address
<1> QED
  BY <1>2, <1>22, <1>23, OwnStep

LEMMA LineUser ==
  ASSUME SyncTypes, Line, User
  PROVE  Line'
<1>1. writes \in Nat /\ writes > 0 /\ MaxWrites \in Nat
  BY CountFacts, SyncAssumption
<1>2. ASSUME NEW p \in Peers, UserDeletes(p) PROVE Line'
  <2>1. /\ disk[p] # NoCopy /\ Changed(p, NoCopy, "FILE_DELETED") /\ writes' = writes /\ wrote' = wrote
        /\ NoCopy \in Copies /\ "FILE_DELETED" \in Changes
    BY <1>2, CopyFacts DEF UserDeletes, Changes, clock
  <2>2. Genuine(NoCopy)'
    BY DEF Genuine, NoCopy
  <2>3. writes' \in Nat /\ writes <= writes'
    BY <1>1, <2>1
  <2> QED
    BY <2>1, <2>2, <2>3, LineChanged
<1>3. ASSUME NEW p \in Peers, NEW size \in Sizes, NEW t \in Times, UserWrites(p, size, t) PROVE Line'
  <2>1. PICK w \in Nat : w = writes + 1
    BY <1>1
  <2> DEFINE copy == [mtime |-> t, size |-> size, version |-> w]
             kind == IF disk[p] = NoCopy THEN "FILE_CREATED" ELSE "FILE_MODIFIED"
  <2>2. /\ writes < MaxWrites /\ writes' = w /\ Changed(p, copy, kind) /\ t \in {now, now + 1}
        /\ wrote' = [wrote EXCEPT ![w] = Stamp(copy)]
    BY <1>3, <2>1 DEF UserWrites, InSecond
  <2>3. w \in 1..MaxWrites /\ w \in 0..MaxWrites /\ w \in 1..writes' /\ w \notin 1..writes /\ w # 0
    BY <1>1, <2>1, <2>2
  <2>4. copy \in Copies /\ copy # NoCopy /\ copy.version = w
    BY <2>3 DEF Copies, NoCopy
  <2>5. kind \in Changes /\ kind # "FILE_DELETED" /\ (disk[p] = NoCopy => kind = "FILE_CREATED")
    BY DEF Changes
  <2> HIDE DEF copy, kind
  <2>6. wrote'[w] = Stamp(copy) /\ \A k \in 1..writes : wrote'[k] = wrote[k]
    BY <2>2, <2>3 DEF SyncTypes, StampTypes
  <2>7. Genuine(copy)'
    BY <2>3, <2>4, <2>6 DEF Genuine, Stamp
  <2>8. writes' \in Nat /\ writes <= writes'
    BY <1>1, <2>1, <2>2
  <2> QED
    BY <2>2, <2>4, <2>5, <2>6, <2>7, <2>8, LineChanged
<1> QED
  BY <1>2, <1>3 DEF User

\* p starts again: it will tell what it has, and what its old connection tells is old.
LEMMA LineRestart ==
  ASSUME SyncTypes, SyncTypes', NEW p \in Peers, Line, Restart(p)
  PROVE  Line'
<1> DEFINE o == Address(p)
           b == <<p, port[p] + 1>>
           files == IF disk[p] = NoCopy THEN <<>> ELSE <<Info(disk[p])>>
           m == Message("REGISTER", files, made[p])
<1>1. /\ p \in Restarting /\ port[p] < MaxStarts /\ port' = [port EXCEPT ![p] = @ + 1]
      /\ up' = [up EXCEPT ![o] = Append(@, Eof), ![b] = <<m>>]
      /\ down' = [down EXCEPT ![p] = <<>>] /\ listed' = listed \ {p} /\ raw' = [raw EXCEPT ![p] = <<>>]
      /\ main' = [main EXCEPT ![p] = Idle] /\ job' = [job EXCEPT ![p] = NoJob]
      /\ UNCHANGED <<disk, made, last, writes, wrote, table, heard>>
  BY DEF Restart, tracker, clock, Eof
<1>2. /\ port[p] \in Nat /\ port[p] + 1 \in 1..MaxStarts /\ port \in [Peers -> 1..MaxStarts]
      /\ raw'[p] = <<>> /\ down'[p] = <<>> /\ main'[p] = Idle /\ job'[p] = NoJob /\ port'[p] = port[p] + 1
      /\ \A q \in Peers \ {p} : raw'[q] = raw[q] /\ down'[q] = down[q] /\ main'[q] = main[q] /\ job'[q] = job[q]
                                /\ port'[q] = port[q]
  BY <1>1, SyncAssumption DEF SyncTypes, DiskTypes, WireTypes, ThreadTypes
<1>3. /\ o \in Addrs /\ b \in Addrs /\ o # b /\ o[1] = p /\ b[1] = p /\ b[2] = port[p] + 1 /\ Address(p)' = b
      /\ up \in [Addrs -> Seq(Messages)]
  <2>1. o \in Addrs /\ o[1] = p /\ o[2] = port[p]
    BY <1>2, AddressOf
  <2>2. b \in Addrs /\ b[1] = p /\ b[2] = port[p] + 1
    BY <1>2, AddressFacts
  <2>3. port[p] # port[p] + 1
    BY <1>2
  <2>4. o # b
    BY <2>1, <2>2, <2>3
  <2>5. Address(p)' = b
    BY <1>2 DEF Address
  <2> QED
    BY <2>1, <2>2, <2>4, <2>5 DEF SyncTypes, WireTypes, UpTypes
<1> HIDE DEF o, b
<1>4. /\ up'[b] = <<m>> /\ up'[o] = Append(up[o], Eof)
      /\ \A a \in Addrs : a # o /\ a # b => up'[a] = up[a]
  BY <1>1, <1>3
<1>5. Wire(p)' = <<m>>
  BY <1>3, <1>4 DEF Wire
<1>6. /\ m.type = "REGISTER" /\ m.n = made[p] /\ m.items = files
      /\ Kind(m) = IF disk[p] = NoCopy THEN "FILE_DELETED" ELSE "FILE_CREATED"
      /\ disk[p] # NoCopy => File(m) = Info(disk[p])
  BY DEF Message, Kind, File
<1> HIDE DEF m
<1>7. Tells(m)
  BY <1>6 DEF Tells, Changes
<1>8. DOMAIN Wire(p)' = {1} /\ Wire(p)'[1] = m /\ Wire(p)' # <<>>
  BY <1>5
<1>9. /\ heard[p] \in Nat /\ made[p] \in Nat /\ heard[p] <= made[p] /\ writes \in Nat
      /\ heard'[p] = heard[p] /\ made'[p] = made[p] /\ disk'[p] = disk[p]
  BY <1>1, PeerTypes
<1>10. p \notin listed' /\ Current' = Current /\ \A q \in Peers \ {p} : q \in listed' <=> q \in listed
  BY <1>1 DEF Current
<1>11. Only(p)
  <2>1. \A a \in Addrs : a[1] # p => up'[a] = up[a]
    BY <1>3, <1>4
  <2> QED
    BY <1>1, <1>2, <1>10, <2>1 DEF Only
<1>12. Connected(p)'
  <2>1. \A a \in Addrs : a[1] = p => \A i \in DOMAIN up'[a] : up'[a][i].n <= made[p]
    BY <1>9 DEF SyncTypes, WireTypes, UpTypes
  <2>2. main'[p].pc = "idle" /\ job'[p].phase = "none"
    BY <1>2, ThreadFacts
  <2> QED
    BY <1>2, <1>3, <1>6, <1>7, <1>8, <1>9, <1>10, <2>1, <2>2 DEF Connected, Tells, Kind
<1>13. Ordered(p)'
  <2>1. Len(raw'[p]) = 0 /\ DOMAIN raw'[p] = {}
    BY <1>2
  <2>2. \A i \in DOMAIN Wire(p)' : Wire(p)'[i].n <= made[p] /\ \A j \in 1..(i - 1) : FALSE
    BY <1>6, <1>8, <1>9
  <2> QED
    BY <1>9, <1>10, <2>1, <2>2 DEF Ordered, Tells, Kind
<1>14. LastTold(p)'
  <2>1. \A n : disk[p] # NoCopy => ~Awaits(p, "FILE_DELETED", n)'
    BY <1>2, <1>6, <1>8 DEF Awaits, Kind
  <2> QED
    BY <1>2, <1>6, <1>7, <1>8, <1>9, <2>1 DEF LastTold, Tells, Kind, File
<1>15. Known(p)'
  <2>1. PICK n \in Nat : n = made[p]
    BY <1>9
  <2>2. disk[p] # NoCopy => Awaits(p, "FILE_CREATED", n)'
    <3>1. disk[p] # NoCopy => Kind(Wire(p)'[1]) = "FILE_CREATED" /\ Wire(p)'[1].n = n
      BY <1>6, <1>8, <2>1
    <3>2. 1 \in DOMAIN Wire(p)'
      BY <1>8
    <3> QED
      BY <3>1, <3>2 DEF Awaits, Kind
  <2> QED
    BY <1>9, <2>2 DEF Known
<1>16. Past(p)'
  BY <1>2 DEF Past, Idle, NoJob
<1>17. PeerLine(p)'
  <2>1. Genuine(disk[p])'
    BY <1>1, HandFacts DEF Genuine, Stamp
  <2> QED
    BY <1>10, <1>12, <1>13, <1>14, <1>15, <1>16, <2>1 DEF PeerLine, Settled
<1>21. Named'
  <2> SUFFICES ASSUME NEW c \in Current.peers
               PROVE  c[2] <= port'[c[1]] /\ (c = Address(c[1])' => c[1] \in listed')
    BY <1>10 DEF Named
  <2>1. /\ c[2] <= port[c[1]] /\ (c = Address(c[1]) => c[1] \in listed)
        /\ c \in Addrs /\ c[1] \in Peers /\ c[2] \in Nat
    BY CurrentFacts, AddressFacts DEF Line, Named
  <2>2. CASE c[1] = p
    <3>1. c[2] <= port[p]
      BY <2>1, <2>2
    <3>2. c # b /\ c[2] <= port[p] + 1
      BY <1>2, <1>3, <2>1, <3>1
    <3> QED
      BY <1>2, <1>3, <2>2, <3>2
  <2>3. CASE c[1] # p
    <3>1. port'[c[1]] = port[c[1]] /\ Address(c[1])' = Address(c[1])
      BY <1>2, <2>1, <2>3 DEF Address
    <3> QED
      BY <1>10, <2>1, <2>3, <3>1
  <2> QED
    BY <2>2, <2>3
<1>22. writes' \in Nat /\ writes <= writes'
  BY <1>1, <1>9
<1> QED
  BY <1>1, <1>11, <1>17, <1>21, <1>22, OwnStep
----------------------------------------------------------------------------
\* The tracker takes the first message of p.
LEMMA WireTail ==
  ASSUME SyncTypes, NEW p \in Peers, Wire(p) # <<>>, up'[Address(p)] = Tail(Wire(p)), Address(p)' = Address(p)
  PROVE  /\ Len(Wire(p)) \in Nat /\ Len(Wire(p)) > 0 /\ DOMAIN Wire(p) = 1..Len(Wire(p))
         /\ DOMAIN Wire(p)' = 1..(Len(Wire(p)) - 1)
         /\ \A i \in 1..(Len(Wire(p)) - 1) : i + 1 \in 1..Len(Wire(p)) /\ i + 1 # 1 /\ Wire(p)'[i] = Wire(p)[i + 1]
         /\ \A i \in 1..Len(Wire(p)) : i # 1 => i - 1 \in 1..(Len(Wire(p)) - 1) /\ Wire(p)'[i - 1] = Wire(p)[i]
         /\ 1 \in DOMAIN Wire(p) /\ Wire(p)[1] \in Messages
         /\ \A i \in 1..Len(Wire(p)) : Wire(p)[i] \in Messages /\ Wire(p)[i].n \in Nat
<1>1. Wire(p)' = Tail(Wire(p)) /\ Wire(p) \in Seq(Messages)
  BY PeerTypes DEF Wire
<1>2. /\ Len(Wire(p)) \in Nat /\ Len(Wire(p)) > 0 /\ DOMAIN Wire(p) = 1..Len(Wire(p))
      /\ DOMAIN Tail(Wire(p)) = 1..(Len(Wire(p)) - 1) /\ Wire(p)[1] \in Messages
      /\ \A i \in 1..(Len(Wire(p)) - 1) : i + 1 \in 1..Len(Wire(p)) /\ Tail(Wire(p))[i] = Wire(p)[i + 1]
  BY <1>1, Tailed
<1>3. \A i \in 1..(Len(Wire(p)) - 1) : i + 1 # 1
  BY <1>2
<1>4. ASSUME NEW i \in 1..Len(Wire(p)), i # 1
      PROVE  i - 1 \in 1..(Len(Wire(p)) - 1) /\ Tail(Wire(p))[i - 1] = Wire(p)[i]
  <2>1. i - 1 \in 1..(Len(Wire(p)) - 1) /\ (i - 1) + 1 = i
    BY <1>2, <1>4
  <2> QED
    BY <1>2, <2>1
<1>5. \A i \in 1..Len(Wire(p)) : Wire(p)[i] \in Messages /\ Wire(p)[i].n \in Nat
  <2>1. \A i \in 1..Len(Wire(p)) : Wire(p)[i] \in Messages
    BY <1>1, Elements
  <2> QED
    BY <2>1, MessageIs
<1>6. 1 \in DOMAIN Wire(p)
  BY <1>2
<1> QED
  BY <1>1, <1>2, <1>3, <1>4, <1>5, <1>6

\* It tells of a change.
LEMMA HearsChange ==
  ASSUME SyncTypes, NEW p \in Peers, Connected(p), Ordered(p), LastTold(p), Wire(p) # <<>>,
         NEW m \in Messages, m = Wire(p)[1], Tells(m),
         up'[Address(p)] = Tail(Wire(p)), \A a \in Addrs \ {Address(p)} : up'[a] = up[a],
         Address(p)' = Address(p), disk'[p] = disk[p], raw'[p] = raw[p], made'[p] = made[p],
         heard'[p] = m.n, p \in listed'
  PROVE  /\ Connected(p)' /\ Ordered(p)' /\ LastTold(p)'
         /\ ~Settled(p) /\ heard[p] <= m.n /\ (p \in listed => heard[p] < m.n) /\ m.n <= made[p]
         /\ m.n = made[p] => \A k \in Nat : ~Awaits(p, "FILE_CREATED", k)'
         /\ \A k \in Nat : Awaits(p, "FILE_CREATED", k) /\ k # m.n => Awaits(p, "FILE_CREATED", k)'
         /\ \A k \in Nat : Awaits(p, "FILE_CREATED", k) /\ Kind(m) # "FILE_CREATED" => Awaits(p, "FILE_CREATED", k)'
         /\ Awaits(p, Kind(m), m.n)
<1> DEFINE l == Len(Wire(p))
           r == Len(raw[p])
<1>1. /\ l \in Nat /\ l > 0 /\ DOMAIN Wire(p) = 1..l /\ DOMAIN Wire(p)' = 1..(l - 1)
      /\ \A i \in 1..(l - 1) : i + 1 \in 1..l /\ i + 1 # 1 /\ Wire(p)'[i] = Wire(p)[i + 1]
      /\ \A i \in 1..l : i # 1 => i - 1 \in 1..(l - 1) /\ Wire(p)'[i - 1] = Wire(p)[i]
      /\ 1 \in 1..l /\ \A i \in 1..l : Wire(p)[i] \in Messages /\ Wire(p)[i].n \in Nat
  BY WireTail
<1>2. r \in Nat /\ made[p] \in Nat /\ heard[p] \in Nat /\ heard[p] <= made[p] /\ DOMAIN raw[p] = 1..r
      /\ Address(p) \in Addrs /\ Address(p)[1] = p
  BY PeerTypes, Elements
<1> HIDE DEF l, r
<1>3. m.n \in Nat /\ m.n <= made[p] - r /\ (p \in listed => heard[p] < m.n) /\ (p \notin listed => heard[p] <= m.n)
  <2>1. m.n \in Nat
    BY MessageIs
  <2>2. m.n <= made[p] - r /\ (p \in listed => m.n > heard[p])
    BY <1>1 DEF Ordered, r
  <2>3. p \notin listed => heard[p] <= m.n
    BY DEF Connected
  <2> QED
    BY <1>2, <2>1, <2>2, <2>3
<1>4. \A i \in 1..(l - 1) : Tells(Wire(p)'[i]) =>
        /\ Wire(p)'[i].n <= made[p] - r /\ Wire(p)'[i].n > m.n
        /\ \A j \in 1..(i - 1) : Tells(Wire(p)'[j]) => Wire(p)'[j].n < Wire(p)'[i].n
  <2> SUFFICES ASSUME NEW i \in 1..(l - 1), Tells(Wire(p)'[i])
               PROVE  /\ Wire(p)'[i].n <= made[p] - r /\ Wire(p)'[i].n > m.n
                      /\ \A j \in 1..(i - 1) : Tells(Wire(p)'[j]) => Wire(p)'[j].n < Wire(p)'[i].n
    OBVIOUS
  <2>1. Wire(p)'[i] = Wire(p)[i + 1] /\ i + 1 \in 1..l
    BY <1>1
  <2>2. /\ Wire(p)[i + 1].n <= made[p] - r
        /\ \A j \in 1..i : Tells(Wire(p)[j]) => Wire(p)[j].n < Wire(p)[i + 1].n
    <3>1. (i + 1) - 1 = i
      BY <1>1
    <3>2. \A j \in 1..((i + 1) - 1) : Tells(Wire(p)[j]) => Wire(p)[j].n < Wire(p)[i + 1].n
      BY <1>1, <2>1 DEF Ordered
    <3> QED
      BY <1>1, <2>1, <3>1, <3>2 DEF Ordered, r
  <2>3. 1 \in 1..i /\ \A j \in 1..(i - 1) : j \in 1..(l - 1) /\ j + 1 \in 1..i
    BY <1>1
  <2>4. m.n < Wire(p)[i + 1].n
    BY <2>2, <2>3
  <2>5. \A j \in 1..(i - 1) : Wire(p)'[j] = Wire(p)[j + 1]
    BY <1>1, <2>3
  <2> QED
    BY <1>1, <1>3, <2>1, <2>2, <2>3, <2>4, <2>5
<1>5. ~Settled(p) /\ m.n <= made[p] /\ heard[p] <= m.n
  <2>1. m.n <= made[p] /\ heard[p] <= m.n
    BY <1>2, <1>3
  <2>2. ~Settled(p)
    BY <1>2, <1>3, <2>1 DEF Settled
  <2> QED
    BY <2>1, <2>2
<1>6. Connected(p)'
  <2>0. \A i \in 1..l : i # 1 => /\ Wire(p)[i].type # "REGISTER"
                                 /\ ~Tells(Wire(p)[i]) => Wire(p)[i].n = 0
    BY <1>1 DEF Connected
  <2>1. \A i \in DOMAIN Wire(p)' : /\ Wire(p)'[i].type # "REGISTER"
                                   /\ ~Tells(Wire(p)'[i]) => Wire(p)'[i].n = 0
    BY <1>1, <2>0
  <2>2. ASSUME NEW a \in Addrs, a[1] = p, a # Address(p), NEW i \in DOMAIN up[a] PROVE up[a][i].n <= m.n
    <3>1. up[a][i].n <= IF p \in listed THEN heard[p] ELSE m.n
      BY <2>2 DEF Connected
    <3>2. up[a][i].n \in Nat
      <4>1. up[a] \in Seq(Messages)
        BY DEF SyncTypes, WireTypes, UpTypes
      <4> QED
        BY <2>2, <4>1, Elements, MessageIs
    <3> QED
      BY <1>2, <1>3, <3>1, <3>2
  <2> QED
    BY <2>1, <2>2 DEF Connected, Tells, Kind
<1>7. Ordered(p)'
  <2>1. m.n <= made[p] - r /\ \A i \in DOMAIN raw[p] : raw[p][i].n = made[p] - r + i
    BY <1>3 DEF Ordered, r
  <2> QED
    BY <1>1, <1>4, <2>1 DEF Ordered, Tells, Kind, r
<1>8. ASSUME NEW k \in Nat, NEW kind \in Changes, Awaits(p, kind, k), k # m.n \/ Kind(m) # kind
      PROVE  Awaits(p, kind, k)'
  <2>1. ASSUME NEW i \in 1..l, Wire(p)[i].n = k, Kind(Wire(p)[i]) = kind PROVE Awaits(p, kind, k)'
    <3>1. i # 1
      BY <1>8, <2>1
    <3>2. i - 1 \in 1..(l - 1) /\ Wire(p)'[i - 1].n = k /\ Kind(Wire(p)'[i - 1]) = kind
      BY <1>1, <2>1, <3>1
    <3>3. i - 1 \in DOMAIN Wire(p)'
      BY <1>1, <3>2
    <3> QED
      BY <3>2, <3>3 DEF Awaits, Kind
  <2> QED
    BY <1>1, <1>8, <2>1 DEF Awaits
<1>9. ASSUME NEW k \in Nat, NEW kind \in Changes, Awaits(p, kind, k)' PROVE Awaits(p, kind, k) /\ k > m.n /\ k <= made[p]
  <2>1. ASSUME NEW i \in 1..(l - 1), Wire(p)'[i].n = k, Kind(Wire(p)'[i]) = kind
        PROVE  Awaits(p, kind, k) /\ k > m.n /\ k <= made[p]
    <3>1. i + 1 \in DOMAIN Wire(p) /\ Wire(p)[i + 1].n = k /\ Kind(Wire(p)[i + 1]) = kind
      BY <1>1, <2>1
    <3>2. k <= made[p] - r /\ k > m.n
      BY <1>4, <1>9, <2>1 DEF Tells
    <3>3. k <= made[p]
      BY <1>2, <3>2
    <3> QED
      BY <3>1, <3>2, <3>3 DEF Awaits
  <2>2. ASSUME NEW i \in DOMAIN raw[p], raw[p][i] = [action |-> kind, n |-> k]
        PROVE  Awaits(p, kind, k) /\ k > m.n /\ k <= made[p]
    <3>1. raw[p][i].n = k
      BY <2>2
    <3>2. k = made[p] - r + i
      BY <2>2, <3>1 DEF Ordered, r
    <3>3. k > m.n /\ k <= made[p]
      BY <1>2, <1>3, <2>2, <3>2
    <3> QED
      BY <2>2, <3>3 DEF Awaits
  <2>3. (\E i \in 1..(l - 1) : Wire(p)'[i].n = k /\ Kind(Wire(p)'[i]) = kind)
        \/ \E i \in DOMAIN raw[p] : raw[p][i] = [action |-> kind, n |-> k]
    BY <1>1, <1>9 DEF Awaits, Kind
  <2> QED
    BY <2>1, <2>2, <2>3
<1>10. "FILE_CREATED" \in Changes /\ "FILE_DELETED" \in Changes
  BY DEF Changes
<1>11. LastTold(p)'
  <2>1. \A i \in DOMAIN Wire(p)' : Tells(Wire(p)'[i]) /\ Wire(p)'[i].n = made[p] =>
          IF Kind(Wire(p)'[i]) = "FILE_DELETED" THEN disk[p] = NoCopy
          ELSE disk[p] # NoCopy /\ File(Wire(p)'[i]) = Info(disk[p])
    <3>1. \A i \in 1..l : Tells(Wire(p)[i]) /\ Wire(p)[i].n = made[p] =>
            IF Kind(Wire(p)[i]) = "FILE_DELETED" THEN disk[p] = NoCopy
            ELSE disk[p] # NoCopy /\ File(Wire(p)[i]) = Info(disk[p])
      BY <1>1 DEF LastTold
    <3>2. \A i \in 1..(l - 1) : \E j \in 1..l : Wire(p)'[i] = Wire(p)[j]
      BY <1>1
    <3> QED
      BY <1>1, <3>1, <3>2
  <2>2. m.n # made[p] =>
          raw[p] # <<>> \/ \E i \in DOMAIN Wire(p)' : Tells(Wire(p)'[i]) /\ Wire(p)'[i].n = made[p]
    <3> SUFFICES ASSUME m.n # made[p], raw[p] = <<>>
                 PROVE  \E i \in DOMAIN Wire(p)' : Tells(Wire(p)'[i]) /\ Wire(p)'[i].n = made[p]
      OBVIOUS
    <3>1. PICK i \in 1..l : Tells(Wire(p)[i]) /\ Wire(p)[i].n = made[p]
      BY <1>1, <1>5 DEF LastTold
    <3>2. i # 1
      BY <3>1
    <3>3. i - 1 \in DOMAIN Wire(p)' /\ Wire(p)'[i - 1] = Wire(p)[i]
      BY <1>1, <3>2
    <3> QED
      BY <3>1, <3>3
  <2>3. ASSUME disk[p] # NoCopy, NEW n \in Nat, Awaits(p, "FILE_DELETED", n)'
        PROVE  \E k \in Nat : k > n /\ Awaits(p, "FILE_CREATED", k)'
    <3>1. Awaits(p, "FILE_DELETED", n) /\ n > m.n
      BY <1>9, <1>10, <2>3
    <3>2. PICK k \in Nat : k > n /\ Awaits(p, "FILE_CREATED", k)
      BY <2>3, <3>1 DEF LastTold
    <3>3. k # m.n
      BY <1>3, <3>1, <3>2
    <3> QED
      BY <1>8, <1>10, <3>2, <3>3
  <2>4. raw[p] # <<>> => (raw[p][Len(raw[p])].action = "FILE_DELETED" <=> disk[p] = NoCopy)
    BY DEF LastTold
  <2> QED
    BY <2>1, <2>2, <2>3, <2>4 DEF LastTold, Tells, Kind, File, Settled
<1>12. m.n = made[p] => \A k \in Nat : ~Awaits(p, "FILE_CREATED", k)'
  <2> SUFFICES ASSUME m.n = made[p], NEW k \in Nat, Awaits(p, "FILE_CREATED", k)' PROVE FALSE
    OBVIOUS
  <2>1. k > m.n /\ k <= made[p]
    BY <1>9, <1>10
  <2> QED
    BY <1>2, <2>1
<1>13. Awaits(p, Kind(m), m.n)
  BY <1>1 DEF Awaits
<1> QED
  BY <1>3, <1>5, <1>6, <1>7, <1>8, <1>10, <1>11, <1>12, <1>13

\* It tells of none.
LEMMA HearsNothing ==
  ASSUME SyncTypes, NEW p \in Peers, Connected(p), Ordered(p), LastTold(p), Wire(p) # <<>>, p \in listed,
         ~Tells(Wire(p)[1]),
         up'[Address(p)] = Tail(Wire(p)), \A a \in Addrs \ {Address(p)} : up'[a] = up[a],
         Address(p)' = Address(p), disk'[p] = disk[p], raw'[p] = raw[p], made'[p] = made[p],
         heard'[p] = heard[p], p \in listed'
  PROVE  /\ Connected(p)' /\ Ordered(p)' /\ LastTold(p)'
         /\ \A n \in Nat : Awaits(p, "FILE_CREATED", n) => Awaits(p, "FILE_CREATED", n)'
<1> DEFINE l == Len(Wire(p))
           r == Len(raw[p])
<1>1. /\ l \in Nat /\ l > 0 /\ DOMAIN Wire(p) = 1..l /\ DOMAIN Wire(p)' = 1..(l - 1)
      /\ \A i \in 1..(l - 1) : i + 1 \in 1..l /\ i + 1 # 1 /\ Wire(p)'[i] = Wire(p)[i + 1]
      /\ \A i \in 1..l : i # 1 => i - 1 \in 1..(l - 1) /\ Wire(p)'[i - 1] = Wire(p)[i]
  BY WireTail
<1> HIDE DEF l, r
<1>2. Connected(p)'
  <2>0. \A i \in 1..l : i # 1 => /\ Wire(p)[i].type # "REGISTER"
                                 /\ ~Tells(Wire(p)[i]) => Wire(p)[i].n = 0
    BY <1>1 DEF Connected
  <2>1. \A i \in DOMAIN Wire(p)' : /\ Wire(p)'[i].type # "REGISTER"
                                   /\ ~Tells(Wire(p)'[i]) => Wire(p)'[i].n = 0
    BY <1>1, <2>0
  <2> QED
    BY <2>1 DEF Connected, Tells, Kind
<1>3. Ordered(p)'
  <2>1. ASSUME NEW i \in 1..(l - 1), Tells(Wire(p)'[i])
        PROVE  /\ Wire(p)'[i].n <= made[p] - r /\ Wire(p)'[i].n > heard[p]
               /\ \A j \in 1..(i - 1) : Tells(Wire(p)'[j]) => Wire(p)'[j].n < Wire(p)'[i].n
    <3>1. Wire(p)'[i] = Wire(p)[i + 1] /\ i + 1 \in DOMAIN Wire(p)
      BY <1>1
    <3>2. \A j \in 1..((i + 1) - 1) : Tells(Wire(p)[j]) => Wire(p)[j].n < Wire(p)[i + 1].n
      BY <2>1, <3>1 DEF Ordered
    <3>3. \A j \in 1..(i - 1) : j \in 1..(l - 1) /\ j + 1 \in 1..((i + 1) - 1)
      BY <1>1
    <3>4. \A j \in 1..(i - 1) : Tells(Wire(p)'[j]) => Wire(p)'[j].n < Wire(p)'[i].n
      BY <1>1, <3>1, <3>2, <3>3
    <3> QED
      BY <2>1, <3>1, <3>4 DEF Ordered, r
  <2>2. heard[p] <= made[p] - r /\ \A i \in DOMAIN raw[p] : raw[p][i].n = made[p] - r + i
    BY DEF Ordered, r
  <2> QED
    BY <1>1, <2>1, <2>2 DEF Ordered, Tells, Kind, r
<1>4. ASSUME NEW n \in Nat, NEW kind \in Changes PROVE Awaits(p, kind, n)' <=> Awaits(p, kind, n)
  <2>1. ASSUME NEW i \in 1..l, Wire(p)[i].n = n, Kind(Wire(p)[i]) = kind
        PROVE  \E j \in 1..(l - 1) : Wire(p)'[j].n = n /\ Kind(Wire(p)'[j]) = kind
    <3>1. i # 1
      BY <2>1 DEF Tells
    <3> QED
      BY <1>1, <2>1, <3>1
  <2>2. ASSUME NEW j \in 1..(l - 1), Wire(p)'[j].n = n, Kind(Wire(p)'[j]) = kind
        PROVE  \E i \in 1..l : Wire(p)[i].n = n /\ Kind(Wire(p)[i]) = kind
    BY <1>1, <2>2
  <2> QED
    BY <1>1, <2>1, <2>2 DEF Awaits, Kind
<1>5. "FILE_CREATED" \in Changes /\ "FILE_DELETED" \in Changes
  BY DEF Changes
<1>6. LastTold(p)'
  <2>1. \A i \in DOMAIN Wire(p)' : Tells(Wire(p)'[i]) /\ Wire(p)'[i].n = made[p] =>
          IF Kind(Wire(p)'[i]) = "FILE_DELETED" THEN disk[p] = NoCopy
          ELSE disk[p] # NoCopy /\ File(Wire(p)'[i]) = Info(disk[p])
    <3>1. \A i \in 1..l : Tells(Wire(p)[i]) /\ Wire(p)[i].n = made[p] =>
            IF Kind(Wire(p)[i]) = "FILE_DELETED" THEN disk[p] = NoCopy
            ELSE disk[p] # NoCopy /\ File(Wire(p)[i]) = Info(disk[p])
      BY <1>1 DEF LastTold
    <3>2. \A i \in 1..(l - 1) : \E j \in 1..l : Wire(p)'[i] = Wire(p)[j]
      BY <1>1
    <3> QED
      BY <1>1, <3>1, <3>2
  <2>2. ~Settled(p) => raw[p] # <<>> \/ \E i \in DOMAIN Wire(p)' : Tells(Wire(p)'[i]) /\ Wire(p)'[i].n = made[p]
    <3> SUFFICES ASSUME ~Settled(p), raw[p] = <<>>
                 PROVE  \E i \in DOMAIN Wire(p)' : Tells(Wire(p)'[i]) /\ Wire(p)'[i].n = made[p]
      OBVIOUS
    <3>1. PICK i \in 1..l : Tells(Wire(p)[i]) /\ Wire(p)[i].n = made[p]
      BY <1>1 DEF LastTold
    <3>2. i # 1
      BY <3>1
    <3>3. i - 1 \in DOMAIN Wire(p)' /\ Wire(p)'[i - 1] = Wire(p)[i]
      BY <1>1, <3>2
    <3> QED
      BY <3>1, <3>3
  <2>3. \A n \in Nat : /\ Awaits(p, "FILE_DELETED", n)' <=> Awaits(p, "FILE_DELETED", n)
                       /\ Awaits(p, "FILE_CREATED", n)' <=> Awaits(p, "FILE_CREATED", n)
    BY <1>4, <1>5
  <2>4. disk[p] # NoCopy =>
          \A n \in Nat : Awaits(p, "FILE_DELETED", n)' => \E k \in Nat : k > n /\ Awaits(p, "FILE_CREATED", k)'
    BY <2>3 DEF LastTold
  <2>5. raw[p] # <<>> => (raw[p][Len(raw[p])].action = "FILE_DELETED" <=> disk[p] = NoCopy)
    BY DEF LastTold
  <2> QED
    BY <2>1, <2>2, <2>4, <2>5 DEF LastTold, Tells, Kind, File, Settled
<1> QED
  BY <1>2, <1>3, <1>4, <1>5, <1>6
----------------------------------------------------------------------------
\* What the tracker does, but to the peer it hears from.
LEMMA HandleFacts ==
  ASSUME SyncTypes, NEW a \in Addrs, Handle(a), NEW c, c = Current'
  PROVE  /\ up[a] # <<>> /\ up'[a] = Tail(up[a]) /\ \A b \in Addrs \ {a} : up'[b] = up[b]
         /\ UNCHANGED <<disk, raw, made, last, writes, wrote, port, main, job>>
         /\ \A q \in Peers : Address(q)' = Address(q)
         /\ Head(up[a]) = up[a][1] /\ 1 \in DOMAIN up[a] /\ up[a][1] \in Messages /\ up[a][1].n \in Nat /\ a[1] \in Peers
         /\ a[2] <= port[a[1]]
         /\ \A q \in Peers : q \in listed' <=> q \in listed \/ (HandleRegister(a) /\ a = Address(q))
         /\ \A q \in Peers : heard'[q] = IF q = a[1] /\ ~HandleEof(a) /\ up[a][1].n > heard[q] THEN up[a][1].n ELSE heard[q]
         /\ \A q \in Peers :
              IF ~HandleEof(a) /\ q \in listed' /\ (HandleUpdate(a) => Address(q) # a)
              THEN down'[q] = Append(down[q], [entry |-> c, heard |-> heard'[q]]) ELSE down'[q] = down[q]
<1>1. up[a] # <<>> /\ up'[a] = Tail(up[a]) /\ \A b \in Addrs \ {a} : up'[b] = up[b]
  BY UpTailed
<1>2. UNCHANGED <<disk, raw, made, last, writes, wrote, port, main, job>>
  BY DEF Handle, HandleRegister, HandleUpdate, HandleEof, disks, clock
<1>3. /\ Head(up[a]) = up[a][1] /\ 1 \in DOMAIN up[a] /\ up[a][1] \in Messages /\ up[a][1].n \in Nat
      /\ a[1] \in Peers /\ a[2] <= port[a[1]]
  BY <1>1, HeadIs DEF SyncTypes, WireTypes, UpTypes
<1>4. \A q \in Peers : Address(q)' = Address(q) /\ Address(q)[1] = q
  BY <1>2, PeerTypes DEF Address
<1>5. heard \in [Peers -> Nat] /\ down \in [Peers -> Seq([entry : Entries, heard : Nat])] /\ listed \subseteq Peers
  BY DEF SyncTypes, DiskTypes, WireTypes
<1>6. c = EntryOf(table')
  BY DEF Current
<1>7. CASE HandleEof(a)
  <2>1. UNCHANGED <<down, listed, heard>> /\ ~HandleRegister(a)
    BY <1>7 DEF HandleEof, HandleRegister
  <2> QED
    BY <1>1, <1>2, <1>3, <1>4, <1>7, <2>1
<1>8. CASE HandleUpdate(a)
  <2>1. UNCHANGED listed /\ Hear(a[1], up[a][1].n) /\ Broadcast({p \in listed : Address(p) # a})
        /\ ~HandleRegister(a) /\ ~HandleEof(a)
    BY <1>3, <1>8 DEF HandleUpdate, HandleRegister, HandleEof
  <2>2. \A q \in Peers : heard'[q] = IF q = a[1] /\ up[a][1].n > heard[q] THEN up[a][1].n ELSE heard[q]
    BY <1>3, <1>5, <2>1 DEF Hear
  <2>3. \A q \in Peers : down'[q] = IF q \in listed /\ Address(q) # a
                                    THEN Append(down[q], [entry |-> c, heard |-> heard'[q]]) ELSE down[q]
    BY <1>6, <2>1 DEF Broadcast
  <2> QED
    BY <1>1, <1>2, <1>3, <1>4, <1>8, <2>1, <2>2, <2>3
<1>9. CASE HandleRegister(a)
  <2>1. /\ listed' = (IF a = Address(a[1]) THEN listed \cup {a[1]} ELSE listed)
        /\ Hear(a[1], up[a][1].n) /\ Broadcast(listed') /\ ~HandleUpdate(a) /\ ~HandleEof(a)
    BY <1>3, <1>9 DEF HandleUpdate, HandleRegister, HandleEof
  <2>2. \A q \in Peers : heard'[q] = IF q = a[1] /\ up[a][1].n > heard[q] THEN up[a][1].n ELSE heard[q]
    BY <1>3, <1>5, <2>1 DEF Hear
  <2>3. \A q \in Peers : down'[q] = IF q \in listed'
                                    THEN Append(down[q], [entry |-> c, heard |-> heard'[q]]) ELSE down[q]
    BY <1>6, <2>1 DEF Broadcast
  <2>4. \A q \in Peers : q \in listed' <=> q \in listed \/ a = Address(q)
    BY <1>3, <1>4, <2>1
  <2> QED
    BY <1>1, <1>2, <1>3, <1>4, <1>9, <2>1, <2>2, <2>3, <2>4
<1> QED
  BY <1>7, <1>8, <1>9 DEF Handle

LEMMA TrackerOthers ==
  ASSUME SyncTypes, NEW a \in Addrs, Handle(a), Line, NEW c \in Entries, c = Current',
         NEW q \in Peers, Address(q) # a,
         IF HandleEof(a) THEN Stamp(c) = Stamp(Current) ELSE Follows(q, Stamp(Current), c)
  PROVE  PeerLine(q)'
<1>1. PeerLine(q) /\ Connected(q)
  BY DEF Line, PeerLine
<1>2. /\ up'[a] = Tail(up[a]) /\ (\A b \in Addrs \ {a} : up'[b] = up[b]) /\ up[a] # <<>>
      /\ UNCHANGED <<disk, raw, made, writes, wrote, main, job>> /\ Address(q)' = Address(q)
      /\ 1 \in DOMAIN up[a] /\ up[a][1].n \in Nat
      /\ (q \in listed' <=> q \in listed)
      /\ heard'[q] = (IF q = a[1] /\ ~HandleEof(a) /\ up[a][1].n > heard[q] THEN up[a][1].n ELSE heard[q])
      /\ IF ~HandleEof(a) /\ q \in listed
         THEN down'[q] = Append(down[q], [entry |-> c, heard |-> heard'[q]]) ELSE down'[q] = down[q]
  BY HandleFacts
<1>3. Address(q) \in Addrs /\ heard[q] \in Nat /\ Address(q)[1] = q /\ writes \in Nat
  BY PeerTypes
<1>4. up'[Address(q)] = up[Address(q)]
  BY <1>2, <1>3
<1>5. ASSUME NEW b \in Addrs PROVE Drains(b)
  <2>1. CASE b = a
    <3>1. up[a] \in Seq(Messages)
      BY DEF SyncTypes, WireTypes, UpTypes
    <3>2. \A i \in DOMAIN Tail(up[a]) : \E j \in DOMAIN up[a] : Tail(up[a])[i] = up[a][j]
      <4>1. /\ DOMAIN up[a] = 1..Len(up[a]) /\ DOMAIN Tail(up[a]) = 1..(Len(up[a]) - 1)
            /\ \A i \in 1..(Len(up[a]) - 1) : i + 1 \in 1..Len(up[a]) /\ Tail(up[a])[i] = up[a][i + 1]
        BY <1>2, <3>1, Tailed
      <4> QED
        BY <4>1
    <3>3. up'[b] = Tail(up[a]) /\ up[b] = up[a]
      BY <1>2, <2>1
    <3>4. \A i \in DOMAIN up'[b] : \E j \in DOMAIN up[b] : up'[b][i] = up[b][j]
      BY <3>2, <3>3
    <3> QED
      BY <3>4 DEF Drains
  <2>2. CASE b # a
    BY <1>2, <2>2 DEF Drains
  <2> QED
    BY <2>1, <2>2
<1>6. q = a[1] => up[a][1].n <= IF q \in listed THEN heard[q] ELSE Wire(q)[1].n
  BY <1>1, <1>2 DEF Connected
<1>7. q \notin listed => heard[q] <= Wire(q)[1].n
  BY <1>1 DEF Connected
<1>8. heard'[q] \in Nat /\ IF q \in listed THEN heard'[q] = heard[q]
                           ELSE heard[q] <= heard'[q] /\ heard'[q] <= Wire(q)[1].n
  <2>1. CASE q = a[1] /\ ~HandleEof(a) /\ up[a][1].n > heard[q]
    <3>1. heard'[q] = up[a][1].n
      BY <1>2, <2>1
    <3>2. q \notin listed
      BY <1>2, <1>3, <1>6, <2>1
    <3> QED
      BY <1>2, <1>3, <1>6, <2>1, <3>1, <3>2
  <2>2. CASE ~(q = a[1] /\ ~HandleEof(a) /\ up[a][1].n > heard[q])
    <3>1. heard'[q] = heard[q]
      BY <1>2, <2>2
    <3> QED
      BY <1>3, <1>7, <3>1
  <2> QED
    BY <2>1, <2>2
<1>9. \/ down'[q] = down[q] /\ (q \in listed => Stamp(c) = Stamp(Current))
      \/ /\ q \in listed /\ down'[q] = Append(down[q], [entry |-> c, heard |-> heard[q]])
         /\ Follows(q, Stamp(Current), c)
  BY <1>2, <1>8
<1>10. writes' \in Nat /\ writes <= writes'
  BY <1>2, <1>3
<1> QED
  BY <1>1, <1>2, <1>4, <1>5, <1>8, <1>9, <1>10, LineOthers

LEMMA TrackerStep ==
  ASSUME SyncTypes, NEW a \in Addrs, Handle(a), Line,
         NEW c \in Entries, c = Current',
         c.peers \subseteq Current.peers \cup {a}, a = Address(a[1]) => a[1] \in listed',
         \A q \in Peers : PeerLine(q)'
  PROVE  Line'
<1>1. /\ UNCHANGED port /\ \A q \in Peers : Address(q)' = Address(q)
      /\ a[1] \in Peers /\ a[2] <= port[a[1]]
      /\ \A q \in Peers : q \in listed => q \in listed'
  BY HandleFacts
<1>2. Named
  BY DEF Line
<1>3. Named'
  <2> SUFFICES ASSUME NEW b \in c.peers PROVE b[2] <= port[b[1]] /\ (b = Address(b[1])' => b[1] \in listed')
    BY <1>1 DEF Named
  <2>1. CASE b = a
    BY <1>1, <2>1
  <2>2. CASE b # a
    <3>1. b \in Current.peers /\ b[1] \in Peers
      BY <2>2, CurrentFacts, AddressFacts
    <3> QED
      BY <1>1, <1>2, <3>1 DEF Named
  <2> QED
    BY <2>1, <2>2
<1> QED
  BY <1>3 DEF Line

LEMMA LineEof ==
  ASSUME SyncTypes, NEW a \in Addrs, HandleEof(a), Line
  PROVE  Line'
<1>1. up[a] # <<>> /\ 1 \in DOMAIN up[a] /\ up[a][1].type = "EOF" /\ a[1] \in Peers
  BY HeadIs DEF HandleEof, SyncTypes, WireTypes
<1>2. \A q \in Peers : Address(q) # a
  <2>1. a[2] < port[a[1]] /\ a[2] \in Nat
    BY <1>1, AddressFacts DEF SyncTypes, WireTypes, UpTypes
  <2>2. \A q \in Peers : Address(q)[1] = q /\ Address(q)[2] = port[q] /\ port[q] \in Nat
    BY AddressOf, CountFacts
  <2> QED
    BY <2>1, <2>2
<1>3. Current' \in Entries /\ SameVersion /\ Current'.peers = Current.peers \ {a}
  BY <1>1, <1>2, EofEntry
<1>4. PICK c \in Entries : c = Current'
  BY <1>3
<1>5. Stamp(c) = Stamp(Current) /\ c.peers = Current.peers \ {a}
  BY <1>3, <1>4 DEF SameVersion, Stamp
<1>7. \A q \in Peers : PeerLine(q)'
  BY <1>2, <1>4, <1>5, TrackerOthers DEF Handle
<1> QED
  BY <1>1, <1>2, <1>4, <1>5, <1>7, TrackerStep DEF Handle
----------------------------------------------------------------------------
\* What FILE_UPDATE makes of the table, when it is not older than the table.
LEMMA UpdateEffect ==
  ASSUME SyncTypes, NEW a \in Addrs, HandleUpdate(a), Unharmed', Line, NEW c, c = Current',
         NEW m, m = up[a][1]
  PROVE  /\ c \in Entries /\ c.peers \subseteq Current.peers \cup {a}
         /\ \A q \in Peers : Address(q) # a => Follows(q, Stamp(Current), c)
         /\ ~Tells(m) => Stamp(c) = Stamp(Current) /\ (c = NoEntry <=> Current = NoEntry)
         /\ Kind(m) = "FILE_DELETED" => c = NoEntry
         /\ Kind(m) = "FILE_CREATED" => c # NoEntry /\ Stamp(c) = Stamp(File(m))
         /\ Kind(m) = "FILE_MODIFIED" => IF Current = NoEntry THEN c = NoEntry
                                         ELSE c # NoEntry /\ Stamp(c) = Stamp(File(m))
<1>1. up[a] # <<>> /\ m \in Messages /\ Head(up[a]) = m /\ 1 \in DOMAIN up[a] /\ m.type = "FILE_UPDATE"
  BY HeadIs DEF HandleUpdate, SyncTypes, WireTypes
<1>2. PICK e : e = m.items[1]
  OBVIOUS
<1>3. e \in Updates /\ Kind(m) = e.action /\ File(m) = e.file /\ m.items # <<>>
  BY <1>1, <1>2, KindFacts DEF File
<1>4. c \in Entries /\ c = Effect(Current, e, a)
  BY <1>1, <1>2, Updated DEF SyncTypes, WireTypes, PlainTable, Current
<1>5. /\ Current \in Entries /\ Current.mtime \in Nat /\ (1 \in Present(table) <=> Current # NoEntry)
      /\ (Current # NoEntry => Current.mtime > 0) /\ (Current = NoEntry => Current.mtime = 0)
  BY CurrentFacts
<1>6. /\ c.mtime \in Nat /\ (c # NoEntry => c.mtime > 0) /\ (c = NoEntry => c.mtime = 0)
      /\ NoEntry.mtime = 0 /\ NoEntry.size = 0 /\ NoEntry.peers = {}
  BY <1>4, EntryFacts, NoEntryFacts
<1>7. e.action \in Actions /\ e.file.mtime \in Nat
  BY <1>3, DataAssumption DEF Updates, FileEvent, FileInfo
<1>8. e.action \in {"FILE_CREATED", "FILE_MODIFIED"} /\ Current # NoEntry => e.file.mtime >= Current.mtime
  <2> SUFFICES ASSUME e.action \in {"FILE_CREATED", "FILE_MODIFIED"}, Current # NoEntry, e.file.mtime < Current.mtime
               PROVE  FALSE
    BY <1>5, <1>7
  <2>1. Mistake(a, e) = {"older"}
    BY <1>5 DEF Mistake, Current
  <2>2. "older" \in harm'
    BY <1>1, <1>2, <2>1 DEF HandleUpdate
  <2> QED
    BY <2>2 DEF Unharmed
<1>9. CASE e.action = "FILE_CREATED" \/ (e.action = "FILE_MODIFIED" /\ Current # NoEntry)
  <2>1. c = SoleHolder(e.file, FALSE, a)
    BY <1>4, <1>9 DEF Effect
  <2>2. c.mtime = e.file.mtime /\ c.size = e.file.size /\ c.peers = {a}
    BY <2>1 DEF SoleHolder
  <2>3. c # NoEntry
    BY <1>6, <2>2
  <2>4. Stamp(c) = Stamp(File(m))
    BY <1>3, <2>2 DEF Stamp
  <2>5. ASSUME NEW q \in Peers, Address(q) # a PROVE Follows(q, Stamp(Current), c)
    <3>1. Address(q) \notin c.peers
      BY <2>2, <2>5
    <3>2. Current.mtime = 0 \/ c.mtime >= Current.mtime
      BY <1>5, <1>6, <1>8, <1>9, <2>2
    <3>3. Stamp(Current).mtime = Current.mtime
      BY DEF Stamp
    <3> QED
      BY <3>1, <3>2, <3>3 DEF Follows
  <2>6. Tells(m)
    BY <1>3, <1>9 DEF Tells, Changes
  <2> QED
    BY <1>3, <1>4, <1>9, <2>2, <2>3, <2>4, <2>5, <2>6
<1>10. CASE e.action = "FILE_DELETED" \/ (e.action = "FILE_MODIFIED" /\ Current = NoEntry)
  <2>1. c = NoEntry
    BY <1>4, <1>10 DEF Effect
  <2>2. \A q \in Peers : Follows(q, Stamp(Current), c)
    BY <1>6, <2>1 DEF Follows
  <2>3. Tells(m)
    BY <1>3, <1>10 DEF Tells, Changes
  <2> QED
    BY <1>3, <1>4, <1>6, <1>10, <2>1, <2>2, <2>3
<1>11. CASE e.action \in {"DOWNLOAD_COMPLETE", "NONE"}
  <2>1. c = Current \/ (Current # NoEntry /\ c = Joined(Current, a))
    BY <1>4, <1>11 DEF Effect
  <2>2. c.mtime = Current.mtime /\ c.size = Current.size /\ c.peers \subseteq Current.peers \cup {a}
    BY <2>1 DEF Joined, WithPeers
  <2>3. c = NoEntry <=> Current = NoEntry
    BY <1>5, <1>6, <2>2
  <2>4. Stamp(c) = Stamp(Current)
    BY <2>2 DEF Stamp
  <2>5. \A q \in Peers : Follows(q, Stamp(Current), c)
    BY <2>4 DEF Follows
  <2> QED
    BY <1>3, <1>4, <1>11, <2>2, <2>3, <2>4, <2>5
<1> QED
  BY <1>7, <1>9, <1>10, <1>11 DEF Actions

\* The peer that is heard gets no table.
LEMMA UpdateOwn ==
  ASSUME SyncTypes, NEW p \in Peers, HandleUpdate(Address(p)), Unharmed', Line
  PROVE  PeerLine(p)' /\ p \in listed
<1>1. PICK c : c = Current'
  OBVIOUS
<1>2. PICK m : m = Wire(p)[1]
  OBVIOUS
<1>3. /\ Wire(p) # <<>> /\ up'[Address(p)] = Tail(Wire(p)) /\ \A b \in Addrs \ {Address(p)} : up'[b] = up[b]
      /\ UNCHANGED <<disk, raw, made, writes, wrote, port, main, job>> /\ Address(p)' = Address(p)
      /\ m \in Messages /\ m.n \in Nat /\ 1 \in DOMAIN Wire(p) /\ m = Head(Wire(p))
      /\ (p \in listed' <=> p \in listed \/ HandleRegister(Address(p)))
      /\ heard'[p] = (IF ~HandleEof(Address(p)) /\ m.n > heard[p] THEN m.n ELSE heard[p])
      /\ down'[p] = down[p]
  <2>1. Address(p) \in Addrs /\ Address(p)[1] = p /\ Handle(Address(p)) /\ ~HandleEof(Address(p))
    BY PeerTypes DEF Handle, HandleUpdate, HandleEof
  <2>2. m = up[Address(p)][1] /\ Wire(p) = up[Address(p)]
    BY <1>2 DEF Wire
  <2>3. /\ up[Address(p)] # <<>> /\ up'[Address(p)] = Tail(up[Address(p)])
        /\ \A b \in Addrs \ {Address(p)} : up'[b] = up[b]
        /\ UNCHANGED <<disk, raw, made, writes, wrote, port, main, job>> /\ Address(p)' = Address(p)
        /\ Head(up[Address(p)]) = up[Address(p)][1] /\ 1 \in DOMAIN up[Address(p)]
        /\ up[Address(p)][1] \in Messages /\ up[Address(p)][1].n \in Nat
    BY <2>1, HandleFacts
  <2>4. /\ p \in listed' <=> p \in listed \/ HandleRegister(Address(p))
        /\ heard'[p] = IF up[Address(p)][1].n > heard[p] THEN up[Address(p)][1].n ELSE heard[p]
    BY <2>1, HandleFacts
  <2>5. down'[p] = down[p]
    BY <2>1, HandleFacts
  <2> QED
    BY <2>1, <2>2, <2>3, <2>4, <2>5
<1>4. m.type = "FILE_UPDATE" /\ ~HandleRegister(Address(p)) /\ ~HandleEof(Address(p))
  BY <1>3 DEF HandleUpdate, HandleRegister, HandleEof, Wire
<1>5. /\ Connected(p) /\ Ordered(p) /\ LastTold(p) /\ Known(p) /\ Past(p) /\ Genuine(disk[p])
      /\ Settled(p) => Overtaken(p) \/ InLine(p)
  BY DEF Line, PeerLine
<1>6. p \in listed /\ p \in listed'
  BY <1>2, <1>3, <1>4, <1>5 DEF Connected
<1>7. /\ c \in Entries
      /\ ~Tells(m) => Stamp(c) = Stamp(Current) /\ (c = NoEntry <=> Current = NoEntry)
      /\ Kind(m) = "FILE_DELETED" => c = NoEntry
      /\ Kind(m) = "FILE_CREATED" => c # NoEntry /\ Stamp(c) = Stamp(File(m))
      /\ Kind(m) = "FILE_MODIFIED" => IF Current = NoEntry THEN c = NoEntry
                                      ELSE c # NoEntry /\ Stamp(c) = Stamp(File(m))
  BY <1>1, <1>2, PeerTypes, UpdateEffect DEF Wire
<1>8. Overtaken(p)' <=> Overtaken(p)
  BY <1>3 DEF Overtaken
<1>9. /\ made[p] \in Nat /\ heard[p] \in Nat /\ main[p].heard \in Nat /\ job[p].heard \in Nat
      /\ writes \in Nat /\ DOMAIN down[p] = 1..Len(down[p]) /\ Len(down[p]) \in Nat
      /\ \A i \in DOMAIN down[p] : down[p][i].heard \in Nat
  BY PeerTypes, TableFacts
<1>10. Genuine(disk[p])'
  BY <1>3, <1>5 DEF Genuine
<1>11. CASE ~Tells(m)
  <2>1. heard'[p] = heard[p]
    <3>1. m.n = 0
      BY <1>2, <1>3, <1>5, <1>11 DEF Connected
    <3> QED
      BY <1>3, <1>9, <3>1
  <2>2. /\ Connected(p)' /\ Ordered(p)' /\ LastTold(p)'
        /\ \A n \in Nat : Awaits(p, "FILE_CREATED", n) => Awaits(p, "FILE_CREATED", n)'
    BY <1>2, <1>3, <1>5, <1>6, <1>11, <2>1, HearsNothing
  <2>3. Settled(p)' <=> Settled(p)
    BY <1>3, <1>6, <2>1 DEF Settled
  <2>4. Known(p)'
    BY <1>1, <1>3, <1>5, <1>7, <1>8, <1>11, <2>2, <2>3 DEF Known
  <2>5. Past(p)'
    BY <1>3, <1>5, <2>1 DEF Past
  <2>6. InLine(p) => InLine(p)'
    <3> SUFFICES ASSUME NEW k \in 0..Len(down[p]), NEW s \in Stamps, Leads(p, k, s), View(p, s)
                 PROVE  InLine(p)'
      BY DEF InLine
    <3>1. Stamp(Current') = Stamp(Current)
      BY <1>1, <1>7, <1>11
    <3>2. Leads(p, k, s)'
      BY <1>3, <3>1 DEF Leads, Follows, Stamp
    <3>3. View(p, s)'
      BY <1>3 DEF View, Stamp
    <3>4. k \in 0..Len(down'[p])
      BY <1>3
    <3> QED
      BY <3>2, <3>3, <3>4 DEF InLine
  <2> QED
    BY <1>5, <1>6, <1>8, <1>10, <2>2, <2>3, <2>4, <2>5, <2>6 DEF PeerLine
<1>12. CASE Tells(m)
  <2>1. m.n > heard[p]
    BY <1>2, <1>3, <1>5, <1>6, <1>12 DEF Ordered
  <2>2. heard'[p] = m.n
    BY <1>3, <1>4, <2>1
  <2>3. /\ Connected(p)' /\ Ordered(p)' /\ LastTold(p)' /\ ~Settled(p)
        /\ m.n = made[p] => \A k \in Nat : ~Awaits(p, "FILE_CREATED", k)'
        /\ \A k \in Nat : Awaits(p, "FILE_CREATED", k) /\ k # m.n => Awaits(p, "FILE_CREATED", k)'
        /\ \A k \in Nat : Awaits(p, "FILE_CREATED", k) /\ Kind(m) # "FILE_CREATED" => Awaits(p, "FILE_CREATED", k)'
        /\ Awaits(p, Kind(m), m.n)
    BY <1>2, <1>3, <1>5, <1>6, <1>12, <2>2, HearsChange
  <2>4. Kind(m) \in {"FILE_CREATED", "FILE_MODIFIED", "FILE_DELETED"}
    BY <1>12 DEF Tells, Changes
  <2>5. Known(p)'
    <3> SUFFICES ASSUME disk[p] # NoCopy
                 PROVE  c # NoEntry \/ Overtaken(p) \/ \E n \in Nat : Awaits(p, "FILE_CREATED", n)'
      BY <1>1, <1>3, <1>8 DEF Known
    <3>1. CASE Kind(m) = "FILE_CREATED"
      BY <1>7, <3>1
    <3>2. CASE Kind(m) = "FILE_DELETED"
      <4>1. PICK k \in Nat : k > m.n /\ Awaits(p, "FILE_CREATED", k)
        BY <1>3, <1>5, <2>3, <3>2 DEF LastTold
      <4>2. k # m.n
        BY <1>3, <4>1
      <4> QED
        BY <2>3, <4>1, <4>2
    <3>3. CASE Kind(m) = "FILE_MODIFIED"
      <4>1. Current # NoEntry \/ Overtaken(p) \/ \E n \in Nat : Awaits(p, "FILE_CREATED", n)
        BY <1>5, <2>3 DEF Known
      <4> QED
        BY <1>7, <2>3, <3>3, <4>1
    <3> QED
      BY <2>4, <3>1, <3>2, <3>3
  <2>6. Past(p)'
    <3>1. \A h \in Nat : h <= heard[p] => h <= m.n
      BY <1>3, <1>9, <2>1
    <3> QED
      BY <1>3, <1>5, <1>9, <2>2, <3>1 DEF Past
  <2>7. Settled(p)' => Overtaken(p) \/ InLine(p)'
    <3> SUFFICES ASSUME m.n = made[p], ~Overtaken(p) PROVE InLine(p)'
      BY <1>3, <2>2 DEF Settled
    <3>1. heard[p] < made[p]
      BY <2>1
    <3>2. job[p].phase # "fetch"
      BY <1>5, <1>9, <3>1 DEF Past, Overtaken
    <3>3. ~(main[p].pc \in {"get", "drop"} /\ main[p].heard = made[p])
      BY <1>5, <1>9, <3>1 DEF Past
    <3>4. \A i \in DOMAIN down[p] : down[p][i].heard < made[p]
      BY <1>5, <1>9, <3>1 DEF Past
    <3>5. Stamp(c) \in Stamps /\ Stamp(c).mtime = c.mtime /\ (c.mtime = 0 <=> c = NoEntry)
      BY <1>7, EntryFacts, NoEntryFacts, StampFacts DEF Stamp
    <3>6. IF c = NoEntry THEN disk[p] = NoCopy ELSE disk[p] # NoCopy /\ Stamp(disk[p]) = Stamp(c)
      <4>1. IF Kind(m) = "FILE_DELETED" THEN disk[p] = NoCopy ELSE disk[p] # NoCopy /\ File(m) = Info(disk[p])
        BY <1>2, <1>3, <1>5, <1>12 DEF LastTold
      <4>2. Kind(m) = "FILE_MODIFIED" => Current # NoEntry
        BY <1>5, <2>3, <4>1 DEF Known
      <4>3. Stamp(Info(disk[p])) = Stamp(disk[p])
        BY DEF Info, Stamp
      <4> QED
        BY <1>7, <2>4, <4>1, <4>2, <4>3
    <3>8. PICK s \in Stamps : s = Stamp(c)
      BY <3>5
    <3>7. View(p, s)'
      <4>1. IF s.mtime = 0 THEN disk[p] = NoCopy ELSE disk[p] # NoCopy /\ Stamp(disk[p]) = s
        BY <3>5, <3>6, <3>8
      <4> QED
        BY <1>3, <3>2, <3>3, <4>1 DEF View, Stamp
    <3>9. Leads(p, Len(down[p]), s)'
      <4>1. (Len(down[p]) + 1)..Len(down[p]) = {} /\ (Len(down[p]) + 1)..(Len(down[p]) - 1) = {}
        BY <1>9
      <4>2. Stamp(Current') = s
        BY <1>1, <3>8
      <4>3. ~(Len(down[p]) < Len(down[p]))
        BY <1>9
      <4> QED
        BY <1>3, <1>9, <3>4, <4>1, <4>2, <4>3 DEF Leads, Stamp
    <3> QED
      BY <1>3, <1>9, <3>7, <3>8, <3>9 DEF InLine
  <2> QED
    BY <1>6, <1>8, <1>10, <2>3, <2>5, <2>6, <2>7 DEF PeerLine
<1> QED
  BY <1>6, <1>11, <1>12

LEMMA LineUpdate ==
  ASSUME SyncTypes, NEW a \in Addrs, HandleUpdate(a), Unharmed', Line
  PROVE  Line'
<1>1. PICK c : c = Current'
  OBVIOUS
<1>2. /\ c \in Entries /\ c.peers \subseteq Current.peers \cup {a}
      /\ \A q \in Peers : Address(q) # a => Follows(q, Stamp(Current), c)
  BY <1>1, UpdateEffect
<1>3. Handle(a) /\ ~HandleEof(a) /\ UNCHANGED listed /\ a[1] \in Peers
  BY AddressFacts DEF Handle, HandleUpdate, HandleEof
<1>4. \A q \in Peers : Address(q) = a => PeerLine(q)' /\ q \in listed
  BY UpdateOwn
<1>5. \A q \in Peers : Address(q) # a => PeerLine(q)'
  BY <1>1, <1>2, <1>3, TrackerOthers
<1> QED
  BY <1>1, <1>2, <1>3, <1>4, <1>5, TrackerStep
----------------------------------------------------------------------------
LEMMA RegisteredIs ==
  ASSUME NEW m \in Messages, m.type = "REGISTER", m.items # <<>>
  PROVE  \E f \in Registered : /\ m.items = <<f>> /\ m.items[1] = f /\ File(m) = f
                               /\ f.mtime \in Nat /\ f.mtime > 0
<1>1. PICK f \in Registered : m.items = <<f>>
  BY MessageIs
<1>2. m.items[1] = f
  BY <1>1
<1>3. File(m) = f
  BY <1>2 DEF File
<1>4. f.mtime \in Nat /\ f.mtime > 0
  BY DataAssumption DEF Registered, FileInfo
<1> QED
  BY <1>1, <1>2, <1>3, <1>4

\* What REGISTER makes of the table.
LEMMA RegisterMakes ==
  ASSUME SyncTypes, NEW a \in Addrs, HandleRegister(a), Line, NEW c, c = Current',
         NEW m, m = up[a][1]
  PROVE  /\ c \in Entries /\ c.peers \subseteq Current.peers \cup {a}
         /\ \A q \in Peers : Address(q) # a => Follows(q, Stamp(Current), c)
         /\ m.type = "REGISTER" /\ Kind(m) \in {"FILE_CREATED", "FILE_DELETED"} /\ Tells(m)
         /\ Kind(m) = "FILE_CREATED" =>
              /\ c # NoEntry
              /\ Stamp(c) = Stamp(File(m)) \/ (c = Current /\ c.mtime >= File(m).mtime)
<1>1. up[a] # <<>> /\ m \in Messages /\ Head(up[a]) = m /\ 1 \in DOMAIN up[a] /\ m.type = "REGISTER"
  BY HeadIs DEF HandleRegister, SyncTypes, WireTypes
<1>2. /\ Kind(m) \in {"FILE_CREATED", "FILE_DELETED"} /\ Tells(m)
      /\ (Kind(m) = "FILE_DELETED" <=> m.items = <<>>)
  BY <1>1, KindFacts
<1>3. c \in Entries /\ c = RegisterEffect(Current, m.items, a)
  BY <1>1, Registers DEF SyncTypes, WireTypes, PlainTable, Current
<1>4. /\ Current \in Entries /\ Current.mtime \in Nat
      /\ (Current # NoEntry => Current.mtime > 0) /\ (Current = NoEntry => Current.mtime = 0)
  BY CurrentFacts
<1>5. CASE c = Current
  <2>1. \A q \in Peers : Follows(q, Stamp(Current), c)
    BY <1>5 DEF Follows
  <2>2. ASSUME Kind(m) = "FILE_CREATED"
        PROVE  c # NoEntry /\ c.mtime >= File(m).mtime
    <3>1. m.items # <<>>
      BY <1>2, <2>2
    <3>2. PICK f \in Registered : /\ m.items = <<f>> /\ m.items[1] = f /\ File(m) = f
                                  /\ f.mtime \in Nat /\ f.mtime > 0
      BY <1>1, <3>1, RegisteredIs
    <3>3. NoEntry.mtime = 0
      BY NoEntryFacts
    <3>4. Current # NoEntry
      <4> SUFFICES ASSUME Current = NoEntry PROVE FALSE
        OBVIOUS
      <4>1. c = SoleHolder(f, FALSE, a)
        BY <1>3, <3>1, <3>2 DEF RegisterEffect
      <4>2. c.mtime = f.mtime
        BY <4>1 DEF SoleHolder
      <4> QED
        BY <1>5, <3>2, <3>3, <4>2
    <3>5. ~(Current.mtime < f.mtime)
      <4> SUFFICES ASSUME Current.mtime < f.mtime PROVE FALSE
        OBVIOUS
      <4>0. Current.mtime # f.mtime
        BY <1>4, <3>2
      <4>1. c = SoleHolder(f, FALSE, a)
        BY <1>3, <3>1, <3>2, <3>4, <4>0 DEF RegisterEffect
      <4>2. c.mtime = f.mtime
        BY <4>1 DEF SoleHolder
      <4> QED
        BY <1>4, <1>5, <3>2, <4>2
    <3> QED
      BY <1>4, <1>5, <3>2, <3>4, <3>5
  <2> QED
    BY <1>1, <1>2, <1>3, <1>5, <2>1, <2>2
<1>6. CASE c # Current
  <2>1. m.items # <<>>
    BY <1>3, <1>6 DEF RegisterEffect
  <2>2. PICK f \in Registered : /\ m.items = <<f>> /\ m.items[1] = f /\ File(m) = f
                                /\ f.mtime \in Nat /\ f.mtime > 0
    BY <1>1, <2>1, RegisteredIs
  <2>3. File(m) = f /\ f.mtime \in Nat /\ f.mtime > 0 /\ m.items[1] = f
    BY <2>2
  <2>4. CASE Current = NoEntry \/ (Current # NoEntry /\ Current.mtime < f.mtime)
    <3>0. Current # NoEntry => Current.mtime # f.mtime
      BY <1>4, <2>3, <2>4
    <3>1. c = SoleHolder(f, FALSE, a)
      <4>1. CASE Current = NoEntry
        BY <1>3, <2>1, <2>3, <4>1 DEF RegisterEffect
      <4>2. CASE Current # NoEntry
        BY <1>3, <2>1, <2>3, <2>4, <3>0, <4>2 DEF RegisterEffect
      <4> QED
        BY <4>1, <4>2
    <3>2. c.mtime = f.mtime /\ c.size = f.size /\ c.peers = {a}
      BY <3>1 DEF SoleHolder
    <3>3. c # NoEntry
      BY <2>3, <3>2, NoEntryFacts
    <3>4. \A q \in Peers : Address(q) # a => Follows(q, Stamp(Current), c)
      <4>1. Current.mtime = 0 \/ c.mtime >= Current.mtime
        BY <1>4, <2>3, <2>4, <3>2
      <4>2. Stamp(Current).mtime = Current.mtime
        BY DEF Stamp
      <4> QED
        BY <3>2, <4>1, <4>2 DEF Follows
    <3>5. Stamp(c) = Stamp(File(m))
      BY <2>3, <3>2 DEF Stamp
    <3> QED
      BY <1>1, <1>2, <1>3, <2>3, <3>2, <3>3, <3>4, <3>5
  <2>5. CASE Current # NoEntry /\ Current.mtime = f.mtime
    <3>1. ~(Current.mtime < f.mtime)
      BY <1>4, <2>5
    <3>2. c = Effect(Current, [action |-> "DOWNLOAD_COMPLETE", file |-> f], a)
      BY <1>3, <2>1, <2>3, <2>5, <3>1 DEF RegisterEffect
    <3>3. c = Joined(Current, a) /\ Current.size = f.size
      BY <1>6, <3>2 DEF Effect
    <3>4. c.mtime = Current.mtime /\ c.size = Current.size /\ c.peers \subseteq Current.peers \cup {a}
      BY <3>3 DEF Joined, WithPeers
    <3>5. c # NoEntry
      BY <1>4, <2>5, <3>4, NoEntryFacts
    <3>6. Stamp(c) = Stamp(Current) /\ Stamp(c) = Stamp(File(m))
      BY <2>3, <2>5, <3>3, <3>4 DEF Stamp
    <3>7. \A q \in Peers : Follows(q, Stamp(Current), c)
      BY <3>6 DEF Follows
    <3> QED
      BY <1>1, <1>2, <1>3, <3>4, <3>5, <3>6, <3>7
  <2>6. CASE Current # NoEntry /\ Current.mtime > f.mtime
    <3>1. ~(Current.mtime < f.mtime) /\ Current.mtime # f.mtime
      BY <1>4, <2>3, <2>6
    <3>2. c = Current
      BY <1>3, <2>1, <2>3, <2>6, <3>1 DEF RegisterEffect
    <3> QED
      BY <1>6, <3>2
  <2> QED
    BY <1>4, <2>3, <2>4, <2>5, <2>6
<1> QED
  BY <1>5, <1>6

\* The peer that registers gets its first table.
LEMMA RegisterOwn ==
  ASSUME SyncTypes, NEW p \in Peers, HandleRegister(Address(p)), Line
  PROVE  PeerLine(p)'
<1>1. PICK c : c = Current'
  OBVIOUS
<1>2. PICK m : m = Wire(p)[1]
  OBVIOUS
<1>3. /\ Wire(p) # <<>> /\ up'[Address(p)] = Tail(Wire(p)) /\ \A b \in Addrs \ {Address(p)} : up'[b] = up[b]
      /\ UNCHANGED <<disk, raw, made, writes, wrote, port, main, job>> /\ Address(p)' = Address(p)
      /\ m \in Messages /\ m.n \in Nat /\ 1 \in DOMAIN Wire(p) /\ m = Head(Wire(p))
      /\ p \in listed'
      /\ heard'[p] = (IF ~HandleEof(Address(p)) /\ m.n > heard[p] THEN m.n ELSE heard[p])
  <2>1. Address(p) \in Addrs /\ Address(p)[1] = p /\ Handle(Address(p)) /\ ~HandleEof(Address(p))
    BY PeerTypes DEF Handle, HandleRegister, HandleEof
  <2>2. m = up[Address(p)][1] /\ Wire(p) = up[Address(p)]
    BY <1>2 DEF Wire
  <2>3. /\ up[Address(p)] # <<>> /\ up'[Address(p)] = Tail(up[Address(p)])
        /\ \A b \in Addrs \ {Address(p)} : up'[b] = up[b]
        /\ UNCHANGED <<disk, raw, made, writes, wrote, port, main, job>> /\ Address(p)' = Address(p)
        /\ Head(up[Address(p)]) = up[Address(p)][1] /\ 1 \in DOMAIN up[Address(p)]
        /\ up[Address(p)][1] \in Messages /\ up[Address(p)][1].n \in Nat
    BY <2>1, HandleFacts
  <2>4. /\ p \in listed' <=> p \in listed \/ HandleRegister(Address(p))
        /\ heard'[p] = IF up[Address(p)][1].n > heard[p] THEN up[Address(p)][1].n ELSE heard[p]
    BY <2>1, HandleFacts
  <2> QED
    BY <2>1, <2>2, <2>3, <2>4
<1>4. ~HandleUpdate(Address(p)) /\ ~HandleEof(Address(p))
  BY DEF HandleUpdate, HandleRegister, HandleEof
<1>5. Connected(p) /\ Ordered(p) /\ LastTold(p) /\ Known(p) /\ Past(p) /\ Named /\ Genuine(disk[p])
  BY DEF Line, PeerLine
<1>6. /\ c \in Entries
      /\ m.type = "REGISTER" /\ Kind(m) \in {"FILE_CREATED", "FILE_DELETED"} /\ Tells(m)
      /\ Kind(m) = "FILE_CREATED" =>
           /\ c # NoEntry
           /\ Stamp(c) = Stamp(File(m)) \/ (c = Current /\ c.mtime >= File(m).mtime)
  BY <1>1, <1>2, PeerTypes, RegisterMakes DEF Wire
<1>7. p \notin listed
  BY <1>2, <1>3, <1>5, <1>6 DEF Connected
<1>8. heard[p] <= m.n /\ down[p] = <<>> /\ main[p].pc = "idle" /\ job[p].phase = "none"
  BY <1>2, <1>5, <1>7 DEF Connected
<1>9. /\ made[p] \in Nat /\ heard[p] \in Nat /\ writes \in Nat
      /\ disk[p].mtime \in Nat /\ (disk[p].mtime = 0 <=> disk[p] = NoCopy)
  <2>1. disk[p].mtime \in Nat /\ (disk[p] # NoCopy => disk[p].mtime > 0) /\ NoCopy.mtime = 0
    BY DiskFacts
  <2>2. made[p] \in Nat /\ heard[p] \in Nat /\ writes \in Nat
    BY PeerTypes
  <2> QED
    BY <2>1, <2>2
<1>10. heard'[p] = m.n
  BY <1>3, <1>4, <1>8, <1>9
<1>11. PICK x : x = [entry |-> c, heard |-> m.n]
  OBVIOUS
<1>12. x.entry = c /\ x.heard = m.n
  BY <1>11
<1>13. Len(down'[p]) = 1 /\ DOMAIN down'[p] = 1..1 /\ down'[p][1] = x
  <2>1. down'[p] = Append(down[p], x)
    BY <1>1, <1>3, <1>4, <1>10, <1>11, PeerTypes, HandleFacts DEF Handle
  <2>2. down'[p] = <<x>>
    BY <1>8, <2>1
  <2> QED
    BY <2>2
<1>14. /\ Connected(p)' /\ Ordered(p)' /\ LastTold(p)' /\ ~Settled(p)
       /\ \A k \in Nat : Awaits(p, "FILE_CREATED", k) /\ k # m.n => Awaits(p, "FILE_CREATED", k)'
       /\ Awaits(p, Kind(m), m.n)
  BY <1>2, <1>3, <1>5, <1>6, <1>10, HearsChange
<1>15. Known(p)'
  <2> SUFFICES ASSUME disk[p] # NoCopy
               PROVE  c # NoEntry \/ \E n \in Nat : Awaits(p, "FILE_CREATED", n)'
    BY <1>1, <1>3 DEF Known
  <2>1. CASE Kind(m) = "FILE_CREATED"
    BY <1>6, <2>1
  <2>2. CASE Kind(m) = "FILE_DELETED"
    <3>1. PICK k \in Nat : k > m.n /\ Awaits(p, "FILE_CREATED", k)
      BY <1>3, <1>5, <1>14, <2>2 DEF LastTold
    <3>2. k # m.n
      BY <1>3, <3>1
    <3> QED
      BY <1>14, <3>1, <3>2
  <2> QED
    BY <1>6, <2>1, <2>2
<1>16. Past(p)'
  <2>1. \A i \in DOMAIN down'[p] : /\ down'[p][i].heard <= m.n
                                   /\ \A j \in 1..i : down'[p][j].heard <= down'[p][i].heard
    <3>1. ASSUME NEW i \in 1..1, NEW j \in 1..i PROVE i = 1 /\ j = 1
      OBVIOUS
    <3>2. \A i \in 1..1 : down'[p][i].heard = m.n /\ \A j \in 1..i : down'[p][j].heard = m.n
      BY <1>12, <1>13, <3>1
    <3> QED
      BY <1>3, <1>13, <3>2
  <2>2. main'[p].pc = "idle" /\ job'[p].phase = "none"
    BY <1>3, <1>8
  <2> QED
    BY <1>10, <2>1, <2>2 DEF Past
<1>17. Settled(p)' => InLine(p)'
  <2> SUFFICES ASSUME m.n = made[p] PROVE InLine(p)'
    BY <1>3, <1>10 DEF Settled
  <2>1. Stamp(disk[p]) \in Stamps /\ Stamp(disk[p]).mtime = disk[p].mtime
    BY DiskFacts, StampFacts DEF Stamp, SyncTypes, DiskTypes
  <2>2. PICK s \in Stamps : s = Stamp(disk[p])
    BY <2>1
  <2>3. IF Kind(m) = "FILE_DELETED" THEN disk[p] = NoCopy ELSE disk[p] # NoCopy /\ File(m) = Info(disk[p])
    BY <1>2, <1>3, <1>5, <1>6 DEF LastTold
  <2>4. Follows(p, s, c)'
    <3>1. CASE Kind(m) = "FILE_DELETED"
      <4>1. s.mtime = 0
        BY <1>9, <2>1, <2>2, <2>3, <3>1
      <4> QED
        BY <4>1 DEF Follows
    <3>2. CASE Kind(m) = "FILE_CREATED"
      <4>1. Stamp(File(m)) = s /\ File(m).mtime = s.mtime
        BY <2>2, <2>3, <3>2 DEF Info, Stamp
      <4>2. CASE Stamp(c) = s
        BY <4>2 DEF Follows, Stamp
      <4>3. CASE c = Current /\ c.mtime >= s.mtime
        <5>1. Address(p) \notin Current.peers
          BY <1>5, <1>7, PeerTypes DEF Named
        <5>2. Address(p)' \notin c.peers
          BY <1>3, <4>3, <5>1
        <5> QED
          BY <4>3, <5>2 DEF Follows
      <4> QED
        BY <1>6, <3>2, <4>1, <4>2, <4>3
    <3> QED
      BY <1>6, <3>1, <3>2
  <2>5. Leads(p, 0, s)'
    <3>1. 1..0 = {} /\ 0 + 1 = 1 /\ 1 - 1 = 0
      OBVIOUS
    <3>2. \A i \in 1..1 : down'[p][i].heard = made'[p]
      BY <1>3, <1>12, <1>13
    <3>3. Stamp(down'[p][Len(down'[p])].entry) = Stamp(Current') /\ 0 # Len(down'[p]) /\ 0 < Len(down'[p])
      BY <1>1, <1>12, <1>13
    <3>4. Follows(p, s, down[p][1].entry)'
      BY <1>12, <1>13, <2>4 DEF Follows, Stamp
    <3> QED
      BY <1>13, <3>1, <3>2, <3>3, <3>4 DEF Leads, Stamp
  <2>6. View(p, s)'
    BY <1>3, <1>8, <1>9, <2>1, <2>2 DEF View, Stamp
  <2>7. 0 \in 0..Len(down'[p])
    BY <1>13
  <2> QED
    BY <2>2, <2>5, <2>6, <2>7 DEF InLine
<1>18. Genuine(disk[p])'
  BY <1>3, <1>5 DEF Genuine
<1> QED
  BY <1>14, <1>15, <1>16, <1>17, <1>18 DEF PeerLine

LEMMA LineRegister ==
  ASSUME SyncTypes, NEW a \in Addrs, HandleRegister(a), Line
  PROVE  Line'
<1>1. PICK c : c = Current'
  OBVIOUS
<1>2. /\ c \in Entries /\ c.peers \subseteq Current.peers \cup {a}
      /\ \A q \in Peers : Address(q) # a => Follows(q, Stamp(Current), c)
  BY <1>1, RegisterMakes
<1>3. Handle(a) /\ ~HandleEof(a) /\ a[1] \in Peers /\ (a = Address(a[1]) => a[1] \in listed')
  BY AddressFacts DEF Handle, HandleRegister, HandleEof
<1>4. \A q \in Peers : Address(q) = a => PeerLine(q)'
  BY RegisterOwn
<1>5. \A q \in Peers : Address(q) # a => PeerLine(q)'
  BY <1>1, <1>2, <1>3, TrackerOthers
<1> QED
  BY <1>1, <1>2, <1>3, <1>4, <1>5, TrackerStep
----------------------------------------------------------------------------
LEMMA LineStutters ==
  ASSUME SyncTypes, Line, UNCHANGED vars
  PROVE  Line'
<1>1. UNCHANGED <<disk, raw, made, writes, wrote, up, down, port, listed, table, heard, main, job>>
  BY DEF vars, disks, clock, network, tracker
<1>2. Current' = Current /\ Current \in Entries
  BY <1>1, CurrentFacts DEF Current
<1>3. Named'
  BY <1>1, <1>2 DEF Line, Named, Address
<1>4. ASSUME NEW q \in Peers PROVE PeerLine(q)'
  <2>1. PeerLine(q)
    BY DEF Line
  <2>2. \A a \in Addrs : Drains(a)
    BY <1>1 DEF Drains
  <2>3. Address(q)' = Address(q)
    BY <1>1 DEF Address
  <2>4. q \notin listed => heard[q] <= Wire(q)[1].n
    BY <2>1 DEF PeerLine, Connected
  <2>5. heard[q] \in Nat /\ writes \in Nat /\ heard[q] <= heard[q] /\ writes <= writes
    BY PeerTypes
  <2> QED
    BY <1>1, <1>2, <2>1, <2>2, <2>3, <2>4, <2>5, LineOthers
<1> QED
  BY <1>3, <1>4 DEF Line

LEMMA NextLine == SyncTypes /\ LineInv /\ [Next]_vars => LineInv'
<1> SUFFICES ASSUME SyncTypes, LineInv, [Next]_vars, Unharmed'
             PROVE  Line'
  BY DEF LineInv
<1>1. SyncTypes'
  BY NextTypes
<1>2. Unharmed
  <2>1. CASE UNCHANGED vars
    BY <2>1 DEF vars, Unharmed
  <2>2. CASE Next
    BY <2>2, HistoryGrows DEF Unharmed
  <2> QED
    BY <2>1, <2>2
<1>3. Line
  BY <1>2 DEF LineInv
<1>4. CASE UNCHANGED vars
  BY <1>3, <1>4, LineStutters
<1>5. CASE User
  BY <1>3, <1>5, LineUser
<1>6. ASSUME NEW a \in Addrs, Handle(a) PROVE Line'
  BY <1>3, <1>6, LineRegister, LineUpdate, LineEof DEF Handle
<1>7. ASSUME NEW p \in Peers, Observe(p) PROVE Line'
  BY <1>3, <1>7, LineObserve
<1>8. ASSUME NEW p \in Peers, MainThread(p) PROVE Line'
  <2>1. "skipped" \notin harm'
    BY DEF Unharmed
  <2> QED
    BY <1>3, <1>8, <2>1, LineTakeTable, LineDrop, LineShow, LineSkip, LinePlace DEF MainThread
<1>9. ASSUME NEW p \in Peers, Download(p) PROVE Line'
  <2>1. ~Spoil(p) /\ ~Strand(p) /\ \A q \in Peers : ~Hang(p, q)
    BY DEF Spoil, Strand, Hang, Unharmed
  <2> QED
    BY <1>3, <1>9, <2>1, LineResume, LineFetch DEF Download
<1>10. ASSUME NEW p \in Peers, Restart(p) PROVE Line'
  BY <1>1, <1>3, <1>10, LineRestart
<1>11. CASE Next
  BY <1>3, <1>5, <1>6, <1>7, <1>8, <1>9, <1>10, <1>11 DEF Next
<1> QED
  BY <1>3, <1>4, <1>11

(***************************************************************************)
(* Whatever overlaps, a holder the table names has the bytes of the        *)
(* version the table describes, unless it is still at work or the tracker  *)
(* has yet to hear of its change (HoldersHold), until harm is done; with   *)
(* any number of peers, versions and restarts.                             *)
(***************************************************************************)
THEOREM HoldersCorrect == Spec => []HoldersHold
<1>1. Spec => []SyncTypes
  BY InitTypes, NextTypes, PTL DEF Spec
<1>2. Spec => []LineInv
  BY <1>1, InitTypes, InitLine, NextLine, PTL DEF Spec
<1> QED
  BY <1>1, <1>2, LineHolds, PTL

(***************************************************************************)
(* Whatever overlaps, once nothing is on its way the peers agree with the  *)
(* table (Converged), unless harm was done.                                *)
(***************************************************************************)
THEOREM ConvergenceCorrect == Spec => []Converged
<1>1. Spec => []SyncTypes
  BY InitTypes, NextTypes, PTL DEF Spec
<1>2. Spec => []LineInv
  BY <1>1, InitTypes, InitLine, NextLine, PTL DEF Spec
<1> QED
  BY <1>1, <1>2, LineConverges, PTL
=============================================================================
