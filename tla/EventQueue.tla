----------------------------- MODULE EventQueue -----------------------------
(***************************************************************************)
(* The queue of file events between the two threads of a peer              *)
(* (src/monitor/eventqueue.c): monitor_thread adds events, and             *)
(* read_monitor_thread of src/peer/peer.c takes all there are, sends them  *)
(* to the tracker in one FILE_UPDATE and frees them.                       *)
(*                                                                         *)
(* Each access to the queue's fields is a step.  The lock is a default     *)
(* mutex, which does not check who unlocks it: eventqueue_get_blocking     *)
(* unlocks twice, and the second unlock opens the lock for everyone when   *)
(* the producer has taken it in between.  stray records that.              *)
(***************************************************************************)
EXTENDS Integers, Sequences

CONSTANT MaxEvents   \* bound: events the producer adds

ASSUME MaxEventsAssumption == MaxEvents \in Nat

VARIABLES
  locked,     \* q->lock is locked
  head, tail, length,  \* the fields of EventQueue
  next,       \* next[e]: the next pointer of event e
  freed,      \* the events that have been freed
  added,      \* the last event allocated: events are numbered as they are
  prodPc,     \* where eventqueue_add is
  seen,       \* the length it has read
  consPc,     \* where the consumer is
  batch,      \* the events the consumer holds: the head of their list
  sent,       \* the events sent to the tracker, in order
  stray,      \* history: the consumer has unlocked the producer's lock
  crashed     \* a null or freed event has been written to

queue    == <<head, tail, length, next>>
producer == <<added, prodPc, seen>>
consumer == <<consPc, batch, sent, freed>>
queueVars == <<locked, queue, producer, consumer, stray, crashed>>

Null == 0
Events == 1..MaxEvents
Pointers == Events \cup {Null}

ProdInside == {"test", "first", "setTail", "append", "advance", "load", "store", "signal", "unlock"}
ConsInside == {"check", "take", "clearHead", "clearTail", "clearLength", "unlock"}

QueueTypeOK ==
  /\ locked \in BOOLEAN
  /\ head \in Pointers /\ tail \in Pointers /\ length \in Nat
  /\ next \in [Events -> Pointers]
  /\ freed \subseteq Events
  /\ added \in 0..MaxEvents
  /\ prodPc \in {"idle", "lock"} \cup ProdInside
  /\ seen \in Nat
  /\ consPc \in {"lock", "waiting", "relock", "unlock2", "send", "free"} \cup ConsInside
  /\ batch \in Pointers
  /\ sent \in Seq(Events)
  /\ stray \in BOOLEAN /\ crashed \in BOOLEAN

QueueInit ==
  /\ locked = FALSE
  /\ head = Null /\ tail = Null /\ length = 0
  /\ next = [e \in Events |-> Null]
  /\ freed = {}
  /\ added = 0
  /\ prodPc = "idle"
  /\ seen = 0
  /\ consPc = "lock"
  /\ batch = Null
  /\ sent = <<>>
  /\ stray = FALSE /\ crashed = FALSE

Running == ~crashed /\ UNCHANGED crashed

ProdGoes(from, to) == Running /\ prodPc = from /\ prodPc' = to
ConsGoes(from, to) == Running /\ consPc = from /\ consPc' = to

Lock   == ~locked /\ locked' = TRUE
Unlock == locked' = FALSE

----------------------------------------------------------------------------
\* eventqueue_add.

\* The monitor has an event to add; its next pointer is cleared.
Produce ==
  /\ ProdGoes("idle", "lock")
  /\ added < MaxEvents
  /\ added' = added + 1
  /\ UNCHANGED <<locked, queue, seen, consumer, stray>>

AddLock ==
  /\ ProdGoes("lock", "test")
  /\ Lock
  /\ UNCHANGED <<queue, added, seen, consumer, stray>>

AddTest ==
  /\ ProdGoes("test", IF head = Null THEN "first" ELSE "append")
  /\ UNCHANGED <<locked, queue, added, seen, consumer, stray>>

AddFirst ==
  /\ ProdGoes("first", "setTail")
  /\ head' = added
  /\ UNCHANGED <<locked, tail, length, next, added, seen, consumer, stray>>

\* Mutant of AddSetTail: tail is left as it was.
AddSetNoTail ==
  /\ ProdGoes("setTail", "load")
  /\ UNCHANGED <<locked, queue, added, seen, consumer, stray>>

\* q->tail = q->head
AddSetTail ==
  /\ ProdGoes("setTail", "load")
  /\ tail' = head
  /\ UNCHANGED <<locked, head, length, next, added, seen, consumer, stray>>

\* q->tail->next = event
AddAppend ==
  /\ ProdGoes("append", "advance")
  /\ tail # Null /\ tail \notin freed
  /\ next' = [next EXCEPT ![tail] = added]
  /\ UNCHANGED <<locked, head, tail, length, added, seen, consumer, stray>>

\* q->tail = q->tail->next
AddAdvance ==
  /\ ProdGoes("advance", "load")
  /\ tail # Null /\ tail \notin freed
  /\ tail' = next[tail]
  /\ UNCHANGED <<locked, head, length, next, added, seen, consumer, stray>>

\* Following a tail that is null or points to a freed event.
AddCrash ==
  /\ prodPc \in {"append", "advance"}
  /\ tail = Null \/ tail \in freed
  /\ ~crashed /\ crashed' = TRUE
  /\ UNCHANGED <<locked, queue, producer, consumer, stray>>

\* q->length++
AddLoadLength ==
  /\ ProdGoes("load", "store")
  /\ seen' = length
  /\ UNCHANGED <<locked, queue, added, consumer, stray>>

AddStoreLength ==
  /\ ProdGoes("store", "signal")
  /\ length' = seen + 1
  /\ seen' = 0
  /\ UNCHANGED <<locked, head, tail, next, added, consumer, stray>>

\* Mutant of AddSignal: nobody is woken.
AddSignalNot ==
  /\ ProdGoes("signal", "unlock")
  /\ UNCHANGED <<locked, queue, added, seen, consumer, stray>>

\* pthread_cond_signal
AddSignal ==
  /\ ProdGoes("signal", "unlock")
  /\ consPc' = IF consPc = "waiting" THEN "relock" ELSE consPc
  /\ UNCHANGED <<locked, queue, added, seen, batch, sent, freed, stray>>

AddUnlock ==
  /\ ProdGoes("unlock", "idle")
  /\ Unlock
  /\ UNCHANGED <<queue, added, seen, consumer, stray>>

----------------------------------------------------------------------------
\* eventqueue_get_blocking, and what read_monitor_thread does with its result.

GetLock ==
  /\ ConsGoes("lock", "check")
  /\ Lock
  /\ UNCHANGED <<queue, producer, batch, sent, freed, stray>>

\* pthread_cond_wait unlocks and waits in one step.
GetCheck ==
  /\ \/ length = 0 /\ ConsGoes("check", "waiting") /\ Unlock
     \/ length # 0 /\ ConsGoes("check", "take") /\ UNCHANGED locked
  /\ UNCHANGED <<queue, producer, batch, sent, freed, stray>>

\* pthread_cond_wait may return without a signal.
GetSpurious ==
  /\ ConsGoes("waiting", "relock")
  /\ UNCHANGED <<locked, queue, producer, batch, sent, freed, stray>>

\* Mutant of GetRelock: the wait returns without the lock.
GetRelockNot ==
  /\ ConsGoes("relock", "check")
  /\ UNCHANGED <<locked, queue, producer, batch, sent, freed, stray>>

GetRelock ==
  /\ ConsGoes("relock", "check")
  /\ Lock
  /\ UNCHANGED <<queue, producer, batch, sent, freed, stray>>

\* eventqueue_remove_all
TakeHead ==
  /\ ConsGoes("take", "clearHead")
  /\ batch' = head
  /\ UNCHANGED <<locked, queue, producer, sent, freed, stray>>

\* Mutant of ClearHead: head keeps pointing to what has been taken.
ClearHeadNot ==
  /\ ConsGoes("clearHead", "clearTail")
  /\ UNCHANGED <<locked, queue, producer, batch, sent, freed, stray>>

ClearHead ==
  /\ ConsGoes("clearHead", "clearTail")
  /\ head' = Null
  /\ UNCHANGED <<locked, tail, length, next, producer, batch, sent, freed, stray>>

ClearTail ==
  /\ ConsGoes("clearTail", "clearLength")
  /\ tail' = Null
  /\ UNCHANGED <<locked, head, length, next, producer, batch, sent, freed, stray>>

ClearLength ==
  /\ ConsGoes("clearLength", "unlock")
  /\ length' = 0
  /\ UNCHANGED <<locked, head, tail, next, producer, batch, sent, freed, stray>>

RemoveAllUnlock ==
  /\ ConsGoes("unlock", "unlock2")
  /\ Unlock
  /\ UNCHANGED <<queue, producer, batch, sent, freed, stray>>

\* The second unlock, by eventqueue_get_blocking itself.
GetUnlock ==
  /\ ConsGoes("unlock2", "send")
  /\ Unlock
  /\ stray' = (stray \/ locked)
  /\ UNCHANGED <<queue, producer, batch, sent, freed>>

\* The events of a list, in order.  A next pointer leads to a later event.
List(first) ==
  LET from[e \in Pointers] == IF e = Null THEN <<>> ELSE <<e>> \o from[next[e]]
  IN  from[first]

\* send_file_update follows the whole list ...
SendBatch ==
  /\ ConsGoes("send", "free")
  /\ sent' = sent \o List(batch)
  /\ UNCHANGED <<locked, queue, producer, batch, freed, stray>>

\* ... and the clean-up frees it one by one.
FreeOne ==
  /\ ConsGoes("free", "free")
  /\ batch # Null
  /\ batch' = next[batch]
  /\ freed' = freed \cup {batch}
  /\ UNCHANGED <<locked, queue, producer, sent, stray>>

FreeDone ==
  /\ ConsGoes("free", "lock")
  /\ batch = Null
  /\ UNCHANGED <<locked, queue, producer, batch, sent, freed, stray>>

----------------------------------------------------------------------------
AddStep ==
  \/ AddLock \/ AddTest \/ AddFirst \/ AddSetTail \/ AddAppend \/ AddAdvance \/ AddCrash
  \/ AddLoadLength \/ AddStoreLength \/ AddSignal \/ AddUnlock

GetStep ==
  \/ GetLock \/ GetCheck \/ GetRelock
  \/ TakeHead \/ ClearHead \/ ClearTail \/ ClearLength \/ RemoveAllUnlock \/ GetUnlock
  \/ SendBatch \/ FreeOne \/ FreeDone

QueueNext == Produce \/ AddStep \/ GetStep \/ GetSpurious

QueueSpec == QueueInit /\ [][QueueNext]_queueVars

\* Both threads run, and nothing promises another event.  A consumer that keeps
\* waking up without a signal does not keep the producer from the lock for ever.
QueueFairSpec == QueueSpec /\ WF_queueVars(AddStep) /\ WF_queueVars(GetStep) /\ SF_queueVars(AddLock)

----------------------------------------------------------------------------
\* Properties.

\* The lock keeps the threads apart for as long as the second unlock has not hit
\* the producer: unlocking an unlocked mutex does no harm.
ApartUntilStray ==
  ~stray => ~(prodPc \in ProdInside /\ consPc \in ConsInside)

\* The events that eventqueue_add has put in the queue, or is about to.
Entered == IF prodPc \in {"idle", "load", "store", "signal", "unlock"} THEN added ELSE added - 1

\* While nobody changes the queue, the events sent, those the consumer has still to
\* send and those in the queue are all the events there are, in the order they were
\* added, and tail and length agree with the list.
InHand == IF consPc \in {"unlock", "unlock2", "send"} THEN List(batch) ELSE <<>>

Intact ==
  (prodPc \in {"idle", "lock"} /\ consPc \notin {"clearHead", "clearTail", "clearLength"}) =>
    /\ sent \o InHand \o List(head) = [i \in 1..Entered |-> i]
    /\ length = Len(List(head))
    /\ tail = IF head = Null THEN Null ELSE List(head)[Len(List(head))]

\* Until the second unlock hits the producer, no event is lost, repeated or
\* reordered ...
IntactUntilStray == ~stray => Intact

\* ... and eventqueue_add follows no null tail and none that has been freed.
SafeUntilStray == ~stray => ~crashed

\* An event that has been added is sent in the end, or the lock has been broken:
\* no wakeup is lost between the test of length and the wait.
SentOrStray == \A e \in Events : (added = e) ~> (stray \/ \E i \in DOMAIN sent : sent[i] = e)
=============================================================================
