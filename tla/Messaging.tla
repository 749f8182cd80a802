------------------------------ MODULE Messaging ------------------------------
(***************************************************************************)
(* The stream from a peer to the tracker (src/messaging/segment.c).        *)
(*                                                                         *)
(* A message is written with one send for its header, one for its body and *)
(* one for each struct after that, and read the same way; nothing but the  *)
(* counts in the body says where it ends.  A peer writes from its main     *)
(* thread (REGISTER), from the reader of its event queue and from each     *)
(* completed download (FILE_UPDATE, under comm_lock) and from its           *)
(* heartbeat thread (KEEP_ALIVE, without it).  One send arrives whole or   *)
(* not at all.  The peer may stop between any two.                         *)
(***************************************************************************)
EXTENDS Integers, Sequences

CONSTANTS Main,       \* the main thread of the peer
          Reporters,  \* its threads that send a FILE_UPDATE
          MaxFiles,   \* bound: files in the registration
          MaxEvents,  \* bound: events reported
          MaxBeats    \* bound: heartbeats

ASSUME ThreadsAssumption == Main \notin Reporters
ASSUME BoundsAssumption == MaxFiles \in Nat /\ MaxEvents \in Nat /\ MaxBeats \in Nat

VARIABLES
  stream,    \* what has been sent and not been read, in order
  peer,      \* "up", or how the connection ended: "closed" or "reset"
  commLock,  \* whether comm_lock is taken
  out,       \* out[t]: what thread t has still to send of its message
  produced,  \* files and events so far: they are numbered
  beats,     \* heartbeats so far
  rdPc,      \* the struct recv_message waits for, or how its thread ended
  type,      \* msg->type
  left,      \* how many items of the list it has still to read
  items,     \* the list it has read
  begun,     \* history: the messages sent, in the order of their headers
  handled,   \* history: the messages the tracker has handled
  crossed    \* history: a heartbeat was sent in the middle of a message

writer == <<commLock, out, produced, beats, begun, crossed>>
reader == <<rdPc, type, left, items, handled>>
vars == <<stream, peer, writer, reader>>

Threads == Reporters \cup {Main}

\* Structs: n is the count in a body, the number of a file or event elsewhere.
HeaderTypes == {"REGISTER", "KEEP_ALIVE", "FILE_UPDATE"}
Kinds == HeaderTypes \cup {"body", "file", "event"}
Part(kind, n) == [kind |-> kind, n |-> n]
Parts == [kind : Kinds, n : Nat]

\* An item as it is read: the numbers of the two structs it is made of.  The
\* structs are calloced before recv fills them: Blank is a path of length 0, and
\* for an action it is 0, which is FILE_MODIFIED.
Blank == 0
Items == [file : Nat, action : Nat]

Ends == {"finished", "crashed", "garbled"}

TypeOK ==
  /\ stream \in Seq(Parts)
  /\ peer \in {"up", "closed", "reset"}
  /\ commLock \in BOOLEAN
  /\ out \in [Threads -> Seq(Parts)]
  /\ produced \in Nat /\ beats \in 0..MaxBeats
  /\ rdPc \in {"header", "body", "file", "event"} \cup Ends
  /\ type \in HeaderTypes \cup {"NONE"}
  /\ left \in Nat
  /\ items \in Seq(Items)
  /\ begun \in Seq([type : HeaderTypes, items : Seq(Items)])
  /\ handled \in Seq([type : HeaderTypes, items : Seq(Items)])
  /\ crossed \in BOOLEAN

Init ==
  /\ stream = <<>>
  /\ peer = "up"
  /\ commLock = FALSE
  /\ out = [t \in Threads |-> <<>>]
  /\ produced = 0 /\ beats = 0
  /\ rdPc = "header" /\ type = "NONE" /\ left = 0 /\ items = <<>>
  /\ begun = <<>> /\ handled = <<>>
  /\ crossed = FALSE

----------------------------------------------------------------------------
\* The peer.

\* The structs of a message: fileinfo_send_all sends a file with one send,
\* fileevent_send_all an event with two.
Written(kind, ids) ==
  <<Part(kind, 0), Part("body", Len(ids))>> \o
    IF kind = "REGISTER"
      THEN [i \in 1..Len(ids) |-> Part("file", ids[i])]
      ELSE [i \in 1..(2 * Len(ids)) |->
              Part(IF i % 2 = 1 THEN "file" ELSE "event", ids[(i + 1) \div 2])]

\* A message as it should be handled: both receivers put what they read at the
\* head of a list.
Whole(kind, ids) ==
  [type |-> kind,
   items |-> [i \in 1..Len(ids) |->
                LET id == ids[Len(ids) + 1 - i]
                IN  [file |-> id, action |-> IF kind = "REGISTER" THEN Blank ELSE id]]]

Fresh(n) == [i \in 1..n |-> produced + i]

\* register_with_tracker.
Register(n) ==
  /\ peer = "up"
  /\ begun = <<>> /\ out[Main] = <<>>
  /\ out' = [out EXCEPT ![Main] = Written("REGISTER", Fresh(n))]
  /\ begun' = <<Whole("REGISTER", Fresh(n))>>
  /\ produced' = produced + n
  /\ UNCHANGED <<stream, peer, commLock, beats, crossed, reader>>

\* The other threads are created when the REGISTER_ACK has come.
Registered == handled # <<>>

\* Mutant of Report: comm_lock is not taken.
ReportUnlocked(t, n) ==
  /\ peer = "up" /\ Registered
  /\ out[t] = <<>>
  /\ produced + n <= MaxFiles + MaxEvents
  /\ commLock' = TRUE
  /\ LET parts == Written("FILE_UPDATE", Fresh(n))
     IN /\ stream' = Append(stream, Head(parts))
        /\ out' = [out EXCEPT ![t] = Tail(parts)]
  /\ begun' = Append(begun, Whole("FILE_UPDATE", Fresh(n)))
  /\ produced' = produced + n
  /\ UNCHANGED <<peer, beats, crossed, reader>>

\* send_file_update: of n events for the reader of the queue, of one when a
\* download is complete.  The header is sent in the step that takes the lock.
Report(t, n) ==
  /\ peer = "up" /\ Registered
  /\ out[t] = <<>> /\ ~commLock
  /\ produced + n <= MaxFiles + MaxEvents
  /\ commLock' = TRUE
  /\ LET parts == Written("FILE_UPDATE", Fresh(n))
     IN /\ stream' = Append(stream, Head(parts))
        /\ out' = [out EXCEPT ![t] = Tail(parts)]
  /\ begun' = Append(begun, Whole("FILE_UPDATE", Fresh(n)))
  /\ produced' = produced + n
  /\ UNCHANGED <<peer, beats, crossed, reader>>

\* The next send; comm_lock is given back after the last.
SendPart(t) ==
  /\ peer = "up"
  /\ out[t] # <<>>
  /\ stream' = Append(stream, Head(out[t]))
  /\ out' = [out EXCEPT ![t] = Tail(@)]
  /\ commLock' = (commLock /\ ~(t \in Reporters /\ Len(out[t]) = 1))
  /\ UNCHANGED <<peer, produced, beats, begun, crossed, reader>>

\* heartbeat_thread: send_keep_alive, without comm_lock.
Heartbeat ==
  /\ peer = "up" /\ Registered
  /\ beats < MaxBeats
  /\ beats' = beats + 1
  /\ stream' = Append(stream, Part("KEEP_ALIVE", 0))
  /\ begun' = Append(begun, [type |-> "KEEP_ALIVE", items |-> <<>>])
  /\ crossed' = (crossed \/ \E t \in Threads : out[t] # <<>>)
  /\ UNCHANGED <<peer, commLock, out, produced, reader>>

\* The process ends, by stop_peer or otherwise.  The kernel closes the connection,
\* or resets it if a TABLE_UPDATE has come that nobody has read.
Stop ==
  /\ peer = "up"
  /\ peer' \in {"closed", "reset"}
  /\ UNCHANGED <<stream, writer, reader>>

----------------------------------------------------------------------------
\* The tracker: recv_message, in the handshake thread of this connection.

Comes(kind) == stream # <<>> /\ Head(stream).kind = kind
Take == stream' = Tail(stream)

\* What has been sent before the connection ends can still be read; then recv
\* returns 0, or an error once if the connection was reset.
Ended == stream = <<>> /\ peer # "up"

Waits(for) == rdPc = for /\ UNCHANGED <<peer, writer>>

\* The message is complete, and handled.
Deliver(list) ==
  /\ handled' = Append(handled, [type |-> type, items |-> list])
  /\ items' = <<>>
  /\ left' = 0
  /\ rdPc' = "header"

ReadHeader(kind) ==
  /\ Waits("header") /\ Comes(kind) /\ Take
  /\ type' = kind
  /\ IF kind = "KEEP_ALIVE"
       THEN /\ handled' = Append(handled, [type |-> kind, items |-> <<>>])
            /\ UNCHANGED rdPc
       ELSE rdPc' = "body" /\ UNCHANGED handled
  /\ UNCHANGED <<left, items>>

\* Mutant of HangUp: a recv of 0 bytes is taken for a message of no type.
HangUpIgnored ==
  /\ Waits("header") /\ Ended
  /\ type' = "NONE"
  /\ UNCHANGED <<stream, rdPc, left, items, handled>>

\* recv_message returns -1 and the thread goes to its clean-up.
HangUp ==
  /\ Waits("header") /\ Ended
  /\ rdPc' = "finished"
  /\ UNCHANGED <<stream, type, left, items, handled>>

\* Mutant of ReadBody: one struct more than the body says is waited for.
ReadBodyOneMore ==
  /\ Waits("body") /\ Comes("body") /\ Take
  /\ left' = Head(stream).n + 1
  /\ rdPc' = "file"
  /\ UNCHANGED <<type, items, handled>>

ReadBody ==
  /\ Waits("body") /\ Comes("body") /\ Take
  /\ IF Head(stream).n = 0
       THEN Deliver(<<>>)
       ELSE left' = Head(stream).n /\ rdPc' = "file" /\ UNCHANGED <<items, handled>>
  /\ UNCHANGED type

\* One round of fileinfo_receive or fileevent_receive is over.
ItemRead(list) ==
  IF left = 1
    THEN Deliver(list)
    ELSE items' = list /\ left' = left - 1 /\ rdPc' = "file" /\ UNCHANGED handled

FileRead(id) ==
  LET list == <<[file |-> id, action |-> Blank]>> \o items
  IN  IF type = "REGISTER"
        THEN ItemRead(list)
        ELSE items' = list /\ rdPc' = "event" /\ UNCHANGED <<left, handled>>

EventRead(id) == ItemRead([items EXCEPT ![1].action = id])

ReadFile ==
  /\ Waits("file") /\ Comes("file") /\ Take
  /\ FileRead(Head(stream).n)
  /\ UNCHANGED type

ReadEvent ==
  /\ Waits("event") /\ Comes("event") /\ Take
  /\ EventRead(Head(stream).n)
  /\ UNCHANGED type

\* In the middle of a message, a recv that returns 0 is not taken for the end: the
\* struct stays as calloc left it, and a body of zeros announces no items.
BodyZeros ==
  /\ Waits("body") /\ Ended /\ peer = "closed"
  /\ Deliver(<<>>)
  /\ UNCHANGED <<stream, type>>

FileZeros ==
  /\ Waits("file") /\ Ended /\ peer = "closed"
  /\ FileRead(Blank)
  /\ UNCHANGED <<stream, type>>

EventZeros ==
  /\ Waits("event") /\ Ended /\ peer = "closed"
  /\ EventRead(Blank)
  /\ UNCHANGED <<stream, type>>

\* After an error the body stays a null pointer, although recv_message returns 1:
\* the handshake thread follows it, and the tracker is gone ...
BodyError ==
  /\ Waits("body") /\ Ended /\ peer = "reset"
  /\ rdPc' = "crashed"
  /\ UNCHANGED <<stream, type, left, items, handled>>

\* ... or the list becomes a null pointer: a message with no items.
ListError ==
  /\ rdPc \in {"file", "event"} /\ Waits(rdPc) /\ Ended /\ peer = "reset"
  /\ Deliver(<<>>)
  /\ UNCHANGED <<stream, type>>

\* A struct of another kind than the one waited for: it is taken for what it is
\* not, from here on nothing is read as it was sent, and the model stops.
Misread ==
  /\ rdPc \notin Ends /\ Waits(rdPc)
  /\ stream # <<>>
  /\ IF rdPc = "header" THEN Head(stream).kind \notin HeaderTypes ELSE ~Comes(rdPc)
  /\ rdPc' = "garbled"
  /\ UNCHANGED <<stream, type, left, items, handled>>

----------------------------------------------------------------------------
ReaderStep ==
  \/ \E kind \in HeaderTypes : ReadHeader(kind)
  \/ HangUp
  \/ ReadBody \/ ReadFile \/ ReadEvent
  \/ BodyZeros \/ FileZeros \/ EventZeros
  \/ BodyError \/ ListError \/ Misread

Next ==
  \/ \E n \in 0..MaxFiles : Register(n)
  \/ \E t \in Reporters, n \in 1..MaxEvents : Report(t, n)
  \/ \E t \in Threads : SendPart(t)
  \/ Heartbeat
  \/ Stop
  \/ ReaderStep

Spec == Init /\ [][Next]_vars

\* Threads in the middle of a message go on, and so does the reader.  Nothing is
\* promised of new messages, and a peer may stop or stay.
FairSpec ==
  /\ Spec
  /\ WF_vars(ReaderStep)
  /\ \A t \in Threads : WF_vars(SendPart(t))

----------------------------------------------------------------------------
\* Properties.

\* A message that stopped short: the structs that were not sent read as zeros, or
\* the list is gone.  Items are read last to first.
CutShort(got, sent) ==
  /\ got.type = sent.type
  /\ \/ got.items = <<>>
     \/ /\ Len(got.items) = Len(sent.items)
        /\ \A i \in DOMAIN got.items :
             /\ got.items[i].file \in {sent.items[i].file, Blank}
             /\ got.items[i].action \in {sent.items[i].action, Blank}
             /\ got.items[i].action # Blank => got.items[i].file # Blank
             /\ got.items[i].file # Blank =>
                  \A j \in DOMAIN got.items : j > i => got.items[j] = sent.items[j]

\* comm_lock does for FILE_UPDATE what it is there for, and the counts do the
\* rest: until a heartbeat falls into a message, the tracker handles the messages
\* that were sent, in order and with their items.  Only the last may differ, when
\* the peer stopped before it had sent it all.
ReadAsSent ==
  ~crossed =>
    /\ rdPc # "garbled"
    /\ Len(handled) <= Len(begun)
    /\ \A i \in DOMAIN handled :
         \/ handled[i] = begun[i]
         \/ /\ i = Len(begun) /\ peer # "up"
            /\ \E t \in Threads : out[t] # <<>>
            /\ CutShort(handled[i], begun[i])

\* A message that has been sent to its end is handled, whatever becomes of its
\* peer: the reader is never left waiting for structs that nobody sends.
AllSent == \A t \in Threads : out[t] = <<>>

MessagesHandled ==
  \A i \in 1..(1 + MaxEvents + MaxBeats) :
    (Len(begun) >= i /\ AllSent) ~> (Len(handled) >= i \/ crossed)

\* When a peer has stopped, the thread of its connection comes to its clean-up
\* (or the tracker has gone astray), in whatever message the stream ends.
HangUpNoticed == peer # "up" ~> rdPc \in Ends
=============================================================================
