------------------------------ MODULE Broadcast ------------------------------
(***************************************************************************)
(* The streams from the tracker to its peers: TABLE_UPDATE, struct by      *)
(* struct (send_table_update and filetable_send in src/messaging/segment.c *)
(* and src/filetable/filetable.c, and their readers).                      *)
(*                                                                         *)
(* A thread of the tracker that has handled a FILE_UPDATE sends the table  *)
(* to every other peer while it holds file_table->lock.  Buffers are       *)
(* finite: it waits for a peer that does not read, and a peer reads on     *)
(* when its main thread has handled the table, for which it may have to    *)
(* send.  A connection ends when its peer is evicted or the tracker stops, *)
(* between any two structs.  A table is the sequence of its entries'       *)
(* numbers of holders.                                                     *)
(***************************************************************************)
EXTENDS Integers, Sequences, SequencesExt

CONSTANTS Peers,      \* registered peers, one tracker thread for each
          Order,      \* the same as a sequence: peer_table
          Tables,     \* the tables that come up
          Merged,     \* Merged[t]: what a FILE_UPDATE may make of the table t
          Nobody,     \* no thread
          DownCap,    \* bound: structs on their way to a peer
          UpCap,      \* bound: FILE_UPDATEs on their way to the tracker
          MaxReports, \* bound: FILE_UPDATEs of each peer
          Late        \* the peers that may be evicted

ASSUME PeersAssumption ==
  /\ Nobody \notin Peers
  /\ Order \in Seq(Peers) /\ Peers = {Order[i] : i \in DOMAIN Order}
ASSUME TablesAssumption == <<>> \in Tables /\ Tables \subseteq Seq(Nat) /\ Merged \in [Tables -> SUBSET Tables]
ASSUME BoundsAssumption ==
  /\ DownCap \in Nat \ {0} /\ UpCap \in Nat \ {0} /\ MaxReports \in [Peers -> Nat] /\ Late \subseteq Peers

VARIABLES
  lock,     \* who holds file_table->lock
  table,    \* file_table
  thr,      \* thr[p]: the tracker's thread of p: pc, whom it has still to send to, the
            \* table, and the struct it sends next to the first of them
  up,       \* up[p]: how many FILE_UPDATEs of p wait in its connection
  down,     \* down[p]: the structs that wait for p
  conn,     \* conn[p]: "up", "doomed" (being evicted), "closed", "reset"
  rd,       \* rd[p]: the struct recv_message of p waits for, "report" while the main
            \* thread sends, or how the process ended
  files,    \* files[p]: entries p has still to read
  ips,      \* ips[p]: holders it has still to read of the last entry
  got,      \* got[p]: the entries read, the last one first
  cut,      \* cut[p]: a recv returned 0 in this table
  reports,  \* reports[p]: FILE_UPDATEs of p so far
  sent,     \* history: sent[p]: the tables begun on the connection of p
  applied   \* history: applied[p]: those the main thread of p was given

tracker == <<lock, table, thr>>
reader == <<rd, files, ips, got, cut, applied>>
vars == <<tracker, up, down, conn, reader, reports, sent>>

Part(kind, n) == [kind |-> kind, n |-> n]
Kinds == {"header", "body", "table", "entry", "file", "ip"}

\* A place in a message: a struct of entry i, or holder j of it.
Place(kind, i, j) == [kind |-> kind, i |-> i, j |-> j]
Start == Place("header", 0, 0)
End == Place("end", 0, 0)
Places == [kind : Kinds \cup {"end"}, i : Nat, j : Nat]

\* The struct at a place of the message for table t.  The count of holders is in the
\* entry, that of entries in the table.
Struct(t, at) ==
  Part(at.kind, CASE at.kind = "table" -> Len(t)
                  [] at.kind = "entry" -> t[at.i]
                  [] OTHER -> 0)

\* send_table_update sends two structs, and then filetable_send the table: its loops
\* over the entries and over the holders of each.
After(t, at) ==
  CASE at.kind = "header" -> Place("body", 0, 0)
    [] at.kind = "body" -> Place("table", 0, 0)
    [] at.kind = "entry" -> Place("file", at.i, 0)
    [] at.kind \in {"file", "ip"} /\ at.j < t[at.i] -> Place("ip", at.i, at.j + 1)
    [] OTHER -> IF at.i < Len(t) THEN Place("entry", at.i + 1, 0) ELSE End

Ended == {"finished", "crashed"}

TypeOK ==
  /\ lock \in Peers \cup {Nobody}
  /\ table \in Tables
  /\ \A p \in Peers :
       /\ thr[p] \in [pc : {"idle", "wait", "send", "gone"}, to : Seq(Peers),
                      of : Tables, at : Places]
       /\ thr[p].pc = "send" => thr[p].to # <<>> /\ thr[p].at # End
       /\ thr[p].pc \in {"idle", "wait"} => thr[p].to = <<>>
       /\ up[p] \in 0..UpCap
       /\ down[p] \in Seq([kind : Kinds, n : Nat]) /\ Len(down[p]) <= DownCap
       /\ conn[p] \in {"up", "doomed", "closed", "reset"}
       /\ rd[p] \in Kinds \cup {"report"} \cup Ended
       /\ files[p] \in Nat /\ ips[p] \in Nat
       /\ got[p] \in Seq(Nat)
       /\ cut[p] \in BOOLEAN
       /\ sent[p] \in Seq(Tables)
       /\ reports[p] \in 0..MaxReports[p]

Rest == [pc |-> "idle", to |-> <<>>, of |-> <<>>, at |-> End]

Init ==
  /\ lock = Nobody
  /\ table = <<>>
  /\ thr = [p \in Peers |-> Rest]
  /\ up = [p \in Peers |-> 0] /\ down = [p \in Peers |-> <<>>]
  /\ conn = [p \in Peers |-> "up"]
  /\ rd = [p \in Peers |-> "header"]
  /\ files = [p \in Peers |-> 0] /\ ips = [p \in Peers |-> 0]
  /\ got = [p \in Peers |-> <<>>] /\ cut = [p \in Peers |-> FALSE]
  /\ reports = [p \in Peers |-> 0]
  /\ sent = [p \in Peers |-> <<>>] /\ applied = [p \in Peers |-> <<>>]

Open(p) == conn[p] \in {"up", "doomed"}
-----------------------------------------------------------------------------
(***************************************************************************)
(* The tracker's thread of p.                                              *)
(***************************************************************************)
ReadUpdate(p) ==
  /\ thr[p].pc = "idle" /\ up[p] > 0
  /\ up' = [up EXCEPT ![p] = @ - 1]
  /\ thr' = [thr EXCEPT ![p].pc = "wait"]
  /\ UNCHANGED <<lock, table, down, conn, reader, reports, sent>>

\* What thread p does next: the first struct of the table for the first peer left, or
\* nothing.
Sending(p, to, t) ==
  IF to = <<>> THEN Rest ELSE [pc |-> "send", to |-> to, of |-> t, at |-> Start]

\* broadcast_table passes over the peer whose update it was.
Others(p, to) == IF to # <<>> /\ Head(to) = p THEN Tail(to) ELSE to

Begin(to, t) ==
  sent' = [q \in Peers |-> IF to # <<>> /\ q = to[1] /\ Open(q) THEN Append(sent[q], t) ELSE sent[q]]

\* Mutant of Merge: the lock is given back before the broadcast.
MergeUnlocked(p) ==
  /\ thr[p].pc = "wait" /\ lock = Nobody
  /\ \E t \in Merged[table] :
       LET others == Others(p, Order) IN
         /\ table' = t
         /\ thr' = [thr EXCEPT ![p] = Sending(p, others, t)]
         /\ Begin(others, t)
  /\ UNCHANGED <<lock, up, down, conn, reader, reports>>

\* The critical section: filetable_eventMerge, then broadcast_table.
Merge(p) ==
  /\ thr[p].pc = "wait" /\ lock = Nobody
  /\ \E t \in Merged[table] :
       LET others == Others(p, Order) IN
         /\ table' = t
         /\ thr' = [thr EXCEPT ![p] = Sending(p, others, t)]
         /\ Begin(others, t)
         /\ lock' = IF others = <<>> THEN Nobody ELSE p
  /\ UNCHANGED <<up, down, conn, reader, reports>>

\* Mutant of GoOn: the lock is not given back.
GoOnLocked(p, to) ==
  /\ thr' = [thr EXCEPT ![p] = Sending(p, to, table)]
  /\ Begin(to, table)
  /\ UNCHANGED lock

\* The next peer, or the end of the broadcast and of the critical section.
GoOn(p, to) ==
  /\ thr' = [thr EXCEPT ![p] = Sending(p, to, table)]
  /\ Begin(to, table)
  /\ lock' = IF to = <<>> THEN Nobody ELSE lock

\* Mutant of SendStruct: it does not wait for room.
SendStructUnbounded(p) ==
  /\ thr[p].pc = "send"
  /\ LET q == Head(thr[p].to)
         next == After(thr[p].of, thr[p].at) IN
       IF Open(q)
       THEN /\ down' = [down EXCEPT ![q] = Append(@, Struct(thr[p].of, thr[p].at))]
            /\ IF next = End
               THEN GoOn(p, Others(p, Tail(thr[p].to)))
               ELSE thr' = [thr EXCEPT ![p].at = next] /\ UNCHANGED <<lock, sent>>
       ELSE GoOn(p, Others(p, Tail(thr[p].to))) /\ UNCHANGED down
  /\ UNCHANGED <<table, up, conn, reader, reports>>

\* One send.  It waits for room, and fails on a closed connection: the rest of the
\* table is not sent.
SendStruct(p) ==
  /\ thr[p].pc = "send"
  /\ LET q == Head(thr[p].to)
         next == After(thr[p].of, thr[p].at) IN
       IF Open(q)
       THEN /\ Len(down[q]) < DownCap
            /\ down' = [down EXCEPT ![q] = Append(@, Struct(thr[p].of, thr[p].at))]
            /\ IF next = End
               THEN GoOn(p, Others(p, Tail(thr[p].to)))
               ELSE /\ thr' = [thr EXCEPT ![p].at = next]
                    /\ UNCHANGED <<lock, sent>>
       ELSE GoOn(p, Others(p, Tail(thr[p].to))) /\ UNCHANGED down
  /\ UNCHANGED <<table, up, conn, reader, reports>>
-----------------------------------------------------------------------------
(***************************************************************************)
(* The ends of connections.                                                *)
(***************************************************************************)
\* monitor_thread finds p late; taking p off the file table needs the lock.
Expire(p) ==
  /\ p \in Late /\ conn[p] = "up" /\ lock = Nobody
  /\ conn' = [conn EXCEPT ![p] = "doomed"]
  /\ UNCHANGED <<tracker, up, down, reader, reports, sent>>

\* With FILE_UPDATEs unread the connection is reset.
EndOf(p) == IF up[p] > 0 THEN "reset" ELSE "closed"

\* peer_destroy cancels the thread in recv or send, with whatever lock it holds, and
\* closes the socket; a thread that waits for the lock has to get it first.
Evict(p) ==
  /\ conn[p] = "doomed" /\ thr[p].pc \in {"idle", "send"}
  /\ conn' = [conn EXCEPT ![p] = EndOf(p)]
  /\ thr' = [thr EXCEPT ![p].pc = "gone"]
  /\ UNCHANGED <<lock, table, up, down, reader, reports, sent>>

\* The tracker is interrupted, or crashes.
Stop ==
  /\ \E p \in Peers : Open(p)
  /\ conn' = [p \in Peers |-> IF Open(p) THEN EndOf(p) ELSE conn[p]]
  /\ thr' = [p \in Peers |-> [thr[p] EXCEPT !.pc = "gone"]]
  /\ UNCHANGED <<lock, table, up, down, reader, reports, sent>>
-----------------------------------------------------------------------------
(***************************************************************************)
(* The peer p: recv_message, receive_table_update and filetable_receive.   *)
(***************************************************************************)
\* The table is complete: update_from_filetable.  The main thread itself reports
\* directories it makes and empty files.
Apply(p, entries, wasCut) ==
  /\ applied' = [applied EXCEPT ![p] = Append(@, [entries |-> entries, cut |-> wasCut])]
  /\ got' = [got EXCEPT ![p] = <<>>]
  /\ cut' = [cut EXCEPT ![p] = FALSE]
  /\ \/ rd' = [rd EXCEPT ![p] = "header"] /\ UNCHANGED reports
     \/ /\ reports[p] < MaxReports[p]
        /\ reports' = [reports EXCEPT ![p] = @ + 1]
        /\ rd' = [rd EXCEPT ![p] = "report"]

Expect(p, kind) ==
  /\ rd' = [rd EXCEPT ![p] = kind]
  /\ UNCHANGED <<reports, applied>>

\* After the last holder of an entry comes the next entry, or the end.
EntryDone(p, entries, left, wasCut) ==
  IF left = 0
  THEN Apply(p, entries, wasCut)
  ELSE /\ Expect(p, "entry")
       /\ got' = [got EXCEPT ![p] = entries]
       /\ cut' = [cut EXCEPT ![p] = wasCut]

\* One recv has filled the struct rd[p] with count n: zero when it returned 0.
Received(p, n, wasCut) ==
  CASE rd[p] = "header" -> Expect(p, "body") /\ UNCHANGED <<files, ips, got, cut>>
    [] rd[p] = "body" ->
         /\ Expect(p, "table")
         /\ cut' = [cut EXCEPT ![p] = wasCut]
         /\ UNCHANGED <<files, ips, got>>
    [] rd[p] = "table" ->
         /\ files' = [files EXCEPT ![p] = n]
         /\ EntryDone(p, <<>>, n, wasCut)
         /\ UNCHANGED ips
    [] rd[p] = "entry" ->
         /\ Expect(p, "file")
         /\ ips' = [ips EXCEPT ![p] = n]
         /\ got' = [got EXCEPT ![p] = <<n>> \o @]
         /\ cut' = [cut EXCEPT ![p] = wasCut]
         /\ UNCHANGED files
    [] rd[p] = "file" /\ ips[p] > 0 ->
         /\ Expect(p, "ip")
         /\ cut' = [cut EXCEPT ![p] = wasCut]
         /\ UNCHANGED <<files, ips, got>>
    [] rd[p] = "file" /\ ips[p] = 0 ->
         /\ files' = [files EXCEPT ![p] = @ - 1]
         /\ EntryDone(p, got[p], files[p] - 1, wasCut)
         /\ UNCHANGED ips
    [] rd[p] = "ip" ->
         /\ ips' = [ips EXCEPT ![p] = @ - 1]
         /\ IF ips[p] > 1
            THEN Expect(p, "ip") /\ cut' = [cut EXCEPT ![p] = wasCut] /\ UNCHANGED <<files, got>>
            ELSE /\ files' = [files EXCEPT ![p] = @ - 1]
                 /\ EntryDone(p, got[p], files[p] - 1, wasCut)

Ends(p, how) ==
  /\ rd' = [rd EXCEPT ![p] = how]
  /\ UNCHANGED <<files, ips, got, cut, applied, reports>>

\* A struct arrives, whatever it is, where another may be expected.  A header of no
\* known type is skipped.
Receive(p) ==
  /\ rd[p] \in Kinds /\ down[p] # <<>>
  /\ down' = [down EXCEPT ![p] = Tail(@)]
  /\ IF rd[p] = "header" /\ Head(down[p]).kind # "header"
     THEN Ends(p, "header")
     ELSE Received(p, Head(down[p]).n, cut[p])
  /\ UNCHANGED <<tracker, up, conn, sent>>

\* recv returns 0: the loop of main ends, but inside a table the struct stays zeroed
\* and counts as received.
ReceiveNothing(p) ==
  /\ rd[p] \in Kinds /\ down[p] = <<>> /\ conn[p] = "closed"
  /\ IF rd[p] = "header" THEN Ends(p, "finished") ELSE Received(p, 0, TRUE)
  /\ UNCHANGED <<tracker, up, down, conn, sent>>

\* recv returns -1: the table is NULL, and main writes ft->lock.
ReceiveError(p) ==
  /\ rd[p] \in Kinds /\ down[p] = <<>> /\ conn[p] = "reset"
  /\ Ends(p, IF rd[p] = "header" THEN "finished" ELSE "crashed")
  /\ UNCHANGED <<tracker, up, down, conn, sent>>

\* download_complete_callback in the main thread: send waits for room, or fails.
MainReports(p) ==
  /\ rd[p] = "report"
  /\ \/ Open(p) /\ up[p] < UpCap /\ up' = [up EXCEPT ![p] = @ + 1]
     \/ ~Open(p) /\ UNCHANGED up
  /\ rd' = [rd EXCEPT ![p] = "header"]
  /\ UNCHANGED <<tracker, down, conn, files, ips, got, cut, applied, reports, sent>>

\* read_monitor_thread and the savers of downloads.
OtherReports(p) ==
  /\ reports[p] < MaxReports[p]
  /\ reports' = [reports EXCEPT ![p] = @ + 1]
  /\ rd[p] \notin Ended /\ Open(p) /\ up[p] < UpCap
  /\ up' = [up EXCEPT ![p] = @ + 1]
  /\ UNCHANGED <<tracker, down, conn, reader, sent>>

Thread(p) == ReadUpdate(p) \/ Merge(p) \/ SendStruct(p)
Main(p) == Receive(p) \/ ReceiveNothing(p) \/ ReceiveError(p) \/ MainReports(p)

Next ==
  \/ Stop
  \/ \E p \in Peers : Thread(p) \/ Main(p) \/ OtherReports(p) \/ Expire(p) \/ Evict(p)

Spec == Init /\ [][Next]_vars

\* Every thread runs, and the monitor ends what it began; nothing has to be reported,
\* no peer has to be late.
FairSpec ==
  /\ Spec
  /\ \A p \in Peers : WF_vars(Thread(p)) /\ WF_vars(Main(p)) /\ WF_vars(Evict(p))
-----------------------------------------------------------------------------
(***************************************************************************)
(* What the main thread of a peer is given are the tables that were sent,  *)
(* in order, each with its entries reversed (filetable.c:723).  Only the   *)
(* last can be another: when the connection was closed inside it, the rest *)
(* of its structs are zeros, so that it lists fewer files than there are   *)
(* (filetable.c:683), and the peer deletes what it misses.                 *)
(***************************************************************************)
TablesAsSent ==
  \A p \in Peers : \A i \in DOMAIN applied[p] :
    /\ i <= Len(sent[p])
    /\ IF applied[p][i].cut
       THEN i = Len(applied[p]) /\ conn[p] = "closed"
       ELSE applied[p][i].entries = Reverse(sent[p][i])

(***************************************************************************)
(* Thread h holds the lock and waits for room on the way to q; q reads     *)
(* nothing, for its main thread waits for room on the way to the tracker;  *)
(* and the thread that would make room there waits for the lock.           *)
(***************************************************************************)
Wedged(h, q) ==
  /\ lock = h /\ thr[h].pc = "send" /\ Head(thr[h].to) = q /\ Len(down[q]) = DownCap
  /\ rd[q] = "report" /\ up[q] = UpCap
  /\ thr[q].pc = "wait"

(***************************************************************************)
(* A broadcast comes to its end and releases the lock, whatever the peers  *)
(* do, except in that one circle (tracker.c:252, peer.c:252); a thread     *)
(* cancelled in its broadcast keeps the lock.                              *)
(***************************************************************************)
BroadcastEnds ==
  \A h \in Peers :
    lock = h ~> (lock # h \/ thr[h].pc = "gone" \/ \E q \in Peers : Wedged(h, q))
==============================================================================
