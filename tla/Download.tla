------------------------------ MODULE Download ------------------------------
(***************************************************************************)
(* One file on its way from the peers that hold it: the download thread,   *)
(* the peer threads and the file saver of src/upload_download/download.c,  *)
(* and the upload threads of src/upload_download/upload.c that serve them. *)
(*                                                                         *)
(* Slot i of seqInfos->peers is for stream i % NumStreams of peer           *)
(* i \div NumStreams; the socket connected for it is Socket(i).  A section *)
(* under seq_lock or queue_mutex only touches memory and is one step.      *)
(***************************************************************************)
EXTENDS Integers, Sequences, FiniteSets

CONSTANTS NumPeers,    \* peerInf->numpeers
          NumStreams,  \* stream_num
          NumSegs,     \* segments of the file; an empty file is not downloaded
          MaxFaults    \* bound: peers that go away, files that their users change

ASSUME SizesAssumption ==
  /\ NumPeers \in Nat \ {0} /\ NumStreams \in Nat \ {0} /\ NumSegs \in Nat \ {0}
  /\ MaxFaults \in Nat

N       == NumPeers * NumStreams
Slots   == 0..(N - 1)
Threads == Slots   \* thread i is created after slot i has been connected
Segs    == 0..(NumSegs - 1)
Peers   == 0..(NumPeers - 1)
PeerOf(i) == i \div NumStreams

None  == -1
Stdin == 0   \* what a slot holds before it is connected: seqInfos->peers is calloced
Foreign == N + 1   \* a connection of this process that is none of the download
Socket(i) == i + 1
Sockets   == { Socket(i) : i \in Slots }
SlotOf(s) == s - 1

VARIABLES
  dlPc,         \* where download() is
  made,         \* how many slots it has given a thread
  peers,        \* seqInfos->peers; peers[0] then counts the threads that are done
  pc,           \* pc[t]: where peer thread t is
  pos,          \* pos[t]: the slot it looks at
  sock,         \* sock[t]: its socket
  seg,          \* seg[t]: curSeg
  status,       \* status[s]: of segment s
  numReceived,  \* seqInfos->numReceived
  ending,       \* arr[0]->initSeg is -1
  seqFreed,     \* seqInfos and all it holds has been freed
  chunks,       \* the list of handlingInfo->head: [seg, data]
  nWritten,     \* n_written of the saver
  saved,        \* saved[s]: what the file on disk has in place of segment s
  saver,        \* where the saver is
  entryFreed,   \* the callback has destroyed the table entry
  link,         \* link[i]: what is under way on connection i
  fileMutex,    \* fileMutex[p]: an upload thread of p died with the lock
  alive,        \* alive[p]: p runs and can be reached
  content,      \* content[p]: the file as p has it
  ub            \* freed memory has been accessed

dlVars      == <<dlPc, made>>
threadVars  == <<pc, pos, sock, seg>>
segVars     == <<status, numReceived, ending, seqFreed>>
saverVars   == <<chunks, nWritten, saved, saver, entryFreed>>
uploadVars  == <<fileMutex, alive, content>>
vars == <<dlVars, peers, threadVars, segVars, saverVars, link, uploadVars, ub>>

ThreadPcs == {"none", "claim", "take", "while", "scan", "request", "recv", "mark", "reset", "end",
              "count", "done"}

\* What a chunk holds: mixed are bytes that belong to another segment or to no file.
Data == {"good", "other", "zeros", "mixed"}

\* A link is crossed when a thread sends a request on it while another waits there.
Links == {"none", "idle", "requested", "good", "other", "abandoned", "crossed", "closed"}

TypeOK ==
  /\ dlPc \in {"connect", "create", "next", "done"}
  /\ made \in 0..N
  /\ peers \in [Slots -> Int]
  /\ pc \in [Threads -> ThreadPcs]
  /\ pos \in [Threads -> 0..N]
  /\ sock \in [Threads -> Sockets \cup {None, Stdin, Foreign}]
  /\ seg \in [Threads -> 0..NumSegs]
  /\ status \in [Segs -> {"UNDOWNLOADED", "DOWNLOADING", "DOWNLOADED"}]
  /\ numReceived \in 0..NumSegs
  /\ ending \in BOOLEAN /\ seqFreed \in BOOLEAN
  /\ chunks \in Seq([seg : Segs, data : Data])
  /\ nWritten \in 0..NumSegs
  /\ saved \in [Segs -> Data \cup {"nothing"}]
  /\ saver \in {"writing", "done"} /\ entryFreed \in BOOLEAN
  /\ link \in [Slots -> Links]
  /\ fileMutex \in [Peers -> BOOLEAN]
  /\ alive \in [Peers -> BOOLEAN]
  /\ content \in [Peers -> {"good", "other", "gone"}]
  /\ ub \in BOOLEAN

Init ==
  /\ dlPc = "connect" /\ made = 0
  /\ peers = [i \in Slots |-> Stdin]
  /\ pc = [t \in Threads |-> "none"]
  /\ pos = [t \in Threads |-> 0]
  /\ sock = [t \in Threads |-> None]
  /\ seg = [t \in Threads |-> 0]
  /\ status = [s \in Segs |-> "UNDOWNLOADED"]
  /\ numReceived = 0
  /\ ending = FALSE /\ seqFreed = FALSE
  /\ chunks = <<>>
  /\ nWritten = 0
  /\ saved = [s \in Segs |-> "nothing"]
  /\ saver = "writing" /\ entryFreed = FALSE
  /\ link = [i \in Slots |-> "none"]
  /\ fileMutex = [p \in Peers |-> FALSE]
  /\ alive = [p \in Peers |-> TRUE]
  /\ content = [p \in Peers |-> "good"]
  /\ ub = FALSE

Defined == ~ub /\ UNCHANGED ub

----------------------------------------------------------------------------
\* download(): connect a slot, create a thread, and again.

\* peer_connect: connect() reaches the peer or fails.
Connect ==
  /\ Defined
  /\ dlPc = "connect" /\ ~entryFreed
  /\ dlPc' = "create"
  /\ LET up == alive[PeerOf(made)]
     IN /\ peers' = [peers EXCEPT ![made] = IF up THEN Socket(made) ELSE None]
        /\ link' = [link EXCEPT ![made] = IF up THEN "idle" ELSE "none"]
  /\ UNCHANGED <<made, threadVars, segVars, saverVars, uploadVars>>

\* pthread_create, whether the slot has been connected or not.
CreateThread ==
  /\ Defined
  /\ dlPc = "create"
  /\ pc' = [pc EXCEPT ![made] = "claim"]
  /\ made' = made + 1
  /\ dlPc' = IF made' % NumStreams = 0 THEN "next" ELSE "connect"
  /\ UNCHANGED <<peers, pos, sock, seg, segVars, saverVars, link, uploadVars>>

\* curPeer = curPeer->next, and the test against peerInf->numpeers.
NextPeer ==
  /\ Defined
  /\ dlPc = "next" /\ ~entryFreed
  /\ dlPc' = IF made = N THEN "done" ELSE "connect"
  /\ UNCHANGED <<made, peers, threadVars, segVars, saverVars, link, uploadVars>>

\* The entry has been destroyed: the saver was faster.
DownloadUndefined ==
  /\ dlPc \in {"connect", "next"} /\ entryFreed
  /\ ~ub /\ ub' = TRUE
  /\ UNCHANGED <<dlVars, peers, threadVars, segVars, saverVars, link, uploadVars>>

----------------------------------------------------------------------------
\* peer_thread.

Goes(t, from, to) == Defined /\ pc[t] = from /\ pc' = [pc EXCEPT ![t] = to]

\* seq_lock is free: no thread is between reading a slot and marking it as taken.
Unlocked == \A t \in Threads : pc[t] # "take"

\* The thread takes the first slot that is not negative, its own or another's,
\* connected or not: it reads the slot ...
ClaimSlot(t) ==
  /\ Goes(t, "claim", "take")
  /\ Unlocked
  /\ pos[t] < N
  /\ peers[pos[t]] >= 0
  /\ sock' = [sock EXCEPT ![t] = peers[pos[t]]]
  /\ UNCHANGED <<dlVars, peers, pos, seg, segVars, saverVars, link, uploadVars>>

\* Mutant of MarkSlot: the slot is not marked as taken.
MarkSlotNot(t) ==
  /\ Goes(t, "take", "while")
  /\ UNCHANGED <<dlVars, peers, pos, sock, seg, segVars, saverVars, link, uploadVars>>

\* ... and marks it; download(), which takes no lock, may have connected it between.
MarkSlot(t) ==
  /\ Goes(t, "take", "while")
  /\ peers' = [peers EXCEPT ![pos[t]] = None]
  /\ UNCHANGED <<dlVars, pos, sock, seg, segVars, saverVars, link, uploadVars>>

PassSlot(t) ==
  /\ Goes(t, "claim", "claim")
  /\ Unlocked
  /\ pos[t] < N
  /\ peers[pos[t]] < 0
  /\ pos' = [pos EXCEPT ![t] = @ + 1]
  /\ UNCHANGED <<dlVars, peers, sock, seg, segVars, saverVars, link, uploadVars>>

\* No slot is left for the thread.
Stray(t) == pos[t] = N

\* Its sock is never assigned and holds what the stack held.  That may be -1, no socket,
\* or what an earlier thread kept there: a descriptor that is closed, or has been given
\* to another connection, of this download or not.
ClaimNothing(t) ==
  /\ Goes(t, "claim", "while")
  /\ Stray(t)
  /\ \E garbage \in Sockets \cup {None, Stdin, Foreign} : sock' = [sock EXCEPT ![t] = garbage]
  /\ UNCHANGED <<dlVars, peers, pos, seg, segVars, saverVars, link, uploadVars>>

\* Mutant of While: the last segment is not waited for.
WhileOneShort(t) ==
  /\ Goes(t, "while", IF numReceived < NumSegs - 1 THEN "scan" ELSE "end")
  /\ seg' = [seg EXCEPT ![t] = 0]
  /\ UNCHANGED <<dlVars, peers, pos, sock, segVars, saverVars, link, uploadVars>>

\* The test of the while loop reads numReceived without the lock.
While(t) ==
  /\ Goes(t, "while", IF numReceived < NumSegs THEN "scan" ELSE "end")
  /\ seg' = [seg EXCEPT ![t] = 0]
  /\ UNCHANGED <<dlVars, peers, pos, sock, segVars, saverVars, link, uploadVars>>

\* A segment that is being downloaded, or has been, is passed over.
PassSegment(t) ==
  /\ Goes(t, "scan", "scan")
  /\ Unlocked
  /\ seg[t] < NumSegs
  /\ status[seg[t]] # "UNDOWNLOADED"
  /\ seg' = [seg EXCEPT ![t] = @ + 1]
  /\ UNCHANGED <<dlVars, peers, pos, sock, segVars, saverVars, link, uploadVars>>

ScanDone(t) ==
  /\ Goes(t, "scan", "while")
  /\ seg[t] = NumSegs
  /\ UNCHANGED <<dlVars, peers, pos, sock, seg, segVars, saverVars, link, uploadVars>>

TakeSegment(t) ==
  /\ Goes(t, "scan", "request")
  /\ Unlocked
  /\ seg[t] < NumSegs
  /\ status[seg[t]] = "UNDOWNLOADED"
  /\ status' = [status EXCEPT ![seg[t]] = "DOWNLOADING"]
  /\ UNCHANGED <<dlVars, peers, pos, sock, seg, numReceived, ending, seqFreed, saverVars,
                 link, uploadVars>>

\* seg_handler is not called at all when the socket is -1, and the segment goes
\* for downloaded ...
SkipRequest(t) ==
  /\ Goes(t, "request", "mark")
  /\ sock[t] = None
  /\ UNCHANGED <<dlVars, peers, pos, sock, seg, segVars, saverVars, link, uploadVars>>

\* The connection the thread's descriptor stands for, if it is one of the download.
On(t, i) == sock[t] = Socket(i) /\ link[i] \notin {"none", "closed"}

\* ... it fails on a descriptor that is not open, or is not a socket ...
FailRequest(t) ==
  /\ Goes(t, "request", "reset")
  /\ sock[t] \in Sockets \cup {Stdin}
  /\ \A i \in Slots : ~On(t, i)
  /\ UNCHANGED <<dlVars, peers, pos, sock, seg, segVars, saverVars, link, uploadVars>>

\* ... and otherwise sends the segment's SequenceInfo and FileInfo and waits.
Shared(t, i) == link[i] = "crossed" \/ \E u \in Threads \ {t} : pc[u] = "recv" /\ On(u, i)

Request(t) ==
  /\ Goes(t, "request", "recv")
  /\ \E i \in Slots :
       /\ On(t, i)
       /\ link' = [link EXCEPT ![i] = IF Shared(t, i) THEN "crossed" ELSE "requested"]
  /\ UNCHANGED <<dlVars, peers, pos, sock, seg, segVars, saverVars, uploadVars>>

RequestAstray(t) ==
  /\ Goes(t, "request", "recv")
  /\ sock[t] = Foreign
  /\ UNCHANGED <<dlVars, peers, pos, sock, seg, segVars, saverVars, link, uploadVars>>

\* The chunk goes to the head of the list.
Push(t, data) == chunks' = <<[seg |-> seg[t], data |-> data]>> \o chunks

Receive(t) ==
  /\ Goes(t, "recv", "mark")
  /\ \E i \in Slots :
       /\ On(t, i) /\ link[i] \in {"good", "other"}
       /\ Push(t, link[i])
       /\ link' = [link EXCEPT ![i] = "idle"]
  /\ UNCHANGED <<dlVars, peers, pos, sock, seg, segVars, nWritten, saved, saver,
                 entryFreed, uploadVars>>

\* The peer is gone.  recv returns fewer bytes than asked for, perhaps none, which
\* is not an error here: the rest of the buffer stays zero ...
Gone(t) == \E i \in Slots : sock[t] = Socket(i) /\ ~alive[PeerOf(i)]

ReceiveShort(t) ==
  /\ Goes(t, "recv", "mark")
  /\ Gone(t)
  /\ Push(t, "zeros")
  /\ UNCHANGED <<dlVars, peers, pos, sock, seg, segVars, nWritten, saved, saver,
                 entryFreed, link, uploadVars>>

\* Mutant of ReceiveError: what has been received is queued all the same.
ReceiveErrorQueued(t) ==
  /\ Goes(t, "recv", "reset")
  /\ Gone(t)
  /\ Push(t, "zeros")
  /\ UNCHANGED <<dlVars, peers, pos, sock, seg, segVars, nWritten, saved, saver,
                 entryFreed, link, uploadVars>>

\* ... or write or recv fails.
ReceiveError(t) ==
  /\ Goes(t, "recv", "reset")
  /\ Gone(t)
  /\ UNCHANGED <<dlVars, peers, pos, sock, seg, segVars, saverVars, link, uploadVars>>

\* On a connection that another thread waits on, or that is none of the download,
\* anything may come: the segment, bytes of others, the end of the stream, an error.
Astray(t) == sock[t] = Foreign \/ \E i \in Slots : On(t, i) /\ link[i] = "crossed"

ReceiveAstray(t) ==
  /\ Astray(t)
  /\ \/ /\ Goes(t, "recv", "mark")
        /\ \E data \in {"good", "mixed"} : Push(t, data)
     \/ Goes(t, "recv", "reset") /\ UNCHANGED chunks
  /\ UNCHANGED <<dlVars, peers, pos, sock, seg, segVars, nWritten, saved, saver,
                 entryFreed, link, uploadVars>>

MarkDownloaded(t) ==
  /\ Goes(t, "mark", "scan")
  /\ Unlocked
  /\ status' = [status EXCEPT ![seg[t]] = "DOWNLOADED"]
  /\ numReceived' = numReceived + 1
  /\ seg' = [seg EXCEPT ![t] = @ + 1]
  /\ UNCHANGED <<dlVars, peers, pos, sock, ending, seqFreed, saverVars, link, uploadVars>>

\* Without the lock; the thread keeps its socket and tries again.
ResetSegment(t) ==
  /\ Goes(t, "reset", "while")
  /\ status' = [status EXCEPT ![seg[t]] = "UNDOWNLOADED"]
  /\ UNCHANGED <<dlVars, peers, pos, sock, seg, numReceived, ending, seqFreed, saverVars,
                 link, uploadVars>>

\* arr[0] carries the termination message; then the socket is closed.
Terminate(t) ==
  /\ Goes(t, "end", "count")
  /\ ending' = TRUE
  /\ link' = [i \in Slots |-> IF On(t, i) THEN "closed" ELSE link[i]]
  /\ UNCHANGED <<dlVars, peers, pos, sock, seg, status, numReceived, seqFreed, saverVars,
                 uploadVars>>

\* Mutant of CountDone: peers[0] is taken to be 0 when the first thread is done.
CountDoneShort(t) ==
  /\ Goes(t, "count", "done")
  /\ Unlocked
  /\ peers' = [peers EXCEPT ![0] = @ - 1]
  /\ seqFreed' = (seqFreed \/ peers'[0] = -N)
  /\ UNCHANGED <<dlVars, pos, sock, seg, status, numReceived, ending, saverVars, link,
                 uploadVars>>

\* peers[0] is -1 when the first thread gets here; the last one frees seqInfos.
CountDone(t) ==
  /\ Goes(t, "count", "done")
  /\ Unlocked
  /\ peers' = [peers EXCEPT ![0] = @ - 1]
  /\ seqFreed' = (seqFreed \/ peers'[0] = -N - 1)
  /\ UNCHANGED <<dlVars, pos, sock, seg, status, numReceived, ending, saverVars, link,
                 uploadVars>>

----------------------------------------------------------------------------
\* file_saver.

\* A chunk is taken from the head and written in its place.
SaveChunk ==
  /\ Defined
  /\ saver = "writing" /\ nWritten < NumSegs
  /\ chunks # <<>>
  /\ nWritten' = nWritten + 1
  /\ saved' = [saved EXCEPT ![Head(chunks).seg] = Head(chunks).data]
  /\ chunks' = Tail(chunks)
  /\ UNCHANGED <<dlVars, peers, threadVars, segVars, saver, entryFreed, link, uploadVars>>

\* Mutant of Complete: the file is closed one segment early.
CompleteEarly ==
  /\ Defined
  /\ saver = "writing" /\ nWritten >= NumSegs - 1
  /\ saver' = "done"
  /\ entryFreed' = TRUE
  /\ UNCHANGED <<dlVars, peers, threadVars, segVars, chunks, nWritten, saved, link,
                 uploadVars>>

\* The file is closed and download_complete_callback called: the tracker is told
\* DOWNLOAD_COMPLETE, and the table entry is destroyed.
Complete ==
  /\ Defined
  /\ saver = "writing" /\ nWritten = NumSegs
  /\ saver' = "done"
  /\ entryFreed' = TRUE
  /\ UNCHANGED <<dlVars, peers, threadVars, segVars, chunks, nWritten, saved, link,
                 uploadVars>>

----------------------------------------------------------------------------
\* The upload thread of connection i: send_file.

\* Mutant of Serve: the lock is not given back.
ServeLocked(i) ==
  LET p == PeerOf(i) IN
  /\ Defined
  /\ link[i] = "requested"
  /\ alive[p] /\ ~fileMutex[p]
  /\ content[p] # "gone"
  /\ fileMutex' = [fileMutex EXCEPT ![p] = TRUE]
  /\ link' = [link EXCEPT ![i] = content[p]]
  /\ UNCHANGED <<dlVars, peers, threadVars, segVars, saverVars, alive, content>>

\* Lock, read the segment from the file, unlock, write it to the socket.
Serve(i) ==
  LET p == PeerOf(i) IN
  /\ Defined
  /\ link[i] = "requested"
  /\ alive[p] /\ ~fileMutex[p]
  /\ content[p] # "gone"
  /\ link' = [link EXCEPT ![i] = content[p]]
  /\ UNCHANGED <<dlVars, peers, threadVars, segVars, saverVars, uploadVars>>

\* The file is not there: the thread ends with the lock, and the socket stays open.
ServeMissing(i) ==
  LET p == PeerOf(i) IN
  /\ Defined
  /\ link[i] = "requested"
  /\ alive[p] /\ ~fileMutex[p]
  /\ content[p] = "gone"
  /\ fileMutex' = [fileMutex EXCEPT ![p] = TRUE]
  /\ link' = [link EXCEPT ![i] = "abandoned"]
  /\ UNCHANGED <<dlVars, peers, threadVars, segVars, saverVars, alive, content>>

\* Requests that two threads have written into each other are read as others: the
\* upload thread may look for a file that is not there.
Misread(i) ==
  LET p == PeerOf(i) IN
  /\ Defined
  /\ link[i] = "crossed"
  /\ alive[p] /\ ~fileMutex[p]
  /\ fileMutex' = [fileMutex EXCEPT ![p] = TRUE]
  /\ UNCHANGED <<dlVars, peers, threadVars, segVars, saverVars, link, alive, content>>

\* The environment: a peer goes away, or its user changes or deletes the file.
Faults == Cardinality({ p \in Peers : ~alive[p] })
            + Cardinality({ p \in Peers : content[p] # "good" })

PeerGone(p) ==
  /\ Defined
  /\ alive[p] /\ Faults < MaxFaults
  /\ alive' = [alive EXCEPT ![p] = FALSE]
  /\ UNCHANGED <<dlVars, peers, threadVars, segVars, saverVars, link, fileMutex, content>>

FileChanged(p) ==
  /\ Defined
  /\ content[p] = "good" /\ Faults < MaxFaults
  /\ \E c \in {"other", "gone"} : content' = [content EXCEPT ![p] = c]
  /\ UNCHANGED <<dlVars, peers, threadVars, segVars, saverVars, link, fileMutex, alive>>

----------------------------------------------------------------------------
DownloadStep == Connect \/ CreateThread \/ NextPeer \/ DownloadUndefined

PeerThread(t) ==
  \/ ClaimSlot(t) \/ MarkSlot(t) \/ PassSlot(t) \/ ClaimNothing(t)
  \/ While(t) \/ PassSegment(t) \/ ScanDone(t) \/ TakeSegment(t)
  \/ SkipRequest(t) \/ FailRequest(t) \/ Request(t) \/ RequestAstray(t)
  \/ Receive(t) \/ ReceiveShort(t) \/ ReceiveError(t)
  \/ MarkDownloaded(t) \/ ResetSegment(t)
  \/ Terminate(t) \/ CountDone(t)

Saver == SaveChunk \/ Complete

Upload(i) == Serve(i) \/ ServeMissing(i)

Next ==
  \/ DownloadStep
  \/ \E t \in Threads : PeerThread(t)
  \/ Saver
  \/ \E t \in Threads : ReceiveAstray(t)
  \/ \E i \in Slots : Upload(i) \/ Misread(i)
  \/ \E p \in Peers : PeerGone(p) \/ FileChanged(p)

Spec == Init /\ [][Next]_vars

\* Every thread of this peer and of the peers that run is scheduled.  Nothing is
\* promised of a connection that is made slowly but that it is made or fails, and
\* nothing of an answer on a connection that two threads use.
FairSpec ==
  /\ Spec
  /\ WF_vars(DownloadStep) /\ WF_vars(Saver)
  /\ \A t \in Threads : WF_vars(PeerThread(t))
  /\ \A i \in Slots : WF_vars(Upload(i))

----------------------------------------------------------------------------
\* Properties.

\* Threads scan the slots while download() is still filling them and connections fail:
\* two threads use one socket, and can get each other's answers, only if one of them
\* found no slot and goes by the socket it never assigned.
SocketsExclusive ==
  \A t, u \in Threads :
    sock[t] \in Sockets /\ sock[t] = sock[u] => t = u \/ Stray(t) \/ Stray(u)

\* However threads fail and retry, numReceived counts the segments downloaded and
\* no segment is queued or written twice: the saver, which only counts chunks,
\* would otherwise report a file with a hole as complete.
Copies(s) == Cardinality({ i \in DOMAIN chunks : chunks[i].seg = s })
               + (IF saved[s] = "nothing" THEN 0 ELSE 1)

SegmentsOnce ==
  /\ numReceived = Cardinality({ s \in Segs : status[s] = "DOWNLOADED" })
  /\ \A s \in Segs : Copies(s) <= 1 /\ (Copies(s) = 1 => status[s] # "UNDOWNLOADED")

\* A download that is reported complete has every segment, and a segment is wrong
\* only if a peer went away, has changed the file since, or a thread used a socket that
\* it had never assigned.
CompleteIsWhole ==
  saver = "done" =>
    \A s \in Segs :
      \/ saved[s] = "good"
      \/ saved[s] = "zeros" /\ \E p \in Peers : ~alive[p]
      \/ saved[s] = "other" /\ \E p \in Peers : content[p] = "other"
      \/ saved[s] = "mixed" /\ \E t \in Threads : Stray(t)

\* While a thread requests a segment or waits for it, what the request is made of is
\* there: nobody has freed the segments or the table entry, or has turned
\* segment 0 into the termination message.
RequestsIntact ==
  \A t \in Threads : pc[t] \in {"request", "recv"} => ~ending /\ ~seqFreed /\ ~entryFreed

\* peers[0], which has been a slot before, counts right: the segments are freed
\* when the last of all the threads is done, never earlier, and not leaked.
FreedByLast == seqFreed <=> \A t \in Threads : pc[t] = "done"

\* A download whose peers stay up with the file comes to its end, and all of its
\* threads do.
DownloadCompletes == <>(ub \/ Faults > 0 \/ (saver = "done" /\ seqFreed))
=============================================================================
