--------------------------- MODULE DownloadProofs ---------------------------
(***************************************************************************)
(* Theorems about Download, for any number of peers, streams and segments: *)
(* two peer threads share a socket only if one never assigned its own, no  *)
(* segment is fetched or written twice, nothing is freed while it is       *)
(* needed, and what is reported complete is whole.                         *)
(***************************************************************************)
EXTENDS Download, FiniteSetTheorems, TLAPS

\* The types of the variables that sockets travel through.
Typed ==
  /\ dlPc \in {"connect", "create", "next", "done"}
  /\ made \in Nat
  /\ peers \in [Slots -> Int]
  /\ pc \in [Threads -> ThreadPcs]
  /\ pos \in [Threads -> Nat]
  /\ sock \in [Threads -> Sockets \cup {None, Stdin, Foreign}]

\* download() has been over slot i.
Connected(i) == i < made \/ (i = made /\ dlPc = "create")

\* A slot holds its own socket or none; slot 0 goes on below -1 as a counter.
SlotsOwn ==
  \A i \in Slots : /\ peers[i] >= 0 => peers[i] \in {Stdin, Socket(i)}
                   /\ peers[i] = Socket(i) => Connected(i)

\* A socket that a thread has claimed has left its slot ...
TakenOnce ==
  \A t \in Threads : sock[t] \in Sockets =>
     \/ Stray(t) \/ pc[t] = "take"
     \/ Connected(SlotOf(sock[t])) /\ peers[SlotOf(sock[t])] # sock[t]

\* ... or is still there, while the one thread that has read the slot is about to mark it.
InTake ==
  \A t \in Threads : pc[t] = "take" =>
     /\ pos[t] \in Slots /\ sock[t] \in {Stdin, Socket(pos[t])}
     /\ sock[t] = Socket(pos[t]) => Connected(pos[t]) /\ peers[pos[t]] = sock[t]
     /\ pos[t] = 0 => peers[0] >= 0
     /\ \A u \in Threads : pc[u] = "take" => u = t

\* Nothing but a socket that was never assigned is none of the download.
ForeignIsStray == \A t \in Threads : sock[t] = Foreign => Stray(t)

\* No thread counts itself done in peers[0] while that is still a slot.
PastFirst ==
  \A t \in Threads : /\ t >= made => pc[t] = "none" /\ pos[t] = 0
                     /\ pos[t] > 0 \/ pc[t] \notin {"none", "claim", "take"} => peers[0] < 0

SocketInv ==
  Typed /\ SlotsOwn /\ TakenOnce /\ InTake /\ ForeignIsStray /\ PastFirst /\ SocketsExclusive

LEMMA CountOfSlots == N \in Nat
BY SizesAssumption DEF N

LEMMA SocketNumbers == Sockets = 1..N
<1>1. \A s \in 1..N : s - 1 \in Slots /\ Socket(s - 1) = s
  BY CountOfSlots DEF Slots, Socket
<1>2. \A i \in Slots : Socket(i) \in 1..N
  BY CountOfSlots DEF Slots, Socket
<1> QED BY <1>1, <1>2 DEF Sockets

LEMMA SocketInit == Init => SocketInv
<1> SUFFICES ASSUME Init PROVE SocketInv
    OBVIOUS
<1> USE CountOfSlots, SocketNumbers DEF Init, Slots, Threads, ThreadPcs, Socket, SlotOf, None,
        Stdin, Foreign
<1>1. Typed
  BY DEF Typed
<1>2. SlotsOwn
  BY DEF SlotsOwn, Connected
<1>3. TakenOnce /\ SocketsExclusive
  BY DEF TakenOnce, SocketsExclusive, Connected
<1>4. InTake /\ ForeignIsStray
  BY DEF InTake, ForeignIsStray
<1>5. PastFirst
  BY DEF PastFirst
<1> QED BY <1>1, <1>2, <1>3, <1>4, <1>5 DEF SocketInv

\* A step that leaves the sockets alone and moves only threads that have claimed one.
LEMMA SocketsKept ==
  ASSUME SocketInv,
         UNCHANGED <<dlPc, made, peers, pos, sock>>,
         NEW t \in Threads, NEW from \in ThreadPcs, NEW to \in ThreadPcs,
         from \notin {"none", "claim", "take"}, to \notin {"none", "take"},
         pc[t] = from, pc' = [pc EXCEPT ![t] = to]
  PROVE  SocketInv'
<1>1. \A u \in Threads : pc'[u] = IF u = t THEN to ELSE pc[u]
  BY DEF SocketInv, Typed
<1>2. Typed'
  BY DEF SocketInv, Typed
<1>3. SlotsOwn' /\ SocketsExclusive' /\ ForeignIsStray'
  BY DEF SocketInv, SlotsOwn, SocketsExclusive, ForeignIsStray, Connected, Stray
<1>4. TakenOnce' /\ InTake'
  BY <1>1 DEF SocketInv, TakenOnce, InTake, Connected, Stray
<1>5. PastFirst'
  BY <1>1 DEF SocketInv, PastFirst
<1> QED BY <1>2, <1>3, <1>4, <1>5 DEF SocketInv

LEMMA SocketStep == SocketInv /\ [Next]_vars => SocketInv'
<1> SUFFICES ASSUME SocketInv, [Next]_vars PROVE SocketInv'
    OBVIOUS
<1> USE CountOfSlots, SocketNumbers
<1> USE DEF Socket, SlotOf, None, Stdin, Stray
<1>1. CASE Connect
  <2>1. PICK v \in {Socket(made), None} : peers' = [peers EXCEPT ![made] = v]
    BY <1>1 DEF Connect
  <2>2. dlPc = "connect" /\ dlPc' = "create" /\ UNCHANGED <<made, pc, pos, sock>>
    BY <1>1 DEF Connect, threadVars
  <2>3. Typed'
    <3>1. v \in Int /\ Typed
      BY DEF SocketInv, Typed
    <3> QED BY <3>1, <2>1, <2>2 DEF Typed
  <2>4. SlotsOwn'
    BY <2>1, <2>2 DEF SocketInv, Typed, SlotsOwn, Connected, Slots, Threads
  <2>5. TakenOnce' /\ SocketsExclusive'
    BY <2>1, <2>2 DEF SocketInv, Typed, TakenOnce, SocketsExclusive, Connected, Slots, Threads
  <2>6. InTake'
    <3>1. \A t \in Threads : pc[t] = "take" => made # 0
      BY DEF SocketInv, Typed, PastFirst, Slots, Threads
    <3>2. \A j \in Slots : Connected(j) => Connected(j)' /\ peers'[j] = peers[j]
      BY <2>1, <2>2 DEF SocketInv, Typed, Connected
    <3>3. made # 0 => peers'[0] = peers[0]
      BY <2>1 DEF SocketInv, Typed
    <3> QED BY <2>2, <3>1, <3>2, <3>3 DEF SocketInv, InTake
  <2>7. PastFirst' /\ ForeignIsStray'
    BY <2>1, <2>2 DEF SocketInv, Typed, PastFirst, ForeignIsStray, Slots, Threads
  <2> QED BY <2>3, <2>4, <2>5, <2>6, <2>7 DEF SocketInv
<1>2. CASE CreateThread
  <2>1. /\ dlPc = "create" /\ dlPc' \in {"next", "connect"}
        /\ pc' = [pc EXCEPT ![made] = "claim"]
        /\ made' = made + 1
        /\ UNCHANGED <<peers, pos, sock>>
    BY <1>2 DEF CreateThread
  <2>2. Typed'
    <3>1. Typed /\ made + 1 \in Nat /\ "claim" \in ThreadPcs
      BY DEF SocketInv, Typed, ThreadPcs
    <3> QED BY <3>1, <2>1 DEF Typed
  <2>3. SlotsOwn'
    BY <2>1 DEF SocketInv, Typed, SlotsOwn, Connected, Slots, Threads
  <2>4. \A j \in Int : Connected(j) => Connected(j)'
    BY <2>1 DEF SocketInv, Typed, Connected
  <2>a. \A t \in Threads : pc'[t] = pc[t] \/ (t = made /\ pc'[t] = "claim")
    BY <2>1 DEF SocketInv, Typed
  <2>b. made \in Threads => pc[made] = "none"
    BY DEF SocketInv, Typed, PastFirst, Slots, Threads
  <2>5. TakenOnce' /\ SocketsExclusive'
    <3>1. \A t \in Threads : sock[t] \in Sockets => sock[t] - 1 \in Int
      OBVIOUS
    <3>2. \A t \in Threads : pc[t] = "take" => pc'[t] = "take"
      BY <2>a, <2>b
    <3> QED BY <2>1, <2>4, <3>1, <3>2 DEF SocketInv, TakenOnce, SocketsExclusive
  <2>6. InTake'
    <3>1. \A j \in Slots : j \in Int
      BY DEF Slots
    <3> QED BY <2>1, <2>4, <2>a, <3>1 DEF SocketInv, InTake
  <2>7. PastFirst' /\ ForeignIsStray'
    BY <2>1 DEF SocketInv, Typed, PastFirst, ForeignIsStray, Slots, Threads
  <2> QED BY <2>2, <2>3, <2>5, <2>6, <2>7 DEF SocketInv
<1>3. CASE NextPeer
  <2>1. /\ UNCHANGED <<made, peers, pc, pos, sock>>
        /\ dlPc = "next" /\ dlPc' \in {"done", "connect"}
    BY <1>3 DEF NextPeer, threadVars
  <2>2. \A j : Connected(j)' <=> Connected(j)
    BY <2>1 DEF Connected
  <2>3. Typed'
    BY <2>1 DEF SocketInv, Typed
  <2> QED
    BY <2>1, <2>2, <2>3 DEF SocketInv, SlotsOwn, TakenOnce, InTake, ForeignIsStray, PastFirst,
       SocketsExclusive
<1>4. CASE \/ DownloadUndefined
           \/ Saver
           \/ \E i \in Slots : Upload(i) \/ Misread(i)
           \/ \E p \in Peers : PeerGone(p) \/ FileChanged(p)
           \/ UNCHANGED vars
  <2>1. UNCHANGED <<dlVars, peers, threadVars>>
    BY <1>4 DEF DownloadUndefined, Saver, SaveChunk, Complete, Upload, Serve, ServeMissing, Misread,
       PeerGone, FileChanged, vars
  <2>2. UNCHANGED <<dlPc, made, peers, pc, pos, sock>>
    BY <2>1 DEF dlVars, threadVars
  <2> QED
    BY <2>2 DEF SocketInv, Typed, SlotsOwn, TakenOnce, InTake, ForeignIsStray, PastFirst,
       SocketsExclusive, Connected
<1>5. ASSUME NEW t \in Threads, PeerThread(t) \/ ReceiveAstray(t) PROVE SocketInv'
  <2>1. CASE ClaimSlot(t)
    <3> DEFINE i == pos[t]
    <3>1. /\ i \in Slots /\ peers[i] \in {Stdin, Socket(i)} /\ peers[i] >= 0
          /\ pc[t] = "claim" /\ pc' = [pc EXCEPT ![t] = "take"]
          /\ sock' = [sock EXCEPT ![t] = peers[i]]
          /\ \A u \in Threads : pc[u] # "take"
          /\ UNCHANGED <<dlPc, made, pos, peers>>
      BY <2>1 DEF ClaimSlot, Goes, dlVars, SocketInv, Typed, SlotsOwn, Slots, Threads, Unlocked
    <3> HIDE DEF i
    <3> DEFINE v == peers[i]
    <3>2. v = 0 \/ (v = i + 1 /\ Connected(i))
      BY <3>1 DEF SocketInv, SlotsOwn
    <3>3. /\ \A u \in Threads : sock'[u] = IF u = t THEN v ELSE sock[u]
          /\ \A u \in Threads : pc'[u] = IF u = t THEN "take" ELSE pc[u]
          /\ \A j : Connected(j)' <=> Connected(j)
      BY <1>5, <3>1 DEF SocketInv, Typed, Connected
    <3>4. \A u \in Threads : sock[u] = v /\ v \in Sockets => Stray(u)
      <4> SUFFICES ASSUME NEW u \in Threads, sock[u] = v, v \in Sockets PROVE Stray(u)
        OBVIOUS
      <4>1. v # 0 /\ i \in Int
        BY <3>1 DEF Slots
      <4>2. sock[u] - 1 = i /\ peers[i] = sock[u]
        BY <3>2, <4>1
      <4> QED BY <3>1, <4>2 DEF SocketInv, TakenOnce
    <3>5. Typed'
      <4>1. Typed /\ v \in Sockets \cup {None, Stdin, Foreign}
        BY <3>1, <3>2 DEF SocketInv, Slots
      <4> QED BY <3>1, <4>1 DEF Typed, ThreadPcs
    <3>6. v # Foreign
      BY <3>1, <3>2 DEF Slots, Foreign
    <3>7. i = pos[t] /\ v = peers[i]
      BY DEF i
    <3> HIDE DEF v
    <3>8. SlotsOwn' /\ ForeignIsStray'
      BY <3>1, <3>3, <3>6 DEF SocketInv, SlotsOwn, ForeignIsStray
    <3>9. TakenOnce' /\ SocketsExclusive'
      BY <3>1, <3>3, <3>4 DEF SocketInv, TakenOnce, SocketsExclusive
    <3>10. InTake'
      <4> SUFFICES ASSUME NEW u \in Threads, pc'[u] = "take"
                   PROVE  /\ i \in Slots /\ v \in {0, i + 1}
                          /\ v = i + 1 => Connected(i) /\ peers[i] = v
                          /\ i = 0 => peers[0] >= 0
                          /\ \A w \in Threads : pc'[w] = "take" => w = t
                          /\ u = t
        <5>1. t \in Threads /\ sock'[t] = v /\ pos' = pos /\ peers' = peers
          BY <1>5, <3>1, <3>3
        <5> QED BY <3>3, <3>7, <5>1 DEF InTake
      <4>1. v = i + 1 => v # 0
        BY <3>1 DEF Slots
      <4> QED BY <3>1, <3>2, <3>3, <3>7, <4>1
    <3>11. PastFirst'
      <4>1. \A u \in Threads : u >= made => u # t
        BY <3>1 DEF SocketInv, PastFirst
      <4> QED BY <3>1, <3>3, <4>1 DEF SocketInv, PastFirst
    <3> QED BY <3>5, <3>8, <3>9, <3>10, <3>11 DEF SocketInv
  <2>2. CASE MarkSlot(t)
    <3> DEFINE i == pos[t]
    <3>1. /\ pc[t] = "take" /\ pc' = [pc EXCEPT ![t] = "while"]
          /\ peers' = [peers EXCEPT ![i] = None]
          /\ UNCHANGED <<dlPc, made, pos, sock>>
      BY <2>2 DEF MarkSlot, Goes, dlVars
    <3>2. /\ i \in Slots /\ sock[t] \in {0, i + 1}
          /\ sock[t] = i + 1 => Connected(i)
          /\ \A u \in Threads : pc[u] = "take" => u = t
      BY <3>1 DEF SocketInv, InTake
    <3> HIDE DEF i
    <3>3. /\ \A j \in Slots : peers'[j] = IF j = i THEN -1 ELSE peers[j]
          /\ \A u \in Threads : pc'[u] = IF u = t THEN "while" ELSE pc[u]
          /\ \A j : Connected(j)' <=> Connected(j)
      BY <3>1, <3>2 DEF SocketInv, Typed, Connected
    <3>4. Typed'
      BY <3>1, <3>2 DEF SocketInv, Typed, ThreadPcs
    <3>5. SlotsOwn'
      BY <3>3 DEF SocketInv, SlotsOwn, Slots
    <3>6. TakenOnce'
      <4>1. ASSUME NEW u \in Threads, sock[u] \in Sockets, u # t
            PROVE  \/ Stray(u) \/ pc'[u] = "take"
                   \/ Connected(sock[u] - 1) /\ peers'[sock[u] - 1] # sock[u]
        <5>1. sock[u] - 1 \in Slots /\ sock[u] # -1
          BY <4>1 DEF Slots
        <5> QED BY <3>2, <3>3, <4>1, <5>1 DEF SocketInv, TakenOnce
      <4>2. sock[t] \in Sockets => Connected(sock[t] - 1) /\ peers'[sock[t] - 1] # sock[t]
        <5>1. sock[t] \in Sockets => sock[t] - 1 = i /\ sock[t] # -1
          BY <3>2 DEF Slots
        <5> QED BY <3>2, <3>3, <5>1
      <4> QED BY <3>1, <3>3, <4>1, <4>2 DEF TakenOnce
    <3>7. InTake' /\ SocketsExclusive' /\ ForeignIsStray'
      BY <3>1, <3>2, <3>3 DEF SocketInv, InTake, SocketsExclusive, ForeignIsStray
    <3>8. peers'[0] < 0
      <4>1. 0 \in Slots /\ (i # 0 => i > 0)
        BY <3>2 DEF Slots
      <4>2. i # 0 => peers[0] < 0
        BY <3>1, <4>1 DEF i, SocketInv, PastFirst
      <4> QED BY <3>3, <4>1, <4>2
    <3>9. PastFirst'
      <4>1. \A u \in Threads : u >= made => u # t
        BY <3>1 DEF SocketInv, PastFirst
      <4> QED BY <3>1, <3>3, <3>8, <4>1 DEF SocketInv, PastFirst
    <3> QED BY <3>4, <3>5, <3>6, <3>7, <3>9 DEF SocketInv
  <2>3. CASE PassSlot(t)
    <3>1. /\ pc[t] = "claim" /\ pc' = [pc EXCEPT ![t] = "claim"] /\ pos[t] < N
          /\ pos' = [pos EXCEPT ![t] = @ + 1]
          /\ UNCHANGED <<dlPc, made, peers, sock>>
      BY <2>3 DEF PassSlot, Goes, dlVars
    <3>2. Typed'
      BY <3>1 DEF SocketInv, Typed, ThreadPcs
    <3>3. /\ \A u \in Threads : u # t => pos'[u] = pos[u]
          /\ \A u \in Threads : pc'[u] = pc[u]
          /\ pos[t] # N
      BY <3>1 DEF SocketInv, Typed
    <3>4. SlotsOwn' /\ TakenOnce' /\ SocketsExclusive' /\ InTake' /\ ForeignIsStray'
      BY <3>1, <3>3 DEF SocketInv, SlotsOwn, TakenOnce, SocketsExclusive, InTake, ForeignIsStray,
         Connected
    <3>5. peers[0] < 0
      BY <2>3 DEF PassSlot, SocketInv, Typed, PastFirst
    <3>6. PastFirst'
      BY <3>1, <3>5 DEF SocketInv, Typed, PastFirst, Slots, Threads
    <3> QED BY <3>2, <3>4, <3>6 DEF SocketInv
  <2>4. CASE ClaimNothing(t)
    <3>1. /\ pc[t] = "claim" /\ pc' = [pc EXCEPT ![t] = "while"]
          /\ pos[t] = N
          /\ UNCHANGED <<dlPc, made, peers, pos>>
      BY <2>4 DEF ClaimNothing, Goes, dlVars
    <3>2. PICK v \in Sockets \cup {None, Stdin, Foreign} : sock' = [sock EXCEPT ![t] = v]
      BY <2>4 DEF ClaimNothing
    <3>3. Typed'
      BY <3>1, <3>2 DEF SocketInv, Typed, ThreadPcs
    <3>4. /\ \A u \in Threads : u # t => sock'[u] = sock[u]
          /\ \A u \in Threads : pc'[u] = IF u = t THEN "while" ELSE pc[u]
      BY <3>1, <3>2 DEF SocketInv, Typed
    <3>5. SlotsOwn' /\ TakenOnce' /\ SocketsExclusive' /\ InTake' /\ ForeignIsStray'
      BY <3>1, <3>4 DEF SocketInv, SlotsOwn, TakenOnce, SocketsExclusive, InTake, ForeignIsStray,
         Connected
    <3>6. peers[0] < 0
      BY <3>1 DEF SocketInv, PastFirst, Slots, Threads
    <3>7. PastFirst'
      BY <3>1, <3>6 DEF SocketInv, Typed, PastFirst
    <3> QED BY <3>3, <3>5, <3>7 DEF SocketInv
  <2>5. CASE CountDone(t)
    <3>1. /\ pc[t] = "count" /\ pc' = [pc EXCEPT ![t] = "done"]
          /\ peers' = [peers EXCEPT ![0] = @ - 1]
          /\ \A u \in Threads : pc[u] # "take"
          /\ UNCHANGED <<dlPc, made, pos, sock>>
      BY <2>5 DEF CountDone, Goes, dlVars, Unlocked
    <3>2. peers[0] < 0 /\ 0 \in Slots /\ peers[0] \in Int
      <4>1. 0 \in Slots
        BY DEF Slots, Threads
      <4>2. peers[0] < 0
        BY <3>1 DEF SocketInv, PastFirst
      <4> QED BY <4>1, <4>2 DEF SocketInv, Typed
    <3>3. Typed'
      BY <3>1, <3>2 DEF SocketInv, Typed, ThreadPcs
    <3>4. /\ peers'[0] < 0
          /\ \A i \in Slots : peers'[i] = peers[i] \/ peers'[i] < 0
          /\ \A u \in Threads : pc'[u] # "take"
      BY <3>1, <3>2 DEF SocketInv, Typed
    <3>5. SlotsOwn'
      BY <3>1, <3>4 DEF SocketInv, Typed, SlotsOwn, Connected, Slots
    <3>6. \A u \in Threads : sock[u] \in Sockets => sock[u] - 1 \in Slots /\ sock[u] > 0
      BY DEF Slots
    <3>7. TakenOnce' /\ SocketsExclusive' /\ InTake' /\ ForeignIsStray'
      BY <3>1, <3>4, <3>6 DEF SocketInv, TakenOnce, SocketsExclusive, InTake, ForeignIsStray,
         Connected
    <3>8. PastFirst'
      BY <3>1, <3>4 DEF SocketInv, Typed, PastFirst
    <3> QED BY <3>3, <3>5, <3>7, <3>8 DEF SocketInv
  <2>6. CASE \/ While(t) \/ PassSegment(t) \/ ScanDone(t) \/ TakeSegment(t)
             \/ SkipRequest(t) \/ FailRequest(t) \/ Request(t) \/ RequestAstray(t)
             \/ Receive(t) \/ ReceiveShort(t) \/ ReceiveError(t) \/ ReceiveAstray(t)
             \/ MarkDownloaded(t) \/ ResetSegment(t) \/ Terminate(t)
    <3>1. UNCHANGED <<dlPc, made, peers, pos, sock>>
      BY <2>6 DEF While, PassSegment, ScanDone, TakeSegment, SkipRequest, FailRequest, Request,
         RequestAstray, Receive, ReceiveShort, ReceiveError, ReceiveAstray, MarkDownloaded,
         ResetSegment, Terminate, dlVars
    <3>2. \E from \in ThreadPcs \ {"none", "claim", "take"}, to \in ThreadPcs \ {"none", "take"} :
            Goes(t, from, to)
      BY <2>6 DEF While, PassSegment, ScanDone, TakeSegment, SkipRequest, FailRequest, Request,
         RequestAstray, Receive, ReceiveShort, ReceiveError, ReceiveAstray, MarkDownloaded,
         ResetSegment, Terminate, ThreadPcs
    <3> QED BY <3>1, <3>2, SocketsKept DEF Goes
  <2> QED BY <1>5, <2>1, <2>2, <2>3, <2>4, <2>5, <2>6 DEF PeerThread
<1> QED BY <1>1, <1>2, <1>3, <1>4, <1>5 DEF Next, DownloadStep

\* A thread that found no slot stays one.
LEMMA StrayStays ==
  ASSUME Typed, [Next]_vars, NEW t \in Threads, Stray(t) PROVE Stray(t)'
<1>1. CASE UNCHANGED pos
  BY <1>1 DEF Stray
<1>2. ASSUME NEW u \in Threads, PassSlot(u) PROVE Stray(t)'
  <2>1. pos[u] < N /\ pos' = [pos EXCEPT ![u] = @ + 1]
    BY <1>2 DEF PassSlot
  <2>2. u # t
    BY <2>1, CountOfSlots DEF Stray
  <2> QED BY <2>1, <2>2 DEF Stray, Typed
<1>3. CASE DownloadStep
  BY <1>1, <1>3 DEF DownloadStep, Connect, CreateThread, NextPeer, DownloadUndefined, threadVars
<1>4. ASSUME NEW u \in Threads, PeerThread(u) \/ ReceiveAstray(u), ~PassSlot(u)
      PROVE  UNCHANGED pos
  BY <1>4 DEF PeerThread, ClaimSlot, MarkSlot, ClaimNothing, While, PassSegment, ScanDone,
     TakeSegment, SkipRequest, FailRequest, Request, RequestAstray, Receive, ReceiveShort,
     ReceiveError, ReceiveAstray, MarkDownloaded, ResetSegment, Terminate, CountDone
<1>5. CASE \/ Saver \/ \E i \in Slots : Upload(i) \/ Misread(i)
           \/ \E p \in Peers : PeerGone(p) \/ FileChanged(p)
           \/ UNCHANGED vars
  <2>1. UNCHANGED threadVars
    BY <1>5 DEF Saver, SaveChunk, Complete, Upload, Serve, ServeMissing, Misread, PeerGone,
       FileChanged, vars
  <2> QED BY <1>1, <2>1 DEF threadVars
<1> QED BY <1>1, <1>2, <1>3, <1>4, <1>5 DEF Next

\* Each socket has one user: although threads look for one in slots that
\* download() has not filled yet or is filling, and take each other's, two that
\* have found one never read answers from one connection.
THEOREM SocketsStayExclusive == Spec => []SocketsExclusive
<1>1. SocketInv => SocketsExclusive
  BY DEF SocketInv
<1> QED BY SocketInit, SocketStep, <1>1, PTL DEF Spec
-----------------------------------------------------------------------------
(***************************************************************************)
(* The segments.  A thread that is busy with a segment has it to itself;   *)
(* until its data has come, there is none of that segment anywhere.        *)
(***************************************************************************)
BusyPcs   == {"request", "recv", "mark", "reset"}
BeforePcs == {"request", "recv", "reset"}   \* no data yet
OverPcs   == {"end", "count", "done"}

Chunk == [seg : Segs, data : Data]
Queued(s) == \E i \in DOMAIN chunks : chunks[i].seg = s
Downloaded == { s \in Segs : status[s] = "DOWNLOADED" }
Written == { s \in Segs : saved[s] # "nothing" }

SegTyped ==
  /\ seg \in [Threads -> Nat]
  /\ status \in [Segs -> {"UNDOWNLOADED", "DOWNLOADING", "DOWNLOADED"}]
  /\ chunks \in Seq(Chunk)
  /\ saved \in [Segs -> Data \cup {"nothing"}]

Owned ==
  /\ \A t \in Threads : pc[t] \in BusyPcs => seg[t] \in Segs /\ status[seg[t]] = "DOWNLOADING"
  /\ \A t, u \in Threads : pc[t] \in BusyPcs /\ pc[u] \in BusyPcs /\ seg[t] = seg[u] => t = u

Unfetched ==
  \A t \in Threads : pc[t] \in BeforePcs => ~Queued(seg[t]) /\ saved[seg[t]] = "nothing"

QueuedOnce ==
  /\ \A i, j \in DOMAIN chunks : chunks[i].seg = chunks[j].seg => i = j
  /\ \A i \in DOMAIN chunks : saved[chunks[i].seg] = "nothing"
  /\ \A s \in Segs : Queued(s) \/ saved[s] # "nothing" => status[s] # "UNDOWNLOADED"

Counted ==
  /\ numReceived = Cardinality(Downloaded)
  /\ nWritten = Cardinality(Written)

\* What the threads and the saver conclude from the counts is so.
Concluded ==
  /\ ending \/ (\E t \in Threads : pc[t] \in OverPcs) => Downloaded = Segs
  /\ saver = "done" \/ entryFreed => Written = Segs

SegmentInv == SegTyped /\ Owned /\ Unfetched /\ QueuedOnce /\ Counted /\ Concluded

LEMMA SegsFinite == IsFiniteSet(Segs) /\ Cardinality(Segs) = NumSegs
<1>1. NumSegs - 1 \in Int /\ NumSegs > 0
  BY SizesAssumption
<1> QED
  BY <1>1, FS_Interval, SizesAssumption DEF Segs

LEMMA SetsOfSegs ==
  ASSUME NEW S \in SUBSET Segs
  PROVE  /\ IsFiniteSet(S) /\ Cardinality(S) \in Nat /\ Cardinality(S) <= NumSegs
         /\ Cardinality(S) >= NumSegs => S = Segs
         /\ \A s \in Segs \ S : Cardinality(S \cup {s}) = Cardinality(S) + 1
<1>1. /\ IsFiniteSet(S) /\ Cardinality(S) <= NumSegs
      /\ Cardinality(S) = NumSegs => S = Segs
  BY SegsFinite, FS_Subset
<1>2. Cardinality(S) \in Nat
  BY <1>1, FS_CardinalityType
<1>3. \A s \in Segs \ S : Cardinality(S \cup {s}) = Cardinality(S) + 1
  BY <1>1, FS_AddElement
<1> QED
  BY <1>1, <1>2, <1>3, SizesAssumption

LEMMA SegmentInit == Init => SegmentInv
<1> SUFFICES ASSUME Init PROVE SegmentInv
  OBVIOUS
<1>1. /\ \A t \in Threads : pc[t] = "none" /\ seg[t] = 0
      /\ \A s \in Segs : status[s] = "UNDOWNLOADED" /\ saved[s] = "nothing"
      /\ chunks = <<>> /\ numReceived = 0 /\ nWritten = 0
      /\ ending = FALSE /\ saver = "writing" /\ entryFreed = FALSE
  BY DEF Init
<1>2. SegTyped
  BY <1>1 DEF Init, SegTyped
<1>3. Owned /\ Unfetched /\ QueuedOnce
  BY <1>1 DEF Owned, Unfetched, QueuedOnce, Queued, BusyPcs, BeforePcs
<1>4. Counted
  <2>1. Downloaded = {} /\ Written = {}
    BY <1>1 DEF Downloaded, Written
  <2> QED
    BY <1>1, <2>1, FS_EmptySet DEF Counted
<1>5. Concluded
  BY <1>1 DEF Concluded, OverPcs
<1> QED
  BY <1>2, <1>3, <1>4, <1>5 DEF SegmentInv

\* A step that only moves a thread, and not into a state of which more is claimed.
LEMMA SegmentsKept ==
  ASSUME Typed, SegmentInv, NEW t \in Threads, NEW from \in ThreadPcs, NEW to \in ThreadPcs,
         pc[t] = from, pc' = [pc EXCEPT ![t] = to],
         to \in BusyPcs => from \in BusyPcs,
         to \in BeforePcs => from \in BeforePcs,
         to \in OverPcs => from \in OverPcs \/ Downloaded = Segs,
         seg' \in [Threads -> Nat],
         \A u \in Threads : u # t \/ to \in BusyPcs => seg'[u] = seg[u],
         ending' => ending \/ to \in OverPcs,
         UNCHANGED <<status, numReceived, saverVars>>
  PROVE  SegmentInv'
<1>1. \A u \in Threads : pc'[u] = IF u = t THEN to ELSE pc[u]
  BY DEF Typed
<1>2. UNCHANGED <<chunks, nWritten, saved, saver, entryFreed, status, numReceived>>
  BY DEF saverVars
<1>3. SegTyped'
  BY <1>2 DEF SegmentInv, SegTyped
<1>4. Owned'
  BY <1>1, <1>2 DEF SegmentInv, Owned
<1>5. Unfetched'
  BY <1>1, <1>2 DEF SegmentInv, Unfetched, Queued, BusyPcs, BeforePcs
<1>6. QueuedOnce' /\ Counted'
  BY <1>2 DEF SegmentInv, QueuedOnce, Queued, Counted, Downloaded, Written
<1>7. Concluded'
  BY <1>1, <1>2 DEF SegmentInv, Concluded, Downloaded, Written
<1> QED
  BY <1>3, <1>4, <1>5, <1>6, <1>7 DEF SegmentInv

\* The step does not touch the segments or the threads at all.
LEMMA SegmentsUnchanged ==
  ASSUME SegmentInv, UNCHANGED <<pc, seg, status, numReceived, ending, saverVars>>
  PROVE  SegmentInv'
BY DEF saverVars, SegmentInv, SegTyped, Owned, Unfetched, QueuedOnce, Queued, Counted, Concluded,
       Downloaded, Written

LEMMA TakeSegmentKeeps ==
  ASSUME Typed, SegmentInv, NEW t \in Threads, TakeSegment(t) PROVE SegmentInv'
<1>1. /\ seg[t] \in Segs /\ status[seg[t]] = "UNDOWNLOADED"
      /\ pc[t] = "scan" /\ \A u \in Threads : pc'[u] = IF u = t THEN "request" ELSE pc[u]
      /\ \A s \in Segs : status'[s] = IF s = seg[t] THEN "DOWNLOADING" ELSE status[s]
      /\ status' \in [Segs -> {"UNDOWNLOADED", "DOWNLOADING", "DOWNLOADED"}]
      /\ UNCHANGED <<seg, numReceived, ending, chunks, nWritten, saved, saver, entryFreed>>
  <2>1. seg[t] \in Segs
    BY SizesAssumption DEF TakeSegment, SegmentInv, SegTyped, Segs
  <2> QED
    BY <2>1 DEF TakeSegment, Goes, Typed, SegmentInv, SegTyped, saverVars
<1>2. SegTyped'
  BY <1>1 DEF SegmentInv, SegTyped
<1>3. Owned'
  BY <1>1 DEF SegmentInv, Owned, BusyPcs
<1>4. Unfetched'
  <2>1. ~Queued(seg[t]) /\ saved[seg[t]] = "nothing"
    BY <1>1 DEF SegmentInv, QueuedOnce
  <2> QED
    BY <1>1, <2>1 DEF SegmentInv, Unfetched, Queued, BeforePcs
<1>5. QueuedOnce'
  BY <1>1 DEF SegmentInv, QueuedOnce, Queued
<1>6. Downloaded' = Downloaded /\ Written' = Written
  BY <1>1 DEF Downloaded, Written
<1>7. Counted' /\ Concluded'
  BY <1>1, <1>6 DEF SegmentInv, Counted, Concluded, OverPcs
<1> QED
  BY <1>2, <1>3, <1>4, <1>5, <1>7 DEF SegmentInv

\* Data of a segment that was requested comes, of whatever quality.
LEMMA ReceiveKeeps ==
  ASSUME Typed, SegmentInv, NEW t \in Threads, NEW data \in Data, Push(t, data),
         Goes(t, "recv", "mark"),
         UNCHANGED <<seg, segVars, nWritten, saved, saver, entryFreed>>
  PROVE  SegmentInv'
<1> DEFINE c == [seg |-> seg[t], data |-> data]
<1>1. /\ pc[t] = "recv" /\ \A u \in Threads : pc'[u] = IF u = t THEN "mark" ELSE pc[u]
      /\ UNCHANGED <<seg, status, numReceived, ending, nWritten, saved, saver, entryFreed>>
  BY DEF Goes, Typed, segVars
<1>2. seg[t] \in Segs /\ status[seg[t]] = "DOWNLOADING" /\ ~Queued(seg[t]) /\ saved[seg[t]] = "nothing"
  BY <1>1 DEF SegmentInv, Owned, Unfetched, BusyPcs, BeforePcs
<1>3. c \in Chunk /\ chunks \in Seq(Chunk) /\ chunks' = <<c>> \o chunks
  BY <1>2 DEF Push, Chunk, SegmentInv, SegTyped
<1> HIDE DEF c
<1>4. /\ chunks' \in Seq(Chunk) /\ Len(chunks') = Len(chunks) + 1
      /\ chunks'[1] = c /\ \A i \in 1..Len(chunks) : chunks'[i + 1] = chunks[i]
      /\ Len(chunks) \in Nat
      /\ DOMAIN chunks = 1..Len(chunks) /\ DOMAIN chunks' = 1..(Len(chunks) + 1)
  BY <1>3
<1>5. \A i \in DOMAIN chunks' : i # 1 => i - 1 \in DOMAIN chunks /\ chunks'[i] = chunks[i - 1]
  <2> SUFFICES ASSUME NEW i \in DOMAIN chunks', i # 1
               PROVE  i - 1 \in DOMAIN chunks /\ chunks'[i] = chunks[i - 1]
    OBVIOUS
  <2>1. i - 1 \in 1..Len(chunks) /\ (i - 1) + 1 = i
    BY <1>4
  <2> QED
    BY <1>4, <2>1
<1>6. c.seg = seg[t]
  BY DEF c
<1>7. \A s : Queued(s)' => s = seg[t] \/ Queued(s)
  BY <1>4, <1>5, <1>6 DEF Queued
<1>8. SegTyped'
  BY <1>1, <1>4 DEF SegmentInv, SegTyped
<1>9. Owned'
  BY <1>1 DEF SegmentInv, Owned, BusyPcs
<1>10. Unfetched'
  <2>1. \A u \in Threads : pc[u] \in BeforePcs /\ u # t => seg[u] # seg[t]
    BY <1>1 DEF SegmentInv, Owned, BusyPcs, BeforePcs
  <2> QED
    BY <1>1, <1>7, <2>1 DEF SegmentInv, Unfetched, BeforePcs
<1>11. QueuedOnce'
  <2>1. \A i, j \in DOMAIN chunks' : chunks'[i].seg = chunks'[j].seg => i = j
    <3> SUFFICES ASSUME NEW i \in DOMAIN chunks', NEW j \in DOMAIN chunks',
                        chunks'[i].seg = chunks'[j].seg
                 PROVE  i = j
      OBVIOUS
    <3>1. CASE i = 1 \/ j = 1
      BY <1>2, <1>4, <1>5, <1>6, <3>1 DEF Queued
    <3>2. CASE i # 1 /\ j # 1
      <4>1. i - 1 = j - 1
        BY <1>5, <3>2 DEF SegmentInv, QueuedOnce
      <4> QED
        BY <1>4, <4>1
    <3> QED
      BY <3>1, <3>2
  <2>2. \A i \in DOMAIN chunks' : saved[chunks'[i].seg] = "nothing"
    BY <1>2, <1>4, <1>5, <1>6 DEF SegmentInv, QueuedOnce
  <2>3. \A s \in Segs : Queued(s)' \/ saved[s] # "nothing" => status[s] # "UNDOWNLOADED"
    BY <1>2, <1>7 DEF SegmentInv, QueuedOnce
  <2> QED
    BY <1>1, <2>1, <2>2, <2>3 DEF QueuedOnce
<1>12. Downloaded' = Downloaded /\ Written' = Written
  BY <1>1 DEF Downloaded, Written
<1>13. Counted' /\ Concluded'
  BY <1>1, <1>12 DEF SegmentInv, Counted, Concluded, OverPcs
<1> QED
  BY <1>8, <1>9, <1>10, <1>11, <1>13 DEF SegmentInv

LEMMA MarkDownloadedKeeps ==
  ASSUME Typed, SegmentInv, NEW t \in Threads, MarkDownloaded(t) PROVE SegmentInv'
<1>1. /\ pc[t] = "mark" /\ \A u \in Threads : pc'[u] = IF u = t THEN "scan" ELSE pc[u]
      /\ status' = [status EXCEPT ![seg[t]] = "DOWNLOADED"]
      /\ numReceived' = numReceived + 1
      /\ seg' = [seg EXCEPT ![t] = @ + 1]
      /\ UNCHANGED <<ending, chunks, nWritten, saved, saver, entryFreed>>
  BY DEF MarkDownloaded, Goes, Typed, saverVars
<1>2. seg[t] \in Segs /\ status[seg[t]] = "DOWNLOADING"
  BY <1>1 DEF SegmentInv, Owned, BusyPcs
<1>3. /\ \A s \in Segs : status'[s] = IF s = seg[t] THEN "DOWNLOADED" ELSE status[s]
      /\ \A u \in Threads : u # t => seg'[u] = seg[u]
  BY <1>1 DEF SegmentInv, SegTyped
<1>4. SegTyped'
  <2>1. seg' \in [Threads -> Nat]
    BY <1>1 DEF SegmentInv, SegTyped
  <2>2. status' \in [Segs -> {"UNDOWNLOADED", "DOWNLOADING", "DOWNLOADED"}]
    BY <1>1 DEF SegmentInv, SegTyped
  <2> QED
    BY <1>1, <2>1, <2>2 DEF SegmentInv, SegTyped
<1>5. Owned'
  <2>1. \A u \in Threads : pc[u] \in BusyPcs /\ u # t => seg[u] # seg[t]
    BY <1>1 DEF SegmentInv, Owned, BusyPcs
  <2> QED
    BY <1>1, <1>3, <2>1 DEF SegmentInv, Owned, BusyPcs
<1>6. Unfetched'
  BY <1>1, <1>3 DEF SegmentInv, Unfetched, Queued, BeforePcs
<1>7. QueuedOnce'
  BY <1>1, <1>3 DEF SegmentInv, QueuedOnce, Queued
<1>8. Downloaded' = Downloaded \cup {seg[t]} /\ Written' = Written
  BY <1>1, <1>2, <1>3 DEF Downloaded, Written
<1>9. Cardinality(Downloaded') = Cardinality(Downloaded) + 1
  <2>1. Downloaded \in SUBSET Segs /\ seg[t] \in Segs \ Downloaded
    BY <1>2 DEF Downloaded
  <2> QED
    BY <1>8, <2>1, SetsOfSegs
<1>10. Counted' /\ Concluded'
  <2>1. Downloaded = Segs => Downloaded' = Segs
    BY <1>2, <1>8
  <2> QED
    BY <1>1, <1>8, <1>9, <2>1 DEF SegmentInv, Counted, Concluded, OverPcs
<1> QED
  BY <1>4, <1>5, <1>6, <1>7, <1>10 DEF SegmentInv

LEMMA ResetSegmentKeeps ==
  ASSUME Typed, SegmentInv, NEW t \in Threads, ResetSegment(t) PROVE SegmentInv'
<1>1. /\ pc[t] = "reset" /\ \A u \in Threads : pc'[u] = IF u = t THEN "while" ELSE pc[u]
      /\ status' = [status EXCEPT ![seg[t]] = "UNDOWNLOADED"]
      /\ UNCHANGED <<seg, numReceived, ending, chunks, nWritten, saved, saver, entryFreed>>
  BY DEF ResetSegment, Goes, Typed, saverVars
<1>2. seg[t] \in Segs /\ status[seg[t]] = "DOWNLOADING" /\ ~Queued(seg[t]) /\ saved[seg[t]] = "nothing"
  BY <1>1 DEF SegmentInv, Owned, Unfetched, BusyPcs, BeforePcs
<1>3. \A s \in Segs : status'[s] = IF s = seg[t] THEN "UNDOWNLOADED" ELSE status[s]
  BY <1>1 DEF SegmentInv, SegTyped
<1>4. SegTyped'
  BY <1>1 DEF SegmentInv, SegTyped
<1>5. Owned'
  <2>1. \A u \in Threads : pc[u] \in BusyPcs /\ u # t => seg[u] # seg[t]
    BY <1>1 DEF SegmentInv, Owned, BusyPcs
  <2> QED
    BY <1>1, <1>3, <2>1 DEF SegmentInv, Owned, BusyPcs
<1>6. Unfetched'
  BY <1>1 DEF SegmentInv, Unfetched, Queued, BeforePcs
<1>7. QueuedOnce'
  BY <1>1, <1>2, <1>3 DEF SegmentInv, QueuedOnce, Queued
<1>8. Downloaded' = Downloaded /\ Written' = Written
  BY <1>1, <1>2, <1>3 DEF Downloaded, Written
<1>9. Counted' /\ Concluded'
  BY <1>1, <1>8 DEF SegmentInv, Counted, Concluded, OverPcs
<1> QED
  BY <1>4, <1>5, <1>6, <1>7, <1>9 DEF SegmentInv

LEMMA SaveChunkKeeps == SegmentInv /\ SaveChunk => SegmentInv'
<1> SUFFICES ASSUME SegmentInv, SaveChunk PROVE SegmentInv'
  OBVIOUS
<1> DEFINE c == Head(chunks)
<1>1. /\ chunks # <<>> /\ chunks' = Tail(chunks)
      /\ nWritten' = nWritten + 1
      /\ saved' = [saved EXCEPT ![c.seg] = c.data]
      /\ UNCHANGED <<pc, seg, status, numReceived, ending, saver, entryFreed>>
  BY DEF SaveChunk, threadVars, segVars
<1>2. chunks \in Seq(Chunk)
  BY DEF SegmentInv, SegTyped
<1>3. /\ 1 \in DOMAIN chunks /\ c = chunks[1] /\ chunks' \in Seq(Chunk)
      /\ \A i \in DOMAIN chunks' : i + 1 \in DOMAIN chunks /\ chunks'[i] = chunks[i + 1] /\ i + 1 # 1
      /\ DOMAIN chunks' \subseteq Nat
  BY <1>1, <1>2
<1> HIDE DEF c
<1>4. c.seg \in Segs /\ c.data \in Data /\ saved[c.seg] = "nothing" /\ Queued(c.seg)
  <2>1. c \in Chunk
    BY <1>2, <1>3
  <2>2. saved[c.seg] = "nothing" /\ Queued(c.seg)
    BY <1>3 DEF SegmentInv, QueuedOnce, Queued
  <2> QED
    BY <2>1, <2>2 DEF Chunk
<1>5. \A s \in Segs : saved'[s] = IF s = c.seg THEN c.data ELSE saved[s]
  BY <1>1 DEF SegmentInv, SegTyped
<1>6. \A s : Queued(s)' => Queued(s) /\ s # c.seg
  BY <1>3 DEF Queued, SegmentInv, QueuedOnce
<1>7. c.data # "nothing"
  BY <1>4 DEF Data
<1>8. SegTyped'
  BY <1>1, <1>3, <1>4 DEF SegmentInv, SegTyped
<1>9. Owned'
  BY <1>1 DEF SegmentInv, Owned
<1>10. Unfetched'
  <2>1. \A t \in Threads : pc[t] \in BeforePcs => seg[t] \in Segs /\ seg[t] # c.seg
    BY <1>4 DEF SegmentInv, Owned, Unfetched, BusyPcs, BeforePcs
  <2> QED
    BY <1>1, <1>5, <1>6, <2>1 DEF SegmentInv, Unfetched
<1>11. QueuedOnce'
  <2>1. \A i, j \in DOMAIN chunks' : chunks'[i].seg = chunks'[j].seg => i = j
    <3> SUFFICES ASSUME NEW i \in DOMAIN chunks', NEW j \in DOMAIN chunks',
                        chunks'[i].seg = chunks'[j].seg
                 PROVE  i = j
      OBVIOUS
    <3>1. i + 1 = j + 1
      BY <1>3 DEF SegmentInv, QueuedOnce
    <3> QED
      BY <1>3, <3>1
  <2>2. \A i \in DOMAIN chunks' : saved'[chunks'[i].seg] = "nothing"
    <3>1. \A i \in DOMAIN chunks' : /\ chunks'[i].seg \in Segs /\ chunks'[i].seg # c.seg
                                    /\ saved[chunks'[i].seg] = "nothing"
      <4> SUFFICES ASSUME NEW i \in DOMAIN chunks'
                   PROVE  /\ chunks'[i].seg \in Segs /\ chunks'[i].seg # c.seg
                          /\ saved[chunks'[i].seg] = "nothing"
        OBVIOUS
      <4>1. chunks'[i] \in Chunk
        BY <1>3
      <4>2. chunks'[i].seg # c.seg
        BY <1>3 DEF SegmentInv, QueuedOnce
      <4>3. saved[chunks'[i].seg] = "nothing"
        BY <1>3 DEF SegmentInv, QueuedOnce
      <4> QED
        BY <4>1, <4>2, <4>3 DEF Chunk
    <3> QED
      BY <1>5, <3>1
  <2>3. \A s \in Segs : Queued(s)' \/ saved'[s] # "nothing" => status[s] # "UNDOWNLOADED"
    BY <1>4, <1>5, <1>6 DEF SegmentInv, QueuedOnce
  <2> QED
    BY <1>1, <2>1, <2>2, <2>3 DEF QueuedOnce
<1>12. Downloaded' = Downloaded /\ Written' = Written \cup {c.seg} /\ c.seg \in Segs \ Written
  BY <1>1, <1>4, <1>5, <1>7 DEF Downloaded, Written
<1>13. Cardinality(Written') = Cardinality(Written) + 1
  <2>1. Written \in SUBSET Segs
    BY DEF Written
  <2> QED
    BY <1>12, <2>1, SetsOfSegs
<1>14. Counted' /\ Concluded'
  <2>1. Written = Segs => Written' = Segs
    BY <1>12
  <2> QED
    BY <1>1, <1>12, <1>13, <2>1 DEF SegmentInv, Counted, Concluded
<1> QED
  BY <1>8, <1>9, <1>10, <1>11, <1>14 DEF SegmentInv

LEMMA SegmentStep == SocketInv /\ SegmentInv /\ [Next]_vars => SegmentInv'
<1> SUFFICES ASSUME SocketInv, SegmentInv, [Next]_vars PROVE SegmentInv'
  OBVIOUS
<1>0. Typed /\ SegTyped
  BY DEF SocketInv, SegmentInv
<1>1. CASE CreateThread
  <2>1. /\ \A t \in Threads : pc'[t] = pc[t] \/ pc'[t] = "claim"
        /\ UNCHANGED <<seg, status, numReceived, ending, chunks, nWritten, saved, saver, entryFreed>>
    BY <1>0, <1>1 DEF CreateThread, Typed, segVars, saverVars
  <2>2. SegTyped'
    BY <1>0, <2>1 DEF SegTyped
  <2>3. Owned' /\ Unfetched' /\ QueuedOnce'
    BY <2>1 DEF SegmentInv, Owned, Unfetched, QueuedOnce, Queued, BusyPcs, BeforePcs
  <2>4. Downloaded' = Downloaded /\ Written' = Written
    BY <2>1 DEF Downloaded, Written
  <2>5. Counted' /\ Concluded'
    BY <2>1, <2>4 DEF SegmentInv, Counted, Concluded, OverPcs
  <2> QED
    BY <2>2, <2>3, <2>5 DEF SegmentInv
<1>2. CASE \/ Connect \/ NextPeer \/ DownloadUndefined
           \/ \E i \in Slots : Upload(i) \/ Misread(i)
           \/ \E p \in Peers : PeerGone(p) \/ FileChanged(p)
           \/ UNCHANGED vars
  <2>1. UNCHANGED <<pc, seg, status, numReceived, ending, saverVars>>
    BY <1>2 DEF Connect, NextPeer, DownloadUndefined, Upload, Serve, ServeMissing, Misread, PeerGone,
       FileChanged, vars, threadVars, segVars
  <2> QED
    BY <2>1, SegmentsUnchanged
<1>3. CASE SaveChunk
  BY <1>3, SaveChunkKeeps
<1>4. CASE Complete
  <2>1. /\ nWritten = NumSegs
        /\ UNCHANGED <<pc, seg, status, numReceived, ending, chunks, nWritten, saved>>
    BY <1>4 DEF Complete, threadVars, segVars
  <2>2. Written = Segs
    <3>1. Written \in SUBSET Segs
      BY DEF Written
    <3>2. Cardinality(Written) = NumSegs
      BY <2>1 DEF SegmentInv, Counted
    <3> QED
      BY <3>1, <3>2, SetsOfSegs, SizesAssumption
  <2>3. Downloaded' = Downloaded /\ Written' = Written
    BY <2>1 DEF Downloaded, Written
  <2> QED
    BY <2>1, <2>2, <2>3 DEF SegmentInv, SegTyped, Owned, Unfetched, QueuedOnce, Queued, Counted, Concluded
<1>5. ASSUME NEW t \in Threads, PeerThread(t) \/ ReceiveAstray(t) PROVE SegmentInv'
  <2> USE DEF Goes
  <2>1. CASE ClaimSlot(t) \/ MarkSlot(t) \/ PassSlot(t) \/ ClaimNothing(t)
    <3>1. /\ pc[t] \in {"claim", "take"}
          /\ \E to \in {"take", "while", "claim"} : pc' = [pc EXCEPT ![t] = to]
          /\ UNCHANGED <<seg, ending, status, numReceived, saverVars>>
      BY <2>1 DEF ClaimSlot, MarkSlot, PassSlot, ClaimNothing, segVars
    <3> QED
      BY <1>0, <3>1, SegmentsKept DEF SegTyped, ThreadPcs, BusyPcs, BeforePcs, OverPcs
  <2>2. CASE While(t)
    <3>1. /\ pc[t] = "while" /\ seg' = [seg EXCEPT ![t] = 0]
          /\ UNCHANGED <<ending, status, numReceived, saverVars>>
          /\ \/ pc' = [pc EXCEPT ![t] = "scan"]
             \/ pc' = [pc EXCEPT ![t] = "end"] /\ ~(numReceived < NumSegs)
      BY <2>2 DEF While, segVars
    <3>2. ~(numReceived < NumSegs) => Downloaded = Segs
      <4>1. Downloaded \in SUBSET Segs
        BY DEF Downloaded
      <4>2. Cardinality(Downloaded) = numReceived
        BY DEF SegmentInv, Counted
      <4> QED
        BY <4>1, <4>2, SetsOfSegs, SizesAssumption
    <3>3. seg' \in [Threads -> Nat] /\ \A u \in Threads : u # t => seg'[u] = seg[u]
      BY <1>0, <3>1 DEF SegTyped
    <3> QED
      BY <1>0, <3>1, <3>2, <3>3, SegmentsKept DEF ThreadPcs, BusyPcs, BeforePcs, OverPcs
  <2>3. CASE PassSegment(t) \/ ScanDone(t)
    <3>1. /\ pc[t] = "scan" /\ (pc' = [pc EXCEPT ![t] = "scan"] \/ pc' = [pc EXCEPT ![t] = "while"])
          /\ seg' = seg \/ seg' = [seg EXCEPT ![t] = @ + 1]
          /\ UNCHANGED <<ending, status, numReceived, saverVars>>
      BY <2>3 DEF PassSegment, ScanDone, segVars
    <3>2. seg' \in [Threads -> Nat] /\ \A u \in Threads : u # t => seg'[u] = seg[u]
      BY <1>0, <3>1 DEF SegTyped
    <3> QED
      BY <1>0, <3>1, <3>2, SegmentsKept DEF ThreadPcs, BusyPcs, BeforePcs, OverPcs
  <2>4. CASE TakeSegment(t)
    BY <1>0, <2>4, TakeSegmentKeeps
  <2>5. CASE SkipRequest(t) \/ FailRequest(t) \/ Request(t) \/ RequestAstray(t)
    <3>1. /\ pc[t] = "request"
          /\ \/ pc' = [pc EXCEPT ![t] = "mark"] \/ pc' = [pc EXCEPT ![t] = "reset"]
             \/ pc' = [pc EXCEPT ![t] = "recv"]
          /\ UNCHANGED <<seg, ending, status, numReceived, saverVars>>
      BY <2>5 DEF SkipRequest, FailRequest, Request, RequestAstray, segVars
    <3> QED
      BY <1>0, <3>1, SegmentsKept DEF SegTyped, ThreadPcs, BusyPcs, BeforePcs, OverPcs
  <2>6. CASE Receive(t)
    <3>1. PICK data \in Data : Push(t, data)
      BY <2>6 DEF Receive, Data
    <3> QED
      BY <1>0, <2>6, <3>1, ReceiveKeeps DEF Receive
  <2>7. CASE ReceiveShort(t)
    BY <1>0, <2>7, ReceiveKeeps DEF ReceiveShort, Data
  <2>8. CASE ReceiveError(t) \/ ReceiveAstray(t)
    <3>1. CASE \E data \in Data : Push(t, data) /\ ReceiveAstray(t) /\ Goes(t, "recv", "mark")
      BY <1>0, <3>1, ReceiveKeeps DEF ReceiveAstray
    <3>2. CASE /\ pc[t] = "recv" /\ pc' = [pc EXCEPT ![t] = "reset"]
               /\ UNCHANGED <<seg, ending, status, numReceived, saverVars>>
      BY <1>0, <3>2, SegmentsKept DEF SegTyped, ThreadPcs, BusyPcs, BeforePcs, OverPcs
    <3> QED
      BY <2>8, <3>1, <3>2 DEF ReceiveError, ReceiveAstray, Data, segVars, saverVars
  <2>9. CASE MarkDownloaded(t)
    BY <1>0, <2>9, MarkDownloadedKeeps
  <2>10. CASE ResetSegment(t)
    BY <1>0, <2>10, ResetSegmentKeeps
  <2>11. CASE Terminate(t) \/ CountDone(t)
    <3>1. /\ pc[t] \in {"end", "count"}
          /\ pc' = [pc EXCEPT ![t] = "count"] \/ pc' = [pc EXCEPT ![t] = "done"]
          /\ UNCHANGED <<seg, status, numReceived, saverVars>>
      BY <2>11 DEF Terminate, CountDone
    <3> QED
      BY <1>0, <3>1, SegmentsKept DEF SegTyped, ThreadPcs, BusyPcs, BeforePcs, OverPcs
  <2> QED
    BY <1>5, <2>1, <2>2, <2>3, <2>4, <2>5, <2>6, <2>7, <2>8, <2>9, <2>10, <2>11 DEF PeerThread
<1> QED
  BY <1>1, <1>2, <1>3, <1>4, <1>5 DEF Next, DownloadStep, Saver

LEMMA SegmentsAlways == Spec => [](SocketInv /\ SegmentInv)
BY SocketInit, SocketStep, SegmentInit, SegmentStep, PTL DEF Spec

(***************************************************************************)
(* However threads fail, retry and skip, numReceived counts the segments   *)
(* marked as downloaded, and no segment is queued for the saver or written *)
(* twice: file_saver, which counts chunks, can trust its count.            *)
(***************************************************************************)
THEOREM SegmentsFetchedOnce == Spec => []SegmentsOnce
<1>1. SegmentInv => SegmentsOnce
  <2> SUFFICES ASSUME SegmentInv, NEW s \in Segs
               PROVE  Copies(s) <= 1 /\ (Copies(s) = 1 => status[s] # "UNDOWNLOADED")
    BY DEF SegmentInv, Counted, Downloaded, SegmentsOnce
  <2> DEFINE I == { i \in DOMAIN chunks : chunks[i].seg = s }
  <2>1. CASE I = {}
    <3>1. Cardinality(I) = 0
      BY <2>1, FS_EmptySet
    <3>2. Copies(s) = IF saved[s] = "nothing" THEN 0 ELSE 1
      BY <3>1 DEF Copies
    <3> QED
      BY <3>2 DEF SegmentInv, QueuedOnce
  <2>2. ASSUME NEW i \in I PROVE Copies(s) = 1 /\ status[s] # "UNDOWNLOADED"
    <3>1. I = {i}
      BY <2>2 DEF SegmentInv, QueuedOnce
    <3>2. Cardinality(I) = 1
      BY <3>1, FS_Singleton
    <3>3. saved[s] = "nothing" /\ Queued(s)
      BY <2>2 DEF SegmentInv, QueuedOnce, Queued
    <3> QED
      BY <3>2, <3>3 DEF Copies, SegmentInv, QueuedOnce
  <2> QED
    BY <2>1, <2>2
<1> QED
  BY <1>1, SegmentsAlways, PTL
-----------------------------------------------------------------------------
(***************************************************************************)
(* The count of finished threads in peers[0], which has been a slot.       *)
(***************************************************************************)
Done == { t \in Threads : pc[t] = "done" }

FreedInv ==
  /\ peers[0] < 0 => peers[0] = -1 - Cardinality(Done)
  /\ peers[0] >= 0 => Done = {}
  /\ seqFreed <=> Done = Threads

LEMMA SomeSlot == N \in Nat \ {0} /\ 0 \in Slots
BY SizesAssumption DEF N, Slots

LEMMA SetsOfThreads ==
  ASSUME NEW S \in SUBSET Threads
  PROVE  /\ IsFiniteSet(S) /\ Cardinality(S) \in Nat
         /\ Cardinality(S) = N <=> S = Threads
         /\ \A t \in Threads \ S : Cardinality(S \cup {t}) = Cardinality(S) + 1
<1>1. IsFiniteSet(Threads) /\ Cardinality(Threads) = N
  <2>1. N - 1 \in Int /\ ~(0 > N - 1) /\ N - 1 - 0 + 1 = N
    BY SomeSlot
  <2> QED
    BY <2>1, FS_Interval DEF Threads, Slots
<1>2. IsFiniteSet(S) /\ (Cardinality(S) = N => S = Threads)
  BY <1>1, FS_Subset
<1> QED
  BY <1>1, <1>2, FS_CardinalityType, FS_AddElement

LEMMA FreedInit == Init => FreedInv
<1> SUFFICES ASSUME Init PROVE FreedInv
  OBVIOUS
<1>1. Done = {} /\ peers[0] = 0 /\ Threads # {} /\ seqFreed = FALSE
  BY SomeSlot DEF Init, Done, Stdin, Threads
<1> QED
  BY <1>1 DEF FreedInv

LEMMA FreedStep == SocketInv /\ FreedInv /\ [Next]_vars => FreedInv'
<1> SUFFICES ASSUME SocketInv, FreedInv, [Next]_vars PROVE FreedInv'
  OBVIOUS
<1>0. Typed /\ peers[0] \in Int /\ 0 \in Slots
  BY SomeSlot DEF SocketInv, Typed
<1>1. CASE Connect
  <2>1. /\ \E v \in {Socket(made), None} : peers' = [peers EXCEPT ![made] = v]
        /\ UNCHANGED <<pc, seqFreed>>
    BY <1>1 DEF Connect, threadVars, segVars
  <2>2. Done' = Done
    BY <2>1 DEF Done
  <2>3. CASE made = 0
    <3>1. Done = {} /\ peers'[0] \in {1, -1}
      BY <1>0, <2>1, <2>3 DEF SocketInv, PastFirst, Done, Socket, None, Threads, Slots, Typed
    <3> QED
      BY <2>1, <2>2, <3>1, FS_EmptySet DEF FreedInv
  <2>4. CASE made # 0
    BY <1>0, <2>1, <2>2, <2>4 DEF FreedInv, Typed
  <2> QED
    BY <2>3, <2>4
<1>2. CASE CreateThread
  <2>1. UNCHANGED <<peers, seqFreed>> /\ pc' = [pc EXCEPT ![made] = "claim"] /\ dlPc = "create"
    BY <1>2 DEF CreateThread, segVars
  <2>2. made \in Threads => pc[made] = "none"
    BY DEF SocketInv, PastFirst, Threads, Slots
  <2>3. Done' = Done
    BY <1>0, <2>1, <2>2 DEF Done, Typed
  <2> QED
    BY <2>1, <2>3 DEF FreedInv
<1>3. CASE \/ NextPeer \/ DownloadUndefined \/ Saver
           \/ \E i \in Slots : Upload(i) \/ Misread(i)
           \/ \E p \in Peers : PeerGone(p) \/ FileChanged(p)
           \/ UNCHANGED vars
  <2>1. UNCHANGED <<peers, pc, seqFreed>>
    BY <1>3 DEF NextPeer, DownloadUndefined, Saver, SaveChunk, Complete, Upload, Serve, ServeMissing,
       Misread, PeerGone, FileChanged, vars, threadVars, segVars
  <2> QED
    BY <2>1 DEF FreedInv, Done
<1>4. ASSUME NEW t \in Threads, PeerThread(t) \/ ReceiveAstray(t) PROVE FreedInv'
  <2>1. CASE CountDone(t)
    <3>1. /\ pc[t] = "count" /\ pc' = [pc EXCEPT ![t] = "done"]
          /\ peers' = [peers EXCEPT ![0] = @ - 1]
          /\ seqFreed' = (seqFreed \/ peers'[0] = -N - 1)
      BY <2>1 DEF CountDone, Goes
    <3>2. Done' = Done \cup {t} /\ t \notin Done /\ Done \in SUBSET Threads
      BY <1>0, <3>1 DEF Done, Typed
    <3>3. Cardinality(Done') = Cardinality(Done) + 1 /\ Cardinality(Done) \in Nat
      BY <3>2, SetsOfThreads
    <3>4. peers[0] < 0 /\ peers'[0] = peers[0] - 1
      BY <1>0, <3>1 DEF SocketInv, PastFirst, Typed
    <3>5. peers'[0] = -1 - Cardinality(Done')
      BY <1>0, <3>3, <3>4 DEF FreedInv
    <3>6. Cardinality(Done') = N <=> Done' = Threads
      BY <3>2, SetsOfThreads
    <3>7. seqFreed' <=> Done' = Threads
      <4>1. Done # Threads
        BY <3>2
      <4>2. peers'[0] = -N - 1 <=> Cardinality(Done') = N
        BY <3>3, <3>5, SomeSlot
      <4> QED
        BY <3>1, <3>6, <4>1, <4>2 DEF FreedInv
    <3> QED
      BY <1>0, <3>4, <3>5, <3>7 DEF FreedInv
  <2>2. CASE MarkSlot(t)
    <3>1. /\ pc[t] = "take" /\ pc' = [pc EXCEPT ![t] = "while"]
          /\ peers' = [peers EXCEPT ![pos[t]] = -1]
          /\ UNCHANGED seqFreed
      BY <2>2 DEF MarkSlot, Goes, segVars, None
    <3>2. Done' = Done
      BY <1>0, <3>1 DEF Done, Typed
    <3>3. CASE pos[t] = 0
      <4>1. peers[0] >= 0
        BY <3>1, <3>3 DEF SocketInv, InTake
      <4> QED
        BY <1>0, <3>1, <3>2, <3>3, <4>1, FS_EmptySet DEF FreedInv, Typed
    <3>4. CASE pos[t] # 0
      BY <1>0, <3>1, <3>2, <3>4 DEF FreedInv, Typed
    <3> QED
      BY <3>3, <3>4
  <2>3. CASE ~CountDone(t) /\ ~MarkSlot(t)
    <3>1. UNCHANGED <<peers, seqFreed>>
      BY <1>4, <2>3 DEF PeerThread, ClaimSlot, PassSlot, ClaimNothing, While, PassSegment, ScanDone,
         TakeSegment, SkipRequest, FailRequest, Request, RequestAstray, Receive, ReceiveShort,
         ReceiveError, ReceiveAstray, MarkDownloaded, ResetSegment, Terminate, segVars
    <3>2. \E from \in ThreadPcs \ {"done"}, to \in ThreadPcs \ {"done"} : Goes(t, from, to)
      BY <1>4, <2>3 DEF PeerThread, ClaimSlot, PassSlot, ClaimNothing, While, PassSegment, ScanDone,
         TakeSegment, SkipRequest, FailRequest, Request, RequestAstray, Receive, ReceiveShort,
         ReceiveError, ReceiveAstray, MarkDownloaded, ResetSegment, Terminate, ThreadPcs
    <3>3. Done' = Done
      BY <1>0, <3>2 DEF Goes, Done, Typed
    <3> QED
      BY <3>1, <3>3 DEF FreedInv
  <2> QED
    BY <2>1, <2>2, <2>3
<1> QED
  BY <1>1, <1>2, <1>3, <1>4 DEF Next, DownloadStep

LEMMA DownloadAlways == Spec => [](SocketInv /\ SegmentInv /\ FreedInv)
BY SocketInit, SocketStep, SegmentInit, SegmentStep, FreedInit, FreedStep, PTL DEF Spec

(***************************************************************************)
(* Although peers[0] is a slot before it is a counter, it counts right:    *)
(* seqInfos is freed when the last peer thread is done, and then only.     *)
(***************************************************************************)
THEOREM FreedAfterLast == Spec => []FreedByLast
<1>1. FreedInv => FreedByLast
  BY DEF FreedInv, FreedByLast, Done
<1> QED
  BY <1>1, DownloadAlways, PTL

(***************************************************************************)
(* While a thread requests a segment or waits for it, the segments are not *)
(* freed, segment 0 is not yet the termination message, and the saver has  *)
(* not destroyed the table entry with the file's name.                     *)
(***************************************************************************)
THEOREM RequestsStayIntact == Spec => []RequestsIntact
<1>1. SegmentInv /\ FreedInv => RequestsIntact
  <2> SUFFICES ASSUME SegmentInv, FreedInv, NEW t \in Threads, pc[t] \in {"request", "recv"}
               PROVE  ~ending /\ ~seqFreed /\ ~entryFreed
    BY DEF RequestsIntact
  <2>1. seg[t] \in Segs /\ status[seg[t]] = "DOWNLOADING" /\ saved[seg[t]] = "nothing"
    BY DEF SegmentInv, Owned, Unfetched, BusyPcs, BeforePcs
  <2>2. Downloaded # Segs /\ Written # Segs
    BY <2>1 DEF Downloaded, Written
  <2>3. ~ending /\ ~entryFreed
    BY <2>2 DEF SegmentInv, Concluded
  <2>4. ~seqFreed
    BY DEF FreedInv, Done
  <2> QED
    BY <2>3, <2>4
<1> QED
  BY <1>1, DownloadAlways, PTL
-----------------------------------------------------------------------------
(***************************************************************************)
(* What the data of a segment says of the peers and threads.               *)
(***************************************************************************)
Explained(data) ==
  \/ data = "good"
  \/ data = "zeros" /\ \E p \in Peers : ~alive[p]
  \/ data = "other" /\ \E p \in Peers : content[p] = "other"
  \/ data = "mixed" /\ \E t \in Threads : Stray(t)

\* What explains an answer on a connection; one that is crossed has a stray thread on it.
LinkExplained(l) ==
  /\ l = "other" => Explained("other")
  /\ l = "crossed" => Explained("mixed")

DataInv ==
  /\ link \in [Slots -> Links]
  /\ alive \in [Peers -> BOOLEAN]
  /\ content \in [Peers -> {"good", "other", "gone"}]
  /\ \A i \in Slots : LinkExplained(link[i])
  /\ \A i \in DOMAIN chunks : Explained(chunks[i].data)
  /\ \A s \in Segs : saved[s] = "nothing" \/ Explained(saved[s])

LEMMA PeerOfSlot == \A i \in Slots : PeerOf(i) \in Peers
<1> SUFFICES ASSUME NEW i \in Slots PROVE PeerOf(i) \in Peers
  OBVIOUS
<1> DEFINE q == i \div NumStreams
<1>1. i \in Nat /\ i < NumPeers * NumStreams
  BY SomeSlot DEF Slots, N
<1>2. NumStreams \in Nat /\ NumStreams > 0 /\ NumPeers \in Nat
  BY SizesAssumption
<1>3. q \in Int /\ q * NumStreams <= i /\ i < (q + 1) * NumStreams
  BY <1>1, <1>2, Z3
<1> HIDE DEF q
<1>4. q >= 0
  <2> SUFFICES ASSUME q < 0 PROVE FALSE
    BY <1>3
  <2>1. (q + 1) * NumStreams <= 0
    BY <1>2, <1>3
  <2>2. (q + 1) * NumStreams \in Int
    BY <1>2, <1>3
  <2> QED
    BY <1>1, <1>3, <2>1, <2>2
<1>5. q < NumPeers
  <2> SUFFICES ASSUME q >= NumPeers PROVE FALSE
    BY <1>2, <1>3
  <2>1. q * NumStreams >= NumPeers * NumStreams
    BY <1>2, <1>3
  <2>2. q * NumStreams \in Int /\ NumPeers * NumStreams \in Int
    BY <1>2, <1>3
  <2> QED
    BY <1>1, <1>3, <2>1, <2>2
<1> QED
  BY <1>2, <1>3, <1>4, <1>5 DEF PeerOf, Peers, q

LEMMA DataInit == Init => DataInv
BY DEF Init, DataInv, LinkExplained, Links

\* What explains wrong data stays so ...
LEMMA ExplainedStays ==
  ASSUME Typed, DataInv, [Next]_vars, NEW d \in Data, Explained(d) PROVE Explained(d)'
<1>1. \A p \in Peers : ~alive[p] => ~alive'[p]
  <2>1. alive' = alive \/ \E p \in Peers : PeerGone(p)
    BY DEF Next, DownloadStep, Connect, CreateThread, NextPeer, DownloadUndefined,
       PeerThread, ClaimSlot, MarkSlot, PassSlot, ClaimNothing, While, PassSegment, ScanDone,
       TakeSegment, SkipRequest, FailRequest, Request, RequestAstray, Receive, ReceiveShort,
       ReceiveError, ReceiveAstray, MarkDownloaded, ResetSegment, Terminate, CountDone,
       Saver, SaveChunk, Complete, Upload, Serve, ServeMissing, Misread, FileChanged, uploadVars, vars
  <2> QED
    BY <2>1 DEF PeerGone, DataInv
<1>2. \A p \in Peers : content[p] = "other" => content'[p] = "other"
  <2>1. content' = content \/ \E p \in Peers : FileChanged(p)
    BY DEF Next, DownloadStep, Connect, CreateThread, NextPeer, DownloadUndefined,
       PeerThread, ClaimSlot, MarkSlot, PassSlot, ClaimNothing, While, PassSegment, ScanDone,
       TakeSegment, SkipRequest, FailRequest, Request, RequestAstray, Receive, ReceiveShort,
       ReceiveError, ReceiveAstray, MarkDownloaded, ResetSegment, Terminate, CountDone,
       Saver, SaveChunk, Complete, Upload, Serve, ServeMissing, Misread, PeerGone, uploadVars, vars
  <2> QED
    BY <2>1 DEF FileChanged, DataInv
<1>3. \A t \in Threads : Stray(t) => Stray(t)'
  BY StrayStays
<1> QED
  BY <1>1, <1>2, <1>3 DEF Explained

\* ... so a step only has to account for what it writes itself.
LEMMA DataKept ==
  ASSUME Typed, SegTyped, DataInv, [Next]_vars,
         alive' \in [Peers -> BOOLEAN], content' \in [Peers -> {"good", "other", "gone"}],
         link' \in [Slots -> Links],
         \A i \in Slots : \/ \E j \in Slots : link'[i] = link[j]
                          \/ LinkExplained(link'[i]),
         \A i \in DOMAIN chunks' : \/ \E j \in DOMAIN chunks : chunks'[i] = chunks[j]
                                   \/ chunks'[i].data \in Data /\ Explained(chunks'[i].data),
         \A s \in Segs : \/ saved'[s] = saved[s]
                         \/ saved'[s] \in Data /\ Explained(saved'[s])
  PROVE  DataInv'
<1>1. \A d \in Data : Explained(d) => Explained(d)'
  BY ExplainedStays
<1>2. \A i \in DOMAIN chunks : chunks[i].data \in Data
  <2> SUFFICES ASSUME NEW i \in DOMAIN chunks PROVE chunks[i].data \in Data
    OBVIOUS
  <2>1. chunks[i] \in Chunk
    BY DEF SegTyped
  <2> QED
    BY <2>1 DEF Chunk
<1>3. \A s \in Segs : saved[s] \in Data \cup {"nothing"}
  BY DEF SegTyped
<1>4. \A l : LinkExplained(l) => LinkExplained(l)'
  BY <1>1 DEF LinkExplained, Data
<1>5. (\A i \in Slots : LinkExplained(link[i]))'
  <2> SUFFICES ASSUME NEW i \in Slots PROVE LinkExplained(link[i])'
    OBVIOUS
  <2>1. PICK l : l = link'[i] /\ LinkExplained(l)
    BY DEF DataInv
  <2>2. LinkExplained(l)'
    BY <1>4, <2>1
  <2> QED
    BY <2>1, <2>2 DEF LinkExplained
<1>6. (\A i \in DOMAIN chunks : Explained(chunks[i].data))'
  <2> SUFFICES ASSUME NEW i \in DOMAIN chunks' PROVE Explained(chunks[i].data)'
    OBVIOUS
  <2>1. PICK d \in Data : d = chunks'[i].data /\ Explained(d)
    BY <1>2 DEF DataInv
  <2>2. Explained(d)'
    BY <1>1, <2>1
  <2> QED
    BY <2>1, <2>2 DEF Explained
<1>7. (\A s \in Segs : saved[s] = "nothing" \/ Explained(saved[s]))'
  <2> SUFFICES ASSUME NEW s \in Segs, saved'[s] # "nothing" PROVE Explained(saved[s])'
    OBVIOUS
  <2>1. PICK d \in Data : d = saved'[s] /\ Explained(d)
    BY <1>3 DEF DataInv
  <2>2. Explained(d)'
    BY <1>1, <2>1
  <2> QED
    BY <2>1, <2>2 DEF Explained
<1> QED
  BY <1>5, <1>6, <1>7 DEF DataInv

\* The chunk a thread has received goes to the list.
LEMMA DataPushed ==
  ASSUME Typed, SegmentInv, DataInv, [Next]_vars,
         NEW t \in Threads, pc[t] = "recv", NEW data \in Data, Explained(data), Push(t, data),
         UNCHANGED <<saved, alive, content>>,
         link' \in [Slots -> Links],
         \A i \in Slots : link'[i] = link[i] \/ LinkExplained(link'[i])
  PROVE  DataInv'
<1> DEFINE c == [seg |-> seg[t], data |-> data]
<1>1. c \in Chunk /\ chunks \in Seq(Chunk) /\ chunks' = <<c>> \o chunks /\ c.data = data
  <2>1. seg[t] \in Segs
    BY DEF SegmentInv, Owned, BusyPcs
  <2> QED
    BY <2>1 DEF Push, Chunk, SegmentInv, SegTyped
<1> HIDE DEF c
<1>2. /\ chunks'[1] = c /\ \A j \in 1..Len(chunks) : chunks'[j + 1] = chunks[j]
      /\ Len(chunks) \in Nat
      /\ DOMAIN chunks = 1..Len(chunks) /\ DOMAIN chunks' = 1..(Len(chunks) + 1)
  BY <1>1
<1>3. ASSUME NEW i \in DOMAIN chunks', i # 1
      PROVE  \E j \in DOMAIN chunks : chunks'[i] = chunks[j]
  <2>1. i - 1 \in 1..Len(chunks) /\ (i - 1) + 1 = i
    BY <1>2, <1>3
  <2> QED
    BY <1>2, <2>1
<1>4. \A i \in DOMAIN chunks' : \/ \E j \in DOMAIN chunks : chunks'[i] = chunks[j]
                                \/ chunks'[i].data \in Data /\ Explained(chunks'[i].data)
  BY <1>1, <1>2, <1>3
<1>5. /\ alive' \in [Peers -> BOOLEAN] /\ content' \in [Peers -> {"good", "other", "gone"}]
      /\ \A i \in Slots : (\E j \in Slots : link'[i] = link[j]) \/ LinkExplained(link'[i])
      /\ SegTyped
  BY DEF DataInv, SegmentInv
<1> QED
  BY <1>4, <1>5, DataKept

LEMMA DataStep == SocketInv /\ SegmentInv /\ DataInv /\ [Next]_vars => DataInv'
<1> SUFFICES ASSUME SocketInv, SegmentInv, DataInv, [Next]_vars PROVE DataInv'
  OBVIOUS
<1>0. /\ Typed /\ SegTyped
      /\ alive \in [Peers -> BOOLEAN] /\ content \in [Peers -> {"good", "other", "gone"}]
      /\ link \in [Slots -> Links]
  BY DEF SocketInv, SegmentInv, DataInv
<1>l. \A l \in {"none", "idle", "requested", "good", "abandoned", "closed"} : l \in Links /\ LinkExplained(l)
  BY DEF Links, LinkExplained
<1>1. CASE Connect
  <2>1. /\ UNCHANGED <<chunks, saved, alive, content>>
        /\ \E v \in {"idle", "none"} : link' = [link EXCEPT ![made] = v]
    BY <1>1 DEF Connect, saverVars, uploadVars
  <2>2. /\ link' \in [Slots -> Links]
        /\ \A i \in Slots : link'[i] = link[i] \/ LinkExplained(link'[i])
    BY <1>0, <1>l, <2>1
  <2> QED
    BY <1>0, <2>1, <2>2, DataKept
<1>2. CASE \/ CreateThread \/ NextPeer \/ DownloadUndefined \/ Complete
           \/ \E i \in Slots : Misread(i)
           \/ UNCHANGED vars
  <2>1. UNCHANGED <<chunks, saved, alive, content, link>>
    BY <1>2 DEF CreateThread, NextPeer, DownloadUndefined, Complete, Misread, vars, saverVars, uploadVars
  <2> QED
    BY <1>0, <2>1, DataKept
<1>3. CASE SaveChunk
  <2>1. /\ UNCHANGED <<alive, content, link>>
        /\ chunks # <<>> /\ chunks' = Tail(chunks)
        /\ saved' = [saved EXCEPT ![Head(chunks).seg] = Head(chunks).data]
    BY <1>3 DEF SaveChunk, uploadVars
  <2>2. chunks \in Seq(Chunk) /\ saved \in [Segs -> Data \cup {"nothing"}]
    BY <1>0 DEF SegTyped
  <2>3. /\ 1 \in DOMAIN chunks /\ Head(chunks) = chunks[1] /\ chunks[1] \in Chunk
        /\ \A i \in DOMAIN chunks' : i + 1 \in DOMAIN chunks /\ chunks'[i] = chunks[i + 1]
    BY <2>1, <2>2
  <2>4. \A i \in DOMAIN chunks' : \E j \in DOMAIN chunks : chunks'[i] = chunks[j]
    BY <2>3
  <2>5. Head(chunks).data \in Data /\ Explained(Head(chunks).data)
    BY <2>3 DEF DataInv, Chunk
  <2>6. \A s \in Segs : saved'[s] = saved[s] \/ saved'[s] = Head(chunks).data
    BY <2>1, <2>2
  <2> QED
    BY <1>0, <2>1, <2>4, <2>5, <2>6, DataKept
<1>4. ASSUME NEW i \in Slots, Upload(i) PROVE DataInv'
  <2> DEFINE p == PeerOf(i)
  <2>1. /\ UNCHANGED <<chunks, saved, alive, content>>
        /\ \/ content[p] # "gone" /\ link' = [link EXCEPT ![i] = content[p]]
           \/ link' = [link EXCEPT ![i] = "abandoned"]
    BY <1>4 DEF Upload, Serve, ServeMissing, saverVars, uploadVars
  <2>2. p \in Peers
    BY PeerOfSlot
  <2> HIDE DEF p
  <2>3. content[p] \in {"good", "other", "gone"}
    BY <1>0, <2>2
  <2>4. content[p] = "other" => "other" \in Links /\ LinkExplained("other")
    BY <2>2 DEF LinkExplained, Explained, Links
  <2>5. /\ link' \in [Slots -> Links]
        /\ \A j \in Slots : link'[j] = link[j] \/ LinkExplained(link'[j])
    BY <1>0, <1>l, <2>1, <2>3, <2>4
  <2> QED
    BY <1>0, <2>1, <2>5, DataKept
<1>5. ASSUME NEW p \in Peers, PeerGone(p) \/ FileChanged(p) PROVE DataInv'
  <2>1. /\ UNCHANGED <<chunks, saved, link>>
        /\ \/ alive' = [alive EXCEPT ![p] = FALSE] /\ content' = content
           \/ /\ alive' = alive
              /\ \E c \in {"other", "gone"} : content' = [content EXCEPT ![p] = c]
    BY <1>5 DEF PeerGone, FileChanged, saverVars
  <2>2. alive' \in [Peers -> BOOLEAN] /\ content' \in [Peers -> {"good", "other", "gone"}]
    BY <1>0, <2>1
  <2> QED
    BY <1>0, <2>1, <2>2, DataKept
<1>6. ASSUME NEW t \in Threads, PeerThread(t) \/ ReceiveAstray(t) PROVE DataInv'
  <2>0. UNCHANGED <<alive, content, saved>>
    BY <1>6 DEF PeerThread, ClaimSlot, MarkSlot, PassSlot, ClaimNothing, While, PassSegment, ScanDone,
       TakeSegment, SkipRequest, FailRequest, Request, RequestAstray, Receive, ReceiveShort,
       ReceiveError, ReceiveAstray, MarkDownloaded, ResetSegment, Terminate, CountDone,
       saverVars, uploadVars
  <2>1. CASE Receive(t)
    <3>1. PICK i \in Slots : /\ link[i] \in {"good", "other"} /\ Push(t, link[i])
                             /\ link' = [link EXCEPT ![i] = "idle"]
      BY <2>1 DEF Receive
    <3>2. link[i] \in Data /\ Explained(link[i])
      <4>1. LinkExplained(link[i])
        BY DEF DataInv
      <4> QED
        BY <3>1, <4>1 DEF LinkExplained, Explained, Data
    <3>3. /\ link' \in [Slots -> Links]
          /\ \A j \in Slots : link'[j] = link[j] \/ LinkExplained(link'[j])
      BY <1>0, <1>l, <3>1
    <3>4. pc[t] = "recv"
      BY <2>1 DEF Receive, Goes
    <3> QED
      BY <1>0, <2>0, <3>1, <3>2, <3>3, <3>4, DataPushed
  <2>2. CASE ReceiveShort(t)
    <3>1. Push(t, "zeros") /\ link' = link /\ pc[t] = "recv"
      BY <2>2 DEF ReceiveShort, Goes
    <3>2. "zeros" \in Data /\ Explained("zeros")
      BY <2>2, PeerOfSlot DEF ReceiveShort, Gone, Explained, Data
    <3> QED
      BY <1>0, <2>0, <3>1, <3>2, DataPushed
  <2>3. CASE ReceiveAstray(t)
    <3>1. link' = link /\ pc[t] = "recv"
      BY <2>3 DEF ReceiveAstray, Goes
    <3>2. Explained("good") /\ Explained("mixed")
      <4>1. CASE sock[t] = Foreign
        BY <4>1 DEF SocketInv, ForeignIsStray, Explained
      <4>2. CASE \E i \in Slots : link[i] = "crossed"
        BY <4>2 DEF DataInv, LinkExplained, Explained
      <4> QED
        BY <2>3, <4>1, <4>2 DEF ReceiveAstray, Astray
    <3>3. CASE UNCHANGED chunks
      BY <1>0, <2>0, <3>1, <3>3, DataKept
    <3>4. CASE \E data \in {"good", "mixed"} : Push(t, data)
      BY <1>0, <2>0, <3>1, <3>2, <3>4, DataPushed DEF Data
    <3> QED
      BY <2>3, <3>3, <3>4 DEF ReceiveAstray
  <2>4. CASE Request(t)
    <3>1. PICK i \in Slots : /\ On(t, i)
                             /\ link' = [link EXCEPT ![i] = IF Shared(t, i) THEN "crossed" ELSE "requested"]
      BY <2>4 DEF Request
    <3>2. Shared(t, i) => LinkExplained("crossed")
      <4>1. CASE link[i] = "crossed"
        BY <4>1 DEF DataInv
      <4>2. ASSUME NEW u \in Threads \ {t}, On(u, i) PROVE Stray(t) \/ Stray(u)
        <5>1. sock[t] = Socket(i) /\ sock[u] = Socket(i) /\ Socket(i) \in Sockets
          BY <3>1, <4>2 DEF On, Sockets
        <5> QED
          BY <5>1, <4>2 DEF SocketInv, SocketsExclusive
      <4> QED
        BY <1>6, <4>1, <4>2 DEF Shared, LinkExplained, Explained
    <3>3. /\ link' \in [Slots -> Links]
          /\ \A j \in Slots : link'[j] = link[j] \/ LinkExplained(link'[j])
      <4> DEFINE l == IF Shared(t, i) THEN "crossed" ELSE "requested"
      <4>1. l \in Links /\ LinkExplained(l)
        BY <1>l, <3>2 DEF Links
      <4>2. link' = [link EXCEPT ![i] = l]
        BY <3>1
      <4> HIDE DEF l
      <4> QED
        BY <1>0, <4>1, <4>2
    <3>4. UNCHANGED chunks
      BY <2>4 DEF Request, saverVars
    <3> QED
      BY <1>0, <2>0, <3>3, <3>4, DataKept
  <2>5. CASE Terminate(t)
    <3>1. UNCHANGED chunks /\ link' = [i \in Slots |-> IF On(t, i) THEN "closed" ELSE link[i]]
      BY <2>5 DEF Terminate, saverVars
    <3>2. \A i \in Slots : link'[i] \in {link[i], "closed"} /\ link[i] \in Links
      BY <1>0, <3>1
    <3>3. link' = [i \in Slots |-> link'[i]]
      BY <3>1
    <3>4. /\ link' \in [Slots -> Links]
          /\ \A j \in Slots : link'[j] = link[j] \/ LinkExplained(link'[j])
      BY <1>l, <3>2, <3>3
    <3> QED
      BY <1>0, <2>0, <3>1, <3>4, DataKept
  <2>6. CASE /\ ~Receive(t) /\ ~ReceiveShort(t) /\ ~ReceiveAstray(t)
             /\ ~Request(t) /\ ~Terminate(t)
    <3>1. UNCHANGED <<chunks, link>>
      BY <1>6, <2>6 DEF PeerThread, ClaimSlot, MarkSlot, PassSlot, ClaimNothing, While, PassSegment,
         ScanDone, TakeSegment, SkipRequest, FailRequest, RequestAstray, ReceiveError,
         MarkDownloaded, ResetSegment, CountDone, saverVars
    <3> QED
      BY <1>0, <2>0, <3>1, DataKept
  <2> QED
    BY <2>1, <2>2, <2>3, <2>4, <2>5, <2>6
<1> QED
  BY <1>1, <1>2, <1>3, <1>4, <1>5, <1>6 DEF Next, DownloadStep, Saver

(***************************************************************************)
(* A file that the saver reports complete has every segment in its place;  *)
(* a segment is zeros only if a peer went away, from another version only  *)
(* if a peer's user has changed the file, and of another file only if a    *)
(* thread went by a socket it never assigned.                              *)
(***************************************************************************)
THEOREM CompletedIsWhole == Spec => []CompleteIsWhole
<1>1. SegmentInv /\ DataInv => CompleteIsWhole
  <2> SUFFICES ASSUME SegmentInv, DataInv, saver = "done", NEW s \in Segs
               PROVE  \/ saved[s] = "good"
                      \/ saved[s] = "zeros" /\ \E p \in Peers : ~alive[p]
                      \/ saved[s] = "other" /\ \E p \in Peers : content[p] = "other"
                      \/ saved[s] = "mixed" /\ \E t \in Threads : Stray(t)
    BY DEF CompleteIsWhole
  <2>1. saved[s] # "nothing"
    BY DEF SegmentInv, Concluded, Written
  <2> QED
    BY <2>1 DEF DataInv, Explained
<1> QED
  BY <1>1, SocketInit, SocketStep, SegmentInit, SegmentStep, DataInit, DataStep, PTL DEF Spec
=============================================================================
