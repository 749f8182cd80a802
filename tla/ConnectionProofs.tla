-------------------------- MODULE ConnectionProofs --------------------------
(***************************************************************************)
(* Theorems about the connection between the tracker and a peer.           *)
(*                                                                         *)
(* Broadcast: for any number of peers, any tables and buffers of any size, *)
(* the main thread of a peer is given the tables that were sent to it, in  *)
(* order and whole, but for the last when its connection was closed inside *)
(* it.  Heartbeat: for any INTERVAL, any resolution of the clock and any   *)
(* delays, only a silent peer is evicted.                                  *)
(***************************************************************************)
EXTENDS Broadcast, Heartbeat, TLAPS

----------------------------------------------------------------------------
(***************************************************************************)
(* Broadcast: where in the messages of a peer its structs belong.          *)
(***************************************************************************)
\* A location in all that is sent to one peer: a place in the message for its m-th
\* table.
Loc(m, at) == [m |-> m, at |-> at]
Locs == [m : Nat, at : Places]

\* The places in a message for table t.
PlaceIn(t, at) ==
  /\ at \in Places
  /\ \/ at.kind \in {"header", "body", "table"} /\ at.i = 0 /\ at.j = 0
     \/ at.kind \in {"entry", "file"} /\ at.i \in 1..Len(t) /\ at.j = 0
     \/ at.kind = "ip" /\ at.i \in 1..Len(t) /\ at.j \in 1..t[at.i]

\* The location is in a message for one of the tables s; or where the next begins.
OnTable(s, l) == l.m \in 1..Len(s) /\ PlaceIn(s[l.m], l.at)
Within(s, l) == OnTable(s, l) \/ l = Loc(Len(s) + 1, Start)

\* The location after l.
Following(s, l) ==
  LET next == After(s[l.m], l.at)
  IN IF next = End THEN Loc(l.m + 1, Start) ELSE Loc(l.m, next)

\* The structs d are those of the messages for s from f[1] on, each where f says.
Stream(s, d, f) ==
  /\ \A x \in 1..Len(d) : /\ OnTable(s, f[x])
                          /\ d[x] = Struct(s[f[x].m], f[x].at)
                          /\ f[x + 1] = Following(s, f[x])
  /\ Within(s, f[Len(d) + 1])

Structs == [kind : Kinds, n : Nat]

\* The place after one of a message is one of it, or its end.
LEMMA AfterPlace ==
  ASSUME NEW t \in Seq(Nat), NEW at, PlaceIn(t, at)
  PROVE  After(t, at) = End \/ PlaceIn(t, After(t, at))
<1>1. at.i \in Nat /\ at.j \in Nat /\ Len(t) \in Nat /\ at.kind \in Kinds
  BY DEF PlaceIn, Places, Kinds
<1>2. \A i \in 1..Len(t) : t[i] \in Nat
  OBVIOUS
<1>3. CASE at.kind = "header"
  BY <1>3 DEF After, PlaceIn, Place, Places, Kinds
<1>4. CASE at.kind = "body"
  BY <1>4 DEF After, PlaceIn, Place, Places, Kinds
<1>5. CASE at.kind = "entry"
  BY <1>1, <1>5 DEF After, PlaceIn, Place, Places, Kinds
<1>6. CASE at.kind \in {"file", "ip"} /\ at.j < t[at.i]
  <2>1. After(t, at) = Place("ip", at.i, at.j + 1) /\ at.i \in 1..Len(t) /\ t[at.i] \in Nat
    BY <1>2, <1>6 DEF After, PlaceIn
  <2>2. at.j + 1 \in 1..t[at.i]
    BY <1>1, <1>6, <2>1
  <2> QED
    BY <1>1, <2>1, <2>2 DEF PlaceIn, Place, Places, Kinds
<1>7. CASE at.kind = "table" \/ (at.kind \in {"file", "ip"} /\ ~(at.j < t[at.i]))
  <2>1. After(t, at) = IF at.i < Len(t) THEN Place("entry", at.i + 1, 0) ELSE End
    BY <1>7 DEF After
  <2>2. at.i < Len(t) => at.i + 1 \in 1..Len(t)
    BY <1>1
  <2> QED
    BY <1>1, <2>1, <2>2 DEF PlaceIn, Place, Places, Kinds
<1> QED
  BY <1>1, <1>3, <1>4, <1>5, <1>6, <1>7 DEF Kinds

\* A message has more places than one, and no end among them.
LEMMA PlaceFacts ==
  ASSUME NEW t \in Seq(Nat), NEW at, PlaceIn(t, at)
  PROVE  at \in Places /\ at.kind \in Kinds /\ at # End /\ PlaceIn(t, Start)
         /\ Struct(t, at) \in Structs /\ Struct(t, at).kind = at.kind
<1>1. at \in Places /\ at.kind \in Kinds /\ at # End
  BY DEF PlaceIn, Places, End, Place, Kinds
<1>2. PlaceIn(t, Start)
  BY DEF PlaceIn, Start, Place, Places, Kinds
<1>3. at.kind = "entry" => t[at.i] \in Nat
  BY DEF PlaceIn
<1> QED
  BY <1>1, <1>2, <1>3 DEF Struct, Part, Structs

LEMMA LocFacts ==
  ASSUME NEW m \in Nat, NEW at \in Places
  PROVE  Loc(m, at) \in Locs /\ Loc(m, at).m = m /\ Loc(m, at).at = at
  BY DEF Loc, Locs

LEMMA StartFacts == Start \in Places /\ End \in Places /\ Start # End /\ Start.kind = "header"
                    /\ Start.i = 0 /\ Start.j = 0
  BY DEF Start, End, Place, Places, Kinds

\* The location after one on a table is within the tables.
LEMMA FollowingWithin ==
  ASSUME NEW s \in Seq(Seq(Nat)), NEW l, OnTable(s, l)
  PROVE  Within(s, Following(s, l)) /\ Following(s, l) \in Locs
<1>1. l.m \in 1..Len(s) /\ l.m \in Nat /\ Len(s) \in Nat /\ s[l.m] \in Seq(Nat)
  BY DEF OnTable
<1> DEFINE next == After(s[l.m], l.at)
<1>2. next = End \/ PlaceIn(s[l.m], next)
  BY <1>1, AfterPlace DEF OnTable
<1>3. CASE next = End
  <2>1. Following(s, l) = Loc(l.m + 1, Start) /\ l.m + 1 \in Nat
    BY <1>1, <1>3 DEF Following
  <2>2. CASE l.m = Len(s)
    BY <2>1, <2>2, LocFacts, StartFacts DEF Within
  <2>3. CASE l.m + 1 \in 1..Len(s)
    <3>1. s[l.m + 1] \in Seq(Nat)
      BY <2>3
    <3>2. PlaceIn(s[l.m + 1], Start)
      BY DEF PlaceIn, Start, Place, Places, Kinds
    <3> QED
      BY <2>1, <2>3, <3>2, LocFacts, StartFacts DEF Within, OnTable
  <2> QED
    BY <1>1, <2>2, <2>3
<1>4. CASE next # End
  <2>1. Following(s, l) = Loc(l.m, next) /\ next \in Places
    BY <1>1, <1>2, <1>4, PlaceFacts DEF Following
  <2> QED
    BY <1>1, <1>2, <1>4, <2>1, LocFacts DEF Within, OnTable
<1> QED
  BY <1>3, <1>4

\* A stream stays what it is when another table is begun.
LEMMA StreamBegin ==
  ASSUME NEW s \in Seq(Seq(Nat)), NEW t \in Seq(Nat), NEW d \in Seq(Structs), NEW f,
         Stream(s, d, f)
  PROVE  Stream(Append(s, t), d, f)
<1> DEFINE u == Append(s, t)
<1>1. Len(u) = Len(s) + 1 /\ Len(s) \in Nat /\ u[Len(s) + 1] = t
      /\ \A m \in 1..Len(s) : m \in 1..Len(u) /\ u[m] = s[m]
  OBVIOUS
<1> HIDE DEF u
<1>2. \A l : OnTable(s, l) => OnTable(u, l) /\ Following(u, l) = Following(s, l) /\ u[l.m] = s[l.m]
  BY <1>1 DEF OnTable, Following
<1>3. ASSUME NEW l, Within(s, l) PROVE Within(u, l)
  <2>1. CASE OnTable(s, l)
    BY <1>2, <2>1 DEF Within
  <2>2. CASE l = Loc(Len(s) + 1, Start)
    <3>1. l.m = Len(s) + 1 /\ l.at = Start
      BY <1>1, <2>2, LocFacts, StartFacts
    <3>2. PlaceIn(t, Start)
      BY DEF PlaceIn, Start, Place, Places, Kinds
    <3> QED
      BY <1>1, <3>1, <3>2 DEF Within, OnTable
  <2> QED
    BY <1>3, <2>1, <2>2 DEF Within
<1> QED
  BY <1>2, <1>3 DEF Stream, u

\* The structs d are those of the messages for s from location a to before b.
Streams(s, d, a, b) ==
  \E f \in [1..(Len(d) + 1) -> Locs] : Stream(s, d, f) /\ f[1] = a /\ f[Len(d) + 1] = b

\* One struct more is sent, from where the writer is.
LEMMA StreamsSend ==
  ASSUME NEW s \in Seq(Seq(Nat)), NEW d \in Seq(Structs), NEW a, NEW l, Streams(s, d, a, l),
         OnTable(s, l), NEW part \in Structs, part = Struct(s[l.m], l.at)
  PROVE  Streams(s, Append(d, part), a, Following(s, l))
<1>0. PICK f \in [1..(Len(d) + 1) -> Locs] : Stream(s, d, f) /\ f[1] = a /\ f[Len(d) + 1] = l
  BY DEF Streams
<1> DEFINE n == Len(d)
           e == Append(d, part)
           g == [x \in 1..(n + 2) |-> IF x <= n + 1 THEN f[x] ELSE Following(s, l)]
<1>1. n \in Nat /\ Len(e) = n + 1 /\ e[n + 1] = part /\ \A x \in 1..n : e[x] = d[x]
  OBVIOUS
<1>2. Within(s, Following(s, l)) /\ Following(s, l) \in Locs
  BY FollowingWithin
<1> HIDE DEF e, n
<1>3. /\ \A x \in 1..(n + 1) : g[x] = f[x]
      /\ g[n + 2] = Following(s, l)
  BY <1>1
<1>4. g \in [1..(Len(e) + 1) -> Locs]
  <2>1. \A x \in 1..(n + 1) : f[x] \in Locs
    BY DEF n
  <2> QED
    BY <1>1, <1>2, <2>1
<1> HIDE DEF g
<1>5. ASSUME NEW x \in 1..Len(e)
      PROVE  OnTable(s, g[x]) /\ e[x] = Struct(s[g[x].m], g[x].at) /\ g[x + 1] = Following(s, g[x])
  <2>1. CASE x \in 1..n
    <3>1. x \in 1..(n + 1) /\ x + 1 \in 1..(n + 1)
      BY <1>1, <2>1
    <3>2. OnTable(s, f[x]) /\ d[x] = Struct(s[f[x].m], f[x].at) /\ f[x + 1] = Following(s, f[x])
      BY <1>0, <2>1 DEF Stream, n
    <3> QED
      BY <1>1, <1>3, <2>1, <3>1, <3>2
  <2>2. CASE x = n + 1
    <3>1. g[x] = l /\ g[x + 1] = Following(s, l)
      <4>1. x \in 1..(n + 1) /\ x + 1 = n + 2
        BY <1>1, <2>2
      <4> QED
        BY <1>0, <1>3, <2>2, <4>1 DEF n
    <3> QED
      BY <1>1, <2>2, <3>1
  <2> QED
    BY <1>1, <2>1, <2>2
<1>6. Stream(s, e, g)
  <2>1. Len(e) + 1 = n + 2
    BY <1>1
  <2> QED
    BY <1>2, <1>3, <1>5, <2>1 DEF Stream
<1>7. g[1] = f[1] /\ g[Len(e) + 1] = Following(s, l)
  <2>1. 1 \in 1..(n + 1) /\ Len(e) + 1 = n + 2
    BY <1>1
  <2> QED
    BY <1>3, <2>1
<1>8. Streams(s, e, a, Following(s, l))
  BY <1>0, <1>4, <1>6, <1>7 DEF Streams
<1> QED
  BY <1>8 DEF e

\* The first struct is taken.
LEMMA StreamTail ==
  ASSUME NEW s \in Seq(Seq(Nat)), NEW d \in Seq(Structs), d # <<>>,
         NEW f \in [1..(Len(d) + 1) -> Locs], Stream(s, d, f)
  PROVE  /\ OnTable(s, f[1]) /\ Head(d) = Struct(s[f[1].m], f[1].at)
         /\ f[1] \in Locs
         /\ \E g \in [1..(Len(Tail(d)) + 1) -> Locs] :
              /\ Stream(s, Tail(d), g)
              /\ g[1] = Following(s, f[1])
              /\ g[Len(Tail(d)) + 1] = f[Len(d) + 1]
<1> DEFINE n == Len(d)
           e == Tail(d)
           g == [x \in 1..n |-> f[x + 1]]
<1>0. n \in Nat /\ n >= 1 /\ Len(e) = n - 1 /\ Head(d) = d[1]
  OBVIOUS
<1>a. \A x \in 1..(n - 1) : e[x] = d[x + 1]
  OBVIOUS
<1> HIDE DEF n, e
<1>b. \A x \in 1..(n - 1) : x \in 1..n /\ x + 1 \in 1..n
  BY <1>0
<1>1. n \in Nat /\ n >= 1 /\ Len(e) = n - 1 /\ Head(d) = d[1]
      /\ \A x \in 1..(n - 1) : e[x] = d[x + 1] /\ x \in 1..n /\ x + 1 \in 1..n
  BY <1>0, <1>a, <1>b
<1>2. \A x \in 1..n : x + 1 \in 1..(n + 1) /\ f[x + 1] \in Locs /\ g[x] = f[x + 1]
  <2>1. \A x \in 1..n : x + 1 \in 1..(n + 1)
    BY <1>0
  <2>2. \A x \in 1..(n + 1) : f[x] \in Locs
    BY DEF n
  <2> QED
    BY <2>1, <2>2
<1> USE DEF n, e
<1>3. 1 \in 1..n /\ 1 \in 1..(n + 1) /\ n \in 1..n /\ Len(e) + 1 = n
  BY <1>1
<1>4. OnTable(s, f[1]) /\ Head(d) = Struct(s[f[1].m], f[1].at) /\ f[1 + 1] = Following(s, f[1])
  BY <1>1, <1>3 DEF Stream
<1>5. g \in [1..(Len(e) + 1) -> Locs]
  BY <1>2, <1>3
<1> HIDE DEF g, e
<1>6. ASSUME NEW x \in 1..Len(e)
      PROVE  OnTable(s, g[x]) /\ e[x] = Struct(s[g[x].m], g[x].at) /\ g[x + 1] = Following(s, g[x])
  <2>1. x \in 1..(n - 1) /\ x \in 1..n /\ x + 1 \in 1..n /\ e[x] = d[x + 1]
    BY <1>1
  <2>2. g[x] = f[x + 1] /\ g[x + 1] = f[(x + 1) + 1]
    BY <1>2, <2>1
  <2> QED
    BY <2>1, <2>2 DEF Stream
<1>7. Stream(s, e, g)
  <2>1. g[Len(e) + 1] = f[n + 1]
    BY <1>2, <1>3
  <2> QED
    BY <1>6, <2>1 DEF Stream
<1>8. g[1] = Following(s, f[1]) /\ g[Len(e) + 1] = f[n + 1]
  <2>1. g[1] = f[1 + 1]
    BY <1>2, <1>3
  <2>2. g[n] = f[n + 1]
    BY <1>2, <1>3
  <2> QED
    BY <1>3, <1>4, <2>1, <2>2
<1>9. f[1] \in Locs
  BY <1>3
<1> QED
  BY <1>4, <1>5, <1>7, <1>8, <1>9 DEF e

LEMMA StreamsEnds ==
  ASSUME NEW s \in Seq(Seq(Nat)), NEW d \in Seq(Structs), NEW a, NEW b, Streams(s, d, a, b)
  PROVE  a \in Locs /\ b \in Locs /\ Within(s, a) /\ Within(s, b)
<1>1. PICK f \in [1..(Len(d) + 1) -> Locs] : Stream(s, d, f) /\ f[1] = a /\ f[Len(d) + 1] = b
  BY DEF Streams
<1>2. Len(d) \in Nat
  OBVIOUS
<1>3. 1 \in 1..(Len(d) + 1) /\ Len(d) + 1 \in 1..(Len(d) + 1)
  BY <1>2
<1>4. Within(s, b)
  BY <1>1 DEF Stream
<1>5. Within(s, a)
  <2>1. CASE Len(d) = 0
    BY <1>1, <1>4, <2>1
  <2>2. CASE 1 \in 1..Len(d)
    BY <1>1, <2>2 DEF Stream, Within
  <2> QED
    BY <1>2, <2>1, <2>2
<1> QED
  BY <1>1, <1>3, <1>4, <1>5

LEMMA StreamsBegin ==
  ASSUME NEW s \in Seq(Seq(Nat)), NEW t \in Seq(Nat), NEW d \in Seq(Structs), NEW a, NEW b,
         Streams(s, d, a, b)
  PROVE  Streams(Append(s, t), d, a, b)
  BY StreamBegin DEF Streams

LEMMA StreamsReceive ==
  ASSUME NEW s \in Seq(Seq(Nat)), NEW d \in Seq(Structs), d # <<>>, NEW a, NEW b,
         Streams(s, d, a, b)
  PROVE  /\ OnTable(s, a) /\ Head(d) = Struct(s[a.m], a.at)
         /\ Streams(s, Tail(d), Following(s, a), b)
<1>1. PICK f \in [1..(Len(d) + 1) -> Locs] : Stream(s, d, f) /\ f[1] = a /\ f[Len(d) + 1] = b
  BY DEF Streams
<1> QED
  BY <1>1, StreamTail DEF Streams

----------------------------------------------------------------------------
\* The types of the variables, one by one, and what keeps the counts natural.
Threads == [pc : {"idle", "wait", "send", "gone"}, to : Seq(Peers), of : Tables, at : Places]

TrackerTypes ==
  /\ lock \in Peers \cup {Nobody}
  /\ table \in Tables
  /\ thr \in [Peers -> Threads]
  /\ \A p \in Peers : /\ thr[p].pc = "send" => thr[p].to # <<>>
                      /\ thr[p].pc \in {"idle", "wait"} => thr[p].to = <<>>
                      /\ thr[p].to # <<>> => PlaceIn(thr[p].of, thr[p].at)

WireTypes ==
  /\ up \in [Peers -> 0..UpCap]
  /\ down \in [Peers -> Seq(Structs)]
  /\ \A p \in Peers : Len(down[p]) <= DownCap
  /\ conn \in [Peers -> {"up", "doomed", "closed", "reset"}]
  /\ sent \in [Peers -> Seq(Tables)]

ReaderTypes ==
  /\ rd \in [Peers -> Kinds \cup {"report"} \cup Ended]
  /\ files \in [Peers -> Nat] /\ ips \in [Peers -> Nat]
  /\ got \in [Peers -> Seq(Nat)]
  /\ cut \in [Peers -> BOOLEAN]
  /\ reports \in [Peers -> Nat] /\ \A p \in Peers : reports[p] <= MaxReports[p]
  /\ applied \in [Peers -> Seq([entries : Seq(Nat), cut : BOOLEAN])]
  /\ \A p \in Peers : /\ rd[p] \in {"entry", "file", "ip"} => files[p] > 0
                      /\ rd[p] = "ip" => ips[p] > 0

Types == TrackerTypes /\ WireTypes /\ ReaderTypes

LEMMA TypesImply == Types => TypeOK
<1> SUFFICES ASSUME Types PROVE TypeOK
  OBVIOUS
<1>1. \A p \in Peers : thr[p] \in Threads
  BY DEF Types, TrackerTypes
<1>2. \A p \in Peers : thr[p].to # <<>> => thr[p].at # End
  <2> SUFFICES ASSUME NEW p \in Peers, thr[p].to # <<>> PROVE thr[p].at # End
    OBVIOUS
  <2>1. PlaceIn(thr[p].of, thr[p].at)
    BY DEF Types, TrackerTypes
  <2> QED
    BY <2>1 DEF PlaceIn, End, Place
<1>3. \A p \in Peers : reports[p] \in 0..MaxReports[p]
  BY BoundsAssumption DEF Types, ReaderTypes
<1> QED
  BY <1>1, <1>2, <1>3
  DEF Types, TrackerTypes, WireTypes, ReaderTypes, TypeOK, Threads, Structs

LEMMA TypesInit == Init => Types
<1> SUFFICES ASSUME Init PROVE Types
  OBVIOUS
<1>1. Rest \in Threads
  BY TablesAssumption, StartFacts DEF Rest, Threads
<1>2. TrackerTypes
  BY <1>1, TablesAssumption DEF Init, TrackerTypes, Rest
<1>3. WireTypes
  BY BoundsAssumption DEF Init, WireTypes
<1>4. ReaderTypes
  BY BoundsAssumption DEF Init, ReaderTypes, Kinds, Ended
<1> QED
  BY <1>2, <1>3, <1>4 DEF Types

\* Whom a broadcast goes to, and what its thread does first.
LEMMA SendingFacts ==
  ASSUME NEW p \in Peers, NEW to \in Seq(Peers), NEW t \in Tables
  PROVE  /\ Others(p, to) \in Seq(Peers)
         /\ Sending(p, to, t) \in Threads
         /\ Sending(p, to, t).to = to
         /\ to # <<>> => /\ Sending(p, to, t).pc = "send" /\ Sending(p, to, t).of = t
                         /\ Sending(p, to, t).at = Start
                         /\ Head(to) \in Peers /\ to[1] = Head(to)
         /\ to = <<>> => Sending(p, to, t) = Rest
         /\ PlaceIn(t, Start)
<1>1. t \in Seq(Nat)
  BY TablesAssumption
<1>2. PlaceIn(t, Start)
  BY DEF PlaceIn, Start, Place, Places, Kinds
<1>3. Rest \in Threads
  BY TablesAssumption, StartFacts DEF Rest, Threads
<1>4. Others(p, to) \in Seq(Peers)
  BY DEF Others
<1>5. to # <<>> => Head(to) \in Peers /\ to[1] = Head(to)
  OBVIOUS
<1> QED
  BY <1>2, <1>3, <1>4, <1>5, StartFacts DEF Sending, Threads, Rest

\* What the next table sent does to the histories.
LEMMA BeginFacts ==
  ASSUME WireTypes, NEW to \in Seq(Peers), NEW t \in Tables, Begin(to, t)
  PROVE  sent' \in [Peers -> Seq(Tables)]
  BY DEF WireTypes, Begin

LEMMA TypesGoOn ==
  ASSUME Types, NEW p \in Peers, thr[p].pc = "send",
         GoOn(p, Others(p, Tail(thr[p].to))), UNCHANGED table
  PROVE  TrackerTypes' /\ sent' \in [Peers -> Seq(Tables)]
<1>1. PICK to : to = Others(p, Tail(thr[p].to))
  OBVIOUS
<1>2. Tail(thr[p].to) \in Seq(Peers)
  BY DEF Types, TrackerTypes, Threads
<1>3. to \in Seq(Peers) /\ table \in Tables
  BY <1>1, <1>2, SendingFacts DEF Types, TrackerTypes
<1>4. GoOn(p, to)
  BY <1>1
<1>5. sent' \in [Peers -> Seq(Tables)]
  BY <1>3, <1>4, BeginFacts DEF GoOn, Types
<1>6. /\ Sending(p, to, table) \in Threads
      /\ Sending(p, to, table).pc = "send" => to # <<>>
      /\ Sending(p, to, table).to = to /\ (Sending(p, to, table).pc \in {"idle", "wait"} => to = <<>>)
      /\ to # <<>> => PlaceIn(Sending(p, to, table).of, Sending(p, to, table).at)
  BY <1>3, SendingFacts DEF Rest
<1>7. thr' = [thr EXCEPT ![p] = Sending(p, to, table)] /\ lock' \in {Nobody, lock}
  BY <1>4 DEF GoOn
<1> HIDE DEF Sending
<1> QED
  BY <1>3, <1>5, <1>6, <1>7 DEF Types, TrackerTypes

LEMMA TypesMerge == ASSUME Types, NEW p \in Peers, Merge(p) PROVE Types'
<1>1. PICK t \in Merged[table] :
        /\ table' = t
        /\ thr' = [thr EXCEPT ![p] = Sending(p, Others(p, Order), t)]
        /\ Begin(Others(p, Order), t)
        /\ lock' = IF Others(p, Order) = <<>> THEN Nobody ELSE p
  BY DEF Merge
<1>2. t \in Tables
  BY TablesAssumption DEF Types, TrackerTypes
<1>3. PICK to : to = Others(p, Order)
  OBVIOUS
<1>4. to \in Seq(Peers)
  BY <1>3, PeersAssumption, <1>2, SendingFacts
<1>5. /\ Sending(p, to, t) \in Threads
      /\ Sending(p, to, t).pc = "send" => to # <<>>
      /\ Sending(p, to, t).to = to /\ (Sending(p, to, t).pc \in {"idle", "wait"} => to = <<>>)
      /\ to # <<>> => PlaceIn(Sending(p, to, t).of, Sending(p, to, t).at)
  BY <1>2, <1>4, SendingFacts DEF Rest
<1>6. sent' \in [Peers -> Seq(Tables)]
  BY <1>1, <1>2, <1>3, <1>4, BeginFacts DEF Types
<1> HIDE DEF Sending
<1>7. TrackerTypes'
  BY <1>1, <1>2, <1>3, <1>5 DEF Types, TrackerTypes
<1>8. WireTypes' /\ ReaderTypes'
  BY <1>6 DEF Merge, reader, Types, WireTypes, ReaderTypes
<1> QED
  BY <1>7, <1>8 DEF Types

LEMMA TypesSendStruct == ASSUME Types, NEW p \in Peers, SendStruct(p) PROVE Types'
<1> DEFINE q == Head(thr[p].to)
           t == thr[p].of
           next == After(t, thr[p].at)
           part == Struct(t, thr[p].at)
<1>1. thr[p] \in Threads /\ thr[p].pc = "send" /\ thr[p].to # <<>> /\ PlaceIn(t, thr[p].at)
  BY DEF SendStruct, Types, TrackerTypes
<1>2. q \in Peers /\ t \in Seq(Nat)
  BY <1>1, TablesAssumption DEF Threads
<1>3. part \in Structs /\ (next = End \/ PlaceIn(t, next))
  BY <1>1, <1>2, AfterPlace, PlaceFacts
<1>4. ReaderTypes'
  BY DEF SendStruct, reader, Types, ReaderTypes
<1>5. CASE Open(q)
  <2>1. Len(down[q]) < DownCap /\ down' = [down EXCEPT ![q] = Append(@, part)]
    BY <1>5 DEF SendStruct
  <2>2. Append(down[q], part) \in Seq(Structs) /\ Len(Append(down[q], part)) = Len(down[q]) + 1
        /\ Len(down[q]) \in Nat
    BY <1>2, <1>3 DEF Types, WireTypes
  <2>3. down' \in [Peers -> Seq(Structs)] /\ \A r \in Peers : Len(down'[r]) <= DownCap
    <3>1. down \in [Peers -> Seq(Structs)] /\ \A r \in Peers : Len(down[r]) <= DownCap
      BY DEF Types, WireTypes
    <3>2. Len(Append(down[q], part)) <= DownCap
      BY <2>1, <2>2, BoundsAssumption
    <3> HIDE DEF part, q
    <3>3. down'[q] = Append(down[q], part) /\ \A r \in Peers : r # q => down'[r] = down[r]
      BY <1>2, <2>1, <3>1
    <3>4. down' \in [Peers -> Seq(Structs)]
      BY <1>2, <2>1, <2>2, <3>1
    <3> QED
      BY <3>1, <3>2, <3>3, <3>4
  <2>4. TrackerTypes' /\ sent' \in [Peers -> Seq(Tables)]
    <3>1. CASE next = End
      BY <1>1, <1>5, <3>1, TypesGoOn DEF SendStruct
    <3>2. CASE next # End
      <4>1. thr' = [thr EXCEPT ![p].at = next] /\ UNCHANGED <<lock, table, sent>>
        BY <1>5, <3>2 DEF SendStruct
      <4>2. next \in Places /\ PlaceIn(t, next)
        BY <1>3, <3>2 DEF PlaceIn
      <4> QED
        BY <1>1, <4>1, <4>2 DEF Types, TrackerTypes, WireTypes, Threads
    <3> QED
      BY <3>1, <3>2
  <2>5. WireTypes'
    BY <2>3, <2>4 DEF SendStruct, Types, WireTypes
  <2> QED
    BY <1>4, <2>4, <2>5 DEF Types
<1>6. CASE ~Open(q)
  <2>1. TrackerTypes' /\ sent' \in [Peers -> Seq(Tables)]
    BY <1>1, <1>6, TypesGoOn DEF SendStruct
  <2>2. WireTypes'
    BY <1>6, <2>1 DEF SendStruct, Types, WireTypes
  <2> QED
    BY <1>4, <2>1, <2>2 DEF Types
<1> QED
  BY <1>5, <1>6

\* What the tracker does besides, and what happens to connections.
LEMMA TypesRest ==
  ASSUME Types, NEW p \in Peers,
         ReadUpdate(p) \/ Expire(p) \/ Evict(p) \/ Stop \/ MainReports(p) \/ OtherReports(p)
  PROVE  Types'
<1>1. thr[p] \in Threads /\ UpCap \in Nat
  BY BoundsAssumption DEF Types, TrackerTypes
<1>2. CASE ReadUpdate(p)
  <2>1. TrackerTypes'
    BY <1>1, <1>2 DEF ReadUpdate, Types, TrackerTypes, Threads
  <2>2. WireTypes' /\ ReaderTypes'
    <3>1. up \in [Peers -> 0..UpCap] /\ up[p] - 1 \in 0..UpCap
      BY <1>1, <1>2 DEF ReadUpdate, Types, WireTypes
    <3>2. up' \in [Peers -> 0..UpCap]
      BY <1>2, <3>1 DEF ReadUpdate
    <3>3. WireTypes'
      BY <1>2, <3>2 DEF ReadUpdate, Types, WireTypes
    <3>4. ReaderTypes'
      BY <1>2 DEF ReadUpdate, reader, Types, ReaderTypes
    <3> QED
      BY <3>3, <3>4
  <2> QED
    BY <2>1, <2>2 DEF Types
<1>3. CASE Expire(p)
  BY <1>3 DEF Expire, tracker, reader, Types, TrackerTypes, WireTypes, ReaderTypes
<1>4. CASE Evict(p)
  <2>1. TrackerTypes'
    BY <1>1, <1>4 DEF Evict, Types, TrackerTypes, Threads
  <2>2. WireTypes' /\ ReaderTypes'
    BY <1>4 DEF Evict, EndOf, reader, Types, WireTypes, ReaderTypes
  <2> QED
    BY <2>1, <2>2 DEF Types
<1>5. CASE Stop
  <2>1. TrackerTypes'
    <3>1. \A r \in Peers : thr[r] \in Threads
      BY DEF Types, TrackerTypes
    <3>2. \A r \in Peers :
            [thr[r] EXCEPT !.pc = "gone"] =
            [pc |-> "gone", to |-> thr[r].to, of |-> thr[r].of, at |-> thr[r].at]
      BY <3>1 DEF Threads
    <3>3. thr' \in [Peers -> Threads]
      BY <1>5, <3>1, <3>2 DEF Stop, Threads
    <3>4. \A r \in Peers : thr'[r].pc = "gone" /\ thr'[r].to = thr[r].to
                           /\ thr'[r].of = thr[r].of /\ thr'[r].at = thr[r].at
      BY <1>5, <3>2 DEF Stop
    <3> QED
      BY <1>5, <3>3, <3>4 DEF Stop, Types, TrackerTypes
  <2>2. WireTypes' /\ ReaderTypes'
    BY <1>5 DEF Stop, EndOf, Open, reader, Types, WireTypes, ReaderTypes
  <2> QED
    BY <2>1, <2>2 DEF Types
<1>6. CASE MainReports(p)
  <2>1. TrackerTypes'
    BY <1>6 DEF MainReports, tracker, Types, TrackerTypes
  <2>2. WireTypes'
    <3>1. up \in [Peers -> 0..UpCap] /\ up' \in [Peers -> 0..UpCap]
      <4>1. up \in [Peers -> 0..UpCap]
        BY DEF Types, WireTypes
      <4>2. CASE UNCHANGED up
        BY <4>1, <4>2
      <4>3. CASE up[p] < UpCap /\ up' = [up EXCEPT ![p] = @ + 1]
        <5>1. up[p] + 1 \in 0..UpCap
          BY <1>1, <4>1, <4>3
        <5> QED
          BY <4>1, <4>3, <5>1
      <4> QED
        BY <1>6, <4>1, <4>2, <4>3 DEF MainReports
    <3> QED
      BY <1>6, <3>1 DEF MainReports, Types, WireTypes
  <2>3. ReaderTypes'
    BY <1>6 DEF MainReports, Types, ReaderTypes, Kinds, Ended
  <2> QED
    BY <2>1, <2>2, <2>3 DEF Types
<1>7. CASE OtherReports(p)
  <2>1. TrackerTypes'
    BY <1>7 DEF OtherReports, tracker, Types, TrackerTypes
  <2>2. WireTypes'
    BY <1>1, <1>7 DEF OtherReports, Types, WireTypes
  <2>3. ReaderTypes'
    <3>1. reports \in [Peers -> Nat] /\ MaxReports \in [Peers -> Nat]
      BY BoundsAssumption DEF Types, ReaderTypes
    <3>2. reports' \in [Peers -> Nat] /\ \A r \in Peers : reports'[r] <= MaxReports[r]
      <4>1. reports[p] + 1 \in Nat /\ reports[p] + 1 <= MaxReports[p]
        BY <1>7, <3>1 DEF OtherReports
      <4> QED
        BY <1>7, <3>1, <4>1 DEF OtherReports, Types, ReaderTypes
    <3> QED
      BY <1>7, <3>2 DEF OtherReports, reader, Types, ReaderTypes
  <2> QED
    BY <2>1, <2>2, <2>3 DEF Types
<1> QED
  BY <1>2, <1>3, <1>4, <1>5, <1>6, <1>7

LEMMA TypesEntryDone ==
  ASSUME ReaderTypes, NEW p \in Peers, NEW entries \in Seq(Nat), NEW left \in Nat,
         NEW wasCut \in BOOLEAN, EntryDone(p, entries, left, wasCut),
         files' = [files EXCEPT ![p] = left],
         ips' \in [Peers -> Nat], \A r \in Peers : r # p => ips'[r] = ips[r]
  PROVE  ReaderTypes'
<1>1. files' \in [Peers -> Nat] /\ files'[p] = left /\ \A r \in Peers : r # p => files'[r] = files[r]
  BY DEF ReaderTypes
<1>2. CASE left = 0
  <2>1. Apply(p, entries, wasCut)
    BY <1>2 DEF EntryDone
  <2>2. applied' \in [Peers -> Seq([entries : Seq(Nat), cut : BOOLEAN])]
    BY <2>1 DEF Apply, ReaderTypes
  <2>3. got' \in [Peers -> Seq(Nat)] /\ cut' \in [Peers -> BOOLEAN]
    BY <2>1 DEF Apply, ReaderTypes
  <2>4. reports' \in [Peers -> Nat] /\ \A r \in Peers : reports'[r] <= MaxReports[r]
    <3>1. reports \in [Peers -> Nat] /\ MaxReports \in [Peers -> Nat]
      BY BoundsAssumption DEF ReaderTypes
    <3>2. CASE UNCHANGED reports
      BY <3>1, <3>2 DEF ReaderTypes
    <3>3. CASE reports[p] < MaxReports[p] /\ reports' = [reports EXCEPT ![p] = @ + 1]
      <4>1. reports[p] + 1 \in Nat /\ reports[p] + 1 <= MaxReports[p]
        BY <3>1, <3>3
      <4> QED
        BY <3>1, <3>3, <4>1 DEF ReaderTypes
    <3> QED
      BY <2>1, <3>2, <3>3 DEF Apply
  <2>5. rd' = [rd EXCEPT ![p] = "header"] \/ rd' = [rd EXCEPT ![p] = "report"]
    BY <2>1 DEF Apply
  <2> QED
    BY <1>1, <2>2, <2>3, <2>4, <2>5 DEF ReaderTypes, Kinds
<1>3. CASE left # 0
  <2>1. /\ rd' = [rd EXCEPT ![p] = "entry"] /\ UNCHANGED <<reports, applied>>
        /\ got' = [got EXCEPT ![p] = entries] /\ cut' = [cut EXCEPT ![p] = wasCut]
    BY <1>3 DEF EntryDone, Expect
  <2>2. files'[p] > 0
    BY <1>1, <1>3
  <2> QED
    BY <1>1, <2>1, <2>2 DEF ReaderTypes, Kinds
<1> QED
  BY <1>2, <1>3

LEMMA TypesReceived ==
  ASSUME ReaderTypes, NEW p \in Peers, rd[p] \in Kinds, NEW n \in Nat, NEW wasCut \in BOOLEAN,
         Received(p, n, wasCut)
  PROVE  ReaderTypes'
<1>1. CASE rd[p] = "header"
  BY <1>1 DEF Received, Expect, ReaderTypes, Kinds
<1>2. CASE rd[p] = "body"
  BY <1>2 DEF Received, Expect, ReaderTypes, Kinds
<1>3. CASE rd[p] = "table"
  <2>1. files' = [files EXCEPT ![p] = n] /\ EntryDone(p, <<>>, n, wasCut) /\ UNCHANGED ips
    BY <1>3 DEF Received
  <2>2. <<>> \in Seq(Nat) /\ ips' \in [Peers -> Nat] /\ \A r \in Peers : r # p => ips'[r] = ips[r]
    BY <2>1 DEF ReaderTypes
  <2> QED
    BY <2>1, <2>2, TypesEntryDone
<1>4. CASE rd[p] = "entry"
  <2>1. /\ Expect(p, "file") /\ ips' = [ips EXCEPT ![p] = n]
        /\ got' = [got EXCEPT ![p] = <<n>> \o @] /\ cut' = [cut EXCEPT ![p] = wasCut]
        /\ UNCHANGED files
    BY <1>4 DEF Received
  <2>2. got' \in [Peers -> Seq(Nat)]
    <3>1. <<n>> \o got[p] \in Seq(Nat)
      BY DEF ReaderTypes
    <3> QED
      BY <2>1, <3>1 DEF ReaderTypes
  <2> QED
    BY <1>4, <2>1, <2>2 DEF Expect, ReaderTypes, Kinds
<1>5. ASSUME rd[p] \in {"file", "ip"} PROVE files[p] - 1 \in Nat /\ got[p] \in Seq(Nat)
  BY <1>5 DEF ReaderTypes
<1>6. CASE rd[p] = "file" /\ ips[p] > 0
  <2>1. /\ rd' = [rd EXCEPT ![p] = "ip"] /\ UNCHANGED <<reports, applied, files, ips, got>>
        /\ cut' = [cut EXCEPT ![p] = wasCut]
    <3>1. ips[p] \in Nat /\ ips[p] # 0
      BY <1>6 DEF ReaderTypes
    <3> QED
      BY <1>6, <3>1 DEF Received, Expect
  <2> QED
    BY <1>6, <2>1 DEF ReaderTypes, Kinds
<1>7. CASE rd[p] = "file" /\ ips[p] = 0
  <2>1. /\ files' = [files EXCEPT ![p] = files[p] - 1]
        /\ EntryDone(p, got[p], files[p] - 1, wasCut) /\ UNCHANGED ips
    BY <1>7 DEF Received
  <2> QED
    BY <1>5, <1>7, <2>1, TypesEntryDone DEF ReaderTypes
<1>8. CASE rd[p] = "ip"
  <2>1. ips' = [ips EXCEPT ![p] = @ - 1] /\ ips[p] - 1 \in Nat /\ ips' \in [Peers -> Nat]
        /\ \A r \in Peers : r # p => ips'[r] = ips[r]
    <3>1. ips' = [ips EXCEPT ![p] = @ - 1]
      BY <1>8 DEF Received
    <3>2. ips \in [Peers -> Nat] /\ ips[p] - 1 \in Nat
      BY <1>8 DEF ReaderTypes
    <3> QED
      BY <3>1, <3>2
  <2>2. CASE ips[p] > 1
    <3>1. Expect(p, "ip") /\ cut' = [cut EXCEPT ![p] = wasCut] /\ UNCHANGED <<files, got>>
      BY <1>8, <2>2 DEF Received
    <3>2. ips'[p] > 0
      BY <2>1, <2>2 DEF ReaderTypes
    <3> QED
      BY <1>8, <2>1, <3>1, <3>2 DEF Expect, ReaderTypes, Kinds
  <2>3. CASE ~(ips[p] > 1)
    <3>1. /\ files' = [files EXCEPT ![p] = files[p] - 1]
          /\ EntryDone(p, got[p], files[p] - 1, wasCut)
      BY <1>8, <2>3 DEF Received
    <3> QED
      BY <1>5, <1>8, <2>1, <3>1, TypesEntryDone
  <2> QED
    BY <2>2, <2>3
<1>9. rd[p] = "file" => ips[p] > 0 \/ ips[p] = 0
  BY DEF ReaderTypes
<1> QED
  BY <1>1, <1>2, <1>3, <1>4, <1>6, <1>7, <1>8, <1>9 DEF Kinds

LEMMA TypesEnds ==
  ASSUME ReaderTypes, NEW p \in Peers, NEW how \in {"header"} \cup Ended, Ends(p, how)
  PROVE  ReaderTypes'
  BY DEF Ends, ReaderTypes, Kinds, Ended

LEMMA TypesMain ==
  ASSUME Types, NEW p \in Peers, Receive(p) \/ ReceiveNothing(p) \/ ReceiveError(p)
  PROVE  Types'
<1>1. TrackerTypes'
  BY DEF Receive, ReceiveNothing, ReceiveError, tracker, Types, TrackerTypes
<1>2. CASE Receive(p)
  <2>1. down[p] \in Seq(Structs) /\ down[p] # <<>>
    BY <1>2 DEF Receive, Types, WireTypes
  <2>2. Tail(down[p]) \in Seq(Structs) /\ Head(down[p]) \in Structs
        /\ Len(Tail(down[p])) <= Len(down[p]) /\ Len(down[p]) \in Nat /\ Len(Tail(down[p])) \in Nat
    BY <2>1
  <2>3. WireTypes'
    <3>1. Len(Tail(down[p])) <= DownCap
      BY <2>2, BoundsAssumption DEF Types, WireTypes
    <3> QED
      BY <1>2, <2>2, <3>1 DEF Receive, Types, WireTypes
  <2>4. ReaderTypes'
    <3>1. Head(down[p]).n \in Nat /\ cut[p] \in BOOLEAN
      BY <2>2 DEF Types, ReaderTypes, Structs
    <3> QED
      BY <1>2, <3>1, TypesEnds, TypesReceived DEF Receive, Types
  <2> QED
    BY <1>1, <2>3, <2>4 DEF Types
<1>3. CASE ReceiveNothing(p)
  <2>1. WireTypes'
    BY <1>3 DEF ReceiveNothing, Types, WireTypes
  <2>2. ReaderTypes'
    BY <1>3, TypesEnds, TypesReceived DEF ReceiveNothing, Types, Ended
  <2> QED
    BY <1>1, <2>1, <2>2 DEF Types
<1>4. CASE ReceiveError(p)
  <2>1. WireTypes'
    BY <1>4 DEF ReceiveError, Types, WireTypes
  <2>2. ReaderTypes'
    BY <1>4, TypesEnds DEF ReceiveError, Types, Ended
  <2> QED
    BY <1>1, <2>1, <2>2 DEF Types
<1> QED
  BY <1>2, <1>3, <1>4

LEMMA TypesNext == Types /\ [Next]_vars => Types'
<1> SUFFICES ASSUME Types, [Next]_vars PROVE Types'
  OBVIOUS
<1>1. CASE UNCHANGED vars
  BY <1>1 DEF vars, tracker, reader, Types, TrackerTypes, WireTypes, ReaderTypes
<1>2. CASE Stop
  <2>1. \E p \in Peers : TRUE
    BY <1>2 DEF Stop
  <2> QED
    BY <1>2, <2>1, TypesRest
<1>3. ASSUME NEW p \in Peers, Thread(p) \/ Main(p) \/ OtherReports(p) \/ Expire(p) \/ Evict(p)
      PROVE  Types'
  BY <1>3, TypesMerge, TypesSendStruct, TypesMain, TypesRest DEF Thread, Main
<1> QED
  BY <1>1, <1>2, <1>3 DEF Next

\* The variables keep their types; in particular no buffer ever holds more than its
\* bound, and the counts of what is still to be read stay natural numbers.
THEOREM TypeCorrect == Spec => []TypeOK
<1>1. Spec => []Types
  BY TypesInit, TypesNext, PTL DEF Spec
<1> QED
  BY <1>1, TypesImply, PTL

----------------------------------------------------------------------------
(***************************************************************************)
(* One thread at most has somebody left to send to, and it holds the lock. *)
(* If Sends(q), its next struct goes to q, on the last table begun for q.  *)
(***************************************************************************)
Sends(q) == lock \in Peers /\ thr[lock].to # <<>> /\ Head(thr[lock].to) = q

SenderInv ==
  /\ \A h \in Peers : thr[h].to # <<>> => lock = h
  /\ \A q \in Peers : Sends(q) /\ Open(q) =>
       sent[q] # <<>> /\ sent[q][Len(sent[q])] = thr[lock].of

\* Where in all that is sent to q the next struct will be.
WriterLoc(q) ==
  IF Sends(q) THEN Loc(Len(sent[q]), thr[lock].at) ELSE Loc(Len(sent[q]) + 1, Start)

\* The last entries read of t are the first k, the last one first.
ReadSoFar(t, k, g) == Len(g) = k /\ \A x \in 1..k : g[x] = t[k + 1 - x]

\* q has read what comes before location l, and its counts say what is left.
ReaderAt(q, l) ==
  /\ l.m = Len(applied[q]) + 1
  /\ LET t == sent[q][l.m]
         i == l.at.i IN
       \/ rd[q] \in {"header", "report"} /\ l.at = Start /\ got[q] = <<>>
       \/ rd[q] \in {"body", "table"} /\ l.at.kind = rd[q] /\ got[q] = <<>>
       \/ /\ rd[q] = "entry" /\ l.at.kind = "entry"
          /\ files[q] = Len(t) - i + 1 /\ ReadSoFar(t, i - 1, got[q])
       \/ /\ rd[q] = "file" /\ l.at.kind = "file"
          /\ files[q] = Len(t) - i + 1 /\ ReadSoFar(t, i, got[q])
          /\ ips[q] = t[i]
       \/ /\ rd[q] = "ip" /\ l.at.kind = "ip"
          /\ files[q] = Len(t) - i + 1 /\ ReadSoFar(t, i, got[q])
          /\ ips[q] = t[i] - l.at.j + 1

AsSent(q) ==
  /\ Len(applied[q]) <= Len(sent[q])
  /\ \A i \in 1..Len(applied[q]) : /\ ~applied[q][i].cut
                                   /\ applied[q][i].entries = Reverse(sent[q][i])

(***************************************************************************)
(* The inductive invariant, for each peer: what waits for it continues     *)
(* where its reader is and, on an open connection, ends where its writer   *)
(* is; or its connection was closed inside a table and it reads zeros; or  *)
(* such a table was its last; or its process has ended.                    *)
(***************************************************************************)
InStep(q) ==
  /\ AsSent(q) /\ ~cut[q]
  /\ \E a, b \in Locs : /\ Streams(sent[q], down[q], a, b)
                        /\ ReaderAt(q, a)
                        /\ Open(q) => b = WriterLoc(q)

ReadsZeros(q) ==
  /\ AsSent(q) /\ Len(applied[q]) < Len(sent[q])
  /\ conn[q] = "closed" /\ down[q] = <<>> /\ rd[q] \in Kinds \ {"header"}

WasCut(q) ==
  LET n == Len(applied[q]) IN
    /\ n \in 1..Len(sent[q]) /\ applied[q][n].cut
    /\ \A i \in 1..(n - 1) : /\ ~applied[q][i].cut
                             /\ applied[q][i].entries = Reverse(sent[q][i])
    /\ conn[q] = "closed" /\ down[q] = <<>> /\ rd[q] \in {"header", "report"} \cup Ended

HasEnded(q) == AsSent(q) /\ rd[q] \in Ended

Sound(q) == InStep(q) \/ ReadsZeros(q) \/ WasCut(q) \/ HasEnded(q)
StreamInv == SenderInv /\ \A q \in Peers : Sound(q)

LEMMA StreamInvImplies == Types /\ StreamInv => TablesAsSent
<1> SUFFICES ASSUME Types, StreamInv, NEW p \in Peers, NEW i \in DOMAIN applied[p]
             PROVE  /\ i <= Len(sent[p])
                    /\ IF applied[p][i].cut
                       THEN i = Len(applied[p]) /\ conn[p] = "closed"
                       ELSE applied[p][i].entries = Reverse(sent[p][i])
  BY DEF TablesAsSent
<1>1. i \in 1..Len(applied[p]) /\ Len(applied[p]) \in Nat /\ Len(sent[p]) \in Nat
  BY DEF Types, ReaderTypes, WireTypes
<1>2. CASE AsSent(p)
  BY <1>1, <1>2 DEF AsSent
<1>3. CASE WasCut(p)
  BY <1>1, <1>3 DEF WasCut
<1> QED
  BY <1>2, <1>3 DEF StreamInv, Sound, InStep, ReadsZeros, HasEnded

LEMMA TablesFacts == ASSUME Types, NEW q \in Peers
                     PROVE  sent[q] \in Seq(Seq(Nat)) /\ down[q] \in Seq(Structs)
  BY TablesAssumption DEF Types, WireTypes

LEMMA StreamInvInit == ASSUME Init PROVE StreamInv
<1>1. \A p \in Peers : thr[p].to = <<>>
  BY DEF Init, Rest
<1>2. SenderInv
  BY <1>1 DEF SenderInv, Sends
<1>3. ASSUME NEW q \in Peers PROVE Sound(q)
  <2>1. /\ sent[q] = <<>> /\ applied[q] = <<>> /\ down[q] = <<>> /\ cut[q] = FALSE
        /\ rd[q] = "header" /\ got[q] = <<>>
    BY DEF Init
  <2>2. ~Sends(q)
    BY <1>1 DEF Sends
  <2> DEFINE l == Loc(1, Start)
  <2>3. l \in Locs /\ l.m = 1 /\ l.at = Start
    BY LocFacts, StartFacts
  <2>4. Streams(<<>>, <<>>, l, l)
    <3> DEFINE f == [x \in 1..1 |-> l]
    <3>1. f \in [1..(Len(<<>>) + 1) -> Locs] /\ f[1] = l /\ f[Len(<<>>) + 1] = l
      BY <2>3
    <3>2. Stream(<<>>, <<>>, f)
      BY <3>1 DEF Stream, Within
    <3> QED
      BY <3>1, <3>2 DEF Streams
  <2>5. ReaderAt(q, l)
    BY <2>1, <2>3 DEF ReaderAt
  <2>6. WriterLoc(q) = l
    BY <2>1, <2>2 DEF WriterLoc
  <2>7. AsSent(q)
    BY <2>1 DEF AsSent
  <2> QED
    BY <2>1, <2>3, <2>4, <2>5, <2>6, <2>7 DEF Sound, InStep
<1> QED
  BY <1>2, <1>3 DEF StreamInv

----------------------------------------------------------------------------
(***************************************************************************)
(* The writers.                                                            *)
(***************************************************************************)
\* What a step leaves alone.
SameReader(q) ==
  /\ rd'[q] = rd[q] /\ files'[q] = files[q] /\ ips'[q] = ips[q]
  /\ got'[q] = got[q] /\ cut'[q] = cut[q] /\ applied'[q] = applied[q]

\* A table more on the wire of q does not move its reader.
LEMMA ReaderBegin ==
  ASSUME Types, NEW q \in Peers, NEW t, NEW a \in Locs, Within(sent[q], a),
         ReaderAt(q, a), SameReader(q), sent'[q] \in {sent[q], Append(sent[q], t)}
  PROVE  ReaderAt(q, a)'
<1>1. CASE OnTable(sent[q], a)
  <2>1. sent'[q][a.m] = sent[q][a.m]
    BY <1>1, TablesFacts DEF OnTable
  <2> QED
    BY <2>1 DEF ReaderAt, SameReader
<1>2. CASE a = Loc(Len(sent[q]) + 1, Start)
  <2>1. a.at = Start /\ Start.kind = "header"
    <3>1. Len(sent[q]) + 1 \in Nat
      BY TablesFacts
    <3> QED
      BY <1>2, <3>1, StartFacts, LocFacts
  <2>2. rd[q] \in {"header", "report"} /\ got[q] = <<>> /\ a.m = Len(applied[q]) + 1
    BY <2>1 DEF ReaderAt
  <2> QED
    BY <2>1, <2>2 DEF ReaderAt, SameReader
<1> QED
  BY <1>1, <1>2 DEF Within

LEMMA AsSentBegin ==
  ASSUME Types, NEW q \in Peers, NEW t, AsSent(q), applied'[q] = applied[q],
         sent'[q] \in {sent[q], Append(sent[q], t)}
  PROVE  AsSent(q)'
<1>1. Len(sent[q]) \in Nat /\ Len(applied[q]) \in Nat
  BY DEF Types, WireTypes, ReaderTypes
<1>2. Len(sent'[q]) >= Len(sent[q]) /\ \A i \in 1..Len(sent[q]) : sent'[q][i] = sent[q][i]
  BY TablesFacts
<1>3. Len(sent'[q]) \in Nat
  BY TablesFacts
<1>4. Len(applied'[q]) <= Len(sent'[q])
  BY <1>1, <1>2, <1>3 DEF AsSent
<1>5. \A i \in 1..Len(applied[q]) : i \in 1..Len(sent[q])
  BY <1>1 DEF AsSent
<1> QED
  BY <1>2, <1>4, <1>5 DEF AsSent

\* Nothing moves for q but its connection may end.
LEMMA SoundUnmoved ==
  ASSUME NEW q \in Peers, Sound(q), SameReader(q), down'[q] = down[q], sent'[q] = sent[q],
         conn[q] = "closed" => conn'[q] = "closed",
         Open(q)' => Open(q) /\ WriterLoc(q)' = WriterLoc(q)
  PROVE  Sound(q)'
<1>1. AsSent(q) => AsSent(q)'
  BY DEF AsSent, SameReader
<1>2. ASSUME InStep(q) PROVE InStep(q)'
  <2>1. PICK a, b \in Locs : /\ Streams(sent[q], down[q], a, b) /\ ReaderAt(q, a)
                             /\ Open(q) => b = WriterLoc(q)
    BY <1>2 DEF InStep
  <2>2. ReaderAt(q, a)'
    BY <2>1 DEF ReaderAt, SameReader
  <2>3. Streams(sent'[q], down'[q], a, b)
    BY <2>1
  <2>4. AsSent(q)' /\ ~cut'[q]
    BY <1>1, <1>2 DEF InStep, SameReader
  <2> QED
    BY <2>1, <2>2, <2>3, <2>4 DEF InStep
<1>3. ReadsZeros(q) => ReadsZeros(q)'
  BY <1>1 DEF ReadsZeros, SameReader
<1>4. WasCut(q) => WasCut(q)'
  BY DEF WasCut, SameReader
<1>5. HasEnded(q) => HasEnded(q)'
  BY <1>1 DEF HasEnded, SameReader
<1> QED
  BY <1>2, <1>3, <1>4, <1>5 DEF Sound

\* The writer of q moves on to location c: a struct may be sent, a table begun.
LEMMA SoundWritten ==
  ASSUME Types, NEW q \in Peers, Sound(q), SameReader(q), UNCHANGED conn, Open(q),
         NEW t \in Tables, sent'[q] \in {sent[q], Append(sent[q], t)},
         \/ down'[q] = down[q] /\ WriterLoc(q)' = WriterLoc(q)
         \/ /\ OnTable(sent[q], WriterLoc(q))
            /\ LET b == WriterLoc(q) IN
                 /\ down'[q] = Append(down[q], Struct(sent[q][b.m], b.at))
                 /\ WriterLoc(q)' = Following(sent[q], b)
  PROVE  Sound(q)'
<1>1. CASE InStep(q)
  <2>1. PICK a, b \in Locs : /\ Streams(sent[q], down[q], a, b) /\ ReaderAt(q, a)
                             /\ b = WriterLoc(q)
    BY <1>1 DEF InStep
  <2>2. PICK c, d : d = down'[q] /\ Streams(sent[q], d, a, c) /\ c = WriterLoc(q)' /\ d \in Seq(Structs)
    <3>1. CASE down'[q] = down[q] /\ WriterLoc(q)' = WriterLoc(q)
      BY <2>1, <3>1, TablesFacts
    <3>2. CASE /\ OnTable(sent[q], b)
               /\ down'[q] = Append(down[q], Struct(sent[q][b.m], b.at))
               /\ WriterLoc(q)' = Following(sent[q], b)
      <4>1. PICK part : part = Struct(sent[q][b.m], b.at)
        OBVIOUS
      <4>2. sent[q][b.m] \in Seq(Nat) /\ PlaceIn(sent[q][b.m], b.at)
        BY <3>2, TablesFacts DEF OnTable
      <4>3. part \in Structs
        BY <4>1, <4>2, PlaceFacts
      <4>4. Streams(sent[q], Append(down[q], part), a, Following(sent[q], b))
        BY <2>1, <3>2, <4>1, <4>3, StreamsSend, TablesFacts
      <4>5. Append(down[q], part) \in Seq(Structs)
        BY <4>3, TablesFacts
      <4> QED
        BY <3>2, <4>1, <4>4, <4>5
    <3> QED
      BY <2>1, <3>1, <3>2
  <2>3. a \in Locs /\ c \in Locs /\ Within(sent[q], a)
    BY <2>2, StreamsEnds, TablesFacts
  <2>4. Streams(sent'[q], d, a, c)
    <3>1. t \in Seq(Nat)
      BY TablesAssumption
    <3> QED
      BY <2>2, <3>1, StreamsBegin, TablesFacts
  <2>5. ReaderAt(q, a)'
    BY <2>1, <2>3, ReaderBegin
  <2>6. AsSent(q)' /\ ~cut'[q]
    BY <1>1, AsSentBegin DEF InStep, SameReader
  <2> QED
    BY <2>2, <2>3, <2>4, <2>5, <2>6 DEF Sound, InStep
<1>2. CASE HasEnded(q)
  BY <1>2, AsSentBegin DEF HasEnded, Sound, SameReader
<1> QED
  BY <1>1, <1>2 DEF Sound, ReadsZeros, WasCut, Open

LEMMA AppendFacts ==
  ASSUME NEW s \in Seq(Seq(Nat)), NEW t \in Seq(Nat)
  PROVE  /\ Len(s) \in Nat /\ Len(Append(s, t)) = Len(s) + 1 /\ Append(s, t)[Len(s) + 1] = t
         /\ Append(s, t) # <<>>
<1>1. Len(s) \in Nat /\ Len(Append(s, t)) = Len(s) + 1 /\ Append(s, t)[Len(s) + 1] = t
  OBVIOUS
<1>2. \A u : Len(u) = Len(s) + 1 => u # <<>>
  BY <1>1
<1>3. Append(s, t) # <<>>
  BY <1>1, <1>2
<1> QED
  BY <1>1, <1>3

\* Thread p begins the message for the first of those it has left, or is done.
LEMMA WriterBegins ==
  ASSUME Types, SenderInv, NEW p \in Peers, NEW to \in Seq(Peers), NEW t \in Tables,
         Begin(to, t), thr' = [thr EXCEPT ![p] = Sending(p, to, t)],
         lock' = (IF to = <<>> THEN Nobody ELSE p), UNCHANGED conn,
         \A h \in Peers : h # p => thr[h].to = <<>>
  PROVE  /\ SenderInv'
         /\ \A q \in Peers : /\ sent'[q] \in {sent[q], Append(sent[q], t)}
                             /\ ~Open(q) => sent'[q] = sent[q]
                             /\ Open(q) => WriterLoc(q)' = Loc(Len(sent[q]) + 1, Start)
<1>1. /\ thr'[p] = Sending(p, to, t) /\ thr'[p].to = to
      /\ \A h \in Peers : h # p => thr'[h].to = <<>>
  <2>1. Sending(p, to, t).to = to
    BY SendingFacts
  <2> QED
    BY <2>1 DEF Types, TrackerTypes
<1>2. to # <<>> => /\ Head(to) \in Peers /\ to[1] = Head(to)
                   /\ thr'[p].of = t /\ thr'[p].at = Start
  BY <1>1, SendingFacts
<1>3. \A q \in Peers : Sends(q)' <=> to # <<>> /\ Head(to) = q
  <2>1. CASE to = <<>>
    <3>1. lock' \notin Peers
      BY <2>1, PeersAssumption
    <3> QED
      BY <2>1, <3>1 DEF Sends
  <2>2. CASE to # <<>>
    BY <1>1, <2>2 DEF Sends
  <2> QED
    BY <2>1, <2>2
<1>4. ASSUME NEW q \in Peers
      PROVE  IF to # <<>> /\ Head(to) = q /\ Open(q)
             THEN sent'[q] = Append(sent[q], t)
             ELSE sent'[q] = sent[q]
  BY <1>2 DEF Begin
<1>5. ASSUME NEW q \in Peers
      PROVE  /\ sent[q] \in Seq(Seq(Nat)) /\ Len(sent[q]) \in Nat
             /\ Len(Append(sent[q], t)) = Len(sent[q]) + 1
             /\ Append(sent[q], t)[Len(sent[q]) + 1] = t /\ Append(sent[q], t) # <<>>
  <2>1. PICK s \in Seq(Seq(Nat)) : s = sent[q]
    BY TablesFacts
  <2>2. t \in Seq(Nat)
    BY TablesAssumption
  <2>3. Len(s) \in Nat /\ Len(Append(s, t)) = Len(s) + 1 /\ Append(s, t)[Len(s) + 1] = t
        /\ Append(s, t) # <<>>
    BY <2>2, AppendFacts
  <2> QED
    BY <2>1, <2>3
<1>6. SenderInv'
  <2>1. \A h \in Peers : thr'[h].to # <<>> => lock' = h
    BY <1>1
  <2>2. ASSUME NEW q \in Peers, Sends(q)', Open(q)'
        PROVE  sent'[q] # <<>> /\ sent'[q][Len(sent'[q])] = thr'[lock'].of
    <3>1. to # <<>> /\ Head(to) = q /\ Open(q) /\ lock' = p
      BY <1>3, <2>2 DEF Open
    <3> QED
      BY <1>2, <1>4, <1>5, <3>1
  <2> QED
    BY <2>1, <2>2 DEF SenderInv
<1>7. ASSUME NEW q \in Peers, Open(q) PROVE WriterLoc(q)' = Loc(Len(sent[q]) + 1, Start)
  <2>1. CASE to # <<>> /\ Head(to) = q
    <3>1. lock' = p /\ Sends(q)' /\ Len(sent'[q]) = Len(sent[q]) + 1 /\ thr'[lock'].at = Start
      BY <1>2, <1>3, <1>4, <1>5, <1>7, <2>1
    <3> QED
      BY <3>1 DEF WriterLoc
  <2>2. CASE ~(to # <<>> /\ Head(to) = q)
    BY <1>3, <1>4, <2>2 DEF WriterLoc
  <2> QED
    BY <2>1, <2>2
<1> QED
  BY <1>4, <1>6, <1>7

\* No thread sends while the lock is free.
LEMMA NoWriter ==
  ASSUME SenderInv, lock = Nobody
  PROVE  \A h \in Peers : thr[h].to = <<>> /\ ~Sends(h)
  BY PeersAssumption DEF SenderInv, Sends

LEMMA StreamMerge == ASSUME Types, StreamInv, NEW p \in Peers, Merge(p) PROVE StreamInv'
<1>1. PICK t \in Merged[table] :
        /\ thr' = [thr EXCEPT ![p] = Sending(p, Others(p, Order), t)]
        /\ Begin(Others(p, Order), t)
        /\ lock' = IF Others(p, Order) = <<>> THEN Nobody ELSE p
  BY DEF Merge
<1>2. t \in Tables
  BY TablesAssumption DEF Types, TrackerTypes
<1>3. PICK to : to = Others(p, Order)
  OBVIOUS
<1>4. to \in Seq(Peers)
  BY <1>2, <1>3, PeersAssumption, SendingFacts
<1>5. \A h \in Peers : thr[h].to = <<>> /\ ~Sends(h)
  BY NoWriter DEF Merge, StreamInv
<1>6. UNCHANGED <<conn, down>> /\ \A q \in Peers : SameReader(q)
  BY DEF Merge, reader, SameReader
<1>7. /\ SenderInv'
      /\ \A q \in Peers : /\ sent'[q] \in {sent[q], Append(sent[q], t)}
                          /\ ~Open(q) => sent'[q] = sent[q]
                          /\ Open(q) => WriterLoc(q)' = Loc(Len(sent[q]) + 1, Start)
  BY <1>1, <1>2, <1>3, <1>4, <1>5, <1>6, WriterBegins DEF StreamInv
<1>8. ASSUME NEW q \in Peers PROVE Sound(q)'
  <2>1. CASE Open(q)
    <3>1. WriterLoc(q)' = WriterLoc(q)
      BY <1>5, <1>7, <2>1 DEF WriterLoc
    <3> QED
      BY <1>2, <1>6, <1>7, <2>1, <3>1, SoundWritten DEF StreamInv
  <2>2. CASE ~Open(q)
    BY <1>6, <1>7, <2>2, SoundUnmoved DEF StreamInv, Open
  <2> QED
    BY <2>1, <2>2
<1> QED
  BY <1>7, <1>8 DEF StreamInv

LEMMA StreamSendStruct == ASSUME Types, StreamInv, NEW p \in Peers, SendStruct(p) PROVE StreamInv'
<1>0. PICK q, t, at : q = Head(thr[p].to) /\ t = thr[p].of /\ at = thr[p].at
  OBVIOUS
<1>a. PICK next, b : next = After(t, at) /\ b = Loc(Len(sent[q]), at)
  OBVIOUS
<1>1. thr[p] \in Threads /\ thr[p].pc = "send" /\ thr[p].to # <<>> /\ PlaceIn(t, at)
  BY <1>0 DEF SendStruct, Types, TrackerTypes
<1>2. q \in Peers /\ lock = p /\ Sends(q) /\ \A h \in Peers : h # p => thr[h].to = <<>> /\ h # lock
  BY <1>0, <1>1 DEF Threads, StreamInv, SenderInv, Sends
<1>3. \A r \in Peers : r # q => ~Sends(r)
  BY <1>0, <1>2 DEF Sends
<1>4. UNCHANGED <<conn, table>> /\ \A r \in Peers : SameReader(r)
  BY DEF SendStruct, reader, SameReader
<1>5. ASSUME Open(q)
      PROVE  /\ OnTable(sent[q], b) /\ WriterLoc(q) = b /\ sent[q][b.m] = t /\ b.at = at
             /\ b.m = Len(sent[q])
  <2>1. sent[q] # <<>> /\ sent[q][Len(sent[q])] = t
    BY <1>0, <1>2, <1>5 DEF StreamInv, SenderInv
  <2>2. Len(sent[q]) \in Nat /\ Len(sent[q]) \in 1..Len(sent[q])
    BY <1>2, <2>1, TablesFacts
  <2>3. b.m = Len(sent[q]) /\ b.at = at
    BY <1>0, <1>a, <1>1, <2>2, LocFacts DEF Threads
  <2> QED
    BY <1>0, <1>a, <1>1, <1>2, <2>1, <2>2, <2>3 DEF OnTable, WriterLoc
<1>6. \A r \in Peers : down'[r] = IF r = q /\ Open(q)
                                THEN Append(down[q], Struct(t, at)) ELSE down[r]
  BY <1>0, <1>2 DEF SendStruct, Types, WireTypes
<1>7. CASE Open(q) /\ next # End
  <2>1. thr' = [thr EXCEPT ![p].at = next] /\ UNCHANGED <<lock, sent>>
    BY <1>0, <1>a, <1>7 DEF SendStruct
  <2>2. /\ thr'[p].to = thr[p].to /\ thr'[p].of = t /\ thr'[p].at = next
        /\ \A h \in Peers : thr'[h].to = thr[h].to
    BY <1>0, <1>1, <2>1 DEF Types, TrackerTypes, Threads
  <2>3. \A r \in Peers : Sends(r)' <=> r = q
    BY <1>0, <1>2, <1>3, <2>1, <2>2 DEF Sends
  <2>4. SenderInv'
    BY <1>0, <1>2, <1>3, <1>4, <2>1, <2>2, <2>3 DEF StreamInv, SenderInv, Open
  <2>5. WriterLoc(q)' = Loc(Len(sent[q]), next)
    BY <1>2, <2>1, <2>2, <2>3 DEF WriterLoc
  <2>6. Following(sent[q], b) = Loc(Len(sent[q]), next)
    BY <1>0, <1>a, <1>5, <1>7 DEF Following
  <2>7. ASSUME NEW r \in Peers PROVE Sound(r)'
    <3>1. CASE r = q
      <4>1. /\ OnTable(sent[r], WriterLoc(r)) /\ sent'[r] = sent[r]
            /\ down'[r] = Append(down[r], Struct(sent[r][b.m], b.at))
            /\ WriterLoc(r)' = Following(sent[r], b) /\ b = WriterLoc(r)
        <5>1. OnTable(sent[q], WriterLoc(q)) /\ b = WriterLoc(q) /\ sent[q][b.m] = t /\ b.at = at
          BY <1>5, <1>7
        <5>2. sent'[q] = sent[q] /\ WriterLoc(q)' = Following(sent[q], b)
          BY <2>1, <2>5, <2>6
        <5>3. down'[q] = Append(down[q], Struct(t, at))
          BY <1>2, <1>6, <1>7
        <5> QED
          BY <3>1, <5>1, <5>2, <5>3
      <4>2. Sound(r) /\ SameReader(r) /\ Open(r) /\ t \in Tables
        BY <1>0, <1>1, <1>4, <1>7, <3>1 DEF StreamInv, Threads
      <4> QED
        BY <1>4, <4>1, <4>2, SoundWritten
    <3>2. CASE r # q
      <4>1. WriterLoc(r)' = WriterLoc(r)
        BY <1>3, <2>1, <2>3, <3>2 DEF WriterLoc
      <4> QED
        BY <1>4, <1>6, <2>1, <3>2, <4>1, SoundUnmoved DEF StreamInv, Open
    <3> QED
      BY <3>1, <3>2
  <2> QED
    BY <2>4, <2>7 DEF StreamInv
<1>8. CASE ~Open(q) \/ next = End
  <2>1. GoOn(p, Others(p, Tail(thr[p].to)))
    BY <1>0, <1>a, <1>8 DEF SendStruct
  <2>2. PICK to : to = Others(p, Tail(thr[p].to))
    OBVIOUS
  <2>3. to \in Seq(Peers) /\ table \in Tables
    <3>1. Tail(thr[p].to) \in Seq(Peers) /\ table \in Tables
      BY <1>1 DEF Threads, Types, TrackerTypes
    <3> QED
      BY <2>2, <3>1, SendingFacts
  <2>4. /\ SenderInv'
        /\ \A r \in Peers : /\ sent'[r] \in {sent[r], Append(sent[r], table)}
                            /\ ~Open(r) => sent'[r] = sent[r]
                            /\ Open(r) => WriterLoc(r)' = Loc(Len(sent[r]) + 1, Start)
    BY <1>2, <1>4, <2>1, <2>2, <2>3, WriterBegins DEF GoOn, StreamInv
  <2>5. ASSUME NEW r \in Peers PROVE Sound(r)'
    <3>1. CASE r = q /\ Open(q)
      <4>1. Following(sent[q], b) = Loc(Len(sent[q]) + 1, Start)
        BY <1>0, <1>a, <1>5, <1>8, <3>1 DEF Following
      <4>2. /\ OnTable(sent[r], WriterLoc(r)) /\ sent'[r] \in {sent[r], Append(sent[r], table)}
            /\ down'[r] = Append(down[r], Struct(sent[r][b.m], b.at))
            /\ WriterLoc(r)' = Following(sent[r], b) /\ b = WriterLoc(r)
        BY <1>5, <1>6, <2>4, <3>1, <4>1
      <4>3. Sound(r) /\ SameReader(r) /\ Open(r)
        BY <1>4, <3>1 DEF StreamInv
      <4> QED
        BY <1>4, <2>3, <4>2, <4>3, SoundWritten
    <3>2. CASE r # q /\ Open(r)
      <4>1. WriterLoc(r)' = WriterLoc(r) /\ down'[r] = down[r]
        BY <1>3, <1>6, <2>4, <3>2 DEF WriterLoc
      <4>2. Sound(r) /\ SameReader(r)
        BY <1>4 DEF StreamInv
      <4> QED
        BY <1>4, <2>3, <2>4, <3>2, <4>1, <4>2, SoundWritten
    <3>3. CASE ~Open(r)
      BY <1>4, <1>6, <2>4, <3>3, SoundUnmoved DEF StreamInv, Open
    <3> QED
      BY <3>1, <3>2, <3>3
  <2> QED
    BY <2>4, <2>5 DEF StreamInv
<1> QED
  BY <1>7, <1>8

\* The threads keep whom they send to and what; and connections may end.
LEMMA StreamKept ==
  ASSUME Types, StreamInv, UNCHANGED <<lock, sent, down>>,
         \A q \in Peers : /\ thr'[q].to = thr[q].to /\ thr'[q].of = thr[q].of
                          /\ thr'[q].at = thr[q].at
                          /\ SameReader(q)
                          /\ conn[q] = "closed" => conn'[q] = "closed"
                          /\ Open(q)' => Open(q)
  PROVE  StreamInv'
<1>1. \A q \in Peers : Sends(q)' <=> Sends(q)
  BY DEF Sends
<1>2. \A q \in Peers : WriterLoc(q)' = WriterLoc(q)
  <2> SUFFICES ASSUME NEW q \in Peers PROVE WriterLoc(q)' = WriterLoc(q)
    OBVIOUS
  <2>1. Sends(q) => thr'[lock].at = thr[lock].at
    BY DEF Sends
  <2> QED
    BY <1>1, <2>1 DEF WriterLoc
<1>3. SenderInv'
  <2>1. \A h \in Peers : thr'[h].to # <<>> => lock' = h
    BY DEF StreamInv, SenderInv
  <2>2. ASSUME NEW q \in Peers, Sends(q)', Open(q)'
        PROVE  sent'[q] # <<>> /\ sent'[q][Len(sent'[q])] = thr'[lock].of
    <3>1. Sends(q) /\ Open(q) /\ lock \in Peers
      BY <1>1, <2>2 DEF Sends
    <3> QED
      BY <3>1 DEF StreamInv, SenderInv
  <2> QED
    BY <2>1, <2>2 DEF SenderInv
<1>4. ASSUME NEW q \in Peers PROVE Sound(q)'
  BY <1>2, SoundUnmoved DEF StreamInv
<1> QED
  BY <1>3, <1>4 DEF StreamInv

LEMMA StreamRest ==
  ASSUME Types, StreamInv, NEW p \in Peers,
         ReadUpdate(p) \/ Expire(p) \/ Evict(p) \/ Stop \/ OtherReports(p)
  PROVE  StreamInv'
<1>1. UNCHANGED <<lock, sent, down, reader>>
  BY DEF ReadUpdate, Expire, Evict, Stop, OtherReports, tracker
<1>2. \A q \in Peers : SameReader(q)
  BY <1>1 DEF reader, SameReader
<1>3. thr \in [Peers -> Threads] /\ conn \in [Peers -> {"up", "doomed", "closed", "reset"}]
  BY DEF Types, TrackerTypes, WireTypes
<1>4. \A q \in Peers : /\ thr'[q].to = thr[q].to /\ thr'[q].of = thr[q].of
                       /\ thr'[q].at = thr[q].at
  <2>1. CASE UNCHANGED thr
    BY <2>1
  <2>2. CASE ReadUpdate(p) \/ Evict(p)
    <3>1. PICK state : thr' = [thr EXCEPT ![p].pc = state]
      BY <2>2 DEF ReadUpdate, Evict
    <3> QED
      BY <1>3, <3>1 DEF Threads
  <2>3. CASE Stop
    BY <1>3, <2>3 DEF Stop, Threads
  <2> QED
    BY <2>1, <2>2, <2>3 DEF Expire, OtherReports, tracker
<1>5. \A q \in Peers : /\ conn[q] = "closed" => conn'[q] = "closed"
                       /\ Open(q)' => Open(q)
  <2>1. CASE UNCHANGED conn
    BY <2>1 DEF Open
  <2>2. CASE Expire(p) \/ Evict(p)
    BY <1>3, <2>2 DEF Expire, Evict, EndOf, Open
  <2>3. CASE Stop
    BY <1>3, <2>3 DEF Stop, EndOf, Open
  <2> QED
    BY <2>1, <2>2, <2>3 DEF ReadUpdate, OtherReports
<1> QED
  BY <1>1, <1>2, <1>4, <1>5, StreamKept

----------------------------------------------------------------------------
(***************************************************************************)
(* The readers.                                                            *)
(***************************************************************************)
\* A step of the main thread of p leaves the other peers alone.
LEMMA StreamMain ==
  ASSUME Types, StreamInv, NEW p \in Peers, UNCHANGED <<tracker, conn, sent>>, Sound(p)',
         \A q \in Peers : q # p => SameReader(q) /\ down'[q] = down[q]
  PROVE  StreamInv'
<1>1. \A q \in Peers : /\ Sends(q)' <=> Sends(q)
                       /\ Open(q)' <=> Open(q)
                       /\ WriterLoc(q)' = WriterLoc(q)
  BY DEF tracker, Sends, Open, WriterLoc
<1>2. SenderInv'
  BY <1>1 DEF tracker, StreamInv, SenderInv
<1>3. ASSUME NEW q \in Peers, q # p PROVE Sound(q)'
  BY <1>1, <1>3, SoundUnmoved DEF StreamInv
<1> QED
  BY <1>2, <1>3 DEF StreamInv

\* The entries have all been read: main is given the table.
LEMMA AppliedAsSent ==
  ASSUME Types, NEW q \in Peers, AsSent(q), Len(applied[q]) < Len(sent[q]), UNCHANGED sent,
         NEW entries \in Seq(Nat), entries = Reverse(sent[q][Len(applied[q]) + 1]),
         applied'[q] = Append(applied[q], [entries |-> entries, cut |-> FALSE])
  PROVE  AsSent(q)' /\ Len(applied'[q]) = Len(applied[q]) + 1
<1>1. Len(sent[q]) \in Nat /\ Len(applied[q]) \in Nat
  BY DEF Types, WireTypes, ReaderTypes
<1>2. applied[q] \in Seq([entries : Seq(Nat), cut : BOOLEAN])
  BY DEF Types, ReaderTypes
<1>3. /\ Len(applied'[q]) = Len(applied[q]) + 1
      /\ \A i \in 1..Len(applied[q]) : applied'[q][i] = applied[q][i]
      /\ applied'[q][Len(applied[q]) + 1] = [entries |-> entries, cut |-> FALSE]
  BY <1>2
<1>4. ASSUME NEW i \in 1..Len(applied'[q])
      PROVE  ~applied'[q][i].cut /\ applied'[q][i].entries = Reverse(sent'[q][i])
  <2>1. CASE i \in 1..Len(applied[q])
    BY <1>3, <2>1 DEF AsSent
  <2>2. CASE i = Len(applied[q]) + 1
    BY <1>3, <2>2
  <2> QED
    BY <1>1, <1>3, <2>1, <2>2
<1> QED
  BY <1>1, <1>3, <1>4 DEF AsSent

\* Entries that are read last one first are the table reversed.
LEMMA AllRead ==
  ASSUME NEW t \in Seq(Nat), NEW g \in Seq(Nat), ReadSoFar(t, Len(t), g)
  PROVE  g = Reverse(t)
<1>1. Len(t) \in Nat /\ Len(g) = Len(t) /\ \A x \in 1..Len(t) : g[x] = t[Len(t) + 1 - x]
  BY DEF ReadSoFar
<1>2. \A x \in 1..Len(t) : Len(t) + 1 - x = Len(t) - x + 1
  BY <1>1
<1>3. Reverse(t) = [x \in 1..Len(t) |-> t[Len(t) - x + 1]]
  BY DEF Reverse
<1>4. g = [x \in 1..Len(g) |-> g[x]]
  OBVIOUS
<1> QED
  BY <1>1, <1>2, <1>3, <1>4

\* After entry i of t comes the next, or the end.
LEMMA ReaderEntryDone ==
  ASSUME Types, NEW q \in Peers, AsSent(q), UNCHANGED sent,
         NEW m \in 1..Len(sent[q]), m = Len(applied[q]) + 1,
         NEW t \in Seq(Nat), t = sent[q][m], NEW i \in 0..Len(t),
         NEW entries \in Seq(Nat), ReadSoFar(t, i, entries), NEW left \in Nat, left = Len(t) - i,
         EntryDone(q, entries, left, FALSE), files' = [files EXCEPT ![q] = left],
         NEW k, k = IF i < Len(t) THEN Loc(m, Place("entry", i + 1, 0)) ELSE Loc(m + 1, Start)
  PROVE  ReaderAt(q, k)' /\ AsSent(q)' /\ ~cut'[q]
<1>1. Len(t) \in Nat /\ i \in Nat /\ m \in Nat
  OBVIOUS
<1>2. /\ rd \in [Peers -> Kinds \cup {"report"} \cup Ended] /\ got \in [Peers -> Seq(Nat)]
      /\ cut \in [Peers -> BOOLEAN] /\ files \in [Peers -> Nat]
      /\ applied \in [Peers -> Seq([entries : Seq(Nat), cut : BOOLEAN])]
  BY DEF Types, ReaderTypes
<1>3. CASE left = 0
  <2>1. /\ applied'[q] = Append(applied[q], [entries |-> entries, cut |-> FALSE])
        /\ got'[q] = <<>> /\ cut'[q] = FALSE /\ rd'[q] \in {"header", "report"}
    BY <1>2, <1>3 DEF EntryDone, Apply
  <2>2. k = Loc(m + 1, Start) /\ k.m = m + 1 /\ k.at = Start /\ i = Len(t)
    <3>1. i = Len(t) /\ ~(i < Len(t)) /\ m + 1 \in Nat
      BY <1>1, <1>3
    <3>2. k = Loc(m + 1, Start)
      BY <3>1
    <3>3. Start \in Places
      BY StartFacts
    <3>4. k.m = m + 1 /\ k.at = Start
      BY <3>1, <3>2, <3>3, LocFacts
    <3> QED
      BY <3>1, <3>2, <3>4
  <2>3. entries = Reverse(sent[q][Len(applied[q]) + 1])
    BY <2>2, AllRead
  <2>4. Len(applied[q]) < Len(sent[q])
    <3>1. Len(applied[q]) \in Nat
      BY <1>2
    <3>2. Len(sent[q]) \in Nat
      BY TablesFacts
    <3> QED
      BY <3>1, <3>2
  <2>5. AsSent(q)' /\ Len(applied'[q]) = Len(applied[q]) + 1
    BY <2>1, <2>3, <2>4, AppliedAsSent
  <2>6. ReaderAt(q, k)'
    BY <2>1, <2>2, <2>5 DEF ReaderAt
  <2> QED
    BY <2>1, <2>5, <2>6
<1>4. CASE left # 0
  <2>1. /\ UNCHANGED applied /\ got'[q] = entries /\ cut'[q] = FALSE /\ rd'[q] = "entry"
        /\ files'[q] = left
    BY <1>2, <1>4 DEF EntryDone, Expect
  <2>2. k = Loc(m, Place("entry", i + 1, 0)) /\ Place("entry", i + 1, 0) \in Places
    BY <1>1, <1>4 DEF Places, Place, Kinds
  <2>3. k.m = m /\ k.at.kind = "entry" /\ k.at.i = i + 1
    BY <1>1, <2>2, LocFacts DEF Place
  <2>4. /\ files'[q] = Len(sent'[q][k.m]) - k.at.i + 1
        /\ k.at.i - 1 = i /\ sent'[q][k.m] = t
    <3>1. sent'[q][k.m] = t /\ k.at.i = i + 1
      BY <2>3
    <3>2. Len(t) - i = Len(t) - (i + 1) + 1 /\ (i + 1) - 1 = i
      BY <1>1
    <3> QED
      BY <2>1, <3>1, <3>2
  <2>5. ReaderAt(q, k)'
    BY <2>1, <2>3, <2>4 DEF ReaderAt
  <2>6. AsSent(q)'
    BY <2>1 DEF AsSent
  <2> QED
    BY <2>1, <2>5, <2>6
<1> QED
  BY <1>3, <1>4

\* A reader that is at l, and is given the struct there, is at what follows.
LEMMA ReaderStep ==
  ASSUME Types, NEW q \in Peers, AsSent(q), UNCHANGED sent, rd[q] \in Kinds,
         NEW l \in Locs, OnTable(sent[q], l), ReaderAt(q, l),
         NEW n, n = Struct(sent[q][l.m], l.at).n, Received(q, n, FALSE), ~cut[q],
         NEW k, k = Following(sent[q], l)
  PROVE  ReaderAt(q, k)' /\ AsSent(q)' /\ ~cut'[q]
<1>0. PICK m, t, i, j : m = l.m /\ t = sent[q][m] /\ i = l.at.i /\ j = l.at.j
  OBVIOUS
<1>1. /\ m \in 1..Len(sent[q]) /\ m = Len(applied[q]) + 1 /\ t \in Seq(Nat) /\ PlaceIn(t, l.at)
      /\ m \in Nat
  BY <1>0, TablesFacts DEF OnTable, ReaderAt
<1>2. i \in Nat /\ j \in Nat /\ Len(t) \in Nat /\ l.at.kind \in Kinds
  BY <1>0, <1>1 DEF PlaceIn, Places, Kinds
<1>3. /\ rd \in [Peers -> Kinds \cup {"report"} \cup Ended] /\ got \in [Peers -> Seq(Nat)]
      /\ cut \in [Peers -> BOOLEAN] /\ files \in [Peers -> Nat] /\ ips \in [Peers -> Nat]
  BY DEF Types, ReaderTypes
<1>4. k = IF After(t, l.at) = End THEN Loc(m + 1, Start) ELSE Loc(m, After(t, l.at))
  BY <1>0 DEF Following
<1>5. l.at.kind = rd[q]
  BY StartFacts DEF ReaderAt, Kinds
<1>6. ASSUME NEW at \in Places, at = After(t, l.at), at # End
      PROVE  k.m = m /\ k.at = at
  BY <1>1, <1>4, <1>6, LocFacts
<1>7. UNCHANGED applied => AsSent(q)'
  BY DEF AsSent
<1>8. CASE rd[q] = "header"
  <2>1. rd'[q] = "body" /\ got'[q] = <<>> /\ UNCHANGED applied /\ ~cut'[q]
    BY <1>3, <1>8 DEF Received, Expect, ReaderAt
  <2>2. k.m = m /\ k.at = Place("body", 0, 0)
    BY <1>5, <1>6, <1>8 DEF After, Places, Place, Kinds, End
  <2>3. ReaderAt(q, k)'
    BY <1>1, <2>1, <2>2 DEF ReaderAt, Place
  <2> QED
    BY <1>7, <2>1, <2>3
<1>9. CASE rd[q] = "body"
  <2>1. rd'[q] = "table" /\ got'[q] = <<>> /\ UNCHANGED applied /\ ~cut'[q]
    BY <1>3, <1>9 DEF Received, Expect, ReaderAt
  <2>2. k.m = m /\ k.at = Place("table", 0, 0)
    BY <1>5, <1>6, <1>9 DEF After, Places, Place, Kinds, End
  <2>3. ReaderAt(q, k)'
    BY <1>1, <2>1, <2>2 DEF ReaderAt, Place
  <2> QED
    BY <1>7, <2>1, <2>3
<1>10. ASSUME After(t, l.at) = (IF i < Len(t) THEN Place("entry", i + 1, 0) ELSE End)
       PROVE  k = IF i < Len(t) THEN Loc(m, Place("entry", i + 1, 0)) ELSE Loc(m + 1, Start)
  <2>1. Place("entry", i + 1, 0) # End
    BY DEF Place, End
  <2> QED
    BY <1>4, <1>10, <2>1
<1>11. CASE rd[q] = "table"
  <2>1. n = Len(t) /\ After(t, l.at) = (IF i < Len(t) THEN Place("entry", i + 1, 0) ELSE End) /\ i = 0
    BY <1>0, <1>1, <1>5, <1>11 DEF Struct, Part, After, PlaceIn
  <2>2. files' = [files EXCEPT ![q] = n] /\ EntryDone(q, <<>>, n, FALSE)
    BY <1>11 DEF Received
  <2>3. ReadSoFar(t, i, <<>>) /\ <<>> \in Seq(Nat) /\ n \in Nat /\ n = Len(t) - i /\ i \in 0..Len(t)
    BY <1>2, <2>1 DEF ReadSoFar
  <2> QED
    BY <1>0, <1>1, <1>10, <2>1, <2>2, <2>3, ReaderEntryDone
<1>12. CASE rd[q] = "entry"
  <2>1. /\ rd'[q] = "file" /\ ips'[q] = n /\ got'[q] = <<n>> \o got[q] /\ UNCHANGED applied
        /\ ~cut'[q] /\ files'[q] = files[q]
    BY <1>3, <1>12 DEF Received, Expect
  <2>2. n = t[i] /\ n \in Nat /\ i \in 1..Len(t)
    <3>1. l.at.kind = "entry"
      BY <1>5, <1>12
    <3>2. n = t[i]
      BY <1>0, <3>1 DEF Struct, Part
    <3>3. i \in 1..Len(t)
      BY <1>0, <1>1, <3>1 DEF PlaceIn
    <3> QED
      BY <1>1, <3>2, <3>3
  <2>3. k.m = m /\ k.at = Place("file", i, 0)
    BY <1>0, <1>2, <1>5, <1>6, <1>12 DEF After, Places, Place, Kinds, End
  <2>4. files[q] = Len(t) - i + 1 /\ ReadSoFar(t, i - 1, got[q])
    BY <1>0, <1>12 DEF ReaderAt
  <2>5. ReadSoFar(t, i, got'[q])
    <3>1. PICK g \in Seq(Nat) : g = got[q]
      BY <1>3
    <3>2. Len(g) = i - 1 /\ \A x \in 1..(i - 1) : g[x] = t[i - x]
      <4>1. \A x \in 1..(i - 1) : (i - 1) + 1 - x = i - x
        BY <1>2
      <4> QED
        BY <2>4, <3>1, <4>1 DEF ReadSoFar
    <3>3. /\ Len(<<n>> \o g) = i /\ (<<n>> \o g)[1] = n
          /\ \A x \in 2..i : (<<n>> \o g)[x] = g[x - 1]
      BY <1>2, <2>2, <3>1, <3>2
    <3>4. ASSUME NEW x \in 1..i PROVE (<<n>> \o g)[x] = t[i + 1 - x]
      <4>1. CASE x = 1
        BY <1>2, <2>2, <3>3, <4>1
      <4>2. CASE x \in 2..i
        <5>1. x - 1 \in 1..(i - 1) /\ i - (x - 1) = i + 1 - x
          BY <1>2, <4>2
        <5> QED
          BY <3>2, <3>3, <4>2, <5>1
      <4>3. x = 1 \/ x \in 2..i
        BY <1>2
      <4> QED
        BY <4>1, <4>2, <4>3
    <3> QED
      BY <2>1, <3>1, <3>3, <3>4 DEF ReadSoFar
  <2>6. k.at.kind = "file" /\ k.at.i = i /\ sent'[q][k.m] = t
    BY <1>0, <2>3 DEF Place
  <2>7. ReaderAt(q, k)'
    BY <1>1, <2>1, <2>2, <2>3, <2>4, <2>5, <2>6 DEF ReaderAt
  <2> QED
    BY <1>7, <2>1, <2>7
<1>13. ASSUME rd[q] \in {"file", "ip"}
       PROVE  /\ files[q] = Len(t) - i + 1 /\ ReadSoFar(t, i, got[q]) /\ i \in 1..Len(t)
              /\ t[i] \in Nat /\ ips[q] \in Nat /\ files[q] - 1 \in Nat /\ got[q] \in Seq(Nat)
              /\ files[q] - 1 = Len(t) - i
              /\ rd[q] = "file" => ips[q] = t[i] /\ j = 0
              /\ rd[q] = "ip" => ips[q] = t[i] - j + 1 /\ j \in 1..t[i]
  <2>1. files[q] = Len(t) - i + 1 /\ ReadSoFar(t, i, got[q])
        /\ (rd[q] = "file" => ips[q] = t[i]) /\ (rd[q] = "ip" => ips[q] = t[i] - j + 1)
    BY <1>0, <1>13 DEF ReaderAt
  <2>2. i \in 1..Len(t) /\ (rd[q] = "file" => j = 0) /\ (rd[q] = "ip" => j \in 1..t[i])
    BY <1>0, <1>1, <1>5, <1>13 DEF PlaceIn
  <2>3. t[i] \in Nat /\ files[q] \in Nat /\ ips[q] \in Nat /\ got[q] \in Seq(Nat)
    BY <1>1, <1>3, <2>2
  <2>4. files[q] - 1 = Len(t) - i /\ files[q] - 1 \in Nat
    BY <1>2, <2>1, <2>2
  <2> QED
    BY <2>1, <2>2, <2>3, <2>4
<1>14. ASSUME rd[q] \in {"file", "ip"}, j < t[i], rd'[q] = "ip", UNCHANGED applied, ~cut'[q],
              files'[q] = files[q], got'[q] = got[q], ips'[q] = t[i] - j
       PROVE  ReaderAt(q, k)' /\ AsSent(q)' /\ ~cut'[q]
  <2>1. After(t, l.at) = Place("ip", i, j + 1)
    BY <1>0, <1>5, <1>14 DEF After
  <2>2. Place("ip", i, j + 1) \in Places /\ Place("ip", i, j + 1) # End
    BY <1>2 DEF Place, Places, Kinds, End
  <2>3. k.m = m /\ k.at = Place("ip", i, j + 1)
    BY <1>6, <2>1, <2>2
  <2>4. k.at.kind = "ip" /\ k.at.i = i /\ k.at.j = j + 1 /\ sent'[q][k.m] = t
    BY <1>0, <2>3 DEF Place
  <2>5. ips'[q] = t[i] - (j + 1) + 1
    BY <1>2, <1>13, <1>14
  <2>6. ReaderAt(q, k)'
    BY <1>1, <1>13, <1>14, <2>3, <2>4, <2>5 DEF ReaderAt
  <2> QED
    BY <1>7, <1>14, <2>6
<1>15. ASSUME rd[q] \in {"file", "ip"}, ~(j < t[i]), files' = [files EXCEPT ![q] = files[q] - 1],
              EntryDone(q, got[q], files[q] - 1, FALSE)
       PROVE  ReaderAt(q, k)' /\ AsSent(q)' /\ ~cut'[q]
  <2>1. After(t, l.at) = IF i < Len(t) THEN Place("entry", i + 1, 0) ELSE End
    BY <1>0, <1>5, <1>15 DEF After
  <2>2. i \in 0..Len(t)
    BY <1>2, <1>13, <1>15
  <2> QED
    <3>1. PICK left, entries : left = files[q] - 1 /\ entries = got[q]
      OBVIOUS
    <3>2. /\ left \in Nat /\ left = Len(t) - i /\ entries \in Seq(Nat) /\ ReadSoFar(t, i, entries)
          /\ files' = [files EXCEPT ![q] = left] /\ EntryDone(q, entries, left, FALSE)
      BY <1>13, <1>15, <3>1
    <3>3. k = IF i < Len(t) THEN Loc(m, Place("entry", i + 1, 0)) ELSE Loc(m + 1, Start)
      BY <1>10, <2>1
    <3> QED
      BY <1>0, <1>1, <2>2, <3>2, <3>3, ReaderEntryDone
<1>16. CASE rd[q] = "file" /\ ips[q] > 0
  <2>1. ips[q] # 0 /\ ips[q] = t[i] /\ j = 0 /\ t[i] \in Nat
    BY <1>13, <1>16
  <2>2. /\ rd'[q] = "ip" /\ UNCHANGED applied /\ ~cut'[q]
        /\ files'[q] = files[q] /\ got'[q] = got[q] /\ ips'[q] = ips[q]
    BY <1>3, <1>16, <2>1 DEF Received, Expect
  <2>3. j < t[i] /\ ips'[q] = t[i] - j
    BY <1>16, <2>1, <2>2
  <2> QED
    BY <1>14, <1>16, <2>2, <2>3
<1>17. CASE rd[q] = "file" /\ ips[q] = 0
  <2>1. files' = [files EXCEPT ![q] = files[q] - 1] /\ EntryDone(q, got[q], files[q] - 1, FALSE)
    <3>1. ~(ips[q] > 0)
      BY <1>17
    <3> QED
      BY <1>17, <3>1 DEF Received
  <2>2. ~(j < t[i])
    BY <1>13, <1>17
  <2> QED
    BY <1>15, <1>17, <2>1, <2>2
<1>18. CASE rd[q] = "ip" /\ ips[q] > 1
  <2>1. /\ rd'[q] = "ip" /\ UNCHANGED applied /\ ~cut'[q]
        /\ files'[q] = files[q] /\ got'[q] = got[q] /\ ips'[q] = ips[q] - 1
    BY <1>3, <1>18 DEF Received, Expect
  <2>2. j < t[i] /\ ips'[q] = t[i] - j
    BY <1>2, <1>13, <1>18, <2>1
  <2> QED
    BY <1>14, <1>18, <2>1, <2>2
<1>19. CASE rd[q] = "ip" /\ ~(ips[q] > 1)
  <2>1. files' = [files EXCEPT ![q] = files[q] - 1] /\ EntryDone(q, got[q], files[q] - 1, FALSE)
    BY <1>19 DEF Received
  <2>2. ~(j < t[i])
    BY <1>2, <1>13, <1>19
  <2> QED
    BY <1>15, <1>19, <2>1, <2>2
<1>20. rd[q] = "file" => ips[q] > 0 \/ ips[q] = 0
  BY <1>13
<1> QED
  BY <1>8, <1>9, <1>11, <1>12, <1>16, <1>17, <1>18, <1>19, <1>20 DEF Kinds

\* A recv that returns 0 inside a table: the next struct is expected, or the table is
\* complete.
LEMMA ZeroStep ==
  ASSUME Types, NEW q \in Peers, rd[q] \in Kinds \ {"header"}, Received(q, 0, TRUE)
  PROVE  \/ rd'[q] \in Kinds \ {"header"} /\ applied'[q] = applied[q]
         \/ /\ rd'[q] \in {"header", "report"}
            /\ \E entries \in Seq(Nat) :
                 applied'[q] = Append(applied[q], [entries |-> entries, cut |-> TRUE])
<1>1. /\ rd \in [Peers -> Kinds \cup {"report"} \cup Ended] /\ got[q] \in Seq(Nat) /\ ips[q] \in Nat
      /\ applied \in [Peers -> Seq([entries : Seq(Nat), cut : BOOLEAN])]
  BY DEF Types, ReaderTypes
<1>2. ASSUME NEW entries \in Seq(Nat), NEW left, EntryDone(q, entries, left, TRUE)
      PROVE  \/ rd'[q] \in Kinds \ {"header"} /\ applied'[q] = applied[q]
             \/ /\ rd'[q] \in {"header", "report"}
                /\ applied'[q] = Append(applied[q], [entries |-> entries, cut |-> TRUE])
  <2>1. CASE left = 0
    BY <1>1, <1>2, <2>1 DEF EntryDone, Apply
  <2>2. CASE left # 0
    BY <1>1, <1>2, <2>2 DEF EntryDone, Expect, Kinds
  <2> QED
    BY <2>1, <2>2
<1>3. ASSUME NEW kind \in Kinds \ {"header"}, Expect(q, kind)
      PROVE  rd'[q] \in Kinds \ {"header"} /\ applied'[q] = applied[q]
  BY <1>1, <1>3 DEF Expect
<1>4. CASE rd[q] = "body"
  BY <1>3, <1>4 DEF Received, Kinds
<1>5. CASE rd[q] = "table"
  <2>1. EntryDone(q, <<>>, 0, TRUE)
    BY <1>5 DEF Received
  <2>2. <<>> \in Seq(Nat)
    OBVIOUS
  <2> QED
    BY <1>2, <2>1, <2>2
<1>6. CASE rd[q] = "entry"
  BY <1>3, <1>6 DEF Received, Kinds
<1>7. CASE rd[q] \in {"file", "ip"}
  <2>1. Expect(q, "ip") \/ EntryDone(q, got[q], files[q] - 1, TRUE)
    <3>1. ips[q] = 0 \/ ips[q] > 0
      BY <1>1
    <3>2. CASE rd[q] = "file" /\ ips[q] = 0
      <4>1. ~(ips[q] > 0)
        BY <3>2
      <4> QED
        BY <3>2, <4>1 DEF Received
    <3>3. CASE rd[q] = "file" /\ ips[q] > 0
      <4>1. ips[q] # 0
        BY <3>3
      <4> QED
        BY <3>3, <4>1 DEF Received
    <3>4. CASE rd[q] = "ip"
      BY <3>4 DEF Received
    <3> QED
      BY <1>7, <3>1, <3>2, <3>3, <3>4
  <2> QED
    BY <1>1, <1>2, <1>3, <2>1 DEF Kinds
<1> QED
  BY <1>4, <1>5, <1>6, <1>7 DEF Kinds

\* Reading zeros ends with a table that is marked as cut.
LEMMA ZeroSound ==
  ASSUME Types, NEW q \in Peers, ReadsZeros(q), Received(q, 0, TRUE), UNCHANGED <<sent, down, conn>>
  PROVE  Sound(q)'
<1>1. Len(sent[q]) \in Nat /\ Len(applied[q]) \in Nat
      /\ applied[q] \in Seq([entries : Seq(Nat), cut : BOOLEAN])
  BY DEF Types, WireTypes, ReaderTypes
<1>2. CASE rd'[q] \in Kinds \ {"header"} /\ applied'[q] = applied[q]
  <2>1. AsSent(q)'
    BY <1>2 DEF AsSent, ReadsZeros
  <2> QED
    BY <1>2, <2>1 DEF ReadsZeros, Sound
<1>3. ASSUME rd'[q] \in {"header", "report"}, NEW entries \in Seq(Nat),
             applied'[q] = Append(applied[q], [entries |-> entries, cut |-> TRUE])
      PROVE  WasCut(q)'
  <2>1. PICK n : n = Len(applied'[q])
    OBVIOUS
  <2>2. /\ n = Len(applied[q]) + 1 /\ applied'[q][n].cut
        /\ \A i \in 1..Len(applied[q]) : applied'[q][i] = applied[q][i]
    BY <1>1, <1>3, <2>1
  <2>3. n \in 1..Len(sent[q]) /\ 1..(n - 1) = 1..Len(applied[q])
    BY <1>1, <2>2 DEF ReadsZeros
  <2>4. \A i \in 1..(n - 1) : /\ ~applied'[q][i].cut
                              /\ applied'[q][i].entries = Reverse(sent'[q][i])
    BY <2>2, <2>3 DEF ReadsZeros, AsSent
  <2> QED
    BY <1>3, <2>1, <2>2, <2>3, <2>4 DEF WasCut, ReadsZeros
<1> QED
  BY <1>2, <1>3, ZeroStep DEF ReadsZeros, Sound

\* What the other peers see of a step of p.
LEMMA MainFrame ==
  ASSUME Types, NEW p \in Peers,
         \/ \E n \in Nat, wasCut \in BOOLEAN : rd[p] \in Kinds /\ Received(p, n, wasCut)
         \/ \E how : Ends(p, how)
  PROVE  \A q \in Peers : q # p => SameReader(q)
<1>1. /\ rd \in [Peers -> Kinds \cup {"report"} \cup Ended] /\ got \in [Peers -> Seq(Nat)]
      /\ cut \in [Peers -> BOOLEAN] /\ files \in [Peers -> Nat] /\ ips \in [Peers -> Nat]
      /\ applied \in [Peers -> Seq([entries : Seq(Nat), cut : BOOLEAN])]
  BY DEF Types, ReaderTypes
<1>2. CASE \E how : Ends(p, how)
  BY <1>1, <1>2 DEF Ends, SameReader
<1>3. ASSUME NEW n \in Nat, NEW wasCut \in BOOLEAN, rd[p] \in Kinds, Received(p, n, wasCut)
      PROVE  \A q \in Peers : q # p => SameReader(q)
  <2>1. ASSUME NEW entries, NEW left, EntryDone(p, entries, left, wasCut), NEW q \in Peers, q # p
        PROVE  /\ rd'[q] = rd[q] /\ got'[q] = got[q] /\ cut'[q] = cut[q] /\ applied'[q] = applied[q]
    <3>1. CASE left = 0
      BY <1>1, <2>1, <3>1 DEF EntryDone, Apply
    <3>2. CASE left # 0
      BY <1>1, <2>1, <3>2 DEF EntryDone, Expect
    <3> QED
      BY <3>1, <3>2
  <2>2. CASE rd[p] \in {"header", "body", "entry"}
    BY <1>1, <1>3, <2>2 DEF Received, Expect, SameReader
  <2>3. CASE rd[p] = "table"
    <3>1. files' = [files EXCEPT ![p] = n] /\ EntryDone(p, <<>>, n, wasCut) /\ UNCHANGED ips
      BY <1>3, <2>3 DEF Received
    <3> QED
      BY <1>1, <2>1, <3>1 DEF SameReader
  <2>4. CASE rd[p] = "file" /\ ips[p] > 0
    <3>1. ips[p] # 0
      BY <1>1, <2>4
    <3> QED
      BY <1>1, <1>3, <2>4, <3>1 DEF Received, Expect, SameReader
  <2>5. CASE rd[p] = "file" /\ ips[p] = 0
    <3>1. ~(ips[p] > 0)
      BY <2>5
    <3>2. /\ files' = [files EXCEPT ![p] = files[p] - 1]
          /\ EntryDone(p, got[p], files[p] - 1, wasCut) /\ UNCHANGED ips
      BY <1>3, <2>5, <3>1 DEF Received
    <3> QED
      BY <1>1, <2>1, <3>2 DEF SameReader
  <2>6. CASE rd[p] = "ip"
    <3>1. CASE ips[p] > 1
      BY <1>1, <1>3, <2>6, <3>1 DEF Received, Expect, SameReader
    <3>2. CASE ~(ips[p] > 1)
      <4>1. /\ files' = [files EXCEPT ![p] = files[p] - 1] /\ ips' = [ips EXCEPT ![p] = ips[p] - 1]
            /\ EntryDone(p, got[p], files[p] - 1, wasCut)
        BY <1>3, <2>6, <3>2 DEF Received
      <4> QED
        BY <1>1, <2>1, <4>1 DEF SameReader
    <3> QED
      BY <3>1, <3>2
  <2>7. ips[p] > 0 \/ ips[p] = 0
    BY <1>1
  <2> QED
    BY <1>3, <2>2, <2>3, <2>4, <2>5, <2>6, <2>7 DEF Kinds
<1> QED
  BY <1>2, <1>3

LEMMA StreamReceive == ASSUME Types, StreamInv, NEW p \in Peers, Receive(p) PROVE StreamInv'
<1>1. /\ rd[p] \in Kinds /\ down[p] # <<>> /\ down' = [down EXCEPT ![p] = Tail(@)]
      /\ UNCHANGED <<tracker, up, conn, sent>>
  BY DEF Receive
<1>2. down[p] \in Seq(Structs) /\ sent[p] \in Seq(Seq(Nat)) /\ down'[p] = Tail(down[p])
  BY <1>1, TablesFacts DEF Types, WireTypes
<1>3. \A q \in Peers : q # p => SameReader(q) /\ down'[q] = down[q]
  <2>1. Head(down[p]) \in Structs /\ Head(down[p]).n \in Nat /\ cut[p] \in BOOLEAN
    <3>1. cut[p] \in BOOLEAN
      BY DEF Types, ReaderTypes
    <3>2. Head(down[p]) \in Structs
      BY <1>1, <1>2
    <3> QED
      BY <3>1, <3>2 DEF Structs
  <2>2. \A q \in Peers : q # p => SameReader(q)
    BY <1>1, <2>1, MainFrame DEF Receive
  <2> QED
    BY <1>1, <2>2 DEF Types, WireTypes
<1>4. InStep(p)
  <2>1. rd[p] \notin Ended
    BY <1>1 DEF Kinds, Ended
  <2> QED
    BY <1>1, <2>1 DEF StreamInv, Sound, ReadsZeros, WasCut, HasEnded
<1>5. PICK a, b \in Locs : /\ Streams(sent[p], down[p], a, b) /\ ReaderAt(p, a)
                           /\ Open(p) => b = WriterLoc(p)
  BY <1>4 DEF InStep
<1>6. /\ OnTable(sent[p], a) /\ Head(down[p]) = Struct(sent[p][a.m], a.at)
      /\ Streams(sent[p], Tail(down[p]), Following(sent[p], a), b)
  BY <1>1, <1>2, <1>5, StreamsReceive
<1>7. rd[p] = "header" => Head(down[p]).kind = "header"
  <2>1. rd[p] = "header" => a.at.kind = "header"
    BY <1>5, StartFacts DEF ReaderAt
  <2> QED
    BY <1>6, <2>1 DEF Struct, Part
<1>8. PICK n, k : n = Struct(sent[p][a.m], a.at).n /\ k = Following(sent[p], a)
  OBVIOUS
<1>9. Received(p, n, FALSE)
  <2>1. Received(p, Head(down[p]).n, cut[p])
    BY <1>7 DEF Receive
  <2>2. cut[p] = FALSE
    BY <1>4 DEF InStep, Types, ReaderTypes
  <2> QED
    BY <1>6, <1>8, <2>1, <2>2
<1>10. ReaderAt(p, k)' /\ AsSent(p)' /\ ~cut'[p]
  BY <1>1, <1>4, <1>5, <1>6, <1>8, <1>9, ReaderStep DEF InStep
<1>11. k \in Locs
  BY <1>2, <1>6, <1>8, FollowingWithin
<1>12. Open(p)' => b = WriterLoc(p)'
  BY <1>1, <1>5 DEF tracker, Open, WriterLoc, Sends
<1>13. Streams(sent'[p], down'[p], k, b)
  BY <1>1, <1>2, <1>6, <1>8
<1>14. Sound(p)'
  BY <1>10, <1>11, <1>12, <1>13 DEF Sound, InStep
<1> QED
  BY <1>1, <1>3, <1>14, StreamMain

LEMMA StreamReceiveNothing ==
  ASSUME Types, StreamInv, NEW p \in Peers, ReceiveNothing(p)
  PROVE  StreamInv'
<1>1. /\ rd[p] \in Kinds /\ down[p] = <<>> /\ conn[p] = "closed"
      /\ UNCHANGED <<tracker, up, down, conn, sent>>
  BY DEF ReceiveNothing
<1>2. \A q \in Peers : q # p => SameReader(q) /\ down'[q] = down[q]
  BY <1>1, MainFrame DEF ReceiveNothing
<1>3. rd[p] \notin Ended /\ rd[p] # "report"
  BY <1>1 DEF Kinds, Ended
<1>4. CASE rd[p] = "header"
  <2>1. rd'[p] = "finished" /\ UNCHANGED applied
    BY <1>4 DEF ReceiveNothing, Ends, Types, ReaderTypes
  <2>2. AsSent(p) => AsSent(p)'
    BY <1>1, <2>1 DEF AsSent
  <2>3. WasCut(p) => WasCut(p)'
    BY <1>1, <2>1 DEF WasCut, Ended
  <2>4. AsSent(p) \/ WasCut(p)
    BY DEF StreamInv, Sound, InStep, ReadsZeros, HasEnded
  <2>5. Sound(p)'
    BY <2>1, <2>2, <2>3, <2>4 DEF Sound, HasEnded, Ended
  <2> QED
    BY <1>1, <1>2, <2>5, StreamMain
<1>5. CASE rd[p] # "header"
  <2>1. ReadsZeros(p)
    <3>1. CASE InStep(p)
      <4>1. PICK a, b \in Locs : Streams(sent[p], down[p], a, b) /\ ReaderAt(p, a)
        BY <3>1 DEF InStep
      <4>2. Within(sent[p], a)
        BY <4>1, StreamsEnds, TablesFacts
      <4>3. a.at # Start
        BY <1>3, <1>5, <4>1, StartFacts DEF ReaderAt
      <4>4. a.m \in 1..Len(sent[p]) /\ a.m = Len(applied[p]) + 1
        <5>1. Len(sent[p]) + 1 \in Nat
          BY TablesFacts
        <5>2. a # Loc(Len(sent[p]) + 1, Start)
          BY <4>3, <5>1, LocFacts, StartFacts
        <5> QED
          BY <4>1, <4>2, <5>2 DEF Within, OnTable, ReaderAt
      <4>5. Len(applied[p]) < Len(sent[p])
        <5>1. Len(sent[p]) \in Nat /\ Len(applied[p]) \in Nat
          BY DEF Types, WireTypes, ReaderTypes
        <5> QED
          BY <4>4, <5>1
      <4> QED
        BY <1>1, <1>5, <3>1, <4>5 DEF InStep, ReadsZeros
    <3> QED
      BY <1>3, <1>5, <3>1 DEF StreamInv, Sound, WasCut, HasEnded
  <2>2. Received(p, 0, TRUE)
    BY <1>5 DEF ReceiveNothing
  <2>3. Sound(p)'
    BY <1>1, <2>1, <2>2, ZeroSound
  <2> QED
    BY <1>1, <1>2, <2>3, StreamMain
<1> QED
  BY <1>4, <1>5

LEMMA StreamReceiveError ==
  ASSUME Types, StreamInv, NEW p \in Peers, ReceiveError(p)
  PROVE  StreamInv'
<1>1. /\ rd[p] \in Kinds /\ conn[p] = "reset"
      /\ UNCHANGED <<tracker, up, down, conn, sent>>
  BY DEF ReceiveError
<1>2. \A q \in Peers : q # p => SameReader(q) /\ down'[q] = down[q]
  BY <1>1, MainFrame DEF ReceiveError
<1>3. rd'[p] \in Ended /\ UNCHANGED applied
  BY DEF ReceiveError, Ends, Ended, Types, ReaderTypes
<1>4. AsSent(p)
  BY <1>1 DEF StreamInv, Sound, InStep, ReadsZeros, WasCut, HasEnded
<1>5. Sound(p)'
  BY <1>1, <1>3, <1>4 DEF AsSent, HasEnded, Sound
<1> QED
  BY <1>1, <1>2, <1>5, StreamMain

LEMMA StreamMainReports ==
  ASSUME Types, StreamInv, NEW p \in Peers, MainReports(p)
  PROVE  StreamInv'
<1>1. /\ rd[p] = "report" /\ rd' = [rd EXCEPT ![p] = "header"]
      /\ UNCHANGED <<tracker, down, conn, files, ips, got, cut, applied, reports, sent>>
  BY DEF MainReports
<1>2. rd'[p] = "header" /\ \A q \in Peers : q # p => rd'[q] = rd[q]
  BY <1>1 DEF Types, ReaderTypes
<1>3. \A q \in Peers : q # p => SameReader(q) /\ down'[q] = down[q]
  BY <1>1, <1>2 DEF SameReader
<1>4. AsSent(p) => AsSent(p)'
  BY <1>1 DEF AsSent
<1>5. rd[p] \notin Ended /\ rd[p] \notin Kinds
  BY <1>1 DEF Ended, Kinds
<1>6. CASE InStep(p)
  <2>1. PICK a, b \in Locs : /\ Streams(sent[p], down[p], a, b) /\ ReaderAt(p, a)
                             /\ Open(p) => b = WriterLoc(p)
    BY <1>6 DEF InStep
  <2>2. ReaderAt(p, a)'
    BY <1>1, <1>2, <2>1 DEF ReaderAt
  <2>3. Open(p)' => b = WriterLoc(p)'
    BY <1>1, <2>1 DEF tracker, Open, WriterLoc, Sends
  <2>4. Streams(sent'[p], down'[p], a, b)
    BY <1>1, <2>1
  <2>5. Sound(p)'
    BY <1>1, <1>4, <1>6, <2>2, <2>3, <2>4 DEF Sound, InStep
  <2> QED
    BY <1>1, <1>3, <2>5, StreamMain
<1>7. CASE WasCut(p)
  <2>1. Sound(p)'
    BY <1>1, <1>2, <1>7 DEF Sound, WasCut
  <2> QED
    BY <1>1, <1>3, <2>1, StreamMain
<1> QED
  BY <1>5, <1>6, <1>7 DEF StreamInv, Sound, ReadsZeros, HasEnded

LEMMA StreamNext == Types /\ StreamInv /\ [Next]_vars => StreamInv'
<1> SUFFICES ASSUME Types, StreamInv, [Next]_vars PROVE StreamInv'
  OBVIOUS
<1>1. CASE UNCHANGED vars
  <2>1. UNCHANGED <<lock, sent, down, thr, conn>> /\ \A q \in Peers : SameReader(q)
    BY <1>1 DEF vars, tracker, reader, SameReader
  <2>2. \A q \in Peers : Open(q)' => Open(q)
    BY <2>1 DEF Open
  <2> QED
    BY <2>1, <2>2, StreamKept
<1>2. CASE Stop
  <2>1. \E p \in Peers : TRUE
    BY <1>2 DEF Stop
  <2> QED
    BY <1>2, <2>1, StreamRest
<1>3. ASSUME NEW p \in Peers, Thread(p) \/ Main(p) \/ OtherReports(p) \/ Expire(p) \/ Evict(p)
      PROVE  StreamInv'
  <2>1. CASE Thread(p)
    BY <2>1, StreamMerge, StreamSendStruct, StreamRest DEF Thread
  <2>2. CASE Main(p)
    BY <2>2, StreamReceive, StreamReceiveNothing, StreamReceiveError, StreamMainReports DEF Main
  <2> QED
    BY <1>3, <2>1, <2>2, StreamRest
<1> QED
  BY <1>1, <1>2, <1>3 DEF Next

\* What main is given are the tables that were sent, in order and with their entries
\* reversed; only the last can be another, when recv returned 0 in it.
THEOREM StreamsCorrect == Spec => []TablesAsSent
<1>1. Init => Types /\ StreamInv
  BY TypesInit, StreamInvInit
<1>2. Types /\ StreamInv /\ [Next]_vars => (Types /\ StreamInv)'
  BY TypesNext, StreamNext
<1>3. Types /\ StreamInv => TablesAsSent
  BY StreamInvImplies
<1> QED
  BY <1>1, <1>2, <1>3, PTL DEF Spec

----------------------------------------------------------------------------
(***************************************************************************)
(* Heartbeat: how long a peer has been silent.                             *)
(***************************************************************************)
Registered == {"registered", "beating", "dead"}

(***************************************************************************)
(* The whole seconds that last_timestamp is old, and those the monitor saw *)
(* when it read the time, are no more than have passed: all but the first  *)
(* of them were whole, and the first had begun.                            *)
(***************************************************************************)
Clocks ==
  /\ phase \in Nat /\ phase < Second
  /\ age \in Nat /\ waited \in Nat /\ judged \in Nat

SilenceBound ==
  pc \in Registered =>
    /\ judged <= age
    /\ age > 0 => waited >= (age - 1) * Second + phase + 1

SilenceInv == Clocks /\ SilenceBound
-----------------------------------------------------------------------------
LEMMA ConstantsType == INTERVAL \in Nat \ {0} /\ Second \in Nat \ {0} /\ Ever \in Nat
  BY HeartbeatAssumption DEF Ever

\* A second ends, or goes on.
LEMMA NextPhase ==
  ASSUME NEW p \in Nat, p < Second
  PROVE  \/ p + 1 < Second /\ (p + 1) % Second = p + 1
         \/ p + 1 = Second /\ (p + 1) % Second = 0
  BY ConstantsType

\* More whole seconds are at least as many ticks.
LEMMA TimesMonotone ==
  ASSUME NEW a \in Nat, NEW b \in Nat, a <= b
  PROVE  a * Second <= b * Second
  BY ConstantsType

LEMMA OneMore ==
  ASSUME NEW a \in Nat, a > 0
  PROVE  a * Second = (a - 1) * Second + Second
  BY ConstantsType

LEMMA SilenceInit == HeartbeatInit => SilenceInv
  BY ConstantsType DEF HeartbeatInit, SilenceInv, Clocks, SilenceBound, Registered, Asleep

LEMMA SilenceNext == SilenceInv /\ [HeartbeatNext]_heartbeatVars => SilenceInv'
<1> SUFFICES ASSUME SilenceInv, [HeartbeatNext]_heartbeatVars PROVE SilenceInv'
  OBVIOUS
<1> USE DEF SilenceInv, Clocks, SilenceBound, Registered
<1>1. CASE Tick
  <2>1. \/ phase + 1 < Second /\ phase' = phase + 1
        \/ phase + 1 = Second /\ phase' = 0
    BY <1>1, NextPhase DEF Tick
  <2>2. pc \in Registered => pc # "gone"
    OBVIOUS
  <2>3. waited' \in Nat /\ (pc \in Registered => waited' = waited + 1)
    BY <1>1 DEF Tick
  <2>4. age' \in Nat /\ age' \in {age, age + 1} /\ (age' = age + 1 => phase' = 0)
    BY <1>1 DEF Tick
  <2>5. Clocks'
    BY <1>1, <2>1, <2>3, <2>4, ConstantsType DEF Tick
  <2>6. ASSUME pc \in Registered, age' > 0
        PROVE  waited' >= (age' - 1) * Second + phase' + 1
    <3>1. CASE age' = age
      <4> DEFINE n == (age - 1) * Second
      <4>1. n \in Nat /\ waited >= n + phase + 1 /\ phase' <= phase + 1
        BY <2>1, <2>6, <3>1, ConstantsType
      <4> HIDE DEF n, SilenceBound
      <4>2. waited' >= n + phase' + 1
        BY <2>1, <2>3, <2>6, <4>1
      <4> QED
        BY <3>1, <4>2 DEF n
    <3>2. CASE age' = age + 1 /\ age > 0
      <4> DEFINE n == (age - 1) * Second
      <4>1. n \in Nat /\ waited >= n + phase + 1 /\ phase + 1 = Second /\ phase' = 0
        BY <2>1, <2>4, <2>6, <3>2, ConstantsType
      <4>2. age * Second = n + Second
        BY <3>2, OneMore
      <4> HIDE DEF n
      <4>3. waited' >= age * Second + 1
        BY <2>3, <2>6, <4>1, <4>2, ConstantsType
      <4>4. (age' - 1) * Second = age * Second
        BY <3>2
      <4> QED
        BY <4>1, <4>3, <4>4
    <3>3. CASE age' = age + 1 /\ age = 0
      <4>1. (age' - 1) * Second = 0 /\ phase' = 0 /\ waited' >= 1
        BY <2>3, <2>4, <2>6, <3>3, ConstantsType
      <4> QED
        BY <4>1
    <3> QED
      BY <2>4, <3>1, <3>2, <3>3
  <2>7. pc \in Registered => judged <= age'
    BY <2>4
  <2> QED
    BY <1>1, <2>5, <2>6, <2>7 DEF Tick
<1>2. CASE Connect
  BY <1>2, ConstantsType DEF Connect
<1>3. CASE Register
  BY <1>3 DEF Register, Heard
<1>4. CASE StartHeartbeat
  BY <1>4 DEF StartHeartbeat, clock, monitor
<1>5. CASE SendKeepAlive
  BY <1>5 DEF SendKeepAlive, clock, monitor
<1>6. CASE SendFileUpdate
  BY <1>6 DEF SendFileUpdate, clock, monitor
<1>7. CASE Die
  BY <1>7 DEF Die, clock, monitor
<1>8. CASE ReceiveMessage
  BY <1>8 DEF ReceiveMessage, Heard
<1>9. CASE Wake
  BY <1>9 DEF Wake, clock, peer
<1>10. CASE Judge
  BY <1>10, ConstantsType DEF Judge, clock
<1>11. CASE UNCHANGED heartbeatVars
  BY <1>11 DEF heartbeatVars, clock, monitor, peer
<1> QED
  BY <1>1, <1>2, <1>3, <1>4, <1>5, <1>6, <1>7, <1>8, <1>9, <1>10, <1>11 DEF HeartbeatNext

LEMMA SilenceAlways == HeartbeatSpec => []SilenceInv
  BY SilenceInit, SilenceNext, PTL DEF HeartbeatSpec

(***************************************************************************)
(* A registered peer is evicted only after more than INTERVAL seconds of   *)
(* silence, whatever the delays: neither the whole seconds of time() nor   *)
(* an old time_now (tracker.c:285-294) make the silence look longer.       *)
(***************************************************************************)
THEOREM EvictionHasCause == HeartbeatSpec => EvictedForCause
<1>1. SilenceInv /\ [HeartbeatNext]_heartbeatVars => [Evicted => waited > Interval]_heartbeatVars
  <2> SUFFICES ASSUME SilenceInv, HeartbeatNext, Evicted PROVE waited > Interval
    BY DEF heartbeatVars, peer, clock, monitor, Evicted
  <2>1. Judge
    BY DEF HeartbeatNext, Evicted, Tick, Connect, Register, StartHeartbeat, SendKeepAlive,
           SendFileUpdate, Die, ReceiveMessage, Wake, peer
  <2>2. judged > INTERVAL
    BY <2>1 DEF Judge, Evicted
  <2>3. INTERVAL <= age - 1 /\ age - 1 \in Nat /\ age > 0
    BY <2>2, ConstantsType DEF SilenceInv, Clocks, SilenceBound, Evicted, Registered
  <2>4. INTERVAL * Second <= (age - 1) * Second
    BY <2>3, TimesMonotone, ConstantsType
  <2>5. waited >= (age - 1) * Second + phase + 1
    BY <2>3 DEF SilenceInv, Clocks, SilenceBound, Evicted, Registered
  <2>6. INTERVAL * Second \in Nat /\ (age - 1) * Second \in Nat /\ phase \in Nat /\ waited \in Nat
    BY <2>3, ConstantsType DEF SilenceInv, Clocks
  <2> QED
    BY <2>4, <2>5, <2>6 DEF Interval
<1> QED
  BY <1>1, SilenceAlways, PTL DEF HeartbeatSpec, EvictedForCause
-----------------------------------------------------------------------------
(***************************************************************************)
(* The other direction.  Visit: whoever is listed is visited again before  *)
(* Longest is over.  To carry this over a visit that lets the peer be, one *)
(* needs to know that it was heard of lately (Recent).  Beats: the last    *)
(* heartbeat has been read, or it is on its way and the one before was     *)
(* read.                                                                   *)
(***************************************************************************)
Ranges ==
  /\ beat \in Nat /\ beat <= Interval
  /\ wire \in Seq(Nat) /\ \A i \in DOMAIN wire : wire[i] <= MaxDelay
  /\ pc \in {"gone", "accepted"} => Len(wire) = 0
  /\ nap \in Nat /\ nap <= Sleep
  /\ lag \in Int /\ lag >= -1 /\ lag <= MaxLag

Remaining == IF lag = Asleep THEN nap + MaxLag ELSE MaxLag - lag

Visit ==
  /\ pc = "gone" => waited = 0
  /\ pc # "gone" => waited + Remaining <= Longest

Recent ==
  /\ pc = "accepted" => age = Ever /\ (lag # Asleep => judged = Ever)
  /\ pc # "gone" /\ age # Ever => waited <= age * Second + phase
  /\ pc # "gone" /\ lag # Asleep /\ judged <= INTERVAL =>
       waited <= judged * Second + Second - 1 + lag

Beats ==
  /\ pc = "registered" => waited <= MaxDelay
  /\ pc = "beating" =>
       \/ waited <= (Interval - beat) + MaxDelay
       \/ /\ waited <= Interval + MaxDelay + (Interval - beat)
          /\ \E i \in DOMAIN wire : wire[i] = Interval - beat

HeardInv == Clocks /\ Ranges /\ Visit /\ Recent /\ Beats
-----------------------------------------------------------------------------
LEMMA DurationsType ==
  /\ Interval \in Nat /\ Sleep \in Nat /\ MaxDelay \in Nat /\ MaxLag \in Nat
  /\ MaxDelay < Interval /\ Ever > INTERVAL
  /\ Longest = Interval + Second - 1 + Sleep + 2 * MaxLag
  BY HeartbeatAssumption DEF Interval, Sleep, Longest, Ever

LEMMA HeardInit == HeartbeatInit => HeardInv
  BY ConstantsType, DurationsType
     DEF HeartbeatInit, HeardInv, Clocks, Ranges, Visit, Recent, Beats, Asleep

\* A tick takes as much from what remains as it adds to what has been waited.
LEMMA HeardTick == HeardInv /\ Tick => HeardInv'
<1> SUFFICES ASSUME HeardInv, Tick PROVE HeardInv'
  OBVIOUS
<1> USE ConstantsType, DurationsType
<1>1. \/ phase + 1 < Second /\ phase' = phase + 1
      \/ phase + 1 = Second /\ phase' = 0
  BY NextPhase DEF Tick, HeardInv, Clocks
<1>2. Clocks'
  BY <1>1 DEF Tick, HeardInv, Clocks
<1>3. Ranges'
  BY DEF Tick, InTime, HeardInv, Ranges, Asleep, Clocks
<1>4. Visit'
  BY DEF Tick, InTime, HeardInv, Ranges, Visit, Remaining, Asleep, Clocks
<1>5. Recent'
  <2>1. (pc = "accepted" => age = Ever /\ (lag # Asleep => judged = Ever))'
    BY DEF Tick, HeardInv, Recent, Asleep, Ranges
  <2>2. ASSUME pc # "gone", age' # Ever
        PROVE  waited' <= age' * Second + phase'
    <3>1. age # Ever /\ waited <= age * Second + phase /\ waited' = waited + 1
      BY <2>2 DEF Tick, HeardInv, Recent
    <3>2. age' = IF phase' = 0 THEN age + 1 ELSE age
      BY <3>1 DEF Tick
    <3>3. age \in Nat /\ age * Second \in Nat
      BY DEF HeardInv, Clocks
    <3>4. (age + 1) * Second = age * Second + Second
      BY <3>3
    <3>5. phase \in Nat /\ waited \in Nat
      BY DEF HeardInv, Clocks
    <3>6. CASE phase + 1 < Second /\ phase' = phase + 1
      <4>1. age' = age
        BY <3>2, <3>5, <3>6
      <4> QED
        BY <3>1, <3>3, <3>5, <3>6, <4>1
    <3>7. CASE phase + 1 = Second /\ phase' = 0
      <4>1. age' * Second = age * Second + Second
        BY <3>2, <3>4, <3>7
      <4> QED
        BY <3>1, <3>3, <3>5, <3>7, <4>1
    <3> QED
      BY <1>1, <3>6, <3>7
  <2>3. ASSUME pc # "gone", lag' # Asleep, judged <= INTERVAL
        PROVE  waited' <= judged * Second + Second - 1 + lag'
    <3>1. lag # Asleep /\ lag' = lag + 1 /\ waited' = waited + 1
      BY <2>3 DEF Tick
    <3>2. waited <= judged * Second + Second - 1 + lag
      BY <2>3, <3>1 DEF HeardInv, Recent
    <3>3. judged * Second \in Nat /\ waited \in Nat /\ lag \in Int
      BY DEF HeardInv, Clocks, Ranges
    <3> QED
      BY <3>1, <3>2, <3>3
  <2> QED
    BY <2>1, <2>2, <2>3 DEF Recent, Tick
<1>6. Beats'
  <2>1. pc' = "registered" => waited' <= MaxDelay
    BY DEF Tick, InTime, HeardInv, Beats, Clocks
  <2>2. ASSUME pc = "beating"
        PROVE  \/ waited' <= (Interval - beat') + MaxDelay
               \/ /\ waited' <= Interval + MaxDelay + (Interval - beat')
                  /\ \E i \in DOMAIN wire' : wire'[i] = Interval - beat'
    <3>1. waited' = waited + 1 /\ beat' = beat - 1 /\ waited \in Nat /\ beat \in Nat
      BY <2>2 DEF Tick, HeardInv, Clocks, Ranges
    <3>2. CASE waited <= (Interval - beat) + MaxDelay
      BY <3>1, <3>2
    <3>3. CASE /\ waited <= Interval + MaxDelay + (Interval - beat)
               /\ \E i \in DOMAIN wire : wire[i] = Interval - beat
      <4>1. PICK i \in DOMAIN wire : wire[i] = Interval - beat
        BY <3>3
      <4>2. DOMAIN wire' = DOMAIN wire /\ wire'[i] = wire[i] + 1
        BY <4>1 DEF Tick, HeardInv, Ranges
      <4>3. wire'[i] = Interval - beat'
        BY <3>1, <4>1, <4>2
      <4> QED
        BY <3>1, <3>3, <4>1, <4>2, <4>3
    <3> QED
      BY <2>2, <3>2, <3>3 DEF HeardInv, Beats
  <2> QED
    BY <2>1, <2>2 DEF Beats, Tick
<1> QED
  BY <1>2, <1>3, <1>4, <1>5, <1>6 DEF HeardInv

\* A visit that lets the peer be finds it heard of in INTERVAL seconds before.
LEMMA HeardJudge == HeardInv /\ Judge => HeardInv'
<1> SUFFICES ASSUME HeardInv, Judge PROVE HeardInv'
  OBVIOUS
<1> USE ConstantsType, DurationsType
<1>1. CASE pc # "gone" /\ judged > INTERVAL
  BY <1>1 DEF Judge, HeardInv, Clocks, Ranges, Visit, Recent, Beats, Asleep
<1>2. CASE pc = "gone"
  BY <1>2 DEF Judge, clock, HeardInv, Clocks, Ranges, Visit, Recent, Beats, Asleep
<1>3. CASE pc # "gone" /\ judged <= INTERVAL
  <2>1. UNCHANGED <<phase, pc, beat, wire, age, waited>> /\ judged' = 0
        /\ lag # Asleep /\ lag' = Asleep /\ nap' = Sleep
    BY <1>3 DEF Judge, clock, HeardInv, Clocks
  <2>2. waited <= Interval + Second - 1 + MaxLag
    <3>1. waited <= judged * Second + Second - 1 + lag
      BY <1>3, <2>1 DEF HeardInv, Recent
    <3>2. judged * Second <= INTERVAL * Second
      BY <1>3, TimesMonotone DEF HeardInv, Clocks
    <3>3. judged * Second \in Nat /\ INTERVAL * Second = Interval
      BY DEF HeardInv, Clocks, Interval
    <3>4. waited \in Nat /\ lag \in Int /\ lag <= MaxLag
      BY DEF HeardInv, Clocks, Ranges
    <3> QED
      BY <3>1, <3>2, <3>3, <3>4
  <2>3. pc # "accepted"
    BY <1>3, <2>1 DEF HeardInv, Recent
  <2>4. Clocks' /\ Ranges' /\ Beats'
    BY <2>1 DEF HeardInv, Clocks, Ranges, Beats, Asleep
  <2>5. Visit'
    BY <1>3, <2>1, <2>2 DEF Visit, Remaining, HeardInv, Clocks
  <2>6. Recent'
    BY <2>1, <2>3 DEF HeardInv, Recent
  <2> QED
    BY <2>4, <2>5, <2>6 DEF HeardInv
<1> QED
  BY <1>1, <1>2, <1>3 DEF HeardInv, Clocks

LEMMA HeardNext == HeardInv /\ [HeartbeatNext]_heartbeatVars => HeardInv'
<1> SUFFICES ASSUME HeardInv, [HeartbeatNext]_heartbeatVars PROVE HeardInv'
  OBVIOUS
<1> USE ConstantsType, DurationsType
<1>1. CASE Connect
  BY <1>1 DEF Connect, HeardInv, Clocks, Ranges, Visit, Remaining, Recent, Beats, Asleep
<1>2. CASE Register
  BY <1>2 DEF Register, Heard, HeardInv, Clocks, Ranges, Visit, Remaining, Recent, Beats, Asleep
<1>3. CASE StartHeartbeat
  BY <1>3 DEF StartHeartbeat, clock, monitor, HeardInv, Clocks, Ranges, Visit, Remaining,
              Recent, Beats, Asleep
<1>4. CASE SendKeepAlive
  <2>1. Clocks' /\ Ranges' /\ Visit' /\ Recent'
    BY <1>4 DEF SendKeepAlive, clock, monitor, HeardInv, Clocks, Ranges, Visit, Remaining,
                Recent, Asleep
  <2>2. waited <= Interval + MaxDelay
    BY <1>4 DEF SendKeepAlive, HeardInv, Clocks, Ranges, Beats
  <2>3. Len(wire') \in DOMAIN wire' /\ wire'[Len(wire')] = 0
    <3>1. PICK w \in Seq(Nat) : w = wire
      BY DEF HeardInv, Ranges
    <3>2. Len(Append(w, 0)) \in DOMAIN Append(w, 0) /\ Append(w, 0)[Len(Append(w, 0))] = 0
      OBVIOUS
    <3>3. wire' = Append(w, 0)
      BY <1>4, <3>1 DEF SendKeepAlive
    <3> QED
      BY <3>2, <3>3
  <2>4. Beats'
    BY <1>4, <2>2, <2>3 DEF SendKeepAlive, clock, HeardInv, Clocks, Beats
  <2> QED
    BY <2>1, <2>4 DEF HeardInv
<1>5. CASE SendFileUpdate
  <2>1. Clocks' /\ Ranges' /\ Visit' /\ Recent'
    BY <1>5 DEF SendFileUpdate, clock, monitor, HeardInv, Clocks, Ranges, Visit, Remaining,
                Recent, Asleep
  <2>2. DOMAIN wire \subseteq DOMAIN wire' /\ \A i \in DOMAIN wire : wire'[i] = wire[i]
    <3>1. PICK w \in Seq(Nat) : w = wire
      BY DEF HeardInv, Ranges
    <3>2. DOMAIN w \subseteq DOMAIN Append(w, 0) /\ \A i \in DOMAIN w : Append(w, 0)[i] = w[i]
      OBVIOUS
    <3>3. wire' = Append(w, 0)
      BY <1>5, <3>1 DEF SendFileUpdate
    <3> QED
      BY <3>1, <3>2, <3>3
  <2>3. Beats'
    BY <1>5, <2>2 DEF SendFileUpdate, clock, HeardInv, Clocks, Beats
  <2> QED
    BY <2>1, <2>3 DEF HeardInv
<1>6. CASE Die
  BY <1>6 DEF Die, clock, monitor, HeardInv, Clocks, Ranges, Visit, Remaining, Recent, Beats, Asleep
<1>7. CASE ReceiveMessage
  <2>1. wire' \in Seq(Nat) /\ \A i \in DOMAIN wire' : wire'[i] <= MaxDelay
    BY <1>7 DEF ReceiveMessage, HeardInv, Ranges
  <2> QED
    BY <1>7, <2>1 DEF ReceiveMessage, Heard, HeardInv, Clocks, Ranges, Visit, Remaining, Recent, Beats, Asleep
<1>8. CASE Wake
  BY <1>8 DEF Wake, peer, clock, HeardInv, Clocks, Ranges, Visit, Remaining, Recent, Beats, Asleep
<1>9. CASE UNCHANGED heartbeatVars
  BY <1>9 DEF heartbeatVars, peer, clock, monitor, HeardInv, Clocks, Ranges, Visit, Remaining, Recent,
              Beats, Asleep
<1> QED
  BY <1>1, <1>2, <1>3, <1>4, <1>5, <1>6, <1>7, <1>8, <1>9, HeardTick, HeardJudge DEF HeartbeatNext

(***************************************************************************)
(* A peer that lives is heard of once in INTERVAL seconds and twice the    *)
(* delay, and whoever else is on the list is gone within Longest: two      *)
(* visits of monitor_thread, which sleeps INTERVAL + 5 (tracker.c:283).    *)
(***************************************************************************)
THEOREM HeardOrGone == HeartbeatSpec => []HeardOrEvicted
<1>1. HeardInv => HeardOrEvicted
  <2> SUFFICES ASSUME HeardInv PROVE HeardOrEvicted
    OBVIOUS
  <2> USE ConstantsType, DurationsType
  <2>1. CASE pc = "beating"
    <3>1. waited \in Nat /\ beat \in Nat /\ beat <= Interval
      BY DEF HeardInv, Clocks, Ranges
    <3>2. CASE waited <= (Interval - beat) + MaxDelay
      BY <2>1, <3>1, <3>2 DEF HeardOrEvicted
    <3>3. CASE /\ waited <= Interval + MaxDelay + (Interval - beat)
               /\ \E i \in DOMAIN wire : wire[i] = Interval - beat
      <4>1. Interval - beat <= MaxDelay
        BY <3>3 DEF HeardInv, Ranges
      <4> QED
        BY <2>1, <3>1, <3>3, <4>1 DEF HeardOrEvicted
    <3> QED
      BY <2>1, <3>2, <3>3 DEF HeardInv, Beats
  <2>2. CASE pc = "gone"
    BY <2>2 DEF HeardInv, Visit, HeardOrEvicted
  <2>3. CASE pc \notin {"beating", "gone"}
    BY <2>3 DEF HeardInv, Clocks, Ranges, Visit, Remaining, HeardOrEvicted
  <2> QED
    BY <2>1, <2>2, <2>3
<1> QED
  BY <1>1, HeardInit, HeardNext, PTL DEF HeartbeatSpec
=============================================================================
