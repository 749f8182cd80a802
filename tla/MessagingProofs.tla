--------------------------- MODULE MessagingProofs ---------------------------
(***************************************************************************)
(* Theorems about Messaging, for any number of threads, files, events and  *)
(* heartbeats: what the tracker reads from the stream of a peer is what    *)
(* was sent.                                                               *)
(***************************************************************************)
EXTENDS Messaging, TLAPS

(***************************************************************************)
(* How many structs a message is made of, the item that was sent as its    *)
(* i-th (the receivers list them backwards), and where its structs are.    *)
(* Structs are counted from the first of the connection: r have been read, *)
(* the others are in the stream or not sent yet.                           *)
(***************************************************************************)
Messages ==
  {m \in [type : HeaderTypes, items : Seq(Items)] :
     /\ m.type = "KEEP_ALIVE" => m.items = <<>>
     /\ \A i \in DOMAIN m.items :
          m.items[i].action = IF m.type = "REGISTER" THEN Blank ELSE m.items[i].file}

Length(m) ==
  IF m.type = "KEEP_ALIVE" THEN 1
  ELSE IF m.type = "REGISTER" THEN 2 + Len(m.items) ELSE 2 + 2 * Len(m.items)

Nth(m, i) == m.items[Len(m.items) + 1 - i]

\* What has still to be read: the stream and what is to come of the message that
\* is being sent.
Rest == IF AllSent THEN <<>> ELSE out[CHOOSE t \in Threads : out[t] # <<>>]

Coming == stream \o Rest

Carries(r, x, part) == r < x => x - r \in 1..Len(Coming) /\ Coming[x - r] = part

Laid(r, s, m) ==
  /\ Carries(r, s, Part(m.type, 0))
  /\ m.type # "KEEP_ALIVE" => Carries(r, s + 1, Part("body", Len(m.items)))
  /\ m.type = "REGISTER" =>
       \A i \in DOMAIN m.items : Carries(r, s + 1 + i, Part("file", Nth(m, i).file))
  /\ m.type = "FILE_UPDATE" =>
       \A i \in DOMAIN m.items : /\ Carries(r, s + 2 * i, Part("file", Nth(m, i).file))
                                 /\ Carries(r, s + 2 * i + 1, Part("event", Nth(m, i).action))

(***************************************************************************)
(* The messages begun lie one behind the other, start[m] being the place   *)
(* of the header of the m-th; at most the last is not sent to its end.     *)
(***************************************************************************)
Layout(start, r) ==
  /\ start \in [1..(Len(begun) + 1) -> Nat] /\ r \in Nat
  /\ \A m \in DOMAIN begun : /\ start[m + 1] = start[m] + Length(begun[m])
                             /\ Laid(r, start[m], begun[m])
  /\ \A m, n \in DOMAIN start : m <= n => start[m] <= start[n]
  /\ start[Len(begun) + 1] = r + Len(Coming) + 1
  /\ ~AllSent => begun # <<>> /\ start[Len(begun)] <= r + Len(stream) + 1

\* The message that is being read.
Current == begun[Len(handled) + 1]

\* What has been read of its items; of the first of them, only the file, if done is 1.
ItemsRead(done) ==
  /\ Len(items) + left = Len(Current.items) + done
  /\ \A j \in DOMAIN items : j > done => items[j] = Current.items[left - done + j]

Place(start, r) ==
  IF rdPc = "header"
  THEN r + 1 = start[Len(handled) + 1] /\ items = <<>>
  ELSE /\ Len(handled) < Len(begun)
       /\ type = Current.type /\ type # "KEEP_ALIVE"
       /\ \/ /\ rdPc = "body" /\ items = <<>>
             /\ r + 1 = start[Len(handled) + 1] + 1
          \/ /\ rdPc = "file" /\ ItemsRead(0)
             /\ r + 1 = start[Len(handled) + 1] + 2
                        + IF type = "REGISTER" THEN Len(items) ELSE 2 * Len(items)
          \/ /\ rdPc = "event" /\ ItemsRead(1) /\ type = "FILE_UPDATE"
             /\ r + 1 = start[Len(handled) + 1] + 1 + 2 * Len(items)
             /\ items[1] = [file |-> Current.items[left].file, action |-> Blank]

HandledAsSent(n) ==
  /\ n \in Nat /\ n <= Len(handled) /\ n <= Len(begun)
  /\ \A i \in 1..n : handled[i] = begun[i]

(***************************************************************************)
(* The four states of a connection on which no heartbeat has crossed a     *)
(* message: the reader is in step with the stream; it reads zeros for what *)
(* is missing of the last message; it has handled that; it has ended.      *)
(***************************************************************************)
InStep ==
  /\ HandledAsSent(Len(handled))
  /\ \E start \in [1..(Len(begun) + 1) -> Nat], r \in Nat : Layout(start, r) /\ Place(start, r)

Missing == Ended /\ ~AllSent

\* list is the end of whole, except that zeros are in the place of what is missing.
Partly(list, whole) ==
  LET d == Len(whole) - Len(list) IN
    /\ d >= 0
    /\ \A i \in DOMAIN list :
         /\ list[i].file \in {whole[d + i].file, Blank}
         /\ list[i].action \in {whole[d + i].action, Blank}
         /\ list[i].action # Blank => list[i].file # Blank
         /\ list[i].file # Blank =>
              \A j \in DOMAIN list : j > i => list[j] = whole[d + j]

ReadingZeros ==
  /\ Missing /\ Len(handled) + 1 = Len(begun) /\ HandledAsSent(Len(handled))
  /\ type = Current.type
  /\ Partly(items, Current.items)
  /\ \/ rdPc = "file" /\ Len(items) + left = Len(Current.items)
     \/ /\ rdPc = "event" /\ Len(items) + left = Len(Current.items) + 1 /\ type = "FILE_UPDATE"
        /\ items[1].action = Blank

HandledShort ==
  /\ Missing /\ Len(handled) = Len(begun) /\ HandledAsSent(Len(handled) - 1)
  /\ CutShort(handled[Len(handled)], begun[Len(handled)])
  /\ rdPc \in {"header", "finished"}

Over ==
  peer # "up" /\ rdPc \in {"finished", "crashed"} /\ HandledAsSent(Len(handled))

\* Who is in the middle of a message: nobody else, and Main only of its REGISTER.
Alone ==
  /\ \A t \in Reporters : out[t] # <<>> => commLock
  /\ \A t, u \in Threads : out[t] # <<>> /\ out[u] # <<>> => t = u
  /\ out[Main] # <<>> => Len(begun) = 1

MessageTypes ==
  /\ stream \in Seq(Parts)
  /\ peer \in {"up", "closed", "reset"}
  /\ commLock \in BOOLEAN
  /\ out \in [Threads -> Seq(Parts)]
  /\ produced \in Nat
  /\ type \in HeaderTypes \cup {"NONE"}
  /\ left \in Nat /\ (rdPc \in {"file", "event"} => left >= 1)
  /\ items \in Seq(Items) /\ (rdPc = "event" => items # <<>>)
  /\ begun \in Seq(Messages)
  /\ crossed \in BOOLEAN

HandledTypes == handled \in Seq([type : HeaderTypes \cup {"NONE"}, items : Seq(Items)])

StreamInv ==
  /\ MessageTypes /\ HandledTypes
  /\ crossed \/ (Alone /\ (InStep \/ ReadingZeros \/ HandledShort \/ Over))
-----------------------------------------------------------------------------
(***************************************************************************)
(* What is written is the message, struct by struct.                       *)
(***************************************************************************)
WrittenAs(w, m) ==
  /\ w \in Seq(Parts) /\ Len(w) = Length(m)
  /\ w[1] = Part(m.type, 0)
  /\ m.type # "KEEP_ALIVE" => w[2] = Part("body", Len(m.items))
  /\ m.type = "REGISTER" => \A i \in DOMAIN m.items : w[2 + i] = Part("file", Nth(m, i).file)
  /\ m.type = "FILE_UPDATE" =>
       \A i \in DOMAIN m.items : /\ w[2 * i + 1] = Part("file", Nth(m, i).file)
                                 /\ w[2 * i + 2] = Part("event", Nth(m, i).action)

LEMMA KindsOfParts ==
  /\ \A k \in HeaderTypes : k \in Kinds
  /\ "body" \in Kinds /\ "file" \in Kinds /\ "event" \in Kinds
  /\ "REGISTER" \in HeaderTypes /\ "KEEP_ALIVE" \in HeaderTypes /\ "FILE_UPDATE" \in HeaderTypes
  BY DEF Kinds, HeaderTypes

LEMMA FreshIds ==
  ASSUME produced \in Nat, NEW n \in Nat
  PROVE  Fresh(n) \in Seq(Nat) /\ Len(Fresh(n)) = n
  BY DEF Fresh

LEMMA WholeMessage ==
  ASSUME NEW kind \in {"REGISTER", "FILE_UPDATE"}, NEW ids \in Seq(Nat)
  PROVE  LET m == Whole(kind, ids) IN
           /\ m \in Messages /\ m.type = kind /\ Len(m.items) = Len(ids)
           /\ \A i \in 1..Len(ids) :
                /\ Nth(m, i).file = ids[i]
                /\ kind = "FILE_UPDATE" => Nth(m, i).action = ids[i]
<1> DEFINE m == Whole(kind, ids)
           n == Len(ids)
           item(i) == [file |-> ids[n + 1 - i],
                       action |-> IF kind = "REGISTER" THEN Blank ELSE ids[n + 1 - i]]
<1>1. n \in Nat /\ \A i \in 1..n : n + 1 - i \in 1..n /\ ids[i] \in Nat
  OBVIOUS
<1>2. m.type = kind /\ m.items = [i \in 1..n |-> item(i)] /\ m = [type |-> kind, items |-> m.items]
  BY DEF Whole
<1>3. \A i \in 1..n : item(i) \in Items
  BY <1>1 DEF Items, Blank
<1>4. /\ \A i \in 1..n : item(i).action = IF kind = "REGISTER" THEN Blank ELSE item(i).file
      /\ \A i \in 1..n : item(n + 1 - i).file = ids[n + 1 - (n + 1 - i)]
      /\ kind = "FILE_UPDATE" =>
           \A i \in 1..n : item(n + 1 - i).action = ids[n + 1 - (n + 1 - i)]
  OBVIOUS
<1>5. \A i \in 1..n : n + 1 - (n + 1 - i) = i
  BY <1>1
<1> HIDE DEF item, m, n
<1>6. m.items \in Seq(Items) /\ Len(m.items) = n /\ DOMAIN m.items = 1..n
  BY <1>1, <1>2, <1>3
<1>7. \A i \in 1..n : m.items[i] = item(i)
  BY <1>2
<1>8. m \in Messages
  <2>1. m \in [type : HeaderTypes, items : Seq(Items)] /\ m.type # "KEEP_ALIVE"
    BY <1>2, <1>6 DEF HeaderTypes
  <2>2. \A i \in DOMAIN m.items :
          m.items[i].action = IF m.type = "REGISTER" THEN Blank ELSE m.items[i].file
    BY <1>2, <1>4, <1>6, <1>7
  <2> QED
    BY <2>1, <2>2 DEF Messages
<1>9. \A i \in 1..n : Nth(m, i).file = ids[i] /\ (kind = "FILE_UPDATE" => Nth(m, i).action = ids[i])
  <2> SUFFICES ASSUME NEW i \in 1..n
               PROVE  Nth(m, i).file = ids[i] /\ (kind = "FILE_UPDATE" => Nth(m, i).action = ids[i])
    OBVIOUS
  <2>1. Nth(m, i) = item(n + 1 - i)
    BY <1>1, <1>6, <1>7 DEF Nth
  <2> QED
    BY <1>4, <1>5, <2>1
<1> QED
  BY <1>2, <1>6, <1>8, <1>9 DEF n, m

LEMMA TwoFirst ==
  ASSUME NEW S, NEW a \in S, NEW b \in S, NEW rest \in Seq(S)
  PROVE  LET w == <<a, b>> \o rest IN
           /\ w \in Seq(S) /\ Len(w) = 2 + Len(rest) /\ w[1] = a /\ w[2] = b
           /\ \A i \in 1..Len(rest) : w[2 + i] = rest[i]
<1>1. <<a, b>> \o rest \in Seq(S) /\ Len(<<a, b>> \o rest) = 2 + Len(rest)
  OBVIOUS
<1>2. (<<a, b>> \o rest)[1] = a /\ (<<a, b>> \o rest)[2] = b
  OBVIOUS
<1>3. \A i \in 1..Len(rest) : (<<a, b>> \o rest)[2 + i] = rest[i]
  OBVIOUS
<1> QED
  BY <1>1, <1>2, <1>3

LEMMA WrittenWhole ==
  ASSUME NEW kind \in {"REGISTER", "FILE_UPDATE"}, NEW ids \in Seq(Nat)
  PROVE  WrittenAs(Written(kind, ids), Whole(kind, ids))
<1> DEFINE m == Whole(kind, ids)
           n == Len(ids)
           w == Written(kind, ids)
<1>1. /\ m \in Messages /\ m.type = kind /\ Len(m.items) = n
      /\ \A i \in 1..n : /\ Nth(m, i).file = ids[i]
                         /\ kind = "FILE_UPDATE" => Nth(m, i).action = ids[i]
  BY WholeMessage
<1>2. n \in Nat /\ (\A i \in 1..n : ids[i] \in Nat) /\ DOMAIN m.items = 1..n
  BY <1>1 DEF Messages
<1>3. Part(kind, 0) \in Parts /\ Part("body", n) \in Parts
  BY <1>2, KindsOfParts DEF Part, Parts, HeaderTypes
<1> HIDE DEF m
<1>4. CASE kind = "REGISTER"
  <2> DEFINE rest == [i \in 1..n |-> Part("file", ids[i])]
  <2>1. w = <<Part(kind, 0), Part("body", n)>> \o rest
    BY <1>4 DEF Written
  <2>2. rest \in Seq(Parts) /\ Len(rest) = n
    <3>1. \A i \in 1..n : Part("file", ids[i]) \in Parts
      BY <1>2, KindsOfParts DEF Part, Parts
    <3> QED
      BY <1>2, <3>1
  <2>4. \A i \in 1..n : rest[i] = Part("file", ids[i])
    OBVIOUS
  <2> HIDE DEF rest, w
  <2>6. w \in Seq(Parts) /\ Len(w) = 2 + n /\ w[1] = Part(kind, 0) /\ w[2] = Part("body", n)
    BY <1>3, <2>1, <2>2, TwoFirst
  <2>7. \A i \in 1..n : w[2 + i] = rest[i]
    BY <1>3, <2>1, <2>2, TwoFirst
  <2> QED
    BY <1>1, <1>2, <1>4, <2>4, <2>6, <2>7 DEF WrittenAs, Length, w, m
<1>5. CASE kind = "FILE_UPDATE"
  <2> DEFINE part(i) == Part(IF i % 2 = 1 THEN "file" ELSE "event", ids[(i + 1) \div 2])
             rest == [i \in 1..(2 * n) |-> part(i)]
  <2>1. w = <<Part(kind, 0), Part("body", n)>> \o rest
    BY <1>5 DEF Written
  <2>2. rest \in Seq(Parts) /\ Len(rest) = 2 * n
    <3>1. \A i \in 1..(2 * n) : part(i) \in Parts
      <4> SUFFICES ASSUME NEW i \in 1..(2 * n) PROVE part(i) \in Parts
        OBVIOUS
      <4>1. (i + 1) \div 2 \in 1..n
        BY <1>2, Z3
      <4> QED
        BY <1>2, <4>1, KindsOfParts DEF Part, Parts
    <3> HIDE DEF part
    <3> QED
      BY <1>2, <3>1
  <2>4. ASSUME NEW i \in 1..n
        PROVE  rest[2 * i - 1] = Part("file", ids[i]) /\ rest[2 * i] = Part("event", ids[i])
    <3>1. 2 * i - 1 \in 1..(2 * n) /\ 2 * i \in 1..(2 * n)
      BY <1>2
    <3>2. /\ (2 * i - 1) % 2 = 1 /\ ((2 * i - 1) + 1) \div 2 = i
          /\ (2 * i) % 2 # 1 /\ ((2 * i) + 1) \div 2 = i
      BY <1>2, Z3
    <3> QED
      BY <3>1, <3>2
  <2> HIDE DEF rest, w
  <2>5. w \in Seq(Parts) /\ Len(w) = 2 + Len(rest)
    <3>1. rest \in Seq(Parts)
      BY <2>2
    <3> QED
      BY <1>3, <2>1, <3>1, TwoFirst
  <2>6. w \in Seq(Parts) /\ Len(w) = 2 + 2 * n /\ w[1] = Part(kind, 0) /\ w[2] = Part("body", n)
    BY <1>3, <2>1, <2>2, <2>5, TwoFirst
  <2>7. \A i \in 1..(2 * n) : w[2 + i] = rest[i]
    BY <1>3, <2>1, <2>2, TwoFirst
  <2>8. ASSUME NEW i \in 1..n
        PROVE  w[2 * i + 1] = Part("file", ids[i]) /\ w[2 * i + 2] = Part("event", ids[i])
    <3>1. 2 * i - 1 \in 1..(2 * n) /\ 2 * i \in 1..(2 * n)
          /\ 2 + (2 * i - 1) = 2 * i + 1 /\ 2 + (2 * i) = 2 * i + 2
      BY <1>2
    <3>2. w[2 + (2 * i - 1)] = rest[2 * i - 1] /\ w[2 + (2 * i)] = rest[2 * i]
      BY <2>7, <3>1
    <3> QED
      BY <2>4, <3>1, <3>2
  <2>9. m.type = "FILE_UPDATE" /\ Length(m) = 2 + 2 * n
    BY <1>1, <1>5 DEF Length
  <2>10. WrittenAs(w, m)
    BY <1>1, <1>2, <2>6, <2>7, <2>8, <2>9 DEF WrittenAs
  <2> QED
    BY <2>10 DEF w, m
<1> QED
  BY <1>4, <1>5
-----------------------------------------------------------------------------
(***************************************************************************)
(* The stream moves on: what has still to be read stays where it is.       *)
(***************************************************************************)
LEMMA ElementOf == ASSUME NEW S, NEW s \in Seq(S), NEW i \in DOMAIN s PROVE s[i] \in S
  OBVIOUS

LEMMA MessageFacts ==
  ASSUME NEW m \in Messages
  PROVE  /\ m.type \in HeaderTypes /\ m.items \in Seq(Items)
         /\ Len(m.items) \in Nat /\ DOMAIN m.items = 1..Len(m.items)
         /\ Length(m) \in Nat /\ Length(m) >= 1
         /\ m.type = "KEEP_ALIVE" => m.items = <<>> /\ Length(m) = 1
         /\ m.type = "REGISTER" => Length(m) = 2 + Len(m.items)
         /\ m.type = "FILE_UPDATE" => Length(m) = 2 + 2 * Len(m.items)
<1>1. m.type \in HeaderTypes /\ m.items \in Seq(Items) /\ (m.type = "KEEP_ALIVE" => m.items = <<>>)
  BY DEF Messages
<1>2. Len(m.items) \in Nat /\ DOMAIN m.items = 1..Len(m.items)
  BY <1>1
<1> QED
  BY <1>1, <1>2 DEF Length, HeaderTypes

\* A message stays laid when each of its structs does.
LEMMA LaidMap ==
  ASSUME NEW m \in Messages, NEW r, NEW q, NEW s \in Nat, Laid(r, s, m),
         \A x \in s..(s + Length(m) - 1) : \A part :
           Carries(r, x, part) => Carries(q, x, part)'
  PROVE  Laid(q, s, m)'
<1>1. /\ m.type \in HeaderTypes /\ m.items \in Seq(Items)
      /\ Len(m.items) \in Nat /\ DOMAIN m.items = 1..Len(m.items)
      /\ Length(m) \in Nat /\ Length(m) >= 1
      /\ m.type = "REGISTER" => Length(m) = 2 + Len(m.items)
      /\ m.type = "FILE_UPDATE" => Length(m) = 2 + 2 * Len(m.items)
  BY MessageFacts
<1>2. Carries(q, s, Part(m.type, 0))'
  <2>1. s \in s..(s + Length(m) - 1)
    BY <1>1
  <2>2. Carries(r, s, Part(m.type, 0))
    BY DEF Laid
  <2> QED
    BY <2>1, <2>2
<1>3. m.type # "KEEP_ALIVE" => Carries(q, s + 1, Part("body", Len(m.items)))'
  <2> SUFFICES ASSUME m.type # "KEEP_ALIVE" PROVE Carries(q, s + 1, Part("body", Len(m.items)))'
    OBVIOUS
  <2>1. s + 1 \in s..(s + Length(m) - 1)
    BY <1>1 DEF HeaderTypes
  <2>2. Carries(r, s + 1, Part("body", Len(m.items)))
    BY DEF Laid
  <2> QED
    BY <2>1, <2>2
<1>4. ASSUME m.type = "REGISTER", NEW i \in DOMAIN m.items
      PROVE  Carries(q, s + 1 + i, Part("file", Nth(m, i).file))'
  <2>1. s + 1 + i \in s..(s + Length(m) - 1)
    BY <1>1, <1>4
  <2>2. Carries(r, s + 1 + i, Part("file", Nth(m, i).file))
    BY <1>4 DEF Laid
  <2> QED
    BY <2>1, <2>2
<1>5. ASSUME m.type = "FILE_UPDATE", NEW i \in DOMAIN m.items
      PROVE  /\ Carries(q, s + 2 * i, Part("file", Nth(m, i).file))'
             /\ Carries(q, s + 2 * i + 1, Part("event", Nth(m, i).action))'
  <2>1. s + 2 * i \in s..(s + Length(m) - 1) /\ s + 2 * i + 1 \in s..(s + Length(m) - 1)
    <3>1. i \in Nat /\ i >= 1 /\ i <= Len(m.items) /\ Length(m) = 2 + 2 * Len(m.items)
      BY <1>1, <1>5
    <3> QED
      BY <1>1, <3>1
  <2>2. /\ Carries(r, s + 2 * i, Part("file", Nth(m, i).file))
        /\ Carries(r, s + 2 * i + 1, Part("event", Nth(m, i).action))
    BY <1>5 DEF Laid
  <2> QED
    BY <2>1, <2>2
<1> QED
  BY <1>2, <1>3, <1>4, <1>5 DEF Laid

\* And it is laid when its structs are put at the end.
LEMMA LaidNew ==
  ASSUME NEW m \in Messages, NEW w, WrittenAs(w, m), NEW q, NEW s \in Nat,
         \A k \in 1..Len(w) : Carries(q, s + k - 1, w[k])'
  PROVE  Laid(q, s, m)'
<1>1. /\ m.type \in HeaderTypes /\ Len(w) = Length(m)
      /\ Len(m.items) \in Nat /\ DOMAIN m.items = 1..Len(m.items)
      /\ Length(m) \in Nat /\ Length(m) >= 1
      /\ m.type = "REGISTER" => Length(m) = 2 + Len(m.items)
      /\ m.type = "FILE_UPDATE" => Length(m) = 2 + 2 * Len(m.items)
  BY MessageFacts DEF WrittenAs
<1>2. Carries(q, s, Part(m.type, 0))'
  <2>1. 1 \in 1..Len(w) /\ s + 1 - 1 = s
    BY <1>1
  <2>2. w[1] = Part(m.type, 0)
    BY DEF WrittenAs
  <2> QED
    BY <2>1, <2>2
<1>3. m.type # "KEEP_ALIVE" => Carries(q, s + 1, Part("body", Len(m.items)))'
  <2> SUFFICES ASSUME m.type # "KEEP_ALIVE" PROVE Carries(q, s + 1, Part("body", Len(m.items)))'
    OBVIOUS
  <2>1. 2 \in 1..Len(w) /\ s + 2 - 1 = s + 1
    BY <1>1 DEF HeaderTypes
  <2>2. w[2] = Part("body", Len(m.items))
    BY DEF WrittenAs
  <2> QED
    BY <2>1, <2>2
<1>4. ASSUME m.type = "REGISTER", NEW i \in DOMAIN m.items
      PROVE  Carries(q, s + 1 + i, Part("file", Nth(m, i).file))'
  <2>1. 2 + i \in 1..Len(w) /\ s + (2 + i) - 1 = s + 1 + i
    BY <1>1, <1>4
  <2>2. w[2 + i] = Part("file", Nth(m, i).file)
    BY <1>4 DEF WrittenAs
  <2>3. Carries(q, s + (2 + i) - 1, w[2 + i])'
    BY <2>1
  <2> QED
    BY <2>1, <2>2, <2>3
<1>5. ASSUME m.type = "FILE_UPDATE", NEW i \in DOMAIN m.items
      PROVE  /\ Carries(q, s + 2 * i, Part("file", Nth(m, i).file))'
             /\ Carries(q, s + 2 * i + 1, Part("event", Nth(m, i).action))'
  <2>1. /\ 2 * i + 1 \in 1..Len(w) /\ s + (2 * i + 1) - 1 = s + 2 * i
        /\ 2 * i + 2 \in 1..Len(w) /\ s + (2 * i + 2) - 1 = s + 2 * i + 1
    <3> DEFINE n == Len(m.items)
    <3>1. i \in 1..n /\ Len(w) = 2 + 2 * n /\ n \in Nat
      BY <1>1, <1>5
    <3> HIDE DEF n
    <3>2. 2 * i + 1 \in 1..(2 + 2 * n) /\ 2 * i + 2 \in 1..(2 + 2 * n)
      BY <3>1
    <3>3. s + (2 * i + 1) - 1 = s + 2 * i /\ s + (2 * i + 2) - 1 = s + 2 * i + 1
      BY <3>1
    <3> QED
      BY <3>1, <3>2, <3>3
  <2>2. /\ w[2 * i + 1] = Part("file", Nth(m, i).file)
        /\ w[2 * i + 2] = Part("event", Nth(m, i).action)
    BY <1>5 DEF WrittenAs
  <2>3. /\ Carries(q, s + (2 * i + 1) - 1, w[2 * i + 1])'
        /\ Carries(q, s + (2 * i + 2) - 1, w[2 * i + 2])'
    BY <2>1
  <2> QED
    BY <2>1, <2>2, <2>3
<1> QED
  BY <1>2, <1>3, <1>4, <1>5 DEF Laid
-----------------------------------------------------------------------------
(***************************************************************************)
(* What has still to be read loses its head when a struct is read, stays   *)
(* when one is sent, and grows by the message when one begins.             *)
(***************************************************************************)
LEMMA RestIs ==
  ASSUME NEW t \in Threads, \A u \in Threads : out[u] # <<>> => u = t
  PROVE  Rest = out[t]
<1>1. CASE AllSent
  BY <1>1 DEF Rest, AllSent
<1>2. CASE ~AllSent
  <2>1. \E u \in Threads : out[u] # <<>>
    BY <1>2 DEF AllSent
  <2>2. (CHOOSE u \in Threads : out[u] # <<>>) = t
    BY <2>1
  <2> QED
    BY <1>2, <2>2 DEF Rest
<1> QED
  BY <1>1, <1>2

LEMMA SeqSame ==
  ASSUME NEW S, NEW a \in Seq(S), NEW b \in Seq(S), Len(a) = Len(b),
         \A i \in 1..Len(a) : a[i] = b[i]
  PROVE  a = b
  OBVIOUS

LEMMA SeqMoves ==
  ASSUME NEW S, NEW a \in Seq(S), NEW b \in Seq(S)
  PROVE  /\ a # <<>> => Tail(a) \o b = Tail(a \o b)
         /\ b # <<>> => Append(a, Head(b)) \o Tail(b) = a \o b
         /\ a \o <<>> = a
<1>1. ASSUME a # <<>> PROVE Tail(a) \o b = Tail(a \o b)
  <2>1. Tail(a) \o b \in Seq(S) /\ Tail(a \o b) \in Seq(S) /\ Len(Tail(a) \o b) = Len(Tail(a \o b))
    BY <1>1
  <2>2. \A i \in 1..Len(Tail(a) \o b) : (Tail(a) \o b)[i] = Tail(a \o b)[i]
    BY <1>1
  <2> QED
    BY <2>1, <2>2, SeqSame
<1>2. ASSUME b # <<>> PROVE Append(a, Head(b)) \o Tail(b) = a \o b
  <2>1. /\ Append(a, Head(b)) \o Tail(b) \in Seq(S) /\ a \o b \in Seq(S)
        /\ Len(Append(a, Head(b)) \o Tail(b)) = Len(a \o b)
    BY <1>2
  <2>2. \A i \in 1..Len(a \o b) : (Append(a, Head(b)) \o Tail(b))[i] = (a \o b)[i]
    BY <1>2
  <2> QED
    BY <2>1, <2>2, SeqSame
<1>3. a \o <<>> = a
  OBVIOUS
<1> QED
  BY <1>1, <1>2, <1>3

LEMMA ConcatFacts ==
  ASSUME NEW S, NEW a \in Seq(S), NEW b \in Seq(S)
  PROVE  /\ Len(a \o b) = Len(a) + Len(b)
         /\ \A i \in 1..Len(a) : i \in 1..Len(a \o b) /\ (a \o b)[i] = a[i]
         /\ \A k \in 1..Len(b) : Len(a) + k \in 1..Len(a \o b) /\ (a \o b)[Len(a) + k] = b[k]
  OBVIOUS

LEMMA RestTypes ==
  ASSUME MessageTypes
  PROVE  /\ Rest \in Seq(Parts) /\ Coming \in Seq(Parts)
         /\ Len(Coming) = Len(stream) + Len(Rest)
         /\ AllSent => Coming = stream
         /\ stream # <<>> => Coming # <<>> /\ Head(stream) = Coming[1]
<1>1. stream \in Seq(Parts) /\ out \in [Threads -> Seq(Parts)]
  BY DEF MessageTypes
<1>2. Rest \in Seq(Parts)
  <2>1. CASE AllSent
    BY <2>1 DEF Rest
  <2>2. CASE ~AllSent
    BY <1>1, <2>2 DEF Rest, AllSent
  <2> QED
    BY <2>1, <2>2
<1>3. AllSent => Coming = stream
  BY <1>1, SeqMoves DEF Rest, Coming
<1> QED
  BY <1>1, <1>2, <1>3 DEF Coming

LEMMA ComingRead ==
  ASSUME MessageTypes, stream # <<>>, stream' = Tail(stream), out' = out
  PROVE  /\ Coming' = Tail(Coming) /\ Coming' \in Seq(Parts) /\ Len(Coming') = Len(Coming) - 1
         /\ \A i \in 1..Len(Coming') : Coming'[i] = Coming[i + 1]
<1>1. stream \in Seq(Parts) /\ Rest \in Seq(Parts) /\ Coming \in Seq(Parts) /\ Coming # <<>>
  BY RestTypes DEF MessageTypes
<1>2. Rest' = Rest
  BY DEF Rest, AllSent
<1>3. Coming' = Tail(Coming)
  BY <1>1, <1>2, SeqMoves DEF Coming
<1> QED
  BY <1>1, <1>3

LEMMA ComingSend ==
  ASSUME MessageTypes, NEW t \in Threads, out[t] # <<>>,
         \A u \in Threads : out[u] # <<>> => u = t,
         stream' = Append(stream, Head(out[t])), out' = [out EXCEPT ![t] = Tail(@)]
  PROVE  Coming' = Coming
<1>1. stream \in Seq(Parts) /\ out[t] \in Seq(Parts) /\ out \in [Threads -> Seq(Parts)]
  BY DEF MessageTypes
<1>2. Rest = out[t]
  BY RestIs
<1>3. out'[t] = Tail(out[t]) /\ \A u \in Threads : out'[u] # <<>> => u = t
  BY <1>1
<1>4. Rest' = out'[t]
  <2>1. CASE AllSent'
    BY <2>1 DEF Rest, AllSent
  <2>2. CASE ~AllSent'
    <3>1. (CHOOSE u \in Threads : out'[u] # <<>>) = t
      BY <1>3, <2>2 DEF AllSent
    <3> QED
      BY <2>2, <3>1 DEF Rest
  <2> QED
    BY <2>1, <2>2
<1> QED
  BY <1>1, <1>2, <1>3, <1>4, SeqMoves DEF Coming

\* A message that begins, its first struct sent or not.
Begins(t, w) ==
  /\ AllSent /\ w \in Seq(Parts) /\ w # <<>>
  /\ \A u \in Threads \ {t} : out'[u] = <<>>
  /\ \/ stream' = stream /\ out'[t] = w
     \/ stream' = Append(stream, Head(w)) /\ out'[t] = Tail(w)

LEMMA ComingBegins ==
  ASSUME MessageTypes, NEW t \in Threads, NEW w, Begins(t, w)
  PROVE  Coming' = stream \o w /\ Coming = stream
<1>1. stream \in Seq(Parts) /\ w \in Seq(Parts) /\ w # <<>> /\ AllSent
  BY DEF MessageTypes, Begins
<1>2. Rest' = out'[t]
  <2>1. CASE AllSent'
    BY <2>1 DEF Rest, AllSent
  <2>2. CASE ~AllSent'
    <3>1. \A u \in Threads : out'[u] # <<>> => u = t
      BY DEF Begins
    <3>2. (CHOOSE u \in Threads : out'[u] # <<>>) = t
      BY <3>1, <2>2 DEF AllSent
    <3> QED
      BY <2>2, <3>2 DEF Rest
  <2> QED
    BY <2>1, <2>2
<1>3. Coming' = stream \o w
  <2>1. CASE stream' = stream /\ out'[t] = w
    BY <1>2, <2>1 DEF Coming
  <2>2. CASE stream' = Append(stream, Head(w)) /\ out'[t] = Tail(w)
    BY <1>1, <1>2, <2>2, SeqMoves DEF Coming
  <2> QED
    BY <2>1, <2>2 DEF Begins
<1> QED
  BY <1>1, <1>3, RestTypes
-----------------------------------------------------------------------------
(***************************************************************************)
(* So the messages stay laid: when a struct is read, when one is sent, and *)
(* when a message begins.                                                  *)
(***************************************************************************)
LEMMA LayoutFacts ==
  ASSUME MessageTypes, NEW start, NEW r, Layout(start, r)
  PROVE  /\ begun \in Seq(Messages) /\ Len(begun) \in Nat /\ DOMAIN begun = 1..Len(begun)
         /\ r \in Nat /\ start \in [1..(Len(begun) + 1) -> Nat]
         /\ Len(stream) \in Nat /\ Len(Coming) \in Nat /\ Len(Coming) >= Len(stream)
         /\ \A m \in 1..Len(begun) :
              /\ begun[m] \in Messages /\ m + 1 \in 1..(Len(begun) + 1)
              /\ start[m] \in Nat /\ start[m + 1] \in Nat
              /\ start[m + 1] = start[m] + Length(begun[m])
              /\ start[m + 1] <= start[Len(begun) + 1]
              /\ Laid(r, start[m], begun[m])
<1>1. begun \in Seq(Messages) /\ Len(begun) \in Nat /\ DOMAIN begun = 1..Len(begun)
  BY DEF MessageTypes
<1>2. r \in Nat /\ start \in [1..(Len(begun) + 1) -> Nat]
  BY DEF Layout
<1>3. Len(stream) \in Nat /\ Len(Coming) \in Nat /\ Len(Coming) >= Len(stream)
  <2>1. stream \in Seq(Parts) /\ Rest \in Seq(Parts) /\ Len(Coming) = Len(stream) + Len(Rest)
    BY RestTypes DEF MessageTypes
  <2>2. Len(stream) \in Nat /\ Len(Rest) \in Nat
    BY <2>1
  <2> QED
    BY <2>1, <2>2
<1>4. ASSUME NEW m \in 1..Len(begun)
      PROVE  /\ begun[m] \in Messages /\ m + 1 \in 1..(Len(begun) + 1)
             /\ start[m] \in Nat /\ start[m + 1] \in Nat
             /\ start[m + 1] = start[m] + Length(begun[m])
             /\ start[m + 1] <= start[Len(begun) + 1]
             /\ Laid(r, start[m], begun[m])
  <2>1. m + 1 \in 1..(Len(begun) + 1) /\ m \in 1..(Len(begun) + 1)
        /\ Len(begun) + 1 \in 1..(Len(begun) + 1) /\ m + 1 <= Len(begun) + 1
    BY <1>1
  <2>2. begun[m] \in Messages
    BY <1>1, ElementOf
  <2> QED
    BY <1>1, <1>2, <2>1, <2>2 DEF Layout
<1> QED
  BY <1>1, <1>2, <1>3, <1>4

LEMMA LayoutRead ==
  ASSUME MessageTypes, NEW start, NEW r, Layout(start, r),
         stream # <<>>, stream' = Tail(stream), out' = out, begun' = begun
  PROVE  Layout(start, r + 1)'
<1>1. /\ begun \in Seq(Messages) /\ Len(begun) \in Nat /\ DOMAIN begun = 1..Len(begun)
      /\ r \in Nat /\ start \in [1..(Len(begun) + 1) -> Nat]
      /\ \A m \in 1..Len(begun) : /\ begun[m] \in Messages /\ start[m] \in Nat
                                  /\ Laid(r, start[m], begun[m])
  BY LayoutFacts
<1>2. /\ Len(Coming) \in Nat /\ Len(Coming') = Len(Coming) - 1
      /\ \A i \in 1..Len(Coming') : Coming'[i] = Coming[i + 1]
  BY LayoutFacts, ComingRead
<1>3. Len(stream) \in Nat /\ Len(stream') = Len(stream) - 1
  BY DEF MessageTypes
<1>4. ASSUME NEW m \in 1..Len(begun) PROVE Laid(r + 1, start[m], begun[m])'
  <2>1. ASSUME NEW x \in start[m]..(start[m] + Length(begun[m]) - 1), NEW part, Carries(r, x, part)
        PROVE  Carries(r + 1, x, part)'
    <3>1. x \in Int
      OBVIOUS
    <3>2. ASSUME r + 1 < x PROVE x - (r + 1) \in 1..Len(Coming') /\ Coming'[x - (r + 1)] = part
      <4>1. r < x /\ x - r - 1 >= 1 /\ (x - (r + 1)) + 1 = x - r
        BY <1>1, <3>1, <3>2
      <4>2. x - r \in 1..Len(Coming) /\ Coming[x - r] = part
        BY <2>1, <4>1 DEF Carries
      <4>3. x - (r + 1) \in 1..Len(Coming')
        BY <1>1, <1>2, <3>1, <4>1, <4>2
      <4> QED
        BY <1>2, <4>1, <4>2, <4>3
    <3> QED
      BY <3>2 DEF Carries
  <2> QED
    BY <1>1, <2>1, LaidMap
<1>5. start[Len(begun) + 1] = (r + 1) + Len(Coming') + 1
  BY <1>1, <1>2 DEF Layout
<1>6. ~AllSent' => begun # <<>> /\ start[Len(begun)] <= (r + 1) + Len(stream') + 1
  <2>1. ~AllSent' => ~AllSent
    BY DEF AllSent
  <2>2. (r + 1) + Len(stream') + 1 = r + Len(stream) + 1
    BY <1>1, <1>3
  <2> QED
    BY <2>1, <2>2 DEF Layout
<1>7. r + 1 \in Nat
  BY <1>1
<1>8. /\ \A m \in DOMAIN begun : start[m + 1] = start[m] + Length(begun[m])
      /\ \A m, n \in DOMAIN start : m <= n => start[m] <= start[n]
  BY DEF Layout
<1> QED
  BY <1>1, <1>4, <1>5, <1>6, <1>7, <1>8 DEF Layout

LEMMA LayoutSend ==
  ASSUME MessageTypes, NEW start, NEW r, Layout(start, r), begun' = begun,
         NEW t \in Threads, out[t] # <<>>, \A u \in Threads : out[u] # <<>> => u = t,
         stream' = Append(stream, Head(out[t])), out' = [out EXCEPT ![t] = Tail(@)]
  PROVE  Layout(start, r)'
<1>1. /\ begun \in Seq(Messages) /\ DOMAIN begun = 1..Len(begun)
      /\ r \in Nat /\ start \in [1..(Len(begun) + 1) -> Nat]
      /\ \A m \in 1..Len(begun) : /\ begun[m] \in Messages /\ start[m] \in Nat
                                  /\ Laid(r, start[m], begun[m])
  BY LayoutFacts
<1>2. Coming' = Coming
  BY ComingSend
<1>3. \A x, part : Carries(r, x, part) => Carries(r, x, part)'
  BY <1>2 DEF Carries
<1>4. ASSUME NEW m \in 1..Len(begun) PROVE Laid(r, start[m], begun[m])'
  BY <1>1, <1>3, LaidMap
<1>5. Len(stream) \in Nat /\ Len(stream') = Len(stream) + 1
  BY DEF MessageTypes
<1>6. begun # <<>> /\ start[Len(begun)] <= r + Len(stream') + 1
  <2>1. begun # <<>> /\ start[Len(begun)] <= r + Len(stream) + 1
    BY DEF Layout, AllSent
  <2>2. Len(begun) \in 1..Len(begun)
    BY <1>1, <2>1
  <2>3. start[Len(begun)] \in Nat
    BY <1>1, <2>2
  <2> QED
    BY <1>1, <1>5, <2>1, <2>3
<1>7. /\ start[Len(begun) + 1] = r + Len(Coming) + 1
      /\ \A m \in DOMAIN begun : start[m + 1] = start[m] + Length(begun[m])
      /\ \A m, n \in DOMAIN start : m <= n => start[m] <= start[n]
  BY DEF Layout
<1> QED
  BY <1>1, <1>2, <1>4, <1>6, <1>7 DEF Layout

LEMMA CarriesNew ==
  ASSUME NEW S, stream \in Seq(S), NEW w \in Seq(S), Coming' = stream \o w,
         NEW r \in Nat, NEW q \in Nat, q = r + Len(stream) + 1
  PROVE  \A k \in 1..Len(w) : Carries(r, q + k - 1, w[k])'
<1> SUFFICES ASSUME NEW k \in 1..Len(w), NEW x, x = q + k - 1
             PROVE  Carries(r, x, w[k])'
  OBVIOUS
<1>1. Len(stream) \in Nat /\ k \in Nat
  OBVIOUS
<1>2. x - r = Len(stream) + k
  BY <1>1
<1>3. Len(stream) + k \in 1..Len(Coming') /\ Coming'[Len(stream) + k] = w[k]
  BY ConcatFacts
<1> QED
  BY <1>2, <1>3 DEF Carries

LEMMA LayoutBegins ==
  ASSUME MessageTypes, NEW start, NEW r, Layout(start, r),
         NEW t \in Threads, NEW w, Begins(t, w),
         NEW new \in Messages, WrittenAs(w, new), begun' = Append(begun, new)
  PROVE  \E next \in [1..(Len(begun') + 1) -> Nat] :
           Layout(next, r)' /\ \A m \in 1..(Len(begun) + 1) : next[m] = start[m]
<1>1. /\ begun \in Seq(Messages) /\ Len(begun) \in Nat /\ DOMAIN begun = 1..Len(begun)
      /\ r \in Nat /\ start \in [1..(Len(begun) + 1) -> Nat]
      /\ \A m \in 1..Len(begun) :
           /\ begun[m] \in Messages /\ start[m] \in Nat /\ start[m + 1] \in Nat
           /\ start[m + 1] = start[m] + Length(begun[m])
           /\ start[m + 1] <= start[Len(begun) + 1]
           /\ Laid(r, start[m], begun[m])
  BY LayoutFacts
<1>a. PICK l \in Nat : l = Len(begun)
  BY <1>1
<1>b. PICK s : s = start[l + 1]
  OBVIOUS
<1>2. PICK next : next = [m \in 1..(l + 2) |-> IF m = l + 2 THEN s + Length(new) ELSE start[m]]
  OBVIOUS
<1>3. /\ Len(begun') = l + 1 /\ DOMAIN begun' = 1..(l + 1) /\ begun'[l + 1] = new
      /\ \A m \in 1..l : begun'[m] = begun[m]
  BY <1>1, <1>a
<1>4. Length(new) \in Nat /\ Length(new) >= 1
  BY MessageFacts
<1>5. s \in Nat
  <2>1. l + 1 \in 1..(Len(begun) + 1)
    BY <1>1, <1>a
  <2> QED
    BY <1>1, <1>b, <2>1
<1>6. next \in [1..(l + 2) -> Nat] /\ next[l + 2] = s + Length(new) /\ next[l + 1] = s
      /\ \A m \in 1..(l + 1) : next[m] = start[m]
  <2>1. \A m \in 1..(l + 2) : m # l + 2 => m \in 1..(l + 1)
    BY <1>1
  <2>2. l + 2 \in 1..(l + 2) /\ l + 1 \in 1..(l + 2) /\ l + 1 # l + 2
        /\ \A m \in 1..(l + 1) : m \in 1..(l + 2) /\ m # l + 2
    BY <1>1
  <2>3. \A m \in 1..(l + 1) : start[m] \in Nat
    BY <1>1, <1>a
  <2>4. s + Length(new) \in Nat
    BY <1>4, <1>5
  <2> QED
    BY <1>2, <1>b, <2>1, <2>2, <2>3, <2>4
<1>7. /\ stream \in Seq(Parts) /\ w \in Seq(Parts) /\ Len(stream) \in Nat /\ Len(w) = Length(new)
      /\ Coming' = stream \o w /\ Coming = stream
  BY ComingBegins DEF MessageTypes, WrittenAs
<1>8. /\ Len(Coming') = Len(stream) + Len(w)
      /\ \A i \in 1..Len(stream) : i \in 1..Len(Coming') /\ Coming'[i] = stream[i]
      /\ \A k \in 1..Len(w) : Len(stream) + k \in 1..Len(Coming') /\ Coming'[Len(stream) + k] = w[k]
  <2>1. /\ Len(stream \o w) = Len(stream) + Len(w)
        /\ \A i \in 1..Len(stream) : i \in 1..Len(stream \o w) /\ (stream \o w)[i] = stream[i]
        /\ \A k \in 1..Len(w) :
             Len(stream) + k \in 1..Len(stream \o w) /\ (stream \o w)[Len(stream) + k] = w[k]
    <3>1. stream \in Seq(Parts) /\ w \in Seq(Parts)
      BY <1>7
    <3> QED
      BY <3>1, ConcatFacts
  <2> QED
    BY <1>7, <2>1
<1>9. s = r + Len(stream) + 1
  BY <1>7, <1>a, <1>b DEF Layout
<1>10. ASSUME NEW m \in 1..l PROVE Laid(r, start[m], begun[m])'
  <2>1. \A x, part : Carries(r, x, part) => Carries(r, x, part)'
    BY <1>7, <1>8 DEF Carries
  <2>2. m \in 1..Len(begun) /\ Laid(r, start[m], begun[m])
    BY <1>1, <1>a
  <2>3. begun'[m] = begun[m]
    BY <1>3
  <2> QED
    BY <1>1, <2>1, <2>2, <2>3, LaidMap
<1>11. Laid(r, s, new)'
  <2>1. PICK q \in Nat : q = r + Len(stream) + 1
    BY <1>1, <1>7
  <2>2. \A k \in 1..Len(w) : Carries(r, q + k - 1, w[k])'
    BY <1>1, <1>7, <2>1, CarriesNew
  <2>3. Laid(r, q, new)'
    BY <2>2, LaidNew
  <2> QED
    BY <1>9, <2>1, <2>3
<1>12. \A m \in 1..(l + 1) : /\ next[m + 1] = next[m] + Length(begun'[m])
                            /\ Laid(r, next[m], begun[m])'
  <2> SUFFICES ASSUME NEW m \in 1..(l + 1)
               PROVE  /\ next[m + 1] = next[m] + Length(begun'[m])
                      /\ Laid(r, next[m], begun[m])'
    OBVIOUS
  <2>1. CASE m = l + 1
    <3>1. next[m] = s /\ next[m + 1] = s + Length(new) /\ begun'[m] = new
      <4>1. l + 1 + 1 = l + 2
        BY <1>1, <1>a, <1>b
      <4> QED
        BY <1>3, <1>6, <2>1, <4>1
    <3> QED
      BY <1>11, <3>1
  <2>2. CASE m # l + 1
    <3>1. m \in 1..l /\ m + 1 \in 1..(l + 1)
      BY <1>1, <1>a, <1>b, <2>2
    <3>2. next[m] = start[m] /\ next[m + 1] = start[m + 1] /\ begun'[m] = begun[m]
      BY <1>3, <1>6, <3>1
    <3> QED
      BY <1>1, <1>a, <1>b, <1>10, <3>1, <3>2
  <2> QED
    BY <2>1, <2>2
<1>13. \A m, n \in 1..(l + 2) : m <= n => next[m] <= next[n]
  <2> SUFFICES ASSUME NEW m \in 1..(l + 2), NEW n \in 1..(l + 2), m <= n PROVE next[m] <= next[n]
    OBVIOUS
  <2>1. \A i \in 1..(l + 1) : next[i] \in Nat /\ next[i] = start[i] /\ next[i] <= s
    <3> SUFFICES ASSUME NEW i \in 1..(l + 1) PROVE next[i] \in Nat /\ next[i] = start[i] /\ next[i] <= s
      OBVIOUS
    <3>1. i \in 1..(l + 2) /\ l + 1 \in 1..(l + 1) /\ i <= l + 1
      BY <1>1, <1>a, <1>b
    <3>2. start[i] <= start[l + 1]
      BY <1>1, <1>a, <1>b, <3>1 DEF Layout
    <3> QED
      BY <1>6, <3>1, <3>2
  <2>2. CASE n # l + 2
    <3>1. m \in 1..(l + 1) /\ n \in 1..(l + 1)
      BY <1>1, <1>a, <1>b, <2>2
    <3> QED
      BY <1>1, <1>a, <1>b, <2>1, <3>1 DEF Layout
  <2>3. CASE n = l + 2 /\ m # l + 2
    <3>1. m \in 1..(l + 1)
      BY <1>1, <1>a, <1>b, <2>3
    <3>2. next[m] \in Nat /\ next[m] <= s /\ next[n] = s + Length(new)
      BY <1>6, <2>1, <2>3, <3>1
    <3> QED
      BY <1>4, <1>5, <3>2
  <2>4. CASE n = l + 2 /\ m = l + 2
    BY <1>4, <1>5, <1>6, <2>4
  <2> QED
    BY <2>2, <2>3, <2>4
<1>14. next[l + 2] = r + Len(Coming') + 1
  <2>1. Len(Coming') = Len(stream) + Length(new)
    BY <1>7, <1>8
  <2> QED
    BY <1>1, <1>a, <1>b, <1>4, <1>6, <1>7, <1>9, <2>1
<1>15. begun' # <<>> /\ next[l + 1] <= r + Len(stream') + 1
  <2>1. Len(stream') \in Nat /\ Len(stream') >= Len(stream)
    <3>1. stream' = stream \/ (stream' = Append(stream, Head(w)) /\ Head(w) \in Parts)
      BY <1>7 DEF Begins
    <3> QED
      BY <1>7, <3>1
  <2>2. begun' # <<>>
    BY <1>1, <1>a, <1>b
  <2> QED
    BY <1>1, <1>a, <1>b, <1>6, <1>7, <1>9, <2>1, <2>2
<1>16. l + 1 + 1 = l + 2 /\ DOMAIN next = 1..(l + 2) /\ Len(begun') + 1 = l + 2
  BY <1>1, <1>a, <1>b, <1>3, <1>6
<1>17. Layout(next, r)'
  <2>1. next \in [1..(Len(begun') + 1) -> Nat]
    BY <1>6, <1>16
  <2>2. /\ next[Len(begun') + 1] = r + Len(Coming') + 1
        /\ ~AllSent' => begun' # <<>> /\ next[Len(begun')] <= r + Len(stream') + 1
    BY <1>3, <1>14, <1>15, <1>16
  <2> QED
    BY <1>1, <1>a, <1>b, <1>3, <1>12, <1>13, <1>16, <2>1, <2>2 DEF Layout
<1> QED
  BY <1>6, <1>16, <1>17
-----------------------------------------------------------------------------
(***************************************************************************)
(* The reader in step with the stream: it stays in step when messages      *)
(* begin, and the struct at the head is the one it waits for.              *)
(***************************************************************************)
LEMMA PlaceKept ==
  ASSUME MessageTypes, NEW start, NEW next, NEW r, Place(start, r), UNCHANGED reader,
         Len(handled) \in Nat, Len(handled) <= Len(begun),
         begun' \in Seq(Messages), Len(begun) <= Len(begun'),
         \A i \in 1..Len(begun) : begun'[i] = begun[i],
         \A m \in 1..(Len(begun) + 1) : next[m] = start[m]
  PROVE  Place(next, r)'
<1>1. Len(begun) \in Nat /\ Len(begun') \in Nat
  BY DEF MessageTypes
<1>2. Len(handled) + 1 \in 1..(Len(begun) + 1)
  BY <1>1
<1>3. next[Len(handled) + 1] = start[Len(handled) + 1]
  BY <1>2
<1>4. CASE rdPc = "header"
  BY <1>3, <1>4 DEF Place, reader
<1>5. CASE rdPc # "header"
  <2>1. Len(handled) < Len(begun) /\ Len(handled) + 1 \in 1..Len(begun)
    BY <1>1, <1>5 DEF Place
  <2>2. Len(handled) < Len(begun')
    BY <1>1, <2>1
  <2>3. Current' = Current
    BY <2>1 DEF Current, reader
  <2> QED
    BY <1>3, <1>5, <2>2, <2>3 DEF Place, ItemsRead, reader
<1> QED
  BY <1>4, <1>5

LEMMA CarriesHead ==
  ASSUME MessageTypes, NEW r \in Nat, NEW x, x = r + 1, NEW part, Carries(r, x, part), stream # <<>>
  PROVE  Head(stream) = part
<1>1. x - r = 1 /\ r < x
  OBVIOUS
<1> QED
  BY <1>1, RestTypes DEF Carries

\* What the reader has of the message, while it is in the middle of one.
LEMMA CurrentFacts ==
  ASSUME MessageTypes, HandledTypes, NEW start, NEW r, Layout(start, r), Place(start, r),
         rdPc # "header"
  PROVE  /\ Current \in Messages /\ Laid(r, start[Len(handled) + 1], Current)
         /\ start[Len(handled) + 1] \in Nat
         /\ start[Len(handled) + 2] = start[Len(handled) + 1] + Length(Current)
         /\ Len(handled) \in Nat /\ Len(handled) < Len(begun)
         /\ type = Current.type /\ type \in {"REGISTER", "FILE_UPDATE"}
<1>1. Len(handled) \in Nat
  BY DEF HandledTypes
<1>2. Len(handled) < Len(begun) /\ type = Current.type /\ type # "KEEP_ALIVE"
  BY DEF Place
<1>3. Len(handled) + 1 \in 1..Len(begun) /\ Len(handled) + 1 + 1 = Len(handled) + 2
  BY <1>1, <1>2 DEF MessageTypes
<1>4. begun[Len(handled) + 1] \in Messages
  BY <1>3, LayoutFacts
<1>5. Current.type \in HeaderTypes
  BY <1>4, MessageFacts DEF Current
<1>6. /\ Laid(r, start[Len(handled) + 1], begun[Len(handled) + 1])
      /\ start[Len(handled) + 1] \in Nat
      /\ start[Len(handled) + 2] = start[Len(handled) + 1] + Length(begun[Len(handled) + 1])
  BY <1>3, LayoutFacts
<1> QED
  BY <1>1, <1>2, <1>4, <1>5, <1>6 DEF Current, HeaderTypes

LEMMA NextHeader ==
  ASSUME MessageTypes, HandledTypes, NEW start, NEW r, Layout(start, r), Place(start, r),
         rdPc = "header", stream # <<>>, Len(handled) <= Len(begun)
  PROVE  /\ Len(handled) < Len(begun) /\ Current \in Messages
         /\ Head(stream) = Part(Current.type, 0)
         /\ start[Len(handled) + 2] = start[Len(handled) + 1] + Length(Current)
<1>1. Len(handled) \in Nat /\ Len(begun) \in Nat /\ r \in Nat
  BY LayoutFacts DEF HandledTypes
<1>2. r + 1 = start[Len(handled) + 1]
  BY DEF Place
<1>3. Len(handled) # Len(begun)
  <2> SUFFICES ASSUME Len(handled) = Len(begun) PROVE FALSE
    OBVIOUS
  <2>1. r + 1 = r + Len(Coming) + 1
    BY <1>2 DEF Layout
  <2>2. Coming \in Seq(Parts) /\ Coming # <<>>
    BY RestTypes
  <2>3. Len(Coming) \in Nat /\ Len(Coming) # 0
    BY <2>2
  <2> QED
    BY <1>1, <2>1, <2>3
<1>4. Len(handled) + 1 \in 1..Len(begun) /\ Len(handled) + 1 + 1 = Len(handled) + 2
  BY <1>1, <1>3
<1>5. /\ Current \in Messages /\ Laid(r, start[Len(handled) + 1], Current)
      /\ start[Len(handled) + 2] = start[Len(handled) + 1] + Length(Current)
  BY <1>4, LayoutFacts DEF Current
<1>6. Carries(r, start[Len(handled) + 1], Part(Current.type, 0))
  BY <1>5 DEF Laid
<1>7. Head(stream) = Part(Current.type, 0)
  BY <1>1, <1>2, <1>6, CarriesHead
<1> QED
  BY <1>1, <1>3, <1>5, <1>7

LEMMA NextBody ==
  ASSUME MessageTypes, HandledTypes, NEW start, NEW r, Layout(start, r), Place(start, r),
         rdPc = "body", stream # <<>>
  PROVE  Head(stream) = Part("body", Len(Current.items))
<1> DEFINE s == start[Len(handled) + 1]
<1>1. s \in Nat /\ Laid(r, s, Current) /\ Current.type # "KEEP_ALIVE" /\ r \in Nat
  BY CurrentFacts, LayoutFacts
<1>2. r + 1 = s + 1
  BY DEF Place
<1>3. Carries(r, s + 1, Part("body", Len(Current.items)))
  BY <1>1 DEF Laid
<1> HIDE DEF s
<1> QED
  BY <1>1, <1>2, <1>3, CarriesHead

LEMMA NextFile ==
  ASSUME MessageTypes, HandledTypes, NEW start, NEW r, Layout(start, r), Place(start, r),
         rdPc = "file", stream # <<>>
  PROVE  /\ left \in DOMAIN Current.items
         /\ Head(stream) = Part("file", Current.items[left].file)
<1> DEFINE s == start[Len(handled) + 1]
           c == Len(Current.items)
           l == Len(items)
           i == l + 1
<1>1. /\ s \in Nat /\ Laid(r, s, Current) /\ type = Current.type /\ Current \in Messages
      /\ type \in {"REGISTER", "FILE_UPDATE"} /\ r \in Nat
  BY CurrentFacts, LayoutFacts
<1>2. l + left = c /\ r + 1 = s + 2 + IF type = "REGISTER" THEN l ELSE 2 * l
  BY DEF Place, ItemsRead
<1>3. c \in Nat /\ l \in Nat /\ left \in Nat /\ left >= 1 /\ DOMAIN Current.items = 1..c
  BY <1>1, MessageFacts DEF MessageTypes
<1> HIDE DEF s, c, l
<1>4. i \in 1..c /\ left \in 1..c /\ c + 1 - i = left
  BY <1>2, <1>3
<1>5. Nth(Current, i) = Current.items[left]
  BY <1>4 DEF Nth, c
<1>6. CASE type = "REGISTER"
  <2>1. Carries(r, s + 1 + i, Part("file", Current.items[left].file))
    BY <1>1, <1>3, <1>4, <1>5, <1>6 DEF Laid
  <2>2. s + 1 + i = r + 1
    BY <1>1, <1>2, <1>3, <1>6
  <2> QED
    BY <1>1, <1>3, <1>4, <2>1, <2>2, CarriesHead
<1>7. CASE type = "FILE_UPDATE"
  <2>1. Carries(r, s + 2 * i, Part("file", Current.items[left].file))
    BY <1>1, <1>3, <1>4, <1>5, <1>7 DEF Laid
  <2>2. s + 2 * i = r + 1
    BY <1>1, <1>2, <1>3, <1>7
  <2> QED
    BY <1>1, <1>3, <1>4, <2>1, <2>2, CarriesHead
<1> QED
  BY <1>1, <1>6, <1>7

LEMMA NextEvent ==
  ASSUME MessageTypes, HandledTypes, NEW start, NEW r, Layout(start, r), Place(start, r),
         rdPc = "event", stream # <<>>
  PROVE  Head(stream) = Part("event", Current.items[left].action)
<1> DEFINE s == start[Len(handled) + 1]
           c == Len(Current.items)
           i == Len(items)
<1>1. /\ s \in Nat /\ Laid(r, s, Current) /\ type = Current.type /\ Current \in Messages
      /\ type = "FILE_UPDATE" /\ r \in Nat
  BY CurrentFacts, LayoutFacts DEF Place
<1>2. i + left = c + 1 /\ r + 1 = s + 1 + 2 * i
  BY DEF Place, ItemsRead
<1>3. /\ c \in Nat /\ i \in Nat /\ i >= 1 /\ left \in Nat /\ left >= 1
      /\ DOMAIN Current.items = 1..c
  BY <1>1, MessageFacts DEF MessageTypes
<1> HIDE DEF s, c, i
<1>4. i \in 1..c /\ c + 1 - i = left
  BY <1>2, <1>3
<1>5. Nth(Current, i) = Current.items[left]
  BY <1>4 DEF Nth, c
<1>6. Carries(r, s + 2 * i + 1, Part("event", Current.items[left].action))
  BY <1>1, <1>3, <1>4, <1>5 DEF Laid
<1>7. s + 2 * i + 1 = r + 1
  BY <1>1, <1>2, <1>3
<1> QED
  BY <1>1, <1>6, <1>7, CarriesHead
-----------------------------------------------------------------------------
(***************************************************************************)
(* What a step of the reader does while it is in step.                     *)
(***************************************************************************)
LEMMA MessageIs ==
  ASSUME NEW m \in Messages
  PROVE  m = [type |-> m.type, items |-> m.items]
  BY DEF Messages

LEMMA DeliverInStep ==
  ASSUME MessageTypes, HandledTypes, NEW start, NEW r \in Nat, HandledAsSent(Len(handled)),
         Len(handled) < Len(begun), Current \in Messages, type = Current.type,
         NEW list \in Seq(Items), Len(list) = Len(Current.items),
         \A j \in 1..Len(list) : list[j] = Current.items[j],
         handled' = Append(handled, [type |-> type, items |-> list]),
         items' = <<>>, rdPc' = "header", begun' = begun,
         r + 2 = start[Len(handled) + 2]
  PROVE  HandledAsSent(Len(handled))' /\ Place(start, r + 1)'
<1>1. Current.items \in Seq(Items)
  BY MessageFacts
<1>2. list = Current.items
  BY <1>1, SeqSame
<1>3. handled' = Append(handled, Current)
  BY <1>2, MessageIs
<1>4. /\ Len(handled) \in Nat /\ Len(handled') = Len(handled) + 1 /\ Len(begun) \in Nat
      /\ handled'[Len(handled) + 1] = Current
      /\ \A i \in 1..Len(handled) : handled'[i] = handled[i]
  BY <1>3 DEF HandledTypes, MessageTypes
<1>5. HandledAsSent(Len(handled))'
  <2>1. \A i \in 1..Len(handled) : handled[i] = begun[i]
    BY DEF HandledAsSent
  <2>2. \A i \in 1..(Len(handled) + 1) : i \in 1..Len(handled) \/ i = Len(handled) + 1
    BY <1>4
  <2>3. \A i \in 1..(Len(handled) + 1) : handled'[i] = begun[i]
    BY <1>4, <2>1, <2>2 DEF Current
  <2> QED
    BY <1>4, <2>3 DEF HandledAsSent
<1>6. (r + 1) + 1 = start[Len(handled') + 1]
  <2>1. Len(handled') + 1 = Len(handled) + 2 /\ (r + 1) + 1 = r + 2
    BY <1>4
  <2> QED
    BY <2>1
<1> QED
  BY <1>5, <1>6 DEF Place

LEMMA ItemInStep ==
  ASSUME MessageTypes, HandledTypes, NEW start, NEW r, Layout(start, r), Place(start, r),
         HandledAsSent(Len(handled)), rdPc \in {"file", "event"},
         NEW list \in Seq(Items), Len(list) + left = Len(Current.items) + 1,
         \A j \in 1..Len(list) : list[j] = Current.items[left - 1 + j],
         r + 2 = start[Len(handled) + 1] + 2 + IF type = "REGISTER" THEN Len(list) ELSE 2 * Len(list),
         ItemRead(list), type' = type, begun' = begun
  PROVE  HandledAsSent(Len(handled))' /\ Place(start, r + 1)'
<1> DEFINE c == Len(Current.items)
           h == Len(handled)
<1>1. /\ Current \in Messages /\ start[h + 1] \in Nat
      /\ start[h + 2] = start[h + 1] + Length(Current)
      /\ h \in Nat /\ h < Len(begun) /\ type = Current.type /\ type \in {"REGISTER", "FILE_UPDATE"}
  BY CurrentFacts
<1>2. r \in Nat /\ c \in Nat /\ left \in Nat /\ left >= 1 /\ Len(list) \in Nat
  BY <1>1, LayoutFacts, MessageFacts DEF MessageTypes
<1>3. CASE left = 1
  <2>1. Len(list) = c
    BY <1>2, <1>3
  <2>2. \A j \in 1..Len(list) : list[j] = Current.items[j]
    <3>1. \A j \in 1..Len(list) : left - 1 + j = j
      BY <1>3
    <3> QED
      BY <3>1
  <2>3. start[h + 2] = r + 2
    <3>1. /\ type = "REGISTER" => Length(Current) = 2 + c
          /\ type = "FILE_UPDATE" => Length(Current) = 2 + 2 * c
      BY <1>1, MessageFacts
    <3> HIDE DEF c, h
    <3>2. start[h + 1] \in Nat /\ c \in Nat
      BY <1>1, <1>2
    <3>3. /\ type = "REGISTER" => r + 2 = start[h + 1] + 2 + c
          /\ type # "REGISTER" => r + 2 = start[h + 1] + 2 + 2 * c
      BY <2>1 DEF h
    <3>4. /\ start[h + 1] + (2 + c) = start[h + 1] + 2 + c
          /\ start[h + 1] + (2 + 2 * c) = start[h + 1] + 2 + 2 * c
      BY <3>2
    <3> QED
      BY <1>1, <3>1, <3>3, <3>4
  <2>4. Deliver(list)
    BY <1>3 DEF ItemRead
  <2> QED
    BY <1>1, <1>2, <2>1, <2>2, <2>3, <2>4, DeliverInStep DEF Deliver
<1>4. CASE left # 1
  <2>1. items' = list /\ left' = left - 1 /\ rdPc' = "file" /\ handled' = handled
    BY <1>4 DEF ItemRead
  <2>2. HandledAsSent(Len(handled))'
    BY <2>1 DEF HandledAsSent
  <2>3. Current' = Current
    BY <2>1 DEF Current
  <2>4. ItemsRead(0)'
    <3>1. Len(list) + (left - 1) = c + 0
      BY <1>2
    <3>2. DOMAIN list = 1..Len(list) /\ \A j \in 1..Len(list) : left - 1 - 0 + j = left - 1 + j
      BY <1>2
    <3> QED
      BY <2>1, <2>3, <3>1, <3>2 DEF ItemsRead
  <2>5. (r + 1) + 1 = start[h + 1] + 2 + IF type = "REGISTER" THEN Len(list) ELSE 2 * Len(list)
    <3>1. (r + 1) + 1 = r + 2
      BY <1>2
    <3> QED
      BY <3>1
  <2> QED
    BY <1>1, <2>1, <2>2, <2>3, <2>4, <2>5 DEF Place
<1> QED
  BY <1>3, <1>4

LEMMA HeaderInStep ==
  ASSUME MessageTypes, HandledTypes, NEW start, NEW r, Layout(start, r), Place(start, r),
         HandledAsSent(Len(handled)), NEW kind \in HeaderTypes, ReadHeader(kind)
  PROVE  HandledAsSent(Len(handled))' /\ Place(start, r + 1)'
<1>1. stream # <<>> /\ Head(stream).kind = kind /\ rdPc = "header" /\ begun' = begun /\ type' = kind
  BY DEF ReadHeader, Waits, Comes, writer
<1>2. Len(handled) <= Len(begun) /\ r \in Nat /\ Len(handled) \in Nat
  BY LayoutFacts DEF HandledAsSent
<1>3. /\ Len(handled) < Len(begun) /\ Current \in Messages /\ Head(stream) = Part(Current.type, 0)
      /\ start[Len(handled) + 2] = start[Len(handled) + 1] + Length(Current)
  BY <1>1, <1>2, NextHeader
<1>4. kind = Current.type
  BY <1>1, <1>3 DEF Part
<1>5. r + 1 = start[Len(handled) + 1] /\ items = <<>> /\ items' = <<>>
  BY <1>1 DEF Place, ReadHeader
<1>6. CASE kind = "KEEP_ALIVE"
  <2>1. Length(Current) = 1 /\ Current.items = <<>>
    <3>1. Current.type = "KEEP_ALIVE"
      BY <1>4, <1>6
    <3> QED
      BY <1>3, <3>1, MessageFacts
  <2>2. handled' = Append(handled, Current) /\ rdPc' = "header"
    BY <1>1, <1>3, <1>4, <1>6, <2>1, MessageIs DEF ReadHeader
  <2>3. r + 2 = start[Len(handled) + 2]
    <3>1. (r + 1) + 1 = r + 2
      BY <1>2
    <3> QED
      BY <1>3, <1>5, <2>1, <3>1
  <2>4. /\ Len(handled') = Len(handled) + 1 /\ Len(begun) \in Nat
        /\ handled'[Len(handled) + 1] = Current
        /\ \A i \in 1..Len(handled) : handled'[i] = handled[i]
    BY <2>2 DEF HandledTypes, MessageTypes
  <2>5. HandledAsSent(Len(handled))'
    <3>1. \A i \in 1..Len(handled) : handled[i] = begun[i]
      BY DEF HandledAsSent
    <3>2. \A i \in 1..(Len(handled) + 1) : i \in 1..Len(handled) \/ i = Len(handled) + 1
      BY <1>2
    <3>3. \A i \in 1..(Len(handled) + 1) : handled'[i] = begun[i]
      BY <2>4, <3>1, <3>2 DEF Current
    <3> QED
      BY <1>1, <1>2, <1>3, <2>4, <3>3 DEF HandledAsSent
  <2>6. (r + 1) + 1 = start[Len(handled') + 1]
    <3>1. Len(handled') + 1 = Len(handled) + 2 /\ (r + 1) + 1 = r + 2
      BY <1>2, <2>4
    <3> QED
      BY <2>3, <3>1
  <2> QED
    BY <1>5, <2>2, <2>5, <2>6 DEF Place
<1>7. CASE kind # "KEEP_ALIVE"
  <2>1. rdPc' = "body" /\ handled' = handled
    BY <1>7 DEF ReadHeader
  <2>2. HandledAsSent(Len(handled))'
    BY <1>1, <2>1 DEF HandledAsSent
  <2>3. Current' = Current
    BY <1>1, <2>1 DEF Current
  <2> QED
    BY <1>1, <1>3, <1>4, <1>5, <1>7, <2>1, <2>2, <2>3 DEF Place
<1> QED
  BY <1>6, <1>7

LEMMA BodyInStep ==
  ASSUME MessageTypes, HandledTypes, NEW start, NEW r, Layout(start, r), Place(start, r),
         HandledAsSent(Len(handled)), ReadBody
  PROVE  HandledAsSent(Len(handled))' /\ Place(start, r + 1)'
<1>1. stream # <<>> /\ rdPc = "body" /\ begun' = begun /\ type' = type
  BY DEF ReadBody, Waits, Comes, writer
<1> DEFINE c == Len(Current.items)
           h == Len(handled)
<1>2. /\ Current \in Messages /\ start[h + 1] \in Nat
      /\ start[h + 2] = start[h + 1] + Length(Current)
      /\ h \in Nat /\ h < Len(begun) /\ type = Current.type /\ type \in {"REGISTER", "FILE_UPDATE"}
  BY <1>1, CurrentFacts
<1>3. r \in Nat /\ c \in Nat /\ Current.items \in Seq(Items)
  BY <1>2, LayoutFacts, MessageFacts
<1>4. Head(stream).n = c
  BY <1>1, NextBody DEF Part
<1>5. items = <<>> /\ r + 1 = start[h + 1] + 1
  BY <1>1 DEF Place
<1>6. CASE c = 0
  <2>1. Deliver(<<>>)
    BY <1>4, <1>6 DEF ReadBody
  <2>2. <<>> \in Seq(Items) /\ Len(<<>>) = c
    BY <1>6
  <2>3. Length(Current) = 2
    BY <1>2, <1>6, MessageFacts
  <2>4. start[h + 2] = r + 2
    BY <1>2, <1>3, <1>5, <2>3
  <2>5. \A j \in 1..Len(<<>>) : <<>>[j] = Current.items[j]
    OBVIOUS
  <2> QED
    BY <1>1, <1>2, <1>3, <2>1, <2>2, <2>4, <2>5, DeliverInStep DEF Deliver
<1>7. CASE c # 0
  <2>1. left' = c /\ rdPc' = "file" /\ items' = <<>> /\ handled' = handled
    BY <1>4, <1>5, <1>7 DEF ReadBody
  <2>2. HandledAsSent(Len(handled))'
    BY <1>1, <2>1 DEF HandledAsSent
  <2>3. Current' = Current
    BY <1>1, <2>1 DEF Current
  <2>4. ItemsRead(0)'
    <3>1. Len(<<>>) + c = c + 0 /\ DOMAIN <<>> = {}
      BY <1>3
    <3> QED
      BY <2>1, <2>3, <3>1 DEF ItemsRead
  <2>5. (r + 1) + 1 = start[h + 1] + 2 + IF type = "REGISTER" THEN Len(<<>>) ELSE 2 * Len(<<>>)
    BY <1>2, <1>3, <1>5
  <2> QED
    BY <1>1, <1>2, <2>1, <2>2, <2>3, <2>4, <2>5 DEF Place
<1> QED
  BY <1>6, <1>7

\* One item put before the others.
LEMMA PutFirst ==
  ASSUME NEW it \in Items, NEW list \in Seq(Items)
  PROVE  /\ <<it>> \o list \in Seq(Items) /\ Len(<<it>> \o list) = Len(list) + 1
         /\ (<<it>> \o list)[1] = it
         /\ \A j \in 1..Len(list) : (<<it>> \o list)[j + 1] = list[j]
         /\ \A j \in 1..(Len(list) + 1) : j = 1 \/ (j - 1 \in 1..Len(list) /\ (<<it>> \o list)[j] = list[j - 1])
  OBVIOUS

LEMMA ItemIs ==
  ASSUME NEW m \in Messages, NEW i \in DOMAIN m.items
  PROVE  /\ m.items[i] \in Items
         /\ m.items[i] = [file |-> m.items[i].file, action |-> m.items[i].action]
         /\ m.type = "REGISTER" => m.items[i].action = Blank
         /\ m.items[i].file \in Nat /\ m.items[i].action \in Nat
<1>1. m.items \in Seq(Items)
  BY MessageFacts
<1>2. m.items[i] \in Items
  BY <1>1, ElementOf
<1> QED
  BY <1>2 DEF Messages, Items

LEMMA FileInStep ==
  ASSUME MessageTypes, HandledTypes, NEW start, NEW r, Layout(start, r), Place(start, r),
         HandledAsSent(Len(handled)), ReadFile
  PROVE  HandledAsSent(Len(handled))' /\ Place(start, r + 1)'
<1>1. stream # <<>> /\ rdPc = "file" /\ begun' = begun /\ type' = type /\ FileRead(Head(stream).n)
  BY DEF ReadFile, Waits, Comes, writer
<1> DEFINE c == Len(Current.items)
           h == Len(handled)
           l == Len(items)
           it == [file |-> Head(stream).n, action |-> Blank]
           list == <<it>> \o items
<1>2. /\ Current \in Messages /\ start[h + 1] \in Nat
      /\ start[h + 2] = start[h + 1] + Length(Current)
      /\ h \in Nat /\ h < Len(begun) /\ type = Current.type /\ type \in {"REGISTER", "FILE_UPDATE"}
  BY <1>1, CurrentFacts
<1>3. /\ r \in Nat /\ c \in Nat /\ l \in Nat /\ left \in Nat /\ left >= 1
      /\ items \in Seq(Items) /\ DOMAIN items = 1..l
  <2>1. items \in Seq(Items) /\ left \in Nat /\ left >= 1
    BY <1>1 DEF MessageTypes
  <2>2. r \in Nat /\ c \in Nat
    BY <1>2, LayoutFacts, MessageFacts
  <2> QED
    BY <2>1, <2>2
<1>4. left \in DOMAIN Current.items /\ Head(stream).n = Current.items[left].file
  BY <1>1, NextFile DEF Part
<1>5. /\ l + left = c + 0 /\ \A j \in 1..l : items[j] = Current.items[left - 0 + j]
      /\ r + 1 = start[h + 1] + 2 + IF type = "REGISTER" THEN l ELSE 2 * l
  <2>1. ItemsRead(0) /\ r + 1 = start[h + 1] + 2 + IF type = "REGISTER" THEN l ELSE 2 * l
    BY <1>1 DEF Place
  <2>2. l + left = c + 0 /\ \A j \in 1..l : j > 0 => items[j] = Current.items[left - 0 + j]
    BY <1>3, <2>1 DEF ItemsRead
  <2>3. \A j \in 1..l : j > 0
    OBVIOUS
  <2> QED
    BY <2>1, <2>2, <2>3
<1>6. it \in Items
  BY <1>2, <1>4, ItemIs DEF Items, Blank
<1>7. /\ list \in Seq(Items) /\ Len(list) = l + 1 /\ list[1] = it
      /\ \A j \in 1..(l + 1) : j = 1 \/ (j - 1 \in 1..l /\ list[j] = items[j - 1])
  BY <1>3, <1>6, PutFirst
<1> HIDE DEF list, it, l, c, h
<1>a. /\ r \in Nat /\ l \in Nat /\ left \in Nat /\ c \in Nat /\ start[h + 1] \in Nat
      /\ l + left = c + 0 /\ Len(list) = l + 1
  BY <1>2, <1>3, <1>5, <1>7
<1>b. Len(list) + left = c + 1
  BY <1>a
<1>8. CASE type = "REGISTER"
  <2>1. it = Current.items[left]
    BY <1>2, <1>4, <1>8, ItemIs DEF it
  <2>3. \A j \in 1..Len(list) : list[j] = Current.items[left - 1 + j]
    <3> SUFFICES ASSUME NEW j \in 1..(l + 1) PROVE list[j] = Current.items[left - 1 + j]
      BY <1>7
    <3>1. CASE j = 1
      <4>1. left - 1 + j = left
        BY <1>3, <3>1
      <4> QED
        BY <1>7, <2>1, <3>1, <4>1
    <3>2. CASE j # 1
      <4>1. j - 1 \in 1..l /\ list[j] = items[j - 1]
        BY <1>7, <3>2
      <4>2. left - 0 + (j - 1) = left - 1 + j
        BY <1>3
      <4> QED
        BY <1>5, <4>1, <4>2
    <3> QED
      BY <3>1, <3>2
  <2>4. r + 2 = start[h + 1] + 2 + IF type = "REGISTER" THEN Len(list) ELSE 2 * Len(list)
    <3>1. r + 1 = start[h + 1] + 2 + l
      BY <1>5, <1>8
    <3>2. r + 2 = start[h + 1] + 2 + Len(list)
      BY <1>a, <3>1
    <3> QED
      BY <1>8, <3>2
  <2>5. ItemRead(list)
    BY <1>1, <1>8 DEF FileRead, list, it
  <2> QED
    BY <1>1, <1>7, <1>b, <2>3, <2>4, <2>5, ItemInStep DEF c, h
<1>9. CASE type = "FILE_UPDATE"
  <2>1. items' = list /\ rdPc' = "event" /\ left' = left /\ handled' = handled
    BY <1>1, <1>9 DEF FileRead, list, it
  <2>2. HandledAsSent(Len(handled))'
    BY <1>1, <2>1 DEF HandledAsSent
  <2>3. Current' = Current
    BY <1>1, <2>1 DEF Current
  <2>4. ItemsRead(1)'
    <3>2. ASSUME NEW j \in 1..(l + 1), j > 1 PROVE list[j] = Current.items[left - 1 + j]
      <4>1. j - 1 \in 1..l /\ list[j] = items[j - 1]
        BY <1>7, <3>2
      <4>2. left - 0 + (j - 1) = left - 1 + j
        BY <1>3
      <4> QED
        BY <1>5, <4>1, <4>2
    <3>3. DOMAIN list = 1..(l + 1)
      BY <1>7
    <3> QED
      BY <1>b, <2>1, <2>3, <3>2, <3>3 DEF ItemsRead, c
  <2>5. (r + 1) + 1 = start[h + 1] + 1 + 2 * Len(list)
    <3>1. r + 1 = start[h + 1] + 2 + 2 * l
      BY <1>5, <1>9
    <3> QED
      BY <1>a, <3>1
  <2>6. items'[1] = [file |-> Current.items[left].file, action |-> Blank]
    BY <1>4, <1>7, <2>1 DEF it
  <2> QED
    BY <1>1, <1>2, <1>9, <2>1, <2>2, <2>3, <2>4, <2>5, <2>6 DEF Place, h
<1> QED
  BY <1>2, <1>8, <1>9

LEMMA EventInStep ==
  ASSUME MessageTypes, HandledTypes, NEW start, NEW r, Layout(start, r), Place(start, r),
         HandledAsSent(Len(handled)), ReadEvent
  PROVE  HandledAsSent(Len(handled))' /\ Place(start, r + 1)'
<1>1. stream # <<>> /\ rdPc = "event" /\ begun' = begun /\ type' = type /\ EventRead(Head(stream).n)
  BY DEF ReadEvent, Waits, Comes, writer
<1> DEFINE c == Len(Current.items)
           h == Len(handled)
           l == Len(items)
           list == [items EXCEPT ![1].action = Head(stream).n]
<1>2. /\ Current \in Messages /\ start[h + 1] \in Nat /\ h \in Nat /\ type = Current.type
      /\ type = "FILE_UPDATE"
  BY <1>1, CurrentFacts DEF Place
<1>3. /\ r \in Nat /\ c \in Nat /\ l \in Nat /\ l >= 1 /\ left \in Nat /\ left >= 1
      /\ items \in Seq(Items) /\ DOMAIN items = 1..l /\ DOMAIN Current.items = 1..c
  BY <1>1, <1>2, LayoutFacts, MessageFacts DEF MessageTypes
<1>4. Head(stream).n = Current.items[left].action
  BY <1>1, NextEvent DEF Part
<1>5. /\ l + left = c + 1 /\ \A j \in 1..l : j > 1 => items[j] = Current.items[left - 1 + j]
      /\ r + 1 = start[h + 1] + 1 + 2 * l
      /\ items[1] = [file |-> Current.items[left].file, action |-> Blank]
  BY <1>1, <1>3 DEF Place, ItemsRead
<1>6. left \in 1..c
  BY <1>3, <1>5
<1>7. Current.items[left] \in Items
      /\ Current.items[left] = [file |-> Current.items[left].file, action |-> Current.items[left].action]
  BY <1>2, <1>3, <1>6, ItemIs
<1>8. /\ list \in Seq(Items) /\ Len(list) = l
      /\ list[1] = Current.items[left]
      /\ \A j \in 1..l : j # 1 => list[j] = items[j]
  <2>1. [items[1] EXCEPT !.action = Head(stream).n] = Current.items[left]
    BY <1>4, <1>5, <1>7
  <2>2. list = [items EXCEPT ![1] = Current.items[left]]
    BY <2>1
  <2> QED
    BY <1>3, <1>7, <2>2
<1> HIDE DEF list, l, c, h
<1>9. \A j \in 1..Len(list) : list[j] = Current.items[left - 1 + j]
  <2> SUFFICES ASSUME NEW j \in 1..l PROVE list[j] = Current.items[left - 1 + j]
    BY <1>8
  <2>1. CASE j = 1
    <3>1. left - 1 + j = left
      BY <1>3, <2>1
    <3> QED
      BY <1>8, <2>1, <3>1
  <2>2. CASE j # 1
    <3>1. j > 1
      BY <1>3, <2>2
    <3> QED
      BY <1>5, <1>8, <2>2, <3>1
  <2> QED
    BY <2>1, <2>2
<1>10. Len(list) + left = c + 1
  BY <1>5, <1>8
<1>11. r + 2 = start[h + 1] + 2 + IF type = "REGISTER" THEN Len(list) ELSE 2 * Len(list)
  <2>1. r \in Nat /\ l \in Nat /\ start[h + 1] \in Nat /\ r + 1 = start[h + 1] + 1 + 2 * l
    BY <1>2, <1>3, <1>5
  <2>2. r + 2 = start[h + 1] + 2 + 2 * l
    BY <2>1
  <2> QED
    BY <1>2, <1>8, <2>2
<1>12. ItemRead(list)
  BY <1>1 DEF EventRead, list
<1> QED
  BY <1>1, <1>8, <1>9, <1>10, <1>11, <1>12, ItemInStep DEF c, h
-----------------------------------------------------------------------------
(***************************************************************************)
(* The types, which hold of every connection.                              *)
(***************************************************************************)
LEMMA FreshMessage ==
  ASSUME produced \in Nat, NEW n \in Nat, NEW kind \in {"REGISTER", "FILE_UPDATE"}
  PROVE  /\ Whole(kind, Fresh(n)) \in Messages
         /\ WrittenAs(Written(kind, Fresh(n)), Whole(kind, Fresh(n)))
         /\ Written(kind, Fresh(n)) \in Seq(Parts) /\ Written(kind, Fresh(n)) # <<>>
<1>1. Fresh(n) \in Seq(Nat)
  BY FreshIds
<1>2. Whole(kind, Fresh(n)) \in Messages /\ WrittenAs(Written(kind, Fresh(n)), Whole(kind, Fresh(n)))
  BY <1>1, WholeMessage, WrittenWhole
<1>3. Length(Whole(kind, Fresh(n))) >= 1
  BY <1>2, MessageFacts
<1>4. /\ Written(kind, Fresh(n)) \in Seq(Parts)
      /\ Len(Written(kind, Fresh(n))) = Length(Whole(kind, Fresh(n)))
  BY <1>2 DEF WrittenAs
<1>5. Written(kind, Fresh(n)) # <<>>
  BY <1>3, <1>4
<1> QED
  BY <1>2, <1>4, <1>5

LEMMA HeadTail ==
  ASSUME NEW S, NEW s \in Seq(S), s # <<>>
  PROVE  Head(s) \in S /\ Tail(s) \in Seq(S)
  OBVIOUS

LEMMA OneLeft ==
  ASSUME NEW S, NEW s \in Seq(S), s # <<>>, Len(s) = 1
  PROVE  Tail(s) = <<>>
<1>1. Tail(s) \in Seq(S) /\ Len(Tail(s)) = 0
  OBVIOUS
<1>2. <<>> \in Seq(S) /\ Len(<<>>) = 0
  OBVIOUS
<1>3. 1..0 = {}
  OBVIOUS
<1> QED
  BY <1>1, <1>2, <1>3, SeqSame

LEMMA WriterTypes ==
  ASSUME MessageTypes, HandledTypes, UNCHANGED reader,
         \/ \E n \in 0..MaxFiles : Register(n)
         \/ \E t \in Reporters, n \in 1..MaxEvents : Report(t, n)
         \/ \E t \in Threads : SendPart(t)
         \/ Heartbeat
         \/ Stop
  PROVE  MessageTypes' /\ HandledTypes'
<1> USE DEF reader
<1>1. ASSUME NEW n \in 0..MaxFiles, Register(n) PROVE MessageTypes' /\ HandledTypes'
  <2> DEFINE m == Whole("REGISTER", Fresh(n))
             w == Written("REGISTER", Fresh(n))
  <2>1. n \in Nat /\ produced \in Nat
    BY BoundsAssumption DEF MessageTypes
  <2>2. m \in Messages /\ w \in Seq(Parts)
    BY <2>1, FreshMessage
  <2> HIDE DEF m, w
  <2>3. begun' = <<m>> /\ out' = [out EXCEPT ![Main] = w] /\ produced' = produced + n
    BY <1>1 DEF Register, m, w
  <2>4. begun' \in Seq(Messages) /\ out' \in [Threads -> Seq(Parts)] /\ produced' \in Nat
    <3>1. <<m>> \in Seq(Messages) /\ produced + n \in Nat
      BY <2>1, <2>2
    <3>2. out' \in [Threads -> Seq(Parts)]
      BY <2>2, <2>3 DEF MessageTypes
    <3> QED
      BY <2>3, <3>1, <3>2
  <2> QED
    BY <1>1, <2>4 DEF MessageTypes, HandledTypes, Register
<1>2. ASSUME NEW t \in Reporters, NEW n \in 1..MaxEvents, Report(t, n)
      PROVE  MessageTypes' /\ HandledTypes'
  <2> DEFINE m == Whole("FILE_UPDATE", Fresh(n))
             w == Written("FILE_UPDATE", Fresh(n))
  <2>1. n \in Nat /\ produced \in Nat
    BY BoundsAssumption DEF MessageTypes
  <2>2. m \in Messages /\ w \in Seq(Parts) /\ w # <<>>
    BY <2>1, FreshMessage
  <2> HIDE DEF m, w
  <2>3. /\ begun' = Append(begun, m) /\ out' = [out EXCEPT ![t] = Tail(w)]
        /\ stream' = Append(stream, Head(w)) /\ produced' = produced + n /\ commLock' = TRUE
    BY <1>2 DEF Report, m, w
  <2>4. Head(w) \in Parts /\ Tail(w) \in Seq(Parts)
    BY <2>2, HeadTail
  <2>5. /\ begun' \in Seq(Messages) /\ out' \in [Threads -> Seq(Parts)] /\ produced' \in Nat
        /\ stream' \in Seq(Parts)
    <3>1. produced + n \in Nat
      BY <2>1
    <3>2. begun' \in Seq(Messages)
      BY <2>2, <2>3 DEF MessageTypes
    <3>3. out' \in [Threads -> Seq(Parts)]
      BY <2>3, <2>4 DEF MessageTypes
    <3>4. stream' \in Seq(Parts)
      BY <2>3, <2>4 DEF MessageTypes
    <3> QED
      BY <2>3, <3>1, <3>2, <3>3, <3>4
  <2> QED
    BY <1>2, <2>3, <2>5 DEF MessageTypes, HandledTypes, Report
<1>3. ASSUME NEW t \in Threads, SendPart(t) PROVE MessageTypes' /\ HandledTypes'
  <2>1. out[t] \in Seq(Parts) /\ out[t] # <<>>
    BY <1>3 DEF MessageTypes, SendPart
  <2>2. Head(out[t]) \in Parts /\ Tail(out[t]) \in Seq(Parts)
    BY <2>1, HeadTail
  <2>3. out' = [out EXCEPT ![t] = Tail(out[t])] /\ stream' = Append(stream, Head(out[t]))
    BY <1>3 DEF SendPart
  <2>4. out' \in [Threads -> Seq(Parts)] /\ stream' \in Seq(Parts)
    BY <2>2, <2>3 DEF MessageTypes
  <2>5. commLock' \in BOOLEAN
    BY <1>3 DEF SendPart
  <2> QED
    BY <1>3, <2>4, <2>5 DEF MessageTypes, HandledTypes, SendPart
<1>4. ASSUME Heartbeat PROVE MessageTypes' /\ HandledTypes'
  <2>1. Part("KEEP_ALIVE", 0) \in Parts
    BY KindsOfParts DEF Part, Parts
  <2>2. [type |-> "KEEP_ALIVE", items |-> <<>>] \in Messages
    BY DEF Messages, HeaderTypes
  <2>3. stream' \in Seq(Parts) /\ begun' \in Seq(Messages)
    BY <1>4, <2>1, <2>2 DEF Heartbeat, MessageTypes
  <2>4. crossed' \in BOOLEAN
    BY <1>4 DEF Heartbeat
  <2> QED
    BY <1>4, <2>3, <2>4 DEF MessageTypes, HandledTypes, Heartbeat
<1>5. ASSUME Stop PROVE MessageTypes' /\ HandledTypes'
  BY <1>5 DEF MessageTypes, HandledTypes, Stop, writer
<1> QED
  BY <1>1, <1>2, <1>3, <1>4, <1>5

\* A list that has been delivered, or lacks nothing but the items still to come.
ReadTypes ==
  /\ left' \in Nat /\ (rdPc' \in {"file", "event"} => left' >= 1)
  /\ items' \in Seq(Items) /\ (rdPc' = "event" => items' # <<>>)
  /\ HandledTypes'

LEMMA DeliverTypes ==
  ASSUME MessageTypes, HandledTypes, NEW list \in Seq(Items), Deliver(list)
  PROVE  ReadTypes
<1>1. [type |-> type, items |-> list] \in [type : HeaderTypes \cup {"NONE"}, items : Seq(Items)]
  BY DEF MessageTypes
<1>2. HandledTypes'
  BY <1>1 DEF Deliver, HandledTypes
<1> QED
  BY <1>2 DEF Deliver, ReadTypes

LEMMA ItemTypes ==
  ASSUME MessageTypes, HandledTypes, NEW list \in Seq(Items), ItemRead(list),
         rdPc \in {"file", "event"}
  PROVE  ReadTypes
<1>1. CASE left = 1
  BY <1>1, DeliverTypes DEF ItemRead
<1>2. CASE left # 1
  <2>1. left \in Nat /\ left >= 1
    BY DEF MessageTypes
  <2>2. left - 1 \in Nat /\ left - 1 >= 1
    BY <1>2, <2>1
  <2> QED
    BY <1>2, <2>2 DEF ItemRead, ReadTypes, HandledTypes
<1> QED
  BY <1>1, <1>2

LEMMA FileReadTypes ==
  ASSUME MessageTypes, HandledTypes, NEW id \in Nat, FileRead(id), rdPc = "file"
  PROVE  ReadTypes
<1> DEFINE it == [file |-> id, action |-> Blank]
           list == <<it>> \o items
<1>1. it \in Items
  BY DEF Items, Blank
<1>2. list \in Seq(Items) /\ list # <<>>
  BY <1>1 DEF MessageTypes
<1> HIDE DEF list
<1>3. CASE type = "REGISTER"
  BY <1>2, <1>3, ItemTypes DEF FileRead, list
<1>4. CASE type # "REGISTER"
  <2>1. items' = list /\ rdPc' = "event" /\ left' = left /\ handled' = handled
    BY <1>4 DEF FileRead, list
  <2> QED
    BY <1>2, <2>1 DEF ReadTypes, MessageTypes, HandledTypes
<1> QED
  BY <1>3, <1>4

LEMMA EventReadTypes ==
  ASSUME MessageTypes, HandledTypes, NEW id \in Nat, EventRead(id), rdPc = "event"
  PROVE  ReadTypes
<1> DEFINE list == [items EXCEPT ![1].action = id]
<1>1. items \in Seq(Items) /\ items # <<>>
  BY DEF MessageTypes
<1>2. items[1] \in Items
  BY <1>1
<1>3. [items[1] EXCEPT !.action = id] \in Items
  BY <1>2 DEF Items
<1>4. list \in Seq(Items)
  BY <1>1, <1>3
<1> QED
  BY <1>4, ItemTypes DEF EventRead

LEMMA ReaderTypes ==
  ASSUME MessageTypes, HandledTypes, ReaderStep
  PROVE  MessageTypes' /\ HandledTypes'
<1>1. /\ stream' \in Seq(Parts) /\ type' \in HeaderTypes \cup {"NONE"} /\ UNCHANGED <<peer, writer>>
  <2>1. stream \in Seq(Parts) /\ type \in HeaderTypes \cup {"NONE"}
    BY DEF MessageTypes
  <2>2. stream # <<>> => Tail(stream) \in Seq(Parts)
    BY <2>1
  <2> QED
    BY <2>1, <2>2 DEF ReaderStep, ReadHeader, HangUp, ReadBody, ReadFile, ReadEvent, BodyZeros,
         FileZeros, EventZeros, BodyError, ListError, Misread, Waits, Comes, Take
<1>2. stream # <<>> => Head(stream).n \in Nat
  <2> SUFFICES ASSUME stream # <<>> PROVE Head(stream).n \in Nat
    OBVIOUS
  <2>1. Head(stream) \in Parts
    BY HeadTail DEF MessageTypes
  <2> QED
    BY <2>1 DEF Parts
<1>3. ReadTypes
  <2>0. <<>> \in Seq(Items) /\ Blank \in Nat
    BY DEF Blank
  <2>1. ASSUME NEW kind \in HeaderTypes, ReadHeader(kind) PROVE ReadTypes
    <3>1. CASE kind = "KEEP_ALIVE"
      <4>1. [type |-> kind, items |-> <<>>] \in [type : HeaderTypes \cup {"NONE"}, items : Seq(Items)]
        BY <2>0
      <4>2. handled' = Append(handled, [type |-> kind, items |-> <<>>])
        BY <2>1, <3>1 DEF ReadHeader
      <4>3. HandledTypes'
        BY <4>1, <4>2 DEF HandledTypes
      <4> QED
        BY <2>1, <3>1, <4>3 DEF ReadHeader, ReadTypes, MessageTypes, Waits
    <3>2. CASE kind # "KEEP_ALIVE"
      BY <2>1, <3>2 DEF ReadHeader, ReadTypes, MessageTypes, HandledTypes
    <3> QED
      BY <3>1, <3>2
  <2>2. CASE ReadBody
    <3>1. CASE Head(stream).n = 0
      BY <2>0, <2>2, <3>1, DeliverTypes DEF ReadBody
    <3>2. CASE Head(stream).n # 0
      BY <1>2, <2>2, <3>2 DEF ReadBody, Comes, ReadTypes, MessageTypes, HandledTypes
    <3> QED
      BY <3>1, <3>2
  <2>3. CASE ReadFile
    BY <1>2, <2>3, FileReadTypes DEF ReadFile, Waits, Comes
  <2>4. CASE ReadEvent
    BY <1>2, <2>4, EventReadTypes DEF ReadEvent, Waits, Comes
  <2>5. CASE BodyZeros \/ ListError
    BY <2>0, <2>5, DeliverTypes DEF BodyZeros, ListError
  <2>6. CASE FileZeros
    BY <2>0, <2>6, FileReadTypes DEF FileZeros, Waits
  <2>7. CASE EventZeros
    BY <2>0, <2>7, EventReadTypes DEF EventZeros, Waits
  <2>8. CASE HangUp \/ BodyError \/ Misread
    BY <2>8 DEF HangUp, BodyError, Misread, ReadTypes, MessageTypes, HandledTypes
  <2> QED
    BY <2>1, <2>2, <2>3, <2>4, <2>5, <2>6, <2>7, <2>8 DEF ReaderStep
<1> QED
  BY <1>1, <1>3 DEF ReadTypes, MessageTypes, writer
-----------------------------------------------------------------------------
(***************************************************************************)
(* The end of the connection in the middle of a message: it is the last    *)
(* one, it was not sent to its end, and what is missing reads as zeros.    *)
(***************************************************************************)
LEMMA BeforeNext ==
  ASSUME MessageTypes, HandledTypes, NEW start, NEW r, Layout(start, r), Place(start, r),
         rdPc # "header"
  PROVE  r + 1 < start[Len(handled) + 2]
<1> DEFINE c == Len(Current.items)
           l == Len(items)
           s == start[Len(handled) + 1]
           e == start[Len(handled) + 2]
<1>1. /\ Current \in Messages /\ s \in Nat /\ e = s + Length(Current)
      /\ type = Current.type /\ type \in {"REGISTER", "FILE_UPDATE"}
  BY CurrentFacts
<1>2. /\ c \in Nat /\ r \in Nat
      /\ type = "REGISTER" => Length(Current) = 2 + c
      /\ type = "FILE_UPDATE" => Length(Current) = 2 + 2 * c
  BY <1>1, LayoutFacts, MessageFacts
<1>3. /\ l \in Nat /\ left \in Nat /\ (rdPc \in {"file", "event"} => left >= 1)
  BY DEF MessageTypes
<1> HIDE DEF c, l, s, e
<1>4. CASE rdPc = "body"
  <2>1. r + 1 = s + 1
    BY <1>4 DEF Place, s
  <2> QED
    BY <1>1, <1>2, <2>1 DEF e
<1>5. CASE rdPc = "file"
  <2>1. l + left = c + 0 /\ left >= 1
    BY <1>3, <1>5 DEF Place, ItemsRead, c, l
  <2>2. r + 1 = s + 2 + IF type = "REGISTER" THEN l ELSE 2 * l
    BY <1>5 DEF Place, s, l
  <2>3. l < c
    BY <1>2, <1>3, <2>1
  <2>4. CASE type = "REGISTER"
    BY <1>1, <1>2, <1>3, <2>2, <2>3, <2>4 DEF e
  <2>5. CASE type = "FILE_UPDATE"
    BY <1>1, <1>2, <1>3, <2>2, <2>3, <2>5 DEF e
  <2> QED
    BY <1>1, <2>4, <2>5
<1>6. CASE rdPc = "event"
  <2>1. l + left = c + 1 /\ left >= 1 /\ type = "FILE_UPDATE"
    BY <1>3, <1>6 DEF Place, ItemsRead, c, l
  <2>2. r + 1 = s + 1 + 2 * l
    BY <1>6 DEF Place, s, l
  <2>3. l <= c
    BY <1>2, <1>3, <2>1
  <2> QED
    BY <1>1, <1>2, <1>3, <2>1, <2>2, <2>3 DEF e
<1> QED
  BY <1>4, <1>5, <1>6 DEF Place

LEMMA LastIsShort ==
  ASSUME MessageTypes, HandledTypes, NEW start, NEW r, Layout(start, r), Place(start, r),
         rdPc # "header", Ended
  PROVE  Missing /\ Len(handled) + 1 = Len(begun)
<1>1. /\ Len(handled) \in Nat /\ Len(begun) \in Nat /\ Len(handled) < Len(begun) /\ r \in Nat
      /\ start \in [1..(Len(begun) + 1) -> Nat]
  BY CurrentFacts, LayoutFacts
<1>2. r + 1 < start[Len(handled) + 2]
  BY BeforeNext
<1>3. stream = <<>> /\ Len(stream) = 0
  BY DEF Ended
<1>4. ~AllSent
  <2> SUFFICES ASSUME AllSent PROVE FALSE
    OBVIOUS
  <2>1. Len(Coming) = 0
    BY <1>3, RestTypes
  <2>2. start[Len(begun) + 1] = r + 0 + 1
    BY <2>1 DEF Layout
  <2>3. /\ Len(handled) + 2 \in 1..(Len(begun) + 1) /\ Len(begun) + 1 \in 1..(Len(begun) + 1)
        /\ Len(handled) + 2 <= Len(begun) + 1
    BY <1>1
  <2>4. start[Len(handled) + 2] <= start[Len(begun) + 1] /\ start[Len(handled) + 2] \in Nat
    BY <1>1, <2>3 DEF Layout
  <2> QED
    BY <1>1, <1>2, <2>2, <2>4
<1>5. Len(handled) + 1 = Len(begun)
  <2> SUFFICES ASSUME Len(handled) + 1 # Len(begun) PROVE FALSE
    OBVIOUS
  <2>1. start[Len(begun)] <= r + 0 + 1
    BY <1>3, <1>4 DEF Layout
  <2>2. /\ Len(handled) + 2 \in 1..(Len(begun) + 1) /\ Len(begun) \in 1..(Len(begun) + 1)
        /\ Len(handled) + 2 <= Len(begun)
    BY <1>1
  <2>3. /\ start[Len(handled) + 2] <= start[Len(begun)]
        /\ start[Len(handled) + 2] \in Nat /\ start[Len(begun)] \in Nat
    BY <1>1, <2>2 DEF Layout
  <2> QED
    BY <1>1, <1>2, <2>1, <2>3
<1> QED
  BY <1>4, <1>5 DEF Missing

\* What has been read in step is the end of the list ...
LEMMA PartlyInStep ==
  ASSUME MessageTypes, HandledTypes, NEW start, NEW r, Layout(start, r), Place(start, r),
         rdPc \in {"file", "event"}
  PROVE  Partly(items, Current.items)
<1> DEFINE c == Len(Current.items)
           l == Len(items)
           whole == Current.items
           d == c - l
<1>1. Current \in Messages
  BY CurrentFacts
<1>2. /\ c \in Nat /\ l \in Nat /\ left \in Nat /\ left >= 1
      /\ DOMAIN items = 1..l /\ DOMAIN whole = 1..c
  <2>1. items \in Seq(Items) /\ left \in Nat /\ left >= 1
    BY DEF MessageTypes
  <2> QED
    BY <1>1, <2>1, MessageFacts
<1>3. /\ d \in Nat
      /\ \A j \in 1..l : /\ items[j].file = whole[d + j].file
                         /\ items[j].action = whole[d + j].action \/ (j = 1 /\ items[j].action = Blank)
                         /\ j > 1 => items[j] = whole[d + j]
  <2>1. CASE rdPc = "file"
    <3>1. l + left = c + 0 /\ \A j \in 1..l : j > 0 => items[j] = whole[left - 0 + j]
      BY <1>2, <2>1 DEF Place, ItemsRead
    <3> HIDE DEF c, l, whole
    <3>2. d \in Nat /\ \A j \in 1..l : j > 0 /\ left - 0 + j = d + j
      BY <1>2, <3>1
    <3> QED
      BY <3>1, <3>2
  <2>2. CASE rdPc = "event"
    <3>1. /\ l + left = c + 1 /\ \A j \in 1..l : j > 1 => items[j] = whole[left - 1 + j]
          /\ items[1] = [file |-> whole[left].file, action |-> Blank]
      BY <1>2, <2>2 DEF Place, ItemsRead
    <3> HIDE DEF c, l, whole
    <3>2. d \in Nat /\ (\A j \in 1..l : left - 1 + j = d + j) /\ d + 1 = left
      <4>1. d + 1 = left /\ d \in Int
        BY <1>2, <3>1
      <4> QED
        <5>1. \A j \in 1..l : j \in Nat
          BY <1>2
        <5> HIDE DEF d
        <5> QED
          BY <1>2, <4>1, <5>1
    <3>3. \A j \in 1..l : j = 1 \/ j > 1
      BY <1>2
    <3> QED
      BY <3>1, <3>2, <3>3
  <2> QED
    BY <2>1, <2>2
<1>4. \A j \in 1..l : d + j \in 1..c
  <2>1. d \in Nat
    BY <1>3
  <2> HIDE DEF c, l
  <2> QED
    BY <1>2, <2>1
<1>5. \A i \in 1..c : whole[i].action # Blank => whole[i].file # Blank
  BY <1>1, <1>2 DEF Messages
<1>6. \A i, j \in 1..l : j > i => j > 1
  BY <1>2
<1> HIDE DEF l, whole, d
<1>7. /\ d >= 0
      /\ \A i \in 1..l :
           /\ items[i].file \in {whole[d + i].file, Blank}
           /\ items[i].action \in {whole[d + i].action, Blank}
           /\ items[i].action # Blank => items[i].file # Blank
           /\ items[i].file # Blank => \A j \in 1..l : j > i => items[j] = whole[d + j]
  BY <1>3, <1>4, <1>5, <1>6
<1> QED
  BY <1>2, <1>7 DEF Partly, l, whole, d

\* ... and remains so when an item of zeros is put before it.
LEMMA PartlyZeros ==
  ASSUME NEW list \in Seq(Items), NEW whole \in Seq(Items), Partly(list, whole),
         Len(list) < Len(whole)
  PROVE  Partly(<<[file |-> Blank, action |-> Blank]>> \o list, whole)
<1> DEFINE it == [file |-> Blank, action |-> Blank]
           more == <<it>> \o list
           l == Len(list)
           d == Len(whole) - Len(list)
           e == Len(whole) - Len(more)
<1>1. it \in Items /\ it.file = Blank /\ it.action = Blank
  BY DEF Items, Blank
<1>2. /\ more \in Seq(Items) /\ Len(more) = l + 1 /\ more[1] = it
      /\ \A j \in 1..(l + 1) : j = 1 \/ (j - 1 \in 1..l /\ more[j] = list[j - 1])
  BY <1>1, PutFirst
<1> HIDE DEF more, it
<1>3. /\ l \in Nat /\ Len(whole) \in Nat /\ DOMAIN list = 1..l /\ DOMAIN more = 1..(l + 1)
  BY <1>2
<1>4. e >= 0 /\ e = d - 1 /\ d \in Int
  <2>1. Len(more) = l + 1
    BY <1>2
  <2> QED
    BY <1>3, <2>1
<1>5. \A i \in 1..l : /\ list[i].file \in {whole[d + i].file, Blank}
                      /\ list[i].action \in {whole[d + i].action, Blank}
                      /\ list[i].action # Blank => list[i].file # Blank
                      /\ list[i].file # Blank => \A j \in 1..l : j > i => list[j] = whole[d + j]
  BY <1>3 DEF Partly
<1> HIDE DEF d, e, l
<1>6. \A j \in 1..(l + 1) : d + (j - 1) = e + j
  BY <1>3, <1>4
<1>7. \A i, j \in 1..(l + 1) : j > i /\ i # 1 => j # 1 /\ j - 1 > i - 1
  BY <1>3
<1>8. ASSUME NEW i \in 1..(l + 1)
      PROVE  /\ more[i].file \in {whole[e + i].file, Blank}
             /\ more[i].action \in {whole[e + i].action, Blank}
             /\ more[i].action # Blank => more[i].file # Blank
             /\ more[i].file # Blank => \A j \in 1..(l + 1) : j > i => more[j] = whole[e + j]
  <2>1. CASE i = 1
    BY <1>1, <1>2, <2>1
  <2>2. CASE i # 1
    <3>1. i - 1 \in 1..l /\ more[i] = list[i - 1] /\ d + (i - 1) = e + i
      BY <1>2, <1>6, <2>2
    <3>2. /\ more[i].file \in {whole[e + i].file, Blank}
          /\ more[i].action \in {whole[e + i].action, Blank}
          /\ more[i].action # Blank => more[i].file # Blank
      BY <1>5, <3>1
    <3>3. ASSUME more[i].file # Blank, NEW j \in 1..(l + 1), j > i PROVE more[j] = whole[e + j]
      <4>1. j # 1 /\ j - 1 > i - 1 /\ d + (j - 1) = e + j
        BY <1>6, <1>7, <2>2, <3>3
      <4>2. j - 1 \in 1..l /\ more[j] = list[j - 1]
        BY <1>2, <4>1
      <4>3. list[j - 1] = whole[d + (j - 1)]
        BY <1>5, <3>1, <3>3, <4>1, <4>2
      <4> QED
        BY <4>1, <4>2, <4>3
    <3> QED
      BY <3>2, <3>3
  <2> QED
    BY <2>1, <2>2
<1>9. Partly(more, whole)
  BY <1>3, <1>4, <1>8 DEF Partly, e
<1> QED
  BY <1>9 DEF more, it

\* What is short of the last message is what the reader has of it.
ShortSoFar ==
  /\ Missing /\ Len(handled) + 1 = Len(begun) /\ HandledAsSent(Len(handled))
  /\ type = Current.type /\ Current \in Messages

LEMMA DeliverShort ==
  ASSUME MessageTypes, HandledTypes, ShortSoFar, UNCHANGED <<stream, peer, writer, type>>,
         NEW list \in Seq(Items), Deliver(list),
         list = <<>> \/ (Len(list) = Len(Current.items) /\ Partly(list, Current.items))
  PROVE  HandledShort'
<1> DEFINE got == [type |-> type, items |-> list]
<1>0. PICK h \in Nat : h = Len(handled)
  BY DEF HandledTypes
<1>1. Len(begun) = h + 1 /\ begun[h + 1] = Current /\ begun' = begun
  BY <1>0 DEF ShortSoFar, Current, writer
<1>2. /\ Len(handled') = h + 1 /\ handled'[h + 1] = got
      /\ \A i \in 1..h : handled'[i] = handled[i]
  BY <1>0 DEF HandledTypes, Deliver
<1>3. HandledAsSent(h)'
  <2>1. \A i \in 1..h : handled'[i] = begun[i]
    BY <1>0, <1>2 DEF ShortSoFar, HandledAsSent
  <2> QED
    BY <1>1, <1>2, <2>1 DEF HandledAsSent
<1>4. CutShort(got, Current)
  <2>1. got.type = Current.type /\ got.items = list
    BY DEF ShortSoFar
  <2>2. CASE list = <<>>
    BY <2>1, <2>2 DEF CutShort
  <2>3. CASE Len(list) = Len(Current.items) /\ Partly(list, Current.items)
    <3>1. Len(list) \in Nat /\ DOMAIN list = 1..Len(list)
      OBVIOUS
    <3>2. Len(Current.items) - Len(list) = 0
      BY <2>3, <3>1
    <3>3. \A i \in 1..Len(list) : 0 + i = i
      OBVIOUS
    <3> HIDE DEF got
    <3> QED
      BY <2>1, <2>3, <3>1, <3>2, <3>3 DEF CutShort, Partly
  <2> QED
    BY <2>2, <2>3
<1>5. Missing' /\ rdPc' = "header"
  BY DEF ShortSoFar, Missing, Ended, AllSent, writer, Deliver
<1>6. Len(handled') - 1 = h
  BY <1>2
<1>7. HandledAsSent(Len(handled) - 1)'
  BY <1>3, <1>6
<1> HIDE DEF got
<1>8. CutShort(handled'[Len(handled')], begun'[Len(handled')])
  BY <1>1, <1>2, <1>4
<1> QED
  BY <1>1, <1>2, <1>5, <1>7, <1>8 DEF HandledShort

LEMMA ShortCurrent ==
  ASSUME MessageTypes, ReadingZeros
  PROVE  ShortSoFar
<1>1. Len(handled) \in Nat /\ Len(handled) + 1 = Len(begun)
  BY DEF ReadingZeros, HandledAsSent
<1>2. Len(handled) + 1 \in DOMAIN begun /\ begun \in Seq(Messages)
  BY <1>1 DEF MessageTypes
<1>3. begun[Len(handled) + 1] \in Messages
  BY <1>2, ElementOf
<1> QED
  BY <1>3 DEF ReadingZeros, ShortSoFar, Current

LEMMA ItemShort ==
  ASSUME MessageTypes, HandledTypes, ShortSoFar, UNCHANGED <<stream, peer, writer, type>>,
         rdPc \in {"file", "event"}, NEW list \in Seq(Items), Partly(list, Current.items),
         Len(list) + left = Len(Current.items) + 1, ItemRead(list)
  PROVE  ReadingZeros' \/ HandledShort'
<1>1. left \in Nat /\ Len(list) \in Nat /\ Len(Current.items) \in Nat
  BY MessageFacts DEF MessageTypes, ShortSoFar
<1>2. CASE left = 1
  <2>1. Len(list) = Len(Current.items)
    BY <1>1, <1>2
  <2> QED
    BY <1>2, <2>1, DeliverShort DEF ItemRead
<1>3. CASE left # 1
  <2>1. items' = list /\ left' = left - 1 /\ rdPc' = "file" /\ handled' = handled /\ begun' = begun
    BY <1>3 DEF ItemRead, writer
  <2>2. Current' = Current
    BY <2>1 DEF Current
  <2>3. Len(list) + (left - 1) = Len(Current.items)
    BY <1>1
  <2>4. Missing' /\ HandledAsSent(Len(handled))'
    BY <2>1 DEF ShortSoFar, Missing, Ended, AllSent, HandledAsSent, writer
  <2>5. Partly(items, Current.items)'
    BY <2>1, <2>2 DEF Partly
  <2> QED
    BY <2>1, <2>2, <2>3, <2>4, <2>5 DEF ReadingZeros, ShortSoFar
<1> QED
  BY <1>2, <1>3

LEMMA ZerosRead ==
  ASSUME MessageTypes, HandledTypes, ReadingZeros, FileZeros \/ EventZeros \/ ListError
  PROVE  ReadingZeros' \/ HandledShort'
<1>1. ShortSoFar
  BY ShortCurrent
<1>2. UNCHANGED <<stream, peer, writer, type>>
  BY DEF FileZeros, EventZeros, ListError, Waits
<1>3. /\ items \in Seq(Items) /\ left \in Nat /\ left >= 1
      /\ Current \in Messages /\ Current.items \in Seq(Items) /\ type = Current.type
  BY <1>1, MessageFacts DEF MessageTypes, ReadingZeros, ShortSoFar
<1>4. Partly(items, Current.items)
  BY DEF ReadingZeros
<1>5. CASE ListError
  <2>1. <<>> \in Seq(Items) /\ Deliver(<<>>)
    BY <1>5 DEF ListError
  <2> QED
    BY <1>1, <1>2, <2>1, DeliverShort
<1>6. CASE FileZeros
  <2> DEFINE c == Len(Current.items)
             list == <<[file |-> Blank, action |-> Blank]>> \o items
  <2>1. rdPc = "file" /\ Len(items) + left = c /\ FileRead(Blank)
    BY <1>6 DEF FileZeros, Waits, ReadingZeros
  <2>2. Len(items) \in Nat /\ c \in Nat
    BY <1>3
  <2>3. Len(items) < c
    BY <1>3, <2>1, <2>2
  <2>4. Partly(list, Current.items)
    BY <1>3, <1>4, <2>3, PartlyZeros
  <2>5. [file |-> Blank, action |-> Blank] \in Items
    BY DEF Items, Blank
  <2>6. list \in Seq(Items) /\ Len(list) = Len(items) + 1 /\ list[1] = [file |-> Blank, action |-> Blank]
    BY <1>3, <2>5, PutFirst
  <2> HIDE DEF list, c
  <2>7. Len(list) + left = c + 1
    BY <1>3, <2>1, <2>2, <2>6
  <2>8. CASE type = "REGISTER"
    <3>1. ItemRead(list)
      BY <2>1, <2>8 DEF FileRead, list
    <3> QED
      BY <1>1, <1>2, <2>1, <2>4, <2>6, <2>7, <3>1, ItemShort DEF c
  <2>9. CASE type # "REGISTER"
    <3>1. items' = list /\ rdPc' = "event" /\ left' = left /\ handled' = handled /\ begun' = begun
      BY <1>2, <2>1, <2>9 DEF FileRead, list, writer
    <3>2. Current' = Current
      BY <3>1 DEF Current
    <3>3. Missing' /\ HandledAsSent(Len(handled))'
      BY <1>1, <1>2, <3>1 DEF ShortSoFar, Missing, Ended, AllSent, HandledAsSent, writer
    <3>4. type = "FILE_UPDATE"
      <4>1. Len(items) + left # 0
        BY <1>3, <2>2
      <4>2. c # 0
        BY <2>1, <4>1
      <4>3. type # "KEEP_ALIVE"
        BY <1>3, <4>2, MessageFacts DEF c
      <4> QED
        BY <1>3, <2>9, <4>3, MessageFacts DEF HeaderTypes
    <3>5. Partly(items, Current.items)'
      BY <2>4, <3>1, <3>2 DEF Partly
    <3>6. items'[1].action = Blank
      BY <2>6, <3>1
    <3> QED
      BY <1>1, <1>2, <2>7, <3>1, <3>2, <3>3, <3>4, <3>5, <3>6 DEF ReadingZeros, ShortSoFar, c
  <2> QED
    BY <2>8, <2>9
<1>7. CASE EventZeros
  <2>1. /\ rdPc = "event" /\ EventRead(Blank) /\ items[1].action = Blank
        /\ Len(items) + left = Len(Current.items) + 1
    BY <1>7 DEF EventZeros, Waits, ReadingZeros
  <2>2. [items EXCEPT ![1].action = Blank] = items
    <3>1. items # <<>>
      BY <2>1 DEF MessageTypes
    <3>2. 1 \in DOMAIN items /\ items[1] \in Items
      BY <1>3, <3>1
    <3>3. [items[1] EXCEPT !.action = Blank] = items[1]
      BY <2>1, <3>2 DEF Items
    <3> QED
      BY <1>3, <3>2, <3>3
  <2>3. ItemRead(items)
    BY <2>1, <2>2 DEF EventRead
  <2> QED
    BY <1>1, <1>2, <1>3, <1>4, <2>1, <2>3, ItemShort
<1> QED
  BY <1>5, <1>6, <1>7

\* Where the end of the connection finds a reader in step.
LEMMA EndInStep ==
  ASSUME MessageTypes, HandledTypes, InStep, Ended, rdPc # "header"
  PROVE  /\ ShortSoFar
         /\ rdPc \in {"file", "event"} => ReadingZeros
<1>1. PICK start, r : Layout(start, r) /\ Place(start, r)
  BY DEF InStep
<1>2. Missing /\ Len(handled) + 1 = Len(begun)
  BY <1>1, LastIsShort
<1>3. Current \in Messages /\ type = Current.type
  BY <1>1, CurrentFacts
<1>4. HandledAsSent(Len(handled))
  BY DEF InStep
<1>5. ASSUME rdPc \in {"file", "event"} PROVE ReadingZeros
  <2>1. Partly(items, Current.items)
    BY <1>1, <1>5, PartlyInStep
  <2>2. CASE rdPc = "file"
    <3>1. Len(items) + left = Len(Current.items) + 0
      BY <1>1, <2>2 DEF Place, ItemsRead
    <3>2. Len(Current.items) \in Nat
      BY <1>3, MessageFacts
    <3>3. Len(items) + left = Len(Current.items)
      BY <3>1, <3>2
    <3> QED
      BY <1>2, <1>3, <1>4, <2>1, <2>2, <3>3 DEF ReadingZeros
  <2>3. CASE rdPc = "event"
    <3>1. /\ Len(items) + left = Len(Current.items) + 1 /\ type = "FILE_UPDATE"
          /\ items[1] = [file |-> Current.items[left].file, action |-> Blank]
      BY <1>1, <2>3 DEF Place, ItemsRead
    <3> QED
      BY <1>2, <1>3, <1>4, <2>1, <2>3, <3>1 DEF ReadingZeros
  <2> QED
    BY <1>5, <2>2, <2>3
<1> QED
  BY <1>2, <1>3, <1>4, <1>5 DEF ShortSoFar
-----------------------------------------------------------------------------
(***************************************************************************)
(* The peer: what each of its steps does to a reader in step.              *)
(***************************************************************************)
LEMMA BeginsInStep ==
  ASSUME MessageTypes, HandledTypes, InStep, UNCHANGED reader,
         NEW t \in Threads, NEW w, Begins(t, w),
         NEW new \in Messages, WrittenAs(w, new), begun' = Append(begun, new)
  PROVE  InStep'
<1>1. PICK start, r : Layout(start, r) /\ Place(start, r)
  BY DEF InStep
<1>2. PICK next \in [1..(Len(begun') + 1) -> Nat] :
        Layout(next, r)' /\ \A m \in 1..(Len(begun) + 1) : next[m] = start[m]
  BY <1>1, LayoutBegins
<1>3. /\ begun' \in Seq(Messages) /\ Len(begun) \in Nat /\ Len(begun') = Len(begun) + 1
      /\ \A i \in 1..Len(begun) : begun'[i] = begun[i]
  BY DEF MessageTypes
<1>4. Len(begun) <= Len(begun')
  BY <1>3
<1>5. HandledAsSent(Len(handled)) /\ handled' = handled
  BY DEF InStep, reader
<1>6. Len(handled) \in Nat /\ Len(handled) <= Len(begun)
  BY <1>5 DEF HandledAsSent
<1>7. Place(next, r)'
  BY <1>1, <1>2, <1>3, <1>4, <1>6, PlaceKept
<1>8. HandledAsSent(Len(handled))'
  <2>1. \A i \in 1..Len(handled) : handled'[i] = begun'[i]
    BY <1>3, <1>5, <1>6 DEF HandledAsSent
  <2>2. Len(handled) <= Len(begun')
    BY <1>3, <1>6
  <2> QED
    BY <1>5, <1>6, <2>1, <2>2 DEF HandledAsSent
<1>9. r \in Nat
  BY <1>1 DEF Layout
<1> QED
  BY <1>2, <1>7, <1>8, <1>9 DEF InStep

\* When Main is in the middle of its REGISTER, nothing has been handled.
LEMMA NobodyElse ==
  ASSUME MessageTypes, HandledTypes, Alone, InStep, Registered
  PROVE  out[Main] = <<>>
<1> SUFFICES ASSUME out[Main] # <<>> PROVE FALSE
  OBVIOUS
<1>1. PICK start, r : Layout(start, r) /\ Place(start, r)
  BY DEF InStep
<1>2. Len(begun) = 1
  BY DEF Alone
<1>3. handled # <<>> /\ Len(handled) \in Nat /\ Len(handled) <= Len(begun)
  BY DEF InStep, HandledAsSent, Registered
<1>4. Len(handled) # 0
  BY <1>3 DEF HandledTypes
<1>5. Len(handled) = Len(begun)
  BY <1>2, <1>3, <1>4
<1>6. rdPc = "header" /\ r + 1 = start[Len(begun) + 1]
  BY <1>1, <1>2, <1>5 DEF Place
<1>7. start[Len(begun) + 1] = r + Len(Coming) + 1 /\ r \in Nat
  BY <1>1 DEF Layout
<1>8. Main \in Threads /\ out[Main] \in Seq(Parts) /\ stream \in Seq(Parts)
  BY DEF Threads, MessageTypes
<1>9. Rest = out[Main]
  BY <1>8, RestIs DEF Alone
<1>10. Len(Coming) = Len(stream) + Len(out[Main])
  BY <1>9, RestTypes
<1>11. Len(stream) \in Nat /\ Len(out[Main]) \in Nat /\ Len(out[Main]) # 0
  BY <1>8
<1> QED
  BY <1>6, <1>7, <1>10, <1>11

LEMMA InStepKept ==
  ASSUME InStep, UNCHANGED <<stream, out, begun, reader>>
  PROVE  InStep'
<1>1. PICK start \in [1..(Len(begun) + 1) -> Nat], r \in Nat : Layout(start, r) /\ Place(start, r)
  BY DEF InStep
<1>2. Coming' = Coming /\ (AllSent' <=> AllSent)
  BY DEF Coming, Rest, AllSent
<1>3. \A s, m : Laid(r, s, m) => Laid(r, s, m)'
  BY <1>2 DEF Laid, Carries
<1>4. Layout(start, r)'
  <2>1. \A m \in DOMAIN begun : /\ start[m + 1] = start[m] + Length(begun[m])
                                /\ Laid(r, start[m], begun[m])'
    BY <1>1, <1>3 DEF Layout
  <2> QED
    BY <1>1, <1>2, <2>1 DEF Layout
<1>5. Place(start, r)' /\ HandledAsSent(Len(handled))'
  BY <1>1 DEF InStep, Place, ItemsRead, Current, HandledAsSent, reader
<1> QED
  BY <1>1, <1>4, <1>5 DEF InStep

LEMMA WritersInStep ==
  ASSUME MessageTypes, HandledTypes, Alone, InStep, UNCHANGED reader, ~crossed',
         \/ \E n \in 0..MaxFiles : Register(n)
         \/ \E t \in Reporters, n \in 1..MaxEvents : Report(t, n)
         \/ \E t \in Threads : SendPart(t)
         \/ Heartbeat
         \/ Stop
  PROVE  Alone' /\ InStep'
<1>0. Main \in Threads /\ Main \notin Reporters /\ Threads = Reporters \cup {Main} /\ produced \in Nat
  BY ThreadsAssumption DEF Threads, MessageTypes
<1>1. ASSUME NEW n \in 0..MaxFiles, Register(n) PROVE Alone' /\ InStep'
  <2> DEFINE m == Whole("REGISTER", Fresh(n))
             w == Written("REGISTER", Fresh(n))
  <2>1. m \in Messages /\ WrittenAs(w, m) /\ w \in Seq(Parts) /\ w # <<>>
    <3>1. n \in Nat
      BY BoundsAssumption
    <3> QED
      BY <1>0, <3>1, FreshMessage DEF m, w
  <2> HIDE DEF m, w
  <2>2. /\ begun = <<>> /\ begun' = <<m>> /\ stream' = stream
        /\ out \in [Threads -> Seq(Parts)] /\ out' = [out EXCEPT ![Main] = w]
    BY <1>1 DEF Register, MessageTypes, m, w
  <2>3. AllSent
    <3>1. PICK start, r : Layout(start, r)
      BY DEF InStep
    <3> QED
      BY <2>2, <3>1 DEF Layout
  <2>4. out'[Main] = w /\ \A u \in Threads \ {Main} : out'[u] = <<>>
    BY <1>0, <2>2, <2>3 DEF AllSent
  <2>5. PICK v : v = w
    OBVIOUS
  <2>a. PICK new \in Messages : new = m
    BY <2>1
  <2>6. Begins(Main, v) /\ WrittenAs(v, new)
    BY <2>1, <2>2, <2>3, <2>4, <2>5, <2>a DEF Begins
  <2>7. begun' = Append(begun, new)
    BY <2>2, <2>a
  <2>8. InStep'
    BY <1>0, <2>6, <2>7, BeginsInStep
  <2>9. Len(begun') = 1
    BY <2>2
  <2>10. Alone'
    BY <1>0, <2>4, <2>9 DEF Alone
  <2> QED
    BY <2>8, <2>10
<1>2. ASSUME NEW t \in Reporters, NEW n \in 1..MaxEvents, Report(t, n) PROVE Alone' /\ InStep'
  <2> DEFINE m == Whole("FILE_UPDATE", Fresh(n))
             w == Written("FILE_UPDATE", Fresh(n))
  <2>1. m \in Messages /\ WrittenAs(w, m) /\ w \in Seq(Parts) /\ w # <<>>
    <3>1. n \in Nat
      BY BoundsAssumption
    <3> QED
      BY <1>0, <3>1, FreshMessage DEF m, w
  <2> HIDE DEF m, w
  <2>2. /\ begun' = Append(begun, m) /\ stream' = Append(stream, Head(w)) /\ commLock' = TRUE
        /\ out \in [Threads -> Seq(Parts)] /\ out' = [out EXCEPT ![t] = Tail(w)]
        /\ ~commLock /\ Registered
    BY <1>2 DEF Report, MessageTypes, m, w
  <2>3. AllSent
    BY <1>0, <2>2, NobodyElse DEF Alone, AllSent
  <2>4. t \in Threads /\ out'[t] = Tail(w) /\ \A u \in Threads \ {t} : out'[u] = <<>>
    BY <1>0, <2>2, <2>3 DEF AllSent
  <2>5. PICK v : v = w
    OBVIOUS
  <2>a. PICK new \in Messages : new = m
    BY <2>1
  <2>6. Begins(t, v) /\ WrittenAs(v, new) /\ begun' = Append(begun, new)
    BY <2>1, <2>2, <2>3, <2>4, <2>5, <2>a DEF Begins
  <2>7. InStep'
    BY <2>4, <2>6, BeginsInStep
  <2>8. Alone'
    BY <1>0, <2>2, <2>4 DEF Alone
  <2> QED
    BY <2>7, <2>8
<1>3. ASSUME NEW t \in Threads, SendPart(t) PROVE Alone' /\ InStep'
  <2>1. /\ out[t] # <<>> /\ stream' = Append(stream, Head(out[t]))
        /\ out' = [out EXCEPT ![t] = Tail(@)] /\ out \in [Threads -> Seq(Parts)]
        /\ commLock' = (commLock /\ ~(t \in Reporters /\ Len(out[t]) = 1))
        /\ begun' = begun
    BY <1>3 DEF SendPart, MessageTypes
  <2>2. \A u \in Threads : out[u] # <<>> => u = t
    BY <2>1 DEF Alone
  <2>3. PICK start \in [1..(Len(begun) + 1) -> Nat], r \in Nat : Layout(start, r) /\ Place(start, r)
    BY DEF InStep
  <2>4. Layout(start, r)'
    BY <2>1, <2>2, <2>3, LayoutSend
  <2>5. Place(start, r)' /\ HandledAsSent(Len(handled))'
    BY <2>1, <2>3 DEF Place, ItemsRead, Current, InStep, HandledAsSent, reader
  <2>6. InStep'
    BY <2>1, <2>3, <2>4, <2>5 DEF InStep
  <2>7. out'[t] = Tail(out[t]) /\ \A u \in Threads : u # t => out'[u] = <<>>
    BY <2>1, <2>2
  <2>8. Len(out[t]) = 1 => out'[t] = <<>>
    <3>1. out[t] \in Seq(Parts)
      BY <2>1
    <3>2. Len(out[t]) = 1 => Tail(out[t]) = <<>>
      BY <2>1, <3>1, OneLeft
    <3> QED
      BY <2>7, <3>2
  <2>9. t \in Reporters => commLock
    BY <2>1 DEF Alone
  <2>10. Alone'
    BY <1>0, <2>1, <2>7, <2>8, <2>9 DEF Alone
  <2> QED
    BY <2>6, <2>10
<1>4. ASSUME Heartbeat PROVE Alone' /\ InStep'
  <2> DEFINE p == Part("KEEP_ALIVE", 0)
  <2>1. /\ AllSent /\ out' = out /\ stream' = Append(stream, p) /\ commLock' = commLock
        /\ begun' = Append(begun, [type |-> "KEEP_ALIVE", items |-> <<>>])
    BY <1>4 DEF Heartbeat, AllSent
  <2>2. p \in Parts
    BY KindsOfParts DEF Part, Parts
  <2>3. PICK w : w = <<p>>
    OBVIOUS
  <2>4. PICK new : new = [type |-> "KEEP_ALIVE", items |-> <<>>]
    OBVIOUS
  <2>5. /\ w \in Seq(Parts) /\ w # <<>> /\ Head(w) = p /\ Tail(w) = <<>> /\ Len(w) = 1 /\ w[1] = p
    BY <2>2, <2>3
  <2>6. new \in Messages /\ new.type = "KEEP_ALIVE"
    BY <2>4 DEF Messages, HeaderTypes
  <2>7. WrittenAs(w, new)
    BY <2>5, <2>6 DEF WrittenAs, Length
  <2>8. \A u \in Threads : out'[u] = <<>>
    BY <2>1 DEF AllSent
  <2>9. Begins(Main, w)
    <3>1. stream' = Append(stream, Head(w)) /\ out'[Main] = Tail(w)
      BY <1>0, <2>1, <2>5, <2>8
    <3> QED
      BY <2>1, <2>5, <2>8, <3>1 DEF Begins
  <2>10. InStep'
    BY <1>0, <2>1, <2>4, <2>6, <2>7, <2>9, BeginsInStep
  <2>11. Alone'
    BY <1>0, <2>8 DEF Alone
  <2> QED
    BY <2>10, <2>11
<1>5. ASSUME Stop PROVE Alone' /\ InStep'
  <2>1. UNCHANGED <<stream, out, begun, commLock, reader>>
    BY <1>5 DEF Stop, writer
  <2> QED
    BY <2>1, InStepKept DEF Alone
<1> QED
  BY <1>1, <1>2, <1>3, <1>4, <1>5

(***************************************************************************)
(* The reader, in each of the four states of the connection.               *)
(***************************************************************************)
LEMMA NoMisread ==
  ASSUME MessageTypes, HandledTypes, InStep
  PROVE  ~Misread
<1> SUFFICES ASSUME Misread PROVE FALSE
  OBVIOUS
<1>1. PICK start, r : Layout(start, r) /\ Place(start, r)
  BY DEF InStep
<1>2. /\ stream # <<>>
      /\ IF rdPc = "header" THEN Head(stream).kind \notin HeaderTypes ELSE Head(stream).kind # rdPc
  BY DEF Misread, Comes
<1>3. CASE rdPc = "header"
  <2>1. Len(handled) <= Len(begun)
    BY DEF InStep, HandledAsSent
  <2>2. Current \in Messages /\ Head(stream) = Part(Current.type, 0)
    BY <1>1, <1>2, <1>3, <2>1, NextHeader
  <2> QED
    BY <1>2, <1>3, <2>2, MessageFacts DEF Part
<1>4. CASE rdPc = "body"
  BY <1>1, <1>2, <1>4, NextBody DEF Part
<1>5. CASE rdPc = "file"
  BY <1>1, <1>2, <1>5, NextFile DEF Part
<1>6. CASE rdPc = "event"
  BY <1>1, <1>2, <1>6, NextEvent DEF Part
<1> QED
  BY <1>1, <1>3, <1>4, <1>5, <1>6 DEF Place

LEMMA ReaderInStep ==
  ASSUME MessageTypes, HandledTypes, InStep, ReaderStep
  PROVE  InStep' \/ ReadingZeros' \/ HandledShort' \/ Over'
<1>1. PICK start \in [1..(Len(begun) + 1) -> Nat], r \in Nat : Layout(start, r) /\ Place(start, r)
  BY DEF InStep
<1>2. HandledAsSent(Len(handled))
  BY DEF InStep
<1>3. out' = out /\ begun' = begun
  BY DEF ReaderStep, ReadHeader, HangUp, ReadBody, ReadFile, ReadEvent, BodyZeros,
     FileZeros, EventZeros, BodyError, ListError, Misread, Waits, writer
<1>4. CASE (\E kind \in HeaderTypes : ReadHeader(kind)) \/ ReadBody \/ ReadFile \/ ReadEvent
  <2>1. stream # <<>> /\ stream' = Tail(stream)
    BY <1>4 DEF ReadHeader, ReadBody, ReadFile, ReadEvent, Comes, Take
  <2>2. Layout(start, r + 1)'
    BY <1>1, <1>3, <2>1, LayoutRead
  <2>3. HandledAsSent(Len(handled))' /\ Place(start, r + 1)'
    BY <1>1, <1>2, <1>4, HeaderInStep, BodyInStep, FileInStep, EventInStep
  <2>4. r + 1 \in Nat
    BY <1>1
  <2>5. PICK q \in Nat : q = r + 1
    BY <2>4
  <2>6. Layout(start, q)' /\ Place(start, q)'
    BY <2>2, <2>3, <2>5
  <2>7. InStep'
    BY <1>1, <1>3, <2>3, <2>5, <2>6 DEF InStep
  <2> QED
    BY <2>7
<1>5. CASE HangUp
  BY <1>2, <1>5 DEF HangUp, Over, HandledAsSent, Waits, Ended, writer
<1>6. CASE BodyZeros
  <2>1. ShortSoFar
    BY <1>6, EndInStep DEF BodyZeros, Waits
  <2>2. <<>> \in Seq(Items) /\ Deliver(<<>>) /\ UNCHANGED <<stream, peer, writer, type>>
    BY <1>6 DEF BodyZeros, Waits
  <2> QED
    BY <2>1, <2>2, DeliverShort
<1>7. CASE FileZeros \/ EventZeros \/ ListError
  <2>1. ReadingZeros
    BY <1>7, EndInStep DEF FileZeros, EventZeros, ListError, Waits
  <2> QED
    BY <1>7, <2>1, ZerosRead
<1>8. CASE BodyError
  BY <1>2, <1>8 DEF BodyError, Over, HandledAsSent, Waits, writer
<1> QED
  BY <1>4, <1>5, <1>6, <1>7, <1>8, NoMisread DEF ReaderStep

LEMMA ReaderAtEnd ==
  ASSUME MessageTypes, HandledTypes, ReadingZeros \/ HandledShort \/ Over, ReaderStep
  PROVE  ReadingZeros' \/ HandledShort' \/ Over'
<1>1. CASE ReadingZeros
  <2>1. stream = <<>> /\ rdPc \in {"file", "event"}
    BY <1>1 DEF ReadingZeros, Missing, Ended
  <2>2. FileZeros \/ EventZeros \/ ListError
    BY <2>1 DEF ReaderStep, ReadHeader, HangUp, ReadBody, ReadFile, ReadEvent, BodyZeros,
       BodyError, Misread, Waits, Comes
  <2> QED
    BY <1>1, <2>2, ZerosRead
<1>2. CASE HandledShort
  <2>1. stream = <<>> /\ rdPc \in {"header", "finished"}
    BY <1>2 DEF HandledShort, Missing, Ended
  <2>2. HangUp
    BY <2>1 DEF ReaderStep, ReadHeader, ReadBody, ReadFile, ReadEvent, BodyZeros, FileZeros,
       EventZeros, ListError, BodyError, Misread, Waits, Comes, Ends
  <2> QED
    BY <1>2, <2>2 DEF HangUp, HandledShort, Missing, Ended, AllSent, HandledAsSent, Waits, writer
<1>3. CASE Over
  <2>1. rdPc \in {"finished", "crashed"}
    BY <1>3 DEF Over
  <2> QED
    BY <2>1 DEF ReaderStep, ReadHeader, HangUp, ReadBody, ReadFile, ReadEvent, BodyZeros,
       FileZeros, EventZeros, ListError, BodyError, Misread, Waits, Ends
<1> QED
  BY <1>1, <1>2, <1>3

(***************************************************************************)
(* The invariant, and what it shows.                                       *)
(***************************************************************************)
LEMMA StreamInit ==
  ASSUME Init
  PROVE  StreamInv
<1>1. MessageTypes /\ HandledTypes
  <2>1. <<>> \in Seq(Parts) /\ <<>> \in Seq(Items) /\ <<>> \in Seq(Messages)
        /\ <<>> \in Seq([type : HeaderTypes \cup {"NONE"}, items : Seq(Items)])
    OBVIOUS
  <2>2. out \in [Threads -> Seq(Parts)]
    BY <2>1 DEF Init
  <2> QED
    BY <2>1, <2>2 DEF Init, MessageTypes, HandledTypes
<1>2. Alone /\ AllSent
  BY ThreadsAssumption DEF Init, Alone, AllSent, Threads
<1>3. begun = <<>> /\ stream = <<>> /\ handled = <<>> /\ items = <<>> /\ rdPc = "header"
  BY DEF Init
<1>4. PICK start : start = [i \in 1..1 |-> 1]
  OBVIOUS
<1>5. Len(begun) + 1 = 1 /\ Len(handled) + 1 = 1 /\ DOMAIN begun = {} /\ Len(handled) = 0
  BY <1>3
<1>6. start \in [1..(Len(begun) + 1) -> Nat] /\ start[1] = 1 /\ \A m \in 1..1 : start[m] = 1
  BY <1>4, <1>5
<1>7. Coming = <<>> /\ Len(Coming) = 0
  BY <1>1, <1>2, <1>3, RestTypes
<1>8. Layout(start, 0)
  <2>1. start[Len(begun) + 1] = 0 + Len(Coming) + 1
    BY <1>5, <1>6, <1>7
  <2>2. \A m, n \in DOMAIN start : m <= n => start[m] <= start[n]
    BY <1>4, <1>6
  <2> QED
    BY <1>2, <1>5, <1>6, <2>1, <2>2 DEF Layout
<1>9. Place(start, 0)
  BY <1>3, <1>5, <1>6 DEF Place
<1>10. HandledAsSent(Len(handled))
  BY <1>3, <1>5 DEF HandledAsSent
<1>11. InStep
  BY <1>6, <1>8, <1>9, <1>10 DEF InStep
<1> QED
  BY <1>1, <1>2, <1>11 DEF StreamInv

LEMMA StreamNext ==
  ASSUME StreamInv, [Next]_vars
  PROVE  StreamInv'
<1>1. MessageTypes /\ HandledTypes
  BY DEF StreamInv
<1>2. CASE UNCHANGED vars
  <2>1. UNCHANGED <<stream, peer, writer, reader>>
    BY <1>2 DEF vars
  <2>2. MessageTypes' /\ HandledTypes' /\ (Alone => Alone') /\ (crossed => crossed')
    BY <1>1, <2>1 DEF MessageTypes, HandledTypes, Alone, writer, reader
  <2>3. InStep => InStep'
    BY <2>1, InStepKept DEF writer
  <2>4. Current' = Current /\ (Missing' <=> Missing) /\ \A n : HandledAsSent(n)' <=> HandledAsSent(n)
    BY <2>1 DEF Current, Missing, Ended, AllSent, HandledAsSent, writer, reader
  <2>5. ReadingZeros => ReadingZeros'
    BY <2>1, <2>4 DEF ReadingZeros, Partly, writer, reader
  <2>6. HandledShort => HandledShort'
    BY <2>1, <2>4 DEF HandledShort, HandledAsSent, writer, reader
  <2>7. Over => Over'
    BY <2>1, <2>4 DEF Over, HandledAsSent, writer, reader
  <2> QED
    BY <2>2, <2>3, <2>5, <2>6, <2>7 DEF StreamInv
<1>3. CASE ReaderStep
  <2>1. MessageTypes' /\ HandledTypes'
    BY <1>1, <1>3, ReaderTypes
  <2>2. commLock' = commLock /\ out' = out /\ begun' = begun /\ crossed' = crossed
    BY <1>3 DEF ReaderStep, ReadHeader, HangUp, ReadBody, ReadFile, ReadEvent, BodyZeros,
       FileZeros, EventZeros, BodyError, ListError, Misread, Waits, writer
  <2>3. Alone => Alone'
    BY <2>2 DEF Alone
  <2> QED
    BY <1>1, <1>3, <2>1, <2>2, <2>3, ReaderInStep, ReaderAtEnd DEF StreamInv
<1>4. CASE \/ \E n \in 0..MaxFiles : Register(n)
           \/ \E t \in Reporters, n \in 1..MaxEvents : Report(t, n)
           \/ \E t \in Threads : SendPart(t)
           \/ Heartbeat
           \/ Stop
  <2>1. UNCHANGED reader /\ peer = "up" /\ (crossed => crossed')
    <3>1. CASE Heartbeat
      BY <3>1 DEF Heartbeat
    <3>2. CASE ~Heartbeat
      <4>1. UNCHANGED reader /\ peer = "up" /\ crossed' = crossed
        BY <1>4, <3>2 DEF Register, Report, SendPart, Stop, writer
      <4> QED
        BY <4>1
    <3> QED
      BY <3>1, <3>2
  <2>2. MessageTypes' /\ HandledTypes'
    BY <1>1, <1>4, <2>1, WriterTypes
  <2>3. ASSUME ~crossed' PROVE Alone' /\ InStep'
    <3>1. ~crossed
      BY <2>1, <2>3
    <3>2. Alone /\ InStep
      BY <2>1, <3>1 DEF StreamInv, ReadingZeros, HandledShort, Over, Missing, Ended
    <3> QED
      BY <1>1, <1>4, <2>1, <2>3, <3>2, WritersInStep
  <2> QED
    BY <2>2, <2>3 DEF StreamInv
<1> QED
  BY <1>2, <1>3, <1>4 DEF Next

LEMMA StreamImplies ==
  ASSUME StreamInv
  PROVE  ReadAsSent
<1> SUFFICES ASSUME ~crossed
             PROVE  /\ rdPc # "garbled"
                    /\ Len(handled) <= Len(begun)
                    /\ \A i \in DOMAIN handled :
                         \/ handled[i] = begun[i]
                         \/ /\ i = Len(begun) /\ peer # "up"
                            /\ \E t \in Threads : out[t] # <<>>
                            /\ CutShort(handled[i], begun[i])
  BY DEF ReadAsSent
<1>1. Len(handled) \in Nat /\ DOMAIN handled = 1..Len(handled) /\ Len(begun) \in Nat
  BY DEF StreamInv, HandledTypes, MessageTypes
<1>2. CASE InStep \/ ReadingZeros \/ Over
  <2>1. HandledAsSent(Len(handled))
    BY <1>2 DEF InStep, ReadingZeros, Over
  <2>2. rdPc # "garbled"
    BY <1>2 DEF InStep, ReadingZeros, Over, Place
  <2> QED
    BY <1>1, <2>1, <2>2 DEF HandledAsSent
<1>3. CASE HandledShort
  <2>1. /\ peer # "up" /\ \E t \in Threads : out[t] # <<>>
        /\ Len(handled) = Len(begun) /\ rdPc # "garbled"
        /\ CutShort(handled[Len(handled)], begun[Len(handled)])
    BY <1>3 DEF HandledShort, Missing, Ended, AllSent
  <2>2. \A i \in 1..(Len(handled) - 1) : handled[i] = begun[i]
    BY <1>3 DEF HandledShort, HandledAsSent
  <2>3. PICK n \in Nat : n = Len(handled)
    BY <1>1
  <2>4. \A i \in 1..n : i \in 1..(n - 1) \/ i = n
    OBVIOUS
  <2>5. Len(handled) <= Len(begun)
    BY <1>1, <2>1
  <2>6. ASSUME NEW i \in DOMAIN handled
        PROVE  \/ handled[i] = begun[i]
               \/ /\ i = Len(begun) /\ peer # "up"
                  /\ \E t \in Threads : out[t] # <<>>
                  /\ CutShort(handled[i], begun[i])
    <3>1. CASE i = n
      BY <2>1, <2>3, <3>1
    <3>2. CASE i # n
      BY <1>1, <2>2, <2>3, <2>4, <3>2
    <3> QED
      BY <3>1, <3>2
  <2> QED
    BY <2>1, <2>5, <2>6
<1> QED
  BY <1>2, <1>3 DEF StreamInv

\* What the tracker reads from the stream of a peer is what was sent, message for
\* message and item for item (recv_message and the receivers of segment.c), as long
\* as no heartbeat falls into a message; only the last may be cut short, by the end
\* of its peer.
THEOREM ReadAsWritten == Spec => []ReadAsSent
<1>1. Init => StreamInv
  BY StreamInit
<1>2. StreamInv /\ [Next]_vars => StreamInv'
  BY StreamNext
<1>3. StreamInv => ReadAsSent
  BY StreamImplies
<1> QED
  BY <1>1, <1>2, <1>3, PTL DEF Spec
=============================================================================
