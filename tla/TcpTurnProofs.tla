---------------------------- MODULE TcpTurnProofs ---------------------------
(***************************************************************************)
(* What holds of the TCP relay for any number of connections, addresses    *)
(* and streams.  That data stays within an id is not inductive by itself:  *)
(* it rests on how the four tables agree (Agree) and on an address having  *)
(* at most one connection that may still bring an id (Bringers).  That a   *)
(* stream is delivered as it was sent rests on how far a connection has    *)
(* received of another while the two are routed to each other (UpToDate).  *)
(***************************************************************************)
EXTENDS TcpTurn, FiniteSetTheorems, TLAPS

\* The tables by address are about addresses the relay has seen.
Agree ==
  /\ \A c \in Conn : status[c] # "new" => addrToConn[addrOf[c]] # NoConn
  /\ \A a \in Addr : addrToConn[a] # NoConn =>
       status[addrToConn[a]] # "new" /\ addrOf[addrToConn[a]] = a
  /\ \A a \in Addr : addrToConn[a] = NoConn => brought[a] = {}

\* An id's two addresses brought it.
Owners ==
  \A i \in Chunk :
    /\ idMap[i].first # NoAddr => i \in brought[idMap[i].first]
    /\ idMap[i].second # NoAddr => i \in brought[idMap[i].second]

\* A route joins two addresses that brought one id.
Routes ==
  \A a \in Addr :
    turnMap[a] # NoAddr => brought[a] \cap brought[turnMap[a]] # {}

\* A connection still to bring an id is the only such one of its address,
\* which has brought nothing yet but the text "nologin".
Bringers ==
  \A c \in Conn :
    (status[c] # "new" /\ name[c] = NoName) =>
      /\ brought[addrOf[c]] \subseteq {NoName}
      /\ \A d \in Conn \ {c} :
           (status[d] # "new" /\ name[d] = NoName) => addrOf[d] # addrOf[c]

OneId ==
  \A a \in Addr :
    AskedAgain(a) \/ \E i \in Chunk \cup {NoName} : brought[a] \subseteq {i}

\* Only connections that were accepted send and receive.
Heard ==
  \A c \in Conn : \A k \in DOMAIN received[c] :
    status[c] # "new" /\ status[received[c][k].from] # "new"

IInv == /\ TypeOK
        /\ Agree
        /\ Owners
        /\ Routes
        /\ Bringers
        /\ OneId
        /\ Heard
        /\ DataStaysWithinId
        /\ OneWayOnlyIfDisplaced

-----------------------------------------------------------------------------
\* A part of a sequence that is not empty is one of its pieces.
LEMMA PieceOfStream ==
  ASSUME NEW s, NEW i \in 1 .. Len(s), NEW j \in 1 .. Len(s),
         SubSeq(s, i, j) # <<>>
  PROVE  SubSeq(s, i, j) \in Pieces(s)
<1>1. SubSeq(s, i, j) \in {SubSeq(s, k, l) : k \in 1 .. Len(s), l \in 1 .. Len(s)}
  OBVIOUS
<1>2. SubSeq(s, i, j) \notin {<<>>} OBVIOUS
<1> QED BY <1>1, <1>2 DEF Pieces

\* The part of a stream that one read returns is a chunk.
LEMMA ReadIsChunk ==
  ASSUME TypeOK, NEW c \in Conn, NEW n \in 1 .. Len(stream[c]) - read[c]
  PROVE  /\ SubSeq(stream[c], read[c] + 1, read[c] + n) \in Chunk
         /\ read[c] + n \in Nat
         /\ read[c] + n <= Len(stream[c])
<1> DEFINE s == stream[c]
           S == UNION {{s[k]} : k \in DOMAIN s}
           lo == read[c] + 1
           hi == read[c] + n
<1>1. s \in Streams \cup {<<>>} /\ read[c] \in Nat BY DEF TypeOK
<1>2. s # <<>> BY <1>1
<1>3. s \in Streams BY <1>1, <1>2
<1>4. s \in Seq(S) BY <1>3, StreamAssumption
<1>5. lo \in 1 .. Len(s) /\ hi \in 1 .. Len(s) /\ lo <= hi
  <2>1. n \in 1 .. Len(s) - read[c] OBVIOUS
  <2> HIDE DEF S, s
  <2>2. Len(s) \in Nat BY <1>4
  <2> QED BY <1>1, <2>1, <2>2
<1> HIDE DEF S, s, lo, hi
<1>6. Len(SubSeq(s, lo, hi)) = hi - lo + 1 BY <1>4, <1>5
<1>7. SubSeq(s, lo, hi) # <<>> BY <1>5, <1>6
<1>8. SubSeq(s, lo, hi) \in Pieces(s) BY <1>5, <1>7, PieceOfStream
<1>9. SubSeq(s, lo, hi) \in Chunk BY <1>3, <1>8 DEF Chunk
<1> QED BY <1>5, <1>9, <1>1 DEF s, lo, hi

-----------------------------------------------------------------------------
(* Type correctness *)

LEMMA InitTypeOK == Init => TypeOK
BY DEF Init, TypeOK, NoName

\* What a read does to its connection.
LEMMA ReadsType ==
  ASSUME TypeOK, NEW c \in Conn, NEW n, NEW msg, Reads(c, n, msg)
  PROVE  /\ msg \in Chunk
         /\ addrOf[c] \in Addr
         /\ read' \in [Conn -> Nat]
         /\ \A d \in Conn : read'[d] <= Len(stream[d])
<1>1. n \in 1 .. Len(stream[c]) - read[c] BY DEF Reads
<1>2. /\ msg \in Chunk
      /\ read[c] + n \in Nat
      /\ read[c] + n <= Len(stream[c])
  BY <1>1, ReadIsChunk DEF Reads
<1>3. addrOf[c] \in Addr BY DEF Reads, TypeOK
<1> QED BY <1>2, <1>3 DEF Reads, TypeOK

\* What the relay sends is a sequence of positions.
LEMMA RelayedType ==
  ASSUME TypeOK, NEW c \in Conn, NEW n \in Nat
  PROVE  Relayed(c, n) \in Seq(Received)
<1>1. \A i \in 1 .. n : [from |-> c, pos |-> read[c] + i] \in Received
  BY DEF TypeOK, Received
<1>2. Relayed(c, n) \in [1 .. n -> Received] BY <1>1 DEF Relayed
<1> QED BY <1>2

LEMMA NextTypeOK == TypeOK /\ [Next]_vars => TypeOK'
<1> SUFFICES ASSUME TypeOK, [Next]_vars PROVE TypeOK' OBVIOUS
<1>1. ASSUME NEW c \in Conn, NEW a \in Addr, NEW s \in Streams, Accept(c, a, s)
      PROVE  TypeOK'
  <2>1. s \in Seq(UNION {{s[i]} : i \in DOMAIN s}) BY StreamAssumption
  <2>2. Len(s) \in Nat BY <2>1
  <2>3. read[c] = 0 BY <1>1 DEF Accept, TypeOK
  <2>4. /\ stream' \in [Conn -> Streams \cup {<<>>}]
        /\ \A d \in Conn : read'[d] <= Len(stream'[d])
        /\ \A d \in Conn : status'[d] = "new" => stream'[d] = <<>>
    BY <1>1, <2>2, <2>3 DEF Accept, TypeOK
  <2> QED
    BY <1>1, <2>4 DEF Accept, TypeOK, NameOfNew, tables
<1>2. ASSUME NEW c \in Conn, Close(c) PROVE TypeOK'
  BY <1>2 DEF Close, TypeOK, tables
<1>3. ASSUME NEW c \in Conn, NEW n, NEW msg, BringFirst(c, n, msg) PROVE TypeOK'
  <2>1. Reads(c, n, msg) BY <1>3 DEF BringFirst
  <2>2. msg \in Chunk /\ addrOf[c] \in Addr BY <2>1, ReadsType
  <2>3. /\ name' \in [Conn -> Chunk \cup {NoName, Known}]
        /\ brought' \in [Addr -> SUBSET Chunk]
    BY <1>3, <2>2 DEF BringFirst, Brings, TypeOK
  <2>4. idMap' \in [Chunk -> [first  : Addr \cup {NoAddr},
                              second : Addr \cup {NoAddr}]]
    <3>1. idMap[msg] \in [first : Addr \cup {NoAddr}, second : Addr \cup {NoAddr}]
      BY <2>2 DEF TypeOK
    <3>2. [idMap[msg] EXCEPT !.first = addrOf[c]] \in
            [first : Addr \cup {NoAddr}, second : Addr \cup {NoAddr}]
      BY <2>2, <3>1
    <3> QED BY <1>3, <3>2 DEF BringFirst, TypeOK
  <2>5. /\ read' \in [Conn -> Nat]
        /\ \A d \in Conn : read'[d] <= Len(stream[d])
    BY <2>1, ReadsType
  <2> QED
    BY <1>3, <2>3, <2>4, <2>5 DEF BringFirst, TypeOK, clients
<1>4. ASSUME NEW c \in Conn, NEW n, NEW msg, BringSecond(c, n, msg) PROVE TypeOK'
  <2>1. Reads(c, n, msg) BY <1>4 DEF BringSecond
  <2>2. turnMap' \in [Addr -> Addr \cup {NoAddr}]
    BY <1>4, <2>1, ReadsType DEF BringSecond, Paired, TypeOK
  <2>3. msg \in Chunk /\ addrOf[c] \in Addr BY <2>1, ReadsType
  <2>4. /\ name' \in [Conn -> Chunk \cup {NoName, Known}]
        /\ brought' \in [Addr -> SUBSET Chunk]
    BY <1>4, <2>3 DEF BringSecond, Brings, TypeOK
  <2>5. idMap' \in [Chunk -> [first  : Addr \cup {NoAddr},
                              second : Addr \cup {NoAddr}]]
    BY <1>4, <2>3 DEF BringSecond, TypeOK
  <2>6. /\ read' \in [Conn -> Nat]
        /\ \A d \in Conn : read'[d] <= Len(stream[d])
    BY <2>1, ReadsType
  <2> QED
    BY <1>4, <2>2, <2>4, <2>5, <2>6 DEF BringSecond, TypeOK, clients
<1>5. ASSUME NEW c \in Conn, NEW n, NEW msg, RelayData(c, n, msg) PROVE TypeOK'
  <2>1. Reads(c, n, msg) BY <1>5 DEF RelayData
  <2>2. n \in Nat BY <2>1 DEF Reads, TypeOK
  <2>3. \A d \in Conn : received[d] \o Relayed(c, n) \in Seq(Received)
    BY <2>2, RelayedType DEF TypeOK
  <2>4. received' \in [Conn -> Seq(Received)]
    BY <1>5, <2>3 DEF RelayData, TypeOK
  <2> QED
    BY <1>5, <2>1, <2>4, ReadsType DEF RelayData, TypeOK, clients, tables
<1>6. ASSUME NEW c \in Conn, NEW n, NEW msg, DropData(c, n, msg) PROVE TypeOK'
  <2>1. Reads(c, n, msg) BY <1>6 DEF DropData
  <2> QED
    BY <1>6, <2>1, ReadsType DEF DropData, TypeOK, clients, tables
<1>7. CASE UNCHANGED vars
  BY <1>7 DEF TypeOK, vars, clients, tables
<1> QED
  BY <1>1, <1>2, <1>3, <1>4, <1>5, <1>6, <1>7 DEF Next, OnMessage

-----------------------------------------------------------------------------
(* The inductive invariant *)

LEMMA InitIInv == Init => IInv
<1> SUFFICES ASSUME Init PROVE IInv OBVIOUS
<1>1. TypeOK BY InitTypeOK
<1>2. \A c \in Conn : DOMAIN received[c] = {} BY DEF Init
<1>4. Agree /\ Owners /\ Routes /\ Bringers BY DEF Init, Agree, Owners, Routes, Bringers
<1>5. OneWayOnlyIfDisplaced BY AddrAssumption DEF Init, OneWayOnlyIfDisplaced
<1>6. OneId BY DEF Init, OneId
<1>7. Heard /\ DataStaysWithinId BY <1>2 DEF Heard, DataStaysWithinId
<1> QED BY <1>1, <1>4, <1>5, <1>6, <1>7 DEF IInv

\* An address that is still to bring its id has brought nothing but "nologin",
\* and once it has, it has brought one id.
LEMMA BringsOne ==
  ASSUME IInv, NEW c \in Conn, NEW n, NEW msg, Reads(c, n, msg),
         Brings(c, msg), UNCHANGED <<clients, addrToConn>>
  PROVE  /\ msg \in Chunk
         /\ addrOf[c] \in Addr
         /\ brought[addrOf[c]] \subseteq {NoName}
         /\ msg \in brought'[addrOf[c]]
         /\ \A a \in Addr : brought[a] \subseteq brought'[a]
         /\ Agree' /\ Bringers' /\ OneId'
<1>1. TypeOK /\ Agree /\ Bringers /\ OneId BY DEF IInv
<1>2. msg \in Chunk /\ addrOf[c] \in Addr BY <1>1, ReadsType
<1>3. status[c] = "up" BY DEF Reads
<1>4. brought[addrOf[c]] \subseteq {NoName} BY <1>1, <1>3 DEF Brings, Bringers
<1>5. /\ brought'[addrOf[c]] = brought[addrOf[c]] \cup {msg}
      /\ \A a \in Addr : a # addrOf[c] => brought'[a] = brought[a]
  BY <1>1, <1>2 DEF Brings, TypeOK
<1>6. Agree' BY <1>1, <1>2, <1>3, <1>5 DEF Agree, clients
<1>7. /\ name'[c] = msg
      /\ \A d \in Conn : d # c => name'[d] = name[d]
  BY <1>1 DEF Brings, TypeOK
<1>8. Bringers'
  BY <1>1, <1>3, <1>4, <1>5, <1>7 DEF Bringers, Brings, clients
<1>9. OneId'
  <2>1. NoName \in brought'[addrOf[c]] \/ brought'[addrOf[c]] \subseteq {msg}
    BY <1>4, <1>5
  <2>2. ASSUME NEW a \in Addr
        PROVE  \/ NoName \in brought'[a]
               \/ \E i \in Chunk \cup {NoName} : brought'[a] \subseteq {i}
    <3>1. CASE a = addrOf[c] BY <1>2, <2>1, <3>1
    <3>2. CASE a # addrOf[c] BY <1>1, <1>5, <3>2 DEF OneId, AskedAgain
    <3> QED BY <3>1, <3>2
  <2> QED BY <2>2 DEF OneId, AskedAgain
<1> QED BY <1>2, <1>4, <1>5, <1>6, <1>8, <1>9

\* More ids brought disturb neither the owners nor the routes that stay.
LEMMA BroughtGrows ==
  ASSUME IInv, \A a \in Addr : brought[a] \subseteq brought'[a],
         UNCHANGED <<clients, received>>, TypeOK'
  PROVE  Heard' /\ DataStaysWithinId'
<1>1. TypeOK /\ Heard /\ DataStaysWithinId BY DEF IInv
<1>2. Heard' BY <1>1 DEF Heard, clients
<1>3. \A c \in Conn : \A k \in DOMAIN received[c] :
        addrOf[c] \in Addr /\ addrOf[received[c][k].from] \in Addr
  <2> SUFFICES ASSUME NEW c \in Conn, NEW k \in DOMAIN received[c]
               PROVE  addrOf[c] \in Addr /\ addrOf[received[c][k].from] \in Addr
    OBVIOUS
  <2>1. received[c] \in Seq(Received) BY <1>1 DEF TypeOK
  <2>2. received[c][k] \in Received BY <2>1
  <2>3. received[c][k].from \in Conn BY <2>2 DEF Received
  <2> QED BY <1>1, <2>3 DEF Heard, TypeOK
<1>4. DataStaysWithinId'
  <2> SUFFICES ASSUME NEW c \in Conn, NEW k \in DOMAIN received[c]
               PROVE  brought'[addrOf[c]] \cap brought'[addrOf[received[c][k].from]] # {}
    BY DEF DataStaysWithinId, clients
  <2>1. brought[addrOf[c]] \cap brought[addrOf[received[c][k].from]] # {}
    BY <1>1 DEF DataStaysWithinId
  <2> QED BY <1>3, <2>1
<1> QED BY <1>2, <1>4

\* A new connection.
LEMMA AcceptStep ==
  ASSUME IInv, TypeOK', NEW c \in Conn, NEW a \in Addr, NEW s \in Streams,
         Accept(c, a, s)
  PROVE  IInv'
<1>1. /\ TypeOK /\ Agree /\ Owners /\ Routes /\ Bringers /\ OneId
      /\ Heard /\ DataStaysWithinId /\ OneWayOnlyIfDisplaced
  BY DEF IInv
<1>2. /\ status[c] = "new"
      /\ status'[c] = "up" /\ addrOf'[c] = a /\ name'[c] = NameOfNew(a)
      /\ addrToConn'[a] = c
      /\ \A d \in Conn \ {c} : /\ status'[d] = status[d]
                               /\ addrOf'[d] = addrOf[d]
                               /\ name'[d] = name[d]
      /\ \A b \in Addr \ {a} : addrToConn'[b] = addrToConn[b]
      /\ UNCHANGED <<read, idMap, turnMap, received, brought>>
  BY <1>1 DEF Accept, TypeOK, tables
<1>3. Agree'
  <2>1. ASSUME NEW d \in Conn, status'[d] # "new"
        PROVE  addrToConn'[addrOf'[d]] # NoConn
    <3>1. CASE d = c BY <1>2, <3>1, ConnAssumption
    <3>2. CASE d # c
      <4>1. status[d] # "new" /\ addrOf'[d] = addrOf[d] BY <1>2, <2>1, <3>2
      <4>2. addrOf[d] \in Addr /\ addrToConn[addrOf[d]] # NoConn
        BY <1>1, <4>1 DEF Agree, TypeOK
      <4> QED BY <1>2, <4>1, <4>2, ConnAssumption
    <3> QED BY <3>1, <3>2
  <2>2. \A b \in Addr : addrToConn'[b] # NoConn =>
          status'[addrToConn'[b]] # "new" /\ addrOf'[addrToConn'[b]] = b
    <3> SUFFICES ASSUME NEW b \in Addr, addrToConn'[b] # NoConn
                 PROVE  status'[addrToConn'[b]] # "new" /\ addrOf'[addrToConn'[b]] = b
      OBVIOUS
    <3>1. CASE b = a BY <1>2, <3>1
    <3>2. CASE b # a
      <4>1. addrToConn'[b] = addrToConn[b] /\ addrToConn[b] \in Conn
        BY <1>1, <1>2, <3>2 DEF TypeOK
      <4>2. status[addrToConn[b]] # "new" /\ addrOf[addrToConn[b]] = b
        BY <1>1, <4>1 DEF Agree
      <4> QED BY <1>2, <4>1, <4>2
    <3> QED BY <3>1, <3>2
  <2>3. \A b \in Addr : addrToConn'[b] = NoConn => brought'[b] = {}
    BY <1>1, <1>2, ConnAssumption DEF Agree
  <2> QED BY <2>1, <2>2, <2>3 DEF Agree
<1>4. Bringers'
  <2>1. CASE addrToConn[a] = NoConn
    <3>1. brought[a] = {} /\ \A d \in Conn : status[d] # "new" => addrOf[d] # a
      BY <1>1, <2>1 DEF Agree
    <3> QED BY <1>1, <1>2, <3>1 DEF Bringers
  <2>2. CASE addrToConn[a] # NoConn
    <3>1. name'[c] # NoName
      BY <1>2, <2>2, NameAssumption DEF NameOfNew, NoName, Known
    <3> QED BY <1>1, <1>2, <3>1 DEF Bringers
  <2> QED BY <2>1, <2>2
<1>5. \A d \in Conn : \A k \in DOMAIN received[d] :
        d # c /\ received[d][k].from # c /\ received[d][k].from \in Conn
  <2> SUFFICES ASSUME NEW d \in Conn, NEW k \in DOMAIN received[d]
               PROVE  d # c /\ received[d][k].from # c /\ received[d][k].from \in Conn
    OBVIOUS
  <2>1. received[d] \in Seq(Received) BY <1>1 DEF TypeOK
  <2>2. received[d][k] \in Received BY <2>1
  <2> QED BY <1>1, <1>2, <2>2 DEF Heard, Received
<1>6. Heard' BY <1>1, <1>2, <1>5 DEF Heard
<1>7. DataStaysWithinId' BY <1>1, <1>2, <1>5 DEF DataStaysWithinId
<1>8. Owners' /\ Routes' /\ OneId' BY <1>1, <1>2 DEF Owners, Routes, OneId, AskedAgain
<1>9. OneWayOnlyIfDisplaced' BY <1>1, <1>2 DEF OneWayOnlyIfDisplaced, AskedAgain
<1> QED BY <1>3, <1>4, <1>6, <1>7, <1>8, <1>9 DEF IInv

\* The first address of an id.
LEMMA BringFirstStep ==
  ASSUME IInv, TypeOK', NEW c \in Conn, NEW n, NEW msg, BringFirst(c, n, msg)
  PROVE  IInv'
<1>1. TypeOK /\ Owners /\ Routes /\ OneWayOnlyIfDisplaced BY DEF IInv
<1>2. /\ Reads(c, n, msg) /\ Brings(c, msg) /\ idMap[msg].first = NoAddr
      /\ UNCHANGED <<clients, addrToConn, turnMap, received>>
      /\ idMap' = [idMap EXCEPT ![msg].first = addrOf[c]]
  BY DEF BringFirst
<1>3. /\ msg \in Chunk /\ addrOf[c] \in Addr /\ msg \in brought'[addrOf[c]]
      /\ \A a \in Addr : brought[a] \subseteq brought'[a]
      /\ Agree' /\ Bringers' /\ OneId'
  BY <1>2, BringsOne
<1>4. Heard' /\ DataStaysWithinId' BY <1>2, <1>3, BroughtGrows
<1>5. idMap[msg] \in [first : Addr \cup {NoAddr}, second : Addr \cup {NoAddr}]
  BY <1>1, <1>3 DEF TypeOK
<1>6. /\ idMap'[msg].first = addrOf[c]
      /\ idMap'[msg].second = idMap[msg].second
      /\ \A i \in Chunk \ {msg} : idMap'[i] = idMap[i]
  BY <1>1, <1>2, <1>3, <1>5 DEF TypeOK
<1>7. \A i \in Chunk : idMap[i].first \in Addr \cup {NoAddr} /\
                       idMap[i].second \in Addr \cup {NoAddr}
  BY <1>1 DEF TypeOK
<1>8. Owners' BY <1>1, <1>3, <1>6, <1>7 DEF Owners
<1>9. Routes' BY <1>1, <1>2, <1>3 DEF Routes, TypeOK
<1>10. OneWayOnlyIfDisplaced'
  BY <1>1, <1>2, <1>3 DEF OneWayOnlyIfDisplaced, AskedAgain
<1> QED BY <1>3, <1>4, <1>8, <1>9, <1>10 DEF IInv

\* The second address of an id, or one that takes the place of the second.
LEMMA BringSecondStep ==
  ASSUME IInv, TypeOK', NEW c \in Conn, NEW n, NEW msg, BringSecond(c, n, msg)
  PROVE  IInv'
<1>1. TypeOK /\ Owners /\ Routes /\ OneId /\ OneWayOnlyIfDisplaced BY DEF IInv
<1> DEFINE x == addrOf[c]
           f == idMap[msg].first
<1>2. /\ Reads(c, n, msg) /\ Brings(c, msg) /\ f # NoAddr
      /\ UNCHANGED <<clients, addrToConn, received>>
      /\ idMap' = [idMap EXCEPT ![msg].second = x]
      /\ turnMap' = [turnMap EXCEPT ![x] = f, ![f] = x]
  BY DEF BringSecond, Paired
<1>3. /\ msg \in Chunk /\ x \in Addr /\ msg \in brought'[x]
      /\ brought[x] \subseteq {NoName}
      /\ \A a \in Addr : brought[a] \subseteq brought'[a]
      /\ Agree' /\ Bringers' /\ OneId'
  BY <1>2, BringsOne
<1>4. Heard' /\ DataStaysWithinId' BY <1>2, <1>3, BroughtGrows
<1>5. idMap[msg] \in [first : Addr \cup {NoAddr}, second : Addr \cup {NoAddr}]
  BY <1>1, <1>3 DEF TypeOK
<1>6. f \in Addr BY <1>2, <1>5
<1>7. /\ idMap'[msg].second = x
      /\ idMap'[msg].first = f
      /\ \A i \in Chunk \ {msg} : idMap'[i] = idMap[i]
  BY <1>1, <1>2, <1>3, <1>5 DEF TypeOK
<1>8. \A i \in Chunk : idMap[i].first \in Addr \cup {NoAddr} /\
                       idMap[i].second \in Addr \cup {NoAddr}
  BY <1>1 DEF TypeOK
<1>9. msg \in brought[f] BY <1>1, <1>2, <1>3 DEF Owners
<1> HIDE DEF x, f
<1>10. Owners' BY <1>1, <1>3, <1>6, <1>7, <1>8, <1>9 DEF Owners
<1>11. /\ turnMap'[f] = x
       /\ x # f => turnMap'[x] = f
       /\ \A a \in Addr \ {x, f} : turnMap'[a] = turnMap[a]
  BY <1>1, <1>2, <1>3, <1>6 DEF TypeOK
<1>12. Routes'
  <2> SUFFICES ASSUME NEW a \in Addr, turnMap'[a] # NoAddr
               PROVE  brought'[a] \cap brought'[turnMap'[a]] # {}
    BY DEF Routes
  <2>1. CASE a \in {x, f} BY <1>3, <1>6, <1>9, <1>11, <2>1
  <2>2. CASE a \notin {x, f}
    <3>1. /\ turnMap'[a] = turnMap[a] /\ turnMap[a] \in Addr
          /\ brought[a] \cap brought[turnMap[a]] # {}
      BY <1>1, <1>11, <2>2 DEF Routes, TypeOK
    <3> QED BY <1>3, <3>1
  <2> QED BY <2>1, <2>2
<1>13. OneWayOnlyIfDisplaced'
  <2> SUFFICES ASSUME NEW a \in Addr, NEW b \in Addr,
                      turnMap'[a] = b, turnMap'[b] # a,
                      NoName \notin brought'[a], NoName \notin brought'[b]
               PROVE  \E d \in Addr \ {a, b} :
                        brought'[a] \cap brought'[b] \cap brought'[d] # {}
    BY DEF OneWayOnlyIfDisplaced, AskedAgain
  <2>1. NoName \notin brought[a] /\ NoName \notin brought[b] BY <1>3
  <2>2. a # f BY <1>11
  <2>3. a # x BY <1>11, <2>2
  <2>4. turnMap[a] = b BY <1>11, <2>2, <2>3
  <2>5. brought[a] \cap brought[b] # {}
    BY <1>1, <2>4, AddrAssumption DEF Routes
  <2>6. b # x BY <1>3, <2>1, <2>5
  <2>7. CASE b = f
    <3>1. brought[f] = {msg}
      BY <1>1, <1>6, <1>9, <2>1, <2>7 DEF OneId, AskedAgain
    <3>2. msg \in brought'[a] \cap brought'[b] \cap brought'[x]
      BY <1>3, <1>9, <2>5, <2>7, <3>1
    <3> QED BY <1>3, <2>3, <2>6, <3>2
  <2>8. CASE b # f
    <3>1. turnMap[b] # a BY <1>11, <2>6, <2>8
    <3>2. PICK d \in Addr \ {a, b} :
            brought[a] \cap brought[b] \cap brought[d] # {}
      BY <1>1, <2>1, <2>4, <3>1 DEF OneWayOnlyIfDisplaced, AskedAgain
    <3> QED BY <1>3, <3>2
  <2> QED BY <2>7, <2>8
<1> QED BY <1>3, <1>4, <1>10, <1>12, <1>13 DEF IInv

\* Data sent on to the peer, which is up and not new.
LEMMA RelayDataStep ==
  ASSUME IInv, TypeOK', NEW c \in Conn, NEW n, NEW msg, RelayData(c, n, msg)
  PROVE  IInv'
<1>1. /\ TypeOK /\ Agree /\ Owners /\ Routes /\ Bringers /\ OneId
      /\ Heard /\ DataStaysWithinId /\ OneWayOnlyIfDisplaced
  BY DEF IInv
<1>2. /\ Reads(c, n, msg)
      /\ turnMap[addrOf[c]] # NoAddr
      /\ UNCHANGED <<clients, name, addrToConn, tables, brought>>
  BY DEF RelayData
<1>3. status[c] = "up" /\ n \in Nat /\ addrOf[c] \in Addr
  BY <1>1, <1>2 DEF Reads, TypeOK
<1>4. /\ Agree' /\ Owners' /\ Routes' /\ Bringers' /\ OneId'
      /\ OneWayOnlyIfDisplaced'
  BY <1>1, <1>2 DEF Agree, Owners, Routes, Bringers, OneId,
       OneWayOnlyIfDisplaced, AskedAgain, clients, tables
<1>5. \A d \in Conn : \A k \in DOMAIN received'[d] :
        \/ k \in DOMAIN received[d] /\ received'[d][k] = received[d][k]
        \/ /\ received'[d][k].from = c
           /\ status[d] # "new"
           /\ addrOf[d] = turnMap[addrOf[c]]
  <2> SUFFICES ASSUME NEW d \in Conn, NEW k \in DOMAIN received'[d]
               PROVE  \/ k \in DOMAIN received[d] /\ received'[d][k] = received[d][k]
                      \/ /\ received'[d][k].from = c
                         /\ status[d] # "new"
                         /\ addrOf[d] = turnMap[addrOf[c]]
    OBVIOUS
  <2>1. CASE received'[d] = received[d] BY <2>1
  <2>2. CASE received'[d] # received[d]
    <3>1. /\ d = Peer(c) /\ status[d] = "up"
          /\ received'[d] = received[d] \o Relayed(c, n)
      BY <1>1, <2>2 DEF RelayData, TypeOK
    <3>2. addrOf[d] = turnMap[addrOf[c]]
      BY <1>1, <1>2, <1>3, <3>1, ConnAssumption DEF Peer, Agree, TypeOK
    <3>3. received[d] \in Seq(Received) /\ Relayed(c, n) \in Seq(Received)
      BY <1>1, <1>3, RelayedType DEF TypeOK
    <3>4. Len(Relayed(c, n)) = n
      BY <1>3, <3>3 DEF Relayed
    <3>5. k \in 1 .. Len(received[d]) + n BY <3>1, <3>3, <3>4
    <3>6. CASE k <= Len(received[d])
      BY <3>1, <3>3, <3>5, <3>6
    <3>7. CASE k > Len(received[d])
      <4>1. k - Len(received[d]) \in 1 .. n
        <5>1. Len(received[d]) \in Nat BY <3>3
        <5> QED BY <1>3, <3>5, <3>7, <5>1
      <4>2. received'[d][k] = Relayed(c, n)[k - Len(received[d])]
        BY <3>1, <3>3, <3>4, <3>5, <3>7
      <4>3. Relayed(c, n)[k - Len(received[d])].from = c
        BY <4>1 DEF Relayed
      <4> QED BY <3>1, <3>2, <4>2, <4>3
    <3> QED BY <3>3, <3>5, <3>6, <3>7
  <2> QED BY <2>1, <2>2
<1>6. Heard'
  <2> SUFFICES ASSUME NEW d \in Conn, NEW k \in DOMAIN received'[d]
               PROVE  status[d] # "new" /\ status[received'[d][k].from] # "new"
    BY <1>2 DEF Heard, clients
  <2> QED BY <1>1, <1>3, <1>5 DEF Heard
<1>7. DataStaysWithinId'
  <2> SUFFICES ASSUME NEW d \in Conn, NEW k \in DOMAIN received'[d]
               PROVE  brought[addrOf[d]] \cap brought[addrOf[received'[d][k].from]] # {}
    BY <1>2 DEF DataStaysWithinId, clients
  <2>1. brought[addrOf[c]] \cap brought[turnMap[addrOf[c]]] # {}
    BY <1>1, <1>2, <1>3 DEF Routes
  <2> QED BY <1>1, <1>5, <2>1 DEF DataStaysWithinId
<1> QED BY <1>4, <1>6, <1>7 DEF IInv

LEMMA NextIInv == IInv /\ [Next]_vars => IInv'
<1> SUFFICES ASSUME IInv, [Next]_vars PROVE IInv' OBVIOUS
<1>1. TypeOK' BY NextTypeOK DEF IInv
<1>2. ASSUME NEW c \in Conn, NEW a \in Addr, NEW s \in Streams, Accept(c, a, s)
      PROVE  IInv'
  BY <1>1, <1>2, AcceptStep
<1>3. ASSUME NEW c \in Conn, Close(c) PROVE IInv'
  <2>1. /\ \A d \in Conn : status'[d] # "new" <=> status[d] # "new"
        /\ UNCHANGED <<addrOf, stream, read, name, addrToConn, tables,
                       received, brought>>
    BY <1>3 DEF Close, IInv, TypeOK
  <2>2. Agree' /\ Bringers'
    <3>1. Agree /\ Bringers BY DEF IInv
    <3>2. Agree'
      <4>1. TypeOK BY DEF IInv
      <4>2. \A a \in Addr : addrToConn[a] # NoConn => addrToConn[a] \in Conn
        BY <4>1 DEF TypeOK
      <4> QED BY <2>1, <3>1, <4>2 DEF Agree
    <3> QED BY <2>1, <3>1, <3>2 DEF Bringers
  <2>3. Heard'
    <3>1. TypeOK /\ Heard BY DEF IInv
    <3>2. \A d \in Conn : \A k \in DOMAIN received[d] :
            received[d][k].from \in Conn
      <4> SUFFICES ASSUME NEW d \in Conn, NEW k \in DOMAIN received[d]
                   PROVE  received[d][k].from \in Conn
        OBVIOUS
      <4>1. received[d] \in Seq(Received) BY <3>1 DEF TypeOK
      <4>2. received[d][k] \in Received BY <4>1
      <4> QED BY <4>2 DEF Received
    <3> QED BY <2>1, <3>1, <3>2 DEF Heard
  <2> QED
    BY <1>1, <2>1, <2>2, <2>3 DEF IInv, Owners, Routes, OneId, AskedAgain,
       DataStaysWithinId, OneWayOnlyIfDisplaced, tables
<1>4. ASSUME NEW c \in Conn, NEW n, NEW msg, BringFirst(c, n, msg) PROVE IInv'
  BY <1>1, <1>4, BringFirstStep
<1>5. ASSUME NEW c \in Conn, NEW n, NEW msg, BringSecond(c, n, msg) PROVE IInv'
  BY <1>1, <1>5, BringSecondStep
<1>6. ASSUME NEW c \in Conn, NEW n, NEW msg, RelayData(c, n, msg) PROVE IInv'
  BY <1>1, <1>6, RelayDataStep
<1>7. CASE UNCHANGED <<clients, name, addrToConn, tables, received, brought>>
  BY <1>1, <1>7 DEF IInv, Agree, Owners, Routes, Bringers, OneId, AskedAgain,
     Heard, DataStaysWithinId, OneWayOnlyIfDisplaced, clients, tables
<1>8. ASSUME NEW c \in Conn, NEW n, NEW msg, DropData(c, n, msg) PROVE IInv'
  BY <1>7, <1>8 DEF DropData
<1>9. CASE UNCHANGED vars BY <1>7, <1>9 DEF vars
<1> QED
  BY <1>2, <1>3, <1>4, <1>5, <1>6, <1>8, <1>9 DEF Next, OnMessage

LEMMA SpecIInv == Spec => []IInv
BY InitIInv, NextIInv, PTL DEF Spec

-----------------------------------------------------------------------------
(* The theorems *)

\* The relay's tables keep their types.
THEOREM TypeCorrect == Spec => []TypeOK
<1>1. IInv => TypeOK BY DEF IInv
<1> QED BY <1>1, SpecIInv, PTL

\* onMessage always finds a connection, if a closed one, for a route.
THEOREM RoutesFindConnections == Spec => []RoutesLeadToConnections
<1>1. ASSUME IInv PROVE RoutesLeadToConnections
  <2> SUFFICES ASSUME NEW a \in Addr, turnMap[a] # NoAddr
               PROVE  addrToConn[turnMap[a]] # NoConn
    BY DEF RoutesLeadToConnections
  <2>1. turnMap[a] \in Addr /\ brought[turnMap[a]] # {}
    BY <1>1 DEF IInv, Routes, TypeOK
  <2> QED BY <1>1, <2>1 DEF IInv, Agree
<1> QED BY <1>1, SpecIInv, PTL

\* An address brings one id in the relay's life.
THEOREM OneIdForEachAddress == Spec => []OneIdPerAddress
<1>1. ASSUME IInv PROVE OneIdPerAddress
  <2> SUFFICES ASSUME NEW a \in Addr, ~AskedAgain(a)
               PROVE  Cardinality(brought[a]) <= 1
    BY DEF OneIdPerAddress
  <2>1. PICK i \in Chunk \cup {NoName} : brought[a] \subseteq {i}
    BY <1>1 DEF IInv, OneId
  <2>2. Cardinality({i}) = 1 /\ IsFiniteSet({i}) BY FS_Singleton
  <2> QED BY <2>1, <2>2, FS_Subset
<1> QED BY <1>1, SpecIInv, PTL

\* Data goes only between addresses that brought one id.
THEOREM DataWithinId == Spec => []DataStaysWithinId
<1>1. IInv => DataStaysWithinId BY DEF IInv
<1> QED BY <1>1, SpecIInv, PTL

\* A route without a way back is left by a third address with the same id.
THEOREM OneWayOnlyByDisplacement == Spec => []OneWayOnlyIfDisplaced
<1>1. IInv => OneWayOnlyIfDisplaced BY DEF IInv
<1> QED BY <1>1, SpecIInv, PTL
-----------------------------------------------------------------------------
(* Streams.  What a connection received of another ends where that one has *)
(* been read to, or nothing of it will ever reach the connection again.    *)

\* The exception of the properties: no id is the text "nologin".
NoneAskedAgain == \A a \in Addr : ~AskedAgain(a)

\* Where p has bytes of c.
From(p, c) == {k \in DOMAIN received[p] : received[p][k].from = c}

\* The last byte p has of c is the last one that was read from c.
LastRead(p, c) ==
  \A k \in From(p, c) :
    (\A l \in From(p, c) : l <= k) => received[p][k].pos = read[c]

\* Nothing of c will reach p again.
Parted(p, c) ==
  \/ status[p] # "up"
  \/ addrToConn[addrOf[p]] # p
  \/ turnMap[addrOf[c]] # addrOf[p]

\* The strengthening of StreamFidelity, which only relates bytes received.
UpToDate ==
  NoneAskedAgain => \A p, c \in Conn : LastRead(p, c) \/ Parted(p, c)

StreamInv == IInv /\ UpToDate /\ StreamFidelity

\* Two connections that data passed between both brought an id.
LEMMA HeardBrought ==
  ASSUME IInv, NEW p \in Conn, NEW c \in Conn, From(p, c) # {}
  PROVE  /\ status[p] # "new" /\ status[c] # "new"
         /\ addrOf[p] \in Addr /\ addrOf[c] \in Addr
         /\ brought[addrOf[p]] # {} /\ brought[addrOf[c]] # {}
<1>1. PICK k \in DOMAIN received[p] : received[p][k].from = c BY DEF From
<1>2. status[p] # "new" /\ status[c] # "new" BY <1>1 DEF IInv, Heard
<1>3. brought[addrOf[p]] \cap brought[addrOf[c]] # {}
  BY <1>1 DEF IInv, DataStaysWithinId
<1> QED BY <1>2, <1>3 DEF IInv, TypeOK

\* A connection that still has to bring its id has no data under way: no
\* address of its own took part in any exchange before.
LEMMA BringerUnheard ==
  ASSUME IInv, NoneAskedAgain', NEW c \in Conn, NEW n, NEW msg,
         Reads(c, n, msg), Brings(c, msg), UNCHANGED <<clients, addrToConn>>
  PROVE  /\ NoneAskedAgain
         /\ \A p, d \in Conn :
              From(p, d) # {} => addrOf[p] # addrOf[c] /\ addrOf[d] # addrOf[c]
<1>1. /\ addrOf[c] \in Addr
      /\ brought[addrOf[c]] \subseteq {NoName}
      /\ \A a \in Addr : brought[a] \subseteq brought'[a]
  BY BringsOne
<1>2. NoneAskedAgain BY <1>1 DEF NoneAskedAgain, AskedAgain
<1>3. brought[addrOf[c]] = {} BY <1>1, <1>2 DEF NoneAskedAgain, AskedAgain
<1>4. ASSUME NEW p \in Conn, NEW d \in Conn, From(p, d) # {}
      PROVE  addrOf[p] # addrOf[c] /\ addrOf[d] # addrOf[c]
  BY <1>3, <1>4, HeardBrought
<1> QED BY <1>2, <1>4

\* What a relayed chunk does to the connections that may receive it.
LEMMA RelayedTo ==
  ASSUME IInv, NEW c \in Conn, NEW n, NEW msg, RelayData(c, n, msg),
         NEW p \in Conn
  PROVE  LET L == Len(received[p])
         IN  /\ n \in Nat \ {0} /\ L \in Nat /\ read[c] \in Nat
             /\ DOMAIN received[p] = 1 .. L
             /\ read'[c] = read[c] + n
             /\ \A d \in Conn \ {c} : read'[d] = read[d]
             /\ \/ received'[p] = received[p] /\ Parted(p, c)
                \/ /\ ~Parted(p, c)
                   /\ DOMAIN received'[p] = 1 .. L + n
                   /\ \A k \in 1 .. L : received'[p][k] = received[p][k]
                   /\ \A i \in 1 .. n :
                        received'[p][L + i] = [from |-> c, pos |-> read[c] + i]
<1> DEFINE L == Len(received[p])
<1>1. TypeOK /\ Agree /\ Heard BY DEF IInv
<1>2. /\ Reads(c, n, msg) /\ turnMap[addrOf[c]] # NoAddr
      /\ addrOf[c] \in Addr /\ turnMap[addrOf[c]] \in Addr
  BY <1>1, ReadsType DEF RelayData, TypeOK
<1>3. /\ n \in Nat \ {0} /\ read[c] \in Nat
      /\ read'[c] = read[c] + n
      /\ \A d \in Conn \ {c} : read'[d] = read[d]
  <2>1. n \in 1 .. Len(stream[c]) - read[c] /\ read' = [read EXCEPT ![c] = @ + n]
    BY <1>2 DEF Reads
  <2> QED BY <1>1, <2>1 DEF TypeOK
<1>4. received[p] \in Seq(Received) BY <1>1 DEF TypeOK
<1>5. L \in Nat /\ DOMAIN received[p] = 1 .. L BY <1>4
<1>6. CASE p = Peer(c) /\ status[p] = "up"
  <2>1. received'[p] = received[p] \o Relayed(c, n)
    BY <1>1, <1>6 DEF RelayData, TypeOK
  <2>2. Relayed(c, n) \in Seq(Received) BY <1>1, <1>3, RelayedType
  <2>3. Len(Relayed(c, n)) = n BY <1>3, <2>2 DEF Relayed
  <2>4. \A i \in 1 .. n : Relayed(c, n)[i] = [from |-> c, pos |-> read[c] + i]
    BY DEF Relayed
  <2>5. ~Parted(p, c)
    BY <1>1, <1>2, <1>6, ConnAssumption DEF Parted, Peer, Agree
  <2> HIDE DEF L
  <2>6. /\ DOMAIN received'[p] = 1 .. L + n
        /\ \A k \in 1 .. L : received'[p][k] = received[p][k]
    <3>1. received'[p] \in Seq(Received) /\ Len(received'[p]) = L + n
      BY <1>4, <2>1, <2>2, <2>3 DEF L
    <3>2. ASSUME NEW k \in 1 .. L PROVE received'[p][k] = received[p][k]
      <4>1. k <= Len(received[p]) /\ k \in 1 .. Len(received[p]) + Len(Relayed(c, n))
        BY <1>3, <1>5, <2>3 DEF L
      <4> QED BY <1>4, <2>1, <2>2, <4>1
    <3>3. DOMAIN received'[p] = 1 .. L + n BY <3>1
    <3> QED BY <3>2, <3>3
  <2>7. ASSUME NEW i \in 1 .. n
        PROVE  received'[p][L + i] = [from |-> c, pos |-> read[c] + i]
    <3>1. L + i \in 1 .. L + n /\ L + i > L /\ (L + i) - L = i BY <1>3, <1>5
    <3>2. received'[p][L + i] = Relayed(c, n)[i]
      <4> DEFINE r == received[p]
                 s == Relayed(c, n)
      <4>1. r \in Seq(Received) /\ s \in Seq(Received) /\ Len(s) = n /\ Len(r) = L
        BY <1>4, <2>2, <2>3 DEF L
      <4>2. received'[p] = r \o s BY <2>1
      <4> HIDE DEF r, s
      <4>3. (r \o s)[L + i] = s[i] BY <1>3, <3>1, <4>1
      <4> QED BY <4>2, <4>3 DEF s
    <3> QED BY <2>4, <3>2
  <2> QED BY <1>3, <1>5, <2>5, <2>6, <2>7 DEF L
<1>7. CASE ~(p = Peer(c) /\ status[p] = "up")
  <2>1. received'[p] = received[p] BY <1>1, <1>7 DEF RelayData, TypeOK
  <2>2. Parted(p, c)
    <3>1. CASE status[p] # "up" BY <3>1 DEF Parted
    <3>2. CASE p # Peer(c) BY <3>2 DEF Parted, Peer
    <3> QED BY <1>7, <3>1, <3>2
  <2> QED BY <1>3, <1>5, <2>1, <2>2
<1> QED BY <1>6, <1>7

\* Data relayed goes on where the connection has received its sender so far.
LEMMA RelayDataStream ==
  ASSUME StreamInv, NEW c \in Conn, NEW n, NEW msg, RelayData(c, n, msg)
  PROVE  UpToDate' /\ StreamFidelity'
<1>1. IInv /\ UpToDate /\ StreamFidelity /\ TypeOK BY DEF StreamInv, IInv
<1>2. UNCHANGED <<status, addrOf, addrToConn, turnMap, brought>>
  BY DEF RelayData, clients, tables
<1>3. NoneAskedAgain' <=> NoneAskedAgain BY <1>2 DEF NoneAskedAgain, AskedAgain
<1>4. \A p, d \in Conn : Parted(p, d)' <=> Parted(p, d) BY <1>2 DEF Parted
<1>5. ASSUME NEW p \in Conn, NEW d \in Conn, NoneAskedAgain
      PROVE  LastRead(p, d)' \/ Parted(p, d)
  <2> SUFFICES ASSUME ~Parted(p, d) PROVE LastRead(p, d)' OBVIOUS
  <2> DEFINE L == Len(received[p])
  <2>1. LastRead(p, d) BY <1>1, <1>5 DEF UpToDate
  <2>2. /\ n \in Nat \ {0} /\ L \in Nat /\ read[c] \in Nat
        /\ DOMAIN received[p] = 1 .. L
        /\ read'[c] = read[c] + n
        /\ \A e \in Conn \ {c} : read'[e] = read[e]
        /\ \/ received'[p] = received[p] /\ Parted(p, c)
           \/ /\ ~Parted(p, c)
              /\ DOMAIN received'[p] = 1 .. L + n
              /\ \A k \in 1 .. L : received'[p][k] = received[p][k]
              /\ \A i \in 1 .. n :
                   received'[p][L + i] = [from |-> c, pos |-> read[c] + i]
    BY <1>1, RelayedTo
  <2> HIDE DEF L
  <2>3. CASE received'[p] = received[p]
    <3>1. d # c \/ ~(received'[p] = received[p] /\ Parted(p, c)) BY <2>2
    <3>2. CASE d # c
      <4>1. read'[d] = read[d] BY <2>2, <3>2
      <4> QED BY <2>1, <2>3, <4>1 DEF LastRead, From
    <3>3. CASE d = c
      <4>1. ~Parted(p, c) BY <3>3
      <4>2. DOMAIN received'[p] = 1 .. L + n BY <2>2, <4>1
      <4> QED BY <2>2, <2>3, <4>2
    <3> QED BY <3>2, <3>3
  <2>4. CASE received'[p] # received[p]
    <3>1. /\ DOMAIN received'[p] = 1 .. L + n
          /\ \A k \in 1 .. L : received'[p][k] = received[p][k]
          /\ \A i \in 1 .. n :
               received'[p][L + i] = [from |-> c, pos |-> read[c] + i]
      BY <2>2, <2>4
    <3>2. \A k \in 1 .. L + n :
            k \in 1 .. L \/ \E i \in 1 .. n : k = L + i
      <4> SUFFICES ASSUME NEW k \in 1 .. L + n, k \notin 1 .. L
                   PROVE  \E i \in 1 .. n : k = L + i
        OBVIOUS
      <4>1. k - L \in 1 .. n /\ k = L + (k - L) BY <2>2
      <4> QED BY <4>1
    <3>3. CASE d = c
      <4> SUFFICES ASSUME NEW k \in From(p, c)',
                          \A l \in From(p, c)' : l <= k
                   PROVE  received'[p][k].pos = read'[c]
        BY <3>3 DEF LastRead
      <4>1. L + n \in From(p, c)'
        <5>1. L + n \in 1 .. L + n /\ n \in 1 .. n BY <2>2
        <5>2. received'[p][L + n] = [from |-> c, pos |-> read[c] + n]
          BY <3>1, <5>1
        <5> QED BY <3>1, <5>1, <5>2 DEF From
      <4>2. k \in 1 .. L + n BY <3>1 DEF From
      <4>3. k = L + n BY <2>2, <4>1, <4>2
      <4>4. n \in 1 .. n BY <2>2
      <4>5. received'[p][L + n] = [from |-> c, pos |-> read[c] + n]
        BY <3>1, <4>4
      <4> QED BY <2>2, <4>3, <4>5
    <3>4. CASE d # c
      <4>1. read'[d] = read[d] BY <2>2, <3>4
      <4>2. From(p, d)' = From(p, d)
        <5>1. 1 .. L \subseteq 1 .. L + n BY <2>2
        <5>2. ASSUME NEW i \in 1 .. n PROVE received'[p][L + i].from # d
          <6>1. received'[p][L + i] = [from |-> c, pos |-> read[c] + i] BY <3>1
          <6> QED BY <3>4, <6>1
        <5>3. \A k \in 1 .. L + n : received'[p][k].from = d => k \in 1 .. L
          BY <3>2, <5>2
        <5>4. \A k : k \in From(p, d) <=> (k \in 1 .. L /\ received[p][k].from = d)
          BY <2>2 DEF From
        <5>5. \A k : k \in From(p, d)' <=>
                (k \in 1 .. L + n /\ received'[p][k].from = d)
          BY <3>1 DEF From
        <5>6. \A k : k \in From(p, d)' <=> k \in From(p, d)
          BY <3>1, <5>1, <5>3, <5>4, <5>5
        <5> QED BY <5>6
      <4>3. \A k \in From(p, d) : received'[p][k] = received[p][k]
        BY <2>2, <3>1 DEF From
      <4> QED BY <2>1, <4>1, <4>2, <4>3 DEF LastRead
    <3> QED BY <3>3, <3>4
  <2> QED BY <2>3, <2>4
<1>6. UpToDate' BY <1>3, <1>4, <1>5 DEF UpToDate
<1>7. StreamFidelity'
  <2> SUFFICES ASSUME NoneAskedAgain, NEW p \in Conn,
                      NEW k \in DOMAIN received'[p], NEW l \in DOMAIN received'[p],
                      k < l,
                      received'[p][k].from = received'[p][l].from,
                      \A m \in k + 1 .. l - 1 :
                        received'[p][m].from # received'[p][k].from
               PROVE  received'[p][l].pos = received'[p][k].pos + 1
    BY <1>3 DEF StreamFidelity, NoneAskedAgain
  <2> DEFINE L == Len(received[p])
  <2>1. /\ n \in Nat \ {0} /\ L \in Nat /\ read[c] \in Nat
        /\ DOMAIN received[p] = 1 .. L
        /\ \/ received'[p] = received[p]
           \/ /\ ~Parted(p, c)
              /\ DOMAIN received'[p] = 1 .. L + n
              /\ \A j \in 1 .. L : received'[p][j] = received[p][j]
              /\ \A i \in 1 .. n :
                   received'[p][L + i] = [from |-> c, pos |-> read[c] + i]
    BY <1>1, RelayedTo
  <2> HIDE DEF L
  <2>2. CASE received'[p] = received[p]
    BY <1>1, <2>2 DEF StreamFidelity, NoneAskedAgain
  <2>3. CASE received'[p] # received[p]
    <3>1. /\ ~Parted(p, c)
          /\ DOMAIN received'[p] = 1 .. L + n
          /\ \A j \in 1 .. L : received'[p][j] = received[p][j]
          /\ \A i \in 1 .. n :
               received'[p][L + i] = [from |-> c, pos |-> read[c] + i]
      BY <2>1, <2>3
    <3>2. k \in 1 .. L + n /\ l \in 1 .. L + n BY <3>1
    <3>3. CASE l <= L
      <4>1. k \in 1 .. L /\ l \in 1 .. L /\ k + 1 .. l - 1 \subseteq 1 .. L
        BY <2>1, <3>2, <3>3
      <4>2. /\ received[p][k].from = received[p][l].from
            /\ \A m \in k + 1 .. l - 1 : received[p][m].from # received[p][k].from
        BY <3>1, <4>1
      <4>3. received[p][l].pos = received[p][k].pos + 1
        BY <1>1, <2>1, <4>1, <4>2 DEF StreamFidelity, NoneAskedAgain
      <4> QED BY <3>1, <4>1, <4>3
    <3>4. CASE k > L
      <4> DEFINE i == k - L
                 j == l - L
      <4>1. /\ i \in 1 .. n /\ j \in 1 .. n /\ i < j
            /\ k = L + i /\ l = L + j
        BY <2>1, <3>2, <3>4
      <4> HIDE DEF i, j
      <4>2. /\ received'[p][k] = [from |-> c, pos |-> read[c] + i]
            /\ received'[p][l] = [from |-> c, pos |-> read[c] + j]
        BY <3>1, <4>1
      <4>3. j = i + 1
        <5> SUFFICES ASSUME j # i + 1 PROVE FALSE OBVIOUS
        <5>1. i + 1 \in 1 .. n /\ L + (i + 1) \in k + 1 .. l - 1
          <6>1. L \in Nat /\ n \in Nat BY <2>1
          <6> QED BY <4>1, <6>1
        <5>2. received'[p][L + (i + 1)] = [from |-> c, pos |-> read[c] + (i + 1)]
          BY <3>1, <5>1
        <5> QED BY <4>2, <5>1, <5>2
      <4>4. received'[p][k].pos = read[c] + i /\ received'[p][l].pos = read[c] + j
        BY <4>2
      <4>5. read[c] \in Nat /\ i \in Int BY <2>1, <4>1
      <4>6. read[c] + j = (read[c] + i) + 1 BY <4>3, <4>5
      <4> QED BY <4>4, <4>6
    <3>5. CASE k <= L /\ l > L
      <4> DEFINE j == l - L
      <4>1. j \in 1 .. n /\ l = L + j /\ k \in 1 .. L BY <2>1, <3>2, <3>5
      <4> HIDE DEF j
      <4>2. received'[p][l] = [from |-> c, pos |-> read[c] + j] BY <3>1, <4>1
      <4>3. received[p][k].from = c /\ received'[p][k] = received[p][k]
        BY <3>1, <4>1, <4>2
      <4>4. j = 1
        <5> SUFFICES ASSUME j # 1 PROVE FALSE OBVIOUS
        <5>1. 1 \in 1 .. n /\ L + 1 \in k + 1 .. l - 1 BY <2>1, <4>1
        <5>2. received'[p][L + 1] = [from |-> c, pos |-> read[c] + 1]
          BY <3>1, <5>1
        <5> QED BY <4>3, <5>1, <5>2
      <4>5. k \in From(p, c) BY <2>1, <4>1, <4>3 DEF From
      <4>6. \A m \in From(p, c) : m <= k
        <5> SUFFICES ASSUME NEW m \in From(p, c), ~(m <= k) PROVE FALSE OBVIOUS
        <5>1. m \in 1 .. L /\ received[p][m].from = c BY <2>1 DEF From
        <5>2. m \in k + 1 .. l - 1 BY <2>1, <4>1, <5>1
        <5>3. received'[p][m].from = c BY <3>1, <5>1
        <5> QED BY <4>3, <5>2, <5>3
      <4>7. LastRead(p, c) BY <1>1, <3>1 DEF UpToDate
      <4>8. received[p][k].pos = read[c] BY <4>5, <4>6, <4>7 DEF LastRead
      <4> QED BY <4>2, <4>3, <4>4, <4>8
    <3> QED BY <2>1, <3>2, <3>3, <3>4, <3>5
  <2> QED BY <2>2, <2>3
<1> QED BY <1>6, <1>7

\* Whatever is not relayed leaves what is received, and parts or keeps apart.
LEMMA OtherStream ==
  ASSUME StreamInv, TypeOK', NEW c \in Conn, UNCHANGED received,
         \A a \in Addr : brought[a] \subseteq brought'[a],
         NoneAskedAgain' =>
           \A p, d \in Conn : From(p, d) # {} =>
             Parted(p, d)' \/ (~Parted(p, d) /\ read'[d] = read[d])
  PROVE  UpToDate' /\ StreamFidelity'
<1>1. UpToDate /\ StreamFidelity BY DEF StreamInv
<1>2. NoneAskedAgain' => NoneAskedAgain BY DEF NoneAskedAgain, AskedAgain
<1>3. StreamFidelity' BY <1>1, <1>2 DEF StreamFidelity, NoneAskedAgain
<1>4. ASSUME NoneAskedAgain', NEW p \in Conn, NEW d \in Conn, ~Parted(p, d)'
      PROVE  LastRead(p, d)'
  <2>1. From(p, d)' = From(p, d) BY DEF From
  <2>2. CASE From(p, d) = {} BY <2>1, <2>2 DEF LastRead
  <2>3. CASE From(p, d) # {}
    <3>1. ~Parted(p, d) /\ read'[d] = read[d] BY <1>4, <2>3
    <3>2. LastRead(p, d) BY <1>1, <1>2, <1>4, <3>1 DEF UpToDate
    <3> QED BY <2>1, <3>1, <3>2 DEF LastRead
  <2> QED BY <2>2, <2>3
<1> QED BY <1>3, <1>4 DEF UpToDate

LEMMA InitStreamInv == Init => StreamInv
<1> SUFFICES ASSUME Init PROVE StreamInv OBVIOUS
<1>1. \A p \in Conn : DOMAIN received[p] = {} BY DEF Init
<1>2. UpToDate /\ StreamFidelity
  BY <1>1 DEF UpToDate, LastRead, From, StreamFidelity
<1> QED BY <1>2, InitIInv DEF StreamInv

LEMMA NextStreamInv == StreamInv /\ [Next]_vars => StreamInv'
<1> SUFFICES ASSUME StreamInv, [Next]_vars PROVE UpToDate' /\ StreamFidelity'
  BY NextIInv DEF StreamInv
<1>1. IInv /\ TypeOK /\ TypeOK' BY NextTypeOK DEF StreamInv, IInv
<1>2. ASSUME NEW c \in Conn, NEW a \in Addr, NEW s \in Streams, Accept(c, a, s)
      PROVE  UpToDate' /\ StreamFidelity'
  <2>1. /\ status[c] = "new"
        /\ \A d \in Conn \ {c} : status'[d] = status[d] /\ addrOf'[d] = addrOf[d]
        /\ addrToConn' = [addrToConn EXCEPT ![a] = c]
        /\ UNCHANGED <<read, turnMap, received, brought>>
    BY <1>1, <1>2 DEF Accept, TypeOK, tables
  <2>2. ASSUME NEW p \in Conn, NEW d \in Conn, From(p, d) # {}
        PROVE  Parted(p, d)' \/ (~Parted(p, d) /\ read'[d] = read[d])
    <3>1. p # c /\ d # c /\ addrOf[p] \in Addr
      BY <1>1, <2>1, <2>2, HeardBrought
    <3>2. addrToConn'[addrOf[p]] \in {addrToConn[addrOf[p]], c}
      BY <1>1, <2>1, <3>1 DEF TypeOK
    <3> QED BY <2>1, <3>1, <3>2 DEF Parted
  <2> QED BY <1>1, <2>1, <2>2, OtherStream
<1>3. ASSUME NEW c \in Conn, Close(c) PROVE UpToDate' /\ StreamFidelity'
  <2>1. /\ \A d \in Conn : status'[d] # status[d] => status'[d] # "up"
        /\ UNCHANGED <<addrOf, read, addrToConn, turnMap, received, brought>>
    BY <1>1, <1>3 DEF Close, TypeOK, tables
  <2>2. ASSUME NEW p \in Conn, NEW d \in Conn, From(p, d) # {}
        PROVE  Parted(p, d)' \/ (~Parted(p, d) /\ read'[d] = read[d])
    BY <2>1 DEF Parted
  <2> QED BY <1>1, <2>1, <2>2, OtherStream
<1>4. ASSUME NEW c \in Conn, NEW n, NEW msg, BringFirst(c, n, msg)
      PROVE  UpToDate' /\ StreamFidelity'
  <2>1. /\ Reads(c, n, msg) /\ Brings(c, msg)
        /\ UNCHANGED <<clients, addrToConn, turnMap, received>>
    BY <1>4 DEF BringFirst
  <2>2. \A a \in Addr : brought[a] \subseteq brought'[a] BY <1>1, <2>1, BringsOne
  <2>3. ASSUME NoneAskedAgain', NEW p \in Conn, NEW d \in Conn, From(p, d) # {}
        PROVE  Parted(p, d)' \/ (~Parted(p, d) /\ read'[d] = read[d])
    <3>1. d # c BY <1>1, <2>1, <2>3, BringerUnheard
    <3>2. read'[d] = read[d] BY <1>1, <2>1, <3>1 DEF Reads, TypeOK
    <3> QED BY <2>1, <3>2 DEF Parted, clients
  <2> QED BY <1>1, <2>1, <2>2, <2>3, OtherStream
<1>5. ASSUME NEW c \in Conn, NEW n, NEW msg, BringSecond(c, n, msg)
      PROVE  UpToDate' /\ StreamFidelity'
  <2> DEFINE x == addrOf[c]
             f == idMap[msg].first
  <2>1. /\ Reads(c, n, msg) /\ Brings(c, msg) /\ f # NoAddr
        /\ UNCHANGED <<clients, addrToConn, received>>
        /\ turnMap' = [turnMap EXCEPT ![x] = f, ![f] = x]
    BY <1>5 DEF BringSecond, Paired
  <2>2. /\ msg \in Chunk /\ x \in Addr
        /\ \A a \in Addr : brought[a] \subseteq brought'[a]
    BY <1>1, <2>1, BringsOne
  <2>3. f \in Addr BY <1>1, <2>1, <2>2 DEF TypeOK
  <2> HIDE DEF x, f
  <2>4. turnMap'[f] = x /\ \A a \in Addr \ {x, f} : turnMap'[a] = turnMap[a]
    BY <1>1, <2>1, <2>2, <2>3 DEF TypeOK
  <2>5. ASSUME NoneAskedAgain', NEW p \in Conn, NEW d \in Conn, From(p, d) # {}
        PROVE  Parted(p, d)' \/ (~Parted(p, d) /\ read'[d] = read[d])
    <3>1. addrOf[p] # x /\ addrOf[d] # x
      BY <1>1, <2>1, <2>5, BringerUnheard DEF x
    <3>2. d # c BY <3>1 DEF x
    <3>3. read'[d] = read[d] BY <1>1, <2>1, <3>2 DEF Reads, TypeOK
    <3>4. addrOf[d] \in Addr BY <1>1, <2>5, HeardBrought
    <3>5. CASE addrOf[d] = f BY <2>1, <2>4, <3>1, <3>5 DEF Parted, clients
    <3>6. CASE addrOf[d] # f
      <4>1. turnMap'[addrOf[d]] = turnMap[addrOf[d]] BY <2>4, <3>1, <3>4, <3>6
      <4> QED BY <2>1, <3>3, <4>1 DEF Parted, clients
    <3> QED BY <3>5, <3>6
  <2> QED BY <1>1, <2>1, <2>2, <2>5, OtherStream
<1>6. ASSUME NEW c \in Conn, NEW n, NEW msg, RelayData(c, n, msg)
      PROVE  UpToDate' /\ StreamFidelity'
  BY <1>6, RelayDataStream
<1>7. ASSUME NEW c \in Conn, NEW n, NEW msg, DropData(c, n, msg)
      PROVE  UpToDate' /\ StreamFidelity'
  <2>1. /\ Reads(c, n, msg) /\ turnMap[addrOf[c]] = NoAddr
        /\ UNCHANGED <<clients, addrToConn, turnMap, received, brought>>
    BY <1>7 DEF DropData, tables
  <2>2. ASSUME NEW p \in Conn, NEW d \in Conn, From(p, d) # {}
        PROVE  Parted(p, d)' \/ (~Parted(p, d) /\ read'[d] = read[d])
    <3>1. addrOf[p] \in Addr BY <1>1, <2>2, HeardBrought
    <3>2. CASE d = c BY <2>1, <3>1, <3>2, AddrAssumption DEF Parted, clients
    <3>3. CASE d # c
      <4>1. read'[d] = read[d] BY <1>1, <2>1, <3>3 DEF Reads, TypeOK
      <4> QED BY <2>1, <4>1 DEF Parted, clients
    <3> QED BY <3>2, <3>3
  <2> QED BY <1>1, <2>1, <2>2, OtherStream
<1>8. CASE UNCHANGED vars
  BY <1>8 DEF StreamInv, UpToDate, NoneAskedAgain, AskedAgain, LastRead, From,
     Parted, StreamFidelity, vars, clients, tables
<1> QED
  BY <1>2, <1>3, <1>4, <1>5, <1>6, <1>7, <1>8 DEF Next, OnMessage

\* What a connection receives of another is one piece of what that one sent.
THEOREM StreamsFaithful == Spec => []StreamFidelity
<1>1. StreamInv => StreamFidelity BY DEF StreamInv
<1> QED BY <1>1, InitStreamInv, NextStreamInv, PTL DEF Spec
=============================================================================
