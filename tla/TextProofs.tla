----------------------------- MODULE TextProofs -----------------------------
(***************************************************************************)
(* Theorems about the texts the program puts together, for any sizes and   *)
(* any strings: the cursor of a log line stays inside its buffer, a string *)
(* of an RPC message has one owner, and the comparisons of two views of    *)
(* strings are one order.  The least number of a set comes from            *)
(* BufferProofs.                                                           *)
(***************************************************************************)
EXTENDS BufferProofs, LogStream, RpcMessage, StringPiece

-----------------------------------------------------------------------------
(* Log lines *)

\* The cast to a size_t keeps an avail() that is not negative.
LEMMA AvailIsSmall ==
  ASSUME cur \in Nat, cur < BufferSize
  PROVE  avail % SizeT = BufferSize - cur
<1> DEFINE y == BufferSize - cur
<1>1. y \in 0 .. SizeT - 1 /\ SizeT \in Nat \ {0}
  BY LogAssumption
<1> HIDE DEF y
<1>2. y % SizeT = y
  BY <1>1
<1> QED
  BY <1>2 DEF y, avail

LogInv == cur \in Nat /\ CursorInside

\* Nothing that is shown, formatted or refused moves the cursor to the end.
LEMMA LogStep ==
  LogInv /\ [LogNext]_cur => LogInv'
<1> SUFFICES ASSUME LogInv, [LogNext]_cur PROVE LogInv'
  OBVIOUS
<1>1. cur \in Nat /\ cur < BufferSize /\ BufferSize \in Nat
  BY LogAssumption DEF LogInv, CursorInside
<1>2. avail % SizeT = BufferSize - cur
  BY <1>1, AvailIsSmall
<1>3. ASSUME NEW len \in Nat, appendPiece(len) PROVE LogInv'
  BY <1>1, <1>2, <1>3 DEF appendPiece, Fits, LogInv, CursorInside
<1>4. ASSUME NEW len \in 1 .. MaxNumericSize - 1, formatNumber(len) PROVE LogInv'
  BY <1>1, <1>4, LogAssumption DEF formatNumber, avail, LogInv, CursorInside
<1>5. CASE reset
  BY <1>1, <1>5 DEF reset, LogInv, CursorInside
<1>6. Shown \subseteq Nat /\ 1 .. MaxNumericSize - 1 \subseteq Nat
  BY LogAssumption DEF Shown
<1>7. CASE UNCHANGED cur
  BY <1>7 DEF LogInv, CursorInside
<1> QED
  BY <1>3, <1>4, <1>5, <1>6, <1>7 DEF LogNext, showBuffer, showFmt

\* For buffers of any size the cursor of a log line stays before the last
\* byte, after any sequence of pieces and numbers (LogStream, FixedBuffer).
THEOREM CursorAlwaysInside ==
  LogSpec => []CursorInside
<1>1. LogInit => LogInv
  BY LogAssumption DEF LogInit, LogInv, CursorInside
<1>2. LogInv => CursorInside
  BY DEF LogInv
<1> QED
  BY <1>1, <1>2, LogStep, PTL DEF LogSpec

-----------------------------------------------------------------------------
(* RPC messages *)

\* The inductive invariant: strings have one owner, and fields their type.
RpcInv == RpcTypeOK /\ StringsOwnedOnce

\* A number of a field that has not been set is the default.
LEMMA NumberStep ==
  ASSUME RpcInv, NEW f \in NumberField, NEW values \in SUBSET Nat,
         NumberOf(f, values)
  PROVE  RpcInv'
<1>1. number' \in [NumberField -> Nat] /\ has' \in SUBSET (StringField \cup NumberField)
  BY DEF NumberOf, RpcInv, RpcTypeOK, Default, NumberField
<1>2. \A g \in NumberField : g \notin has' => number'[g] = Default[g]
  BY DEF NumberOf, RpcInv, RpcTypeOK, StringsOwnedOnce
<1>3. f \notin StringField
  BY DEF NumberField, StringField
<1>4. pointer' = pointer /\ text' = text /\ callers' = callers
      /\ \A g \in StringField : g \in has' <=> g \in has
  BY <1>3 DEF NumberOf
<1> QED
  BY <1>1, <1>2, <1>4 DEF RpcInv, RpcTypeOK, StringsOwnedOnce

LEMMA ClearStep ==
  ASSUME RpcInv, NEW f \in StringField, Clear(f)
  PROVE  RpcInv'
<1>1. /\ has' = has \ {f} /\ number' = number
      /\ pointer' = pointer /\ callers' = callers
      /\ text' = IF pointer[f] # EmptyString THEN [text EXCEPT ![pointer[f]] = EmptyText]
                                             ELSE text
  BY DEF Clear
<1>2. RpcTypeOK'
  BY <1>1, TextAssumption DEF RpcInv, RpcTypeOK
<1>3. \A s \in String \cup {EmptyString} : text'[s] \in {text[s], EmptyText}
  BY <1>1 DEF RpcInv, RpcTypeOK
<1>4. text'[pointer[f]] = EmptyText
  BY <1>1 DEF RpcInv, RpcTypeOK, StringsOwnedOnce
<1>5. f \notin NumberField
  BY DEF NumberField, StringField
<1>6. \A g \in StringField : pointer[g] \in String \cup {EmptyString}
  BY DEF RpcInv, RpcTypeOK
<1> QED
  BY <1>1, <1>2, <1>3, <1>4, <1>5, <1>6 DEF RpcInv, StringsOwnedOnce

LEMMA SetStep ==
  ASSUME RpcInv, NEW f \in StringField, NEW t \in Text, Set(f, t)
  PROVE  RpcInv'
<1>1. PICK s \in String \cup {EmptyString} :
        /\ Private(f, s)
        /\ pointer' = [pointer EXCEPT ![f] = s]
        /\ text' = [text EXCEPT ![s] = t]
  BY DEF Set
<1>2. has' = has \cup {f} /\ number' = number /\ callers' = callers
  BY DEF Set
<1>3. RpcTypeOK'
  BY <1>1, <1>2 DEF RpcInv, RpcTypeOK
<1>4. /\ s # EmptyString /\ s \notin callers
      /\ \A g \in StringField \ {f} : pointer[g] # s
  <2>1. CASE pointer[f] = EmptyString
    BY <1>1, <2>1, StringAssumption
       DEF Private, Live, Owned
  <2>2. CASE pointer[f] # EmptyString
    BY <1>1, <2>2 DEF Private, RpcInv, RpcTypeOK, StringsOwnedOnce
  <2> QED
    BY <2>1, <2>2
<1>5. /\ pointer'[f] = s /\ \A g \in StringField \ {f} : pointer'[g] = pointer[g]
      /\ \A r \in String \cup {EmptyString} : r # s => text'[r] = text[r]
  BY <1>1 DEF RpcInv, RpcTypeOK
<1>6. \A g \in StringField : pointer[g] \in String \cup {EmptyString}
  BY DEF RpcInv, RpcTypeOK
<1> QED
  BY <1>2, <1>3, <1>4, <1>5, <1>6 DEF RpcInv, StringsOwnedOnce

LEMMA ReleaseStep ==
  ASSUME RpcInv, NEW f \in StringField, Release(f)
  PROVE  RpcInv'
<1>1. /\ has' = has \ {f} /\ number' = number /\ text' = text
      /\ callers' = callers \cup ({pointer[f]} \ {EmptyString})
      /\ pointer' = [pointer EXCEPT ![f] = EmptyString]
  BY DEF Release
<1>2. RpcTypeOK'
  BY <1>1 DEF RpcInv, RpcTypeOK
<1>3. pointer'[f] = EmptyString /\ \A g \in StringField \ {f} : pointer'[g] = pointer[g]
  BY <1>1 DEF RpcInv, RpcTypeOK
<1>4. EmptyString \notin callers'
  BY <1>1, StringAssumption DEF RpcInv, RpcTypeOK
<1>5. f \notin NumberField
  BY DEF NumberField, StringField
<1> QED
  BY <1>1, <1>2, <1>3, <1>4, <1>5 DEF RpcInv, StringsOwnedOnce

LEMMA SetAllocatedStep ==
  ASSUME RpcInv, NEW f \in StringField, SetAllocated(f)
  PROVE  RpcInv'
<1>1. number' = number /\ text' = text /\ f \notin NumberField
  BY DEF SetAllocated, NumberField, StringField
<1>2. CASE /\ has' = has \ {f} /\ callers' = callers
           /\ pointer' = [pointer EXCEPT ![f] = EmptyString]
  <2>1. RpcTypeOK'
    BY <1>1, <1>2 DEF RpcInv, RpcTypeOK
  <2>2. pointer'[f] = EmptyString /\ \A g \in StringField \ {f} : pointer'[g] = pointer[g]
    BY <1>2 DEF RpcInv, RpcTypeOK
  <2>3. EmptyString \notin callers
    BY StringAssumption DEF RpcInv, RpcTypeOK
  <2> QED
    BY <1>1, <1>2, <2>1, <2>2, <2>3 DEF RpcInv, StringsOwnedOnce
<1>3. ASSUME NEW s \in callers, has' = has \cup {f}, callers' = callers \ {s},
             pointer' = [pointer EXCEPT ![f] = s]
      PROVE  RpcInv'
  <2>1. RpcTypeOK'
    BY <1>1, <1>3 DEF RpcInv, RpcTypeOK
  <2>2. pointer'[f] = s /\ \A g \in StringField \ {f} : pointer'[g] = pointer[g]
    BY <1>3 DEF RpcInv, RpcTypeOK
  <2>3. \A g \in StringField \ {f} : pointer[g] # s
    BY DEF RpcInv, StringsOwnedOnce
  <2> QED
    BY <1>1, <1>3, <2>1, <2>2, <2>3 DEF RpcInv, StringsOwnedOnce
<1> QED
  BY <1>2, <1>3 DEF SetAllocated

LEMMA CallerStep ==
  ASSUME RpcInv, CallerNews \/ CallerDeletes
  PROVE  RpcInv'
<1>1. CASE CallerNews
  <2>1. PICK s \in String \ Live, t \in Text :
          callers' = callers \cup {s} /\ text' = [text EXCEPT ![s] = t]
    BY <1>1 DEF CallerNews
  <2>2. has' = has /\ number' = number /\ pointer' = pointer
    BY <1>1 DEF CallerNews
  <2>3. RpcTypeOK'
    BY <2>1, <2>2 DEF RpcInv, RpcTypeOK
  <2>4. \A g \in StringField : pointer[g] # s
    BY <2>1 DEF Live, Owned
  <2>5. \A r \in String \cup {EmptyString} : r # s => text'[r] = text[r]
    BY <2>1 DEF RpcInv, RpcTypeOK
  <2>6. \A g \in StringField : pointer[g] \in String \cup {EmptyString}
    BY DEF RpcInv, RpcTypeOK
  <2> QED
    BY <2>1, <2>2, <2>3, <2>4, <2>5, <2>6, StringAssumption
       DEF RpcInv, StringsOwnedOnce
<1>2. CASE CallerDeletes
  BY <1>2 DEF CallerDeletes, RpcInv, RpcTypeOK, StringsOwnedOnce
<1> QED
  BY <1>1, <1>2

\* However strings go between the fields and callers, each has one owner, the
\* shared empty string is not written, and unset fields read as their defaults
\* (the accessors of RpcMessage).
THEOREM StringsAlwaysOwnedOnce ==
  RpcSpec => []StringsOwnedOnce
<1>1. RpcInit => RpcInv
  BY TextAssumption, StringAssumption
     DEF RpcInit, RpcInv, RpcTypeOK, StringsOwnedOnce, Default, NumberField
<1>2. RpcInv /\ [RpcNext]_rpcVars => RpcInv'
  <2> SUFFICES ASSUME RpcInv, [RpcNext]_rpcVars PROVE RpcInv'
    OBVIOUS
  <2>1. CASE Type \/ Ident \/ Error
    <3>1. /\ {"type", "id", "error"} \subseteq NumberField
          /\ MessageType \subseteq Nat /\ {1} \subseteq Nat /\ ErrorCode \subseteq Nat
      BY DEF NumberField, MessageType, ErrorCode
    <3> QED
      BY <2>1, <3>1, NumberStep DEF Type, Ident, Error
  <2>2. ASSUME NEW f \in StringField, StringOf(f) PROVE RpcInv'
    BY <2>2, ClearStep, SetStep, ReleaseStep, SetAllocatedStep DEF StringOf
  <2>3. CASE Service \/ Method \/ Request \/ Response
    <3>1. {"service", "method", "request", "response"} \subseteq StringField
      BY DEF StringField
    <3> QED
      BY <2>2, <2>3, <3>1 DEF Service, Method, Request, Response
  <2>4. CASE UNCHANGED rpcVars
    BY <2>4 DEF rpcVars, RpcInv, RpcTypeOK, StringsOwnedOnce
  <2> QED
    BY <2>1, <2>3, <2>4, CallerStep DEF RpcNext
<1>3. RpcInv => StringsOwnedOnce
  BY DEF RpcInv
<1> QED
  BY <1>1, <1>2, <1>3, PTL DEF RpcSpec
-----------------------------------------------------------------------------
(* Views of strings *)

LEMMA MinIs ==
  ASSUME NEW K \in SUBSET Nat, K # {}
  PROVE  Min(K) \in K /\ \A k \in K : Min(K) <= k
BY LeastNumber DEF Min

LEMMA MinOfTwo ==
  ASSUME NEW m \in Nat, NEW n \in Nat
  PROVE  Min({m, n}) = IF m <= n THEN m ELSE n
<1>1. Min({m, n}) \in {m, n} /\ \A k \in {m, n} : Min({m, n}) <= k
  BY MinIs
<1> QED
  BY <1>1

\* A piece that is not empty lies in the bytes it points into.
InMemory(a) ==
  /\ a.length \in Nat
  /\ a.length # 0 => a.ptr \in 1 .. Len(Memory) /\ a.ptr + a.length - 1 <= Len(Memory)

PieceInv ==
  /\ pieces \in [Pair -> [ptr    : DOMAIN Memory \cup {Len(Memory) + 1, NullPointer},
                          length : Nat]]
  /\ \A i \in Pair : InMemory(pieces[i])

LEMMA MemoryIs ==
  /\ Memory \in Seq(Nat) /\ Len(Memory) \in Nat /\ DOMAIN Memory = 1 .. Len(Memory)
  /\ \A k \in 1 .. Len(Memory) : Memory[k] \in Nat
BY MemoryAssumption, LenProperties, ElementOfSeq

\* The text of a piece are the bytes from its pointer on.
LEMMA TextIs ==
  ASSUME PieceInv, NEW i \in Pair
  PROVE  /\ TextOf(i) \in Seq(Nat) /\ Len(TextOf(i)) = pieces[i].length
         /\ \A k \in 1 .. pieces[i].length : TextOf(i)[k] = Memory[pieces[i].ptr + k - 1]
<1> DEFINE p == pieces[i].ptr
           n == pieces[i].length
<1>1. n \in Nat /\ (n # 0 => p \in 1 .. Len(Memory) /\ p + n - 1 <= Len(Memory))
  BY DEF PieceInv, InMemory
<1>2. CASE n = 0
  BY <1>2, EmptySeq DEF TextOf
<1>3. CASE n # 0
  <2>1. TextOf(i) = SubSeq(Memory, p, p + n - 1)
    BY <1>3 DEF TextOf, as_string
  <2> HIDE DEF p, n
  <2>2. /\ p \in Int /\ p + n - 1 \in Int /\ p <= p + n - 1
        /\ (p + n - 1) - p + 1 = n
        /\ \A k \in p .. p + n - 1 : Memory[k] \in Nat
    BY <1>1, <1>3, MemoryIs
  <2>3. SubSeq(Memory, p, p + n - 1) \in Seq(Nat)
    BY <2>2, SubSeqProperties
  <2>4. /\ Len(SubSeq(Memory, p, p + n - 1)) = n
        /\ \A k \in 1 .. n : SubSeq(Memory, p, p + n - 1)[k] = Memory[p + k - 1]
    BY <2>2, SubSeqProperties
  <2> QED
    BY <2>1, <2>3, <2>4 DEF p, n
<1> QED
  BY <1>2, <1>3

\* c compares the first n bytes of two texts.
Compares(s, t, n, c) ==
  \/ c = 0 /\ \A k \in 1 .. n : s[k] = t[k]
  \/ \E d \in 1 .. n : /\ s[d] # t[d] /\ c = s[d] - t[d]
                       /\ \A k \in 1 .. d - 1 : s[k] = t[k]

LEMMA MemcmpIs ==
  ASSUME PieceInv, NEW i \in Pair, NEW j \in Pair,
         NEW n \in Nat, n <= pieces[i].length, n <= pieces[j].length
  PROVE  Compares(TextOf(i), TextOf(j), n, memcmp(pieces[i].ptr, pieces[j].ptr, n))
<1> DEFINE p == pieces[i].ptr
           q == pieces[j].ptr
           s == TextOf(i)
           t == TextOf(j)
           D == {k \in 0 .. n - 1 : Memory[p + k] # Memory[q + k]}
<1>1. CASE n = 0
  <2>1. D = {}
    BY <1>1
  <2>2. memcmp(p, q, n) = 0
    BY <2>1 DEF memcmp
  <2> QED
    BY <1>1, <2>2 DEF Compares
<1>2. CASE n # 0
  <2>1. p \in Nat /\ q \in Nat
    BY <1>2, MemoryIs DEF PieceInv, InMemory
  <2>2. \A k \in 1 .. n : s[k] = Memory[p + (k - 1)] /\ t[k] = Memory[q + (k - 1)]
    <3> TAKE k \in 1 .. n
    <3>1. k \in 1 .. pieces[i].length /\ k \in 1 .. pieces[j].length
      BY DEF PieceInv, InMemory
    <3>2. p + k - 1 = p + (k - 1) /\ q + k - 1 = q + (k - 1)
      BY <2>1
    <3> QED
      BY <3>1, <3>2, TextIs
  <2>3. memcmp(p, q, n) = IF D = {} THEN 0 ELSE Memory[p + Min(D)] - Memory[q + Min(D)]
    BY DEF memcmp
  <2> HIDE DEF p, q, s, t
  <2>4. CASE D = {}
    <3>1. ASSUME NEW k \in 1 .. n PROVE s[k] = t[k]
      <4>1. k - 1 \in 0 .. n - 1
        OBVIOUS
      <4> QED
        BY <2>2, <2>4, <4>1
    <3> QED
      BY <2>3, <2>4, <3>1 DEF Compares, p, q, s, t
  <2>5. CASE D # {}
    <3> DEFINE m == Min(D)
               d == m + 1
    <3>1. m \in D /\ \A k \in D : m <= k
      <4>1. D \in SUBSET Nat
        OBVIOUS
      <4> HIDE DEF D
      <4> QED
        BY <2>5, <4>1, MinIs
    <3>2. memcmp(p, q, n) = Memory[p + m] - Memory[q + m]
      BY <2>3, <2>5
    <3> HIDE DEF m
    <3>3. d \in 1 .. n /\ d - 1 = m
      BY <3>1
    <3>4. s[d] # t[d] /\ memcmp(p, q, n) = s[d] - t[d]
      BY <2>2, <3>1, <3>2, <3>3
    <3>5. ASSUME NEW k \in 1 .. d - 1 PROVE s[k] = t[k]
      <4>1. k \in 1 .. n /\ k - 1 \in 0 .. n - 1 /\ k - 1 \in Nat /\ k - 1 < m
        BY <3>3
      <4>2. k - 1 \notin D
        BY <3>1, <3>3, <4>1
      <4> QED
        BY <2>2, <4>1, <4>2
    <3> HIDE DEF d
    <3> QED
      BY <3>3, <3>4, <3>5 DEF Compares, p, q, s, t
  <2> QED
    BY <2>4, <2>5
<1> QED
  BY <1>1, <1>2

LEMMA SameFront ==
  ASSUME NEW s \in Seq(Nat), NEW t \in Seq(Nat),
         NEW n \in Nat, n <= Len(s), n <= Len(t)
  PROVE  SubSeq(s, 1, n) = SubSeq(t, 1, n) <=> \A k \in 1 .. n : s[k] = t[k]
<1>1. Len(s) \in Nat /\ Len(t) \in Nat
  BY LenProperties
<1>2. /\ SubSeq(s, 1, n) = [k \in 1 .. n |-> s[k]]
      /\ SubSeq(t, 1, n) = [k \in 1 .. n |-> t[k]]
  BY <1>1
<1> DEFINE f == [k \in 1 .. n |-> s[k]]
           g == [k \in 1 .. n |-> t[k]]
<1>3. (\A k \in 1 .. n : f[k] = s[k]) /\ (\A k \in 1 .. n : g[k] = t[k])
  OBVIOUS
<1>4. (\A k \in 1 .. n : s[k] = t[k]) => f = g
  OBVIOUS
<1> HIDE DEF f, g
<1> QED
  BY <1>2, <1>3, <1>4 DEF f, g

\* The order of two texts, byte by byte.
LEMMA BeforeIs ==
  ASSUME NEW s \in Seq(Nat), NEW t \in Seq(Nat)
  PROVE  Before(s, t) <=>
           \E n \in 0 .. Len(s) : /\ n < Len(t)
                                  /\ \A k \in 1 .. n : s[k] = t[k]
                                  /\ n < Len(s) => s[n + 1] < t[n + 1]
<1>1. Len(s) \in Nat /\ Len(t) \in Nat
  BY LenProperties
<1>2. Min({Len(s), Len(t)}) = IF Len(s) <= Len(t) THEN Len(s) ELSE Len(t)
  BY <1>1, MinOfTwo
<1>3. \A n \in 0 .. Len(s) :
        n < Len(t) => (SubSeq(s, 1, n) = SubSeq(t, 1, n) <=> \A k \in 1 .. n : s[k] = t[k])
  BY <1>1, SameFront
<1>4. 0 .. Min({Len(s), Len(t)}) = {n \in 0 .. Len(s) : n <= Len(t)}
  BY <1>1, <1>2
<1>5. ASSUME Before(s, t)
      PROVE  \E n \in 0 .. Len(s) : /\ n < Len(t)
                                    /\ \A k \in 1 .. n : s[k] = t[k]
                                    /\ n < Len(s) => s[n + 1] < t[n + 1]
  <2>1. PICK n \in 0 .. Min({Len(s), Len(t)}) :
          /\ SubSeq(s, 1, n) = SubSeq(t, 1, n)
          /\ n < Len(t)
          /\ n < Len(s) => s[n + 1] < t[n + 1]
    BY <1>5 DEF Before
  <2>2. n \in 0 .. Len(s)
    BY <1>4
  <2>3. \A k \in 1 .. n : s[k] = t[k]
    BY <1>3, <2>1, <2>2
  <2> QED
    BY <2>1, <2>2, <2>3
<1>6. ASSUME NEW n \in 0 .. Len(s), n < Len(t), \A k \in 1 .. n : s[k] = t[k],
             n < Len(s) => s[n + 1] < t[n + 1]
      PROVE  Before(s, t)
  <2>1. SubSeq(s, 1, n) = SubSeq(t, 1, n)
    BY <1>3, <1>6
  <2>2. n <= Len(t)
    BY <1>1, <1>6
  <2>3. n \in 0 .. Min({Len(s), Len(t)})
    BY <1>4, <2>2
  <2> QED
    BY <1>6, <2>1, <2>3 DEF Before
<1> QED
  BY <1>5, <1>6

\* Comparing the bytes two texts both have, and then their lengths, is the
\* order of the texts.
LEMMA OrderIs ==
  ASSUME NEW s \in Seq(Nat), NEW t \in Seq(Nat), NEW c,
         Compares(s, t, Min({Len(s), Len(t)}), c)
  PROVE  /\ c \in Int
         /\ Before(s, t) <=> c < 0 \/ (c = 0 /\ Len(s) < Len(t))
<1> DEFINE n == Min({Len(s), Len(t)})
<1>1. /\ Len(s) \in Nat /\ Len(t) \in Nat /\ n \in Nat
      /\ n = IF Len(s) <= Len(t) THEN Len(s) ELSE Len(t)
      /\ \A k \in 1 .. Len(s) : s[k] \in Nat
      /\ \A k \in 1 .. Len(t) : t[k] \in Nat
  <2>1. Len(s) \in Nat /\ Len(t) \in Nat
    BY LenProperties
  <2>2. n = IF Len(s) <= Len(t) THEN Len(s) ELSE Len(t)
    BY <2>1, MinOfTwo
  <2>3. \A k \in 1 .. Len(s) : s[k] \in Nat
    BY ElementOfSeq
  <2>4. \A k \in 1 .. Len(t) : t[k] \in Nat
    BY ElementOfSeq
  <2> HIDE DEF n
  <2>5. n \in Nat
    BY <2>1, <2>2
  <2> QED
    BY <2>1, <2>2, <2>3, <2>4, <2>5
<1>2. Compares(s, t, n, c)
  OBVIOUS
<1> HIDE DEF n
<1>3. CASE c = 0 /\ \A k \in 1 .. n : s[k] = t[k]
  <2>1. ASSUME Len(s) < Len(t) PROVE Before(s, t)
    BY <1>1, <1>3, <2>1, BeforeIs
  <2>2. ASSUME NEW i \in 0 .. Len(s), i < Len(t), i < Len(s) => s[i + 1] < t[i + 1]
        PROVE  Len(s) < Len(t)
    <3> SUFFICES ASSUME Len(t) <= Len(s) PROVE FALSE
      BY <1>1
    <3>1. i + 1 \in 1 .. n /\ i + 1 \in 1 .. Len(s) /\ i < Len(s)
      BY <1>1, <2>2
    <3> QED
      BY <1>1, <1>3, <2>2, <3>1
  <2> QED
    BY <1>3, <2>1, <2>2, BeforeIs
<1>4. ASSUME NEW d \in 1 .. n, s[d] # t[d], c = s[d] - t[d],
             \A k \in 1 .. d - 1 : s[k] = t[k]
      PROVE  c \in Int /\ c # 0 /\ (Before(s, t) <=> c < 0)
  <2>1. /\ d \in 1 .. Len(s) /\ d \in 1 .. Len(t) /\ s[d] \in Nat /\ t[d] \in Nat
        /\ d - 1 \in 0 .. Len(s) /\ d - 1 < Len(t) /\ (d - 1) + 1 = d
    BY <1>1
  <2>2. c \in Int /\ c # 0 /\ (c < 0 <=> s[d] < t[d])
    <3> DEFINE x == s[d]
               y == t[d]
    <3>1. x \in Nat /\ y \in Nat /\ x # y /\ c = x - y
      BY <1>4, <2>1
    <3> HIDE DEF x, y
    <3>2. c \in Int /\ c # 0 /\ (c < 0 <=> x < y)
      BY <3>1
    <3> QED
      BY <3>2 DEF x, y
  <2>3. ASSUME s[d] < t[d] PROVE Before(s, t)
    BY <1>4, <2>1, <2>3, BeforeIs
  <2>4. ASSUME NEW i \in 0 .. Len(s), i < Len(t), \A k \in 1 .. i : s[k] = t[k],
               i < Len(s) => s[i + 1] < t[i + 1]
        PROVE  s[d] < t[d]
    <3>1. i <= d - 1
      <4> SUFFICES ASSUME d - 1 < i PROVE FALSE
        BY <2>1
      <4>1. d \in 1 .. i
        BY <2>1
      <4> QED
        BY <1>4, <2>4, <4>1
    <3>2. i < Len(s) /\ i + 1 \in 1 .. Len(s) /\ i + 1 \in 1 .. Len(t)
      <4>1. Len(s) \in Nat /\ Len(t) \in Nat /\ d <= Len(s) /\ d <= Len(t) /\ d \in Nat
        BY <1>1, <2>1
      <4>2. i \in Nat /\ i <= d - 1
        BY <3>1
      <4> QED
        BY ONLY <4>1, <4>2
    <3>3. CASE i = d - 1
      BY <2>1, <2>4, <3>2, <3>3
    <3>4. CASE i # d - 1
      <4>1. i + 1 \in 1 .. d - 1
        BY <2>1, <3>1, <3>4
      <4>2. s[i + 1] = t[i + 1] /\ s[i + 1] \in Nat
        BY <1>1, <1>4, <3>2, <4>1
      <4> QED
        BY <2>4, <3>2, <4>2
    <3> QED
      BY <3>3, <3>4
  <2> QED
    BY <2>2, <2>3, <2>4, BeforeIs
<1> QED
  BY <1>2, <1>3, <1>4 DEF Compares

LEMMA ComparesZero ==
  ASSUME NEW s \in Seq(Nat), NEW t \in Seq(Nat), NEW n \in Nat, n <= Len(s), n <= Len(t),
         NEW c, Compares(s, t, n, c)
  PROVE  c = 0 <=> \A k \in 1 .. n : s[k] = t[k]
<1>1. ASSUME NEW d \in 1 .. n, s[d] # t[d], c = s[d] - t[d]
      PROVE  c # 0
  <2>1. d \in 1 .. Len(s) /\ d \in 1 .. Len(t)
    BY <1>1, LenProperties
  <2> DEFINE x == s[d]
             y == t[d]
  <2>2. x \in Nat /\ y \in Nat /\ x # y /\ c = x - y
    BY <1>1, <2>1, ElementOfSeq
  <2> HIDE DEF x, y
  <2> QED
    BY <2>2
<1> QED
  BY <1>1 DEF Compares

LEMMA ComparesBack ==
  ASSUME NEW s \in Seq(Nat), NEW t \in Seq(Nat), NEW n \in Nat, n <= Len(s), n <= Len(t),
         NEW c, Compares(s, t, n, c)
  PROVE  Compares(t, s, n, 0 - c)
<1>1. ASSUME NEW d \in 1 .. n, c = s[d] - t[d]
      PROVE  0 - c = t[d] - s[d]
  <2>1. d \in 1 .. Len(s) /\ d \in 1 .. Len(t)
    BY <1>1, LenProperties
  <2> DEFINE x == s[d]
             y == t[d]
  <2>2. x \in Nat /\ y \in Nat /\ c = x - y
    BY <1>1, <2>1, ElementOfSeq
  <2> HIDE DEF x, y
  <2>3. 0 - c = y - x
    BY <2>2
  <2> QED
    BY <2>3 DEF x, y
<1>2. ASSUME NEW d \in 1 .. n, s[d] # t[d], c = s[d] - t[d],
             \A k \in 1 .. d - 1 : s[k] = t[k]
      PROVE  Compares(t, s, n, 0 - c)
  <2>1. 0 - c = t[d] - s[d]
    BY <1>1, <1>2
  <2> QED
    BY <1>2, <2>1 DEF Compares
<1>3. ASSUME c = 0, \A k \in 1 .. n : s[k] = t[k]
      PROVE  Compares(t, s, n, 0 - c)
  <2>1. 0 - c = 0
    BY <1>3
  <2> QED
    BY <1>3, <2>1 DEF Compares
<1> QED
  BY <1>2, <1>3 DEF Compares

LEMMA InitPieceInv == PieceInit => PieceInv
BY DEF PieceInit, PieceInv, InMemory, Empty

\* strlen finds the NUL that ends the string, or one before it.
LEMMA StrlenIs ==
  ASSUME NEW p \in DOMAIN Memory
  PROVE  strlen(p) \in 0 .. Len(Memory) - p
<1> DEFINE K == {k \in 0 .. Len(Memory) - p : Memory[p + k] = 0}
<1>1. p \in 1 .. Len(Memory) /\ Len(Memory) \in Nat
  BY MemoryIs
<1>2. K # {}
  <2>1. Len(Memory) - p \in 0 .. Len(Memory) - p /\ p + (Len(Memory) - p) = Len(Memory)
    BY <1>1
  <2> QED
    BY <2>1, MemoryAssumption
<1>3. K \in SUBSET Nat
  OBVIOUS
<1>4. strlen(p) = Min(K)
  BY DEF strlen
<1>5. Min(K) \in K
  <2> HIDE DEF K
  <2> QED
    BY <1>2, <1>3, MinIs
<1> QED
  BY <1>4, <1>5

\* However a piece is set or cut it stays in memory.
LEMMA PieceStep ==
  PieceInv /\ [PieceNext]_pieces => PieceInv'
<1> SUFFICES ASSUME PieceInv, [PieceNext]_pieces PROVE PieceInv'
  OBVIOUS
<1> DEFINE Pointers == DOMAIN Memory \cup {Len(Memory) + 1, NullPointer}
<1>1. /\ pieces \in [Pair -> [ptr : Pointers, length : Nat]]
      /\ \A i \in Pair : InMemory(pieces[i])
  BY DEF PieceInv
<1>2. ASSUME NEW i \in Pair, NEW a \in [ptr : Pointers, length : Nat], InMemory(a),
             pieces' = [pieces EXCEPT ![i] = a]
      PROVE  PieceInv'
  BY <1>1, <1>2 DEF PieceInv
<1>3. ASSUME NEW i \in Pair, NEW p \in DOMAIN Memory, NEW n \in 0 .. Len(Memory) - p,
             pieces' = [pieces EXCEPT ![i] = [ptr |-> p, length |-> n]]
      PROVE  PieceInv'
  <2>1. /\ p \in 1 .. Len(Memory) /\ n \in Nat /\ p + n - 1 <= Len(Memory)
    BY MemoryIs
  <2>2. [ptr |-> p, length |-> n] \in [ptr : Pointers, length : Nat]
    BY <2>1
  <2>3. InMemory([ptr |-> p, length |-> n])
    BY <2>1 DEF InMemory
  <2> QED
    BY <1>2, <1>3, <2>2, <2>3
<1>4. ASSUME NEW i \in Pair, clear(i) PROVE PieceInv'
  <2>1. Empty \in [ptr : Pointers, length : Nat] /\ InMemory(Empty)
    BY DEF Empty, InMemory
  <2> QED
    BY <1>2, <1>4, <2>1 DEF clear
<1>5. ASSUME NEW i \in Pair, NEW n \in 1 .. pieces[i].length, NEW a,
             \/ a = [pieces[i] EXCEPT !.ptr = @ + n, !.length = @ - n]
             \/ a = [pieces[i] EXCEPT !.length = @ - n]
      PROVE  a \in [ptr : Pointers, length : Nat] /\ InMemory(a)
  <2> DEFINE p == pieces[i].ptr
             l == pieces[i].length
  <2>1. l \in Nat /\ l # 0 /\ p \in 1 .. Len(Memory) /\ p + l - 1 <= Len(Memory)
    BY <1>1 DEF InMemory
  <2>2. /\ n \in 1 .. l /\ l - n \in Nat /\ p + n \in 1 .. Len(Memory) + 1
        /\ (l - n # 0 => p + n \in 1 .. Len(Memory))
        /\ (p + n) + (l - n) - 1 <= Len(Memory) /\ p + (l - n) - 1 <= Len(Memory)
    <3> HIDE DEF p, l
    <3>1. n \in 1 .. l
      BY DEF l
    <3> QED
      BY <2>1, <3>1, MemoryIs
  <2>3. p + n \in Pointers /\ p \in Pointers
    BY <2>1, <2>2, MemoryIs
  <2>4. \/ a = [ptr |-> p + n, length |-> l - n]
        \/ a = [ptr |-> p, length |-> l - n]
    BY <1>1, <1>5
  <2> HIDE DEF p, l
  <2> QED
    BY <2>1, <2>2, <2>3, <2>4 DEF InMemory
<1>6. ASSUME NEW i \in Pair, remove_prefix(i) \/ remove_suffix(i) PROVE PieceInv'
  <2> DEFINE Shorter(n) == [pieces[i] EXCEPT !.ptr = @ + n, !.length = @ - n]
             Cut(n) == [pieces[i] EXCEPT !.length = @ - n]
  <2>1. PICK n \in 1 .. pieces[i].length :
          \/ pieces' = [pieces EXCEPT ![i] = Shorter(n)]
          \/ pieces' = [pieces EXCEPT ![i] = Cut(n)]
    BY <1>1, <1>6 DEF remove_prefix, remove_suffix
  <2>2. /\ Shorter(n) \in [ptr : Pointers, length : Nat] /\ InMemory(Shorter(n))
        /\ Cut(n) \in [ptr : Pointers, length : Nat] /\ InMemory(Cut(n))
    BY <1>5
  <2> HIDE DEF Shorter, Cut
  <2> QED
    BY <1>2, <2>1, <2>2
<1>7. CASE UNCHANGED pieces
  BY <1>7 DEF PieceInv
<1> QED
  BY <1>3, <1>4, <1>6, <1>7, StrlenIs DEF PieceNext, SetView, SetCString

\* StringPiece.h: the five operators, compare and starts_with agree with each
\* other and with the order of the texts, for any bytes and any way the pieces
\* were set and cut.
THEOREM ComparisonsAlwaysAgree == PieceSpec => []ComparisonsAgree
<1>1. ASSUME PieceInv PROVE ComparisonsAgree
  <2> DEFINE a == pieces["this"]
             b == pieces["x"]
             s == TextOf("this")
             t == TextOf("x")
             n == Min({a.length, b.length})
             c == Common(a, b)
  <2>1. "this" \in Pair /\ "x" \in Pair
    BY DEF Pair
  <2>2. /\ s \in Seq(Nat) /\ t \in Seq(Nat)
        /\ Len(s) = a.length /\ Len(t) = b.length
        /\ a.length \in Nat /\ b.length \in Nat
    BY <1>1, <2>1, TextIs DEF PieceInv, InMemory
  <2>3. /\ n = IF a.length <= b.length THEN a.length ELSE b.length
        /\ n \in Nat /\ n <= a.length /\ n <= b.length
    <3>1. n = IF a.length <= b.length THEN a.length ELSE b.length
      BY <2>2, MinOfTwo
    <3> QED
      BY <2>2, <3>1
  <2>4. Compares(s, t, n, c)
    BY <1>1, <2>1, <2>2, <2>3, MemcmpIs DEF Common
  <2>5. Compares(t, s, n, 0 - c)
    BY <2>2, <2>3, <2>4, ComparesBack
  <2> HIDE DEF s, t, c
  <2>6. n = Min({Len(s), Len(t)}) /\ n = Min({Len(t), Len(s)})
    <3>1. {Len(s), Len(t)} = {a.length, b.length} /\ {Len(t), Len(s)} = {a.length, b.length}
      BY <2>2
    <3> QED
      BY <3>1
  <2> HIDE DEF n
  <2>7. c \in Int /\ (Before(s, t) <=> c < 0 \/ (c = 0 /\ a.length < b.length))
    BY <2>2, <2>4, <2>6, OrderIs
  <2>8. 0 - c \in Int /\ (Before(t, s) <=> 0 - c < 0 \/ (0 - c = 0 /\ b.length < a.length))
    BY <2>2, <2>5, <2>6, OrderIs
  <2>9. Before(t, s) <=> c > 0 \/ (c = 0 /\ b.length < a.length)
    BY <2>7, <2>8
  <2>10. Equals(a, b) <=> s = t
    <3>1. ASSUME a.length = b.length
          PROVE  memcmp(a.ptr, b.ptr, a.length) = 0 <=> \A k \in 1 .. a.length : s[k] = t[k]
      <4>1. Compares(s, t, a.length, memcmp(a.ptr, b.ptr, a.length))
        BY <1>1, <2>1, <2>2, <3>1, MemcmpIs DEF s, t
      <4> QED
        BY <2>2, <3>1, <4>1, ComparesZero
    <3>2. s = t => \A k \in 1 .. a.length : s[k] = t[k]
      OBVIOUS
    <3>3. ASSUME a.length = b.length, \A k \in 1 .. a.length : s[k] = t[k]
          PROVE  s = t
      BY <2>2, <3>3, SeqEqual
    <3>4. s = t => a.length = b.length
      BY <2>2
    <3> QED
      BY <3>1, <3>2, <3>3, <3>4 DEF Equals
  <2>11. starts_with(a, b) <=> Len(t) <= Len(s) /\ SubSeq(s, 1, Len(t)) = t
    <3>1. ASSUME b.length <= a.length
          PROVE  memcmp(a.ptr, b.ptr, b.length) = 0 <=> \A k \in 1 .. b.length : s[k] = t[k]
      <4> DEFINE i == b.length
                 e == memcmp(a.ptr, b.ptr, i)
      <4>1. Compares(s, t, i, e)
        BY <1>1, <2>1, <2>2, <3>1, MemcmpIs DEF s, t
      <4>2. i \in Nat /\ i <= Len(s) /\ i <= Len(t)
        BY <2>2, <3>1
      <4> HIDE DEF i, e
      <4>3. e = 0 <=> \A k \in 1 .. i : s[k] = t[k]
        BY <2>2, <4>1, <4>2, ComparesZero
      <4> QED
        BY <4>3 DEF i, e
    <3>2. SubSeq(t, 1, Len(t)) = t
      BY <2>2, SubSeqFull
    <3>3. ASSUME b.length <= a.length
          PROVE  SubSeq(s, 1, Len(t)) = t <=> \A k \in 1 .. b.length : s[k] = t[k]
      <4>1. SubSeq(s, 1, b.length) = SubSeq(t, 1, b.length) <=>
              \A k \in 1 .. b.length : s[k] = t[k]
        BY <2>2, <3>3, SameFront
      <4> QED
        BY <2>2, <3>2, <4>1
    <3>4. starts_with(a, b) <=> b.length <= a.length /\ memcmp(a.ptr, b.ptr, b.length) = 0
      BY <2>2 DEF starts_with
    <3> QED
      BY <2>2, <3>1, <3>3, <3>4
  <2>12. /\ Less(a, b) <=> c < 0 \/ (c = 0 /\ a.length < b.length)
         /\ AtMost(a, b) <=> c < 0 \/ (c = 0 /\ a.length <= b.length)
         /\ AtLeast(a, b) <=> c > 0 \/ (c = 0 /\ a.length >= b.length)
         /\ Greater(a, b) <=> c > 0 \/ (c = 0 /\ a.length > b.length)
         /\ compare(a, b) = IF c # 0 \/ a.length = b.length THEN c
                            ELSE IF a.length < b.length THEN -1 ELSE 1
    BY DEF Less, AtMost, AtLeast, Greater, Predicate, compare, c
  <2> DEFINE x == a.length
             y == b.length
  <2>13. x \in Nat /\ y \in Nat
    BY <2>2
  <2>14. /\ Less(a, b) <=> Before(s, t)
         /\ AtMost(a, b) <=> ~Before(t, s)
         /\ AtLeast(a, b) <=> ~Before(s, t)
         /\ Greater(a, b) <=> Before(t, s)
    <3>1. /\ Before(s, t) <=> c < 0 \/ (c = 0 /\ x < y)
          /\ Before(t, s) <=> c > 0 \/ (c = 0 /\ y < x)
          /\ Less(a, b) <=> c < 0 \/ (c = 0 /\ x < y)
          /\ AtMost(a, b) <=> c < 0 \/ (c = 0 /\ x <= y)
          /\ AtLeast(a, b) <=> c > 0 \/ (c = 0 /\ x >= y)
          /\ Greater(a, b) <=> c > 0 \/ (c = 0 /\ x > y)
      BY <2>7, <2>9, <2>12
    <3> HIDE DEF x, y
    <3> QED
      BY <2>7, <2>13, <3>1
  <2>15. /\ compare(a, b) < 0 <=> Before(s, t)
         /\ compare(a, b) > 0 <=> Before(t, s)
    <3>1. /\ Before(s, t) <=> c < 0 \/ (c = 0 /\ x < y)
          /\ Before(t, s) <=> c > 0 \/ (c = 0 /\ y < x)
          /\ compare(a, b) = IF c # 0 \/ x = y THEN c ELSE IF x < y THEN -1 ELSE 1
      BY <2>7, <2>9, <2>12
    <3> HIDE DEF x, y
    <3> QED
      BY <2>7, <2>13, <3>1
  <2> QED
    BY <2>10, <2>11, <2>14, <2>15 DEF ComparisonsAgree, s, t
<1>2. PieceInv /\ [PieceNext]_pieces => PieceInv'
  BY PieceStep
<1> QED
  BY <1>1, <1>2, InitPieceInv, PTL DEF PieceSpec
=============================================================================
