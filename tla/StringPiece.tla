---------------------------- MODULE StringPiece -----------------------------
(***************************************************************************)
(* A StringPiece is a pointer into someone else's bytes and a length.  Two *)
(* of them, this and x, are set, cut and compared; both may point into the *)
(* same string.                                                            *)
(*                                                                         *)
(* Operators marked "(mutation)" are altered forms of the definition that  *)
(* follows them; no specification uses them.                               *)
(***************************************************************************)
EXTENDS Integers, Sequences, FiniteSetsExt

CONSTANTS
  Memory,      \* the bytes pieces point into
  NullPointer

ASSUME MemoryAssumption ==
  Memory \in Seq(Nat) /\ Memory[Len(Memory)] = 0 /\ NullPointer \notin DOMAIN Memory

VARIABLE pieces   \* ptr_ and length_ of the two

Empty == [ptr |-> NullPointer, length |-> 0]

Pair == {"this", "x"}

PieceTypeOK ==
  pieces \in [Pair -> [ptr    : DOMAIN Memory \cup {Len(Memory) + 1, NullPointer},
                         length : 0 .. Len(Memory)]]

PieceInit == pieces = [i \in Pair |-> Empty]

strlen(p) == Min({k \in 0 .. Len(Memory) - p : Memory[p + k] = 0})

\* To a string, or part of one, with its length; to a C string, with strlen.
SetView(i) ==
  \E p \in DOMAIN Memory :
    \E n \in 0 .. Len(Memory) - p :
      pieces' = [pieces EXCEPT ![i] = [ptr |-> p, length |-> n]]

SetCString(i) ==
  \E p \in DOMAIN Memory :
    pieces' = [pieces EXCEPT ![i] = [ptr |-> p, length |-> strlen(p)]]

clear(i) == pieces' = [pieces EXCEPT ![i] = Empty]

remove_prefix(i) ==
  \E n \in 1 .. pieces[i].length :
    pieces' = [pieces EXCEPT ![i].ptr = @ + n, ![i].length = @ - n]

remove_suffix(i) ==
  \E n \in 1 .. pieces[i].length :
    pieces' = [pieces EXCEPT ![i].length = @ - n]

PieceNext ==
  \E i \in Pair : \/ SetView(i) \/ SetCString(i) \/ clear(i)
                    \/ remove_prefix(i) \/ remove_suffix(i)

PieceSpec == PieceInit /\ [][PieceNext]_pieces

-----------------------------------------------------------------------------
(* Comparisons *)

\* The difference of the first bytes that differ; none are read if n is 0.
memcmp(p, q, n) ==
  LET D == {k \in 0 .. n - 1 : Memory[p + k] # Memory[q + k]}
  IN  IF D = {} THEN 0 ELSE Memory[p + Min(D)] - Memory[q + Min(D)]

Common(a, b) == memcmp(a.ptr, b.ptr, Min({a.length, b.length}))

Equals(a, b) == a.length = b.length /\ memcmp(a.ptr, b.ptr, a.length) = 0

\* STRINGPIECE_BINARY_PREDICATE: auxcmp compares the common parts, cmp the
\* lengths.
Predicate(a, b, cmp, auxcmp) == auxcmp \/ (Common(a, b) = 0 /\ cmp)

Less(a, b) == Predicate(a, b, a.length < b.length, Common(a, b) < 0)

\* The same comparison is used for both (mutation).
AtMostAux(a, b) == Predicate(a, b, a.length <= b.length, Common(a, b) <= 0)

AtMost(a, b) == Predicate(a, b, a.length <= b.length, Common(a, b) < 0)

AtLeast(a, b) == Predicate(a, b, a.length >= b.length, Common(a, b) > 0)

Greater(a, b) == Predicate(a, b, a.length > b.length, Common(a, b) > 0)

compare(a, b) ==
  LET r == Common(a, b)
  IN  IF r # 0 \/ a.length = b.length THEN r
      ELSE IF a.length < b.length THEN -1 ELSE 1

starts_with(a, b) == a.length >= b.length /\ memcmp(a.ptr, b.ptr, b.length) = 0

-----------------------------------------------------------------------------
(* Properties *)

as_string(a) == SubSeq(Memory, a.ptr, a.ptr + a.length - 1)

TextOf(i) == IF pieces[i].length = 0 THEN <<>> ELSE as_string(pieces[i])

\* The order of a dictionary: after n bytes they share s ends before t does,
\* or has the smaller byte.
Before(s, t) ==
  \E n \in 0 .. Min({Len(s), Len(t)}) :
    /\ SubSeq(s, 1, n) = SubSeq(t, 1, n)
    /\ n < Len(t)
    /\ n < Len(s) => s[n + 1] < t[n + 1]

\* The five operators, compare and starts_with agree with each other and with
\* the one order of the texts, however the pieces were set and cut: where they
\* share bytes, where one is a prefix of the other, with NULs inside, and with
\* the null pointer of an empty piece.
ComparisonsAgree ==
  LET a == pieces["this"]  s == TextOf("this")
      b == pieces["x"]     t == TextOf("x")
  IN  /\ Equals(a, b)  <=> s = t
      /\ Less(a, b)    <=> Before(s, t)
      /\ AtMost(a, b)  <=> ~Before(t, s)
      /\ AtLeast(a, b) <=> ~Before(s, t)
      /\ Greater(a, b) <=> Before(t, s)
      /\ compare(a, b) < 0 <=> Before(s, t)
      /\ compare(a, b) > 0 <=> Before(t, s)
      /\ starts_with(a, b) <=> Len(t) <= Len(s) /\ SubSeq(s, 1, Len(t)) = t
=============================================================================
