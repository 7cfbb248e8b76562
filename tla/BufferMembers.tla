--------------------------- MODULE BufferMembers ----------------------------
(***************************************************************************)
(* The member functions of the network buffer every connection reads into  *)
(* and sendCodec writes from: one array with the readable bytes between    *)
(* two indices, room to prepend before them and to append after.  Each is  *)
(* an operator on the record of the array and its indices.                 *)
(*                                                                         *)
(* The w of the operators on integers stands for the sizes of the four     *)
(* integers the code has a function of each kind for.  Operators marked    *)
(* "(mutation)" are altered forms of the definition that follows them.     *)
(***************************************************************************)
EXTENDS NetworkOrder

CONSTANTS
  CheapPrepend,  \* kCheapPrepend
  InitialSize    \* kInitialSize

ASSUME PrependAssumption == CheapPrepend \in Nat /\ InitialSize \in Nat

NewBuffer(initialSize) ==
  [size   |-> CheapPrepend + initialSize,
   data   |-> [k \in 0 .. CheapPrepend + initialSize - 1 |-> 0],
   reader |-> CheapPrepend,
   writer |-> CheapPrepend]

readableBytes(b)    == b.writer - b.reader
writableBytes(b)    == b.size - b.writer
prependableBytes(b) == b.reader

\* From peek() to beginWrite().
Content(b) == [k \in 1 .. readableBytes(b) |-> b.data[b.reader + k - 1]]

retrieveAll(b) == [b EXCEPT !.reader = CheapPrepend, !.writer = CheapPrepend]

retrieve(b, len) ==
  IF len < readableBytes(b) THEN [b EXCEPT !.reader = @ + len] ELSE retrieveAll(b)

\* The bytes retrieveAsString returns.
Front(b, len) == [k \in 1 .. len |-> b.data[b.reader + k - 1]]

retrieveInt(b, w) == retrieve(b, w)

peekInt(b, w) == networkToHost(w, Front(b, w))

\* The position in the content of the first s, or 0 for NULL; from is where
\* the search begins.
Search(b, from, s) ==
  LET At == {k \in from .. readableBytes(b) - Len(s) + 1 :
               \A j \in 1 .. Len(s) : Content(b)[k + j - 1] = s[j]}
  IN  IF At = {} THEN 0 ELSE CHOOSE k \in At : \A l \in At : k <= l

CR == 1
LF == 0
findCRLF(b, from) == Search(b, from, <<CR, LF>>)
findEOL(b, from)  == Search(b, from, <<LF>>)

\* No room is kept for kCheapPrepend (mutation).
GrowsLate(b, len) == writableBytes(b) + prependableBytes(b) < len

Grows(b, len) ==
  writableBytes(b) + prependableBytes(b) < len + CheapPrepend

\* Growing keeps the bytes where they are; the new ones are zero.
Resized(b, size) ==
  [b EXCEPT !.size = size,
            !.data = [k \in 0 .. size - 1 |-> IF k < b.size THEN b.data[k] ELSE 0]]

\* readerIndex_ is moved before the bytes are copied (mutation).
MovedToFrontLate(b) ==
  [b EXCEPT !.reader = CheapPrepend,
            !.writer = CheapPrepend + readableBytes(b)]

\* The readable bytes move to the front of the array.
MovedToFront(b) ==
  [b EXCEPT !.data = [k \in DOMAIN @ |->
                        IF k \in CheapPrepend .. CheapPrepend + readableBytes(b) - 1
                        THEN b.data[b.reader + k - CheapPrepend]
                        ELSE b.data[k]],
            !.reader = CheapPrepend,
            !.writer = CheapPrepend + readableBytes(b)]

makeSpace(b, len) ==
  IF Grows(b, len) THEN Resized(b, b.writer + len) ELSE MovedToFront(b)

ensureWritableBytes(b, len) ==
  IF writableBytes(b) < len THEN makeSpace(b, len) ELSE b

hasWritten(b, len) == [b EXCEPT !.writer = @ + len]

unwrite(b, len) == [b EXCEPT !.writer = @ - len]

\* s is copied to the array at a position.
Copied(b, at, s) ==
  [b EXCEPT !.data = [k \in DOMAIN @ |->
                        IF k \in at .. at + Len(s) - 1 THEN s[k - at + 1] ELSE @[k]]]

append(b, s) ==
  LET e == ensureWritableBytes(b, Len(s))
  IN  hasWritten(Copied(e, e.writer, s), Len(s))

prepend(b, s) ==
  Copied([b EXCEPT !.reader = @ - Len(s)], b.reader - Len(s), s)

appendInt(b, w, x)  == append(b, hostToNetwork(w, x))
prependInt(b, w, x) == prepend(b, hostToNetwork(w, x))

\* The content is copied to a new buffer and the two are swapped.
shrink(b, reserve) ==
  append(ensureWritableBytes(NewBuffer(InitialSize), readableBytes(b) + reserve),
         Content(b))
=============================================================================
