----------------------------- MODULE LogStream ------------------------------
(***************************************************************************)
(* The fixed buffer a line of the log is put together in.  A piece that    *)
(* does not fit is left out; a number is written in place, if there is     *)
(* room for the longest one.                                               *)
(*                                                                         *)
(* Operators marked "(mutation)" are altered forms of the definition that  *)
(* follows them; no specification uses them.                               *)
(***************************************************************************)
EXTENDS Integers

CONSTANTS
  BufferSize,      \* SIZE
  MaxNumericSize,  \* kMaxNumericSize
  SizeT            \* the number of values of a size_t

ASSUME LogAssumption ==
  /\ BufferSize \in Nat /\ MaxNumericSize \in 2 .. BufferSize
  /\ SizeT \in Nat /\ BufferSize < SizeT

VARIABLE cur   \* cur_ - data_

LogTypeOK == cur \in Int

LogInit == cur = 0

avail == BufferSize - cur

\* A piece may fill the buffer (mutation).
FitsFull(len) == avail % SizeT >= len

\* avail() is cast to a size_t: a negative one is a large number.
Fits(len) == avail % SizeT > len

appendPiece(len) == Fits(len) /\ cur' = cur + len

\* What is shown: a bool or a char, "(null)", a string or a StringPiece, also
\* one that is longer than the buffer.
Shown == {1, 6} \cup 0 .. BufferSize + 1

\* What another buffer of this kind holds.
showBuffer(len) == len < BufferSize /\ appendPiece(len)

\* A number is formatted in less than MaxNumericSize characters.
formatNumber(len) == avail >= MaxNumericSize /\ cur' = cur + len

\* A Fmt has formatted its number in an array of its own.
showFmt(len) == appendPiece(len)

reset == cur' = 0

LogNext ==
  \/ \E len \in Shown : appendPiece(len) \/ showBuffer(len)
  \/ \E len \in 1 .. MaxNumericSize - 1 : formatNumber(len) \/ showFmt(len)
  \/ reset

LogSpec == LogInit /\ [][LogNext]_cur

-----------------------------------------------------------------------------
(* Properties *)

\* cur_ stays inside the buffer, where debugString writes a terminating 0,
\* after any sequence of pieces and numbers: avail() never gets to 0, let
\* alone to a negative number that append would take for a lot of room.
CursorInside == 0 <= cur /\ cur < BufferSize
=============================================================================
