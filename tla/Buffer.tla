------------------------------- MODULE Buffer -------------------------------
(***************************************************************************)
(* A network buffer and any legal sequence of calls by its owner, among    *)
(* them those of a BufferOutputStream, which hands the writable part to a  *)
(* serializer.                                                             *)
(***************************************************************************)
EXTENDS BufferMembers

CONSTANTS
  Width,         \* the sizes of the integers in the buffer
  NextSize,      \* the 4096 bytes BufferOutputStream::Next asks for
  MaxSize,       \* bound: the length of the array when a call is made
  Piece,         \* what is appended and prepended
  NoStream       \* no BufferOutputStream writes to the buffer

ASSUME WidthAssumption  == Width \subseteq Nat \ {0}
ASSUME SizeAssumption   == MaxSize \in Nat /\ NextSize \in Nat
ASSUME PieceAssumption  == Piece \subseteq Seq(Byte)
ASSUME StreamAssumption == NoStream \notin Nat

VARIABLES
  buf,       \* the buffer
  result,    \* what the last call returned
  original,  \* originalSize_ of the BufferOutputStream, or NoStream
  window     \* bytes Next handed out that the serializer has not given back

bufferVars == <<buf, result, original, window>>

BufferTypeOK ==
  /\ buf.size \in Nat /\ buf.reader \in Nat /\ buf.writer \in Nat
  /\ buf.data \in [0 .. buf.size - 1 -> Byte]
  /\ original \in Nat \cup {NoStream}
  /\ window \in Nat

BufferInit ==
  /\ buf = NewBuffer(InitialSize)
  /\ result = <<>>
  /\ original = NoStream
  /\ window = 0

\* A call on a buffer that is in nobody else's hands.
Calls(b) ==
  /\ original = NoStream
  /\ buf.size <= MaxSize
  /\ buf' = b
  /\ UNCHANGED <<original, window>>

AppendBytes(s) ==
  /\ Calls(append(buf, s))
  /\ result' = <<>>

AppendInt(w, x) ==
  /\ Calls(appendInt(buf, w, x))
  /\ result' = <<>>

RetrieveAsString(len) ==
  /\ len <= readableBytes(buf)
  /\ Calls(retrieve(buf, len))
  /\ result' = Front(buf, len)

ReadInt(w) ==
  /\ w <= readableBytes(buf)
  /\ Calls(retrieveInt(buf, w))
  /\ result' = <<peekInt(buf, w)>>

\* A line is taken with the end that findCRLF or findEOL found.
RetrieveUntil ==
  /\ \/ /\ findCRLF(buf, 1) # 0
        /\ Calls(retrieve(buf, findCRLF(buf, 1) + 1))
     \/ /\ findEOL(buf, 1) # 0
        /\ Calls(retrieve(buf, findEOL(buf, 1)))
  /\ result' = <<>>

PrependBytes(s) ==
  /\ Len(s) <= prependableBytes(buf)
  /\ Calls(prepend(buf, s))
  /\ result' = <<>>

PrependInt(w, x) ==
  /\ w <= prependableBytes(buf)
  /\ Calls(prependInt(buf, w, x))
  /\ result' = <<>>

Unwrite(len) ==
  /\ len <= readableBytes(buf)
  /\ Calls(unwrite(buf, len))
  /\ result' = <<>>

Shrink(reserve) ==
  /\ Calls(shrink(buf, reserve))
  /\ result' = <<>>

(* BufferOutputStream *)

Open ==
  /\ original = NoStream
  /\ original' = readableBytes(buf)
  /\ UNCHANGED <<buf, result, window>>

\* All writable bytes are handed out as if they were written.
StreamNext ==
  /\ original # NoStream
  /\ window = 0
  /\ buf.size <= MaxSize
  /\ buf' = LET e == ensureWritableBytes(buf, NextSize)
            IN  hasWritten(e, writableBytes(e))
  /\ window' = writableBytes(ensureWritableBytes(buf, NextSize))
  /\ result' = <<>>
  /\ UNCHANGED original

\* The serializer wrote s to the window and gives back the rest.
BackUp(s) ==
  /\ original # NoStream
  /\ window > 0
  /\ Len(s) <= window
  /\ buf' = unwrite(Copied(buf, buf.writer - window, s), window - Len(s))
  /\ window' = 0
  /\ result' = <<>>
  /\ UNCHANGED original

\* The stream ends after ByteCount, when everything handed out is returned.
ByteCount ==
  /\ original # NoStream
  /\ window = 0
  /\ result' = <<readableBytes(buf) - original>>
  /\ original' = NoStream
  /\ UNCHANGED <<buf, window>>

BufferNext ==
  \/ \E s \in Piece : AppendBytes(s) \/ PrependBytes(s) \/ BackUp(s)
  \/ \E w \in Width : ReadInt(w) \/ \E x \in Integer(w) : AppendInt(w, x) \/ PrependInt(w, x)
  \/ \E len \in 0 .. readableBytes(buf) : RetrieveAsString(len) \/ Unwrite(len)
  \/ RetrieveUntil
  \/ \E reserve \in 0 .. InitialSize : Shrink(reserve)
  \/ Open \/ StreamNext \/ ByteCount

BufferSpec == BufferInit /\ [][BufferNext]_bufferVars

-----------------------------------------------------------------------------
(* Properties *)

\* The indices keep the order the comment before the class states, and every
\* assertion in it holds for a caller that asks for no more than there is:
\* makeSpace, which asserts that it can move the bytes to the front, finds
\* them behind kCheapPrepend, and makes room for what it was asked for.
AssertionsHold ==
  /\ buf.reader <= buf.writer
  /\ buf.writer <= buf.size
  /\ \A len \in 0 .. MaxSize :
       /\ (writableBytes(buf) < len /\ ~Grows(buf, len)) =>
            CheapPrepend < buf.reader
       /\ len <= writableBytes(ensureWritableBytes(buf, len))

\* The bytes in the buffer that no serializer has in hand.
Visible == [k \in 1 .. readableBytes(buf) - window |-> Content(buf)[k]]

\* How many of them the open stream added.
Added == IF original = NoStream THEN NoStream
         ELSE readableBytes(buf) - window - original

\* What the owner sees of the buffer is a sequence of bytes: neither moving
\* nor growing it changes one of them.  What a serializer has in hand, and
\* may still give back, is not yet part of it.
Bytes == INSTANCE ByteQueue WITH content <- Visible, streamed <- Added

ByteQueueSpec == Bytes!Spec

\* An integer put at either end of any buffer reads back the same, whatever
\* its sign.
IntegersSurvive ==
  \A w \in Width : \A x \in Integer(w) :
    /\ w <= prependableBytes(buf) => peekInt(prependInt(buf, w, x), w) = x
    /\ readableBytes(buf) = 0 => peekInt(appendInt(buf, w, x), w) = x
=============================================================================
