----------------------------- MODULE ByteQueue ------------------------------
(***************************************************************************)
(* What a network buffer promises: a sequence of bytes to which one adds   *)
(* at either end and from which one takes at either end.  A stream adds    *)
(* bytes at the end and knows how many.                                    *)
(***************************************************************************)
EXTENDS NetworkOrder

CONSTANTS Width, NoStream

VARIABLES
  content,   \* the bytes
  result,    \* what the last call returned
  streamed   \* bytes added by the stream that is open, or NoStream

Front(n) == SubSeq(content, 1, n)

Init ==
  /\ content = <<>>
  /\ result = <<>>
  /\ streamed = NoStream

\* The bytes there were begin or end what there is now.
AddBehind == Len(content') >= Len(content) /\ content = SubSeq(content', 1, Len(content))
AddBefore ==
  /\ Len(content') >= Len(content)
  /\ content = SubSeq(content', Len(content') - Len(content) + 1, Len(content'))

Add ==
  /\ streamed = NoStream
  /\ AddBehind \/ AddBefore
  /\ result' = <<>>
  /\ UNCHANGED streamed

\* What is taken from the front is returned, as bytes or as an integer, or
\* dropped.
TakeFront(n) ==
  /\ streamed = NoStream
  /\ content' = SubSeq(content, n + 1, Len(content))
  /\ result' \in {<<>>, Front(n)} \cup
                 {<<networkToHost(w, Front(w))>> : w \in Width \cap {n}}
  /\ UNCHANGED streamed

DropBack(n) ==
  /\ streamed = NoStream
  /\ content' = Front(Len(content) - n)
  /\ result' = <<>>
  /\ UNCHANGED streamed

OpenStream ==
  /\ streamed = NoStream
  /\ streamed' = 0
  /\ UNCHANGED <<content, result>>

StreamAdd ==
  /\ streamed # NoStream
  /\ AddBehind
  /\ streamed' = streamed + Len(content') - Len(content)
  /\ result' = <<>>

CloseStream ==
  /\ streamed # NoStream
  /\ result' = <<streamed>>
  /\ streamed' = NoStream
  /\ UNCHANGED content

Next ==
  \/ Add
  \/ \E n \in 0 .. Len(content) : TakeFront(n) \/ DropBack(n)
  \/ OpenStream \/ StreamAdd \/ CloseStream

Spec == Init /\ [][Next]_<<content, result, streamed>>
=============================================================================
