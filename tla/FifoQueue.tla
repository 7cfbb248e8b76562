----------------------------- MODULE FifoQueue ------------------------------
(***************************************************************************)
(* What a blocking queue promises: each item put is taken once, in the     *)
(* order of the puts, and a bounded queue never holds more than it may.    *)
(***************************************************************************)
EXTENDS Naturals, Sequences

CONSTANT Item

VARIABLES
  content,   \* the items put and not taken
  limit,     \* how many there may be
  took       \* the items taken

Init ==
  /\ content = <<>>
  /\ limit \in Nat
  /\ took = <<>>

Put ==
  /\ Len(content) < limit
  /\ \E x \in Item : content' = Append(content, x)
  /\ UNCHANGED <<limit, took>>

Take ==
  /\ content # <<>>
  /\ content' = Tail(content)
  /\ took' = Append(took, Head(content))
  /\ UNCHANGED limit

Next == Put \/ Take

Spec == Init /\ [][Next]_<<content, limit, took>>
=============================================================================
