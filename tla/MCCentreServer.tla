--------------------------- MODULE MCCentreServer ---------------------------
(* Values for the constants of CentreServer. *)
EXTENDS CentreServer, TLC

CONSTANTS c1, c2, c3

ConnSymmetry == Permutations(Conn)

OneAnswer == {[nat |-> "Cone", comps |-> 1, len |-> FALSE]}

\* Both sides of a port prediction, a client without a NAT type, and counts
\* of components that differ.
MixedAnswers ==
  {[nat |-> "Cone",   comps |-> 1, len |-> FALSE],
   [nat |-> "SymInc", comps |-> 1, len |-> FALSE],
   [nat |-> "SymInc", comps |-> 2, len |-> TRUE],
   [nat |-> "Unset",  comps |-> 1, len |-> FALSE]}

\* Orderly clients: a port prediction is asked for, then reported.
OrderlyAnswers ==
  {[nat |-> "Cone",   comps |-> 1, len |-> FALSE],
   [nat |-> "SymInc", comps |-> 1, len |-> FALSE],
   [nat |-> "SymInc", comps |-> 1, len |-> TRUE]}

NoAnswers == {}
=============================================================================
