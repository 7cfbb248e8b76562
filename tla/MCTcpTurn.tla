----------------------------- MODULE MCTcpTurn ------------------------------
(* Values for the constants of TcpTurn. *)
EXTENDS TcpTurn, TLC

CONSTANTS c1, c2, c3, c4, a1, a2, a3, id, data

\* An id and data, which the relay may read as one, so that an id may be the
\* beginning of another; and an id that is the text the code tests names for.
MCStreams == {<<id, data, data>>, <<NoLogin, id>>}

ConnSymmetry == Permutations(Conn) \cup Permutations(Addr)
=============================================================================
