----------------------------- MODULE Rendezvous -----------------------------
(***************************************************************************)
(* What a relay promises of the ids clients bring: the first client waits  *)
(* under an id, the second one, another client, completes the pair, and a  *)
(* complete pair never changes.                                            *)
(***************************************************************************)
CONSTANTS Id, Addr, NoAddr

VARIABLE pair

Init == pair = [i \in Id |-> [first |-> NoAddr, second |-> NoAddr]]

Wait(i, a) ==
  /\ pair[i].first = NoAddr
  /\ pair' = [pair EXCEPT ![i].first = a]

Join(i, a) ==
  /\ pair[i].first \notin {NoAddr, a}
  /\ pair[i].second = NoAddr
  /\ pair' = [pair EXCEPT ![i].second = a]

Next == \E i \in Id, a \in Addr : Wait(i, a) \/ Join(i, a)

Spec == Init /\ [][Next]_pair
=============================================================================
