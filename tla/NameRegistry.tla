---------------------------- MODULE NameRegistry ----------------------------
(***************************************************************************)
(* What the centre server promises of nameToConnMap: a name has at most    *)
(* one holder; a name that is held is never given to somebody else in the  *)
(* same step, so every change of holder goes through "nobody".             *)
(***************************************************************************)
CONSTANTS Conn, Name, NoConn

VARIABLE holder

Init == holder = [n \in Name |-> NoConn]

\* A login that succeeds.
Claim(n, c) ==
  /\ holder[n] = NoConn
  /\ holder' = [holder EXCEPT ![n] = c]

\* A disconnect or an eviction; one heart beat check may evict many.
Release(names) ==
  holder' = [n \in Name |-> IF n \in names THEN NoConn ELSE holder[n]]

Next ==
  \/ \E n \in Name, c \in Conn : Claim(n, c)
  \/ \E names \in SUBSET Name : Release(names)

Spec == Init /\ [][Next]_holder
=============================================================================
