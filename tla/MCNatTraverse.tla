--------------------------- MODULE MCNatTraverse ----------------------------
(* Values for the constants of NatTraverse. *)
EXTENDS NatTraverse, TLC

CONSTANTS a, b, c

\* Numbers in base 2: the text of 1 and 2 is that of 3 and 0.
MCDecimal ==
  LET digits[n \in Number] == IF n < 2 THEN <<n>> ELSE Append(digits[n \div 2], n % 2)
  IN  digits

Clients == Permutations(Client)
=============================================================================
