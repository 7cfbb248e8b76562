---------------------------- MODULE NetworkOrder ----------------------------
(***************************************************************************)
(* Integers as the code sends them: the bytes from the most to the least   *)
(* significant, a negative one in two's complement.  A byte is one of      *)
(* Radix values; w is the size of the integer.                             *)
(***************************************************************************)
EXTENDS Integers, Sequences

CONSTANT Radix

ASSUME RadixAssumption == Radix \in Nat \ {0} /\ Radix % 2 = 0

Byte == 0 .. Radix - 1

\* Radix to the power n.
Power[n \in Nat] == IF n = 0 THEN 1 ELSE Radix * Power[n - 1]

\* The integers of w bytes.
Integer(w) == -(Power[w] \div 2) .. Power[w] \div 2 - 1

\* The byte order of the host is kept (mutation).
hostToNetworkSame(w, x) == [k \in 1 .. w |-> (x \div Power[k - 1]) % Radix]

hostToNetwork(w, x) == [k \in 1 .. w |-> (x \div Power[w - k]) % Radix]

\* The bytes of a uint64_t, uint32_t or uint16_t in network order.
Unsigned(w, s) ==
  LET value[k \in 0 .. w] == IF k = 0 THEN 0 ELSE value[k - 1] * Radix + s[k]
  IN  value[w]

\* The result is used as a signed integer.
networkToHost(w, s) ==
  IF 2 * Unsigned(w, s) < Power[w] THEN Unsigned(w, s)
                                    ELSE Unsigned(w, s) - Power[w]
=============================================================================
