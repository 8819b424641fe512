------------------------------ MODULE MCCrc32 ------------------------------
(***************************************************************************)
(* Instances of Crc32 for TLC: x^4 + x + 1, bytes of two bits.             *)
(***************************************************************************)
EXTENDS Crc32

\* Reflected: bit 3 is the coefficient of 1, bit 2 that of x.
MCPoly == [i \in 0 .. 3 |-> IF i >= 2 THEN 1 ELSE 0]

MCPairs == UNION {[1 .. n -> Bytes] \X [1 .. n -> Bytes] : n \in 0 .. 3}
=============================================================================
