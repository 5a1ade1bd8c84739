-------------------------------- MODULE Words --------------------------------
(***************************************************************************)
(* EVM words: integers modulo 2^WordBits (256 in the EVM), with booleans   *)
(* as 0 and 1.                                                             *)
(***************************************************************************)
EXTENDS Integers

CONSTANT WordBits

ASSUME WordBitsAssumption == WordBits \in Nat \ {0}

(* 2 ^ WordBits *)
WordCount ==
    LET power[n \in 0 .. WordBits] == IF n = 0 THEN 1 ELSE 2 * power[n-1]
    IN  power[WordBits]
Word == 0 .. WordCount - 1

FromBool(p) == IF p THEN 1 ELSE 0
=============================================================================
