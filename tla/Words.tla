-------------------------------- MODULE Words --------------------------------
(***************************************************************************)
(* The unsigned integers of the C code: sums and products of them are      *)
(* modulo WORD.                                                            *)
(***************************************************************************)
EXTENDS Integers

CONSTANT WORD       \* how many values a uint32_t has

ASSUME WordAssumption == WORD \in Nat \ {0}
=============================================================================
