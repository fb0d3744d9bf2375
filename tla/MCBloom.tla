-------------------------------- MODULE MCBloom --------------------------------
(***************************************************************************)
(* TLC instance of Bloom: blocks of two words of four bits, hashes of four *)
(* bits, the second one odd.                                               *)
(***************************************************************************)
EXTENDS Bloom

HashPairs == {0, 5, 6, 15} \X {1, 5}
===============================================================================
