------------------------------ MODULE MCBuffer ------------------------------
(***************************************************************************)
(* Buffer for TLC: a vector of one or two bytes that has to grow.          *)
(***************************************************************************)
EXTENDS Buffer, TLC

ByteSymmetry == Permutations(Byte \ {Zero})
=============================================================================
