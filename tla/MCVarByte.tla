----------------------------- MODULE MCVarByte -----------------------------
(***************************************************************************)
(* Small instances of VarByte for TLC.                                     *)
(***************************************************************************)
EXTENDS VarByte

\* Every array of up to two values.
AllPairs == UNION {[1 .. n -> 0 .. Pow2[WordBits] - 1] : n \in 0 .. 2}

=============================================================================
