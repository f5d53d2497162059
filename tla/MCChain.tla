------------------------------ MODULE MCChain ------------------------------
(***************************************************************************)
(* Two workers and two attempts of each item.                              *)
(***************************************************************************)
EXTENDS ChainProperties, TLC

CONSTANTS w1, w2, w3, f1, f2

MCWorkers == {w1, w2}
MCThreeWorkers == {w1, w2, w3}
MCFiles == {f1, f2}
MCSymmetry == Permutations(Workers) \cup Permutations(Files)

=============================================================================
