------------------------------ MODULE MCHashChain ------------------------------
(* Three transactions that append to one chain, two events each where they may. *)
EXTENDS HashChain, TLC

CONSTANTS a1, a2, a3

Symmetry == Permutations({a1, a2, a3})
================================================================================
