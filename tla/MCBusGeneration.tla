-------------------------- MODULE MCBusGeneration --------------------------
(* Instances of BusGeneration for TLC. *)
EXTENDS BusGeneration, TLC

Symmetry == Permutations(Thread)
=============================================================================
