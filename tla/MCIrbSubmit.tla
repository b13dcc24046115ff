---------------------------- MODULE MCIrbSubmit ----------------------------
(* Instances of IrbSubmit for TLC. *)
EXTENDS IrbSubmit, TLC

Symmetry == Permutations(Req) \cup Permutations(Run)
=============================================================================
