---------------------------- MODULE MCIoctlRing ----------------------------
(* The symmetry of the IoctlRing runs. *)
EXTENDS IoctlRing, TLC

Symmetric == Permutations(Cpu) \cup Permutations(Event) \cup Permutations(Handle)

=============================================================================
