------------------------------- MODULE MCAsl --------------------------------
(* As many descriptors as processes, and more keys than descriptors. *)
EXTENDS Asl, TLC

PcbSymmetry == Permutations(Pcb) \cup Permutations(Semd)
=============================================================================
