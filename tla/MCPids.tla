------------------------------- MODULE MCPids -------------------------------
(* A small table and few pids for TLC. *)
EXTENDS Pids, TLC

PcbSymmetry == Permutations(Pcb)
=============================================================================
