-------------------------------- MODULE MCVm --------------------------------
(***************************************************************************)
(* Small instances of Vm for TLC.                                          *)
(***************************************************************************)
EXTENDS VmSupport
=============================================================================
