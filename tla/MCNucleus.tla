----------------------------- MODULE MCNucleus -----------------------------
(***************************************************************************)
(* Small instances of the nucleus for TLC.                                 *)
(***************************************************************************)
EXTENDS Nucleus, TLC

\* Devices 0 and 2, 3: a disk, and the receiver and transmitter of a terminal.
NoDevice     == {}
NoUserSem    == {}
DiskOnly     == {0}
TerminalOnly == {2, 3}
DiskAndTerminal == {0, 2, 3}

LowOnly    == {LOW}
BothPrios  == {LOW, HIGH}
NoSupport  == {FALSE}
AnySupport == {FALSE, TRUE}

\* The PCBs are interchangeable: Init and Next treat them alike.
PcbSymmetry == Permutations(Pcb)

=============================================================================
