------------------------------- MODULE DevSem -------------------------------
(***************************************************************************)
(* Which semaphore of a device belongs to the command register that a DOIO *)
(* writes, and that an interrupt acknowledges (getIODeviceSemaphore of     *)
(* src/phase2/initial.c).  Addresses are words, counted here in bytes from *)
(* 0x10000000; the layout of the device registers is that of the machine.  *)
(***************************************************************************)
EXTENDS Integers

DEV_REG_START == 84      \* 0x54
DEV_REG_SIZE == 16
TERM0ADDR == 596         \* 0x254
Lines == 3 .. 7          \* the interrupt lines of devices
IL_TERMINAL == 7
N_DEV_PER_IL == 8
TOTAL_IO_DEVICES == 48

\* A device, or a half of a terminal.
Device ==
  {d \in [line : Lines, number : 0 .. N_DEV_PER_IL - 1, transmits : BOOLEAN] :
     d.transmits => d.line = IL_TERMINAL}

\* The address of the command field of its device register: the second word,
\* and the fourth for a transmitter.
CommandAddress(d) ==
  DEV_REG_START + ((d.line - 3) * N_DEV_PER_IL + d.number) * DEV_REG_SIZE
    + (IF d.transmits THEN 12 ELSE 4)

\* The fourth bit of the address of the command field of a terminal.
IsReception(command) == (command \div 8) % 2 = 1

IsTransmission(command) == command >= TERM0ADDR /\ ~IsReception(command)

DevRegisterAddress(command) == command - (IF IsTransmission(command) THEN 12 ELSE 4)

Offset(command) == IF IsTransmission(command) THEN 8 ELSE 0

\* getIODeviceSemaphore
SemIndex(command) ==
  (DevRegisterAddress(command) - DEV_REG_START) \div DEV_REG_SIZE + Offset(command)

\* The order in which interrupts are served (interrupts.c:141): lines, then the
\* devices of a line, and the receivers before the transmitters.
Precedes(d, e) ==
  \/ d.line < e.line
  \/ d.line = e.line /\ ~d.transmits /\ e.transmits
  \/ d.line = e.line /\ d.transmits = e.transmits /\ d.number < e.number

=============================================================================
