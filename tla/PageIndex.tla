----------------------------- MODULE PageIndex ------------------------------
(***************************************************************************)
(* Which entry of a page table belongs to a page: the numbers that         *)
(* initPageTable writes into the entries, and what the handlers compute    *)
(* from the EntryHi of an exception (src/phase3/vmSupport.c).  EntryHi has *)
(* a virtual page number of 20 bits from bit 12 on, and 6 bits of ASID     *)
(* from bit 6 on.                                                          *)
(***************************************************************************)
EXTENDS Integers

USERPGTBLSIZE == 32
AsidField == 0 .. 63

VPN_BIT == 4096     \* 2 ^ ENTRYHI_VPN_BIT
ASID_BIT == 64      \* 2 ^ ENTRYHI_ASID_BIT
USEG == 524288      \* 0x80000, the first page of user memory, and 1 << 19
STACK == 786431     \* 0xBFFFF

\* initPageTable: the page of entry i, and its pte_entryHI.
PageOfEntry(i) == IF i = USERPGTBLSIZE - 1 THEN STACK ELSE USEG + i
EntryHi(vpn, asid) == vpn * VPN_BIT + asid * ASID_BIT

\* ENTRYHI_GET_VPN and ENTRYHI_GET_ASID.  The first leaves out the two bits of
\* the segment.
EntryHiVpn(entry_hi) == (entry_hi \div VPN_BIT) % 262144
EntryHiAsid(entry_hi) == (entry_hi \div ASID_BIT) % 64

\* GET_VPN puts the bit that user addresses have there back.
GetVpn(entry_hi) == USEG + EntryHiVpn(entry_hi)

\* _getPageIndex
GetPageIndex(vpn) == IF vpn = STACK THEN 31 ELSE vpn % USEG

=============================================================================
