-------------------------------- MODULE MCPmm --------------------------------
(***************************************************************************)
(* Pmm on a memory of a few frames.  The layout keeps the proportions of   *)
(* the real one: page 0 and the boot sector low, the module buffer above,  *)
(* the kernel image at physical KernelFrames but reserved at its virtual   *)
(* pages, which lie behind the bitmap.                                     *)
(***************************************************************************)
EXTENDS Pmm

CONSTANTS
  KernelVirtPage,   \* the page of KERNEL_START_ADDR, a virtual address
  KernelFrames      \* the frames the kernel image really occupies

(* bytes scaled to PageSize = 4: a short region, a full page, an odd size *)
BootRegions ==
  << [base |-> 0, size |-> 2],                    \* 0x0, 0x500
     [base |-> 8, size |-> 4],                    \* 0x7c00, 512
     [base |-> 4 * KernelVirtPage, size |-> 6],   \* the kernel section
     [base |-> 4 * (KernelVirtPage + 2), size |-> 4],   \* BIT_MAP, on the page behind it
     [base |-> 16, size |-> 5] >>                 \* the userland module

(* the bit just behind the zeroed bytes is 1 *)
JunkBit == ((TotalPages + ByteBits - 1) \div ByteBits) * ByteBits
MCJunk == {JunkBit}

(* What PmmProofs assumes of the reservations holds of these. *)
ASSUME RegionsFitHere == RegionsFit

(* pmm.c:119 "reserve for kernel section": the frames the kernel image is   *)
(* loaded in are never handed out.                                         *)
KernelNeverHandedOut == NeverHandedOut(KernelFrames)
=============================================================================
