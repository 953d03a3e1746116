------------------------------- MODULE Handover -------------------------------
(***************************************************************************)
(* From the last lines of stage 2's main.c to the first of the kernel: stage *)
(* 2 sets up a frame bitmap and page tables of its own, maps the kernel high, *)
(* unmaps it low and jumps.  The kernel, on those tables, starts a bitmap and *)
(* tables afresh and knows nothing of the frames stage 2 took.              *)
(*                                                                         *)
(* Addresses inside pages are counted in units.  Where the image of stage 2  *)
(* ends, and where in its bss the boot parameters lie, is up to the linker.  *)
(***************************************************************************)
EXTENDS Vmm

CONSTANTS
  StageStart,   \* unit stage 2 is linked at: 0x500
  StageEnds,    \* units its image may end at
  ParamsAt,     \* units g_BootParams may be at
  BootFrame,    \* the frame of the boot sector, 0x7C00
  StackFrame,   \* the frame of stage 2's stack, below 0xFFF0
  ModuleFrame,  \* the first frame of the module buffer, MEMORY_USERLAND_ADDR
  ModuleFrames, \* how many frames of it are in use
  KernelPages   \* frames of the kernel image

VARIABLES
  pc,           \* where main, then HAL_Initialize, is
  mem,          \* see Vmm
  layout        \* what the linker decided

PagesOf(size) == (size + Units - 1) \div Units
(* The frames reserve_memory_block marks: as many as the size fills, from the *)
(* one the base is in.                                                     *)
Region(base, size) == Run(base \div Units, PagesOf(size))

ImageTo(end) == Region(StageStart, end - StageStart)
StageImage == ImageTo(layout.end)
ModuleBuffer == Run(ModuleFrame, ModuleFrames)
(* What reserve_memory of stage 2 marks: low memory, the boot sector, the    *)
(* image, and the bitmap, which begins on the next page behind the image.   *)
StageMarked(end) == Region(0, StageStart) \union {BootFrame} \union ImageTo(end) \union {PagesOf(end)}

(* The memory map of memdefs.h: stage 2, with three free frames for its page  *)
(* tables, its stack, the module, and the kernel, all under one table.       *)
ASSUME HandoverAssumption ==
  /\ StageStart \in 1 .. (Units - 1) /\ StageEnds \subseteq Nat /\ ParamsAt \subseteq Nat
  /\ BootFrame \in Frames /\ StackFrame \in Nat /\ ModuleFrame \in Nat
  /\ ModuleFrames \in Nat /\ KernelPages \in Nat
  /\ StackFrame < ModuleFrame /\ ModuleFrame + ModuleFrames <= KernelFrame
  /\ KernelFrame + KernelPages < TableSize /\ KernelFrame + KernelPages \in Frames
  /\ \A u \in ParamsAt : u \div Units < KernelFrame
  /\ \A e \in StageEnds :
       /\ e > StageStart /\ PagesOf(e) < StackFrame
       /\ Limit > Cardinality(StageMarked(e)) + 2
       /\ \E a, b, c \in (0 .. (StackFrame - 1)) \ StageMarked(e) : a < b /\ b < c

(* What a kernel image, or a stage 2 before it, starts from: no tables. *)
NoTables == [directory |-> None, dir |-> [d \in 0 .. (Dirs - 1) |-> NoEntry],
             tables |-> [f \in {} |-> EmptyTable]]
Tables(m) == [directory |-> m.directory, dir |-> m.dir, tables |-> m.tables]
Original == [f \in Frames |-> [u \in 0 .. (Units - 1) |-> f * Units + u]]

(* Stage 2 has copied both files (Stage2.tla) and paging is off. *)
HandoverInit ==
  /\ pc = "stage 2 frames"
  /\ layout \in [end : StageEnds, params : ParamsAt]
  /\ mem = [marked |-> {}, cr3 |-> "off", boot |-> NoTables, directory |-> None, dir |-> NoTables.dir,
            tables |-> NoTables.tables, content |-> Original, stray |-> {}]

Zeroed(m, f) == [m EXCEPT !.content[f] = Wiped]

(* Mutation of Stage2Frames: the image is not reserved. *)
Stage2FramesMutant ==
  /\ pc = "stage 2 frames"
  /\ mem' = [Zeroed(mem, PagesOf(layout.end)) EXCEPT
               !.marked = Region(0, StageStart) \union {BootFrame, PagesOf(layout.end)}]
  /\ pc' = "stage 2 tables"
  /\ UNCHANGED layout

(* INIT_MEMORY of stage 2. *)
Stage2Frames ==
  /\ pc = "stage 2 frames"
  /\ mem' = [Zeroed(mem, PagesOf(layout.end)) EXCEPT !.marked = StageMarked(layout.end)]
  /\ pc' = "stage 2 tables"
  /\ UNCHANGED layout

(* INITIALIZE_VMEMORY of stage 2. *)
Stage2Tables ==
  /\ pc = "stage 2 tables"
  /\ mem' = SetPageDirectory(BuildMappings(mem))
  /\ pc' = "unmap"
  /\ UNCHANGED layout

(* main's loop over the identity mapping from KERNEL_ADDRESS to its end, and *)
(* the reload of CR3 behind it.                                            *)
UnmapKernel ==
  /\ pc = "unmap"
  /\ mem' = UnmapFrom(mem, KernelFrame)
  /\ pc' = "jump"
  /\ UNCHANGED layout

(* The jump to 0xC0000000: the kernel's own bitmap and directory are empty,  *)
(* and the processor goes on with those of stage 2.                         *)
EnterKernel ==
  /\ pc = "jump"
  /\ mem' = [mem EXCEPT !.marked = {}, !.cr3 = "boot", !.boot = Tables(mem),
                        !.directory = None, !.dir = NoTables.dir, !.tables = NoTables.tables]
  /\ pc' = "frames"
  /\ UNCHANGED layout

(* g_BootParams as stage 2 left them. *)
ParamsIntact ==
  mem.content[layout.params \div Units][layout.params % Units] = layout.params

HandoverNext == Stage2Frames \/ Stage2Tables \/ UnmapKernel \/ EnterKernel
-----------------------------------------------------------------------------
LayoutOK == layout \in [end : StageEnds, params : ParamsAt]

(* Nothing somebody still runs on is overwritten: while stage 2 runs, its    *)
(* image, stack, module and the kernel; while the kernel runs on stage 2's   *)
(* page tables, those tables, though its bitmap has them as free.  Of the    *)
(* image this holds for what is reserved: begun inside a page, it may reach  *)
(* into one page more than its size fills (pmm.c:83-84).                    *)
HandoverSafe ==
  /\ mem.cr3 = "off" \/ pc \in {"unmap", "jump"} =>
       \A f \in (StageImage \ {0}) \union {StackFrame} \union ModuleBuffer \union Run(KernelFrame, KernelPages) :
         mem.content[f] = Original[f]
  /\ mem.cr3 = "boot" =>
       ({mem.directory} \union DOMAIN mem.tables) \intersect ({mem.boot.directory} \union DOMAIN mem.boot.tables) = {}

(* The jump lands in the kernel; stage 2, which makes it, and what it hands  *)
(* over are still mapped to themselves, and the kernel is mapped only high.  *)
JumpLands ==
  pc = "jump" =>
    /\ \A i \in 0 .. (KernelPages - 1) :
         LET p == KernelDir * TableSize + i
         IN  Mapped(mem, p) /\ PTE(mem, p).frame = KernelFrame + i
    /\ \A f \in StageImage \union {StackFrame, layout.params \div Units} \union ModuleBuffer : Reach(mem, f) = f
    /\ \A f \in Run(KernelFrame, KernelPages) : Reach(mem, f) = None
=============================================================================
