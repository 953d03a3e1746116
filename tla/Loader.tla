-------------------------------- MODULE Loader --------------------------------
(***************************************************************************)
(* The kernel from its entry to the running user task, as far as memory is  *)
(* concerned: HAL_Initialize (hal/hal.c) sets up frames and paging, makes   *)
(* the heap for the idle task, loads the userland module with elf_load      *)
(* (loader/elf.c) and maps the user stack (create_user_task_from_elf,      *)
(* scheduler/task.c); then the heap grows page by page.  Handover is the     *)
(* way there.                                                              *)
(*                                                                         *)
(* A file is the sequence of its PT_LOAD headers; its bytes lie in the       *)
(* module buffer.                                                          *)
(***************************************************************************)
EXTENDS Handover, Sequences

CONSTANTS
  Reserved,     \* frames INIT_MEMORY reserves, the module buffer among them
  Images,       \* files stage 2 may have loaded: [valid, segs]
  StackPage,    \* the page of USER_STACK_VIRT
  HeapPage,     \* the page of KERNEL_HEAP_START
  HeapPages,    \* pages of the first malloc_init
  MaxHeap       \* bound: pages the heap is grown to

Segments == [vaddr : Nat, offset : Nat, filesz : Nat, memsz : Nat]

NumPages(s) == PagesOf(s.memsz)
(* The page that the k-th page of a segment is mapped at. *)
PageOf(s, k) == (s.vaddr + k * Units) \div Units

HeapDirs == {(HeapPage + i) \div TableSize : i \in 0 .. (MaxHeap - 1)}
(* Directory entries that the kernel has no use for. *)
OpenDirs == (1 .. (Dirs - 1)) \ ({KernelDir} \union HeapDirs)

(* The limit keeps what is allocated below the end of the identity mapping,  *)
(* and booting itself does not run out: three frames that stage 2 occupied   *)
(* and the kernel does not reserve take its page tables, and behind three    *)
(* more a run is free for the first heap.  0x600000 and 0xD1000000 lie in    *)
(* directory entries of their own.                                         *)
ASSUME LoaderAssumption ==
  /\ Reserved \subseteq Frames /\ 0 \in Reserved /\ ModuleBuffer \subseteq Reserved
  /\ \A u \in ParamsAt : u \div Units \in Frames
  /\ HeapPages \in Nat \ {0} /\ MaxHeap \in Nat /\ HeapPages <= MaxHeap
  /\ Limit <= Memory /\ Limit <= TableSize /\ Limit > Cardinality(Reserved) + HeapPages + 4
  /\ \A e \in StageEnds : \E a, b, c \in ImageTo(e) \ Reserved : a < b /\ b < c
  /\ \E f \in Frames : Run(f, HeapPages + 3) \subseteq (Frames \ Reserved) \intersect (0 .. (TableSize - 1))
  /\ StackPage \in Pages /\ StackPage \div TableSize \in OpenDirs
  /\ HeapPage \in Nat /\ HeapPage + MaxHeap <= Dirs * TableSize
  /\ (HeapPage % TableSize) + HeapPages <= TableSize
  /\ HeapDirs \intersect {0, KernelDir} = {}

(* A file that is found valid is one that userland/linker/linker.ld made:     *)
(* its segments start on a page, share none, keep clear of the stack and of  *)
(* what the kernel maps, and their bytes are in the file.  elf_load tests     *)
(* nothing of this.  (The segments of one that is not valid are never used.) *)
ASSUME ImagesAssumption ==
  \A f \in Images :
    /\ f.valid \in BOOLEAN /\ f.segs \in Seq(Segments)
    /\ \A i \in DOMAIN f.segs :
         LET s == f.segs[i]
         IN  /\ s.vaddr % Units = 0
             /\ s.offset + s.filesz <= ModuleFrames * Units
             /\ \A k \in 0 .. (NumPages(s) - 1) :
                  /\ PageOf(s, k) \in Pages \ {StackPage}
                  /\ PageOf(s, k) \div TableSize \in OpenDirs
                  /\ \A j \in DOMAIN f.segs \ {i} : \A l \in 0 .. (NumPages(f.segs[j]) - 1) :
                       PageOf(s, k) # PageOf(f.segs[j], l)

VARIABLES
  image,        \* the file in the module buffer
  seg, page,    \* i and p of elf_load
  heap,         \* total_malloc_pages
  userFrames,   \* history: frames allocated for the image and the stack
  lost          \* history: calls whose failure the caller did not look at

vars == <<pc, mem, layout, image, seg, page, heap, userFrames, lost>>

Init ==
  /\ HandoverInit
  /\ image \in Images
  /\ seg = 1 /\ page = 0
  /\ heap = 0
  /\ userFrames = {}
  /\ lost = {}

(* The frames INIT_MEMORY reserves are counted from Reserved; the bitmap is  *)
(* zeroed at its virtual address, behind the kernel.                        *)
BitmapFrame == PTE(mem.boot, KernelDir * TableSize + KernelPages).frame

(* INIT_MEMORY: the memory map and the modules are read from the boot        *)
(* parameters.  What follows if these were overwritten is not modelled.      *)
InitMemory ==
  /\ pc = "frames"
  /\ IF ParamsIntact
     THEN mem' = [Zeroed(mem, BitmapFrame) EXCEPT !.marked = Reserved] /\ pc' = "paging"
     ELSE pc' = "no memory map" /\ UNCHANGED mem
  /\ UNCHANGED <<layout, image, seg, page, heap, userFrames, lost>>

(* INITIALIZE_VMEMORY builds its tables on those of stage 2 ... *)
BuildTables ==
  /\ pc = "paging"
  /\ mem' = BuildMappings(mem)
  /\ pc' = "switch"
  /\ UNCHANGED <<layout, image, seg, page, heap, userFrames, lost>>

(* ... and leaves those behind. *)
SwitchTables ==
  /\ pc = "switch"
  /\ mem' = [SetPageDirectory(mem) EXCEPT !.boot = NoTables]
  /\ pc' = "heap"
  /\ UNCHANGED <<layout, image, seg, page, heap, userFrames, lost>>

(* The loop of malloc_init over the first n pages of its heap: each is mapped *)
(* to the next frame of one run and made writable.                         *)
HeapMapped(m, first, n) ==
  LET map[i \in 0 .. n] ==
        IF i = 0
        THEN m
        ELSE SetWrite(MapPage(map[i - 1], first + i - 1, HeapPage + i - 1, FALSE).m, HeapPage + i - 1)
  IN  map[n]

(* init_task: its malloc is the first, so malloc_init maps HeapPages pages. *)
InitTask ==
  /\ pc = "heap"
  /\ LET got == AllocateBlock(mem, HeapPages)
     IN  mem' = HeapMapped(got.m, got.frame, HeapPages)
  /\ heap' = HeapPages
  /\ pc' = "module"
  /\ UNCHANGED <<layout, image, seg, page, userFrames, lost>>

(* bootParams->ModuleCount, read again: overwritten by zeros it says that     *)
(* there is no module.                                                     *)
ReadModuleCount ==
  /\ pc = "module"
  /\ IF ParamsIntact
     THEN pc' = "load" /\ UNCHANGED lost
     ELSE pc' = "idle only" /\ lost' = lost \union {"module"}
  /\ UNCHANGED <<mem, layout, image, seg, page, heap, userFrames>>

(* The header is wrong, or no segment is PT_LOAD: no user task. *)
Refuse ==
  /\ pc = "load" /\ (~image.valid \/ image.segs = <<>>)
  /\ pc' = "idle only"
  /\ UNCHANGED <<mem, layout, image, seg, page, heap, userFrames, lost>>

(* The bytes of the file that go into page p of a segment, read through the *)
(* module buffer; the rest of the page stays as the allocator left it.      *)
FileUnit(m, at) == m.content[Reach(m, ModuleFrame + at \div Units)][at % Units]
Copied(m, s, p, frame) ==
  [u \in 0 .. (Units - 1) |->
     IF p * Units + u < s.filesz
     THEN FileUnit(m, s.offset + p * Units + u)
     ELSE m.content[frame][u]]

Loading == pc = "load" /\ image.valid /\ seg <= Len(image.segs)

(* Mutation of LoadPage: a missing frame is not tested for. *)
LoadPageMutant ==
  /\ Loading
  /\ page < NumPages(image.segs[seg])
  /\ LET s == image.segs[seg]
         got == AllocateBlock(mem, 1)
         m == Write(got.m, {got.frame}, Copied(got.m, s, page, got.frame))
         map == MapPage(m, got.frame, PageOf(s, page), TRUE)
     IN  /\ mem' = map.m
         /\ page' = page + 1
         /\ userFrames' = userFrames \union {got.frame}
         /\ lost' = IF map.ok THEN lost ELSE lost \union {"table"}
         /\ UNCHANGED pc
  /\ UNCHANGED <<layout, image, seg, heap>>

(* One round of elf_load's inner loop.  What map_page_user returns is not   *)
(* looked at.  On a missing frame the pages loaded so far stay mapped.      *)
LoadPage ==
  /\ Loading
  /\ page < NumPages(image.segs[seg])
  /\ LET s == image.segs[seg]
         got == AllocateBlock(mem, 1)
         m == Write(got.m, {got.frame}, Copied(got.m, s, page, got.frame))
         map == MapPage(m, got.frame, PageOf(s, page), TRUE)
     IN  IF got.frame = 0
         THEN pc' = "idle only" /\ UNCHANGED <<mem, page, userFrames, lost>>
         ELSE /\ mem' = map.m
              /\ page' = page + 1
              /\ userFrames' = userFrames \union {got.frame}
              /\ lost' = IF map.ok THEN lost ELSE lost \union {"table"}
              /\ UNCHANGED pc
  /\ UNCHANGED <<layout, image, seg, heap>>

NextSegment ==
  /\ Loading
  /\ page = NumPages(image.segs[seg])
  /\ seg' = seg + 1 /\ page' = 0
  /\ pc' = IF seg = Len(image.segs) THEN "stack" ELSE pc
  /\ UNCHANGED <<mem, layout, image, heap, userFrames, lost>>

(* create_user_task_from_elf: the frame for the stack is not tested for 0. *)
MapStack ==
  /\ pc = "stack"
  /\ LET got == AllocateBlock(mem, 1)
         map == MapPage(got.m, got.frame, StackPage, TRUE)
     IN  /\ mem' = map.m
         /\ userFrames' = userFrames \union ({got.frame} \ {0})
         /\ lost' = lost \union (IF got.frame = 0 THEN {"stack"} ELSE {})
                         \union (IF map.ok THEN {} ELSE {"table"})
  /\ pc' = "user task"
  /\ UNCHANGED <<layout, image, seg, page, heap>>

(* malloc_next_block at run time: allocate_page and map_page for one page.  *)
(* The write attribute is set on a local copy of the entry.                *)
GrowHeap ==
  /\ pc \in {"user task", "idle only"} /\ heap < MaxHeap
  /\ LET got == AllocateBlock(mem, 1)
         map == MapPage(got.m, got.frame, HeapPage + heap, FALSE)
     IN  /\ mem' = map.m
         /\ lost' = lost \union (IF got.frame = 0 THEN {"heap"} ELSE {})
                         \union (IF map.ok THEN {} ELSE {"table"})
  /\ heap' = heap + 1
  /\ UNCHANGED <<pc, layout, image, seg, page, userFrames>>

Next ==
  \/ HandoverNext /\ UNCHANGED <<image, seg, page, heap, userFrames, lost>>
  \/ InitMemory \/ BuildTables \/ SwitchTables
  \/ InitTask \/ ReadModuleCount \/ Refuse
  \/ LoadPage \/ NextSegment \/ MapStack \/ GrowHeap

Spec == Init /\ [][Next]_vars
-----------------------------------------------------------------------------
Steps == {"stage 2 frames", "stage 2 tables", "unmap", "jump", "frames", "no memory map",
          "paging", "switch", "heap", "module", "load", "stack", "user task", "idle only"}
Entries == [present : BOOLEAN, user : BOOLEAN, write : BOOLEAN, frame : Frames \union {KernelFrame + i : i \in 0 .. (TableSize - 1)}]

TypeOK ==
  /\ pc \in Steps
  /\ LayoutOK
  /\ mem.marked \subseteq Frames
  /\ mem.dir \in [0 .. (Dirs - 1) -> Entries]
  /\ DOMAIN mem.tables \subseteq Frames
  /\ mem.content \in [Frames -> [0 .. (Units - 1) -> (0 .. (Memory * Units - 1)) \union {Zero}]]
  /\ image \in Images
  /\ seg \in 1 .. (Len(image.segs) + 1) /\ page \in Nat
  /\ heap \in {0} \union HeapPages .. MaxHeap
  /\ userFrames \subseteq Frames \ {0}
  /\ lost \subseteq {"stack", "table", "heap", "module"}

HeapFrames == {PTE(mem, HeapPage + i).frame : i \in {k \in 0 .. (heap - 1) : Mapped(mem, HeapPage + k)}}

(* What ring 3 can reach are frames allocated for it, each at one page; none *)
(* of them is a page table, a heap page or reserved.  (When no frame is left *)
(* for the stack, frame 0 is mapped in its place.)                          *)
UserConfined ==
  /\ \A p \in UserPages(mem) :
       PTE(mem, p).frame \in userFrames \union (IF "stack" \in lost THEN {0} ELSE {})
  /\ \A p, q \in UserPages(mem) : p # q => PTE(mem, p).frame # PTE(mem, q).frame
  /\ userFrames \intersect (DOMAIN mem.tables \union HeapFrames \union Reserved) = {}

(* Nothing that is mapped later changes what the kernel runs on: low memory  *)
(* stays mapped to itself, the higher half to the kernel image, the heap to  *)
(* frames of its own, and none of the three is open to ring 3.               *)
FixedMapKept ==
  mem.cr3 = "own" /\ pc \notin {"unmap", "jump"} =>
    /\ \A p \in 0 .. (TableSize - 1) : Mapped(mem, p) /\ PTE(mem, p).frame = p
    /\ \A i \in 0 .. (TableSize - 1) :
         LET p == KernelDir * TableSize + i
         IN  Mapped(mem, p) /\ PTE(mem, p).frame = KernelFrame + i
    /\ \A p \in UserPages(mem) : p \div TableSize \notin {0, KernelDir, HeapPage \div TableSize}
    /\ HeapFrames \intersect (DOMAIN mem.tables \union Reserved) \subseteq {0}

(* No mapping, wherever memory runs out, opens to ring 3 what is not its own *)
(* or takes from the kernel what it runs on (map_page, map_page_user).       *)
MappingsSafe == UserConfined /\ FixedMapKept

(* elf.h:85-89: what the user task finds at p_vaddr is the file up to        *)
(* p_filesz and zeros up to p_memsz, for every segment, whatever is mapped   *)
(* after it; for segments that start on a page and share none.               *)
LoadedImage ==
  pc = "user task" /\ "table" \notin lost =>
    \A i \in DOMAIN image.segs :
      LET s == image.segs[i]
      IN  \A k \in 0 .. (s.memsz - 1) :
            LET p == (s.vaddr + k) \div Units
            IN  /\ p \in UserPages(mem)
                /\ mem.content[PTE(mem, p).frame][(s.vaddr + k) % Units]
                     = IF k < s.filesz THEN ModuleFrame * Units + s.offset + k ELSE Zero

(* pmm.c:126 "ASSUMES identity-mapped physical memory": as long as the limit *)
(* keeps frames below the end of the identity mapping, every write through a *)
(* physical address hits the frame it is meant for.                          *)
WritesHitTheirFrame == mem.stray = {}

(* What stage 2 left for the kernel is still there when the kernel reads it: *)
(* the module until it is loaded, through three rounds of page tables and    *)
(* the heap; the boot parameters when HAL asks for the module, if they lie   *)
(* in a frame INIT_MEMORY reserves.                                        *)
ModuleReachesLoader ==
  /\ pc \in Steps \ {"stack", "user task", "idle only"} =>
       \A f \in ModuleBuffer : mem.content[f] = Original[f]
  /\ "module" \in lost => layout.params \div Units \notin Reserved

(* From the last lines of stage 2 to elf_load nothing that is still needed   *)
(* is lost: not the ground somebody runs on, not the way into the kernel,    *)
(* not what is handed over.                                                 *)
HandoverComplete == HandoverSafe /\ JumpLands /\ ModuleReachesLoader

(* userland/lib/stdlib.h:13 "Allocate size bytes of memory": the heap that   *)
(* SYS_MALLOC hands out of is memory a user task can use.                    *)
UserHeapUsable ==
  pc = "user task" => \A i \in 0 .. (heap - 1) : HeapPage + i \in UserPages(mem)
=============================================================================
