--------------------------------- MODULE Pmm ---------------------------------
(***************************************************************************)
(* The physical memory manager (kernel/mm/pmm/pmm.c; stage 2 links the same *)
(* code): one bit per 4 KiB frame, a count of used frames, first fit.      *)
(*                                                                         *)
(* BIT_MAP is the set `marked' of the bits that are 1.  The scan of the    *)
(* allocator ends at a word boundary and the run it tests may go past the  *)
(* last word, so Frames reaches beyond the memory and Junk is whatever the *)
(* memory behind the bitmap holds at boot.                                 *)
(*                                                                         *)
(* Callers are modelled as pmm.c's callers behave: a run is released once, *)
(* by whoever holds it, and never by a wrong size.                         *)
(***************************************************************************)
EXTENDS Integers, FiniteSets, Sequences

CONSTANTS
  WordBits,     \* bits of a bitmap word: 32 in the code
  ByteBits,     \* BYTE: 8 in the code
  PageSize,     \* PER_BLOCK_SIZE
  TotalPages,   \* TOTAL_PAGES: the sum of the usable regions, in frames
  LastBit,      \* the last bit any scan reaches
  Junk,         \* bits behind the zeroed bitmap that are 1 at boot
  UintMod,      \* 2^32: TOTAL_USED_BLOCKS is a uint32_t
  Regions,      \* the calls of reserve_memory_block made at boot, in order
  BlockSizes    \* frame counts asked for

TOTAL_BLOCK == (TotalPages + WordBits - 1) \div WordBits
Frames      == 0 .. LastBit
Scanned     == 0 .. (TOTAL_BLOCK * WordBits - 1)
ZeroedBits  == 0 .. (((TotalPages + ByteBits - 1) \div ByteBits) * ByteBits - 1)
(* Mutation of PagesOf: the division rounds down. *)
PagesOfMutant(size) == size \div PageSize
(* A size in bytes as a number of frames, rounded up. *)
PagesOf(size) == (size + PageSize - 1) \div PageSize
RegionPages(g) == (g.base \div PageSize) .. (g.base \div PageSize + PagesOf(g.size) - 1)

ASSUME PmmAssumption ==
  /\ WordBits \in Nat \ {0} /\ ByteBits \in Nat \ {0} /\ PageSize \in Nat \ {0}
  /\ TotalPages \in Nat /\ LastBit \in Nat /\ UintMod \in Nat
  /\ LastBit + 1 < UintMod
  /\ Junk \subseteq Frames
  /\ Junk \intersect ZeroedBits = {}
  /\ Regions \in Seq([base : Nat, size : Nat])
  /\ \A i \in DOMAIN Regions : RegionPages(Regions[i]) \subseteq Frames
  /\ BlockSizes \subseteq Nat
  /\ \A b \in Scanned : \A n \in BlockSizes : b + n <= LastBit + 1

INVALID_FRAME == -1

VARIABLES
  marked,       \* BIT_MAP
  used,         \* TOTAL_USED_BLOCKS
  next,         \* the next call of INIT_MEMORY's reservations to be made
  reserved,     \* history: frames the reservations marked
  runs,         \* history: runs handed out and not released
  ret           \* the last call: the frames wanted and the frame returned

vars == <<marked, used, next, reserved, runs, ret>>

FA == INSTANCE FrameAlloc WITH Sizes <- BlockSizes
Run(r) == r.start .. (r.start + r.len - 1)
Held == UNION {Run(r) : r \in runs}

NoCall == [want |-> 0, frame |-> INVALID_FRAME]

(* get_memory_info, setup_memory_bitmap: the bitmap's own bytes are zeroed. *)
Init ==
  /\ marked = Junk
  /\ used = 0
  /\ next = 1
  /\ reserved = {}
  /\ runs = {}
  /\ ret = NoCall

Booted == next > Len(Regions)

(* One call of reserve_memory_block; INIT_MEMORY makes them in order. *)
ReserveMemoryBlock ==
  /\ ~Booted
  /\ next' = next + 1
  /\ LET new == RegionPages(Regions[next]) \ marked
     IN  IF used >= TOTAL_BLOCK
         THEN UNCHANGED <<marked, used, reserved>>
         ELSE /\ marked' = marked \union new
              /\ used' = (used + Cardinality(new)) % UintMod
              /\ reserved' = reserved \union new
  /\ UNCHANGED <<runs, ret>>

(* Mutation of FreeStarts: the last frame of the run is not tested. *)
FreeStartsMutant(n) == {b \in Scanned : \A c \in 0 .. (n - 2) : b + c \notin marked}

(* test_bit on n bits in a row: where a run of n free frames can start. *)
FreeStarts(n) == {b \in Scanned : \A c \in 0 .. (n - 1) : b + c \notin marked}

LeastOf(S) == CHOOSE b \in S : \A c \in S : b <= c

(* get_free_frame_by_size, and get_free_memory_block for a single frame. *)
FreeFrameBySize(n) ==
  IF n = 0 \/ used >= TOTAL_BLOCK \/ FreeStarts(n) = {}
  THEN INVALID_FRAME
  ELSE LeastOf(FreeStarts(n))

(* Mutation of AllocateBlock: INVALID_FRAME is not tested for. *)
AllocateBlockMutant(n) ==
  /\ Booted
  /\ LET f == FreeFrameBySize(n)
     IN  /\ ret' = [want |-> n, frame |-> f]
         /\ marked' = marked \union (f .. (f + n - 1))
         /\ used' = (used + n) % UintMod
         /\ runs' = runs \union {[start |-> f, len |-> n]}
  /\ UNCHANGED <<next, reserved>>

(* allocate_block: n frames, or 0 when get_free_frame_by_size finds none.  *)
AllocateBlock(n) ==
  /\ Booted
  /\ LET f == FreeFrameBySize(n)
     IN  /\ ret' = [want |-> n, frame |-> f]
         /\ IF f = INVALID_FRAME
            THEN UNCHANGED <<marked, used, runs>>
            ELSE /\ marked' = marked \union (f .. (f + n - 1))
                 /\ used' = (used + n) % UintMod
                 /\ runs' = runs \union {[start |-> f, len |-> n]}
  /\ UNCHANGED <<next, reserved>>

(* allocate_byte: the size is rounded up to frames. *)
AllocateByte(size) == AllocateBlock(PagesOf(size))

(* allocate_chunk: one frame, by its own copy of the limit check. *)
AllocateChunk ==
  /\ Booted
  /\ LET f == IF used >= TOTAL_BLOCK \/ FreeStarts(1) = {}
              THEN INVALID_FRAME
              ELSE LeastOf(FreeStarts(1))
     IN  /\ ret' = [want |-> 1, frame |-> f]
         /\ IF f = INVALID_FRAME
            THEN UNCHANGED <<marked, used, runs>>
            ELSE /\ marked' = marked \union {f}
                 /\ used' = (used + 1) % UintMod
                 /\ runs' = runs \union {[start |-> f, len |-> 1]}
  /\ UNCHANGED <<next, reserved>>

(* Mutations of Release: the last bit stays set; the count is not lowered. *)
ReleaseShortMutant(r) ==
  /\ Booted
  /\ marked' = marked \ (r.start .. (r.start + r.len - 2))
  /\ used' = (used - r.len) % UintMod
  /\ runs' = runs \ {r}
  /\ ret' = NoCall
  /\ UNCHANGED <<next, reserved>>

ReleaseUncountedMutant(r) ==
  /\ Booted
  /\ marked' = marked \ Run(r)
  /\ runs' = runs \ {r}
  /\ ret' = NoCall
  /\ UNCHANGED <<used, next, reserved>>

(* unset_bit and the decrement, once per frame of the run, tested by nothing. *)
Release(r) ==
  /\ Booted
  /\ marked' = marked \ Run(r)
  /\ used' = (used - r.len) % UintMod
  /\ runs' = runs \ {r}
  /\ ret' = NoCall
  /\ UNCHANGED <<next, reserved>>

(* deallocate_memory: one frame. *)
DeallocateMemory(r) == r.len = 1 /\ Release(r)

(* deallocate_memory_by_size, and unreserve_memory_block, which is the same *)
(* code: the size in bytes is rounded up to frames.                        *)
DeallocateMemoryBySize(r) == Release([r EXCEPT !.len = PagesOf(r.len * PageSize)])

Next ==
  \/ ReserveMemoryBlock
  \/ \E n \in BlockSizes : AllocateBlock(n)
  \/ \E n \in BlockSizes : n > 0 /\ AllocateByte((n - 1) * PageSize + 1)
  \/ 1 \in BlockSizes /\ AllocateChunk
  \/ \E r \in runs : DeallocateMemory(r)
  \/ \E r \in runs : DeallocateMemoryBySize(r)

Spec == Init /\ [][Next]_vars
-----------------------------------------------------------------------------
TypeOK ==
  /\ marked \subseteq Frames
  /\ used \in 0 .. (UintMod - 1)
  /\ next \in 1 .. (Len(Regions) + 1)
  /\ reserved \subseteq Frames
  /\ runs \subseteq [start : Scanned, len : BlockSizes \ {0}]
  /\ ret \in [want : Nat, frame : Scanned \union {INVALID_FRAME}]

(* No frame is in two live runs: what allocate_block returns belongs to    *)
(* nobody else, over any sequence of allocations and releases.             *)
NoDoubleAllocation ==
  \A r, s \in runs : r # s => Run(r) \intersect Run(s) = {}

(* A set bit is exactly a reserved frame, a frame of a live run or memory  *)
(* that was never zeroed: nothing leaks, nothing held is marked free, and  *)
(* no run takes a reserved frame.                                          *)
BitmapExact ==
  /\ marked = Junk \union reserved \union Held
  /\ Held \intersect (Junk \union reserved) = {}
  /\ reserved \intersect Junk = {}

(* TOTAL_USED_BLOCKS, the number the allocator's limit is tested against,  *)
(* is the number of bits the manager has set and not cleared.              *)
CounterAccurate == used = Cardinality(marked \ Junk)

(* Every byte of every region INIT_MEMORY reserves stays out of every run: *)
(* the reservation covers all the pages the region touches.                *)
RegionsProtected ==
  Booted => \A i \in DOMAIN Regions :
              \A a \in Regions[i].base .. (Regions[i].base + Regions[i].size - 1) :
                a \div PageSize \in reserved

(* When the calls of INIT_MEMORY do their work: a region ends in the last    *)
(* page counted for its size (the base is rounded down, the size alone is    *)
(* rounded up), its bits were 0 at boot, and the regions before it have     *)
(* fewer frames than the bitmap has words, which is what the limit of       *)
(* reserve_memory_block compares the count with (pmm.c:81).                 *)
RegionsFit ==
  \A i \in DOMAIN Regions :
    /\ (Regions[i].base % PageSize) + Regions[i].size
         <= ((Regions[i].size + PageSize - 1) \div PageSize) * PageSize
    /\ RegionPages(Regions[i]) \intersect Junk = {}
    /\ Cardinality(UNION {RegionPages(Regions[j]) : j \in 1 .. (i - 1)}) < TOTAL_BLOCK

(* The bitmap allocator implements the set-based one. *)
ImplementsFrameAlloc == FA!AbsSpec

(* The comments of reserve_memory say which frames stay out of every run;  *)
(* a run of MCPmm names them.                                              *)
NeverHandedOut(S) == Held \intersect S = {}

(* vmm.c:13, vmm.c:29 and elf.c:72 read a returned 0 as "out of memory". *)
FailsOnlyWhenFull ==
  ret.want = 1 /\ ret.frame = INVALID_FRAME => 0 .. (TotalPages - 1) \subseteq marked
=============================================================================
