------------------------------ MODULE PmmProofs ------------------------------
(***************************************************************************)
(* What the runs of MCPmm check on a memory of a few frames, for every     *)
(* memory size, word width, list of reservations and request size.         *)
(***************************************************************************)
EXTENDS Pmm, FiniteSetTheorems, TLAPS

(* The conjuncts of Inv are not inductive alone: clearing a run's bits is   *)
(* exact only if no other run shares them, and the subtraction of its       *)
(* length is right only if all its bits were set.  Nothing is handed out    *)
(* before INIT_MEMORY is through, so a reservation meets no run.            *)
Inv ==
  /\ TypeOK
  /\ NoDoubleAllocation
  /\ BitmapExact
  /\ CounterAccurate
  /\ ~Booted => runs = {}

LEMMA FramesFinite ==
  ASSUME NEW S \in SUBSET Frames
  PROVE  /\ IsFiniteSet(S)
         /\ Cardinality(S) \in 0 .. (UintMod - 1)
<1>1. IsFiniteSet(Frames) /\ Cardinality(Frames) = LastBit + 1
  BY FS_Interval, PmmAssumption DEF Frames
<1>2. IsFiniteSet(S) /\ Cardinality(S) <= LastBit + 1
  BY <1>1, FS_Subset
<1>3. Cardinality(S) \in Nat
  BY <1>2, FS_CardinalityType
<1> QED BY <1>2, <1>3, PmmAssumption

LEMMA ModSmall ==
  ASSUME NEW m \in Nat, NEW a \in 0 .. (m - 1)
  PROVE  a % m = a
OBVIOUS

(* Marking frames that are not marked adds their number to the count. *)
LEMMA MarkCounts ==
  ASSUME NEW S \in SUBSET Frames, NEW T \in SUBSET Frames, S \intersect T = {}
  PROVE  (Cardinality(S) + Cardinality(T)) % UintMod = Cardinality(S \union T)
<1>1. IsFiniteSet(S) /\ IsFiniteSet(T) /\ S \union T \in SUBSET Frames
  BY FramesFinite
<1>2. Cardinality(S \union T) = Cardinality(S) + Cardinality(T)
  <2>1. Cardinality(S \cup T)
          = Cardinality(S) + Cardinality(T) - Cardinality(S \cap T)
    BY <1>1, FS_Union
  <2>2. Cardinality(S \intersect T) = 0
    BY FS_EmptySet
  <2>3. Cardinality(S) \in Nat /\ Cardinality(T) \in Nat
    BY <1>1, FS_CardinalityType
  <2> QED BY <2>1, <2>2, <2>3
<1>3. UintMod \in Nat /\ Cardinality(S \union T) \in 0 .. (UintMod - 1)
  BY <1>1, FramesFinite, PmmAssumption
<1>4. Cardinality(S \union T) % UintMod = Cardinality(S \union T)
  BY <1>3, ModSmall
<1> QED BY <1>2, <1>4

(* Clearing frames that are all marked takes their number away. *)
LEMMA ClearCounts ==
  ASSUME NEW S \in SUBSET Frames, NEW T \in SUBSET S
  PROVE  (Cardinality(S) - Cardinality(T)) % UintMod = Cardinality(S \ T)
<1>1. IsFiniteSet(S) /\ IsFiniteSet(T) /\ IsFiniteSet(S \ T)
  BY FramesFinite
<1>2. Cardinality(S) = Cardinality(S \ T) + Cardinality(T)
  <2>1. Cardinality((S \ T) \cup T)
          = Cardinality(S \ T) + Cardinality(T) - Cardinality((S \ T) \cap T)
    BY <1>1, FS_Union
  <2>2. (S \ T) \cap T = {} /\ (S \ T) \cup T = S
    OBVIOUS
  <2>3. Cardinality(S \ T) \in Nat /\ Cardinality(T) \in Nat
    BY <1>1, FS_CardinalityType
  <2>4. Cardinality((S \ T) \cap T) = 0
    BY <2>2, FS_EmptySet
  <2>5. Cardinality((S \ T) \cup T) = Cardinality(S)
    BY <2>2, Zenon
  <2> QED BY <2>1, <2>3, <2>4, <2>5
<1>3. UintMod \in Nat /\ Cardinality(S \ T) \in 0 .. (UintMod - 1)
  BY FramesFinite, PmmAssumption
<1>4. Cardinality(S \ T) % UintMod = Cardinality(S \ T)
  BY <1>3, ModSmall
<1>5. Cardinality(S) - Cardinality(T) = Cardinality(S \ T)
  BY <1>1, <1>2, FS_CardinalityType
<1> QED BY <1>4, <1>5

(* A run of n frames found free lies in the bits the manager can mark. *)
LEMMA RunInFrames ==
  ASSUME NEW b \in Scanned, NEW n \in BlockSizes
  PROVE  /\ b .. (b + n - 1) \in SUBSET Frames
         /\ Cardinality(b .. (b + n - 1)) = n
<1>1. b \in Nat /\ n \in Nat /\ b + n <= LastBit + 1 /\ LastBit \in Nat
  BY PmmAssumption DEF Scanned
<1>2. b .. (b + n - 1) \in SUBSET Frames
  BY <1>1 DEF Frames
<1>3. Cardinality(b .. (b + n - 1)) = IF b > b + n - 1 THEN 0 ELSE (b + n - 1) - b + 1
  BY <1>1, FS_Interval
<1> QED BY <1>1, <1>2, <1>3

(* Rounding the byte size of a run up to frames gives its length again:    *)
(* what deallocate_memory_by_size clears is what allocate_block set.       *)
LEMMA PagesOfWholeRun ==
  ASSUME NEW n \in Nat
  PROVE  /\ PagesOf(n * PageSize) = n
         /\ n > 0 => PagesOf((n - 1) * PageSize + 1) = n
<1>1. PageSize \in Nat /\ PageSize > 0
  BY PmmAssumption
<1>2. ASSUME NEW k \in 0 .. (PageSize - 1)
      PROVE  (n * PageSize + k) \div PageSize = n
  BY <1>1, <1>2
<1>3. (n * PageSize + PageSize - 1) \div PageSize = n
  BY <1>1, <1>2
<1>4. ASSUME n > 0 PROVE ((n - 1) * PageSize + 1 + PageSize - 1) \div PageSize = n
  BY <1>1, <1>2, <1>4
<1> QED BY <1>3, <1>4 DEF PagesOf

LEMMA LeastInNat ==
  ASSUME NEW S \in SUBSET Nat, S # {}
  PROVE  \E m \in S : \A c \in S : m <= c
<1>1. PICK x \in S : \A y \in S : <<y, x>> \notin OpToRel(<, Nat)
  BY NatLessThanWellFounded, WFMin
<1>2. x \in S /\ \A y \in S : ~(y < x)
  BY <1>1 DEF OpToRel
<1>3. \A y \in S : x \in Nat /\ y \in Nat /\ x <= y
  BY <1>2
<1> QED BY <1>2, <1>3

(* A frame get_free_frame_by_size returns starts a run no bit of which is set. *)
LEMMA FreeFrameIsFree ==
  ASSUME NEW n \in BlockSizes, FreeFrameBySize(n) # INVALID_FRAME
  PROVE  /\ n > 0
         /\ FreeFrameBySize(n) \in Scanned
         /\ (FreeFrameBySize(n) .. (FreeFrameBySize(n) + n - 1)) \intersect marked = {}
<1>1. FreeStarts(n) # {} /\ n # 0 /\ n \in Nat /\ FreeFrameBySize(n) = LeastOf(FreeStarts(n))
  BY PmmAssumption DEF FreeFrameBySize
<1>2. FreeStarts(n) \subseteq Nat
  BY DEF FreeStarts, Scanned
<1>3. PICK m \in FreeStarts(n) : \A c \in FreeStarts(n) : m <= c
  BY <1>1, <1>2, LeastInNat
<1>4. LeastOf(FreeStarts(n)) \in FreeStarts(n)
  BY <1>3 DEF LeastOf
<1>5. \A c \in 0 .. (n - 1) : FreeFrameBySize(n) + c \notin marked
  BY <1>1, <1>4 DEF FreeStarts
<1>6. FreeFrameBySize(n) \in Scanned /\ FreeFrameBySize(n) \in Nat
  BY <1>1, <1>4, <1>2 DEF FreeStarts
<1>7. ASSUME NEW x \in FreeFrameBySize(n) .. (FreeFrameBySize(n) + n - 1), x \in marked
      PROVE  FALSE
  <2> DEFINE f == FreeFrameBySize(n)
  <2>1. f \in Nat /\ x \in f .. (f + n - 1)
    BY <1>6, <1>7
  <2> HIDE DEF f
  <2>2. x - f \in 0 .. (n - 1) /\ f + (x - f) = x
    BY <2>1, <1>1
  <2> QED BY <2>2, <1>5, <1>7 DEF f
<1> QED BY <1>1, <1>6, <1>7
-----------------------------------------------------------------------------
LEMMA InitInv == Init => Inv
<1> SUFFICES ASSUME Init PROVE Inv
  OBVIOUS
<1>1. TypeOK
  BY PmmAssumption DEF Init, TypeOK, NoCall, INVALID_FRAME
<1>2. NoDoubleAllocation /\ BitmapExact
  BY DEF Init, NoDoubleAllocation, BitmapExact, Held
<1>3. CounterAccurate
  <2>1. marked \ Junk = {}
    BY DEF Init
  <2> QED BY <2>1, FS_EmptySet DEF Init, CounterAccurate
<1> QED BY <1>1, <1>2, <1>3 DEF Init, Inv

LEMMA ReserveInv ==
  ASSUME Inv, ReserveMemoryBlock
  PROVE  Inv'
<1> DEFINE new == RegionPages(Regions[next]) \ marked
<1>1. next \in 1 .. Len(Regions) /\ Len(Regions) \in Nat
  BY PmmAssumption DEF Inv, TypeOK, ReserveMemoryBlock, Booted
<1>2. new \in SUBSET Frames
  <2>1. next \in DOMAIN Regions
    BY <1>1, PmmAssumption
  <2> QED BY <2>1, PmmAssumption
<1>3. UNCHANGED <<runs, ret>> /\ next' = next + 1 /\ runs = {} /\ Held' = Held /\ Held = {}
  BY DEF ReserveMemoryBlock, Inv, Held
<1>4. CASE used >= TOTAL_BLOCK
  <2>1. UNCHANGED <<marked, used, reserved>>
    BY <1>4 DEF ReserveMemoryBlock
  <2>2. TypeOK'
    BY <1>1, <1>3, <2>1 DEF Inv, TypeOK
  <2>3. BitmapExact' /\ CounterAccurate'
    BY <1>3, <2>1 DEF Inv, BitmapExact, CounterAccurate
  <2> QED BY <2>2, <2>3, <1>3 DEF Inv, NoDoubleAllocation
<1>5. CASE ~(used >= TOTAL_BLOCK)
  <2>1. /\ marked' = marked \union new
        /\ used' = (used + Cardinality(new)) % UintMod
        /\ reserved' = reserved \union new
    BY <1>5 DEF ReserveMemoryBlock
  <2> HIDE DEF new
  <2>2. new \intersect marked = {} /\ Junk \subseteq marked
    BY DEF Inv, BitmapExact, new
  <2>3. CounterAccurate'
    <3>1. marked' \ Junk = (marked \ Junk) \union new
      BY <2>1, <2>2
    <3>2. marked \ Junk \in SUBSET Frames /\ (marked \ Junk) \intersect new = {}
      BY <2>2 DEF Inv, TypeOK
    <3>3. (Cardinality(marked \ Junk) + Cardinality(new)) % UintMod
             = Cardinality((marked \ Junk) \union new)
      BY <3>2, <1>2, MarkCounts
    <3> QED BY <3>1, <3>3, <2>1 DEF Inv, CounterAccurate
  <2>4. TypeOK'
    <3>1. used' \in 0 .. (UintMod - 1)
      BY <2>3, <2>1, <1>2, FramesFinite DEF CounterAccurate, Inv, TypeOK
    <3> QED BY <3>1, <2>1, <1>1, <1>2, <1>3 DEF Inv, TypeOK
  <2>5. BitmapExact'
    BY <2>1, <2>2, <1>3 DEF Inv, BitmapExact
  <2> QED BY <2>3, <2>4, <2>5, <1>3 DEF Inv, NoDoubleAllocation
<1> QED BY <1>4, <1>5

(* Handing out a run that start and length describe and no bit of which is   *)
(* set, the common part of allocate_block and allocate_chunk.               *)
LEMMA TakeRunInv ==
  ASSUME Inv, Booted,
         NEW f \in Scanned, NEW n \in BlockSizes \ {0},
         (f .. (f + n - 1)) \intersect marked = {},
         marked' = marked \union (f .. (f + n - 1)),
         used' = (used + n) % UintMod,
         runs' = runs \union {[start |-> f, len |-> n]},
         ret' \in [want : Nat, frame : Scanned \union {INVALID_FRAME}],
         UNCHANGED <<next, reserved>>
  PROVE  Inv'
<1> DEFINE new == f .. (f + n - 1)
           run == [start |-> f, len |-> n]
<1>1. new \in SUBSET Frames /\ Cardinality(new) = n
  BY RunInFrames
<1>2. Run(run) = new
  BY DEF Run
<1> HIDE DEF new
<1>3. new \intersect marked = {} /\ marked' = marked \union new /\ Junk \subseteq marked
  BY DEF new, Inv, BitmapExact
<1>4. Held' = Held \union new
  BY <1>2 DEF Held
<1>5. CounterAccurate'
  <2>1. marked' \ Junk = (marked \ Junk) \union new
    BY <1>3
  <2>2. marked \ Junk \in SUBSET Frames /\ (marked \ Junk) \intersect new = {}
    BY <1>3 DEF Inv, TypeOK
  <2>3. (Cardinality(marked \ Junk) + Cardinality(new)) % UintMod
           = Cardinality((marked \ Junk) \union new)
    BY <2>2, <1>1, MarkCounts
  <2> QED BY <2>1, <2>3, <1>1 DEF Inv, CounterAccurate
<1>6. TypeOK'
  <2>1. used' \in 0 .. (UintMod - 1)
    BY <1>5, <1>3, <1>1, FramesFinite DEF CounterAccurate, Inv, TypeOK
  <2>2. run \in [start : Scanned, len : BlockSizes \ {0}]
    OBVIOUS
  <2> QED BY <2>1, <2>2, <1>1, <1>3 DEF Inv, TypeOK
<1>7. BitmapExact'
  BY <1>3, <1>4 DEF Inv, BitmapExact
<1>8. NoDoubleAllocation'
  <2>1. \A r \in runs : Run(r) \subseteq marked
    BY DEF Inv, BitmapExact, Held
  <2>2. \A r \in runs : Run(r) \intersect Run(run) = {}
    BY <2>1, <1>2, <1>3
  <2>3. ASSUME NEW r \in runs', NEW s \in runs', r # s
        PROVE  Run(r) \intersect Run(s) = {}
    <3> HIDE DEF run
    <3>1. runs' = runs \union {run}
      BY DEF run
    <3> QED BY <3>1, <2>2, <2>3 DEF Inv, NoDoubleAllocation
  <2> QED BY <2>3 DEF NoDoubleAllocation, Run
<1>9. Booted'
  BY DEF Booted
<1> QED BY <1>5, <1>6, <1>7, <1>8, <1>9 DEF Inv

LEMMA AllocateInv ==
  ASSUME Inv, NEW n \in BlockSizes, AllocateBlock(n)
  PROVE  Inv'
<1> DEFINE f == FreeFrameBySize(n)
<1>1. Booted /\ UNCHANGED <<next, reserved>> /\ n \in Nat
  BY PmmAssumption DEF AllocateBlock
<1>2. ret' = [want |-> n, frame |-> f]
  BY DEF AllocateBlock
<1>3. CASE f = INVALID_FRAME
  <2>1. UNCHANGED <<marked, used, runs>>
    BY <1>3 DEF AllocateBlock
  <2>2. TypeOK'
    BY <1>1, <1>2, <1>3, <2>1 DEF Inv, TypeOK
  <2>3. BitmapExact' /\ CounterAccurate'
    BY <1>1, <2>1 DEF Inv, BitmapExact, CounterAccurate, Held
  <2> QED BY <2>1, <2>2, <2>3, <1>1 DEF Inv, NoDoubleAllocation, Booted
<1>4. CASE f # INVALID_FRAME
  <2>1. n > 0 /\ f \in Scanned /\ (f .. (f + n - 1)) \intersect marked = {}
    BY <1>4, FreeFrameIsFree
  <2>2. /\ marked' = marked \union (f .. (f + n - 1))
        /\ used' = (used + n) % UintMod
        /\ runs' = runs \union {[start |-> f, len |-> n]}
    BY <1>4 DEF AllocateBlock
  <2>3. ret' \in [want : Nat, frame : Scanned \union {INVALID_FRAME}]
    BY <1>1, <1>2, <2>1
  <2> HIDE DEF f
  <2> QED BY <2>1, <2>2, <2>3, <1>1, TakeRunInv
<1> QED BY <1>3, <1>4

LEMMA ReleaseInv ==
  ASSUME Inv, NEW r \in runs, Release(r)
  PROVE  Inv'
<1>1. r \in [start : Scanned, len : BlockSizes \ {0}]
  BY DEF Inv, TypeOK
<1>2. Cardinality(Run(r)) = r.len
  BY <1>1, RunInFrames DEF Run
<1>3. Run(r) \subseteq marked \ (Junk \union reserved)
  BY DEF Inv, BitmapExact, Held
<1>4. /\ marked' = marked \ Run(r)
      /\ used' = (used - r.len) % UintMod
      /\ runs' = runs \ {r}
      /\ ret' = NoCall
      /\ UNCHANGED <<next, reserved>>
      /\ Booted /\ Booted'
  BY DEF Release, Booted
<1>5. CounterAccurate'
  <2>1. marked' \ Junk = (marked \ Junk) \ Run(r)
    BY <1>4
  <2>2. marked \ Junk \in SUBSET Frames
    BY DEF Inv, TypeOK
  <2>3. (Cardinality(marked \ Junk) - Cardinality(Run(r))) % UintMod
           = Cardinality((marked \ Junk) \ Run(r))
    BY <2>2, <1>3, ClearCounts
  <2> QED BY <2>1, <2>3, <1>2, <1>4 DEF Inv, CounterAccurate
<1>6. Held' = Held \ Run(r)
  BY <1>4 DEF Held, Inv, NoDoubleAllocation
<1>7. BitmapExact'
  BY <1>3, <1>4, <1>6 DEF Inv, BitmapExact
<1>8. TypeOK'
  <2>1. used' \in 0 .. (UintMod - 1)
    BY <1>5, <1>4, FramesFinite DEF CounterAccurate, Inv, TypeOK
  <2> QED BY <2>1, <1>4 DEF Inv, TypeOK, NoCall
<1>9. NoDoubleAllocation'
  BY <1>4 DEF Inv, NoDoubleAllocation
<1> QED BY <1>4, <1>5, <1>7, <1>8, <1>9 DEF Inv

(* allocate_chunk's own scan for one frame is that of allocate_block(1). *)
LEMMA ChunkIsBlock ==
  ASSUME 1 \in BlockSizes, AllocateChunk
  PROVE  AllocateBlock(1)
<1>1. FreeFrameBySize(1) = IF used >= TOTAL_BLOCK \/ FreeStarts(1) = {}
                           THEN INVALID_FRAME ELSE LeastOf(FreeStarts(1))
  BY DEF FreeFrameBySize
<1>2. FreeFrameBySize(1) \in Scanned \union {INVALID_FRAME}
  BY FreeFrameIsFree
<1>3. \A f \in Int : f .. (f + 1 - 1) = {f}
  OBVIOUS
<1>4. FreeFrameBySize(1) .. (FreeFrameBySize(1) + 1 - 1) = {FreeFrameBySize(1)}
  BY <1>2, <1>3 DEF Scanned, INVALID_FRAME
<1> QED BY <1>1, <1>4 DEF AllocateChunk, AllocateBlock

LEMMA BySizeIsRelease ==
  ASSUME Inv, NEW r \in runs, DeallocateMemoryBySize(r)
  PROVE  Release(r)
<1>1. r \in [start : Scanned, len : BlockSizes \ {0}] /\ r.len \in Nat
  BY PmmAssumption DEF Inv, TypeOK
<1>2. PagesOf(r.len * PageSize) = r.len
  BY <1>1, PagesOfWholeRun
<1>3. [r EXCEPT !.len = r.len] = r
  BY <1>1
<1> QED BY <1>2, <1>3 DEF DeallocateMemoryBySize

LEMMA NextInv == Inv /\ [Next]_vars => Inv'
<1> SUFFICES ASSUME Inv, [Next]_vars PROVE Inv'
  OBVIOUS
<1>1. CASE ReserveMemoryBlock
  BY <1>1, ReserveInv
<1>2. ASSUME NEW n \in BlockSizes, AllocateBlock(n) PROVE Inv'
  BY <1>2, AllocateInv
<1>3. ASSUME NEW n \in BlockSizes, n > 0, AllocateByte((n - 1) * PageSize + 1)
      PROVE  Inv'
  <2>1. n \in Nat /\ PagesOf((n - 1) * PageSize + 1) = n
    BY <1>3, PmmAssumption, PagesOfWholeRun
  <2> QED BY <1>3, <2>1, AllocateInv DEF AllocateByte
<1>4. CASE 1 \in BlockSizes /\ AllocateChunk
  BY <1>4, ChunkIsBlock, AllocateInv
<1>5. ASSUME NEW r \in runs, DeallocateMemory(r) PROVE Inv'
  BY <1>5, ReleaseInv DEF DeallocateMemory
<1>6. ASSUME NEW r \in runs, DeallocateMemoryBySize(r) PROVE Inv'
  BY <1>6, BySizeIsRelease, ReleaseInv
<1>7. CASE UNCHANGED vars
  BY <1>7 DEF vars, Inv, TypeOK, NoDoubleAllocation, BitmapExact, CounterAccurate,
              Held, Booted
<1> QED BY <1>1, <1>2, <1>3, <1>4, <1>5, <1>6, <1>7 DEF Next

THEOREM Invariance == Spec => []Inv
<1> QED BY InitInv, NextInv, PTL DEF Spec

(* Every variable keeps its type: TOTAL_USED_BLOCKS never wraps below zero  *)
(* and every run lies in the frames a scan can return.                      *)
THEOREM TypeCorrect == Spec => []TypeOK
<1>1. Inv => TypeOK
  BY DEF Inv
<1> QED BY <1>1, Invariance, PTL

(* pmm.c never gives one frame to two callers, whatever the order of        *)
(* allocations and releases.                                                *)
THEOREM FramesHaveOneOwner == Spec => []NoDoubleAllocation
<1>1. Inv => NoDoubleAllocation
  BY DEF Inv
<1> QED BY <1>1, Invariance, PTL

(* The bitmap holds exactly the reserved frames and the live runs: nothing  *)
(* is lost, and nothing that is held or reserved is marked free.            *)
THEOREM NothingLeaks == Spec => []BitmapExact
<1>1. Inv => BitmapExact
  BY DEF Inv
<1> QED BY <1>1, Invariance, PTL

(* TOTAL_USED_BLOCKS is the number of frames taken.                         *)
THEOREM CountIsExact == Spec => []CounterAccurate
<1>1. Inv => CounterAccurate
  BY DEF Inv
<1> QED BY <1>1, Invariance, PTL
-----------------------------------------------------------------------------
(* Each step of the bitmap allocator is a step of FrameAlloc or a stutter.  *)
LEMMA AllocateImplements ==
  ASSUME Inv, NEW n \in BlockSizes, AllocateBlock(n)
  PROVE  [FA!AbsNext]_(FA!absVars)
<1> DEFINE f == FreeFrameBySize(n)
<1>1. CASE f = INVALID_FRAME
  BY <1>1 DEF AllocateBlock, FA!absVars
<1>2. CASE f # INVALID_FRAME
  <2> DEFINE run == [start |-> f, len |-> n]
  <2>1. n > 0 /\ f \in Scanned /\ (f .. (f + n - 1)) \intersect marked = {}
    BY <1>2, FreeFrameIsFree
  <2>2. runs' = runs \union {run} /\ UNCHANGED reserved
    BY <1>2 DEF AllocateBlock
  <2>3. FA!Run(run) = f .. (f + n - 1) /\ FA!Held = Held
    BY DEF FA!Run, FA!Held, Held, Run
  <2>4. FA!Run(run) \intersect (reserved \union FA!Held) = {}
    BY <2>1, <2>3 DEF Inv, BitmapExact
  <2>5. f \in Frames
    <3>1. n \in Nat /\ f \in Nat /\ f + n <= LastBit + 1 /\ LastBit \in Nat
      BY <2>1, PmmAssumption DEF Scanned
    <3> HIDE DEF f
    <3> QED BY <3>1, <2>1 DEF Frames
  <2>6. run \in [start : Frames, len : BlockSizes]
    BY <2>5
  <2>7. FA!AbsAllocate(run)
    BY <2>2, <2>4 DEF FA!AbsAllocate
  <2> QED BY <2>6, <2>7 DEF FA!AbsNext
<1> QED BY <1>1, <1>2

LEMMA ReleaseImplements ==
  ASSUME NEW r \in runs, Release(r)
  PROVE  FA!AbsNext
BY DEF Release, FA!AbsNext, FA!AbsFree

LEMMA StepImplements ==
  Inv /\ Inv' /\ [Next]_vars => [FA!AbsNext]_(FA!absVars)
<1> SUFFICES ASSUME Inv, Inv', [Next]_vars PROVE [FA!AbsNext]_(FA!absVars)
  OBVIOUS
<1>1. CASE ReserveMemoryBlock
  <2>1. runs = {} /\ UNCHANGED runs
    BY <1>1 DEF Inv, ReserveMemoryBlock
  <2>2. reserved \subseteq reserved'
    BY <1>1 DEF ReserveMemoryBlock
  <2>3. FA!AbsReserve
    BY <2>1, <2>2 DEF FA!AbsReserve, FA!Held, Inv, TypeOK
  <2> QED BY <2>3 DEF FA!AbsNext
<1>2. ASSUME NEW n \in BlockSizes, AllocateBlock(n) PROVE [FA!AbsNext]_(FA!absVars)
  BY <1>2, AllocateImplements
<1>3. ASSUME NEW n \in BlockSizes, n > 0, AllocateByte((n - 1) * PageSize + 1)
      PROVE  [FA!AbsNext]_(FA!absVars)
  <2>1. n \in Nat /\ PagesOf((n - 1) * PageSize + 1) = n
    BY <1>3, PmmAssumption, PagesOfWholeRun
  <2> QED BY <1>3, <2>1, AllocateImplements DEF AllocateByte
<1>4. CASE 1 \in BlockSizes /\ AllocateChunk
  BY <1>4, ChunkIsBlock, AllocateImplements
<1>5. ASSUME NEW r \in runs, DeallocateMemory(r) PROVE FA!AbsNext
  BY <1>5, ReleaseImplements DEF DeallocateMemory
<1>6. ASSUME NEW r \in runs, DeallocateMemoryBySize(r) PROVE FA!AbsNext
  BY <1>6, BySizeIsRelease, ReleaseImplements
<1>7. CASE UNCHANGED vars
  BY <1>7 DEF vars, FA!absVars
<1> QED BY <1>1, <1>2, <1>3, <1>4, <1>5, <1>6, <1>7 DEF Next

(* The bitmap allocator implements the set-based one the other parts of the *)
(* kernel are described against.                                            *)
THEOREM PmmImplementsFrameAlloc == Spec => ImplementsFrameAlloc
<1>1. Init => FA!AbsInit
  BY DEF Init, FA!AbsInit
<1> QED BY <1>1, Invariance, StepImplements, PTL
        DEF Spec, ImplementsFrameAlloc, FA!AbsSpec
-----------------------------------------------------------------------------
(* The reservations. *)

(* The bytes that start in page b \div p and fit into k pages from its start. *)
LEMMA PagesCover ==
  ASSUME NEW p \in Nat, p > 0, NEW b \in Nat, NEW s \in Nat, NEW k \in Nat,
         (b % p) + s <= k * p,
         NEW a \in b .. (b + s - 1)
  PROVE  a \div p \in (b \div p) .. (b \div p + k - 1)
<1> DEFINE q == b \div p
           r == b % p
           c == a \div p
           d == a % p
<1>1. q \in Nat /\ r \in Nat /\ b = p * q + r
  OBVIOUS
<1>2. c \in Nat /\ d \in Nat /\ d < p /\ a = p * c + d
  OBVIOUS
<1>3. a >= b /\ a < b + s /\ r + s <= k * p
  OBVIOUS
<1> HIDE DEF q, r, c, d
<1>4. \A x, y \in Nat : x <= y => p * x <= p * y
  OBVIOUS
<1>5. c >= q
  <2> SUFFICES ASSUME c + 1 <= q PROVE FALSE
    BY <1>1, <1>2
  <2>1. p * (c + 1) <= p * q
    BY <1>1, <1>2, <1>4
  <2>2. p * (c + 1) = p * c + p
    BY <1>2
  <2> QED BY <1>1, <1>2, <1>3, <2>1, <2>2
<1>6. c < q + k
  <2> SUFFICES ASSUME q + k <= c PROVE FALSE
    BY <1>1, <1>2
  <2>1. p * (q + k) <= p * c
    BY <1>1, <1>2, <1>4
  <2>2. p * (q + k) = p * q + k * p
    BY <1>1
  <2> QED BY <1>1, <1>2, <1>3, <2>1, <2>2
<1>7. c \in q .. (q + k - 1)
  BY <1>1, <1>2, <1>5, <1>6
<1> QED BY <1>7 DEF c, q

(* The pages of the regions that have been reserved. *)
Done == UNION {RegionPages(Regions[j]) : j \in 1 .. (next - 1)}

(* Each call of reserve_memory_block marks all of its region, as long as the *)
(* calls before it have marked nothing but their regions.                   *)
Reserving ==
  /\ Done \subseteq reserved
  /\ ~Booted => reserved \subseteq Done

LEMMA ReservingAtStart == Init => Reserving
<1> SUFFICES ASSUME Init PROVE Reserving
  OBVIOUS
<1>1. 1 .. (next - 1) = {}
  BY DEF Init
<1>2. Done = {}
  BY <1>1 DEF Done
<1> QED BY <1>2 DEF Reserving, Init

LEMMA ReserveKeeps ==
  ASSUME RegionsFit, Inv, Reserving, ReserveMemoryBlock
  PROVE  Reserving'
<1> DEFINE pages == RegionPages(Regions[next])
<1>1. next \in 1 .. Len(Regions) /\ Len(Regions) \in Nat /\ next \in DOMAIN Regions
  BY PmmAssumption DEF Inv, TypeOK, ReserveMemoryBlock, Booted
<1>2. pages \subseteq Frames /\ pages \intersect Junk = {}
  BY <1>1, PmmAssumption DEF RegionsFit
<1>3. reserved = Done /\ marked = Junk \union reserved /\ reserved \intersect Junk = {}
  BY DEF Reserving, ReserveMemoryBlock, Inv, BitmapExact, Held
<1>4. ~(used >= TOTAL_BLOCK)
  <2>1. marked \ Junk = Done
    BY <1>3
  <2>2. used = Cardinality(Done)
    BY <2>1 DEF Inv, CounterAccurate
  <2>3. Cardinality(Done) < TOTAL_BLOCK
    BY <1>1 DEF RegionsFit, Done
  <2>4. used \in Nat /\ TOTAL_BLOCK \in Int
    BY PmmAssumption DEF Inv, TypeOK, TOTAL_BLOCK
  <2> QED BY <2>2, <2>3, <2>4
<1>5. reserved' = reserved \union (pages \ marked)
  BY <1>4 DEF ReserveMemoryBlock
<1>6. Done' = Done \union pages
  <2>1. next' = next + 1 /\ next \in Nat /\ next > 0
    BY <1>1 DEF ReserveMemoryBlock
  <2>2. 1 .. (next' - 1) = (1 .. (next - 1)) \union {next}
    BY <2>1
  <2> QED BY <2>2 DEF Done
<1> HIDE DEF pages
<1>7. reserved' = Done'
  BY <1>2, <1>3, <1>5, <1>6
<1> QED BY <1>7 DEF Reserving

LEMMA ReservingKept ==
  ASSUME RegionsFit, Inv, Reserving, [Next]_vars
  PROVE  Reserving'
<1>1. CASE ReserveMemoryBlock
  BY <1>1, ReserveKeeps
<1>2. CASE UNCHANGED <<next, reserved>>
  <2>1. Done' = Done /\ (Booted' <=> Booted)
    BY <1>2 DEF Done, Booted
  <2> QED BY <1>2, <2>1 DEF Reserving
<1>3. Next => ReserveMemoryBlock \/ UNCHANGED <<next, reserved>>
  BY DEF Next, AllocateBlock, AllocateByte, AllocateChunk, DeallocateMemory, DeallocateMemoryBySize,
         Release
<1>4. UNCHANGED vars => UNCHANGED <<next, reserved>>
  BY DEF vars
<1> QED BY <1>1, <1>2, <1>3, <1>4

(* What INIT_MEMORY reserves (pmm.c:111-117) stays reserved to its last      *)
(* byte, whatever is allocated and released afterwards, if the regions fit  *)
(* the limit and the rounding of reserve_memory_block.                      *)
THEOREM RegionsStayReserved ==
  ASSUME RegionsFit
  PROVE  Spec => []RegionsProtected
<1>1. ASSUME Inv, Reserving PROVE RegionsProtected
  <2> SUFFICES ASSUME Booted, NEW i \in DOMAIN Regions,
                      NEW a \in Regions[i].base .. (Regions[i].base + Regions[i].size - 1)
               PROVE  a \div PageSize \in reserved
    BY DEF RegionsProtected
  <2> DEFINE g == Regions[i]
  <2>0. g \in [base : Nat, size : Nat]
    <3> DEFINE S == [base : Nat, size : Nat]
    <3>1. Regions \in Seq(S)
      BY PmmAssumption
    <3> HIDE DEF S
    <3>2. \A j \in DOMAIN Regions : Regions[j] \in S
      BY <3>1
    <3>3. g \in S
      BY <3>2
    <3> QED BY <3>3 DEF S
  <2>1. g.base \in Nat /\ g.size \in Nat /\ PageSize \in Nat /\ PageSize > 0
    BY <2>0, PmmAssumption
  <2>2. PagesOf(g.size) \in Nat /\ (g.base % PageSize) + g.size <= PagesOf(g.size) * PageSize
    <3>1. (g.base % PageSize) + g.size <= PagesOf(g.size) * PageSize
      BY DEF RegionsFit, PagesOf
    <3>2. g.size + PageSize - 1 \in Nat
      BY <2>1
    <3>3. (g.size + PageSize - 1) \div PageSize \in Nat
      BY <2>1, <3>2
    <3> QED BY <3>1, <3>3 DEF PagesOf
  <2>3. a \in g.base .. (g.base + g.size - 1)
    OBVIOUS
  <2>4. i \in 1 .. (next - 1)
    BY <1>1, PmmAssumption, SMTT(20) DEF Booted, Inv, TypeOK
  <2> HIDE DEF g
  <2>5. a \div PageSize \in RegionPages(g)
    BY <2>1, <2>2, <2>3, PagesCover DEF RegionPages
  <2>6. RegionPages(g) \subseteq Done
    BY <2>4 DEF Done, g
  <2> QED BY <1>1, <2>5, <2>6 DEF Reserving
<1>2. Inv /\ Reserving => RegionsProtected
  BY <1>1
<1>3. Inv /\ Reserving /\ [Next]_vars => Reserving'
  BY ReservingKept
<1> QED BY <1>2, <1>3, ReservingAtStart, Invariance, PTL DEF Spec
=============================================================================
