-------------------------------- MODULE Heap --------------------------------
(***************************************************************************)
(* The kernel heap (kernel/mm/handler/malloc.c) behind SYS_MALLOC and       *)
(* SYS_FREE: a linked list of blocks, each a header and a payload, in one   *)
(* virtual range that grows by pages at its end.                           *)
(*                                                                         *)
(* The list is the sequence of its blocks in `next' order.  Addresses are   *)
(* counted in units from the start of the heap.  Both calls enter through   *)
(* an interrupt gate and run to their end without an interrupt, so each is  *)
(* one action.  malloc_next_block can hand out a used last block and can    *)
(* grow a block that is not the last; blocks then overlap.  When frames run *)
(* out, pages share one or are not mapped at all.  What follows depends on  *)
(* the bytes in them, or faults for ever; the model stops there.           *)
(***************************************************************************)
EXTENDS Integers, FiniteSets, SequencesExt

CONSTANTS
  Header,       \* sizeof(malloc_block_t): 3 words
  Page,         \* PAGE_SIZE
  TaskSize,     \* sizeof(Task) + STACK_SIZE, which init_task asks for before anybody else
  Requests,     \* sizes asked for
  CountMod,     \* 2^8: num_pages is a uint8_t
  TableSpan,    \* pages under one page table; the heap begins at the first of one
  FrameCount,   \* frames that may be in use before allocate_block fails: TOTAL_BLOCK
  MaxPages      \* bound: the heap is not grown beyond this many pages

ASSUME HeapAssumption ==
  /\ Header \in Nat \ {0} /\ Page \in Nat \ {0} /\ Header < Page
  /\ Requests \subseteq Nat \ {0} /\ TaskSize \in Requests
  /\ CountMod \in Nat \ {0} /\ TableSpan \in Nat \ {0} /\ FrameCount \in Nat /\ MaxPages \in Nat

VARIABLES
  list,         \* malloc_list_head and what follows: address, size and free of each block
  pages,        \* total_malloc_pages
  frames,       \* frames left; a run may be longer than that
  noFrame,      \* heap pages mapped without a frame of their own
  tables,       \* page tables of the heap, by their place in the directory
  elsewhere,    \* history: frames the rest of the kernel has taken
  live,         \* history: blocks handed out and not freed
  ret,          \* history: what the last malloc returned, and whether that was free
  wild          \* history: whether the last block was taken whole, blocks overlap, or
                \* a call spins for ever

vars == <<list, pages, frames, noFrame, tables, elsewhere, live, ret, wild>>

Null == -1
Block(at, size, free) == [at |-> at, size |-> size, free |-> free]

Init ==
  /\ list = <<>>
  /\ pages = 0
  /\ frames \in 0 .. FrameCount
  /\ elsewhere = FrameCount - frames
  /\ noFrame = {}
  /\ tables = {}
  /\ live = {}
  /\ ret = [at |-> Null, wasFree |-> TRUE]
  /\ wild = "no"

(* Every page is mapped, and no two on one frame. *)
Unmapped == {p \in 0 .. (pages - 1) : p \div TableSpan \notin tables}
Backed == Unmapped = {} /\ Cardinality(noFrame) <= 1

Followed == wild \in {"no", "tail taken"} /\ Backed

(* A partial page counts twice: the division has rounded up already. *)
InitialPages(n) == (n + Page - 1) \div Page + (IF n % Page > 0 THEN 1 ELSE 0)

(* malloc_init: one free block over all the pages. *)
Fresh(n) == <<Block(0, InitialPages(n) * Page - Header, TRUE)>>

(* The first free block that is large enough, else the last block. *)
Fits(l, n) == {i \in 1 .. Len(l) : l[i].size >= n /\ l[i].free}
FirstFit(l, n) ==
  IF Fits(l, n) = {} THEN Len(l) ELSE CHOOSE i \in Fits(l, n) : \A j \in Fits(l, n) : i <= j

(* Mutation of Split: the rest forgets its own header. *)
SplitMutant(l, i, n) ==
  LET rest == Block(l[i].at + n + Header, l[i].size - n, TRUE)
  IN  SubSeq(l, 1, i - 1) \o <<Block(l[i].at, n, FALSE), rest>> \o SubSeq(l, i + 1, Len(l))

(* malloc_split: block i is cut to n, the rest becomes a free block behind it. *)
Split(l, i, n) ==
  LET rest == Block(l[i].at + n + Header, l[i].size - n - Header, TRUE)
  IN  SubSeq(l, 1, i - 1) \o <<Block(l[i].at, n, FALSE), rest>> \o SubSeq(l, i + 1, Len(l))

(* Mutation of PagesWanted: no room is made for the header of the rest. *)
PagesWantedMutant(l, i, n) == (n - l[i].size + Page - 1) \div Page

(* The pages block i must get before n can be split off it. *)
PagesWanted(l, i, n) == (n + Header - l[i].size + Page - 1) \div Page
NewPages(l, i, n) == IF PagesWanted(l, i, n) < 1 THEN 1 ELSE PagesWanted(l, i, n)

Joined(b, c) == [b EXCEPT !.size = @ + c.size + Header]

(* merge_free_blocks: a block takes in its free neighbour, and the walk goes *)
(* on behind that one, so that a third free block in a row stays apart.     *)
(* from[i] is what the walk makes of the blocks from the i-th on.           *)
Merged(l) ==
  LET from[i \in 1 .. (Len(l) + 1)] ==
        IF i > Len(l) THEN <<>>
        ELSE IF i < Len(l) /\ l[i].free /\ l[i + 1].free
        THEN Cons(Joined(l[i], l[i + 1]), from[i + 2])
        ELSE Cons(l[i], from[i + 1])
  IN  from[1]

(* Mutation of MapPage: a new table for every page. *)
MapPageMutant(m, p) ==
  IF m.left <= 0 THEN m
  ELSE [m EXCEPT !.left = @ - 1, !.tables = @ \union {p \div TableSpan}]

(* map_page takes a frame for the page table if there is none yet; if no    *)
(* frame is left either, the page is not mapped, and nobody looks at that.  *)
MapPage(m, p) ==
  IF p \div TableSpan \in m.tables \/ m.left <= 0 THEN m
  ELSE [m EXCEPT !.left = @ - 1, !.tables = @ \union {p \div TableSpan}]

(* allocate_page; without a frame it returns 0, and the page goes there.    *)
TakePage(m, p) ==
  IF m.left > 0 THEN [m EXCEPT !.left = @ - 1] ELSE [m EXCEPT !.noFrame = @ \union {p}]

(* A page gets its frame, unless the pages have theirs already, and then the *)
(* table; k pages from first on.                                            *)
NextPage(m, p, framed) == MapPage(IF framed THEN m ELSE TakePage(m, p), p)
MapPages(m, first, k, framed) ==
  LET done[j \in 0 .. k] ==
        IF j = 0 THEN m
        ELSE NextPage(done[j - 1], first + j - 1, framed)
  IN  done[k]

Memory == [left |-> frames, noFrame |-> noFrame, tables |-> tables]
Becomes(m) == frames' = m.left /\ noFrame' = m.noFrame /\ tables' = m.tables /\ UNCHANGED elsewhere

TakeFrames(first, k) == Becomes(MapPages(Memory, first, k, FALSE))

(* allocate_block gives the first pages as one run, beyond the limit if need *)
(* be, or not at all: then page i is mapped on frame i.                     *)
TakeRun(k) ==
  \/ frames > 0 /\ Becomes(MapPages([Memory EXCEPT !.left = @ - k], 0, k, TRUE))
  \/ (frames <= 0 \/ k > 1) /\ Becomes(MapPages([Memory EXCEPT !.noFrame = 0 .. (k - 1)], 0, k, TRUE))

(* create_user_task_from_elf takes the frames of the program, of its stack   *)
(* and of their page tables before it asks for a block.                     *)
LoadModule(n) ==
  /\ Followed /\ live = {[at |-> Header, size |-> TaskSize]}
  /\ frames' = frames - n /\ elsewhere' = elsewhere + n
  /\ UNCHANGED <<list, pages, noFrame, tables, live, ret, wild>>

HandOut(l, i, n) ==
  /\ ret' = [at |-> l[i].at + Header, wasFree |-> l[i].free]
  /\ live' = live \union {[at |-> l[i].at + Header, size |-> n]}

(* The exact fit and the split; no page is needed. *)
PlaceIn(l, i, n) ==
  /\ n = l[i].size \/ l[i].size > n + Header
  /\ list' = Merged(IF n = l[i].size THEN [l EXCEPT ![i].free = FALSE] ELSE Split(l, i, n))
  /\ wild' = IF ~l[i].free THEN "overlap"
             ELSE IF n = l[i].size /\ i = Len(l) THEN "tail taken" ELSE wild
  /\ HandOut(l, i, n)

(* syscall_malloc on an empty heap, from init_task: malloc_init, then a *)
(* block of it.                                                         *)
FirstMalloc ==
  /\ list = <<>>
  /\ pages' = InitialPages(TaskSize)
  /\ TakeRun(InitialPages(TaskSize))
  /\ PlaceIn(Fresh(TaskSize), 1, TaskSize)

(* A block of the list has room. *)
MallocFit(n) ==
  /\ list # <<>> /\ Followed
  /\ PlaceIn(list, FirstFit(list, n), n)
  /\ UNCHANGED <<pages, frames, noFrame, tables, elsewhere>>

(* Neither an exact fit nor room for a header: pages are added at the end   *)
(* of the heap, and to the size of the block found, which is not always the *)
(* last one.  num_pages wraps when more than 255 are wanted.                *)
MallocGrow(n) ==
  /\ list # <<>> /\ Followed
  /\ LET i == FirstFit(list, n)
         k == NewPages(list, i, n)
         grown == [list EXCEPT ![i].size = @ + k * Page]
     IN  /\ n # list[i].size /\ list[i].size <= n + Header
         /\ k < CountMod /\ pages + k <= MaxPages
         /\ pages' = pages + k
         /\ TakeFrames(pages, k)
         /\ list' = Merged(Split(grown, i, n))
         /\ wild' = IF ~list[i].free \/ i < Len(list) THEN "overlap" ELSE wild
         /\ HandOut(list, i, n)

MallocHang(n) ==
  /\ list # <<>> /\ Followed
  /\ LET i == FirstFit(list, n)
     IN  n # list[i].size /\ list[i].size <= n + Header /\ NewPages(list, i, n) >= CountMod
  /\ wild' = "hung"
  /\ UNCHANGED <<list, pages, frames, noFrame, tables, elsewhere, live, ret>>

(* Mutation of Free: the walk stops one block early. *)
FreeMutant(p) ==
  /\ Followed
  /\ LET hit == {i \in 1 .. (Len(list) - 2) : list[i].at + Header = p.at}
     IN  list' = IF hit = {} THEN list
                 ELSE Merged([i \in DOMAIN list |->
                        IF i \in hit THEN [list[i] EXCEPT !.free = TRUE] ELSE list[i]])
  /\ live' = live \ {p}
  /\ UNCHANGED <<pages, frames, noFrame, tables, elsewhere, ret, wild>>

(* malloc_free: the walk does not look at the last block. *)
Free(p) ==
  /\ Followed
  /\ LET hit == {i \in 1 .. (Len(list) - 1) : list[i].at + Header = p.at}
     IN  list' = IF hit = {} THEN list
                 ELSE Merged([i \in DOMAIN list |->
                        IF i \in hit THEN [list[i] EXCEPT !.free = TRUE] ELSE list[i]])
  /\ live' = live \ {p}
  /\ UNCHANGED <<pages, frames, noFrame, tables, elsewhere, ret, wild>>

Next ==
  \/ FirstMalloc
  \/ \E n \in Requests : MallocFit(n) \/ MallocGrow(n) \/ MallocHang(n)
  \/ \E p \in live : Free(p)
  \/ \E n \in 1 .. frames : LoadModule(n)

Spec == Init /\ [][Next]_vars
-----------------------------------------------------------------------------
TypeOK ==
  /\ list \in Seq([at : Nat, size : Nat, free : BOOLEAN])
  /\ pages \in Nat
  /\ frames \in (-InitialPages(TaskSize)) .. FrameCount
  /\ elsewhere \in 0 .. FrameCount
  /\ noFrame \subseteq 0 .. (pages - 1)
  /\ tables \subseteq {p \div TableSpan : p \in 0 .. (pages - 1)}
  /\ live \subseteq [at : Nat, size : Requests]
  /\ ret \in [at : Nat \union {Null}, wasFree : BOOLEAN]
  /\ wild \in {"no", "tail taken", "overlap", "hung"}

Units(p) == p.at .. (p.at + p.size - 1)
HeaderUnits(b) == b.at .. (b.at + Header - 1)

(* What malloc hands out overlaps nothing else that is handed out and no     *)
(* block header, over any order of malloc and free, until a used last block *)
(* is handed out again or a block inside the list is grown, and while the   *)
(* pages are backed.                                                       *)
PayloadsDisjoint ==
  wild # "overlap" /\ Backed =>
    /\ \A p, q \in live : p # q => Units(p) \intersect Units(q) = {}
    /\ \A p \in live : \A i \in DOMAIN list : Units(p) \intersect HeaderUnits(list[i]) = {}

(* The blocks cover the pages of the heap without gap or overlap: split,    *)
(* merge and growth lose no byte and invent none.                          *)
BlocksTile ==
  wild # "overlap" /\ Backed /\ list # <<>> =>
    /\ list[1].at = 0
    /\ \A i \in 1 .. (Len(list) - 1) : list[i + 1].at = list[i].at + Header + list[i].size
    /\ Last(list).at + Header + Last(list).size = pages * Page

(* No byte of the heap is lost or has two owners, over any order of malloc   *)
(* and free.                                                               *)
HeapPartitioned == BlocksTile /\ PayloadsDisjoint

(* Until the last block is taken whole, and while the pages are backed, a    *)
(* block is marked used exactly as long as somebody holds it, and the last  *)
(* block, where the walk of malloc_next_block ends without a test, is free. *)
UsedIsLive ==
  wild = "no" /\ Backed =>
    /\ {list[i].at + Header : i \in {j \in DOMAIN list : ~list[j].free}} = {p.at : p \in live}
    /\ list # <<>> => Last(list).free

(* Wherever frames run out, in the middle of a growth, at a page table or   *)
(* beyond the limit by the first run, none is lost and none has two uses:   *)
(* each is a heap page's, a page table's of the heap or somebody else's.    *)
(* And a page goes without frame or mapping only once none is left; only    *)
(* the first pages, taken as one run, may find none earlier.                *)
FramesAccounted ==
  /\ frames + elsewhere + (pages - Cardinality(noFrame)) + Cardinality(tables) = FrameCount
  /\ frames > 0 => Unmapped = {} /\ noFrame \subseteq 0 .. (InitialPages(TaskSize) - 1)

(* malloc.c:85 "Find first available block in list": what is returned was free. *)
ReturnsFreeBlock == ret.wasFree
=============================================================================
