----------------------------- MODULE LoaderProofs -----------------------------
(***************************************************************************)
(* What the run loader checks for a memory of some frames, for every size   *)
(* of tables, memory, images, heap and layout of stage 2: from the last      *)
(* lines of stage 2 to the running user task nothing still needed is         *)
(* overwritten, ring 3 reaches what is its own, and the program is loaded.  *)
(*                                                                         *)
(* First the inductive invariant Inv; then what each operator of Vmm does    *)
(* to a sound memory (allocating, writing, adding a table, mapping a page);  *)
(* then one lemma for each action of Handover and Loader, in the order they  *)
(* are taken; then what follows from Inv.  An action from elf_load on is     *)
(* shown by what it leaves as it was (Kept) and that its memory stays sound. *)
(***************************************************************************)
EXTENDS Loader, FiniteSetTheorems, SequenceTheorems, TLAPS

TableType == [0 .. (TableSize - 1) -> Entries]
DirType == [0 .. (Dirs - 1) -> Entries]
SomeTables == UNION {[S -> TableType] : S \in SUBSET Frames}
BootType == [directory : Frames \union {None}, dir : DirType, tables : SomeTables]
Bytes == (0 .. (Memory * Units - 1)) \union {Zero}
ContentType == [Frames -> [0 .. (Units - 1) -> Bytes]]
Modes == {"off", "boot", "own"}

Memories ==
  [marked : SUBSET Frames, cr3 : Modes, boot : BootType, directory : Frames \union {None},
   dir : DirType, tables : SomeTables, content : ContentType, stray : SUBSET Int]

(* The tables are where the directory says, in frames of their own that are  *)
(* in use, and what ring 3 may reach are the open directory entries.         *)
Present(m) == {d \in 0 .. (Dirs - 1) : m.dir[d].present}
Placed(m) ==
  /\ Reserved \subseteq m.marked
  /\ DOMAIN m.tables \subseteq m.marked \ Reserved
  /\ \A d \in Present(m) : m.dir[d].frame \in DOMAIN m.tables
  /\ \A d, e \in Present(m) : d # e => m.dir[d].frame # m.dir[e].frame
  /\ \A d \in 0 .. (Dirs - 1) : m.dir[d].user => d \in OpenDirs

(* The two mappings that INITIALIZE_VMEMORY sets up. *)
Fixed(m) ==
  /\ m.dir[0].present /\ m.tables[m.dir[0].frame] = WholeTable(0)
  /\ m.dir[KernelDir].present /\ m.tables[m.dir[KernelDir].frame] = WholeTable(KernelFrame)

(* What is mapped for the program are the frames U, each once, and, when no  *)
(* frame was left for the stack, frame 0 in its place; what is mapped for    *)
(* the heap are frames of nobody else's.                                    *)
PagesIn(m, dirs) == {p \in Pages : p \div TableSize \in dirs /\ Mapped(m, p)}
Apart(m, U, short) ==
  /\ U \subseteq m.marked \ (Reserved \union DOMAIN m.tables)
  /\ \A p \in PagesIn(m, OpenDirs) :
       LET f == PTE(m, p).frame
       IN  f \in U \/ (f = 0 /\ p = StackPage /\ short)
  /\ \A p, q \in PagesIn(m, OpenDirs) : p # q => PTE(m, p).frame # PTE(m, q).frame
  /\ \A p \in PagesIn(m, HeapDirs) :
       PTE(m, p).frame \in {0} \union (m.marked \ (Reserved \union U \union DOMAIN m.tables))

(* The k-th page of a segment is mapped for ring 3 and holds its part.       *)
PageLoaded(m, s, k) ==
  /\ PageOf(s, k) \in UserPages(m)
  /\ \A u \in 0 .. (Units - 1) :
       m.content[PTE(m, PageOf(s, k)).frame][u] =
         IF k * Units + u < s.filesz THEN ModuleFrame * Units + s.offset + k * Units + u ELSE Zero

(* The tables of stage 2, before and after it unmaps the kernel.             *)
BuiltDir(b, c) ==
  [d \in 0 .. (Dirs - 1) |-> IF d = KernelDir THEN Entry(FALSE, TRUE, b)
                             ELSE IF d = 0 THEN Entry(FALSE, TRUE, c) ELSE NoEntry]
LowTable ==
  [i \in 0 .. (TableSize - 1) |->
     IF i >= KernelFrame THEN Unmapped(WholeTable(0)[i]) ELSE WholeTable(0)[i]]
TablesIn(t, S, low) ==
  \E a, b, c \in S :
    /\ a # b /\ a # c /\ b # c
    /\ t.directory = a /\ t.dir = BuiltDir(b, c)
    /\ DOMAIN t.tables = {b, c}
    /\ t.tables[b] = WholeTable(KernelFrame) /\ t.tables[c] = low
StageFree == (0 .. (StackFrame - 1)) \ StageMarked(layout.end)
StageLow == IF pc = "unmap" THEN WholeTable(0) ELSE LowTable

NoOwnTables(m) == m.directory = None /\ m.dir = NoTables.dir /\ m.tables = NoTables.tables

StageSteps == {"stage 2 frames", "stage 2 tables", "unmap", "jump"}
EntrySteps == {"frames", "no memory map", "paging", "switch"}
Late == {"heap", "module", "load", "stack", "user task", "idle only"}

(* While stage 2 runs: its bitmap and tables, and what it must not touch.   *)
Stage2Inv ==
  /\ pc = "stage 2 frames" => mem.marked = {}
  /\ pc = "stage 2 tables" => mem.marked = StageMarked(layout.end)
  /\ pc \in {"stage 2 frames", "stage 2 tables"} => mem.cr3 = "off" /\ NoOwnTables(mem)
  /\ pc \in {"unmap", "jump"} => mem.cr3 = "own" /\ TablesIn(mem, StageFree, StageLow)
  /\ pc \in StageSteps =>
       \A f \in (StageImage \ {0}) \union {StackFrame} \union Run(KernelFrame, KernelPages) :
         mem.content[f] = Original[f]

(* While the kernel runs on stage 2's tables: they are in frames its own      *)
(* tables will not be in.                                                  *)
EntryInv ==
  /\ pc \in EntrySteps => mem.cr3 = "boot" /\ TablesIn(mem.boot, StageFree, LowTable)
  /\ pc \in {"frames", "no memory map", "paging"} => NoOwnTables(mem)
  /\ pc \in {"frames", "no memory map"} => mem.marked = {}
  /\ pc = "paging" => mem.marked = Reserved
  /\ pc = "switch" => TablesIn(mem, ImageTo(layout.end), WholeTable(0))

(* Room for the first heap. *)
HeapRuns(m) == {f \in Frames : Run(f, HeapPages) \subseteq (Frames \ m.marked) \intersect (0 .. (TableSize - 1))}
RoomInv ==
  pc \in {"switch", "heap"} => HeapRuns(mem) # {} /\ Cardinality(mem.marked) <= Cardinality(Reserved) + 3

(* No frame was left for the stack. *)
Short(calls) == "stack" \in calls

(* From init_task on the memory is sound. *)
LateInv ==
  /\ pc \in Late => mem.cr3 = "own"
  /\ pc \in Late \union {"switch"} =>
        Placed(mem) /\ Fixed(mem) /\ Apart(mem, userFrames, Short(lost))

(* The module stays, and with it the parameters if they are reserved.        *)
ModuleInv ==
  /\ \A f \in ModuleBuffer : mem.content[f] = Original[f]
  /\ pc \in {"paging", "switch", "heap", "module"} /\ layout.params \div Units \in Reserved => ParamsIntact
  /\ "module" \in lost => layout.params \div Units \notin Reserved

(* What elf_load is through with is loaded. *)
LoadedInv ==
  /\ pc \in {"stack", "user task"} => seg = Len(image.segs) + 1
  /\ pc \in {"load", "stack", "user task"} /\ "table" \notin lost =>
       \A i \in DOMAIN image.segs : \A k \in 0 .. (NumPages(image.segs[i]) - 1) :
         i < seg \/ (i = seg /\ k < page) => PageLoaded(mem, image.segs[i], k)

Shape ==
  /\ pc \in Steps /\ LayoutOK
  /\ mem \in Memories /\ mem.stray = {}
  /\ image \in Images /\ seg \in 1 .. (Len(image.segs) + 1) /\ page \in Nat
  /\ heap \in {0} \union HeapPages .. MaxHeap
  /\ pc \notin Late \ {"heap"} => heap = 0 /\ userFrames = {} /\ lost = {}
  /\ pc \in Late \ {"heap"} => heap # 0
  /\ pc \in StageSteps \union EntrySteps \union {"heap", "module"} => seg = 1 /\ page = 0
  /\ pc = "load" /\ image.segs # <<>> => seg <= Len(image.segs) /\ page <= NumPages(image.segs[seg])
  /\ lost \subseteq {"stack", "table", "heap", "module"}

Inv == Shape /\ Stage2Inv /\ EntryInv /\ RoomInv /\ LateInv /\ ModuleInv /\ LoadedInv
-----------------------------------------------------------------------------
(* Numbers of pages. *)

LEMMA DivMod ==
  ASSUME NEW a \in Nat, NEW n \in Nat \ {0}
  PROVE  /\ a \div n \in Nat /\ a % n \in 0 .. (n - 1)
         /\ a = n * (a \div n) + (a % n)
  OBVIOUS

LEMMA DivOf ==
  ASSUME NEW n \in Nat \ {0}, NEW q \in Nat, NEW r \in 0 .. (n - 1)
  PROVE  (n * q + r) \div n = q /\ (n * q + r) % n = r
  OBVIOUS

LEMMA DivBelow ==
  ASSUME NEW a \in Nat, NEW n \in Nat \ {0}, NEW k \in Nat, a < k * n
  PROVE  a \div n < k
<1> DEFINE q == a \div n
<1>1. q \in Nat /\ a >= n * q
  BY DivMod
<1> HIDE DEF q
<1>2. SUFFICES ASSUME q >= k PROVE FALSE
  BY <1>1 DEF q
<1>3. PICK d \in Nat : q = k + d
  BY <1>1, <1>2
<1>4. n * q = k * n + d * n /\ d * n >= 0
  BY <1>3
<1> QED
  BY <1>1, <1>4

LEMMA Constants ==
  /\ TableSize \in Nat \ {0} /\ Dirs \in Nat \ {0} /\ Units \in Nat \ {0}
  /\ KernelDir \in 1 .. (Dirs - 1) /\ KernelFrame \in Nat /\ Memory \in Nat \ {0} /\ Limit \in Nat
  /\ KernelPages \in Nat /\ KernelFrame + KernelPages < TableSize /\ KernelFrame < TableSize
  BY VmmAssumption, HandoverAssumption

LEMMA PageNumbers ==
  ASSUME NEW p \in Pages
  PROVE  /\ p \in Nat /\ p \div TableSize \in 0 .. (Dirs - 1) /\ p % TableSize \in 0 .. (TableSize - 1)
         /\ p = TableSize * (p \div TableSize) + (p % TableSize)
<1>1. p \in Nat /\ p < Dirs * TableSize
  <2>1. Dirs * TableSize \in Nat
    BY Constants
  <2> QED
    BY <2>1 DEF Pages
<1>2. p \div TableSize < Dirs
  BY <1>1, Constants, DivBelow
<1>3. p \div TableSize \in Nat /\ p % TableSize \in 0 .. (TableSize - 1)
      /\ p = TableSize * (p \div TableSize) + (p % TableSize)
  BY <1>1, Constants, DivMod
<1> DEFINE q == p \div TableSize
<1>4. q \in 0 .. (Dirs - 1)
  <2> HIDE DEF q
  <2>1. q \in Nat /\ q < Dirs
    BY <1>2, <1>3 DEF q
  <2> QED
    BY <2>1, Constants
<1> QED
  BY <1>1, <1>3, <1>4

(* A page is known by its directory entry and its place in the table. *)
LEMMA PageIs ==
  ASSUME NEW p \in Pages, NEW q \in Pages,
         p \div TableSize = q \div TableSize, p % TableSize = q % TableSize
  PROVE  p = q
  BY PageNumbers

LEMMA PageAt ==
  ASSUME NEW d \in 0 .. (Dirs - 1), NEW i \in 0 .. (TableSize - 1)
  PROVE  LET p == d * TableSize + i
         IN  p \in Pages /\ p \div TableSize = d /\ p % TableSize = i
<1>1. d * TableSize = TableSize * d /\ d * TableSize \in Nat /\ Dirs * TableSize \in Nat
  BY Constants
<1>2. d * TableSize + TableSize <= Dirs * TableSize
  <2>1. PICK r \in Nat : Dirs = d + 1 + r
    BY Constants
  <2>2. Dirs * TableSize = d * TableSize + TableSize + r * TableSize /\ r * TableSize \in Nat
    BY <2>1, Constants
  <2> QED
    BY <1>1, <2>2, Constants
<1>3. d * TableSize + i \in Pages
  BY <1>1, <1>2, Constants DEF Pages
<1> QED
  BY <1>1, <1>3, Constants, DivOf
-----------------------------------------------------------------------------
(* What the operators of Vmm leave of a memory. *)

LEMMA MemoryFields ==
  ASSUME NEW m \in Memories
  PROVE  /\ m.marked \subseteq Frames /\ m.cr3 \in Modes /\ m.boot \in BootType
         /\ m.directory \in Frames \union {None} /\ m.dir \in DirType /\ m.tables \in SomeTables
         /\ m.content \in ContentType /\ m.stray \subseteq Int
         /\ DOMAIN m.tables \subseteq Frames
         /\ \A f \in DOMAIN m.tables : m.tables[f] \in TableType
         /\ \A d \in 0 .. (Dirs - 1) : m.dir[d] \in Entries
<1>1. /\ m.marked \subseteq Frames /\ m.cr3 \in Modes /\ m.boot \in BootType
      /\ m.directory \in Frames \union {None} /\ m.dir \in DirType /\ m.tables \in SomeTables
      /\ m.content \in ContentType /\ m.stray \subseteq Int
  BY DEF Memories
<1>2. DOMAIN m.tables \subseteq Frames /\ \A f \in DOMAIN m.tables : m.tables[f] \in TableType
  BY <1>1 DEF SomeTables
<1>3. \A d \in 0 .. (Dirs - 1) : m.dir[d] \in Entries
  BY <1>1 DEF DirType
<1> QED
  BY <1>1, <1>2, <1>3

LEMMA EntryIs ==
  ASSUME NEW u \in BOOLEAN, NEW w \in BOOLEAN, NEW f \in Frames
  PROVE  /\ Entry(u, w, f) \in Entries
         /\ Entry(u, w, f).present /\ Entry(u, w, f).user = u /\ Entry(u, w, f).write = w
         /\ Entry(u, w, f).frame = f
  BY DEF Entry, Entries

(* n is k with the table t in frame f behind the directory entry d. *)
NewIn(k, n, d, e, f, t) ==
  /\ n \in Memories
  /\ n.marked = k.marked /\ n.cr3 = k.cr3 /\ n.boot = k.boot
  /\ n.directory = k.directory /\ n.content = k.content /\ n.stray = k.stray
  /\ n.dir[d] = e
  /\ \A c \in 0 .. (Dirs - 1) : c # d => n.dir[c] = k.dir[c]
  /\ DOMAIN n.tables = DOMAIN k.tables \union {f}
  /\ n.tables[f] = t
  /\ \A g \in DOMAIN k.tables : g # f => n.tables[g] = k.tables[g]

LEMMA NewTableIn ==
  ASSUME NEW m \in Memories, NEW d \in 0 .. (Dirs - 1), NEW u \in BOOLEAN, NEW f \in Frames,
         NEW t \in TableType
  PROVE  NewIn(m, NewTable(m, d, u, f, t), d, Entry(u, TRUE, f), f, t)
<1> DEFINE n == NewTable(m, d, u, f, t)
<1>1. /\ n.marked = m.marked /\ n.cr3 = m.cr3 /\ n.boot = m.boot
      /\ n.directory = m.directory /\ n.content = m.content /\ n.stray = m.stray
      /\ n.dir = [m.dir EXCEPT ![d] = Entry(u, TRUE, f)]
      /\ n.tables = [g \in DOMAIN m.tables \union {f} |-> IF g = f THEN t ELSE m.tables[g]]
  BY DEF Memories, NewTable
<1> HIDE DEF n
<1>2. n.dir \in DirType
  <2>1. m.dir \in DirType /\ Entry(u, TRUE, f) \in Entries
    BY EntryIs, MemoryFields
  <2> QED
    BY <1>1, <2>1 DEF DirType
<1>3. n.tables \in [DOMAIN m.tables \union {f} -> TableType]
  BY <1>1, MemoryFields
<1>4. n.tables \in SomeTables
  BY <1>3, MemoryFields DEF SomeTables
<1>5. n \in Memories
  BY <1>2, <1>4 DEF Memories, NewTable, n
<1>6. n.dir[d] = Entry(u, TRUE, f) /\ \A c \in 0 .. (Dirs - 1) : c # d => n.dir[c] = m.dir[c]
  <2>1. m.dir \in DirType
    BY MemoryFields
  <2> QED
    BY <1>1, <2>1 DEF DirType
<1>7. /\ DOMAIN n.tables = DOMAIN m.tables \union {f}
      /\ n.tables[f] = t
      /\ \A g \in DOMAIN m.tables : g # f => n.tables[g] = m.tables[g]
  BY <1>1
<1>8. NewIn(m, n, d, Entry(u, TRUE, f), f, t)
  BY <1>1, <1>5, <1>6, <1>7 DEF NewIn
<1> QED
  BY <1>8 DEF n

LEMMA SetEntryFacts ==
  ASSUME NEW m \in Memories, NEW p \in Pages, NEW e \in Entries
  PROVE  LET n == SetEntry(m, p, e)
         IN  /\ n \in Memories
             /\ n.marked = m.marked /\ n.cr3 = m.cr3 /\ n.boot = m.boot
             /\ n.directory = m.directory /\ n.content = m.content /\ n.stray = m.stray
             /\ n.dir = m.dir /\ DOMAIN n.tables = DOMAIN m.tables
             /\ \A f \in DOMAIN m.tables : \A i \in 0 .. (TableSize - 1) :
                  n.tables[f][i] = IF f = PDE(m, p).frame /\ i = p % TableSize THEN e ELSE m.tables[f][i]
             /\ \A f \in DOMAIN m.tables : f # PDE(m, p).frame => n.tables[f] = m.tables[f]
<1> DEFINE n == SetEntry(m, p, e)
           f0 == PDE(m, p).frame
<1>1. /\ n.marked = m.marked /\ n.cr3 = m.cr3 /\ n.boot = m.boot
      /\ n.directory = m.directory /\ n.content = m.content /\ n.stray = m.stray
      /\ n.dir = m.dir
      /\ n.tables = [m.tables EXCEPT ![f0] = [@ EXCEPT ![p % TableSize] = e]]
  BY DEF Memories, SetEntry
<1> HIDE DEF f0
<1>2. \A f \in DOMAIN m.tables :
        n.tables[f] = IF f = f0 THEN [m.tables[f] EXCEPT ![p % TableSize] = e] ELSE m.tables[f]
  BY <1>1
<1>3. DOMAIN n.tables = DOMAIN m.tables
  BY <1>1
<1>4. \A f \in DOMAIN m.tables : n.tables[f] \in TableType
  <2>1. ASSUME NEW t \in TableType PROVE [t EXCEPT ![p % TableSize] = e] \in TableType
    BY DEF TableType
  <2> QED
    <3>1. \A f \in DOMAIN m.tables : m.tables[f] \in TableType
      BY MemoryFields
    <3> QED
      BY <1>2, <2>1, <3>1
<1>5. n.tables \in [DOMAIN m.tables -> TableType]
  BY <1>1, <1>4
<1>6. n.tables \in SomeTables
  BY <1>5, MemoryFields DEF SomeTables
<1>7. n \in Memories
  BY <1>6 DEF Memories, SetEntry
<1>8. \A f \in DOMAIN m.tables : f # f0 => n.tables[f] = m.tables[f]
  BY <1>2
<1>9. ASSUME NEW f \in DOMAIN m.tables, NEW i \in 0 .. (TableSize - 1)
      PROVE  n.tables[f][i] = IF f = f0 /\ i = p % TableSize THEN e ELSE m.tables[f][i]
  <2>1. DOMAIN m.tables[f] = 0 .. (TableSize - 1)
    BY MemoryFields DEF TableType
  <2> QED
    BY <1>2, <2>1
<1> QED
  BY <1>1, <1>3, <1>7, <1>8, <1>9 DEF f0
-----------------------------------------------------------------------------
(* Reaching and taking frames. *)

LEMMA FixedPages ==
  ASSUME NEW m, Fixed(m), NEW i \in 0 .. (TableSize - 1)
  PROVE  /\ i \in Pages /\ i \div TableSize = 0 /\ Mapped(m, i) /\ PTE(m, i).frame = i
         /\ LET p == KernelDir * TableSize + i
            IN  p \in Pages /\ p \div TableSize = KernelDir /\ Mapped(m, p) /\ PTE(m, p).frame = KernelFrame + i
<1>1. 0 \in 0 .. (Dirs - 1) /\ KernelDir \in 0 .. (Dirs - 1) /\ 0 * TableSize + i = i
  BY Constants
<1>2. i \in Pages /\ i \div TableSize = 0 /\ i % TableSize = i
  BY <1>1, PageAt
<1> DEFINE p == KernelDir * TableSize + i
<1>3. p \in Pages /\ p \div TableSize = KernelDir /\ p % TableSize = i
  BY <1>1, PageAt
<1> HIDE DEF p
<1>4. WholeTable(0)[i] = Entry(FALSE, TRUE, 0 + i) /\ WholeTable(KernelFrame)[i] = Entry(FALSE, TRUE, KernelFrame + i)
  BY DEF WholeTable
<1>5. PTE(m, i) = Entry(FALSE, TRUE, 0 + i) /\ PDE(m, i).present
  BY <1>2, <1>4 DEF Fixed, PTE, PDE
<1>6. PTE(m, p) = Entry(FALSE, TRUE, KernelFrame + i) /\ PDE(m, p).present
  BY <1>3, <1>4 DEF Fixed, PTE, PDE
<1>7. /\ Entry(FALSE, TRUE, 0 + i).present /\ Entry(FALSE, TRUE, KernelFrame + i).present
      /\ Entry(FALSE, TRUE, 0 + i).frame = i /\ Entry(FALSE, TRUE, KernelFrame + i).frame = KernelFrame + i
  BY DEF Entry
<1>8. Mapped(m, i) /\ Mapped(m, p) /\ PTE(m, i).frame = i /\ PTE(m, p).frame = KernelFrame + i
  BY <1>5, <1>6, <1>7 DEF Mapped
<1> QED
  BY <1>2, <1>3, <1>8 DEF p

LEMMA ReachFixed ==
  ASSUME NEW m, m.cr3 = "own", Fixed(m), NEW f \in 0 .. (TableSize - 1)
  PROVE  Reach(m, f) = f
  BY FixedPages DEF Reach

LEMMA WriteFacts ==
  ASSUME NEW m \in Memories, NEW S \in SUBSET Frames, \A f \in S : Reach(m, f) = f,
         NEW what \in [0 .. (Units - 1) -> Bytes]
  PROVE  LET n == Write(m, S, what)
         IN  /\ n \in Memories
             /\ n.marked = m.marked /\ n.cr3 = m.cr3 /\ n.boot = m.boot
             /\ n.directory = m.directory /\ n.dir = m.dir /\ n.tables = m.tables /\ n.stray = m.stray
             /\ n.content = [f \in Frames |-> IF f \in S THEN what ELSE m.content[f]]
<1> DEFINE hit == {Reach(m, f) : f \in S}
           n == Write(m, S, what)
<1>1. hit = S
  OBVIOUS
<1>2. n = [m EXCEPT !.content = [f \in Frames |-> IF f \in S THEN what ELSE @[f]],
                    !.stray = @ \union (S \ S)]
  BY <1>1 DEF Write
<1> HIDE DEF n
<1>3. /\ n.marked = m.marked /\ n.cr3 = m.cr3 /\ n.boot = m.boot
      /\ n.directory = m.directory /\ n.dir = m.dir /\ n.tables = m.tables /\ n.stray = m.stray
      /\ n.content = [f \in Frames |-> IF f \in S THEN what ELSE m.content[f]]
  BY <1>2 DEF Memories
<1>4. n.content \in ContentType
  <2>1. m.content \in ContentType
    BY MemoryFields
  <2> QED
    BY <1>3, <2>1 DEF ContentType
<1>5. n \in Memories
  BY <1>2, <1>3, <1>4 DEF Memories
<1> QED
  BY <1>3, <1>5 DEF n

LEMMA MinOf ==
  ASSUME NEW S \in SUBSET Frames, S # {}
  PROVE  Min(S) \in S /\ \A g \in S : Min(S) <= g
<1>1. S \in SUBSET Nat
  BY Constants DEF Frames
<1>2. \E x \in S : \A y \in S : x <= y
  <2>1. PICK x \in S : \A y \in S : <<y, x>> \notin OpToRel(<, Nat)
    BY <1>1, NatLessThanWellFounded, WFMin
  <2>2. x \in S /\ \A y \in S : ~(y < x)
    BY <1>1, <2>1 DEF OpToRel
  <2>3. \A y \in S : x \in Nat /\ y \in Nat /\ x <= y
    BY <1>1, <2>2
  <2> QED
    BY <2>2, <2>3
<1> QED
  BY <1>2 DEF Min

(* allocate_block: what it takes is free and as low as can be, and wiped. *)
LEMMA AllocateFacts ==
  ASSUME NEW m \in Memories, 0 \in m.marked, NEW n \in Nat \ {0}
  PROVE  LET r == AllocateBlock(m, n)
         IN  /\ r.frame = 0 => r.m = m /\ (Cardinality(m.marked) >= Limit \/ FreeStarts(m, n) = {})
             /\ r.frame # 0 =>
                  /\ r.frame \in Frames /\ Run(r.frame, n) \subseteq Frames \ m.marked
                  /\ ~ Cardinality(m.marked) >= Limit
                  /\ \A g \in Frames : Run(g, n) \subseteq Frames \ m.marked => r.frame <= g
                  /\ r.m = Write([m EXCEPT !.marked = @ \union Run(r.frame, n)], Run(r.frame, n), Wiped)
<1> DEFINE f == Min(FreeStarts(m, n))
<1>1. CASE Cardinality(m.marked) >= Limit \/ FreeStarts(m, n) = {}
  BY <1>1 DEF AllocateBlock
<1>2. CASE ~(Cardinality(m.marked) >= Limit \/ FreeStarts(m, n) = {})
  <2>1. f \in FreeStarts(m, n) /\ \A g \in FreeStarts(m, n) : f <= g
    <3>1. FreeStarts(m, n) \in SUBSET Frames
      BY DEF FreeStarts
    <3> QED
      BY <1>2, <3>1, MinOf
  <2> HIDE DEF f
  <2>2. f \in Frames /\ Run(f, n) \subseteq Frames \ m.marked
    BY <2>1 DEF FreeStarts
  <2>3. f \in Run(f, n)
    BY <2>2, Constants DEF Run, Frames
  <2>4. f # 0
    BY <2>2, <2>3
  <2>5. AllocateBlock(m, n) = [m |-> Write([m EXCEPT !.marked = @ \union Run(f, n)], Run(f, n), Wiped), frame |-> f]
    BY <1>2 DEF AllocateBlock, f
  <2>6. \A g \in Frames : Run(g, n) \subseteq Frames \ m.marked => f <= g
    BY <2>1 DEF FreeStarts
  <2> QED
    BY <1>2, <2>2, <2>4, <2>5, <2>6
<1> QED
  BY <1>1, <1>2

LEMMA TakenFacts ==
  ASSUME NEW m \in Memories, NEW n \in Nat \ {0}, NEW f \in Frames, Run(f, n) \subseteq Frames,
         \A g \in Run(f, n) : Reach(m, g) = g
  PROVE  LET w == Write([m EXCEPT !.marked = @ \union Run(f, n)], Run(f, n), Wiped)
         IN  /\ w \in Memories
             /\ w.marked = m.marked \union Run(f, n) /\ w.cr3 = m.cr3 /\ w.boot = m.boot
             /\ w.directory = m.directory /\ w.dir = m.dir /\ w.tables = m.tables /\ w.stray = m.stray
             /\ w.content = [g \in Frames |-> IF g \in Run(f, n) THEN Wiped ELSE m.content[g]]
<1> DEFINE k == [m EXCEPT !.marked = @ \union Run(f, n)]
           S == Run(f, n)
<1>1. /\ k.marked = m.marked \union S /\ k.cr3 = m.cr3 /\ k.boot = m.boot /\ k.directory = m.directory
      /\ k.dir = m.dir /\ k.tables = m.tables /\ k.stray = m.stray /\ k.content = m.content
  BY DEF Memories
<1>2. k \in Memories
  BY MemoryFields DEF Memories
<1> HIDE DEF k
<1>3. \A g \in S : Reach(k, g) = g
  <2>1. \A g : Reach(k, g) = Reach(m, g)
    BY <1>1 DEF Reach, Mapped, PTE, PDE
  <2> QED
    BY <2>1
<1>4. Wiped \in [0 .. (Units - 1) -> Bytes]
  BY DEF Wiped, Bytes
<1> HIDE DEF S
<1>5. S \in SUBSET Frames
  BY DEF S
<1> DEFINE w == Write(k, S, Wiped)
<1>6. /\ w \in Memories
      /\ w.marked = k.marked /\ w.cr3 = k.cr3 /\ w.boot = k.boot
      /\ w.directory = k.directory /\ w.dir = k.dir /\ w.tables = k.tables /\ w.stray = k.stray
      /\ w.content = [g \in Frames |-> IF g \in S THEN Wiped ELSE k.content[g]]
  BY <1>2, <1>3, <1>4, <1>5, WriteFacts
<1> HIDE DEF w
<1>7. /\ w \in Memories
      /\ w.marked = m.marked \union S /\ w.cr3 = m.cr3 /\ w.boot = m.boot
      /\ w.directory = m.directory /\ w.dir = m.dir /\ w.tables = m.tables /\ w.stray = m.stray
      /\ w.content = [g \in Frames |-> IF g \in S THEN Wiped ELSE m.content[g]]
  BY <1>1, <1>6
<1> QED
  BY <1>7 DEF w, k, S
-----------------------------------------------------------------------------
(* What mapping a page leaves alone. *)

(* n is m with more frames in use, and the pages P mapped anew. *)
Kept(m, n, P) ==
  /\ n \in Memories /\ n.cr3 = m.cr3 /\ n.boot = m.boot /\ n.stray = m.stray
  /\ m.marked \subseteq n.marked
  /\ \A f \in m.marked : n.content[f] = m.content[f] /\ (f \in DOMAIN n.tables <=> f \in DOMAIN m.tables)
  /\ \A p \in Pages \ P :
       /\ Mapped(n, p) <=> Mapped(m, p)
       /\ Mapped(m, p) => PTE(n, p) = PTE(m, p)
       /\ p \in UserPages(m) => p \in UserPages(n)

Sound(m, U, short) ==
  /\ m \in Memories /\ m.cr3 = "own"
  /\ Placed(m) /\ Fixed(m) /\ Apart(m, U, short)

LEMMA KeptTwice ==
  ASSUME NEW m, NEW n, NEW k, NEW P, Kept(m, n, P), Kept(n, k, P)
  PROVE  Kept(m, k, P)
<1>1. /\ k \in Memories /\ k.cr3 = m.cr3 /\ k.boot = m.boot /\ k.stray = m.stray
      /\ m.marked \subseteq k.marked
  BY DEF Kept
<1>2. ASSUME NEW f \in m.marked
      PROVE  k.content[f] = m.content[f] /\ (f \in DOMAIN k.tables <=> f \in DOMAIN m.tables)
  <2>1. f \in n.marked
    BY DEF Kept
  <2> QED
    BY <2>1 DEF Kept
<1>3. ASSUME NEW p \in Pages \ P
      PROVE  /\ Mapped(k, p) <=> Mapped(m, p)
             /\ Mapped(m, p) => PTE(k, p) = PTE(m, p)
             /\ p \in UserPages(m) => p \in UserPages(k)
  BY DEF Kept
<1> QED
  BY <1>1, <1>2, <1>3 DEF Kept

LEMMA KeptMore ==
  ASSUME NEW m, NEW n, NEW P, NEW Q, P \subseteq Q, Kept(m, n, P)
  PROVE  Kept(m, n, Q)
  BY DEF Kept

(* Where frames come from. *)
LEMMA MarkedFinite ==
  ASSUME NEW M \in SUBSET Frames
  PROVE  IsFiniteSet(M) /\ Cardinality(M) \in Nat /\ (Cardinality(M) < Memory => M # Frames)
<1>1. IsFiniteSet(Frames) /\ Cardinality(Frames) = Memory
  BY Constants, FS_Interval DEF Frames
<1> QED
  BY <1>1, FS_Subset, FS_CardinalityType

LEMMA LowestBelowLimit ==
  ASSUME NEW M \in SUBSET Frames, ~ Cardinality(M) >= Limit, NEW f \in Frames,
         \A g \in Frames : g \notin M => f <= g
  PROVE  f < Limit
<1>1. f \in Nat /\ 0 .. (f - 1) \in SUBSET M
  BY Constants DEF Frames
<1>2. IsFiniteSet(M) /\ Cardinality(M) \in Nat
  BY MarkedFinite
<1>3. Cardinality(0 .. (f - 1)) <= Cardinality(M)
  BY <1>1, <1>2, FS_Subset
<1>4. Cardinality(0 .. (f - 1)) = f
  BY <1>1, FS_Interval
<1> QED
  BY <1>1, <1>2, <1>3, <1>4, Constants

LEMMA RunOfOne ==
  ASSUME NEW f \in Int
  PROVE  Run(f, 1) = {f}
  BY DEF Run

LEMMA OneFrame ==
  ASSUME NEW m \in Memories, 0 \in m.marked
  PROVE  LET r == AllocateBlock(m, 1)
         IN  /\ r.frame = 0 => r.m = m
             /\ r.frame # 0 =>
                  /\ r.frame \in Frames \ m.marked
                  /\ r.frame < TableSize
                  /\ \A g \in Frames : g \notin m.marked => r.frame <= g
             /\ r.frame # 0 /\ Reach(m, r.frame) = r.frame =>
                  /\ r.m \in Memories
                  /\ r.m.marked = m.marked \union {r.frame} /\ r.m.cr3 = m.cr3 /\ r.m.boot = m.boot
                  /\ r.m.directory = m.directory /\ r.m.dir = m.dir /\ r.m.tables = m.tables
                  /\ r.m.stray = m.stray
                  /\ r.m.content = [g \in Frames |-> IF g = r.frame THEN Wiped ELSE m.content[g]]
             /\ Cardinality(m.marked) < Limit => r.frame # 0
<1> DEFINE r == AllocateBlock(m, 1)
           f == r.frame
<1>1. m.marked \in SUBSET Frames
  BY MemoryFields
<1>2. /\ f = 0 => r.m = m /\ (Cardinality(m.marked) >= Limit \/ FreeStarts(m, 1) = {})
      /\ f # 0 =>
           /\ f \in Frames /\ Run(f, 1) \subseteq Frames \ m.marked
           /\ ~ Cardinality(m.marked) >= Limit
           /\ \A g \in Frames : Run(g, 1) \subseteq Frames \ m.marked => f <= g
           /\ r.m = Write([m EXCEPT !.marked = @ \union Run(f, 1)], Run(f, 1), Wiped)
  BY AllocateFacts
<1>3. \A g \in Frames : g \in Int /\ Run(g, 1) = {g}
  BY RunOfOne DEF Frames
<1> HIDE DEF r
<1>4. ASSUME f # 0
      PROVE  f \in Frames \ m.marked /\ (\A g \in Frames : g \notin m.marked => f <= g) /\ f < TableSize
  <2>1. f \in Frames \ m.marked /\ \A g \in Frames : g \notin m.marked => f <= g
    BY <1>2, <1>3, <1>4
  <2>2. f < Limit
    BY <1>1, <1>2, <1>4, <2>1, LowestBelowLimit
  <2> QED
    BY <2>1, <2>2, LoaderAssumption, Constants DEF Frames
<1>5. ASSUME f # 0, Reach(m, f) = f
      PROVE  /\ r.m \in Memories
             /\ r.m.marked = m.marked \union {f} /\ r.m.cr3 = m.cr3 /\ r.m.boot = m.boot
             /\ r.m.directory = m.directory /\ r.m.dir = m.dir /\ r.m.tables = m.tables
             /\ r.m.stray = m.stray
             /\ r.m.content = [g \in Frames |-> IF g = f THEN Wiped ELSE m.content[g]]
  <2>1. f \in Frames /\ Run(f, 1) = {f}
    BY <1>3, <1>4, <1>5
  <2>2. r.m = Write([m EXCEPT !.marked = @ \union Run(f, 1)], Run(f, 1), Wiped)
    BY <1>2, <1>5
  <2> HIDE DEF f
  <2>3. Run(f, 1) \subseteq Frames /\ \A g \in Run(f, 1) : Reach(m, g) = g
    BY <1>5, <2>1
  <2> DEFINE w == Write([m EXCEPT !.marked = @ \union Run(f, 1)], Run(f, 1), Wiped)
  <2>4. /\ w \in Memories
        /\ w.marked = m.marked \union Run(f, 1) /\ w.cr3 = m.cr3 /\ w.boot = m.boot
        /\ w.directory = m.directory /\ w.dir = m.dir /\ w.tables = m.tables /\ w.stray = m.stray
        /\ w.content = [g \in Frames |-> IF g \in Run(f, 1) THEN Wiped ELSE m.content[g]]
    BY <2>1, <2>3, TakenFacts
  <2> HIDE DEF w
  <2>5. r.m = w
    BY <2>2 DEF w
  <2>6. [g \in Frames |-> IF g \in Run(f, 1) THEN Wiped ELSE m.content[g]]
          = [g \in Frames |-> IF g = f THEN Wiped ELSE m.content[g]]
    BY <2>1
  <2> QED
    BY <2>1, <2>4, <2>5, <2>6
<1>6. ASSUME Cardinality(m.marked) < Limit PROVE f # 0
  <2>1. Cardinality(m.marked) \in Nat /\ m.marked # Frames
    BY <1>1, <1>6, MarkedFinite, LoaderAssumption, Constants
  <2>2. PICK g \in Frames : g \notin m.marked
    BY <1>1, <2>1
  <2>3. g \in FreeStarts(m, 1)
    BY <1>3, <2>2 DEF FreeStarts
  <2> QED
    BY <1>2, <1>6, <2>1, <2>3, Constants
<1> QED
  BY <1>2, <1>4, <1>5, <1>6 DEF r
(* Taking frames for later use. *)
LEMMA TakenSound ==
  ASSUME NEW m, NEW w \in Memories, NEW U, NEW short, NEW S \in SUBSET (Frames \ m.marked),
         Sound(m, U, short),
         w.marked = m.marked \union S, w.cr3 = m.cr3, w.boot = m.boot, w.dir = m.dir,
         w.tables = m.tables, w.stray = m.stray,
         \A g \in m.marked : w.content[g] = m.content[g]
  PROVE  /\ Sound(w, U, short) /\ Kept(m, w, {})
         /\ S \intersect (Reserved \union U \union DOMAIN w.tables) = {}
         /\ \A p \in PagesIn(w, OpenDirs) : PTE(w, p).frame \notin S
<1>1. /\ \A p : (Mapped(w, p) <=> Mapped(m, p)) /\ PTE(w, p) = PTE(m, p)
      /\ UserPages(w) = UserPages(m)
      /\ \A D : PagesIn(w, D) = PagesIn(m, D)
  BY DEF Mapped, PTE, PDE, UserPages, PagesIn
<1>2. /\ Reserved \subseteq m.marked /\ DOMAIN m.tables \subseteq m.marked \ Reserved
      /\ U \subseteq m.marked \ (Reserved \union DOMAIN m.tables)
  BY DEF Sound, Placed, Apart
<1>3. Placed(w) /\ Fixed(w)
  <2>1. Present(w) = Present(m)
    BY DEF Present
  <2> QED
    BY <1>2, <2>1 DEF Sound, Placed, Fixed
<1>4. Apart(w, U, short)
  BY <1>1, <1>2 DEF Sound, Apart
<1>5. Sound(w, U, short)
  BY <1>3, <1>4 DEF Sound
<1>6. Kept(m, w, {})
  BY <1>1 DEF Kept
<1>7. S \intersect (Reserved \union U \union DOMAIN w.tables) = {}
  BY <1>2
<1>8. \A p \in PagesIn(w, OpenDirs) : PTE(w, p).frame \notin S
  <2>1. 0 \in m.marked
    BY <1>2, LoaderAssumption
  <2>2. \A p \in PagesIn(m, OpenDirs) : PTE(m, p).frame \in m.marked
    BY <1>2, <2>1 DEF Sound, Apart
  <2> QED
    BY <1>1, <2>2
<1> QED
  BY <1>5, <1>6, <1>7, <1>8

LEMMA OneFrameSound ==
  ASSUME NEW m, NEW U, NEW short, Sound(m, U, short)
  PROVE  LET r == AllocateBlock(m, 1)
         IN  /\ r.frame = 0 => r.m = m
             /\ r.frame # 0 =>
                  /\ r.frame \in Frames \ m.marked /\ r.frame < TableSize
                  /\ Sound(r.m, U, short) /\ Kept(m, r.m, {})
                  /\ r.frame \notin Reserved \union U \union DOMAIN r.m.tables
                  /\ \A p \in PagesIn(r.m, OpenDirs) : PTE(r.m, p).frame # r.frame
                  /\ r.m.marked = m.marked \union {r.frame}
                  /\ r.m.dir = m.dir /\ r.m.tables = m.tables
                  /\ r.m.content[r.frame] = Wiped
<1> DEFINE r == AllocateBlock(m, 1)
           f == r.frame
<1>1. m \in Memories /\ 0 \in m.marked /\ m.cr3 = "own" /\ Fixed(m)
  BY LoaderAssumption DEF Sound, Placed
<1>2. f = 0 => r.m = m
  BY <1>1, OneFrame
<1>3. ASSUME f # 0
      PROVE  /\ f \in Frames \ m.marked /\ f < TableSize
             /\ r.m \in Memories
             /\ r.m.marked = m.marked \union {f} /\ r.m.cr3 = m.cr3 /\ r.m.boot = m.boot
             /\ r.m.directory = m.directory /\ r.m.dir = m.dir /\ r.m.tables = m.tables
             /\ r.m.stray = m.stray
             /\ r.m.content = [g \in Frames |-> IF g = f THEN Wiped ELSE m.content[g]]
  <2>1. f \in Frames \ m.marked /\ f < TableSize
    BY <1>1, <1>3, OneFrame
  <2>2. Reach(m, f) = f
    BY <1>1, <2>1, ReachFixed, Constants DEF Frames
  <2> QED
    BY <1>1, <1>3, <2>1, <2>2, OneFrame
<1> HIDE DEF r
<1>4. ASSUME f # 0
      PROVE  /\ Sound(r.m, U, short) /\ Kept(m, r.m, {})
             /\ f \notin Reserved \union U \union DOMAIN r.m.tables
             /\ \A p \in PagesIn(r.m, OpenDirs) : PTE(r.m, p).frame # f
             /\ r.m.content[f] = Wiped
  <2>1. {f} \in SUBSET (Frames \ m.marked)
    BY <1>3, <1>4
  <2>2. m.marked \subseteq Frames
    BY <1>1, MemoryFields
  <2>3. r.m.content[f] = Wiped /\ \A g \in m.marked : r.m.content[g] = m.content[g]
    BY <1>3, <1>4, <2>2
  <2>4. /\ r.m \in Memories /\ r.m.marked = m.marked \union {f} /\ r.m.cr3 = m.cr3 /\ r.m.boot = m.boot
        /\ r.m.dir = m.dir /\ r.m.tables = m.tables /\ r.m.stray = m.stray
    BY <1>3, <1>4
  <2> DEFINE w == r.m
             S == {f}
  <2> HIDE DEF w, f, S
  <2>5. /\ Sound(w, U, short) /\ Kept(m, w, {})
        /\ S \intersect (Reserved \union U \union DOMAIN w.tables) = {}
        /\ \A p \in PagesIn(w, OpenDirs) : PTE(w, p).frame \notin S
    <3>1. S \in SUBSET (Frames \ m.marked)
      BY <2>1 DEF S
    <3>2. /\ w.marked = m.marked \union S /\ w.cr3 = m.cr3 /\ w.boot = m.boot /\ w.dir = m.dir
          /\ w.tables = m.tables /\ w.stray = m.stray /\ w \in Memories
          /\ \A g \in m.marked : w.content[g] = m.content[g]
      BY <2>3, <2>4 DEF S, w
    <3> QED
      BY <3>1, <3>2, TakenSound
  <2> QED
    BY <2>3, <2>5 DEF w, S
<1> QED
  BY <1>2, <1>3, <1>4 DEF r

(* The directory entry for a page of the program or of the heap: w has it, or *)
(* nothing happened.                                                       *)
HasTable(m, w, U, short, d, user) ==
  /\ w.ok \in BOOLEAN
  /\ w.ok = FALSE => w.m = m
  /\ m.dir[d].present \/ Cardinality(m.marked) < Limit => w.ok = TRUE
  /\ w.ok = TRUE => /\ Sound(w.m, U, short) /\ Kept(m, w.m, {})
                    /\ w.m.dir[d].present /\ (user = TRUE => w.m.dir[d].user)

LEMMA WithTableSound ==
  ASSUME NEW m, NEW U, NEW short, Sound(m, U, short), NEW user \in BOOLEAN,
         NEW d \in OpenDirs \union HeapDirs, d \in 0 .. (Dirs - 1), user = TRUE => d \in OpenDirs
  PROVE  HasTable(m, WithTable(m, d, user), U, short, d, user)
<1> DEFINE r == AllocateBlock(m, 1)
           f == r.frame
           w == WithTable(m, d, user)
<1>1. m \in Memories /\ Placed(m) /\ Fixed(m) /\ Apart(m, U, short) /\ m.cr3 = "own"
  BY DEF Sound
<1>2. d \notin {0, KernelDir}
  BY LoaderAssumption, Constants DEF OpenDirs
<1>3. CASE m.dir[d].present
  <2> DEFINE n == [m EXCEPT !.dir[d] = Entry(@.user \/ user, TRUE, @.frame)]
             e == Entry(m.dir[d].user \/ user, TRUE, m.dir[d].frame)
  <2>1. w = [m |-> n, ok |-> TRUE]
    BY <1>3 DEF WithTable
  <2>2. /\ n.marked = m.marked /\ n.cr3 = m.cr3 /\ n.boot = m.boot /\ n.directory = m.directory
        /\ n.tables = m.tables /\ n.stray = m.stray /\ n.content = m.content
        /\ n.dir = [m.dir EXCEPT ![d] = e]
    BY <1>1 DEF Memories
  <2>3. m.dir \in DirType /\ m.dir[d] \in Entries /\ m.dir[d].frame \in DOMAIN m.tables /\ DOMAIN m.tables \subseteq Frames
    <3>1. d \in Present(m)
      BY <1>3 DEF Present
    <3> QED
      BY <1>1, <3>1, MemoryFields DEF Placed
  <2>4. e \in Entries /\ e.present /\ e.user = (m.dir[d].user \/ user) /\ e.frame = m.dir[d].frame
    <3>1. (m.dir[d].user \/ user) \in BOOLEAN /\ m.dir[d].frame \in Frames
      BY <2>3
    <3> QED
      BY <3>1, EntryIs
  <2>5. n \in Memories
    <3>1. n.dir \in DirType
      <4> HIDE DEF n, e
      <4> QED BY <2>2, <2>3, <2>4 DEF DirType
    <3> QED
      BY <1>1, <3>1 DEF Memories
  <2> HIDE DEF n, e
  <2>6. /\ \A c \in 0 .. (Dirs - 1) : c # d => n.dir[c] = m.dir[c]
        /\ n.dir[d] = e
    BY <2>2, <2>3 DEF DirType
  <2>7. \A c \in 0 .. (Dirs - 1) : n.dir[c].present = m.dir[c].present /\ n.dir[c].frame = m.dir[c].frame
                                   /\ (m.dir[c].user => n.dir[c].user)
    BY <1>3, <2>3, <2>4, <2>6 DEF Entries
  <2>8. \A p \in Pages : (Mapped(n, p) <=> Mapped(m, p)) /\ PTE(n, p) = PTE(m, p) /\ (PDE(m, p).user => PDE(n, p).user)
    BY <2>2, <2>7, PageNumbers DEF Mapped, PTE, PDE
  <2>9. Kept(m, n, {})
    BY <2>2, <2>5, <2>8 DEF Kept, UserPages
  <2>10. Placed(n)
    <3>1. Present(n) = Present(m)
      BY <2>7 DEF Present
    <3>2. \A c \in Present(n) : c \in 0 .. (Dirs - 1) /\ n.dir[c].frame = m.dir[c].frame
      BY <2>7 DEF Present
    <3>3. \A c \in 0 .. (Dirs - 1) : n.dir[c].user => c \in OpenDirs
      BY <1>1, <2>4, <2>6 DEF Placed
    <3> QED
      BY <1>1, <2>2, <3>1, <3>2, <3>3 DEF Placed
  <2>11. Fixed(n)
    BY <1>1, <2>2, <2>7, Constants DEF Fixed
  <2>12. Apart(n, U, short)
    <3>1. \A D : PagesIn(n, D) = PagesIn(m, D) /\ PagesIn(m, D) \subseteq Pages
      BY <2>8 DEF PagesIn
    <3> QED
      BY <1>1, <2>2, <2>8, <3>1 DEF Apart
  <2>13. Sound(n, U, short)
    BY <1>1, <2>2, <2>5, <2>10, <2>11, <2>12 DEF Sound
  <2>14. n.dir[d].present /\ (user = TRUE => n.dir[d].user)
    BY <2>4, <2>6
  <2>15. w.m = n /\ w.ok = TRUE
    BY <2>1
  <2> HIDE DEF w
  <2> QED
    BY <2>9, <2>13, <2>14, <2>15 DEF w, HasTable
<1>4. CASE ~m.dir[d].present /\ f = 0
  <2>1. w.m = m /\ w.ok = FALSE
    BY <1>4 DEF WithTable
  <2>2. ~ Cardinality(m.marked) < Limit
    <3>1. 0 \in m.marked
      BY <1>1, LoaderAssumption DEF Placed
    <3> QED
      BY <1>1, <1>4, <3>1, OneFrame
  <2> HIDE DEF w
  <2> QED
    BY <1>4, <2>1, <2>2 DEF w, HasTable
<1>5. CASE ~m.dir[d].present /\ f # 0
  <2> DEFINE k == r.m
             n == NewTable(k, d, user, f, EmptyTable)
  <2>1. w = [m |-> n, ok |-> TRUE]
    BY <1>5 DEF WithTable
  <2>2. /\ f \in Frames \ m.marked
        /\ Sound(k, U, short) /\ Kept(m, k, {})
        /\ f \notin Reserved \union U \union DOMAIN k.tables
        /\ \A p \in PagesIn(k, OpenDirs) : PTE(k, p).frame # f
        /\ k.marked = m.marked \union {f}
        /\ k.dir = m.dir /\ k.tables = m.tables
    BY <1>5, OneFrameSound
  <2> HIDE DEF k, f
  <2>3. EmptyTable \in TableType
    <3>1. NoEntry \in Entries
      BY Constants DEF NoEntry, Entries, Frames
    <3> QED
      BY <3>1 DEF EmptyTable, TableType
  <2>4. k \in Memories
    BY <2>2 DEF Sound
  <2>4a. f \in Frames
    BY <2>2
  <2>5. /\ n \in Memories
        /\ n.marked = k.marked /\ n.cr3 = k.cr3 /\ n.boot = k.boot
        /\ n.directory = k.directory /\ n.content = k.content /\ n.stray = k.stray
        /\ n.dir[d] = Entry(user, TRUE, f)
        /\ \A c \in 0 .. (Dirs - 1) : c # d => n.dir[c] = k.dir[c]
        /\ DOMAIN n.tables = DOMAIN k.tables \union {f}
        /\ n.tables[f] = EmptyTable
        /\ \A g \in DOMAIN k.tables : g # f => n.tables[g] = k.tables[g]
    <3>1. NewIn(k, n, d, Entry(user, TRUE, f), f, EmptyTable)
      BY <2>3, <2>4, <2>4a, NewTableIn
    <3> HIDE DEF n
    <3> QED
      BY <3>1 DEF NewIn
  <2> HIDE DEF n
  <2>7. n.dir[d] = Entry(user, TRUE, f) /\ \A c \in 0 .. (Dirs - 1) : c # d => n.dir[c] = k.dir[c]
    BY <2>5
  <2>8. n.dir[d].present /\ n.dir[d].user = user /\ n.dir[d].frame = f
    <3>1. /\ Entry(user, TRUE, f).present /\ Entry(user, TRUE, f).user = user
          /\ Entry(user, TRUE, f).frame = f
      BY DEF Entry
    <3> QED
      BY <2>7, <3>1
  <2>9. Placed(k) /\ Fixed(k) /\ Apart(k, U, short) /\ k.cr3 = "own"
    BY <2>2 DEF Sound
  <2>10. Present(n) = Present(m) \union {d} /\ Present(k) = Present(m) /\ d \notin Present(m)
    <3>1. k.dir = m.dir /\ d \in 0 .. (Dirs - 1)
      BY <2>2
    <3>2. Present(k) = Present(m)
      BY <3>1 DEF Present
    <3>3. d \notin Present(m)
      BY <1>5 DEF Present
    <3>4. \A c \in 0 .. (Dirs - 1) : c # d => n.dir[c] = m.dir[c]
      BY <2>7, <3>1
    <3>5. Present(n) = Present(m) \union {d}
      BY <2>8, <3>1, <3>4 DEF Present
    <3> QED
      BY <3>2, <3>3, <3>5
  <2>11. \A c \in Present(m) : /\ c \in 0 .. (Dirs - 1) /\ c # d /\ n.dir[c] = k.dir[c] /\ k.dir[c].frame \in DOMAIN k.tables
                               /\ k.dir[c].frame # f
                               /\ n.tables[k.dir[c].frame] = k.tables[k.dir[c].frame]
    <3>1. \A c \in Present(m) : c \in 0 .. (Dirs - 1) /\ c # d
      BY <2>10 DEF Present
    <3>2. \A c \in Present(m) : k.dir[c].frame \in DOMAIN k.tables
      BY <2>9, <2>10 DEF Placed
    <3> QED
      BY <2>2, <2>5, <2>7, <3>1, <3>2
  <2>12. Placed(n)
    <3>1. Reserved \subseteq n.marked /\ DOMAIN n.tables \subseteq n.marked \ Reserved
      BY <2>2, <2>5, <2>9 DEF Placed
    <3>2. \A c \in Present(n) : n.dir[c].frame \in DOMAIN n.tables
      BY <2>5, <2>8, <2>10, <2>11
    <3>3. \A c, e \in Present(n) : c # e => n.dir[c].frame # n.dir[e].frame
      <4>1. \A c, e \in Present(m) : c # e => k.dir[c].frame # k.dir[e].frame
        BY <2>9, <2>10 DEF Placed
      <4> QED
        BY <2>8, <2>10, <2>11, <4>1
    <3>4. \A c \in 0 .. (Dirs - 1) : n.dir[c].user => c \in OpenDirs
      BY <2>7, <2>8, <2>9 DEF Placed
    <3> QED
      BY <3>1, <3>2, <3>3, <3>4 DEF Placed
  <2>13. Fixed(n)
    <3>1. 0 \in Present(m) /\ KernelDir \in Present(m)
      BY <1>1, Constants DEF Fixed, Present
    <3> QED
      BY <2>9, <2>11, <3>1 DEF Fixed
  <2>14. \A p \in Pages : /\ Mapped(n, p) <=> Mapped(k, p)
                          /\ Mapped(k, p) => PTE(n, p) = PTE(k, p) /\ PDE(n, p) = PDE(k, p)
    <3> TAKE p \in Pages
    <3> DEFINE c == p \div TableSize
    <3>1. c \in 0 .. (Dirs - 1) /\ p % TableSize \in 0 .. (TableSize - 1)
      BY PageNumbers
    <3>2. CASE c = d
      <4>1. ~Mapped(k, p)
        BY <1>5, <2>2, <3>2 DEF Mapped, PDE
      <4>2. PTE(n, p) = NoEntry
        <5>1. PDE(n, p).frame = f
          BY <2>8, <3>2 DEF PDE
        <5> QED
          BY <2>5, <3>1, <5>1 DEF PTE, EmptyTable
      <4> QED
        BY <4>1, <4>2 DEF Mapped, NoEntry
    <3>3. CASE c # d
      <4>1. PDE(n, p) = PDE(k, p)
        BY <2>7, <3>1, <3>3 DEF PDE
      <4>2. CASE c \in Present(m)
        <5>1. PTE(n, p) = PTE(k, p)
          BY <2>11, <4>2 DEF PTE, PDE
        <5> QED
          BY <4>1, <5>1 DEF Mapped
      <4>3. CASE c \notin Present(m)
        <5>1. ~Mapped(k, p) /\ ~Mapped(n, p)
          BY <2>10, <3>1, <4>1, <4>3 DEF Mapped, Present, PDE
        <5> QED
          BY <5>1
      <4> QED
        BY <4>2, <4>3
    <3> QED
      BY <3>2, <3>3
  <2>15. Kept(m, n, {})
    <3>1. \A p \in Pages : p \in UserPages(k) => p \in UserPages(n)
      BY <2>14 DEF UserPages
    <3>2. \A g \in m.marked : g \in DOMAIN n.tables <=> g \in DOMAIN m.tables
      BY <2>2, <2>5
    <3>3. /\ k \in Memories /\ k.cr3 = m.cr3 /\ k.boot = m.boot /\ k.stray = m.stray
          /\ m.marked \subseteq k.marked
          /\ \A g \in m.marked : k.content[g] = m.content[g]
          /\ \A p \in Pages :
                /\ Mapped(k, p) <=> Mapped(m, p)
                /\ Mapped(m, p) => PTE(k, p) = PTE(m, p)
                /\ p \in UserPages(m) => p \in UserPages(k)
      BY <2>2 DEF Kept
    <3> QED
      BY <2>5, <2>14, <3>1, <3>2, <3>3 DEF Kept
  <2>16. Apart(n, U, short)
    <3>1. \A D : PagesIn(n, D) = PagesIn(k, D) /\ \A p \in PagesIn(k, D) : PTE(n, p) = PTE(k, p)
      BY <2>14 DEF PagesIn
    <3>2. U \subseteq n.marked \ (Reserved \union DOMAIN n.tables)
      BY <2>2, <2>5, <2>9 DEF Apart
    <3>3. \A p \in PagesIn(n, HeapDirs) :
            PTE(n, p).frame \in {0} \union (n.marked \ (Reserved \union U \union DOMAIN n.tables))
      <4>1. \A p \in PagesIn(m, HeapDirs) : PTE(m, p).frame # f
        <5>1. \A p \in PagesIn(m, HeapDirs) : PTE(m, p).frame \in {0} \union m.marked
          BY <1>1 DEF Apart
        <5>2. 0 \in m.marked
          BY <1>1, LoaderAssumption DEF Placed
        <5> QED
          BY <2>2, <5>1, <5>2
      <4>2. \A p \in PagesIn(k, HeapDirs) : p \in PagesIn(m, HeapDirs) /\ PTE(k, p) = PTE(m, p)
        BY <2>2 DEF PagesIn, Kept
      <4> QED
        BY <2>5, <2>9, <3>1, <4>1, <4>2 DEF Apart
    <3> QED
      BY <2>9, <3>1, <3>2, <3>3 DEF Apart
  <2>17. Sound(n, U, short)
    BY <2>5, <2>9, <2>12, <2>13, <2>16 DEF Sound
  <2>18. w.m = n /\ w.ok = TRUE
    BY <2>1
  <2> HIDE DEF w
  <2> QED
    BY <2>8, <2>15, <2>17, <2>18 DEF w, HasTable
<1> QED
  BY <1>3, <1>4, <1>5

(* What may be mapped at a page: for the program a frame of its own that is   *)
(* mapped nowhere else, for the heap one of nobody's.                        *)
Allowed(m, U, short, p, f) ==
  /\ p \div TableSize \in OpenDirs \union HeapDirs
  /\ p \div TableSize \in OpenDirs =>
       /\ f \in U \/ (f = 0 /\ p = StackPage /\ short)
       /\ \A q \in PagesIn(m, OpenDirs) : q # p => PTE(m, q).frame # f
  /\ p \div TableSize \in HeapDirs =>
       f \in {0} \union (m.marked \ (Reserved \union U \union DOMAIN m.tables))

LEMMA SetEntrySound ==
  ASSUME NEW m, NEW U, NEW short, Sound(m, U, short), NEW p \in Pages, NEW e \in Entries, e.present,
         m.dir[p \div TableSize].present, Allowed(m, U, short, p, e.frame)
  PROVE  LET n == SetEntry(m, p, e)
         IN  /\ Sound(n, U, short) /\ Kept(m, n, {p})
             /\ Mapped(n, p) /\ PTE(n, p) = e /\ n.dir = m.dir /\ n.marked = m.marked
<1> DEFINE n == SetEntry(m, p, e)
           d == p \div TableSize
<1>1. m \in Memories /\ Placed(m) /\ Fixed(m) /\ Apart(m, U, short) /\ m.cr3 = "own"
  BY DEF Sound
<1>2. /\ n \in Memories
      /\ n.marked = m.marked /\ n.cr3 = m.cr3 /\ n.boot = m.boot
      /\ n.directory = m.directory /\ n.content = m.content /\ n.stray = m.stray
      /\ n.dir = m.dir /\ DOMAIN n.tables = DOMAIN m.tables
      /\ \A f \in DOMAIN m.tables : \A i \in 0 .. (TableSize - 1) :
           n.tables[f][i] = IF f = PDE(m, p).frame /\ i = p % TableSize THEN e ELSE m.tables[f][i]
      /\ \A f \in DOMAIN m.tables : f # PDE(m, p).frame => n.tables[f] = m.tables[f]
  BY <1>1, SetEntryFacts
<1> HIDE DEF n
<1>3. d \in 0 .. (Dirs - 1) /\ p % TableSize \in 0 .. (TableSize - 1) /\ d \in Present(m)
  BY PageNumbers DEF Present
<1>4. d \notin {0, KernelDir} /\ d \in OpenDirs \union HeapDirs
  BY LoaderAssumption, Constants DEF OpenDirs, Allowed
<1>5. ASSUME NEW q \in Pages, m.dir[q \div TableSize].present
      PROVE  PTE(n, q) = IF q = p THEN e ELSE PTE(m, q)
  <2> DEFINE c == q \div TableSize
  <2>1. c \in 0 .. (Dirs - 1) /\ q % TableSize \in 0 .. (TableSize - 1) /\ c \in Present(m)
    BY <1>5, PageNumbers DEF Present
  <2>2. m.dir[c].frame \in DOMAIN m.tables
    BY <1>1, <2>1 DEF Placed
  <2>3. PTE(n, q) = IF m.dir[c].frame = m.dir[d].frame /\ q % TableSize = p % TableSize THEN e ELSE PTE(m, q)
    BY <1>2, <2>1, <2>2 DEF PTE, PDE
  <2>4. m.dir[c].frame = m.dir[d].frame => c = d
    BY <1>1, <1>3, <2>1 DEF Placed
  <2>5. c = d /\ q % TableSize = p % TableSize => q = p
    BY PageIs
  <2> QED
    BY <2>3, <2>4, <2>5
<1>6. /\ \A q \in Pages : PDE(n, q) = PDE(m, q)
      /\ \A q \in Pages : q # p => (Mapped(n, q) <=> Mapped(m, q)) /\ (Mapped(m, q) => PTE(n, q) = PTE(m, q))
      /\ Mapped(n, p) /\ PTE(n, p) = e
  <2>1. \A q \in Pages : PDE(n, q) = PDE(m, q) /\ PDE(m, q) = m.dir[q \div TableSize]
    BY <1>2 DEF PDE
  <2>2. ASSUME NEW q \in Pages, q # p
        PROVE  (Mapped(n, q) <=> Mapped(m, q)) /\ (Mapped(m, q) => PTE(n, q) = PTE(m, q))
    <3>1. CASE PDE(m, q).present
      BY <1>5, <2>1, <2>2, <3>1 DEF Mapped
    <3>2. CASE ~PDE(m, q).present
      BY <2>1, <3>2 DEF Mapped
    <3> QED
      BY <3>1, <3>2
  <2>3. PTE(n, p) = e /\ PDE(n, p).present
    BY <1>5, <2>1
  <2> QED
    BY <2>1, <2>2, <2>3 DEF Mapped
<1>7. Kept(m, n, {p})
  BY <1>2, <1>6 DEF Kept, UserPages
<1>8. Placed(n)
  <2>1. Present(n) = Present(m)
    BY <1>2 DEF Present
  <2> QED
    BY <1>1, <1>2, <2>1 DEF Placed
<1>9. Fixed(n)
  <2>1. ASSUME NEW c \in {0, KernelDir}
        PROVE  c \in Present(m) /\ m.dir[c].frame \in DOMAIN m.tables /\ m.dir[c].frame # m.dir[d].frame
    <3>1. c \in Present(m)
      BY <1>1, <2>1, Constants DEF Fixed, Present
    <3> QED
      BY <1>1, <1>3, <1>4, <2>1, <3>1 DEF Placed
  <2>2. PDE(m, p) = m.dir[d]
    BY DEF PDE
  <2> QED
    BY <1>1, <1>2, <2>1, <2>2 DEF Fixed
<1>10. Apart(n, U, short)
  <2>1. \A D : \A q \in PagesIn(n, D) : q # p => q \in PagesIn(m, D) /\ PTE(n, q) = PTE(m, q)
    BY <1>6 DEF PagesIn
  <2>2. U \subseteq n.marked \ (Reserved \union DOMAIN n.tables)
    BY <1>1, <1>2 DEF Apart
  <2>3. ASSUME NEW q \in PagesIn(n, OpenDirs)
        PROVE  PTE(n, q).frame \in U \/ (PTE(n, q).frame = 0 /\ q = StackPage /\ short)
    <3>1. CASE q = p
      <4>1. p \div TableSize \in OpenDirs
        BY <3>1 DEF PagesIn
      <4> QED
        BY <1>6, <3>1, <4>1 DEF Allowed
    <3>2. CASE q # p
      BY <1>1, <2>1, <3>2 DEF Apart
    <3> QED
      BY <3>1, <3>2
  <2>4. ASSUME NEW q1 \in PagesIn(n, OpenDirs), NEW q2 \in PagesIn(n, OpenDirs), q1 # q2
        PROVE  PTE(n, q1).frame # PTE(n, q2).frame
    <3>1. ASSUME NEW q \in PagesIn(n, OpenDirs), q # p, p \in PagesIn(n, OpenDirs)
          PROVE  PTE(n, q).frame # PTE(n, p).frame
      <4>1. p \div TableSize \in OpenDirs
        BY <3>1 DEF PagesIn
      <4>2. q \in PagesIn(m, OpenDirs) /\ PTE(n, q) = PTE(m, q)
        BY <2>1, <3>1
      <4> QED
        BY <1>6, <3>1, <4>1, <4>2 DEF Allowed
    <3>2. CASE q1 # p /\ q2 # p
      BY <1>1, <2>1, <2>4, <3>2 DEF Apart
    <3> QED
      BY <2>4, <3>1, <3>2
  <2>5. ASSUME NEW q \in PagesIn(n, HeapDirs)
        PROVE  PTE(n, q).frame \in {0} \union (n.marked \ (Reserved \union U \union DOMAIN n.tables))
    <3>1. CASE q = p
      <4>1. p \div TableSize \in HeapDirs
        BY <3>1 DEF PagesIn
      <4> QED
        BY <1>2, <1>6, <3>1, <4>1 DEF Allowed
    <3>2. CASE q # p
      BY <1>1, <1>2, <2>1, <3>2 DEF Apart
    <3> QED
      BY <3>1, <3>2
  <2> QED
    BY <2>2, <2>3, <2>4, <2>5 DEF Apart
<1>11. Sound(n, U, short)
  BY <1>1, <1>2, <1>8, <1>9, <1>10 DEF Sound
<1> QED
  BY <1>2, <1>6, <1>7, <1>11 DEF n

(* What is allowed stays so while the other pages are kept. *)
LEMMA AllowedKept ==
  ASSUME NEW m, NEW n, NEW U, NEW short, NEW p \in Pages, NEW f,
         Sound(m, U, short), Kept(m, n, {}), Allowed(m, U, short, p, f)
  PROVE  Allowed(n, U, short, p, f)
<1>1. \A D : \A q \in PagesIn(n, D) : q \in PagesIn(m, D) /\ PTE(n, q) = PTE(m, q)
  BY DEF PagesIn, Kept
<1>2. ASSUME f \in m.marked \ (Reserved \union U \union DOMAIN m.tables)
      PROVE  f \in n.marked \ (Reserved \union U \union DOMAIN n.tables)
  BY <1>2 DEF Kept
<1> QED
  BY <1>1, <1>2 DEF Allowed

(* map_page and map_page_user. *)
HasPage(m, r, U, short, p, f, user) ==
  /\ r.ok \in BOOLEAN
  /\ r.ok = FALSE => r.m = m
  /\ PDE(m, p).present \/ Cardinality(m.marked) < Limit => r.ok = TRUE
  /\ r.ok = TRUE => /\ Sound(r.m, U, short) /\ Kept(m, r.m, {p})
                    /\ Mapped(r.m, p) /\ PTE(r.m, p).frame = f
                    /\ (user = TRUE => p \in UserPages(r.m))

LEMMA MapPageSound ==
  ASSUME NEW m, NEW U, NEW short, Sound(m, U, short), NEW p \in Pages, NEW f \in Frames,
         NEW user \in BOOLEAN, Allowed(m, U, short, p, f),
         user = TRUE => p \div TableSize \in OpenDirs
  PROVE  HasPage(m, MapPage(m, f, p, user), U, short, p, f, user)
<1> DEFINE d == p \div TableSize
           w == WithTable(m, d, user)
           was == PTE(w.m, p)
           e == Entry(was.user \/ user, was.write \/ user, f)
           n == SetEntry(w.m, p, e)
           r == MapPage(m, f, p, user)
<1>1. d \in 0 .. (Dirs - 1) /\ p % TableSize \in 0 .. (TableSize - 1) /\ d \in OpenDirs \union HeapDirs
  BY PageNumbers DEF Allowed
<1>2. /\ w.ok \in BOOLEAN
      /\ w.ok = FALSE => w.m = m
      /\ m.dir[d].present \/ Cardinality(m.marked) < Limit => w.ok = TRUE
      /\ w.ok = TRUE => /\ Sound(w.m, U, short) /\ Kept(m, w.m, {})
                        /\ w.m.dir[d].present /\ (user = TRUE => w.m.dir[d].user)
  <2>1. user = TRUE => d \in OpenDirs
    OBVIOUS
  <2> HIDE DEF d
  <2>2. HasTable(m, WithTable(m, d, user), U, short, d, user)
    BY <1>1, <2>1, WithTableSound
  <2> HIDE DEF w
  <2>3. HasTable(m, w, U, short, d, user)
    BY <2>2 DEF w
  <2> QED
    BY <2>3 DEF HasTable
<1>3. PDE(m, p) = m.dir[d]
  BY DEF PDE
<1>4. CASE w.ok = FALSE
  <2>1. r = w
    BY <1>4 DEF MapPage
  <2> HIDE DEF r, w
  <2> QED
    BY <1>2, <1>3, <1>4, <2>1 DEF r, HasPage
<1>5. CASE w.ok = TRUE
  <2>1. r = [m |-> n, ok |-> TRUE]
    BY <1>5 DEF MapPage
  <2>2. /\ Sound(w.m, U, short) /\ Kept(m, w.m, {})
        /\ w.m.dir[d].present /\ (user = TRUE => w.m.dir[d].user)
    BY <1>2, <1>5
  <2> DEFINE k == w.m
  <2> HIDE DEF w, k
  <2>3. was \in Entries /\ was = PTE(k, p)
    <3>1. k \in Memories /\ Placed(k) /\ d \in Present(k)
      BY <1>1, <2>2 DEF Sound, Present, k
    <3>2. k.dir[d].frame \in DOMAIN k.tables
      BY <3>1 DEF Placed
    <3>3. k.tables[k.dir[d].frame] \in TableType
      BY <3>1, <3>2, MemoryFields
    <3> QED
      BY <1>1, <3>3 DEF PTE, PDE, TableType, k
  <2> HIDE DEF was
  <2>4. (was.user \/ user) \in BOOLEAN /\ (was.write \/ user) \in BOOLEAN
    OBVIOUS
  <2>5. e \in Entries /\ e.present /\ e.frame = f /\ e.user = (was.user \/ user)
    BY <2>4, EntryIs
  <2> HIDE DEF e
  <2>6. Allowed(k, U, short, p, e.frame)
    BY <2>2, <2>5, AllowedKept DEF k
  <2>7. /\ Sound(n, U, short) /\ Kept(k, n, {p})
        /\ Mapped(n, p) /\ PTE(n, p) = e /\ n.dir = k.dir /\ n.marked = k.marked
    <3>1. n = SetEntry(k, p, e) /\ Sound(k, U, short) /\ k.dir[p \div TableSize].present
      BY <2>2 DEF k
    <3> HIDE DEF n
    <3> QED
      BY <2>5, <2>6, <3>1, SetEntrySound
  <2> HIDE DEF n
  <2>8. Kept(m, n, {p})
    BY <2>2, <2>7, KeptTwice, KeptMore DEF k
  <2>9. user = TRUE => p \in UserPages(n)
    <3>1. user = TRUE => PDE(n, p).user /\ PTE(n, p).user
      BY <2>2, <2>5, <2>7 DEF PDE, k
    <3> QED
      BY <2>7, <3>1 DEF UserPages
  <2>10. r.m = n /\ r.ok = TRUE
    BY <2>1
  <2> HIDE DEF r
  <2> QED
    BY <2>5, <2>7, <2>8, <2>9, <2>10 DEF r, HasPage
<1> QED
  BY <1>2, <1>4, <1>5

(* SET_ATTRIBUTE on the entry of a page that is mapped. *)
LEMMA SetWriteSound ==
  ASSUME NEW m, NEW U, NEW short, Sound(m, U, short), NEW p \in Pages, Mapped(m, p),
         Allowed(m, U, short, p, PTE(m, p).frame)
  PROVE  /\ Sound(SetWrite(m, p), U, short) /\ Kept(m, SetWrite(m, p), {p})
         /\ SetWrite(m, p).dir = m.dir
<1> DEFINE was == PTE(m, p)
           e == [was EXCEPT !.write = TRUE]
           n == SetEntry(m, p, e)
<1>1. m \in Memories /\ Placed(m) /\ m.dir[p \div TableSize].present
  BY DEF Sound, Mapped, PDE
<1>2. was \in Entries
  <2>1. p \div TableSize \in Present(m) /\ p % TableSize \in 0 .. (TableSize - 1)
    BY <1>1, PageNumbers DEF Present
  <2>2. m.dir[p \div TableSize].frame \in DOMAIN m.tables
    BY <1>1, <2>1 DEF Placed
  <2>3. m.tables[m.dir[p \div TableSize].frame] \in TableType
    BY <1>1, <2>2, MemoryFields
  <2> QED
    BY <2>1, <2>3 DEF PTE, PDE, TableType
<1>3. was.present
  BY DEF Mapped
<1> HIDE DEF was
<1>4. e \in Entries /\ e.present /\ e.frame = was.frame
  BY <1>2, <1>3 DEF Entries
<1> HIDE DEF e
<1>5. Allowed(m, U, short, p, e.frame)
  BY <1>4 DEF was
<1>6. Sound(n, U, short) /\ Kept(m, n, {p}) /\ n.dir = m.dir
  BY <1>1, <1>4, <1>5, SetEntrySound
<1>7. SetWrite(m, p) = n
  BY DEF SetWrite, e, was
<1> HIDE DEF n
<1> QED
  BY <1>6, <1>7
-----------------------------------------------------------------------------
(* The loop of malloc_init. *)

LEMMA LeastInNat ==
  ASSUME NEW S, S \subseteq Nat, NEW n \in S
  PROVE  \E m \in S : \A k \in Nat : k < m => k \notin S
<1>1. IsWellFoundedOn(OpToRel(<, Nat), Nat)
  BY NatLessThanWellFounded
<1>2. PICK m \in S : \A y \in S : ~ (<<y, m>> \in OpToRel(<, Nat))
  BY <1>1, WFMin
<1>3. ASSUME NEW k \in Nat, k < m PROVE k \notin S
  <2>1. <<k, m>> \in OpToRel(<, Nat)
    BY <1>3 DEF OpToRel
  <2> QED
    BY <1>2, <2>1
<1> QED
  BY <1>3

(* map is the memory after each of the first n rounds. *)
HeapRound(m, first, i) == SetWrite(MapPage(m, first + i - 1, HeapPage + i - 1, FALSE).m, HeapPage + i - 1)
HeapRounds(map, m, first, n) ==
  map = [i \in 0 .. n |-> IF i = 0 THEN m ELSE HeapRound(map[i - 1], first, i)]

LEMMA HeapRoundsExist ==
  ASSUME NEW m, NEW first, NEW n \in Nat
  PROVE  \E map : HeapRounds(map, m, first, n)
<1> DEFINE Missing == {k \in Nat : ~ \E map : HeapRounds(map, m, first, k)}
<1>1. SUFFICES ASSUME n \in Missing PROVE FALSE
  OBVIOUS
<1>2. PICK k \in Missing : \A j \in Nat : j < k => j \notin Missing
  BY <1>1, LeastInNat
<1>3. k # 0
  <2>1. SUFFICES ASSUME k = 0 PROVE FALSE
    OBVIOUS
  <2> DEFINE f == [i \in 0 .. 0 |-> m]
  <2>2. f = [i \in 0 .. 0 |-> IF i = 0 THEN m ELSE HeapRound(f[i - 1], first, i)]
    OBVIOUS
  <2> HIDE DEF f
  <2>3. HeapRounds(f, m, first, 0)
    BY <2>2 DEF HeapRounds
  <2> QED
    BY <1>2, <2>1, <2>3
<1>4. k \in Nat /\ k - 1 \in Nat /\ k - 1 < k
  BY <1>2, <1>3
<1>5. PICK f : HeapRounds(f, m, first, k - 1)
  BY <1>2, <1>4
<1> DEFINE g == [i \in 0 .. k |-> IF i < k THEN f[i] ELSE HeapRound(f[k - 1], first, k)]
           h == [i \in 0 .. k |-> IF i = 0 THEN m ELSE HeapRound(g[i - 1], first, i)]
<1>6. ASSUME NEW i \in 0 .. k PROVE g[i] = IF i = 0 THEN m ELSE HeapRound(g[i - 1], first, i)
  <2>1. CASE i = 0
    <3>1. g[i] = f[0] /\ 0 \in 0 .. (k - 1)
      BY <1>4, <2>1
    <3> HIDE DEF g
    <3>2. f[0] = m
      BY <1>5, <3>1 DEF HeapRounds
    <3> QED
      BY <2>1, <3>1, <3>2
  <2>2. CASE i # 0 /\ i < k
    <3>1. i \in 0 .. (k - 1) /\ i - 1 \in 0 .. k /\ i - 1 < k
      BY <1>4, <2>2
    <3>2. g[i] = f[i] /\ g[i - 1] = f[i - 1]
      BY <2>2, <3>1
    <3> HIDE DEF g
    <3>3. f[i] = HeapRound(f[i - 1], first, i)
      BY <1>5, <2>2, <3>1 DEF HeapRounds
    <3> QED
      BY <2>2, <3>2, <3>3
  <2>3. CASE i = k
    <3>1. k - 1 \in 0 .. k
      BY <1>4
    <3>2. g[i] = HeapRound(f[k - 1], first, k) /\ g[k - 1] = f[k - 1]
      BY <1>4, <2>3, <3>1
    <3> HIDE DEF g
    <3> QED
      BY <1>3, <2>3, <3>2
  <2> QED
    BY <1>4, <2>1, <2>2, <2>3
<1>7. g = h
  <2>1. h = [i \in 0 .. k |-> g[i]]
    <3> HIDE DEF g
    <3> QED BY <1>6
  <2> QED
    BY <2>1
<1>8. HeapRounds(g, m, first, k)
  <2> HIDE DEF g
  <2> QED BY <1>7 DEF HeapRounds
<1> QED
  BY <1>2, <1>8

LEMMA HeapMappedIs ==
  ASSUME NEW m, NEW first, NEW n \in Nat
  PROVE  \E map : HeapRounds(map, m, first, n) /\ HeapMapped(m, first, n) = map[n]
<1> DEFINE f == CHOOSE map : HeapRounds(map, m, first, n)
<1>1. HeapRounds(f, m, first, n)
  BY HeapRoundsExist
<1>2. HeapMapped(m, first, n) = f[n]
  BY DEF HeapMapped, HeapRounds, HeapRound
<1> QED
  BY <1>1, <1>2

LEMMA HeapPagesIn ==
  ASSUME NEW i \in 0 .. (MaxHeap - 1)
  PROVE  /\ HeapPage + i \in Pages /\ (HeapPage + i) \div TableSize \in HeapDirs
         /\ (HeapPage + i) \div TableSize \notin OpenDirs
         /\ i < HeapPages => (HeapPage + i) \div TableSize = HeapPage \div TableSize
<1>1. HeapPage \in Nat /\ HeapPage + MaxHeap <= Dirs * TableSize /\ Dirs * TableSize \in Nat
  BY LoaderAssumption, Constants
<1>2. HeapPage + i \in Pages
  BY <1>1, LoaderAssumption DEF Pages
<1>3. (HeapPage + i) \div TableSize \in HeapDirs
  BY DEF HeapDirs
<1>4. ASSUME i < HeapPages PROVE (HeapPage + i) \div TableSize = HeapPage \div TableSize
  <2> DEFINE q == HeapPage \div TableSize
             r == HeapPage % TableSize
  <2>1. q \in Nat /\ r \in 0 .. (TableSize - 1) /\ HeapPage = TableSize * q + r
    BY <1>1, Constants, DivMod
  <2>2. r + HeapPages <= TableSize /\ HeapPages \in Nat
    BY LoaderAssumption
  <2> HIDE DEF q, r
  <2>3. r + i \in 0 .. (TableSize - 1) /\ HeapPage + i = TableSize * q + (r + i)
    <3>1. TableSize * q \in Nat
      BY <2>1, Constants
    <3> QED
      BY <1>4, <2>1, <2>2, <3>1, Constants
  <2>4. (HeapPage + i) \div TableSize = q
    BY <2>1, <2>3, Constants, DivOf
  <2> QED
    BY <2>4 DEF q
<1> QED
  BY <1>2, <1>3, <1>4 DEF OpenDirs

(* The memory k after i rounds. *)
HeapReady(m, k, i) ==
  /\ Sound(k, {}, FALSE) /\ Kept(m, k, Pages)
  /\ IF i = 0 THEN k = m ELSE k.dir[HeapPage \div TableSize].present

LEMMA HeapMappedSound ==
  ASSUME NEW m, Sound(m, {}, FALSE), NEW first \in Frames, Cardinality(m.marked) < Limit,
         Run(first, HeapPages) \subseteq m.marked \ (Reserved \union DOMAIN m.tables)
  PROVE  /\ Sound(HeapMapped(m, first, HeapPages), {}, FALSE)
         /\ Kept(m, HeapMapped(m, first, HeapPages), Pages)
<1>1. HeapPages \in Nat \ {0} /\ MaxHeap \in Nat /\ HeapPages <= MaxHeap
  BY LoaderAssumption
<1>2. PICK map : HeapRounds(map, m, first, HeapPages) /\ HeapMapped(m, first, HeapPages) = map[HeapPages]
  BY <1>1, HeapMappedIs
<1> DEFINE D == HeapPage \div TableSize
           Bad == {i \in Nat : i <= HeapPages /\ ~HeapReady(m, map[i], i)}
<1>3. SUFFICES ASSUME HeapPages \in Bad PROVE FALSE
  <2>1. HeapReady(m, map[HeapPages], HeapPages)
    BY <1>1
  <2> QED
    BY <1>2, <2>1 DEF HeapReady
<1>4. PICK i \in Bad : \A j \in Nat : j < i => j \notin Bad
  <2> HIDE DEF Bad
  <2>1. Bad \subseteq Nat
    BY DEF Bad
  <2> QED
    BY <1>3, <2>1, LeastInNat
<1>5. Kept(m, m, Pages)
  BY DEF Kept, Sound
<1>6. i # 0
  <2>1. map[0] = m
    BY <1>1, <1>2 DEF HeapRounds
  <2>2. HeapReady(m, map[0], 0)
    BY <1>5, <2>1 DEF HeapReady
  <2> QED
    BY <1>4, <2>2
<1>7. i \in Nat /\ i <= HeapPages /\ i - 1 \in Nat /\ i - 1 < i /\ i - 1 <= HeapPages
  BY <1>1, <1>4, <1>6
<1> DEFINE k == map[i - 1]
           p == HeapPage + i - 1
           f == first + i - 1
           r == MapPage(k, f, p, FALSE)
<1>8. Sound(k, {}, FALSE) /\ Kept(m, k, Pages) /\ (i - 1 = 0 => k = m) /\ (i - 1 # 0 => k.dir[D].present)
  <2>1. HeapReady(m, k, i - 1)
    BY <1>4, <1>7
  <2> QED
    BY <2>1 DEF HeapReady
<1>9. map[i] = SetWrite(r.m, p)
  <2>1. i \in 0 .. HeapPages
    BY <1>1, <1>7
  <2>2. map[i] = HeapRound(map[i - 1], first, i)
    BY <1>2, <1>6, <2>1 DEF HeapRounds
  <2> QED
    BY <2>2 DEF HeapRound
<1> HIDE DEF k
<1>10. p \in Pages /\ p \div TableSize \in HeapDirs /\ p \div TableSize \notin OpenDirs /\ p \div TableSize = D
  <2>1. i - 1 \in 0 .. (MaxHeap - 1) /\ i - 1 < HeapPages /\ p = HeapPage + (i - 1)
    BY <1>1, <1>7, LoaderAssumption
  <2> QED
    BY <2>1, HeapPagesIn
<1>11. f \in Run(first, HeapPages) /\ f \in Frames
  <2>1. f \in Run(first, HeapPages)
    BY <1>1, <1>7, Constants DEF Run, Frames
  <2>2. m.marked \subseteq Frames
    BY MemoryFields DEF Sound
  <2> QED
    BY <2>1, <2>2
<1> HIDE DEF p, f, D
<1>12. f \in k.marked \ (Reserved \union DOMAIN k.tables)
  BY <1>8, <1>11 DEF Kept
<1>13. Allowed(k, {}, FALSE, p, f)
  BY <1>10, <1>12 DEF Allowed
<1>14. HasPage(k, r, {}, FALSE, p, f, FALSE)
  BY <1>8, <1>10, <1>11, <1>13, MapPageSound
<1> HIDE DEF r
<1>15. r.ok = TRUE
  <2>1. PDE(k, p).present \/ Cardinality(k.marked) < Limit
    BY <1>8, <1>10 DEF PDE
  <2> QED
    BY <1>14, <2>1 DEF HasPage
<1>16. Sound(r.m, {}, FALSE) /\ Kept(k, r.m, {p}) /\ Mapped(r.m, p) /\ PTE(r.m, p).frame = f
  BY <1>14, <1>15 DEF HasPage
<1>17. Allowed(r.m, {}, FALSE, p, f)
  <2>1. f \in r.m.marked \ (Reserved \union DOMAIN r.m.tables)
    BY <1>12, <1>16 DEF Kept
  <2> QED
    BY <1>10, <2>1 DEF Allowed
<1>18. /\ Sound(map[i], {}, FALSE) /\ Kept(r.m, map[i], {p}) /\ map[i].dir = r.m.dir
  <2> DEFINE n == r.m
  <2>1. Sound(n, {}, FALSE) /\ Mapped(n, p) /\ Allowed(n, {}, FALSE, p, PTE(n, p).frame)
    BY <1>16, <1>17
  <2> HIDE DEF n
  <2>2. /\ Sound(SetWrite(n, p), {}, FALSE) /\ Kept(n, SetWrite(n, p), {p})
        /\ SetWrite(n, p).dir = n.dir
    BY <1>10, <2>1, SetWriteSound
  <2> QED
    BY <1>9, <2>2 DEF n
<1>19. Kept(m, map[i], Pages)
  <2>1. {p} \subseteq Pages
    BY <1>10
  <2>2. Kept(k, r.m, Pages) /\ Kept(r.m, map[i], Pages)
    BY <1>16, <1>18, <2>1, KeptMore
  <2>3. Kept(m, r.m, Pages)
    BY <1>8, <2>2, KeptTwice
  <2> QED
    BY <2>2, <2>3, KeptTwice
<1>20. map[i].dir[D].present
  BY <1>10, <1>16, <1>18 DEF Mapped, PDE
<1>21. HeapReady(m, map[i], i)
  BY <1>6, <1>18, <1>19, <1>20 DEF HeapReady, D
<1> QED
  BY <1>4, <1>21
-----------------------------------------------------------------------------
(* init_task and setup_page_directory_table .. setup_page_table. *)

LEMMA OneMoreMarked ==
  ASSUME NEW M \in SUBSET Frames, NEW f \in Frames \ M
  PROVE  Cardinality(M \union {f}) = Cardinality(M) + 1 /\ Cardinality(M) \in Nat
<1>1. IsFiniteSet(M) /\ Cardinality(M) \in Nat
  BY MarkedFinite
<1> QED
  BY <1>1, FS_AddElement

LEMMA RunMarked ==
  ASSUME NEW M \in SUBSET Frames, NEW f \in Frames, NEW n \in Nat \ {0}
  PROVE  Cardinality(M \union Run(f, n)) <= Cardinality(M) + n
<1>1. IsFiniteSet(M) /\ Cardinality(M) \in Nat
  BY MarkedFinite
<1>2. IsFiniteSet(Run(f, n)) /\ Cardinality(Run(f, n)) = n
  <2>1. f \in Nat /\ f \in Int /\ f + n - 1 \in Int
    BY Constants DEF Frames
  <2>2. IsFiniteSet(f .. (f + n - 1)) /\ Cardinality(f .. (f + n - 1)) = IF f > f + n - 1 THEN 0 ELSE (f + n - 1) - f + 1
    BY <2>1, FS_Interval
  <2> QED
    BY <2>1, <2>2 DEF Run
<1> DEFINE S == Run(f, n)
<1> HIDE DEF S
<1>3. /\ Cardinality(M \union S) = Cardinality(M) + Cardinality(S) - Cardinality(M \intersect S)
      /\ IsFiniteSet(M \intersect S)
  BY <1>1, <1>2, FS_Union, FS_Intersection DEF S
<1>4. Cardinality(M \intersect S) \in Nat
  BY <1>3, FS_CardinalityType
<1> QED
  BY <1>1, <1>2, <1>3, <1>4 DEF S

(* The first heap gets a run of frames below the end of the identity mapping. *)
LEMMA RunBelow ==
  ASSUME NEW f \in Nat, NEW x \in Nat, NEW n \in Nat \ {0}, NEW t \in Nat,
         f <= x, Run(x, n) \subseteq 0 .. (t - 1)
  PROVE  Run(f, n) \subseteq 0 .. (t - 1)
<1>1. x + n - 1 \in Run(x, n)
  BY DEF Run
<1>2. x + n - 1 <= t - 1
  BY <1>1
<1> QED
  BY <1>2 DEF Run

LEMMA HeapRunSound ==
  ASSUME NEW m, Sound(m, {}, FALSE), HeapRuns(m) # {}, Cardinality(m.marked) <= Cardinality(Reserved) + 3
  PROVE  LET r == AllocateBlock(m, HeapPages)
         IN  /\ r.frame \in Frames /\ Sound(r.m, {}, FALSE) /\ Kept(m, r.m, {})
             /\ Run(r.frame, HeapPages) \subseteq r.m.marked \ (Reserved \union DOMAIN r.m.tables)
             /\ Cardinality(r.m.marked) < Limit
<1> DEFINE r == AllocateBlock(m, HeapPages)
           f == r.frame
           S == Run(f, HeapPages)
<1>1. /\ m \in Memories /\ 0 \in m.marked /\ m.cr3 = "own" /\ Fixed(m) /\ m.marked \in SUBSET Frames
      /\ HeapPages \in Nat \ {0}
  BY LoaderAssumption, MemoryFields DEF Sound, Placed
<1>2. Cardinality(m.marked) \in Nat /\ Cardinality(Reserved) \in Nat
  BY <1>1, MarkedFinite, LoaderAssumption
<1>3. PICK x \in Frames : Run(x, HeapPages) \subseteq (Frames \ m.marked) \intersect (0 .. (TableSize - 1))
  BY DEF HeapRuns
<1>4. ~ (Cardinality(m.marked) >= Limit) /\ FreeStarts(m, HeapPages) # {}
  <2>1. x \in FreeStarts(m, HeapPages)
    BY <1>3 DEF FreeStarts
  <2> QED
    BY <1>1, <1>2, <2>1, LoaderAssumption, Constants
<1>5. /\ f = 0 => r.m = m /\ (Cardinality(m.marked) >= Limit \/ FreeStarts(m, HeapPages) = {})
      /\ f # 0 =>
           /\ f \in Frames /\ S \subseteq Frames \ m.marked
           /\ ~ Cardinality(m.marked) >= Limit
           /\ \A g \in Frames : Run(g, HeapPages) \subseteq Frames \ m.marked => f <= g
           /\ r.m = Write([m EXCEPT !.marked = @ \union S], S, Wiped)
  BY <1>1, AllocateFacts
<1> HIDE DEF r
<1>6. /\ f \in Frames /\ S \subseteq Frames \ m.marked /\ f <= x
      /\ r.m = Write([m EXCEPT !.marked = @ \union S], S, Wiped)
  BY <1>3, <1>4, <1>5
<1> HIDE DEF f
<1>7. \A g \in S : g \in 0 .. (TableSize - 1)
  <2>1. x \in Nat /\ f \in Nat /\ f <= x /\ Run(x, HeapPages) \subseteq 0 .. (TableSize - 1)
    BY <1>3, <1>6 DEF Frames
  <2>2. TableSize \in Nat
    BY Constants
  <2>3. S \subseteq 0 .. (TableSize - 1)
    BY <1>1, <2>1, <2>2, RunBelow
  <2> HIDE DEF S
  <2> QED
    BY <2>3
<1>8. \A g \in S : Reach(m, g) = g
  BY <1>1, <1>7, ReachFixed
<1> DEFINE w == Write([m EXCEPT !.marked = @ \union S], S, Wiped)
<1>9. /\ w \in Memories
      /\ w.marked = m.marked \union S /\ w.cr3 = m.cr3 /\ w.boot = m.boot
      /\ w.directory = m.directory /\ w.dir = m.dir /\ w.tables = m.tables /\ w.stray = m.stray
      /\ w.content = [g \in Frames |-> IF g \in S THEN Wiped ELSE m.content[g]]
  <2>1. S \subseteq Frames
    BY <1>6
  <2> QED
    BY <1>1, <1>6, <1>8, <2>1, TakenFacts
<1>10. r.m = w
  BY <1>6
<1> HIDE DEF w, S
<1>11. S \in SUBSET (Frames \ m.marked) /\ \A g \in m.marked : w.content[g] = m.content[g]
  BY <1>1, <1>6, <1>9
<1>12. /\ Sound(w, {}, FALSE) /\ Kept(m, w, {})
       /\ S \intersect (Reserved \union {} \union DOMAIN w.tables) = {}
  <2>1. /\ w \in Memories
        /\ w.marked = m.marked \union S /\ w.cr3 = m.cr3 /\ w.boot = m.boot
        /\ w.stray = m.stray /\ w.dir = m.dir /\ w.tables = m.tables
    BY <1>9, Zenon
  <2> QED
    BY <1>11, <2>1, TakenSound, Zenon
<1>13. Cardinality(w.marked) < Limit
  <2>1. Cardinality(m.marked \union S) <= Cardinality(m.marked) + HeapPages
    BY <1>1, <1>6, RunMarked DEF S
  <2>2. Cardinality(m.marked \union S) \in Nat
    BY <1>1, <1>11, MarkedFinite
  <2> QED
    BY <1>1, <1>2, <1>9, <2>1, <2>2, LoaderAssumption, Constants
<1>14. S \subseteq w.marked \ (Reserved \union DOMAIN w.tables)
  BY <1>9, <1>12
<1> QED
  BY <1>6, <1>10, <1>12, <1>13, <1>14 DEF r, f, S

LEMMA InitTaskSound ==
  ASSUME NEW m, Sound(m, {}, FALSE), HeapRuns(m) # {}, Cardinality(m.marked) <= Cardinality(Reserved) + 3
  PROVE  LET r == AllocateBlock(m, HeapPages)
             n == HeapMapped(r.m, r.frame, HeapPages)
         IN  Sound(n, {}, FALSE) /\ Kept(m, n, Pages)
<1> DEFINE r == AllocateBlock(m, HeapPages)
           k == r.m
           f == r.frame
           n == HeapMapped(k, f, HeapPages)
<1>1. /\ f \in Frames /\ Sound(k, {}, FALSE) /\ Kept(m, k, {})
      /\ Run(f, HeapPages) \subseteq k.marked \ (Reserved \union DOMAIN k.tables)
      /\ Cardinality(k.marked) < Limit
  BY HeapRunSound
<1> HIDE DEF k, f
<1>2. Sound(n, {}, FALSE) /\ Kept(k, n, Pages)
  BY <1>1, HeapMappedSound
<1> HIDE DEF n
<1>3. Kept(m, n, Pages)
  BY <1>1, <1>2, KeptMore, KeptTwice
<1> QED
  BY <1>2, <1>3 DEF n, k, f
-----------------------------------------------------------------------------
(* INITIALIZE_VMEMORY, of stage 2 and of the kernel. *)

(* k is m with the lowest free frame f taken and wiped, and nothing else. *)
Untouched(m, k, f) ==
  /\ k \in Memories /\ f \in Frames \ m.marked /\ \A g \in Frames \ m.marked : f <= g
  /\ k.marked = m.marked \union {f} /\ k.cr3 = m.cr3 /\ k.boot = m.boot /\ k.stray = m.stray
  /\ k.content = [g \in Frames |-> IF g = f THEN Wiped ELSE m.content[g]]

(* The frames up to z, which is free, are where m's paging says. *)
Straight(m, z) ==
  /\ m \in Memories /\ 0 \in m.marked /\ m.cr3 # "own" /\ z \in Frames \ m.marked
  /\ \A f \in 0 .. z : Reach(m, f) = f
  /\ Cardinality(m.marked) < Limit

LEMMA ReachSame ==
  ASSUME NEW m \in Memories, m.cr3 # "own", NEW k, k.cr3 = m.cr3, k.boot = m.boot
  PROVE  \A g : Reach(k, g) = Reach(m, g)
<1>1. m.cr3 = "off" \/ m.cr3 = "boot"
  BY MemoryFields DEF Modes
<1> QED
  BY <1>1 DEF Reach

LEMMA TakeLowest ==
  ASSUME NEW m, NEW z, Straight(m, z)
  PROVE  LET r == AllocateBlock(m, 1)
         IN  /\ Untouched(m, r.m, r.frame)
             /\ r.m.directory = m.directory /\ r.m.dir = m.dir /\ r.m.tables = m.tables
<1> DEFINE r == AllocateBlock(m, 1)
           f == r.frame
<1>1. m \in Memories /\ 0 \in m.marked /\ z \in Frames \ m.marked /\ Cardinality(m.marked) < Limit
  BY DEF Straight
<1>2. /\ f # 0
      /\ f \in Frames \ m.marked
      /\ \A g \in Frames : g \notin m.marked => f <= g
  BY <1>1, OneFrame
<1>3. Reach(m, f) = f
  <2> HIDE DEF f
  <2>1. f <= z /\ f \in 0 .. z
    BY <1>1, <1>2, Constants DEF Frames
  <2> QED
    BY <2>1 DEF Straight
<1>4. /\ r.m \in Memories
      /\ r.m.marked = m.marked \union {r.frame} /\ r.m.cr3 = m.cr3 /\ r.m.boot = m.boot
      /\ r.m.directory = m.directory /\ r.m.dir = m.dir /\ r.m.tables = m.tables
      /\ r.m.stray = m.stray
      /\ r.m.content = [g \in Frames |-> IF g = r.frame THEN Wiped ELSE m.content[g]]
  BY <1>1, <1>2, <1>3, OneFrame
<1> HIDE DEF r
<1> QED
  BY <1>2, <1>4 DEF Untouched, r

(* As long as a frame further up is free, the next one can be taken. *)
LEMMA StillStraight ==
  ASSUME NEW m, NEW x, Straight(m, x), NEW k, NEW f, Untouched(m, k, f),
         NEW z \in Frames \ m.marked, x < z, \A g \in 0 .. z : Reach(m, g) = g,
         Cardinality(m.marked) + 1 < Limit
  PROVE  Straight(k, z)
<1>1. /\ k \in Memories /\ f \in Frames \ m.marked /\ f <= x
      /\ k.marked = m.marked \union {f} /\ k.cr3 = m.cr3 /\ k.boot = m.boot
  BY DEF Untouched, Straight
<1>2. m.marked \in SUBSET Frames /\ 0 \in m.marked /\ m.cr3 # "own" /\ x \in Frames
  BY MemoryFields DEF Straight
<1>3. Cardinality(k.marked) < Limit
  BY <1>1, <1>2, OneMoreMarked
<1>4. z \in Frames \ k.marked
  BY <1>1, <1>2, Constants DEF Frames
<1>5. \A g \in 0 .. z : Reach(k, g) = g
  <2>1. m \in Memories
    BY DEF Straight
  <2> QED
    BY <1>1, <1>2, <2>1, ReachSame
<1> QED
  BY <1>1, <1>2, <1>3, <1>4, <1>5 DEF Straight

LEMMA WholeTableIs ==
  ASSUME NEW first \in {0, KernelFrame}
  PROVE  WholeTable(first) \in TableType
<1>1. ASSUME NEW i \in 0 .. (TableSize - 1)
      PROVE  Entry(FALSE, TRUE, first + i) \in Entries
  <2>1. first + i \in Frames \union {KernelFrame + j : j \in 0 .. (TableSize - 1)}
    <3>1. CASE first = KernelFrame
      BY <3>1
    <3>2. CASE first = 0
      <4>1. CASE i \in Frames
        BY <3>2, <4>1, Constants
      <4>2. CASE i \notin Frames
        <5>1. KernelFrame < Memory /\ i \in Nat /\ i >= Memory
          BY <4>2, HandoverAssumption, Constants DEF Frames
        <5>2. i - KernelFrame \in 0 .. (TableSize - 1) /\ i = KernelFrame + (i - KernelFrame)
          BY <5>1, Constants
        <5> QED
          BY <3>2, <5>2, Constants
      <4> QED
        BY <4>1, <4>2
    <3> QED
      BY <3>1, <3>2
  <2> QED
    BY <2>1 DEF Entry, Entries
<1> QED
  BY <1>1 DEF WholeTable, TableType

(* setup_higher_half_kernel and setup_page_table. *)
Mapping(m, k, f, d, first) ==
  /\ Untouched(m, k, f) /\ k.directory = m.directory
  /\ k.dir[d] = Entry(FALSE, TRUE, f)
  /\ \A c \in 0 .. (Dirs - 1) : c # d => k.dir[c] = m.dir[c]
  /\ DOMAIN k.tables = DOMAIN m.tables \union {f}
  /\ k.tables[f] = WholeTable(first)
  /\ \A g \in DOMAIN m.tables : g # f => k.tables[g] = m.tables[g]

LEMMA MapWholeFacts ==
  ASSUME NEW m, NEW z, Straight(m, z), NEW d \in 0 .. (Dirs - 1), NEW first \in {0, KernelFrame}
  PROVE  \E f : Mapping(m, MapWhole(m, d, first), f, d, first)
<1> DEFINE r == AllocateBlock(m, 1)
           k == r.m
           f == r.frame
           t == WholeTable(first)
           n == NewTable(k, d, FALSE, f, t)
<1>1. /\ Untouched(m, k, f)
      /\ k.directory = m.directory /\ k.dir = m.dir /\ k.tables = m.tables
  BY TakeLowest
<1>2. MapWhole(m, d, first) = n
  BY DEF MapWhole
<1> HIDE DEF r, k, f, t
<1>3. k \in Memories /\ f \in Frames /\ t \in TableType
  BY <1>1, WholeTableIs DEF Untouched, t
<1>4. NewIn(k, n, d, Entry(FALSE, TRUE, f), f, t)
  BY <1>3, NewTableIn
<1> HIDE DEF n
<1>5. Untouched(m, n, f)
  BY <1>1, <1>4 DEF NewIn, Untouched
<1>6. Mapping(m, n, f, d, first)
  BY <1>1, <1>4, <1>5 DEF NewIn, Mapping, t
<1> QED
  BY <1>2, <1>6

(* n is m with a directory and the two tables in a, b and c. *)
Built(m, n, a, b, c) ==
  /\ n \in Memories
  /\ n.marked = m.marked \union {a, b, c} /\ n.cr3 = m.cr3 /\ n.boot = m.boot /\ n.stray = m.stray
  /\ \A g \in Frames : n.content[g] = IF g \in {a, b, c} THEN Wiped ELSE m.content[g]
  /\ n.directory = a /\ n.dir = BuiltDir(b, c)
  /\ DOMAIN n.tables = {b, c}
  /\ n.tables[b] = WholeTable(KernelFrame) /\ n.tables[c] = WholeTable(0)

LEMMA BuildFacts ==
  ASSUME NEW m \in Memories, 0 \in m.marked, NoOwnTables(m), m.cr3 # "own",
         NEW x \in Frames \ m.marked, NEW y \in Frames \ m.marked, NEW z \in Frames \ m.marked,
         x < y, y < z, \A f \in 0 .. z : Reach(m, f) = f,
         Cardinality(m.marked) + 2 < Limit
  PROVE  \E a, b, c \in Frames \ m.marked :
           /\ a < b /\ b < c /\ c <= z
           /\ \A g \in Frames \ m.marked : g \in {a, b} \/ c <= g
           /\ Built(m, BuildMappings(m), a, b, c)
<1>1. m.marked \in SUBSET Frames /\ x \in Nat /\ y \in Nat /\ z \in Nat /\ Cardinality(m.marked) \in Nat
  BY MemoryFields, MarkedFinite, Constants DEF Frames
<1>2. Straight(m, x)
  BY <1>1, Constants DEF Straight
<1> DEFINE r == AllocateBlock(m, 1)
           m1 == r.m
           a == r.frame
           m2 == [m1 EXCEPT !.directory = a]
           m3 == MapWhole(m2, KernelDir, KernelFrame)
           n == MapWhole(m3, 0, 0)
<1>3. /\ Untouched(m, m1, a)
      /\ m1.dir = m.dir /\ m1.tables = m.tables
  BY <1>2, TakeLowest
<1>4. BuildMappings(m) = n
  BY DEF BuildMappings
<1> HIDE DEF r, m1, a, m3, n
<1>5. Untouched(m, m2, a) /\ m2.directory = a /\ m2.dir = m.dir /\ m2.tables = m.tables
  <2>1. /\ m2.marked = m1.marked /\ m2.cr3 = m1.cr3 /\ m2.boot = m1.boot /\ m2.stray = m1.stray
        /\ m2.content = m1.content /\ m2.dir = m1.dir /\ m2.tables = m1.tables /\ m2.directory = a
    BY <1>3 DEF Untouched, Memories
  <2>2. m2 \in Memories
    BY <1>3 DEF Untouched, Memories
  <2> HIDE DEF m2
  <2> QED
    BY <1>3, <2>1, <2>2 DEF Untouched
<1> HIDE DEF m2
<1>6. a \in Frames \ m.marked /\ a <= x /\ a \in Nat /\ \A g \in Frames \ m.marked : a <= g
  BY <1>5, Constants DEF Untouched, Frames
<1>7. Straight(m2, y)
  <2>1. \A g \in 0 .. y : Reach(m, g) = g
    BY <1>1
  <2>2. Cardinality(m.marked) + 1 < Limit
    BY <1>1, Constants
  <2> QED
    BY <1>2, <1>5, <2>1, <2>2, StillStraight
<1>8. 0 \in 0 .. (Dirs - 1) /\ KernelDir \in 0 .. (Dirs - 1) /\ KernelDir # 0
  BY Constants
<1>9. PICK b : Mapping(m2, m3, b, KernelDir, KernelFrame)
  BY <1>7, <1>8, MapWholeFacts DEF m3
<1>10. m2.marked = m.marked \union {a} /\ m2.cr3 = m.cr3 /\ m2.boot = m.boot /\ m2 \in Memories
  BY <1>5 DEF Untouched
<1>11. Untouched(m2, m3, b)
  BY <1>9 DEF Mapping
<1>12. b \in Frames \ m.marked /\ a < b /\ b <= y /\ b \in Nat /\ \A g \in Frames \ m2.marked : b <= g
  <2>1. b \in Frames \ m2.marked /\ \A g \in Frames \ m2.marked : b <= g
    BY <1>11 DEF Untouched
  <2>2. b \in Frames \ m.marked /\ b # a
    BY <1>10, <2>1
  <2>3. y \in Frames \ m2.marked
    BY <1>1, <1>6, <1>10
  <2>4. a <= b /\ b <= y
    BY <1>6, <2>1, <2>2, <2>3
  <2> QED
    BY <1>6, <2>1, <2>2, <2>4, Constants DEF Frames
<1>13. Straight(m3, z)
  <2>1. \A g \in 0 .. z : Reach(m2, g) = g
    BY <1>10, ReachSame
  <2>2. Cardinality(m2.marked) + 1 < Limit
    BY <1>1, <1>6, <1>10, OneMoreMarked, Constants
  <2>3. z \in Frames \ m2.marked
    BY <1>1, <1>6, <1>10
  <2> QED
    BY <1>7, <1>11, <2>1, <2>2, <2>3, StillStraight
<1>14. PICK c : Mapping(m3, n, c, 0, 0)
  BY <1>8, <1>13, MapWholeFacts DEF n
<1>15. Untouched(m3, n, c)
  BY <1>14 DEF Mapping
<1>16. m3.marked = m.marked \union {a, b} /\ m3.cr3 = m.cr3 /\ m3.boot = m.boot /\ m3.stray = m2.stray /\ m3 \in Memories
  BY <1>10, <1>11 DEF Untouched
<1>17. c \in Frames \ m.marked /\ b < c /\ c <= z /\ c \in Nat
  <2>1. c \in Frames \ m3.marked /\ \A g \in Frames \ m3.marked : c <= g
    BY <1>15 DEF Untouched
  <2>2. c \in Frames \ m.marked /\ c # a /\ c # b
    BY <1>16, <2>1
  <2>3. z \in Frames \ m3.marked
    BY <1>1, <1>6, <1>12, <1>16
  <2>4. c \in Frames \ m2.marked
    BY <1>10, <2>2
  <2>5. b <= c /\ c <= z
    BY <1>12, <2>1, <2>3, <2>4
  <2> QED
    BY <1>12, <2>1, <2>2, <2>5, Constants DEF Frames
<1>18. /\ n \in Memories
       /\ n.marked = m.marked \union {a, b, c} /\ n.cr3 = m.cr3 /\ n.boot = m.boot /\ n.stray = m.stray
       /\ n.directory = a
  <2>1. m2.stray = m.stray
    BY <1>5 DEF Untouched
  <2>2. n \in Memories /\ n.marked = m3.marked \union {c} /\ n.cr3 = m3.cr3 /\ n.boot = m3.boot /\ n.stray = m3.stray
    BY <1>15 DEF Untouched
  <2>3. n.directory = m3.directory /\ m3.directory = m2.directory
    BY <1>9, <1>14 DEF Mapping
  <2> QED
    BY <1>5, <1>16, <2>1, <2>2, <2>3
<1>19. ASSUME NEW g \in Frames
       PROVE  n.content[g] = IF g \in {a, b, c} THEN Wiped ELSE m.content[g]
  <2>1. m2.content[g] = IF g = a THEN Wiped ELSE m.content[g]
    BY <1>5 DEF Untouched
  <2>2. m3.content[g] = IF g = b THEN Wiped ELSE m2.content[g]
    BY <1>11 DEF Untouched
  <2>3. n.content[g] = IF g = c THEN Wiped ELSE m3.content[g]
    BY <1>15 DEF Untouched
  <2> QED
    BY <2>1, <2>2, <2>3
<1>20. n.dir = BuiltDir(b, c)
  <2>1. \A d \in 0 .. (Dirs - 1) : m2.dir[d] = NoEntry
    BY <1>5 DEF NoOwnTables, NoTables
  <2>2. n.dir \in DirType
    BY <1>18, MemoryFields
  <2>3. ASSUME NEW d \in 0 .. (Dirs - 1)
        PROVE  n.dir[d] = IF d = KernelDir THEN Entry(FALSE, TRUE, b)
                          ELSE IF d = 0 THEN Entry(FALSE, TRUE, c) ELSE NoEntry
    BY <1>8, <1>9, <1>14, <2>1 DEF Mapping
  <2> QED
    BY <2>2, <2>3 DEF DirType, BuiltDir
<1>21. /\ DOMAIN n.tables = {b, c}
       /\ n.tables[b] = WholeTable(KernelFrame) /\ n.tables[c] = WholeTable(0)
  <2>1. DOMAIN m2.tables = {}
    BY <1>5 DEF NoOwnTables, NoTables
  <2>2. DOMAIN m3.tables = {b} /\ m3.tables[b] = WholeTable(KernelFrame)
    BY <1>9, <2>1 DEF Mapping
  <2>3. b # c
    BY <1>12, <1>17
  <2> QED
    BY <1>14, <2>2, <2>3 DEF Mapping
<1>22. Built(m, n, a, b, c)
  BY <1>18, <1>19, <1>20, <1>21 DEF Built
<1>23. \A g \in Frames \ m.marked : g \in {a, b} \/ c <= g
  BY <1>15, <1>16 DEF Untouched
<1> QED
  BY <1>4, <1>6, <1>12, <1>17, <1>22, <1>23
-----------------------------------------------------------------------------
(* Where things lie in memory. *)

LEMMA DivMonotone ==
  ASSUME NEW a \in Nat, NEW b \in Nat, a <= b, NEW n \in Nat \ {0}
  PROVE  a \div n <= b \div n
<1> DEFINE q == b \div n
<1>1. q \in Nat /\ b = n * q + (b % n) /\ b % n \in 0 .. (n - 1)
  BY DivMod
<1>2. a \div n \in Nat
  BY DivMod
<1> HIDE DEF q
<1>3. b < (q + 1) * n
  <2>1. (q + 1) * n = n * q + n /\ n * q \in Nat
    BY <1>1
  <2> QED
    BY <1>1, <2>1
<1>4. a \div n < q + 1
  <2>1. a < (q + 1) * n /\ q + 1 \in Nat
    <3>1. (q + 1) * n \in Nat
      BY <1>1
    <3> QED
      BY <1>1, <1>3, <3>1
  <2> QED
    BY <2>1, DivBelow
<1> DEFINE p == a \div n
<1>5. p < q + 1 /\ p \in Nat
  BY <1>2, <1>4
<1> HIDE DEF p
<1>6. p <= q
  BY <1>1, <1>5
<1> QED
  BY <1>6 DEF p, q

LEMMA LowestRegion == Region(0, StageStart) = {0}
<1>1. StageStart \in 1 .. (Units - 1) /\ Units \in Nat \ {0}
  BY HandoverAssumption, Constants
<1>2. Units * 1 + (StageStart - 1) = StageStart + Units - 1 /\ StageStart - 1 \in 0 .. (Units - 1)
  BY <1>1
<1>3. PagesOf(StageStart) = 1
  BY <1>1, <1>2, DivOf DEF PagesOf
<1>4. 0 \div Units = 0
  <2>1. Units * 0 + 0 = 0 /\ 0 \in 0 .. (Units - 1)
    BY <1>1
  <2> QED
    BY <1>1, <2>1, DivOf
<1> QED
  BY <1>3, <1>4 DEF Region, Run

(* The layout of memdefs.h, as far as the image of stage 2 goes. *)
LEMMA Places ==
  ASSUME NEW e \in StageEnds
  PROVE  /\ PagesOf(e) \in Nat /\ PagesOf(e) < StackFrame
         /\ \A f \in ImageTo(e) : f \in Nat /\ f < PagesOf(e)
         /\ \A f \in ImageTo(e) : \A g \in Nat : g <= f => g \in ImageTo(e)
         /\ ImageTo(e) \subseteq StageMarked(e) /\ 0 \in StageMarked(e)
         /\ StageMarked(e) \subseteq Frames /\ PagesOf(e) \in StageMarked(e)
<1>1. e \in Nat /\ e > StageStart /\ StageStart \in 1 .. (Units - 1) /\ Units \in Nat \ {0} /\ PagesOf(e) < StackFrame
  BY HandoverAssumption, Constants
<1>2. PagesOf(e) \in Nat
  <2>1. e + Units - 1 \in Nat
    BY <1>1
  <2> QED
    BY <1>1, <2>1, DivMod DEF PagesOf
<1>3. PagesOf(e - StageStart) \in Nat /\ PagesOf(e - StageStart) <= PagesOf(e)
  <2>1. (e - StageStart) + Units - 1 \in Nat /\ e + Units - 1 \in Nat /\ (e - StageStart) + Units - 1 <= e + Units - 1
    BY <1>1
  <2> QED
    BY <1>1, <2>1, DivMod, DivMonotone DEF PagesOf
<1>4. StageStart \div Units = 0
  <2>1. Units * 0 + StageStart = StageStart /\ StageStart \in 0 .. (Units - 1)
    BY <1>1
  <2> QED
    BY <1>1, <2>1, DivOf
<1>5. ImageTo(e) = 0 .. (PagesOf(e - StageStart) - 1)
  BY <1>3, <1>4 DEF ImageTo, Region, Run
<1>6. /\ \A f \in ImageTo(e) : f \in Nat /\ f < PagesOf(e)
      /\ \A f \in ImageTo(e) : \A g \in Nat : g <= f => g \in ImageTo(e)
  BY <1>2, <1>3, <1>5
<1>7. StackFrame < Memory /\ StackFrame \in Nat
  BY HandoverAssumption, Constants DEF Frames
<1>8. BootFrame \in Frames /\ PagesOf(e) \in Frames /\ ImageTo(e) \subseteq Frames /\ 0 \in Frames
  BY <1>1, <1>2, <1>6, <1>7, HandoverAssumption, Constants DEF Frames
<1> QED
  BY <1>1, <1>2, <1>6, <1>8, LowestRegion DEF StageMarked

(* ... and the rest of it. *)
LEMMA MorePlaces ==
  /\ StackFrame \in Frames /\ StackFrame < KernelFrame
  /\ \A f \in ModuleBuffer : f \in Frames /\ StackFrame < f /\ f < KernelFrame
  /\ \A f \in Run(KernelFrame, KernelPages) : f \in Frames /\ KernelFrame <= f /\ f < KernelFrame + KernelPages
  /\ KernelFrame + KernelPages \in Frames
  BY HandoverAssumption, Constants DEF Frames, ModuleBuffer, Run

LEMMA StageMemories ==
  /\ Original \in ContentType /\ Wiped \in [0 .. (Units - 1) -> Bytes]
  /\ NoTables \in BootType /\ NoTables.dir \in DirType /\ NoTables.tables \in SomeTables
  /\ NoTables.directory = None
<1>1. ASSUME NEW f \in Frames, NEW u \in 0 .. (Units - 1)
      PROVE  f * Units + u \in Bytes
  <2>1. PICK r \in Nat : Memory = f + 1 + r
    <3>1. Memory - (f + 1) \in Nat /\ Memory = f + 1 + (Memory - (f + 1))
      BY Constants DEF Frames
    <3> QED
      BY <3>1
  <2>2. f \in Nat /\ Units \in Nat \ {0}
    BY Constants DEF Frames
  <2>3. /\ Memory * Units = f * Units + Units + r * Units
        /\ f * Units \in Nat /\ r * Units \in Nat
    BY <2>1, <2>2
  <2> QED
    BY <2>2, <2>3 DEF Bytes
<1>2. Original \in ContentType
  BY <1>1 DEF Original, ContentType
<1>3. Wiped \in [0 .. (Units - 1) -> Bytes]
  BY DEF Wiped, Bytes
<1>4. NoEntry \in Entries
  BY Constants DEF NoEntry, Entries, Frames
<1>5. NoTables.dir \in DirType
  BY <1>4 DEF NoTables, DirType
<1>6. NoTables.tables \in SomeTables
  <2>1. NoTables.tables \in [{} -> TableType]
    BY DEF NoTables
  <2> QED
    BY <2>1 DEF SomeTables
<1> QED
  BY <1>2, <1>3, <1>5, <1>6 DEF NoTables, BootType

LEMMA ZeroedFacts ==
  ASSUME NEW m \in Memories, NEW f \in Frames, NEW M \in SUBSET Frames
  PROVE  LET n == [Zeroed(m, f) EXCEPT !.marked = M]
         IN  /\ n \in Memories /\ n.marked = M /\ n.cr3 = m.cr3 /\ n.boot = m.boot
             /\ n.directory = m.directory /\ n.dir = m.dir /\ n.tables = m.tables /\ n.stray = m.stray
             /\ \A g \in Frames : n.content[g] = IF g = f THEN Wiped ELSE m.content[g]
<1> DEFINE n == [Zeroed(m, f) EXCEPT !.marked = M]
<1>1. /\ n.marked = M /\ n.cr3 = m.cr3 /\ n.boot = m.boot
      /\ n.directory = m.directory /\ n.dir = m.dir /\ n.tables = m.tables /\ n.stray = m.stray
      /\ n.content = [m.content EXCEPT ![f] = Wiped]
  BY DEF Memories, Zeroed
<1>2. m.content \in ContentType
  BY MemoryFields
<1>3. n.content \in ContentType
  BY <1>1, <1>2, StageMemories DEF ContentType
<1>4. n \in Memories
  BY <1>3 DEF Memories, Zeroed
<1> HIDE DEF n
<1>5. \A g \in Frames : n.content[g] = IF g = f THEN Wiped ELSE m.content[g]
  BY <1>1, <1>2 DEF ContentType
<1> QED
  BY <1>1, <1>4, <1>5 DEF n
-----------------------------------------------------------------------------
(* The invariant holds at first and through stage 2. *)

LEMMA ImageFacts ==
  ASSUME image \in Images
  PROVE  Len(image.segs) \in Nat /\ image.segs \in Seq(Segments) /\ DOMAIN image.segs = 1 .. Len(image.segs)
  BY ImagesAssumption, LenProperties

LEMMA InitInv == Init => Inv
<1> SUFFICES ASSUME Init PROVE Inv
  OBVIOUS
<1>0. /\ pc = "stage 2 frames" /\ layout \in [end : StageEnds, params : ParamsAt] /\ image \in Images
      /\ seg = 1 /\ page = 0 /\ heap = 0 /\ userFrames = {} /\ lost = {}
      /\ mem = [marked |-> {}, cr3 |-> "off", boot |-> NoTables, directory |-> None, dir |-> NoTables.dir,
                tables |-> NoTables.tables, content |-> Original, stray |-> {}]
  BY DEF Init, HandoverInit
<1>1. mem \in Memories
  BY <1>0, StageMemories DEF Memories, Modes
<1>2. Shape
  <2>1. Len(image.segs) \in Nat
    BY <1>0, ImageFacts
  <2>2. 1 \in 1 .. (Len(image.segs) + 1)
    BY <2>1
  <2>3. mem.stray = {}
    BY <1>0
  <2> QED
    BY <1>0, <1>1, <2>2, <2>3 DEF Shape, Steps, LayoutOK, Late, StageSteps, EntrySteps
<1>3. \A f \in Frames : mem.content[f] = Original[f]
  BY <1>0
<1>4. Stage2Inv
  <2>1. StackFrame \in Frames /\ Run(KernelFrame, KernelPages) \subseteq Frames
    BY MorePlaces
  <2>2. StageImage \subseteq Frames
    <3>1. layout.end \in StageEnds
      BY <1>0
    <3> QED
      BY <3>1, Places DEF StageImage
  <2>3. mem.marked = {} /\ mem.cr3 = "off" /\ NoOwnTables(mem)
    BY <1>0, StageMemories DEF NoOwnTables
  <2>4. pc = "stage 2 frames"
    BY <1>0
  <2> QED
    BY <1>3, <2>1, <2>2, <2>3, <2>4 DEF Stage2Inv
<1>5. ModuleInv
  BY <1>0, <1>3, MorePlaces DEF ModuleInv
<1> QED
  BY <1>0, <1>2, <1>4, <1>5 DEF Inv, EntryInv, RoomInv, LateInv, LoadedInv, EntrySteps, Late

(* What a step of stage 2, or the entry into the kernel, keeps of Shape. *)
LEMMA EarlyShape ==
  ASSUME Shape, pc \in StageSteps \union EntrySteps, pc' \in StageSteps \union EntrySteps,
         mem' \in Memories, mem'.stray = mem.stray,
         UNCHANGED <<layout, image, seg, page, heap, userFrames, lost>>
  PROVE  Shape'
  BY DEF Shape, LayoutOK, Steps, StageSteps, EntrySteps, Late

LEMMA Stage2FramesInv ==
  ASSUME Inv, Stage2Frames, UNCHANGED <<image, seg, page, heap, userFrames, lost>>
  PROVE  Inv'
<1>1. /\ pc = "stage 2 frames" /\ pc' = "stage 2 tables" /\ UNCHANGED layout
      /\ mem' = [Zeroed(mem, PagesOf(layout.end)) EXCEPT !.marked = StageMarked(layout.end)]
  BY DEF Stage2Frames
<1>2. /\ Shape /\ mem \in Memories /\ layout.end \in StageEnds /\ mem.cr3 = "off" /\ NoOwnTables(mem)
      /\ \A f \in (StageImage \ {0}) \union {StackFrame} \union Run(KernelFrame, KernelPages) :
           mem.content[f] = Original[f]
      /\ \A f \in ModuleBuffer : mem.content[f] = Original[f]
      /\ lost = {}
  BY <1>1 DEF Inv, Shape, LayoutOK, Stage2Inv, ModuleInv, StageSteps, Late
<1> DEFINE e == layout.end
           b == PagesOf(e)
<1>3. b \in Frames /\ b \in Nat /\ b < StackFrame /\ StageMarked(e) \in SUBSET Frames
      /\ \A f \in StageImage : f \in Frames /\ f < b
  BY <1>2, Places DEF StageImage
<1>4. /\ mem' \in Memories /\ mem'.marked = StageMarked(e) /\ mem'.cr3 = mem.cr3 /\ mem'.boot = mem.boot
      /\ mem'.directory = mem.directory /\ mem'.dir = mem.dir /\ mem'.tables = mem.tables /\ mem'.stray = mem.stray
      /\ \A g \in Frames : mem'.content[g] = IF g = b THEN Wiped ELSE mem.content[g]
  <2> DEFINE M == StageMarked(e)
             n == [Zeroed(mem, b) EXCEPT !.marked = M]
  <2> HIDE DEF b, M
  <2>1. b \in Frames /\ M \in SUBSET Frames
    BY <1>3 DEF b, M
  <2>2. /\ n \in Memories /\ n.marked = M /\ n.cr3 = mem.cr3 /\ n.boot = mem.boot
        /\ n.directory = mem.directory /\ n.dir = mem.dir /\ n.tables = mem.tables /\ n.stray = mem.stray
        /\ \A g \in Frames : n.content[g] = IF g = b THEN Wiped ELSE mem.content[g]
    <3>1. mem \in Memories
      BY <1>2, Zenon
    <3> QED
      BY <2>1, <3>1, ZeroedFacts, Zenon
  <2>3. mem' = n
    BY <1>1 DEF b, M
  <2> HIDE DEF n
  <2> QED
    BY <2>2, <2>3 DEF M
<1> HIDE DEF b, e
<1>5. Shape'
  BY <1>1, <1>2, <1>4, EarlyShape DEF StageSteps
<1>6. StageImage' = StageImage
  BY <1>1 DEF StageImage
<1>7. \A f \in (StageImage \ {0}) \union {StackFrame} \union Run(KernelFrame, KernelPages) :
           mem'.content[f] = Original[f]
  BY <1>2, <1>3, <1>4, MorePlaces, Constants DEF Frames
<1>8. Stage2Inv'
  BY <1>1, <1>2, <1>4, <1>6, <1>7 DEF Stage2Inv, NoOwnTables, e
<1>9. ModuleInv'
  <2>1. \A f \in ModuleBuffer : mem'.content[f] = Original[f]
    BY <1>2, <1>3, <1>4, MorePlaces, Constants DEF Frames
  <2> QED
    BY <1>1, <1>2, <2>1 DEF ModuleInv
<1> QED
  BY <1>1, <1>5, <1>8, <1>9 DEF Inv, EntryInv, RoomInv, LateInv, LoadedInv, EntrySteps, Late

LEMMA Stage2TablesInv ==
  ASSUME Inv, Stage2Tables, UNCHANGED <<image, seg, page, heap, userFrames, lost>>
  PROVE  Inv'
<1>1. /\ pc = "stage 2 tables" /\ pc' = "unmap" /\ UNCHANGED layout
      /\ mem' = SetPageDirectory(BuildMappings(mem))
  BY DEF Stage2Tables
<1>2. /\ Shape /\ mem \in Memories /\ layout.end \in StageEnds /\ mem.cr3 = "off" /\ NoOwnTables(mem)
      /\ mem.marked = StageMarked(layout.end)
      /\ \A f \in (StageImage \ {0}) \union {StackFrame} \union Run(KernelFrame, KernelPages) :
           mem.content[f] = Original[f]
      /\ \A f \in ModuleBuffer : mem.content[f] = Original[f]
      /\ lost = {}
  BY <1>1 DEF Inv, Shape, LayoutOK, Stage2Inv, ModuleInv, StageSteps, Late
<1> DEFINE e == layout.end
           n == BuildMappings(mem)
<1>3. 0 \in StageMarked(e) /\ StageMarked(e) \in SUBSET Frames /\ StageImage \subseteq StageMarked(e)
  BY <1>2, Places DEF StageImage
<1>4. PICK x, y, z \in (0 .. (StackFrame - 1)) \ StageMarked(e) : x < y /\ y < z
  BY <1>2, HandoverAssumption
<1>5. 0 .. (StackFrame - 1) \subseteq Frames
  BY MorePlaces, Constants DEF Frames
<1>6. /\ x \in Frames \ mem.marked /\ y \in Frames \ mem.marked /\ z \in Frames \ mem.marked
      /\ mem.cr3 # "own" /\ \A f \in 0 .. z : Reach(mem, f) = f
      /\ Cardinality(mem.marked) + 2 < Limit /\ 0 \in mem.marked
  <2>1. \A f \in 0 .. z : Reach(mem, f) = f
    BY <1>2 DEF Reach
  <2>2. Cardinality(StageMarked(e)) \in Nat
    BY <1>3, MarkedFinite
  <2>3. Limit > Cardinality(StageMarked(e)) + 2
    BY <1>2, HandoverAssumption
  <2>4. Cardinality(mem.marked) + 2 < Limit
    BY <1>2, <2>2, <2>3, Constants
  <2> QED
    BY <1>2, <1>3, <1>4, <1>5, <2>1, <2>4
<1>7. PICK a, b, c \in Frames \ mem.marked :
        a < b /\ b < c /\ c <= z /\ Built(mem, n, a, b, c)
  BY <1>2, <1>4, <1>6, BuildFacts
<1> HIDE DEF n, e
<1>8. a \in StageFree /\ b \in StageFree /\ c \in StageFree /\ a # b /\ a # c /\ b # c
      /\ a < StackFrame /\ b < StackFrame /\ c < StackFrame
  <2>1. a \in Nat /\ b \in Nat /\ c \in Nat /\ z \in Nat /\ z < StackFrame /\ StackFrame \in Nat
    BY <1>4, <1>7, MorePlaces, Constants DEF Frames
  <2> QED
    BY <1>2, <1>7, <2>1 DEF StageFree, e
<1>9. /\ mem' \in Memories /\ mem'.cr3 = "own" /\ mem'.stray = mem.stray
      /\ mem'.directory = n.directory /\ mem'.dir = n.dir /\ mem'.tables = n.tables /\ mem'.content = n.content
  <2>1. n \in Memories /\ n.stray = mem.stray
    BY <1>7 DEF Built
  <2>2. mem' = [n EXCEPT !.cr3 = "own"]
    BY <1>1 DEF SetPageDirectory, n
  <2>3. /\ mem'.cr3 = "own" /\ mem'.stray = n.stray
        /\ mem'.directory = n.directory /\ mem'.dir = n.dir /\ mem'.tables = n.tables /\ mem'.content = n.content
    BY <2>1, <2>2 DEF Memories
  <2>4. mem' \in Memories
    BY <2>1, <2>2 DEF Memories, Modes
  <2> QED
    BY <2>1, <2>3, <2>4
<1>10. Shape'
  BY <1>1, <1>2, <1>9, EarlyShape DEF StageSteps
<1>11. TablesIn(mem', StageFree', StageLow')
  <2>1. StageFree' = StageFree /\ StageLow' = WholeTable(0)
    BY <1>1 DEF StageFree, StageLow
  <2>2. TablesIn(mem', StageFree, WholeTable(0))
    BY <1>7, <1>8, <1>9 DEF TablesIn, Built
  <2> QED
    BY <2>1, <2>2
<1>12. \A f \in Frames : f \notin {a, b, c} => mem'.content[f] = mem.content[f]
  BY <1>7, <1>9 DEF Built
<1>13. \A f \in (StageImage \ {0}) \union {StackFrame} \union Run(KernelFrame, KernelPages) :
           mem'.content[f] = Original[f]
  <2>1. \A f \in StageImage : f \in Frames /\ f \notin {a, b, c}
    BY <1>2, <1>3, <1>7 DEF e
  <2>2. \A f \in {StackFrame} \union Run(KernelFrame, KernelPages) : f \in Frames /\ f \notin {a, b, c}
    BY <1>8, MorePlaces, Constants DEF Frames
  <2> QED
    BY <1>2, <1>12, <2>1, <2>2
<1>14. StageImage' = StageImage
  BY <1>1 DEF StageImage
<1>15. Stage2Inv'
  BY <1>1, <1>9, <1>11, <1>13, <1>14 DEF Stage2Inv
<1>16. ModuleInv'
  <2>1. \A f \in ModuleBuffer : f \in Frames /\ f \notin {a, b, c}
    BY <1>8, MorePlaces, Constants DEF Frames
  <2> QED
    BY <1>1, <1>2, <1>12, <2>1 DEF ModuleInv
<1> QED
  BY <1>1, <1>10, <1>15, <1>16 DEF Inv, EntryInv, RoomInv, LateInv, LoadedInv, EntrySteps, Late

(* The pages of directory entry 0 by the table that stage 2 leaves behind.   *)
LEMMA LowPages ==
  ASSUME NEW t, t.dir[0].present, t.tables[t.dir[0].frame] = LowTable, NEW f \in 0 .. (TableSize - 1)
  PROVE  /\ f \in Pages
         /\ f < KernelFrame => Mapped(t, f) /\ PTE(t, f).frame = f
         /\ f >= KernelFrame => ~Mapped(t, f)
<1>1. 0 \in 0 .. (Dirs - 1) /\ 0 * TableSize + f = f
  BY Constants
<1>2. f \in Pages /\ f \div TableSize = 0 /\ f % TableSize = f
  BY <1>1, PageAt
<1>3. PTE(t, f) = LowTable[f] /\ PDE(t, f).present
  BY <1>2 DEF PTE, PDE
<1>4. LowTable[f] = IF f >= KernelFrame THEN Unmapped(WholeTable(0)[f]) ELSE WholeTable(0)[f]
  BY DEF LowTable
<1>5. WholeTable(0)[f] = Entry(FALSE, TRUE, 0 + f) /\ 0 + f = f
  BY DEF WholeTable
<1>6. /\ Entry(FALSE, TRUE, f).present /\ Entry(FALSE, TRUE, f).frame = f
      /\ ~Unmapped(Entry(FALSE, TRUE, f)).present
  BY DEF Entry, Unmapped
<1>7. f < KernelFrame => PTE(t, f) = Entry(FALSE, TRUE, f)
  <2>1. f < KernelFrame => ~(f >= KernelFrame)
    BY Constants
  <2> QED
    BY <1>3, <1>4, <1>5, <2>1
<1>8. f >= KernelFrame => PTE(t, f) = Unmapped(Entry(FALSE, TRUE, f))
  BY <1>3, <1>4, <1>5
<1> QED
  BY <1>2, <1>3, <1>6, <1>7, <1>8 DEF Mapped

(* ... and those of the higher half. *)
LEMMA HighPages ==
  ASSUME NEW t, t.dir[KernelDir].present, t.tables[t.dir[KernelDir].frame] = WholeTable(KernelFrame),
         NEW i \in 0 .. (TableSize - 1)
  PROVE  /\ KernelDir * TableSize + i \in Pages
         /\ Mapped(t, KernelDir * TableSize + i)
         /\ PTE(t, KernelDir * TableSize + i).frame = KernelFrame + i
<1> DEFINE p == KernelDir * TableSize + i
<1>1. p \in Pages /\ p \div TableSize = KernelDir /\ p % TableSize = i
  <2>1. KernelDir \in 0 .. (Dirs - 1)
    BY Constants
  <2> QED
    BY <2>1, PageAt
<1> HIDE DEF p
<1>2. PTE(t, p) = WholeTable(KernelFrame)[i] /\ PDE(t, p).present
  BY <1>1 DEF PTE, PDE
<1>3. WholeTable(KernelFrame)[i] = Entry(FALSE, TRUE, KernelFrame + i)
  BY DEF WholeTable
<1>4. Entry(FALSE, TRUE, KernelFrame + i).present /\ Entry(FALSE, TRUE, KernelFrame + i).frame = KernelFrame + i
  BY DEF Entry
<1>5. Mapped(t, p) /\ PTE(t, p).frame = KernelFrame + i
  BY <1>2, <1>3, <1>4 DEF Mapped
<1> QED
  BY <1>1, <1>5 DEF p

LEMMA BuiltEntries ==
  ASSUME NEW t, NEW b \in Frames, NEW c \in Frames, t.dir = BuiltDir(b, c)
  PROVE  /\ t.dir[0].present /\ t.dir[0].frame = c
         /\ t.dir[KernelDir].present /\ t.dir[KernelDir].frame = b
         /\ \A d \in 0 .. (Dirs - 1) : ~t.dir[d].user /\ (t.dir[d].present => d \in {0, KernelDir})
<1>1. 0 \in 0 .. (Dirs - 1) /\ KernelDir \in 0 .. (Dirs - 1) /\ KernelDir # 0
  BY Constants
<1>2. \A d \in 0 .. (Dirs - 1) :
        t.dir[d] = IF d = KernelDir THEN Entry(FALSE, TRUE, b)
                   ELSE IF d = 0 THEN Entry(FALSE, TRUE, c) ELSE NoEntry
  BY DEF BuiltDir
<1>3. /\ Entry(FALSE, TRUE, b).present /\ ~Entry(FALSE, TRUE, b).user /\ Entry(FALSE, TRUE, b).frame = b
      /\ Entry(FALSE, TRUE, c).present /\ ~Entry(FALSE, TRUE, c).user /\ Entry(FALSE, TRUE, c).frame = c
      /\ ~NoEntry.present /\ ~NoEntry.user
  BY DEF Entry, NoEntry
<1> QED
  BY <1>1, <1>2, <1>3

(* Stage 2's tables as the kernel finds them. *)
LEMMA BootPages ==
  ASSUME NEW t, NEW S \in SUBSET Frames, TablesIn(t, S, LowTable), NEW f \in 0 .. (TableSize - 1)
  PROVE  /\ f \in Pages
         /\ f < KernelFrame => Mapped(t, f) /\ PTE(t, f).frame = f
         /\ f >= KernelFrame => ~Mapped(t, f)
         /\ Mapped(t, KernelDir * TableSize + f)
         /\ PTE(t, KernelDir * TableSize + f).frame = KernelFrame + f
<1>1. PICK a, b, c \in S :
        t.dir = BuiltDir(b, c) /\ t.tables[b] = WholeTable(KernelFrame) /\ t.tables[c] = LowTable
  BY DEF TablesIn
<1>2. b \in Frames /\ c \in Frames
  OBVIOUS
<1>3. /\ t.dir[0].present /\ t.dir[0].frame = c
      /\ t.dir[KernelDir].present /\ t.dir[KernelDir].frame = b
  <2>1. t.dir = BuiltDir(b, c)
    BY <1>1, Zenon
  <2> QED
    BY <1>2, <2>1, BuiltEntries, Zenon
<1> QED
  BY <1>1, <1>3, LowPages, HighPages

LEMMA UnmapKernelInv ==
  ASSUME Inv, UnmapKernel, UNCHANGED <<image, seg, page, heap, userFrames, lost>>
  PROVE  Inv'
<1>1. pc = "unmap" /\ pc' = "jump" /\ UNCHANGED layout /\ mem' = UnmapFrom(mem, KernelFrame)
  BY DEF UnmapKernel
<1>2. /\ Shape /\ mem \in Memories /\ layout.end \in StageEnds /\ mem.cr3 = "own"
      /\ TablesIn(mem, StageFree, WholeTable(0))
      /\ \A f \in (StageImage \ {0}) \union {StackFrame} \union Run(KernelFrame, KernelPages) :
           mem.content[f] = Original[f]
      /\ \A f \in ModuleBuffer : mem.content[f] = Original[f]
      /\ lost = {}
  BY <1>1 DEF Inv, Shape, LayoutOK, Stage2Inv, ModuleInv, StageSteps, Late, StageLow
<1>3. PICK a, b, c \in StageFree :
        /\ a # b /\ a # c /\ b # c
        /\ mem.directory = a /\ mem.dir = BuiltDir(b, c)
        /\ DOMAIN mem.tables = {b, c}
        /\ mem.tables[b] = WholeTable(KernelFrame) /\ mem.tables[c] = WholeTable(0)
  BY <1>2 DEF TablesIn
<1>4. StageFree \subseteq Frames
  BY MorePlaces, Constants DEF StageFree, Frames
<1>5. PDE(mem, KernelFrame).frame = c /\ KernelFrame % TableSize = KernelFrame
  <2>1. 0 \in 0 .. (Dirs - 1) /\ 0 * TableSize + KernelFrame = KernelFrame /\ KernelFrame \in 0 .. (TableSize - 1)
    BY Constants
  <2>2. KernelFrame \div TableSize = 0 /\ KernelFrame % TableSize = KernelFrame
    BY <2>1, PageAt
  <2>3. mem.dir[0].frame = c
    <3>1. b \in Frames /\ c \in Frames /\ mem.dir = BuiltDir(b, c)
      BY <1>3, <1>4
    <3> QED
      BY <3>1, BuiltEntries
  <2> QED
    BY <2>2, <2>3 DEF PDE
<1>6. /\ mem'.cr3 = mem.cr3 /\ mem'.boot = mem.boot /\ mem'.directory = mem.directory /\ mem'.dir = mem.dir
      /\ mem'.content = mem.content /\ mem'.stray = mem.stray
      /\ mem'.tables = [mem.tables EXCEPT ![c] =
           [i \in DOMAIN @ |-> IF i >= KernelFrame THEN Unmapped(@[i]) ELSE @[i]]]
  BY <1>1, <1>2, <1>5 DEF UnmapFrom, Memories
<1>7. /\ DOMAIN mem'.tables = {b, c} /\ mem'.tables[b] = WholeTable(KernelFrame) /\ mem'.tables[c] = LowTable
  <2>1. DOMAIN mem'.tables = {b, c} /\ mem'.tables[b] = WholeTable(KernelFrame)
    BY <1>3, <1>6
  <2>2. DOMAIN WholeTable(0) = 0 .. (TableSize - 1)
    BY DEF WholeTable
  <2>3. mem'.tables[c] = [i \in DOMAIN WholeTable(0) |->
                            IF i >= KernelFrame THEN Unmapped(WholeTable(0)[i]) ELSE WholeTable(0)[i]]
    BY <1>3, <1>6
  <2> QED
    BY <2>1, <2>2, <2>3 DEF LowTable
<1>8. LowTable \in TableType
  <2>1. WholeTable(0) \in TableType
    BY WholeTableIs
  <2>2. ASSUME NEW e \in Entries PROVE Unmapped(e) \in Entries
    BY Constants DEF Unmapped, Entries, Frames
  <2> QED
    BY <2>1, <2>2 DEF LowTable, TableType
<1>9. mem' \in Memories
  <2>1. WholeTable(KernelFrame) \in TableType
    BY WholeTableIs
  <2>2. mem'.tables \in [{b, c} -> TableType]
    <3>1. mem'.tables = [f \in {b, c} |-> mem'.tables[f]]
      BY <1>3, <1>6
    <3> QED
      BY <1>7, <1>8, <2>1, <3>1
  <2>3. mem'.tables \in SomeTables
    BY <1>4, <2>2 DEF SomeTables
  <2> QED
    BY <1>1, <1>2, <2>3 DEF Memories, UnmapFrom
<1>10. Shape'
  BY <1>1, <1>2, <1>6, <1>9, EarlyShape DEF StageSteps
<1>11. TablesIn(mem', StageFree', StageLow')
  <2>1. StageFree' = StageFree /\ StageLow' = LowTable
    BY <1>1 DEF StageFree, StageLow
  <2>2. TablesIn(mem', StageFree, LowTable)
    BY <1>3, <1>6, <1>7 DEF TablesIn
  <2> QED
    BY <2>1, <2>2
<1>12. Stage2Inv'
  <2>1. StageImage' = StageImage
    BY <1>1 DEF StageImage
  <2> QED
    BY <1>1, <1>2, <1>6, <1>11, <2>1 DEF Stage2Inv
<1>13. ModuleInv'
  BY <1>1, <1>2, <1>6 DEF ModuleInv
<1> QED
  BY <1>1, <1>10, <1>12, <1>13 DEF Inv, EntryInv, RoomInv, LateInv, LoadedInv, EntrySteps, Late

LEMMA EnterKernelInv ==
  ASSUME Inv, EnterKernel, UNCHANGED <<image, seg, page, heap, userFrames, lost>>
  PROVE  Inv'
<1>1. /\ pc = "jump" /\ pc' = "frames" /\ UNCHANGED layout
      /\ mem' = [mem EXCEPT !.marked = {}, !.cr3 = "boot", !.boot = Tables(mem),
                            !.directory = None, !.dir = NoTables.dir, !.tables = NoTables.tables]
  BY DEF EnterKernel
<1>2. /\ Shape /\ mem \in Memories
      /\ TablesIn(mem, StageFree, LowTable)
      /\ \A f \in ModuleBuffer : mem.content[f] = Original[f]
      /\ lost = {}
  BY <1>1 DEF Inv, Shape, LayoutOK, Stage2Inv, ModuleInv, StageSteps, Late, StageLow
<1>3. /\ mem'.marked = {} /\ mem'.cr3 = "boot" /\ mem'.boot = Tables(mem) /\ mem'.directory = None
      /\ mem'.dir = NoTables.dir /\ mem'.tables = NoTables.tables
      /\ mem'.content = mem.content /\ mem'.stray = mem.stray
  BY <1>1, <1>2 DEF Memories
<1>4. Tables(mem) \in BootType
  BY <1>2, MemoryFields DEF Tables, BootType
<1>5. mem' \in Memories
  BY <1>1, <1>2, <1>4, StageMemories DEF Memories, Modes
<1>6. Shape'
  BY <1>1, <1>2, <1>3, <1>5, EarlyShape DEF StageSteps, EntrySteps
<1>7. EntryInv'
  <2>1. TablesIn(Tables(mem), StageFree, LowTable)
    BY <1>2 DEF TablesIn, Tables
  <2>2. StageFree' = StageFree
    BY <1>1 DEF StageFree
  <2> QED
    BY <1>1, <1>3, <2>1, <2>2 DEF EntryInv, NoOwnTables
<1>8. ModuleInv'
  BY <1>1, <1>2, <1>3 DEF ModuleInv
<1> QED
  BY <1>1, <1>6, <1>7, <1>8 DEF Inv, Stage2Inv, RoomInv, LateInv, LoadedInv, StageSteps, Late

LEMMA InitMemoryInv ==
  ASSUME Inv, InitMemory
  PROVE  Inv'
<1>1. /\ pc = "frames" /\ UNCHANGED <<layout, image, seg, page, heap, userFrames, lost>>
      /\ \/ /\ ParamsIntact /\ pc' = "paging"
            /\ mem' = [Zeroed(mem, BitmapFrame) EXCEPT !.marked = Reserved]
         \/ pc' = "no memory map" /\ UNCHANGED mem
  BY DEF InitMemory
<1>2. /\ Shape /\ mem \in Memories /\ mem.cr3 = "boot" /\ NoOwnTables(mem)
      /\ layout.params \in ParamsAt
      /\ TablesIn(mem.boot, StageFree, LowTable)
      /\ \A f \in ModuleBuffer : mem.content[f] = Original[f]
      /\ mem.marked = {} /\ lost = {}
  BY <1>1 DEF Inv, Shape, LayoutOK, EntryInv, ModuleInv, EntrySteps, Late
<1>3. StageFree \subseteq Frames /\ StageFree' = StageFree
  <2>1. StageFree \subseteq Frames
    BY MorePlaces, Constants DEF StageFree, Frames
  <2>2. StageFree' = StageFree
    BY <1>1 DEF StageFree
  <2> QED
    BY <2>1, <2>2
<1>4. CASE pc' = "no memory map" /\ UNCHANGED mem
  <2>1. Shape'
    BY <1>1, <1>2, <1>4, EarlyShape DEF StageSteps, EntrySteps
  <2>2. EntryInv'
    BY <1>2, <1>3, <1>4 DEF EntryInv
  <2>3. ModuleInv'
    BY <1>1, <1>2, <1>4 DEF ModuleInv
  <2> QED
    BY <1>4, <2>1, <2>2, <2>3 DEF Inv, Stage2Inv, RoomInv, LateInv, LoadedInv, StageSteps, Late
<1>5. CASE /\ ParamsIntact /\ pc' = "paging"
           /\ mem' = [Zeroed(mem, BitmapFrame) EXCEPT !.marked = Reserved]
  <2>1. BitmapFrame = KernelFrame + KernelPages /\ BitmapFrame \in Frames
    <3>1. KernelPages \in 0 .. (TableSize - 1)
      BY Constants
    <3>2. PTE(mem.boot, KernelDir * TableSize + KernelPages).frame = KernelFrame + KernelPages
      BY <1>2, <1>3, <3>1, BootPages
    <3> QED
      BY <3>2, MorePlaces DEF BitmapFrame
  <2> DEFINE f == BitmapFrame
             n == [Zeroed(mem, f) EXCEPT !.marked = Reserved]
  <2> HIDE DEF f
  <2>2. /\ n \in Memories /\ n.marked = Reserved /\ n.cr3 = mem.cr3 /\ n.boot = mem.boot
        /\ n.directory = mem.directory /\ n.dir = mem.dir /\ n.tables = mem.tables /\ n.stray = mem.stray
        /\ \A g \in Frames : n.content[g] = IF g = f THEN Wiped ELSE mem.content[g]
    <3>1. f \in Frames /\ Reserved \in SUBSET Frames
      BY <2>1, LoaderAssumption DEF f
    <3> QED
      BY <1>2, <3>1, ZeroedFacts
  <2>3. mem' = n
    BY <1>5 DEF f
  <2> HIDE DEF n
  <2>4. Shape'
    BY <1>1, <1>2, <1>5, <2>2, <2>3, EarlyShape DEF StageSteps, EntrySteps
  <2>5. EntryInv'
    BY <1>2, <1>3, <1>5, <2>2, <2>3 DEF EntryInv, NoOwnTables
  <2>6. \A g \in Frames : g < KernelFrame => mem'.content[g] = mem.content[g]
    BY <2>1, <2>2, <2>3, Constants DEF f, Frames
  <2>7. ModuleInv'
    <3>1. \A g \in ModuleBuffer : mem'.content[g] = Original[g]
      BY <1>2, <2>6, MorePlaces
    <3>2. layout.params \div Units \in Frames /\ layout.params \div Units < KernelFrame
      BY <1>2, LoaderAssumption, HandoverAssumption
    <3>3. ParamsIntact'
      BY <1>1, <1>5, <2>6, <3>2 DEF ParamsIntact
    <3> QED
      BY <1>1, <1>2, <3>1, <3>3 DEF ModuleInv
  <2> QED
    BY <1>5, <2>4, <2>5, <2>7 DEF Inv, Stage2Inv, RoomInv, LateInv, LoadedInv, StageSteps, Late
<1> QED
  BY <1>1, <1>4, <1>5
-----------------------------------------------------------------------------
(* The kernel sets up frames, tables and the heap. *)

LEMMA BuiltSafe ==
  ASSUME NEW m, NEW n, NEW a, NEW b, NEW c, Built(m, n, a, b, c), m.marked = Reserved,
         a \in Frames \ Reserved, b \in Frames \ Reserved, c \in Frames \ Reserved, b # c, NEW short
  PROVE  Placed(n) /\ Fixed(n) /\ Apart(n, {}, short)
<1>1. /\ n.marked = Reserved \union {a, b, c} /\ n.dir = BuiltDir(b, c) /\ DOMAIN n.tables = {b, c}
      /\ n.tables[b] = WholeTable(KernelFrame) /\ n.tables[c] = WholeTable(0)
  BY DEF Built
<1>2. /\ n.dir[0].present /\ n.dir[0].frame = c
      /\ n.dir[KernelDir].present /\ n.dir[KernelDir].frame = b
      /\ \A d \in 0 .. (Dirs - 1) : ~n.dir[d].user /\ (n.dir[d].present => d \in {0, KernelDir})
  BY <1>1, BuiltEntries
<1>3. Present(n) \subseteq {0, KernelDir}
  BY <1>2 DEF Present
<1>4. Placed(n)
  BY <1>1, <1>2, <1>3 DEF Placed
<1>5. Fixed(n)
  BY <1>1, <1>2 DEF Fixed
<1>6. \A D : D \intersect {0, KernelDir} = {} => PagesIn(n, D) = {}
  <2>1. ASSUME NEW D, D \intersect {0, KernelDir} = {}, NEW p \in Pages, p \div TableSize \in D
        PROVE  ~Mapped(n, p)
    BY <1>2, <2>1, PageNumbers DEF Mapped, PDE
  <2> QED
    BY <2>1 DEF PagesIn
<1>7. PagesIn(n, OpenDirs) = {} /\ PagesIn(n, HeapDirs) = {}
  <2>1. OpenDirs \intersect {0, KernelDir} = {}
    BY Constants DEF OpenDirs
  <2> QED
    BY <1>6, <2>1, LoaderAssumption
<1> QED
  BY <1>4, <1>5, <1>7 DEF Apart

LEMMA BuildTablesInv ==
  ASSUME Inv, BuildTables
  PROVE  Inv'
<1>1. /\ pc = "paging" /\ pc' = "switch" /\ UNCHANGED <<layout, image, seg, page, heap, userFrames, lost>>
      /\ mem' = BuildMappings(mem)
  BY DEF BuildTables
<1>2. /\ Shape /\ mem \in Memories /\ mem.cr3 = "boot" /\ NoOwnTables(mem)
      /\ layout.end \in StageEnds
      /\ TablesIn(mem.boot, StageFree, LowTable)
      /\ \A f \in ModuleBuffer : mem.content[f] = Original[f]
      /\ (layout.params \div Units \in Reserved => ParamsIntact)
      /\ mem.marked = Reserved /\ lost = {} /\ userFrames = {}
  BY <1>1 DEF Inv, Shape, LayoutOK, EntryInv, ModuleInv, EntrySteps, Late
<1> DEFINE e == layout.end
           n == BuildMappings(mem)
<1>3. StageFree \subseteq Frames /\ ImageTo(e) \subseteq Frames
  <2>1. StageFree \subseteq Frames
    BY MorePlaces, Constants DEF StageFree, Frames
  <2>2. ImageTo(e) \subseteq Frames
    BY <1>2, Places
  <2> QED
    BY <2>1, <2>2
<1>4. PICK x, y, z \in ImageTo(e) \ Reserved : x < y /\ y < z
  BY <1>2, LoaderAssumption
<1>5. \A f \in 0 .. z : Reach(mem, f) = f
  <2>1. z \in Nat /\ z < PagesOf(e) /\ PagesOf(e) \in Nat /\ PagesOf(e) < StackFrame /\ StackFrame \in Nat /\ StackFrame < KernelFrame
    BY <1>2, <1>4, Places, MorePlaces, Constants DEF Frames
  <2>2. ASSUME NEW f \in 0 .. z PROVE f \in 0 .. (TableSize - 1) /\ f < KernelFrame
    BY <2>1, Constants
  <2>3. ASSUME NEW f \in 0 .. z PROVE f \in Pages /\ Mapped(mem.boot, f) /\ PTE(mem.boot, f).frame = f
    BY <1>2, <1>3, <2>2, BootPages
  <2> QED
    BY <1>2, <2>3 DEF Reach
<1>6. /\ x \in Frames \ mem.marked /\ y \in Frames \ mem.marked /\ z \in Frames \ mem.marked
      /\ mem.cr3 # "own" /\ 0 \in mem.marked /\ Cardinality(mem.marked) + 2 < Limit
  <2>1. Reserved \in SUBSET Frames /\ 0 \in Reserved /\ Limit > Cardinality(Reserved) + HeapPages + 4 /\ HeapPages \in Nat
    BY LoaderAssumption
  <2>2. Cardinality(Reserved) \in Nat
    BY <2>1, MarkedFinite
  <2> QED
    BY <1>2, <1>3, <1>4, <2>1, <2>2, Constants
<1>7. PICK a, b, c \in Frames \ mem.marked :
        /\ a < b /\ b < c /\ c <= z
        /\ \A g \in Frames \ mem.marked : g \in {a, b} \/ c <= g
        /\ Built(mem, n, a, b, c)
  BY <1>2, <1>4, <1>5, <1>6, BuildFacts
<1>8. mem' = n
  BY <1>1
<1> HIDE DEF n
<1>9. a \in Nat /\ b \in Nat /\ c \in Nat /\ a # b /\ a # c /\ b # c
  BY <1>7, Constants DEF Frames
<1>10. /\ mem' \in Memories /\ mem'.marked = Reserved \union {a, b, c}
       /\ mem'.cr3 = mem.cr3 /\ mem'.boot = mem.boot /\ mem'.stray = mem.stray
       /\ \A g \in Frames : g \notin {a, b, c} => mem'.content[g] = mem.content[g]
  BY <1>2, <1>7, <1>8 DEF Built
<1>11. Shape'
  BY <1>1, <1>2, <1>10, EarlyShape DEF EntrySteps
<1>12. EntryInv'
  <2>1. a \in ImageTo(e) /\ b \in ImageTo(e) /\ c \in ImageTo(e)
    <3>1. z \in ImageTo(e) /\ z \in Nat /\ a <= z /\ b <= z
      BY <1>4, <1>7, <1>9, <1>3, Constants DEF Frames
    <3> QED
      BY <1>2, <1>7, <1>9, <3>1, Places
  <2>2. TablesIn(mem', ImageTo(e), WholeTable(0))
    BY <1>7, <1>8, <1>9, <2>1 DEF TablesIn, Built
  <2>3. StageFree' = StageFree /\ layout' = layout
    BY <1>1 DEF StageFree
  <2> QED
    BY <1>1, <1>2, <1>10, <2>2, <2>3 DEF EntryInv
<1>13. LateInv'
  <2>1. Placed(mem') /\ Fixed(mem') /\ Apart(mem', {}, Short(lost))
    <3>1. a \in Frames \ Reserved /\ b \in Frames \ Reserved /\ c \in Frames \ Reserved
      BY <1>2, <1>7
    <3> QED
      BY <1>2, <1>7, <1>8, <1>9, <3>1, BuiltSafe
  <2> QED
    BY <1>1, <1>2, <2>1 DEF LateInv, Late
<1>14. RoomInv'
  <2>1. PICK f \in Frames : Run(f, HeapPages + 3) \subseteq (Frames \ Reserved) \intersect (0 .. (TableSize - 1))
    BY LoaderAssumption
  <2>2. HeapPages \in Nat \ {0} /\ f \in Nat
    BY LoaderAssumption, Constants DEF Frames
  <2>3. \A i \in 0 .. (HeapPages + 2) : f + i \in Run(f, HeapPages + 3)
    BY <2>2 DEF Run
  <2>4. f \in Frames \ Reserved /\ f + 1 \in Frames \ Reserved /\ f + 2 \in Frames \ Reserved
    <3>1. 0 \in 0 .. (HeapPages + 2) /\ 1 \in 0 .. (HeapPages + 2) /\ 2 \in 0 .. (HeapPages + 2) /\ f + 0 = f
      BY <2>2
    <3> QED
      BY <2>1, <2>3, <3>1
  <2>5. c <= f + 2
    <3>1. \A g \in {f, f + 1, f + 2} : g \in {a, b} \/ c <= g
      BY <1>2, <1>7, <2>4
    <3> QED
      BY <1>9, <2>2, <3>1
  <2>6. \A g \in Run(f + 3, HeapPages) : g \in Run(f, HeapPages + 3) /\ g \notin {a, b, c}
    BY <1>7, <1>9, <2>2, <2>5 DEF Run
  <2>7. Run(f + 3, HeapPages) \subseteq (Frames \ mem'.marked) \intersect (0 .. (TableSize - 1))
    BY <1>10, <2>1, <2>6
  <2>8. f + 3 \in Frames
    <3>1. f + 3 \in Run(f, HeapPages + 3)
      BY <2>2, <2>3
    <3> QED
      BY <2>1, <3>1
  <2>9. HeapRuns(mem') # {}
    BY <2>7, <2>8 DEF HeapRuns
  <2>10. Cardinality(mem'.marked) <= Cardinality(Reserved) + 3
    <3>1. Reserved \in SUBSET Frames /\ a \in Frames \ Reserved
      BY <1>2, <1>7, LoaderAssumption
    <3>2. Cardinality(Reserved \union {a}) = Cardinality(Reserved) + 1 /\ Cardinality(Reserved) \in Nat
      BY <3>1, OneMoreMarked
    <3>3. (Reserved \union {a}) \in SUBSET Frames /\ b \in Frames \ (Reserved \union {a})
      BY <1>2, <1>7, <1>9, <3>1
    <3>4. Cardinality((Reserved \union {a}) \union {b}) = Cardinality(Reserved \union {a}) + 1
      BY <3>3, OneMoreMarked
    <3>5. ((Reserved \union {a}) \union {b}) \in SUBSET Frames /\ c \in Frames \ ((Reserved \union {a}) \union {b})
      BY <1>2, <1>7, <1>9, <3>1
    <3>6. Cardinality(((Reserved \union {a}) \union {b}) \union {c}) = Cardinality((Reserved \union {a}) \union {b}) + 1
      BY <3>5, OneMoreMarked
    <3>7. mem'.marked = ((Reserved \union {a}) \union {b}) \union {c}
      BY <1>10
    <3> QED
      BY <3>2, <3>4, <3>6, <3>7
  <2> QED
    BY <2>9, <2>10 DEF RoomInv
<1>15. ModuleInv'
  <2>1. Reserved \subseteq Frames /\ ModuleBuffer \subseteq Reserved
    BY LoaderAssumption
  <2>2. \A g \in Reserved : mem'.content[g] = mem.content[g]
    BY <1>2, <1>7, <1>10, <2>1
  <2>3. \A g \in ModuleBuffer : mem'.content[g] = Original[g]
    BY <1>2, <2>1, <2>2
  <2>4. layout.params \div Units \in Reserved => ParamsIntact'
    BY <1>1, <1>2, <2>2 DEF ParamsIntact
  <2> QED
    BY <1>1, <1>2, <2>3, <2>4 DEF ModuleInv
<1> QED
  BY <1>1, <1>11, <1>12, <1>13, <1>14, <1>15 DEF Inv, Stage2Inv, LoadedInv, StageSteps

(* Neither the tables in force nor those of stage 2 matter to what is mapped. *)
LEMMA SameTables ==
  ASSUME NEW m, NEW n, n.marked = m.marked, n.dir = m.dir, n.tables = m.tables,
         Placed(m), Fixed(m), NEW U, NEW short, Apart(m, U, short)
  PROVE  Placed(n) /\ Fixed(n) /\ Apart(n, U, short)
<1>1. \A p : (Mapped(n, p) <=> Mapped(m, p)) /\ PTE(n, p) = PTE(m, p)
  BY DEF Mapped, PTE, PDE
<1>2. \A D : PagesIn(n, D) = PagesIn(m, D)
  BY <1>1 DEF PagesIn
<1>3. Present(n) = Present(m)
  BY DEF Present
<1> QED
  BY <1>1, <1>2, <1>3 DEF Placed, Fixed, Apart

LEMMA SwitchTablesInv ==
  ASSUME Inv, SwitchTables
  PROVE  Inv'
<1>1. /\ pc = "switch" /\ pc' = "heap" /\ UNCHANGED <<layout, image, seg, page, heap, userFrames, lost>>
      /\ mem' = [SetPageDirectory(mem) EXCEPT !.boot = NoTables]
  BY DEF SwitchTables
<1>2. /\ Shape /\ mem \in Memories
      /\ \A f \in ModuleBuffer : mem.content[f] = Original[f]
      /\ (layout.params \div Units \in Reserved => ParamsIntact)
      /\ Placed(mem) /\ Fixed(mem) /\ Apart(mem, userFrames, Short(lost))
      /\ HeapRuns(mem) # {} /\ Cardinality(mem.marked) <= Cardinality(Reserved) + 3
      /\ lost = {} /\ userFrames = {} /\ heap = 0
  BY <1>1 DEF Inv, Shape, LateInv, RoomInv, ModuleInv, Late
<1>3. /\ mem'.cr3 = "own" /\ mem'.marked = mem.marked /\ mem'.dir = mem.dir /\ mem'.tables = mem.tables
      /\ mem'.content = mem.content /\ mem'.stray = mem.stray
  BY <1>1, <1>2 DEF SetPageDirectory, Memories
<1>4. mem' \in Memories
  BY <1>1, <1>2, StageMemories DEF SetPageDirectory, Memories, Modes
<1>5. Shape'
  BY <1>1, <1>2, <1>3, <1>4 DEF Shape, LayoutOK, Steps, StageSteps, EntrySteps, Late
<1>6. LateInv'
  <2>1. Placed(mem') /\ Fixed(mem') /\ Apart(mem', userFrames, Short(lost))
    BY <1>2, <1>3, SameTables
  <2> QED
    BY <1>1, <1>3, <2>1 DEF LateInv
<1>7. RoomInv'
  BY <1>2, <1>3 DEF RoomInv, HeapRuns
<1>8. ModuleInv'
  BY <1>1, <1>2, <1>3 DEF ModuleInv, ParamsIntact
<1> QED
  BY <1>1, <1>5, <1>6, <1>7, <1>8 DEF Inv, Stage2Inv, EntryInv, LoadedInv, StageSteps, EntrySteps

LEMMA InitTaskInv ==
  ASSUME Inv, InitTask
  PROVE  Inv'
<1> DEFINE n == HeapMapped(AllocateBlock(mem, HeapPages).m, AllocateBlock(mem, HeapPages).frame, HeapPages)
<1>1. /\ pc = "heap" /\ pc' = "module" /\ UNCHANGED <<layout, image, seg, page, userFrames, lost>>
      /\ heap' = HeapPages /\ mem' = n
  BY DEF InitTask
<1>2. /\ Shape /\ mem \in Memories
      /\ \A f \in ModuleBuffer : mem.content[f] = Original[f]
      /\ (layout.params \div Units \in Reserved => ParamsIntact)
      /\ mem.cr3 = "own" /\ Placed(mem) /\ Fixed(mem) /\ Apart(mem, userFrames, Short(lost))
      /\ HeapRuns(mem) # {} /\ Cardinality(mem.marked) <= Cardinality(Reserved) + 3
      /\ lost = {} /\ userFrames = {} /\ heap = 0 /\ mem.stray = {} /\ seg = 1 /\ page = 0
  BY <1>1 DEF Inv, Shape, LateInv, RoomInv, ModuleInv, Late
<1>3. Sound(mem, {}, FALSE)
  <2>1. Short(lost) = FALSE
    BY <1>2 DEF Short
  <2> QED
    BY <1>2, <2>1 DEF Sound
<1>4. Sound(n, {}, FALSE) /\ Kept(mem, n, Pages)
  BY <1>2, <1>3, InitTaskSound
<1> HIDE DEF n
<1>5. mem' \in Memories /\ mem'.stray = {} /\ mem'.cr3 = "own"
      /\ \A f \in mem.marked : mem'.content[f] = mem.content[f]
  BY <1>1, <1>2, <1>4 DEF Kept
<1>6. HeapPages \in Nat \ {0} /\ MaxHeap \in Nat /\ HeapPages <= MaxHeap /\ ModuleBuffer \subseteq Reserved
  BY LoaderAssumption
<1>7. Shape'
  BY <1>1, <1>2, <1>5, <1>6 DEF Shape, LayoutOK, Steps, StageSteps, EntrySteps, Late
<1>8. LateInv'
  <2>1. Placed(mem') /\ Fixed(mem') /\ Apart(mem', userFrames', Short(lost'))
    <3>1. Short(lost') = FALSE /\ userFrames' = {}
      BY <1>1, <1>2 DEF Short
    <3> QED
      BY <1>1, <1>4, <3>1 DEF Sound
  <2> QED
    BY <1>5, <2>1 DEF LateInv
<1>9. ModuleInv'
  <2>1. \A f \in Reserved : mem'.content[f] = mem.content[f]
    BY <1>2, <1>5 DEF Placed
  <2> QED
    BY <1>1, <1>2, <1>6, <2>1 DEF ModuleInv, ParamsIntact
<1> QED
  BY <1>1, <1>7, <1>8, <1>9 DEF Inv, Stage2Inv, EntryInv, LoadedInv, RoomInv, StageSteps, EntrySteps

LEMMA ReadModuleCountInv ==
  ASSUME Inv, ReadModuleCount
  PROVE  Inv'
<1>1. /\ pc = "module" /\ UNCHANGED <<mem, layout, image, seg, page, heap, userFrames>>
      /\ \/ ParamsIntact /\ pc' = "load" /\ UNCHANGED lost
         \/ ~ParamsIntact /\ pc' = "idle only" /\ lost' = lost \union {"module"}
  BY DEF ReadModuleCount
<1>2. /\ Shape /\ LateInv /\ ModuleInv /\ seg = 1 /\ page = 0
      /\ (layout.params \div Units \in Reserved => ParamsIntact)
  BY <1>1 DEF Inv, Shape, ModuleInv
<1>3. Shape'
  <2>1. image.segs # <<>> => 1 <= Len(image.segs) /\ 0 <= NumPages(image.segs[1])
    <3>1. SUFFICES ASSUME image.segs # <<>> PROVE 1 <= Len(image.segs) /\ 0 <= NumPages(image.segs[1])
      OBVIOUS
    <3>2. image.segs \in Seq(Segments) /\ image \in Images
      BY <1>2, ImageFacts DEF Shape
    <3>3. Len(image.segs) \in Nat /\ 1 <= Len(image.segs) /\ image.segs[1] \in Segments
      BY <3>1, <3>2, LenProperties, EmptySeq, ElementOfSeq
    <3>4. image.segs[1].memsz + Units - 1 \in Nat
      BY <3>3, Constants DEF Segments
    <3> QED
      BY <3>3, <3>4, Constants, DivMod DEF NumPages, PagesOf
  <2> QED
    BY <1>1, <1>2, <2>1 DEF Shape, LayoutOK, Steps, StageSteps, EntrySteps, Late
<1>4. LateInv'
  <2>1. Short(lost') = Short(lost)
    <3>1. "stack" # "module"
      OBVIOUS
    <3>2. CASE UNCHANGED lost
      BY <3>2
    <3>3. CASE lost' = lost \union {"module"}
      BY <3>1, <3>3 DEF Short
    <3> QED
      BY <1>1, <3>2, <3>3
  <2>2. Placed(mem) /\ Fixed(mem) /\ Apart(mem, userFrames, Short(lost)) /\ mem.cr3 = "own"
    BY <1>1, <1>2 DEF LateInv, Late
  <2> QED
    BY <1>1, <2>1, <2>2 DEF LateInv
<1>5. ModuleInv'
  BY <1>1, <1>2 DEF ModuleInv
<1>6. LoadedInv'
  <2>1. \A i \in DOMAIN image.segs : \A k \in 0 .. (NumPages(image.segs[i]) - 1) : ~(i < 1 \/ (i = 1 /\ k < 0))
    BY <1>2, ImageFacts DEF Shape
  <2> QED
    BY <1>1, <1>2, <2>1 DEF LoadedInv
<1> QED
  BY <1>1, <1>3, <1>4, <1>5, <1>6 DEF Inv, Stage2Inv, EntryInv, RoomInv, StageSteps, EntrySteps

LEMMA RefuseInv ==
  ASSUME Inv, Refuse
  PROVE  Inv'
<1>1. /\ pc = "load" /\ pc' = "idle only"
      /\ UNCHANGED <<mem, layout, image, seg, page, heap, userFrames, lost>>
  BY DEF Refuse
<1>2. Shape /\ LateInv /\ ModuleInv
  BY DEF Inv
<1>3. Shape'
  BY <1>1, <1>2 DEF Shape, LayoutOK, Steps, StageSteps, EntrySteps, Late
<1>4. LateInv'
  BY <1>1, <1>2 DEF LateInv, Late
<1>5. ModuleInv'
  BY <1>1, <1>2 DEF ModuleInv
<1> QED
  BY <1>1, <1>3, <1>4, <1>5 DEF Inv, Stage2Inv, EntryInv, RoomInv, LoadedInv, StageSteps, EntrySteps
-----------------------------------------------------------------------------
(* elf_load and what comes after it. *)

(* f is a frame taken in m for the program, in n. *)
OwnFrame(m, n, U, short, f) ==
  /\ f \in Frames \ m.marked /\ f # 0
  /\ Sound(n, U \union {f}, short) /\ Kept(m, n, {})
  /\ \A p \in PagesIn(n, OpenDirs) : PTE(n, p).frame # f

LEMMA OwnFrameTaken ==
  ASSUME NEW m, NEW U, NEW short, Sound(m, U, short), NEW r, r = AllocateBlock(m, 1), r.frame # 0,
         NEW n \in Memories, n.marked = r.m.marked, n.cr3 = r.m.cr3, n.boot = r.m.boot,
         n.stray = r.m.stray, n.dir = r.m.dir, n.tables = r.m.tables,
         \A g \in Frames : g # r.frame => n.content[g] = r.m.content[g]
  PROVE  OwnFrame(m, n, U, short, r.frame)
<1> DEFINE f == r.frame
           k == r.m
<1>1. /\ f \in Frames \ m.marked /\ f < TableSize
      /\ Sound(k, U, short) /\ Kept(m, k, {})
      /\ f \notin Reserved \union U \union DOMAIN k.tables
      /\ \A p \in PagesIn(k, OpenDirs) : PTE(k, p).frame # f
      /\ k.marked = m.marked \union {f}
  BY OneFrameSound
<1> HIDE DEF k, f
<1>2. f # 0 /\ n.marked = k.marked /\ n.cr3 = k.cr3 /\ n.boot = k.boot /\ n.stray = k.stray
      /\ n.dir = k.dir /\ n.tables = k.tables /\ \A g \in Frames : g # f => n.content[g] = k.content[g]
  BY DEF k, f
<1>3. /\ \A p : (Mapped(n, p) <=> Mapped(k, p)) /\ PTE(n, p) = PTE(k, p)
      /\ UserPages(n) = UserPages(k)
      /\ \A D : PagesIn(n, D) = PagesIn(k, D)
  BY <1>2 DEF Mapped, PTE, PDE, UserPages, PagesIn
<1>4. m.marked \subseteq Frames /\ 0 \in m.marked /\ k.cr3 = "own" /\ Placed(k) /\ Fixed(k) /\ Apart(k, U, short)
  BY <1>1, MemoryFields, LoaderAssumption DEF Sound, Placed
<1>5. Placed(n) /\ Fixed(n) /\ Apart(n, U, short)
  BY <1>2, <1>4, SameTables
<1>6. Kept(m, n, {})
  <2>1. \A g \in m.marked : n.content[g] = k.content[g]
    BY <1>1, <1>2, <1>4
  <2> QED
    BY <1>1, <1>2, <1>3, <2>1 DEF Kept
<1>7. \A p \in PagesIn(n, HeapDirs) : PTE(n, p).frame # f
  <2>1. \A p \in PagesIn(n, HeapDirs) : p \in PagesIn(m, HeapDirs) /\ PTE(n, p) = PTE(m, p)
    BY <1>6 DEF PagesIn, Kept
  <2>2. \A p \in PagesIn(m, HeapDirs) : PTE(m, p).frame \in {0} \union m.marked
    BY DEF Sound, Apart
  <2> QED
    BY <1>1, <1>4, <2>1, <2>2
<1>8. Apart(n, U \union {f}, short)
  <2>1. U \union {f} \subseteq n.marked \ (Reserved \union DOMAIN n.tables)
    BY <1>1, <1>2, <1>5 DEF Apart
  <2> QED
    BY <1>5, <1>7, <2>1 DEF Apart
<1>9. Sound(n, U \union {f}, short)
  BY <1>2, <1>4, <1>5, <1>8 DEF Sound
<1>10. \A p \in PagesIn(n, OpenDirs) : PTE(n, p).frame # f
  BY <1>1, <1>3
<1> QED
  BY <1>1, <1>2, <1>6, <1>9, <1>10 DEF OwnFrame, f

LEMMA OwnFrameMapped ==
  ASSUME NEW m, NEW n, NEW U, NEW short, NEW f, OwnFrame(m, n, U, short, f),
         NEW p \in Pages, p \div TableSize \in OpenDirs
  PROVE  HasPage(n, MapPage(n, f, p, TRUE), U \union {f}, short, p, f, TRUE)
<1>1. /\ f \in Frames /\ Sound(n, U \union {f}, short)
      /\ \A q \in PagesIn(n, OpenDirs) : PTE(n, q).frame # f
  BY DEF OwnFrame
<1>2. p \div TableSize \notin HeapDirs
  BY DEF OpenDirs
<1>3. Allowed(n, U \union {f}, short, p, f)
  BY <1>1, <1>2 DEF Allowed
<1> DEFINE V == U \union {f}
           user == TRUE
<1> HIDE DEF V, user
<1>4. HasPage(n, MapPage(n, f, p, user), V, short, p, f, user)
  <2>1. user \in BOOLEAN /\ (user = TRUE => p \div TableSize \in OpenDirs)
    BY DEF user
  <2>2. Sound(n, V, short) /\ Allowed(n, V, short, p, f)
    BY <1>1, <1>3 DEF V
  <2> QED
    BY <1>1, <2>1, <2>2, MapPageSound
<1> QED
  BY <1>4 DEF V, user

(* The bytes of the file are read through the identity mapping. *)
LEMMA CopiedIs ==
  ASSUME NEW m \in Memories, m.cr3 = "own", Fixed(m), \A f \in ModuleBuffer : m.content[f] = Original[f],
         NEW s \in Segments, s.offset + s.filesz <= ModuleFrames * Units, NEW k \in Nat,
         NEW f \in Frames, m.content[f] = Wiped
  PROVE  /\ Copied(m, s, k, f) \in [0 .. (Units - 1) -> Bytes]
         /\ \A u \in 0 .. (Units - 1) :
              Copied(m, s, k, f)[u] =
                IF k * Units + u < s.filesz THEN ModuleFrame * Units + s.offset + k * Units + u ELSE Zero
<1>1. ASSUME NEW u \in 0 .. (Units - 1), k * Units + u < s.filesz
      PROVE  LET v == FileUnit(m, s.offset + k * Units + u)
             IN  v \in Bytes /\ v = ModuleFrame * Units + s.offset + k * Units + u
  <2> DEFINE at == s.offset + k * Units + u
             q == at \div Units
             r == at % Units
  <2>1. s.offset \in Nat /\ s.filesz \in Nat /\ Units \in Nat \ {0} /\ ModuleFrames \in Nat /\ ModuleFrame \in Nat
    BY Constants, HandoverAssumption DEF Segments
  <2>2. k * Units \in Nat /\ ModuleFrames * Units \in Nat /\ ModuleFrame * Units \in Nat
    BY <2>1
  <2>3. at \in Nat /\ at < ModuleFrames * Units
    BY <1>1, <2>1, <2>2
  <2> HIDE DEF at
  <2>4. q \in Nat /\ r \in 0 .. (Units - 1) /\ at = Units * q + r /\ q < ModuleFrames
    BY <2>1, <2>3, DivMod, DivBelow
  <2> HIDE DEF q, r
  <2>5. ModuleFrame + q \in ModuleBuffer
    BY <2>1, <2>4 DEF ModuleBuffer, Run
  <2>6. ModuleFrame + q \in Frames /\ ModuleFrame + q \in 0 .. (TableSize - 1)
    BY <2>1, <2>4, <2>5, MorePlaces, Constants
  <2>7. Reach(m, ModuleFrame + q) = ModuleFrame + q
    BY <2>6, ReachFixed
  <2>8. FileUnit(m, at) = m.content[ModuleFrame + q][r]
    BY <2>7 DEF FileUnit, q, r
  <2>9. m.content[ModuleFrame + q][r] = (ModuleFrame + q) * Units + r
    BY <2>4, <2>5, <2>6 DEF Original
  <2>10. (ModuleFrame + q) * Units = ModuleFrame * Units + Units * q /\ Units * q \in Nat
    BY <2>1, <2>4
  <2>11. FileUnit(m, at) = ModuleFrame * Units + at
    BY <2>2, <2>4, <2>8, <2>9, <2>10
  <2>12. FileUnit(m, at) \in Bytes
    <3>1. m.content \in ContentType
      BY MemoryFields
    <3> DEFINE g == ModuleFrame + q
    <3>2. g \in Frames /\ FileUnit(m, at) = m.content[g][r]
      BY <2>6, <2>8
    <3> HIDE DEF g
    <3>3. m.content[g] \in [0 .. (Units - 1) -> Bytes]
      BY <3>1, <3>2 DEF ContentType
    <3> QED
      BY <2>4, <3>2, <3>3
  <2>13. ModuleFrame * Units + at = ModuleFrame * Units + s.offset + k * Units + u
    BY <2>1, <2>2 DEF at
  <2> QED
    BY <2>11, <2>12, <2>13 DEF at
<1>2. \A u \in 0 .. (Units - 1) : m.content[f][u] = Zero
  BY DEF Wiped
<1>3. Zero \in Bytes
  BY DEF Bytes
<1>4. \A u \in 0 .. (Units - 1) :
        Copied(m, s, k, f)[u] = IF k * Units + u < s.filesz THEN FileUnit(m, s.offset + k * Units + u) ELSE Zero
  BY <1>2 DEF Copied
<1>5. ASSUME NEW u \in 0 .. (Units - 1)
      PROVE  /\ Copied(m, s, k, f)[u] \in Bytes
             /\ Copied(m, s, k, f)[u] =
                  IF k * Units + u < s.filesz THEN ModuleFrame * Units + s.offset + k * Units + u ELSE Zero
  <2>1. CASE k * Units + u < s.filesz
    BY <1>1, <1>4, <2>1
  <2>2. CASE ~(k * Units + u < s.filesz)
    BY <1>3, <1>4, <2>2
  <2> QED
    BY <2>1, <2>2
<1>6. Copied(m, s, k, f) = [u \in 0 .. (Units - 1) |-> Copied(m, s, k, f)[u]]
  BY DEF Copied
<1> QED
  BY <1>5, <1>6

(* What is loaded stays so while its page and the frames in use are kept. *)
LEMMA LoadedKept ==
  ASSUME NEW m, NEW n, NEW U, NEW short, NEW P, Sound(m, U, short), Kept(m, n, P),
         NEW s, NEW k, PageLoaded(m, s, k), PageOf(s, k) \in Pages \ P
  PROVE  PageLoaded(n, s, k)
<1> DEFINE p == PageOf(s, k)
<1>1. p \in UserPages(m) /\ Mapped(m, p) /\ PDE(m, p).user
  BY DEF PageLoaded, UserPages
<1> HIDE DEF p
<1>2. p \in Pages \ P
  BY DEF p
<1>3. p \in UserPages(n) /\ PTE(n, p) = PTE(m, p)
  BY <1>1, <1>2 DEF Kept
<1>4. PTE(m, p).frame \in m.marked
  <2>1. p \div TableSize \in OpenDirs
    BY <1>1, <1>2, PageNumbers DEF Sound, Placed, PDE
  <2>2. p \in PagesIn(m, OpenDirs)
    BY <1>1, <1>2, <2>1 DEF PagesIn
  <2>3. 0 \in m.marked
    BY LoaderAssumption DEF Sound, Placed
  <2> QED
    BY <2>2, <2>3 DEF Sound, Apart
<1>5. n.content[PTE(n, p).frame] = m.content[PTE(m, p).frame]
  BY <1>3, <1>4 DEF Kept
<1> QED
  BY <1>3, <1>5 DEF PageLoaded, p

LEMMA PageOfIs ==
  ASSUME NEW s \in Segments, NEW k \in Nat
  PROVE  PageOf(s, k) = (s.vaddr \div Units) + k /\ s.vaddr \div Units \in Nat
<1> DEFINE q == s.vaddr \div Units
           r == s.vaddr % Units
<1>1. q \in Nat /\ r \in 0 .. (Units - 1) /\ s.vaddr = Units * q + r /\ Units \in Nat \ {0}
  BY Constants, DivMod DEF Segments
<1> HIDE DEF q, r
<1>2. s.vaddr + k * Units = Units * (q + k) + r
  <2>1. Units * (q + k) = Units * q + k * Units /\ Units * q \in Nat /\ k * Units \in Nat
    BY <1>1
  <2> QED
    BY <1>1, <2>1
<1>3. (s.vaddr + k * Units) \div Units = q + k
  <2> DEFINE t == q + k
  <2>1. t \in Nat /\ s.vaddr + k * Units = Units * t + r
    BY <1>1, <1>2
  <2> HIDE DEF t
  <2>2. (Units * t + r) \div Units = t
    BY <1>1, <2>1, DivOf
  <2> QED
    BY <2>1, <2>2 DEF t
<1> QED
  BY <1>1, <1>3 DEF PageOf, q

(* What elf_load may rely on in a file. *)
LEMMA SegmentFacts ==
  ASSUME image \in Images, NEW i \in 1 .. Len(image.segs)
  PROVE  LET s == image.segs[i]
         IN  /\ s \in Segments /\ NumPages(s) \in Nat /\ s.vaddr % Units = 0
             /\ s.offset + s.filesz <= ModuleFrames * Units
             /\ \A k \in 0 .. (NumPages(s) - 1) :
                  /\ PageOf(s, k) \in Pages \ {StackPage}
                  /\ PageOf(s, k) \div TableSize \in OpenDirs
                  /\ \A j \in 1 .. Len(image.segs) : \A l \in 0 .. (NumPages(image.segs[j]) - 1) :
                       i # j \/ k # l => PageOf(s, k) # PageOf(image.segs[j], l)
<1> DEFINE s == image.segs[i]
<1>1. image.segs \in Seq(Segments) /\ DOMAIN image.segs = 1 .. Len(image.segs) /\ Len(image.segs) \in Nat
  BY ImageFacts
<1>2. s \in Segments
  BY <1>1, ElementOfSeq
<1>3. NumPages(s) \in Nat
  <2>1. s.memsz + Units - 1 \in Nat
    BY <1>2, Constants DEF Segments
  <2> QED
    BY <2>1, Constants, DivMod DEF NumPages, PagesOf
<1>4. /\ s.vaddr % Units = 0
      /\ s.offset + s.filesz <= ModuleFrames * Units
      /\ \A k \in 0 .. (NumPages(s) - 1) :
           /\ PageOf(s, k) \in Pages \ {StackPage}
           /\ PageOf(s, k) \div TableSize \in OpenDirs
           /\ \A j \in DOMAIN image.segs \ {i} : \A l \in 0 .. (NumPages(image.segs[j]) - 1) :
                PageOf(s, k) # PageOf(image.segs[j], l)
  BY <1>1, ImagesAssumption
<1>5. ASSUME NEW k \in 0 .. (NumPages(s) - 1), NEW l \in 0 .. (NumPages(s) - 1), k # l
      PROVE  PageOf(s, k) # PageOf(s, l)
  <2>1. k \in Nat /\ l \in Nat
    BY <1>3
  <2>2. PageOf(s, k) = (s.vaddr \div Units) + k /\ PageOf(s, l) = (s.vaddr \div Units) + l /\ s.vaddr \div Units \in Nat
    BY <1>2, <2>1, PageOfIs
  <2> QED
    BY <1>5, <2>1, <2>2
<1> HIDE DEF s
<1>6. ASSUME NEW k \in 0 .. (NumPages(s) - 1), NEW j \in 1 .. Len(image.segs),
             NEW l \in 0 .. (NumPages(image.segs[j]) - 1), i # j \/ k # l
      PROVE  PageOf(s, k) # PageOf(image.segs[j], l)
  <2>1. CASE i = j
    BY <1>5, <1>6, <2>1 DEF s
  <2>2. CASE i # j
    BY <1>1, <1>4, <1>6, <2>2
  <2> QED
    BY <2>1, <2>2
<1> QED
  BY <1>2, <1>3, <1>4, <1>6 DEF s

LEMMA LateFacts ==
  ASSUME Inv, pc \in {"load", "stack", "user task", "idle only"}
  PROVE  /\ Sound(mem, userFrames, Short(lost)) /\ mem.stray = {}
         /\ \A f \in ModuleBuffer : mem.content[f] = Original[f]
         /\ image \in Images /\ heap \in HeapPages .. MaxHeap
<1>1. Shape /\ LateInv /\ ModuleInv
  BY DEF Inv
<1>2. pc \in Late
  BY DEF Late
<1> QED
  BY <1>1, <1>2 DEF Shape, LateInv, ModuleInv, Sound, Late

LEMMA HeapThere ==
  ASSUME NEW h \in HeapPages .. MaxHeap
  PROVE  h # 0 /\ h \in {0} \union HeapPages .. MaxHeap
  BY LoaderAssumption

(* All that has to be shown of a late step is what it does to the image. *)
LEMMA LateStep ==
  ASSUME Inv, pc \in {"load", "stack", "user task", "idle only"},
         pc' \in {"load", "stack", "user task", "idle only"},
         NEW P, Kept(mem, mem', P), Sound(mem', userFrames', Short(lost')),
         UNCHANGED <<layout, image>>, "module" \in lost' => "module" \in lost,
         lost' \subseteq {"stack", "table", "heap", "module"},
         seg' \in 1 .. (Len(image.segs) + 1), page' \in Nat, heap' \in HeapPages .. MaxHeap,
         pc' = "load" /\ image.segs # <<>> => seg' <= Len(image.segs) /\ page' <= NumPages(image.segs[seg']),
         LoadedInv'
  PROVE  Inv'
<1>1. Shape /\ ModuleInv
  BY DEF Inv
<1>2. mem' \in Memories /\ mem'.cr3 = "own" /\ mem'.stray = {} /\ \A f \in mem.marked : mem'.content[f] = mem.content[f]
  BY LateFacts DEF Kept, Sound
<1>4. Shape'
  <2>1. heap' # 0 /\ heap' \in {0} \union HeapPages .. MaxHeap
    BY HeapThere
  <2> QED
    BY <1>1, <1>2, <2>1 DEF Shape, LayoutOK, Steps, StageSteps, EntrySteps, Late
<1>5. LateInv'
  BY <1>2 DEF LateInv, Sound
<1>6. ModuleInv'
  <2>1. ModuleBuffer \subseteq mem.marked
    BY LateFacts, LoaderAssumption DEF Sound, Placed
  <2> QED
    BY <1>1, <1>2, <2>1 DEF ModuleInv
<1> QED
  BY <1>4, <1>5, <1>6 DEF Inv, Stage2Inv, EntryInv, RoomInv, StageSteps, EntrySteps

LEMMA KeptItself ==
  ASSUME NEW m \in Memories
  PROVE  Kept(m, m, {})
  BY DEF Kept

LEMMA LoadPageInv ==
  ASSUME Inv, LoadPage
  PROVE  Inv'
<1> DEFINE s == image.segs[seg]
           r == AllocateBlock(mem, 1)
           f == r.frame
           what == Copied(r.m, s, page, f)
           n == Write(r.m, {f}, what)
           p == PageOf(s, page)
           map == MapPage(n, f, p, TRUE)
           short == Short(lost)
           U == userFrames \union {f}
<1>1. /\ pc = "load" /\ image.valid /\ seg <= Len(image.segs) /\ page < NumPages(s)
      /\ UNCHANGED <<layout, image, seg, heap>>
  BY DEF LoadPage, Loading
<1>1b. \/ f = 0 /\ pc' = "idle only" /\ UNCHANGED <<mem, page, userFrames, lost>>
       \/ /\ f # 0 /\ mem' = map.m /\ page' = page + 1 /\ userFrames' = U
          /\ lost' = IF map.ok THEN lost ELSE lost \union {"table"}
          /\ UNCHANGED pc
  BY DEF LoadPage, Loading
<1>2. /\ Shape /\ LoadedInv /\ Sound(mem, userFrames, short)
      /\ \A g \in ModuleBuffer : mem.content[g] = Original[g]
      /\ image \in Images /\ heap \in HeapPages .. MaxHeap
      /\ seg \in 1 .. Len(image.segs) /\ page \in Nat /\ Len(image.segs) \in Nat
      /\ lost \subseteq {"stack", "table", "heap", "module"}
  <2>1. Shape /\ LoadedInv
    BY DEF Inv
  <2>2. Len(image.segs) \in Nat
    BY <2>1, ImageFacts DEF Shape
  <2> QED
    BY <1>1, <2>1, <2>2, LateFacts DEF Shape
<1>3. CASE f = 0 /\ pc' = "idle only" /\ UNCHANGED <<mem, page, userFrames, lost>>
  <2>1. LoadedInv'
    BY <1>3 DEF LoadedInv
  <2>2. Kept(mem, mem', {}) /\ Sound(mem', userFrames', Short(lost'))
    BY <1>2, <1>3, KeptItself DEF Sound
  <2>3. seg' \in 1 .. (Len(image.segs) + 1)
    BY <1>1, <1>2
  <2> QED
    BY <1>1, <1>2, <1>3, <2>1, <2>2, <2>3, LateStep
<1>4. CASE /\ f # 0 /\ mem' = map.m /\ page' = page + 1 /\ userFrames' = U
           /\ lost' = IF map.ok THEN lost ELSE lost \union {"table"}
           /\ UNCHANGED pc
  <2>1. /\ s \in Segments /\ NumPages(s) \in Nat
        /\ s.offset + s.filesz <= ModuleFrames * Units
        /\ \A k \in 0 .. (NumPages(s) - 1) :
             /\ PageOf(s, k) \in Pages \ {StackPage}
             /\ PageOf(s, k) \div TableSize \in OpenDirs
             /\ \A j \in 1 .. Len(image.segs) : \A l \in 0 .. (NumPages(image.segs[j]) - 1) :
                  seg # j \/ k # l => PageOf(s, k) # PageOf(image.segs[j], l)
    BY <1>2, SegmentFacts
  <2>2. /\ page \in 0 .. (NumPages(s) - 1) /\ p \in Pages /\ p \div TableSize \in OpenDirs
        /\ \A j \in 1 .. Len(image.segs) : \A l \in 0 .. (NumPages(image.segs[j]) - 1) :
             seg # j \/ page # l => p # PageOf(image.segs[j], l)
    <3>1. page \in 0 .. (NumPages(s) - 1)
      BY <1>1, <1>2, <2>1
    <3> QED
      BY <2>1, <3>1
  <2> HIDE DEF s
  <2>3. /\ f \in Frames \ mem.marked /\ f < TableSize
        /\ Sound(r.m, userFrames, short) /\ Kept(mem, r.m, {})
        /\ r.m.content[f] = Wiped
    BY <1>2, <1>4, OneFrameSound
  <2> DEFINE k == r.m
  <2>4. k \in Memories /\ k.cr3 = "own" /\ Fixed(k) /\ \A g \in ModuleBuffer : k.content[g] = Original[g]
    <3>1. ModuleBuffer \subseteq mem.marked
      BY <1>2, LoaderAssumption DEF Sound, Placed
    <3> QED
      BY <1>2, <2>3, <3>1 DEF Sound, Kept
  <2>5. /\ what \in [0 .. (Units - 1) -> Bytes]
        /\ \A u \in 0 .. (Units - 1) :
             what[u] = IF page * Units + u < s.filesz THEN ModuleFrame * Units + s.offset + page * Units + u ELSE Zero
    <3> HIDE DEF r, f, k
    <3>1. f \in Frames /\ k.content[f] = Wiped
      BY <2>3 DEF k
    <3> HIDE DEF what
    <3>2. Copied(k, s, page, f) = what
      BY DEF k, what
    <3>3. /\ Copied(k, s, page, f) \in [0 .. (Units - 1) -> Bytes]
          /\ \A u \in 0 .. (Units - 1) :
               Copied(k, s, page, f)[u] =
                 IF page * Units + u < s.filesz THEN ModuleFrame * Units + s.offset + page * Units + u ELSE Zero
      <4>1. page \in Nat
        BY <1>2
      <4> QED
        BY <2>1, <2>4, <3>1, <4>1, CopiedIs
    <3> QED
      BY <3>2, <3>3
  <2>6. /\ n \in Memories
        /\ n.marked = k.marked /\ n.cr3 = k.cr3 /\ n.boot = k.boot
        /\ n.dir = k.dir /\ n.tables = k.tables /\ n.stray = k.stray
        /\ n.content = [g \in Frames |-> IF g \in {f} THEN what ELSE k.content[g]]
    <3> DEFINE S == {f}
    <3> HIDE DEF r, f, k, what
    <3>1. S \in SUBSET Frames /\ \A g \in S : Reach(k, g) = g
      <4>1. f \in 0 .. (TableSize - 1)
        BY <2>3, Constants DEF Frames
      <4> QED
        BY <2>3, <2>4, <4>1, ReachFixed
    <3>2. Write(k, S, what) = n
      BY DEF k
    <3> HIDE DEF S, n
    <3>3. /\ n \in Memories
          /\ n.marked = k.marked /\ n.cr3 = k.cr3 /\ n.boot = k.boot
          /\ n.dir = k.dir /\ n.tables = k.tables /\ n.stray = k.stray
          /\ n.content = [g \in Frames |-> IF g \in S THEN what ELSE k.content[g]]
      BY <2>4, <2>5, <3>1, <3>2, WriteFacts
    <3> QED
      BY <3>3 DEF S
  <2>7. OwnFrame(mem, n, userFrames, short, f)
    <3> HIDE DEF n, what
    <3>1. \A g \in Frames : g # f => n.content[g] = k.content[g]
      BY <2>6
    <3> QED
      BY <1>2, <1>4, <2>6, <3>1, OwnFrameTaken
  <2> HIDE DEF r, n, what, p
  <2> HIDE DEF f
  <2>8. HasPage(n, map, U, short, p, f, TRUE)
    BY <2>2, <2>7, OwnFrameMapped
  <2>9. Sound(n, U, short) /\ Kept(mem, n, {}) /\ n.content[f] = what /\ f \in n.marked
    <3>1. f \in Frames /\ f \in U
      BY <2>3
    <3> QED
      BY <2>6, <2>7, <3>1 DEF OwnFrame, Sound, Apart
  <2> HIDE DEF map
  <2>10. Short(lost') = Short(lost) /\ ("module" \in lost' => "module" \in lost)
         /\ lost' \subseteq {"stack", "table", "heap", "module"}
         /\ ("table" \notin lost' => map.ok = TRUE /\ "table" \notin lost)
    <3>1. map.ok \in BOOLEAN
      BY <2>8 DEF HasPage
    <3>2. CASE map.ok = TRUE
      BY <1>2, <1>4, <3>2
    <3>3. CASE map.ok = FALSE
      <4>1. lost' = lost \union {"table"}
        BY <1>4, <3>3
      <4>2. Short(lost') = Short(lost)
        BY <4>1 DEF Short
      <4> QED
        BY <1>2, <4>1, <4>2
    <3> QED
      BY <3>1, <3>2, <3>3
  <2>11. Kept(mem, mem', {p}) /\ Sound(mem', userFrames', Short(lost'))
    <3>1. CASE map.ok = TRUE
      <4>1. Sound(map.m, U, short) /\ Kept(n, map.m, {p})
        BY <2>8, <3>1 DEF HasPage
      <4>2. Kept(mem, map.m, {p})
        <5>1. Kept(mem, n, {p})
          BY <2>9, KeptMore
        <5> QED
          BY <4>1, <5>1, KeptTwice
      <4> QED
        BY <1>4, <2>10, <4>1, <4>2
    <3>2. CASE map.ok = FALSE
      <4>1. map.m = n
        BY <2>8, <3>2 DEF HasPage
      <4>2. Kept(mem, n, {p})
        BY <2>9, KeptMore
      <4> QED
        BY <1>4, <2>9, <2>10, <4>1, <4>2
    <3>3. map.ok \in BOOLEAN
      BY <2>8 DEF HasPage
    <3> QED
      BY <3>1, <3>2, <3>3
  <2>12. LoadedInv'
    <3>1. SUFFICES ASSUME "table" \notin lost', NEW i \in 1 .. Len(image.segs),
                          NEW l \in 0 .. (NumPages(image.segs[i]) - 1), i < seg \/ (i = seg /\ l < page + 1)
                   PROVE  PageLoaded(mem', image.segs[i], l)
      <4>1. DOMAIN image.segs = 1 .. Len(image.segs)
        BY <1>2, ImageFacts
      <4> QED
        BY <1>1, <1>4, <4>1 DEF LoadedInv
    <3>2. map.ok = TRUE /\ "table" \notin lost
      BY <2>10, <3>1
    <3>3. NumPages(image.segs[i]) \in Nat /\ PageOf(image.segs[i], l) \in Pages
      BY <1>2, SegmentFacts
    <3>4. l \in Nat
      BY <3>3
    <3>5. CASE i = seg /\ l = page
      <4>1. Sound(mem', U, short) /\ Kept(n, mem', {p}) /\ p \in UserPages(mem') /\ PTE(mem', p).frame = f
        BY <1>4, <2>8, <3>2 DEF HasPage
      <4>2. mem'.content[f] = what
        BY <2>9, <4>1 DEF Kept
      <4>3. PageLoaded(mem', s, page)
        BY <2>5, <4>1, <4>2 DEF PageLoaded, p
      <4> QED
        BY <3>5, <4>3 DEF s
    <3>6. CASE i # seg \/ l # page
      <4>1. PageLoaded(mem, image.segs[i], l)
        <5>1. i < seg \/ (i = seg /\ l < page)
          BY <1>2, <3>1, <3>4, <3>6
        <5>2. DOMAIN image.segs = 1 .. Len(image.segs)
          BY <1>2, ImageFacts
        <5> QED
          BY <1>1, <1>2, <3>2, <5>1, <5>2 DEF LoadedInv
      <4>2. PageOf(image.segs[i], l) # p
        BY <2>2, <3>6
      <4>3. PageOf(image.segs[i], l) \in Pages \ {p}
        BY <3>3, <4>2
      <4> QED
        BY <1>2, <2>11, <4>1, <4>3, LoadedKept
    <3> QED
      BY <3>5, <3>6
  <2>13. /\ seg' \in 1 .. (Len(image.segs) + 1) /\ page' \in Nat
         /\ seg' <= Len(image.segs) /\ page' <= NumPages(image.segs[seg'])
    <3>1. seg' = seg /\ page' = page + 1 /\ page + 1 <= NumPages(image.segs[seg])
      BY <1>1, <1>2, <1>4, <2>1 DEF s
    <3> QED
      BY <1>1, <1>2, <3>1
  <2>14. pc' = "load" /\ heap' \in HeapPages .. MaxHeap /\ UNCHANGED <<layout, image>>
    BY <1>1, <1>2, <1>4
  <2> QED
    BY <1>1, <2>10, <2>11, <2>12, <2>13, <2>14, LateStep
<1> QED
  BY <1>1b, <1>3, <1>4

LEMMA NextSegmentInv ==
  ASSUME Inv, NextSegment
  PROVE  Inv'
<1>1. /\ pc = "load" /\ seg <= Len(image.segs) /\ page = NumPages(image.segs[seg])
      /\ seg' = seg + 1 /\ page' = 0 /\ pc' = (IF seg = Len(image.segs) THEN "stack" ELSE pc)
      /\ UNCHANGED <<mem, layout, image, heap, userFrames, lost>>
  BY DEF NextSegment, Loading
<1>2. Shape /\ LoadedInv
  BY DEF Inv
<1>3. image \in Images /\ Len(image.segs) \in Nat /\ seg \in 1 .. Len(image.segs) /\ DOMAIN image.segs = 1 .. Len(image.segs)
  BY <1>1, <1>2, ImageFacts DEF Shape
<1>4. heap \in HeapPages .. MaxHeap /\ Sound(mem, userFrames, Short(lost))
  BY <1>1, LateFacts
<1>5. Kept(mem, mem', {})
  BY <1>1, <1>4, KeptItself DEF Sound
<1>6. \A i \in 1 .. Len(image.segs) : NumPages(image.segs[i]) \in Nat
  BY <1>3, SegmentFacts
<1>7. LoadedInv'
  <2>1. SUFFICES ASSUME "table" \notin lost, NEW i \in 1 .. Len(image.segs),
                        NEW l \in 0 .. (NumPages(image.segs[i]) - 1),
                        i < seg + 1 \/ (i = seg + 1 /\ l < 0)
                 PROVE  PageLoaded(mem, image.segs[i], l)
    BY <1>1, <1>3 DEF LoadedInv, PageLoaded
  <2>2. i < seg \/ (i = seg /\ l < page)
    BY <1>1, <1>3, <1>6, <2>1
  <2> QED
    BY <1>1, <1>2, <1>3, <2>1, <2>2 DEF LoadedInv
<1>8. pc' \in {"load", "stack"} /\ (pc' = "load" => seg' <= Len(image.segs))
  BY <1>1, <1>3
<1>9. seg' \in 1 .. (Len(image.segs) + 1) /\ page' \in Nat
  BY <1>1, <1>3
<1>10. pc' = "load" => page' <= NumPages(image.segs[seg'])
  BY <1>1, <1>6, <1>8, <1>9
<1>11. lost \subseteq {"stack", "table", "heap", "module"}
  BY <1>2 DEF Shape
<1>12. Sound(mem', userFrames', Short(lost'))
  BY <1>1, <1>4
<1> QED
  BY <1>1, <1>4, <1>5, <1>7, <1>8, <1>9, <1>10, <1>11, <1>12, LateStep

(* Pages where no part of an image is. *)
OffImage(P) == \A p \in P : p = StackPage \/ p \div TableSize \notin OpenDirs

(* The image is left alone by what is mapped elsewhere. *)
LEMMA LoadedStep ==
  ASSUME Inv, pc \in {"stack", "user task"}, pc' = "user task",
         NEW P, Kept(mem, mem', P), UNCHANGED <<image, seg, page>>, "table" \in lost => "table" \in lost',
         OffImage(P)
  PROVE  LoadedInv'
<1>1. LoadedInv /\ image \in Images /\ Sound(mem, userFrames, Short(lost))
  BY LateFacts DEF Inv
<1>2. DOMAIN image.segs = 1 .. Len(image.segs) /\ seg = Len(image.segs) + 1
  BY <1>1, ImageFacts DEF LoadedInv
<1>3. ASSUME "table" \notin lost', NEW i \in 1 .. Len(image.segs), NEW l \in 0 .. (NumPages(image.segs[i]) - 1),
             i < seg \/ (i = seg /\ l < page)
      PROVE  PageLoaded(mem', image.segs[i], l)
  <2>1. PageLoaded(mem, image.segs[i], l)
    BY <1>1, <1>2, <1>3 DEF LoadedInv
  <2>2. PageOf(image.segs[i], l) \in Pages \ {StackPage} /\ PageOf(image.segs[i], l) \div TableSize \in OpenDirs
    BY <1>1, SegmentFacts
  <2>3. PageOf(image.segs[i], l) \in Pages \ P
    BY <2>2 DEF OffImage
  <2> QED
    BY <1>1, <2>1, <2>3, LoadedKept
<1> QED
  BY <1>2, <1>3 DEF LoadedInv

LEMMA ShortSound ==
  ASSUME NEW m, NEW U, NEW short, Sound(m, U, short)
  PROVE  Sound(m, U, TRUE)
  BY DEF Sound, Apart

LEMMA MapStackInv ==
  ASSUME Inv, MapStack
  PROVE  Inv'
<1> DEFINE r == AllocateBlock(mem, 1)
           f == r.frame
           k == r.m
           map == MapPage(k, f, StackPage, TRUE)
           U == userFrames'
           short == Short(lost')
<1>1. /\ pc = "stack" /\ pc' = "user task" /\ UNCHANGED <<layout, image, seg, page, heap>>
      /\ mem' = map.m /\ U = userFrames \union ({f} \ {0})
  BY DEF MapStack
<1>2. lost' = lost \union (IF f = 0 THEN {"stack"} ELSE {}) \union (IF map.ok THEN {} ELSE {"table"})
  BY DEF MapStack
<1>3. /\ Shape /\ Sound(mem, userFrames, Short(lost))
      /\ image \in Images /\ heap \in HeapPages .. MaxHeap
  BY <1>1, LateFacts DEF Inv
<1>4. StackPage \in Pages /\ StackPage \div TableSize \in OpenDirs
  BY LoaderAssumption
<1>5. ASSUME f = 0
      PROVE  HasPage(k, map, U, short, StackPage, f, TRUE) /\ Sound(k, U, short) /\ Kept(mem, k, {})
  <2>1. k = mem
    BY <1>3, <1>5, OneFrameSound
  <2>2. Sound(mem, userFrames, TRUE)
    BY <1>3, ShortSound
  <2>3. Allowed(mem, userFrames, TRUE, StackPage, 0)
    <3>1. \A q \in PagesIn(mem, OpenDirs) : q # StackPage => PTE(mem, q).frame \in userFrames
      BY <1>3 DEF Sound, Apart
    <3>2. 0 \notin userFrames
      BY <1>3, LoaderAssumption DEF Sound, Apart
    <3>3. StackPage \div TableSize \notin HeapDirs
      BY <1>4 DEF OpenDirs
    <3> QED
      BY <1>4, <3>1, <3>2, <3>3 DEF Allowed
  <2>4. HasPage(k, map, U, short, StackPage, f, TRUE) /\ Sound(k, U, short) /\ Kept(mem, k, {})
    <3>1. U = userFrames /\ short = TRUE
      BY <1>1, <1>2, <1>5 DEF Short
    <3>2. 0 \in Frames
      BY Constants DEF Frames
    <3> DEFINE t == TRUE
    <3>3. t \in BOOLEAN /\ (t = TRUE => StackPage \div TableSize \in OpenDirs)
      BY <1>4
    <3>4. Sound(mem, userFrames, t) /\ Allowed(mem, userFrames, t, StackPage, 0)
      BY <2>2, <2>3
    <3> HIDE DEF t
    <3>5. HasPage(mem, MapPage(mem, 0, StackPage, t), userFrames, t, StackPage, 0, t)
      BY <1>4, <3>2, <3>3, <3>4, MapPageSound
    <3>6. Kept(mem, mem, {})
      BY <1>3, KeptItself DEF Sound
    <3> QED
      BY <1>5, <2>1, <2>2, <3>1, <3>5, <3>6 DEF t
  <2> QED
    BY <2>4
<1>6. ASSUME f # 0
      PROVE  HasPage(k, map, U, short, StackPage, f, TRUE) /\ Sound(k, U, short) /\ Kept(mem, k, {})
  <2>1. OwnFrame(mem, k, userFrames, Short(lost), f)
    <3> HIDE DEF k, f
    <3>1. k \in Memories
      <4>1. Sound(k, userFrames, Short(lost))
        BY <1>3, <1>6, OneFrameSound DEF k, f
      <4> QED
        BY <4>1 DEF Sound
    <3> QED
      BY <1>3, <1>6, <3>1, OwnFrameTaken DEF k, f
  <2>2. Short(lost') = Short(lost)
    <3>1. CASE map.ok
      <4>1. lost' = lost
        BY <1>2, <1>6, <3>1
      <4> QED
        BY <4>1
    <3>2. CASE ~map.ok
      <4>1. lost' = lost \union {"table"}
        BY <1>2, <1>6, <3>2
      <4> QED
        BY <4>1 DEF Short
    <3> QED
      BY <3>1, <3>2
  <2>3. U = userFrames \union {f}
    BY <1>1, <1>6
  <2> HIDE DEF U, short, k, f, map
  <2>4. HasPage(k, MapPage(k, f, StackPage, TRUE), userFrames \union {f}, Short(lost), StackPage, f, TRUE)
    BY <1>4, <2>1, OwnFrameMapped
  <2>5. Sound(k, userFrames \union {f}, Short(lost)) /\ Kept(mem, k, {})
    BY <2>1 DEF OwnFrame
  <2>6. Sound(k, U, short) /\ HasPage(k, map, U, short, StackPage, f, TRUE)
    BY <2>2, <2>3, <2>4, <2>5 DEF short, map
  <2> QED
    BY <2>5, <2>6
<1> HIDE DEF k, f, map, U, short
<1>7. HasPage(k, map, U, short, StackPage, f, TRUE) /\ Sound(k, U, short) /\ Kept(mem, k, {})
  BY <1>5, <1>6
<1>8. Kept(mem, mem', {StackPage}) /\ Sound(mem', userFrames', Short(lost'))
  <2>1. Kept(mem, k, {StackPage})
    BY <1>7, KeptMore
  <2>2. CASE map.ok = TRUE
    <3>1. Sound(map.m, U, short) /\ Kept(k, map.m, {StackPage})
      BY <1>7, <2>2 DEF HasPage
    <3>2. Kept(mem, map.m, {StackPage})
      BY <2>1, <3>1, KeptTwice
    <3> QED
      BY <1>1, <3>1, <3>2 DEF U, short
  <2>3. CASE map.ok = FALSE
    <3>1. map.m = k
      BY <1>7, <2>3 DEF HasPage
    <3> QED
      BY <1>1, <1>7, <2>1, <3>1 DEF U, short
  <2>4. map.ok \in BOOLEAN
    BY <1>7 DEF HasPage
  <2> QED
    BY <2>2, <2>3, <2>4
<1>9. /\ lost' \subseteq {"stack", "table", "heap", "module"}
      /\ "module" \in lost' => "module" \in lost
      /\ "table" \in lost => "table" \in lost'
  BY <1>2, <1>3 DEF Shape
<1>10. LoadedInv'
  <2>1. pc \in {"stack", "user task"} /\ pc' = "user task" /\ UNCHANGED <<image, seg, page>>
    BY <1>1
  <2>2. OffImage({StackPage})
    BY DEF OffImage
  <2>3. Kept(mem, mem', {StackPage}) /\ ("table" \in lost => "table" \in lost')
    BY <1>8, <1>9
  <2> QED
    BY <2>1, <2>2, <2>3, LoadedStep
<1>11. seg' \in 1 .. (Len(image.segs) + 1) /\ page' \in Nat
  BY <1>1, <1>3 DEF Shape
<1>12. /\ pc \in {"load", "stack", "user task", "idle only"} /\ pc' = "user task"
       /\ UNCHANGED <<layout, image>> /\ heap' \in HeapPages .. MaxHeap
  BY <1>1, <1>3
<1> QED
  BY <1>8, <1>9, <1>10, <1>11, <1>12, LateStep

LEMMA HeapGrows ==
  ASSUME NEW h \in HeapPages .. MaxHeap, h < MaxHeap
  PROVE  h \in 0 .. (MaxHeap - 1) /\ h + 1 \in HeapPages .. MaxHeap
  BY LoaderAssumption

LEMMA GrowHeapInv ==
  ASSUME Inv, GrowHeap
  PROVE  Inv'
<1> DEFINE r == AllocateBlock(mem, 1)
           f == r.frame
           k == r.m
           p == HeapPage + heap
           map == MapPage(k, f, p, FALSE)
           short == Short(lost)
<1>1. /\ pc \in {"user task", "idle only"} /\ heap < MaxHeap /\ mem' = map.m /\ heap' = heap + 1
      /\ UNCHANGED <<pc, layout, image, seg, page, userFrames>>
  BY DEF GrowHeap
<1>2. lost' = lost \union (IF f = 0 THEN {"heap"} ELSE {}) \union (IF map.ok THEN {} ELSE {"table"})
  BY DEF GrowHeap
<1>3. /\ Shape /\ Sound(mem, userFrames, short)
      /\ image \in Images /\ heap \in HeapPages .. MaxHeap
  BY <1>1, LateFacts DEF Inv
<1>4. heap \in 0 .. (MaxHeap - 1)
  <2>1. heap \in HeapPages .. MaxHeap /\ heap < MaxHeap
    BY <1>1, <1>3
  <2> QED
    BY <2>1, HeapGrows
<1>5. p \in Pages /\ p \div TableSize \in HeapDirs /\ p \div TableSize \notin OpenDirs
  BY <1>4, HeapPagesIn
<1>6. f \in Frames /\ Sound(k, userFrames, short) /\ Kept(mem, k, {})
      /\ f \in {0} \union (k.marked \ (Reserved \union userFrames \union DOMAIN k.tables))
  <2>1. CASE f = 0
    <3>1. k = mem
      BY <1>3, <2>1, OneFrameSound
    <3>2. Kept(mem, mem, {})
      BY <1>3, KeptItself DEF Sound
    <3>3. 0 \in Frames
      BY Constants DEF Frames
    <3> QED
      BY <1>3, <2>1, <3>1, <3>2, <3>3
  <2>2. CASE f # 0
    <3>1. /\ f \in Frames \ mem.marked
          /\ Sound(k, userFrames, short) /\ Kept(mem, k, {})
          /\ f \notin Reserved \union userFrames \union DOMAIN k.tables
          /\ k.marked = mem.marked \union {f}
      BY <1>3, <2>2, OneFrameSound
    <3> QED
      BY <3>1
  <2> QED
    BY <2>1, <2>2
<1> HIDE DEF k, f, p
<1>7. HasPage(k, map, userFrames, short, p, f, FALSE)
  <2>1. Allowed(k, userFrames, short, p, f)
    BY <1>5, <1>6 DEF Allowed
  <2> DEFINE t == FALSE
  <2>2. t \in BOOLEAN /\ t # TRUE
    OBVIOUS
  <2> HIDE DEF t
  <2>3. HasPage(k, MapPage(k, f, p, t), userFrames, short, p, f, t)
    BY <1>5, <1>6, <2>1, <2>2, MapPageSound
  <2> QED
    BY <2>3 DEF t
<1> HIDE DEF map
<1>8. Short(lost') = Short(lost)
  <2>1. "stack" \in lost' <=> "stack" \in lost
    BY <1>2
  <2> QED
    BY <2>1 DEF Short
<1>9. Kept(mem, mem', {p}) /\ Sound(mem', userFrames', Short(lost'))
  <2>1. Kept(mem, k, {p})
    BY <1>6, KeptMore
  <2>2. CASE map.ok = TRUE
    <3>1. Sound(map.m, userFrames, short) /\ Kept(k, map.m, {p})
      BY <1>7, <2>2 DEF HasPage
    <3> QED
      BY <1>1, <1>8, <2>1, <3>1, KeptTwice
  <2>3. CASE map.ok = FALSE
    <3>1. map.m = k
      BY <1>7, <2>3 DEF HasPage
    <3> QED
      BY <1>1, <1>6, <1>8, <2>1, <3>1
  <2>4. map.ok \in BOOLEAN
    BY <1>7 DEF HasPage
  <2> QED
    BY <2>2, <2>3, <2>4
<1>10. /\ lost' \subseteq {"stack", "table", "heap", "module"}
       /\ "module" \in lost' => "module" \in lost
       /\ "table" \in lost => "table" \in lost'
  BY <1>2, <1>3 DEF Shape
<1>11. LoadedInv'
  <2>1. CASE pc = "user task"
    <3>1. OffImage({p})
      BY <1>5 DEF OffImage
    <3> QED
      <4>1. pc \in {"stack", "user task"} /\ pc' = "user task" /\ UNCHANGED <<image, seg, page>>
        BY <1>1, <2>1
      <4>2. Kept(mem, mem', {p}) /\ ("table" \in lost => "table" \in lost')
        BY <1>9, <1>10
      <4> QED
        BY <3>1, <4>1, <4>2, LoadedStep
  <2>2. CASE pc = "idle only"
    BY <1>1, <2>2 DEF LoadedInv
  <2> QED
    BY <1>1, <2>1, <2>2
<1>12. seg' \in 1 .. (Len(image.segs) + 1) /\ page' \in Nat /\ heap' \in HeapPages .. MaxHeap
  <2>1. heap \in HeapPages .. MaxHeap /\ heap < MaxHeap /\ heap' = heap + 1
    BY <1>1, <1>3
  <2>2. heap' \in HeapPages .. MaxHeap
    BY <2>1, HeapGrows
  <2>3. seg' \in 1 .. (Len(image.segs) + 1) /\ page' \in Nat
    BY <1>1, <1>3 DEF Shape
  <2> QED
    BY <2>2, <2>3
<1>13. /\ pc \in {"load", "stack", "user task", "idle only"}
       /\ pc' \in {"load", "stack", "user task", "idle only"} /\ pc' # "load"
       /\ UNCHANGED <<layout, image>>
  BY <1>1
<1> QED
  BY <1>9, <1>10, <1>11, <1>12, <1>13, LateStep
-----------------------------------------------------------------------------
(* Every step keeps the invariant. *)

LEMMA InvKept == Inv /\ [Next]_vars => Inv'
<1> SUFFICES ASSUME Inv, [Next]_vars
             PROVE  Inv'
  OBVIOUS
<1>1. CASE HandoverNext /\ UNCHANGED <<image, seg, page, heap, userFrames, lost>>
  BY <1>1, Stage2FramesInv, Stage2TablesInv, UnmapKernelInv, EnterKernelInv DEF HandoverNext
<1>2. CASE InitMemory
  BY <1>2, InitMemoryInv
<1>3. CASE BuildTables
  BY <1>3, BuildTablesInv
<1>4. CASE SwitchTables
  BY <1>4, SwitchTablesInv
<1>5. CASE InitTask
  BY <1>5, InitTaskInv
<1>6. CASE ReadModuleCount
  BY <1>6, ReadModuleCountInv
<1>7. CASE Refuse
  BY <1>7, RefuseInv
<1>8. CASE LoadPage
  BY <1>8, LoadPageInv
<1>9. CASE NextSegment
  BY <1>9, NextSegmentInv
<1>10. CASE MapStack
  BY <1>10, MapStackInv
<1>11. CASE GrowHeap
  BY <1>11, GrowHeapInv
<1>12. CASE UNCHANGED vars
  <2>1. /\ pc' = pc /\ mem' = mem /\ layout' = layout /\ image' = image /\ seg' = seg /\ page' = page
        /\ heap' = heap /\ userFrames' = userFrames /\ lost' = lost
    BY <1>12 DEF vars
  <2>2. Shape'
    BY <2>1 DEF Inv, Shape, LayoutOK
  <2>3. Stage2Inv'
    <3>1. StageLow' = StageLow /\ StageFree' = StageFree /\ StageImage' = StageImage
      BY <2>1 DEF StageLow, StageFree, StageImage
    <3>2. Stage2Inv
      BY DEF Inv
    <3> QED
      BY <2>1, <3>1, <3>2 DEF Stage2Inv
  <2>4. EntryInv'
    <3>1. StageFree' = StageFree
      BY <2>1 DEF StageFree
    <3>2. EntryInv
      BY DEF Inv
    <3> QED
      BY <2>1, <3>1, <3>2 DEF EntryInv
  <2>5. RoomInv'
    BY <2>1 DEF Inv, RoomInv, HeapRuns
  <2>6. LateInv'
    BY <2>1 DEF Inv, LateInv
  <2>7. ModuleInv'
    BY <2>1 DEF Inv, ModuleInv, ParamsIntact
  <2>8. LoadedInv'
    <3>1. LoadedInv
      BY DEF Inv
    <3>2. \A s, k : PageLoaded(mem', s, k) = PageLoaded(mem, s, k)
      BY <2>1
    <3> QED
      BY <2>1, <3>1, <3>2 DEF LoadedInv
  <2> QED
    BY <2>2, <2>3, <2>4, <2>5, <2>6, <2>7, <2>8 DEF Inv
<1> QED
  BY <1>1, <1>2, <1>3, <1>4, <1>5, <1>6, <1>7, <1>8, <1>9, <1>10, <1>11, <1>12 DEF Next

(* The inductive invariant, for every value of the constants. *)
THEOREM InvHolds == Spec => []Inv
<1>1. Init => Inv
  BY InitInv
<1>2. Inv /\ [Next]_vars => Inv'
  BY InvKept
<1> QED
  BY <1>1, <1>2, PTL DEF Spec
-----------------------------------------------------------------------------
(* What follows from the invariant. *)

(* Nothing is open to ring 3 before the first heap is made. *)
LEMMA NoUserPages ==
  ASSUME Inv, pc \notin Late
  PROVE  UserPages(mem) = {} /\ HeapFrames = {} /\ userFrames = {}
<1>1. Shape /\ Stage2Inv /\ EntryInv /\ pc \in StageSteps \union EntrySteps
  BY DEF Inv, Shape, Steps, Late, StageSteps, EntrySteps
<1>2. heap = 0 /\ userFrames = {}
  BY <1>1 DEF Shape
<1>3. \A d \in 0 .. (Dirs - 1) : ~mem.dir[d].user
  <2>1. CASE NoOwnTables(mem)
    BY <2>1 DEF NoOwnTables, NoTables, NoEntry
  <2>2. CASE \E S \in SUBSET Frames : \E low : TablesIn(mem, S, low)
    <3>1. PICK b, c \in Frames : mem.dir = BuiltDir(b, c)
      BY <2>2 DEF TablesIn
    <3> QED
      BY <3>1, BuiltEntries
  <2>3. StageFree \in SUBSET Frames /\ ImageTo(layout.end) \in SUBSET Frames
    <3>1. layout.end \in StageEnds
      BY <1>1 DEF Shape, LayoutOK
    <3>2. ImageTo(layout.end) \in SUBSET Frames
      BY <3>1, Places
    <3>3. StageFree \in SUBSET Frames
      <4>1. StackFrame \in Nat /\ StackFrame < Memory /\ Memory \in Nat
        BY MorePlaces, Constants DEF Frames
      <4>2. 0 .. (StackFrame - 1) \subseteq Frames
        BY <4>1 DEF Frames
      <4> QED
        BY <4>2 DEF StageFree
    <3> QED
      BY <3>2, <3>3
  <2>4. NoOwnTables(mem) \/ TablesIn(mem, StageFree, StageLow) \/ TablesIn(mem, ImageTo(layout.end), WholeTable(0))
    BY <1>1 DEF Stage2Inv, EntryInv, StageSteps, EntrySteps
  <2> QED
    BY <2>1, <2>2, <2>3, <2>4
<1>4. UserPages(mem) = {}
  BY <1>3, PageNumbers DEF UserPages, PDE
<1>5. HeapFrames = {}
  BY <1>2 DEF HeapFrames
<1> QED
  BY <1>2, <1>4, <1>5

LEMMA UserOpen ==
  ASSUME NEW m, Placed(m), NEW p \in UserPages(m)
  PROVE  p \in PagesIn(m, OpenDirs) /\ p \div TableSize \in OpenDirs
  BY PageNumbers DEF Placed, UserPages, PagesIn, PDE

LEMMA HeapOwn ==
  ASSUME Inv, pc \in Late, NEW f \in HeapFrames
  PROVE  f \in {0} \union (mem.marked \ (Reserved \union userFrames \union DOMAIN mem.tables))
<1>1. PICK i \in 0 .. (heap - 1) : Mapped(mem, HeapPage + i) /\ f = PTE(mem, HeapPage + i).frame
  BY DEF HeapFrames
<1>2. i \in 0 .. (MaxHeap - 1)
  <2>1. heap \in {0} \union HeapPages .. MaxHeap
    BY DEF Inv, Shape
  <2> QED
    BY <2>1, LoaderAssumption
<1>3. HeapPage + i \in PagesIn(mem, HeapDirs)
  BY <1>1, <1>2, HeapPagesIn DEF PagesIn
<1> QED
  BY <1>1, <1>3 DEF Inv, LateInv, Apart

LEMMA Confined == Inv => UserConfined
<1> SUFFICES ASSUME Inv
             PROVE  UserConfined
  OBVIOUS
<1>1. CASE pc \notin Late
  BY <1>1, NoUserPages DEF UserConfined
<1>2. CASE pc \in Late
  <2>1. Placed(mem) /\ Apart(mem, userFrames, Short(lost))
    BY <1>2 DEF Inv, LateInv
  <2>2. ASSUME NEW p \in UserPages(mem)
        PROVE  PTE(mem, p).frame \in userFrames \union (IF "stack" \in lost THEN {0} ELSE {})
    <3>1. p \in PagesIn(mem, OpenDirs)
      BY <2>1, <2>2, UserOpen
    <3>2. PTE(mem, p).frame \in userFrames \/ (PTE(mem, p).frame = 0 /\ Short(lost))
      BY <2>1, <3>1 DEF Apart
    <3> QED
      BY <3>2 DEF Short
  <2>3. ASSUME NEW p \in UserPages(mem), NEW q \in UserPages(mem), p # q
        PROVE  PTE(mem, p).frame # PTE(mem, q).frame
    <3>1. p \in PagesIn(mem, OpenDirs) /\ q \in PagesIn(mem, OpenDirs)
      BY <2>1, <2>3, UserOpen
    <3> QED
      BY <2>1, <2>3, <3>1 DEF Apart
  <2>4. userFrames \intersect (DOMAIN mem.tables \union HeapFrames \union Reserved) = {}
    <3>1. userFrames \subseteq mem.marked \ (Reserved \union DOMAIN mem.tables)
      BY <2>1 DEF Apart
    <3>2. 0 \notin userFrames
      BY <3>1, LoaderAssumption
    <3> QED
      BY <1>2, <3>1, <3>2, HeapOwn
  <2> QED
    BY <2>2, <2>3, <2>4 DEF UserConfined
<1> QED
  BY <1>1, <1>2

LEMMA MapKept == Inv => FixedMapKept
<1> SUFFICES ASSUME Inv, mem.cr3 = "own", pc \notin {"unmap", "jump"}
             PROVE  /\ \A p \in 0 .. (TableSize - 1) : Mapped(mem, p) /\ PTE(mem, p).frame = p
                    /\ \A i \in 0 .. (TableSize - 1) :
                         LET p == KernelDir * TableSize + i
                         IN  Mapped(mem, p) /\ PTE(mem, p).frame = KernelFrame + i
                    /\ \A p \in UserPages(mem) : p \div TableSize \notin {0, KernelDir, HeapPage \div TableSize}
                    /\ HeapFrames \intersect (DOMAIN mem.tables \union Reserved) \subseteq {0}
  BY DEF FixedMapKept
<1>1. pc \in Late
  BY DEF Inv, Shape, Stage2Inv, EntryInv, Steps, StageSteps, EntrySteps, Late
<1>2. Placed(mem) /\ Fixed(mem)
  BY <1>1 DEF Inv, LateInv
<1>3. 0 \notin OpenDirs /\ KernelDir \notin OpenDirs /\ HeapPage \div TableSize \notin OpenDirs
  <2>1. HeapPage \div TableSize \notin OpenDirs
    <3>1. 0 \in 0 .. (MaxHeap - 1) /\ HeapPage + 0 = HeapPage
      BY LoaderAssumption
    <3> QED
      BY <3>1, HeapPagesIn
  <2> QED
    BY <2>1 DEF OpenDirs
<1>4. \A p \in UserPages(mem) : p \div TableSize \notin {0, KernelDir, HeapPage \div TableSize}
  BY <1>2, <1>3, UserOpen
<1>5. HeapFrames \intersect (DOMAIN mem.tables \union Reserved) \subseteq {0}
  BY <1>1, HeapOwn
<1> QED
  BY <1>2, <1>4, <1>5, FixedPages

LEMMA RoundsUp ==
  ASSUME NEW a \in Nat, NEW n \in Nat \ {0}, NEW k \in 0 .. (a - 1)
  PROVE  k \div n \in 0 .. (((a + n - 1) \div n) - 1)
<1> DEFINE K == k \div n
           r == k % n
           N == (a + n - 1) \div n
           t == (a + n - 1) % n
<1>1. K \in Nat /\ r \in 0 .. (n - 1) /\ k = n * K + r
  <2>1. k \in Nat
    OBVIOUS
  <2> QED
    BY <2>1, DivMod
<1>2. N \in Nat /\ t \in 0 .. (n - 1) /\ a + n - 1 = n * N + t
  <2>1. a + n - 1 \in Nat
    OBVIOUS
  <2> QED
    BY <2>1, DivMod
<1> HIDE DEF K, r, N, t
<1>3. SUFFICES ASSUME K >= N PROVE FALSE
  BY <1>1, <1>2 DEF K, N
<1>4. PICK d \in Nat : K = N + d
  BY <1>1, <1>2, <1>3
<1>5. n * K = n * N + n * d /\ n * d \in Nat /\ n * N \in Nat
  BY <1>2, <1>4
<1> QED
  BY <1>1, <1>2, <1>5

(* The byte of a segment that is k behind its start, found by its address.   *)
UnitLoaded(m, s, k) ==
  LET p == (s.vaddr + k) \div Units
  IN  /\ p \in UserPages(m)
      /\ m.content[PTE(m, p).frame][(s.vaddr + k) % Units]
           = IF k < s.filesz THEN ModuleFrame * Units + s.offset + k ELSE Zero

LEMMA UnitOfPage ==
  ASSUME NEW m, NEW s \in Segments, s.vaddr % Units = 0, NEW k \in Nat, PageLoaded(m, s, k \div Units)
  PROVE  UnitLoaded(m, s, k)
<1> DEFINE v == s.vaddr
           o == s.offset
           p == (v + k) \div Units
           K == k \div Units
           r == k % Units
           q == v \div Units
<1>0. Units \in Nat \ {0} /\ ModuleFrame \in Nat
  BY Constants, HandoverAssumption
<1>1. v \in Nat /\ o \in Nat
  BY DEF Segments
<1>2. K \in Nat /\ r \in 0 .. (Units - 1) /\ k = Units * K + r
  BY <1>0, DivMod
<1>3. q \in Nat /\ v = Units * q
  <2>1. q \in Nat /\ v = Units * q + (v % Units) /\ v % Units = 0
    BY <1>0, <1>1, DivMod
  <2> HIDE DEF q, v
  <2>2. Units * q \in Nat
    BY <1>0, <2>1
  <2> QED
    BY <2>1, <2>2
<1>4. PageOf(s, K) = q + K
  BY <1>2, PageOfIs
<1>5. /\ PageOf(s, K) \in UserPages(m)
      /\ m.content[PTE(m, PageOf(s, K)).frame][r] =
           IF K * Units + r < s.filesz THEN ModuleFrame * Units + o + K * Units + r ELSE Zero
  BY <1>2 DEF PageLoaded
<1> HIDE DEF K, r, q, v, o
<1>6. p = q + K /\ (v + k) % Units = r
  <2> DEFINE t == q + K
  <2>1. t \in Nat /\ v + k = Units * t + r
    <3>1. Units * (q + K) = Units * q + Units * K
      BY <1>0, <1>2, <1>3
    <3>2. Units * q \in Nat /\ Units * K \in Nat
      BY <1>0, <1>2, <1>3
    <3> QED
      BY <1>0, <1>2, <1>3, <3>1, <3>2
  <2> HIDE DEF t
  <2>2. (Units * t + r) \div Units = t /\ (Units * t + r) % Units = r
    BY <1>0, <1>2, <2>1, DivOf
  <2> QED
    BY <2>1, <2>2 DEF t
<1>7. /\ K * Units + r = k
      /\ ModuleFrame * Units + o + K * Units + r = ModuleFrame * Units + o + k
  <2>1. ModuleFrame * Units \in Nat /\ K * Units = Units * K /\ Units * K \in Nat /\ r \in Nat
    BY <1>0, <1>2
  <2> QED
    BY <1>1, <1>2, <2>1
<1> HIDE DEF p
<1>8. /\ p \in UserPages(m)
      /\ m.content[PTE(m, p).frame][(v + k) % Units]
           = IF k < s.filesz THEN ModuleFrame * Units + o + k ELSE Zero
  BY <1>4, <1>5, <1>6, <1>7
<1> QED
  BY <1>8 DEF UnitLoaded, p, v, o

LEMMA UpTo ==
  ASSUME NEW a \in Nat, NEW k
  PROVE  k \in 0 .. (a - 1) <=> (k \in Nat /\ k < a)
  OBVIOUS

LEMMA OneMore ==
  ASSUME NEW n \in Nat, NEW i \in 1 .. n
  PROVE  i < n + 1
  OBVIOUS

LEMMA SegmentLoaded ==
  ASSUME Inv, pc = "user task", "table" \notin lost, NEW i \in 1 .. Len(image.segs), NEW k \in Nat,
         NEW a \in Nat, a = image.segs[i].memsz, k < a
  PROVE  UnitLoaded(mem, image.segs[i], k)
<1> DEFINE s == image.segs[i]
<1>1. LoadedInv /\ image \in Images /\ Len(image.segs) \in Nat /\ DOMAIN image.segs = 1 .. Len(image.segs)
  BY ImageFacts DEF Inv, Shape
<1>2. s \in Segments /\ s.vaddr % Units = 0
  BY <1>1, SegmentFacts
<1>3. k \div Units \in 0 .. (NumPages(s) - 1)
  <2>0. Units \in Nat \ {0}
    BY Constants
  <2>1. k \in 0 .. (a - 1)
    BY UpTo
  <2>2. k \div Units \in 0 .. (((a + Units - 1) \div Units) - 1)
    BY <2>0, <2>1, RoundsUp
  <2> QED
    BY <2>2 DEF NumPages, PagesOf
<1>4. i < seg
  <2>1. seg = Len(image.segs) + 1
    BY <1>1 DEF LoadedInv
  <2>2. i < Len(image.segs) + 1
    BY <1>1, OneMore
  <2> QED
    BY <2>1, <2>2
<1>5. i \in DOMAIN image.segs
  BY <1>1
<1>6. PageLoaded(mem, s, k \div Units)
  BY <1>1, <1>3, <1>4, <1>5 DEF LoadedInv
<1> QED
  BY <1>2, <1>6, UnitOfPage

LEMMA LoadedAll == Inv => LoadedImage
<1> SUFFICES ASSUME Inv, pc = "user task", "table" \notin lost
             PROVE  \A i \in DOMAIN image.segs : \A k \in 0 .. (image.segs[i].memsz - 1) :
                      UnitLoaded(mem, image.segs[i], k)
  BY DEF LoadedImage, UnitLoaded
<1>1. DOMAIN image.segs = 1 .. Len(image.segs) /\ \A i \in DOMAIN image.segs : image.segs[i] \in Segments
  BY ImageFacts, SegmentFacts DEF Inv, Shape
<1>2. ASSUME NEW i \in DOMAIN image.segs, NEW a \in Nat, a = image.segs[i].memsz, NEW k \in 0 .. (a - 1)
      PROVE  UnitLoaded(mem, image.segs[i], k)
  <2>1. k \in Nat /\ k < a
    BY <1>2, UpTo
  <2>2. i \in 1 .. Len(image.segs)
    BY <1>1
  <2> QED
    BY <1>2, <2>1, <2>2, SegmentLoaded
<1>3. \A i \in DOMAIN image.segs : image.segs[i].memsz \in Nat
  BY <1>1 DEF Segments
<1> QED
  BY <1>2, <1>3

LEMMA TypesKept == Inv => TypeOK
<1> SUFFICES ASSUME Inv
             PROVE  TypeOK
  OBVIOUS
<1>1. Shape
  BY DEF Inv
<1>2. mem \in Memories
  BY <1>1 DEF Shape
<1>3. mem.marked \subseteq Frames /\ mem.dir \in [0 .. (Dirs - 1) -> Entries] /\ DOMAIN mem.tables \subseteq Frames
      /\ mem.content \in ContentType
  BY <1>2, MemoryFields DEF DirType
<1>4. mem.content \in [Frames -> [0 .. (Units - 1) -> (0 .. (Memory * Units - 1)) \union {Zero}]]
  BY <1>3 DEF ContentType, Bytes
<1>5. userFrames \subseteq Frames \ {0}
  <2>1. CASE pc \in Late
    BY <1>3, <2>1, LoaderAssumption DEF Inv, LateInv, Apart
  <2>2. CASE pc \notin Late
    BY <2>2, NoUserPages
  <2> QED
    BY <2>1, <2>2
<1> QED
  BY <1>1, <1>3, <1>4, <1>5 DEF Shape, TypeOK

LEMMA HandedOver == Inv => HandoverComplete
<1> SUFFICES ASSUME Inv
             PROVE  HandoverComplete
  OBVIOUS
<1>1. Shape /\ Stage2Inv /\ EntryInv /\ LateInv /\ ModuleInv
  BY DEF Inv
<1>2. pc \in Steps /\ pc \in StageSteps \union EntrySteps \union Late
  BY <1>1 DEF Shape, Steps, StageSteps, EntrySteps, Late
<1>3. layout.end \in StageEnds /\ layout.params \in ParamsAt
  BY <1>1 DEF Shape, LayoutOK
<1>4. HandoverSafe
  <2>1. ASSUME mem.cr3 = "off" \/ pc \in {"unmap", "jump"},
               NEW f \in (StageImage \ {0}) \union {StackFrame} \union ModuleBuffer \union Run(KernelFrame, KernelPages)
        PROVE  mem.content[f] = Original[f]
    <3>1. pc \in StageSteps
      BY <1>1, <1>2, <2>1 DEF EntryInv, LateInv, StageSteps
    <3> QED
      BY <1>1, <2>1, <3>1 DEF Stage2Inv, ModuleInv
  <2>2. ASSUME mem.cr3 = "boot"
        PROVE  ({mem.directory} \union DOMAIN mem.tables)
                 \intersect ({mem.boot.directory} \union DOMAIN mem.boot.tables) = {}
    <3>1. pc \in EntrySteps
      BY <1>1, <1>2, <2>2 DEF Stage2Inv, LateInv, StageSteps
    <3>2. {mem.boot.directory} \union DOMAIN mem.boot.tables \subseteq StageFree
      <4>1. TablesIn(mem.boot, StageFree, LowTable)
        BY <1>1, <3>1 DEF EntryInv
      <4> QED
        BY <4>1 DEF TablesIn
    <3>3. CASE pc = "switch"
      <4>1. {mem.directory} \union DOMAIN mem.tables \subseteq ImageTo(layout.end)
        <5>1. TablesIn(mem, ImageTo(layout.end), WholeTable(0))
          BY <1>1, <3>3 DEF EntryInv
        <5> QED
          BY <5>1 DEF TablesIn
      <4>2. ImageTo(layout.end) \subseteq StageMarked(layout.end)
        BY <1>3, Places
      <4> QED
        BY <3>2, <4>1, <4>2 DEF StageFree
    <3>4. CASE pc # "switch"
      <4>1. NoOwnTables(mem)
        BY <1>1, <3>1, <3>4 DEF EntryInv, EntrySteps
      <4>2. mem.directory = None /\ DOMAIN mem.tables = {}
        BY <4>1 DEF NoOwnTables, NoTables
      <4>3. None \notin StageFree
        BY DEF None, StageFree
      <4> QED
        BY <3>2, <4>2, <4>3
    <3> QED
      BY <3>3, <3>4
  <2> QED
    BY <2>1, <2>2 DEF HandoverSafe
<1>5. ASSUME pc = "jump"
      PROVE  JumpLands
  <2>1. mem.cr3 = "own" /\ TablesIn(mem, StageFree, LowTable)
    BY <1>1, <1>5 DEF Stage2Inv, StageLow
  <2>2. StageFree \in SUBSET Frames
    <3>1. StackFrame \in Nat /\ StackFrame < Memory /\ Memory \in Nat
      BY MorePlaces, Constants DEF Frames
    <3>2. 0 .. (StackFrame - 1) \subseteq Frames
      BY <3>1 DEF Frames
    <3> QED
      BY <3>2 DEF StageFree
  <2>3. ASSUME NEW f \in 0 .. (TableSize - 1)
        PROVE  /\ f < KernelFrame => Reach(mem, f) = f
               /\ f >= KernelFrame => Reach(mem, f) = None
    <3>1. /\ f \in Pages
          /\ f < KernelFrame => Mapped(mem, f) /\ PTE(mem, f).frame = f
          /\ f >= KernelFrame => ~Mapped(mem, f)
      BY <2>1, <2>2, BootPages
    <3> QED
      BY <2>1, <3>1 DEF Reach
  <2>4. \A i \in 0 .. (KernelPages - 1) :
          LET p == KernelDir * TableSize + i
          IN  Mapped(mem, p) /\ PTE(mem, p).frame = KernelFrame + i
    <3>1. \A i \in 0 .. (KernelPages - 1) : i \in 0 .. (TableSize - 1)
      BY Constants
    <3> QED
      BY <2>1, <2>2, <3>1, BootPages
  <2>5. ASSUME NEW f \in StageImage \union {StackFrame, layout.params \div Units} \union ModuleBuffer
        PROVE  Reach(mem, f) = f
    <3>1. f \in Nat /\ f < KernelFrame
      <4>1. CASE f \in StageImage
        BY <1>3, <4>1, Places, MorePlaces, Constants DEF StageImage, Frames
      <4>2. CASE f \in {StackFrame} \union ModuleBuffer
        BY <4>2, MorePlaces DEF Frames
      <4>3. CASE f = layout.params \div Units
        <5>1. layout.params \in Nat
          BY <1>3, HandoverAssumption
        <5>2. layout.params \div Units \in Nat
          BY <5>1, Constants, DivMod
        <5> QED
          BY <1>3, <4>3, <5>2, HandoverAssumption
      <4> QED
        BY <4>1, <4>2, <4>3
    <3>2. f \in 0 .. (TableSize - 1)
      BY <3>1, Constants
    <3> QED
      BY <2>3, <3>1, <3>2
  <2>6. ASSUME NEW f \in Run(KernelFrame, KernelPages)
        PROVE  Reach(mem, f) = None
    <3>1. f \in 0 .. (TableSize - 1) /\ f >= KernelFrame
      BY MorePlaces, Constants DEF Frames
    <3> QED
      BY <2>3, <3>1
  <2> QED
    BY <2>4, <2>5, <2>6 DEF JumpLands
<1>6. JumpLands
  BY <1>5 DEF JumpLands
<1>7. ModuleReachesLoader
  BY <1>1 DEF ModuleInv, ModuleReachesLoader
<1> QED
  BY <1>4, <1>6, <1>7 DEF HandoverComplete
-----------------------------------------------------------------------------
(* Loader.TypeOK: marked and mapped are frames, contents are bytes of memory, *)
(* seg and page stay inside the image, and no frame of the program is 0.    *)
THEOREM TypeCorrect == Spec => []TypeOK
  BY InvHolds, TypesKept, PTL

(* Loader.MappingsSafe: whatever map_page, map_page_user and elf_load are     *)
(* left with when memory runs out, ring 3 reaches only frames allocated for  *)
(* it, each once, and the identity mapping, the higher half and the heap     *)
(* stay as they were.                                                      *)
THEOREM MappingsStaySafe == Spec => []MappingsSafe
<1>1. Inv => MappingsSafe
  BY Confined, MapKept DEF MappingsSafe
<1> QED
  BY <1>1, InvHolds, PTL

(* Loader.WritesHitTheirFrame: what allocate_block, elf_load and the set-up   *)
(* of tables write by physical address (pmm.c:126) goes to the frame meant,  *)
(* under stage 2's tables as under the kernel's own.                        *)
THEOREM WritesStayPut == Spec => []WritesHitTheirFrame
<1>1. Inv => WritesHitTheirFrame
  BY DEF Inv, Shape, WritesHitTheirFrame
<1> QED
  BY <1>1, InvHolds, PTL

(* Loader.HandoverComplete: stage 2 overwrites nothing it runs on or hands    *)
(* over, its jump lands, the kernel's tables keep clear of those in force,    *)
(* and the module is intact until it is loaded.                             *)
THEOREM HandoverIsComplete == Spec => []HandoverComplete
  BY InvHolds, HandedOver, PTL

(* Loader.LoadedImage: for every file of page-aligned segments that share no  *)
(* page, the user task finds at each address what elf.h:85-89 promises,      *)
(* through every later mapping and allocation.                              *)
THEOREM ImageIsLoaded == Spec => []LoadedImage
  BY InvHolds, LoadedAll, PTL
=============================================================================
