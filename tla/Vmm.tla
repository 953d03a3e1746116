--------------------------------- MODULE Vmm ---------------------------------
(***************************************************************************)
(* Paging (kernel/mm/vmm/vmm.c; stage 2 links an earlier copy without       *)
(* map_page_user) on top of the frame allocator: one page directory, page   *)
(* tables, and the identity mapping through which the kernel reaches what   *)
(* it knows by physical address.                                           *)
(*                                                                         *)
(* A page or frame is its number.  Memory is a record, so that a caller     *)
(* can string several calls together in one step:                          *)
(*   marked    frames the allocator does not give out                       *)
(*   cr3       "off": no paging, "boot": the directory of the program that   *)
(*             ran before is in CR3, "own": this one is                     *)
(*   boot      directory, dir and tables of the program before               *)
(*   directory the frame the page directory is in                           *)
(*   dir       the page directory                                           *)
(*   tables    the page tables, by the frame each is in                     *)
(*   content   what each frame holds, unit by unit: the address the unit    *)
(*             had at boot, or Zero                                         *)
(*   stray     frames that were written through a pointer meant for others  *)
(***************************************************************************)
EXTENDS Integers, FiniteSets, FiniteSetsExt

CONSTANTS
  TableSize,    \* PAGES_PER_TABLE
  Dirs,         \* TABLES_PER_DIRECTORY
  KernelDir,    \* PD_INDEX(0xC0000000)
  KernelFrame,  \* KERNEL_ADDRESS / PAGE_SIZE, where stage 2 loads the kernel
  Units,        \* units a page is divided into
  Memory,       \* frames of memory
  Limit         \* TOTAL_BLOCK, less what is reserved outside of memory

ASSUME VmmAssumption ==
  /\ TableSize \in Nat \ {0} /\ Dirs \in Nat \ {0} /\ Units \in Nat \ {0}
  /\ KernelDir \in 1 .. (Dirs - 1) /\ KernelFrame \in Nat
  /\ Memory \in Nat \ {0} /\ Limit \in Nat

Frames == 0 .. (Memory - 1)
Pages == 0 .. (Dirs * TableSize - 1)
None == -1
Zero == -1

NoEntry == [present |-> FALSE, user |-> FALSE, write |-> FALSE, frame |-> 0]
EmptyTable == [i \in 0 .. (TableSize - 1) |-> NoEntry]

PDE(m, page) == m.dir[page \div TableSize]
(* get_page: the entry of a page whose table is present. *)
PTE(m, page) == m.tables[PDE(m, page).frame][page % TableSize]

Mapped(m, page) == PDE(m, page).present /\ PTE(m, page).present
UserPages(m) == {p \in Pages : Mapped(m, p) /\ PDE(m, p).user /\ PTE(m, p).user}

(* The frame behind a pointer whose value is the physical address of f, by   *)
(* the tables in force.                                                    *)
Reach(m, f) ==
  LET t == IF m.cr3 = "boot" THEN m.boot ELSE m
  IN  IF m.cr3 = "off" THEN f
      ELSE IF f \in Pages /\ Mapped(t, f) THEN PTE(t, f).frame ELSE None

(* A write to the frames S by their physical addresses. *)
Write(m, S, what) ==
  LET hit == {Reach(m, f) : f \in S}
  IN  [m EXCEPT !.content = [f \in Frames |-> IF f \in hit THEN what ELSE @[f]],
                !.stray = @ \union (hit \ S)]

Wiped == [u \in 0 .. (Units - 1) |-> Zero]
Run(f, n) == f .. (f + n - 1)
FreeStarts(m, n) == {f \in Frames : Run(f, n) \subseteq Frames \ m.marked}

(* Mutation of AllocateBlock: the first frame is not marked. *)
AllocateBlockMutant(m, n) ==
  IF Cardinality(m.marked) >= Limit \/ FreeStarts(m, n) = {}
  THEN [m |-> m, frame |-> 0]
  ELSE LET f == Min(FreeStarts(m, n))
       IN  [m |-> Write([m EXCEPT !.marked = @ \union Run(f + 1, n - 1)], Run(f, n), Wiped),
            frame |-> f]

(* allocate_block: the lowest run of n free frames, wiped, or 0. *)
AllocateBlock(m, n) ==
  IF Cardinality(m.marked) >= Limit \/ FreeStarts(m, n) = {}
  THEN [m |-> m, frame |-> 0]
  ELSE LET f == Min(FreeStarts(m, n))
       IN  [m |-> Write([m EXCEPT !.marked = @ \union Run(f, n)], Run(f, n), Wiped),
            frame |-> f]

Entry(user, write, frame) == [present |-> TRUE, user |-> user, write |-> write, frame |-> frame]

(* The table in a frame becomes the one of directory entry d. *)
NewTable(m, d, user, frame, table) ==
  [m EXCEPT !.dir[d] = Entry(user, TRUE, frame),
            !.tables = [f \in DOMAIN @ \union {frame} |-> IF f = frame THEN table ELSE @[f]]]

(* The first half of map_page and map_page_user: a missing table is         *)
(* allocated; to one that is there the USER bit is at most added.          *)
WithTable(m, d, user) ==
  LET got == AllocateBlock(m, 1)
  IN  IF m.dir[d].present
      THEN [m |-> [m EXCEPT !.dir[d] = Entry(@.user \/ user, TRUE, @.frame)], ok |-> TRUE]
      ELSE IF got.frame = 0
           THEN [m |-> m, ok |-> FALSE]
           ELSE [m |-> NewTable(got.m, d, user, got.frame, EmptyTable), ok |-> TRUE]

SetEntry(m, page, entry) ==
  [m EXCEPT !.tables[PDE(m, page).frame][page % TableSize] = entry]

(* Mutation of MapPage: a table that is there is replaced by a new one. *)
MapPageMutant(m, frame, page, user) ==
  LET got == AllocateBlock(m, 1)
  IN  IF got.frame = 0
      THEN [m |-> m, ok |-> FALSE]
      ELSE [m |-> SetEntry(NewTable(got.m, page \div TableSize, user, got.frame, EmptyTable),
                           page, Entry(user, user, frame)),
            ok |-> TRUE]

(* map_page and, for ring 3, map_page_user.  Attributes are only ever added *)
(* to an entry; without a frame for the table nothing is mapped.           *)
MapPage(m, frame, page, user) ==
  LET with == WithTable(m, page \div TableSize, user)
      was == PTE(with.m, page)
  IN  IF with.ok
      THEN [m |-> SetEntry(with.m, page, Entry(was.user \/ user, was.write \/ user, frame)),
            ok |-> TRUE]
      ELSE with

(* SET_ATTRIBUTE(get_page(page), PTE_READ_WRITE) *)
SetWrite(m, page) ==
  SetEntry(m, page, [PTE(m, page) EXCEPT !.write = TRUE])

(* setup_higher_half_kernel and setup_page_table: a table of its own that   *)
(* maps a whole directory entry to consecutive frames.                     *)
WholeTable(first) == [i \in 0 .. (TableSize - 1) |-> Entry(FALSE, TRUE, first + i)]
MapWhole(m, d, first) ==
  LET got == AllocateBlock(m, 1)
  IN  NewTable(got.m, d, FALSE, got.frame, WholeTable(first))

(* Mutation of BuildMappings: the identity mapping starts at the kernel. *)
BuildMappingsMutant(m) ==
  LET got == AllocateBlock(m, 1)
      higher == MapWhole([got.m EXCEPT !.directory = got.frame], KernelDir, KernelFrame)
  IN  MapWhole(higher, 0, KernelFrame)

(* setup_page_directory_table, setup_higher_half_kernel, setup_page_table. *)
BuildMappings(m) ==
  LET got == AllocateBlock(m, 1)
      higher == MapWhole([got.m EXCEPT !.directory = got.frame], KernelDir, KernelFrame)
  IN  MapWhole(higher, 0, 0)

(* set_page_directory, enable_paging *)
SetPageDirectory(m) == [m EXCEPT !.cr3 = "own"]

Unmapped(e) == [present |-> FALSE, user |-> e.user, write |-> e.write, frame |-> 0]

(* unmap_page, on a page whose table is there and on all behind it in that   *)
(* table.                                                                  *)
UnmapFrom(m, page) ==
  [m EXCEPT !.tables[PDE(m, page).frame] =
     [i \in DOMAIN @ |-> IF i >= page % TableSize THEN Unmapped(@[i]) ELSE @[i]]]
=============================================================================
