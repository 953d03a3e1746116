-------------------------------- MODULE Stage2 --------------------------------
(***************************************************************************)
(* Stage 2 of the boot loader: main.c opens /kernel.bin and /userland.elf   *)
(* one after the other and copies each to its place in chunks, with the     *)
(* FAT driver (fat.c) and its one sector of buffer per open file below it.  *)
(***************************************************************************)
EXTENDS Fat12

CONSTANTS
  Geometries,   \* what the BIOS may answer for a drive number that was never set
  LoadSize,     \* MEMORY_LOAD_SIZE
  BiosMaps,     \* memory maps the BIOS may report: [blocks, end]
  Usable,       \* the type of a block of usable memory
  UintMod,      \* 2^32: TOTAL_MEMORY is a uint32_t
  CopyMod,      \* 2^16: memcpy's num is a uint16_t
  MaxHandles    \* MAX_FILE_HANDLES

ASSUME Stage2Assumption ==
  /\ Geometries \subseteq [sectors : Nat \ {0}, heads : Nat \ {0}]
  /\ LoadSize \in Nat \ {0} /\ UintMod \in Nat \ {0} /\ CopyMod \in Nat \ {0}
  /\ MaxHandles \in Nat \ {0}
  /\ \A b \in BiosMaps :
       b.blocks \in Seq(ToSet(b.blocks)) /\ \A i \in DOMAIN b.blocks : b.blocks[i].len \in Nat

VARIABLES
  at,           \* where main and the driver are
  geometry,     \* disk.sectors, disk.heads
  name,         \* the file being looked for or read
  root,         \* RootDirectory: buf, the sector in its buffer; pos; cluster
  open,         \* OpenedFiles
  handle,       \* the handle in use
  entry,        \* the directory entry read last
  left,         \* byteCount of the FAT_Read under way
  chunk,        \* the load buffer: what that call has copied there
  loaded,       \* per file, what main has copied to its place
  memory,       \* the map: bios, what the BIOS has; block, the one fetched last; regions, g_MemRegions
  fresh,        \* history: the search began with the first root sector buffered
  errors        \* history: reads that failed three times

stage2Vars == <<at, geometry, name, root, open, handle, entry, left, chunk, loaded, memory, fresh, errors>>

NoHandle == -1
Unwritten == [lba |-> NoSector, at |-> 0]
Closed == [opened |-> FALSE, buf |-> NoSector, pos |-> 0, size |-> 0, cluster |-> 0]

Stage2Init ==
  /\ at = "drive"
  /\ geometry = Drive
  /\ name = "kernel"
  /\ root = [buf |-> NoSector, pos |-> 0, cluster |-> RootLba]
  /\ open = [h \in 0 .. (MaxHandles - 1) |-> Closed]
  /\ handle = NoHandle
  /\ entry = "free"
  /\ left = 0
  /\ chunk = <<>>
  /\ loaded = [n \in {"kernel", "userland"} |-> <<>>]
  /\ memory \in [bios : BiosMaps, block : {1}, regions : {<<>>}]
  /\ fresh = TRUE
  /\ errors = 0

(* DISK_Initialize asks for the parameters of drive disk->id, a field nobody *)
(* has written yet; only the reads use the drive stage 1 passed on.         *)
DiskInitialize ==
  /\ at = "drive"
  /\ \/ at' = "halt" /\ UNCHANGED geometry
     \/ at' = "boot sector" /\ geometry' \in Geometries
  /\ UNCHANGED <<memory, name, root, open, handle, entry, left, chunk, loaded, fresh, errors, diskVars>>

(* FAT_Initialize: the boot sector, the FAT and the first root sector. *)
FatInitialize ==
  /\ \/ /\ at = "boot sector"
        /\ IF asked = NoSector THEN Ask(0) /\ UNCHANGED at
           ELSE Readable(geometry) /\ AskNothing /\ at' = "fat"
        /\ UNCHANGED root
     \/ /\ at = "fat"
        /\ IF asked = NoSector THEN Ask(1) /\ UNCHANGED at
           ELSE Readable(geometry) /\ AskNothing /\ at' = "root"
        /\ UNCHANGED root
     \/ /\ at = "root"
        /\ IF asked = NoSector THEN Ask(RootLba) /\ UNCHANGED <<at, root>>
           ELSE Readable(geometry) /\ AskNothing /\ at' = "find" /\ root' = [root EXCEPT !.buf = Delivered(geometry)]
  /\ UNCHANGED <<memory, geometry, name, open, handle, entry, left, chunk, loaded, fresh, errors>>

InitializeFails ==
  /\ at \in {"boot sector", "fat", "root"} /\ GivenUp
  /\ AskNothing
  /\ at' = "halt"
  /\ errors' = errors + 1
  /\ UNCHANGED <<memory, geometry, name, root, open, handle, entry, left, chunk, loaded, fresh>>

(* A sector of the root directory as entries; other sectors hold no name. *)
EntryIn(lba, i) ==
  IF lba \in RootLba .. (DataLba - 1) THEN volume.root[(lba - RootLba) * Sector + i + 1]
  ELSE "free"

(* Mutation of ReadEntry: the position moves only with the sector. *)
ReadEntryMutant ==
  /\ at = "find"
  /\ root.pos < RootSectors * Sector
  /\ entry' = EntryIn(root.buf, root.pos % Sector)
  /\ at' = "compare"
  /\ AskNothing
  /\ UNCHANGED <<memory, geometry, name, root, open, handle, left, chunk, loaded, fresh, errors>>

(* Mutation of ReadEntry: the sector is counted on after it is read. *)
ReadEntrySectorMutant ==
  /\ at = "find"
  /\ root.pos < RootSectors * Sector
  /\ entry' = EntryIn(root.buf, root.pos % Sector)
  /\ IF (root.pos + 1) % Sector = 0
     THEN /\ root' = [root EXCEPT !.pos = @ + 1, !.cluster = @ + 1]
          /\ Ask(root.cluster)
          /\ at' = "next root sector"
     ELSE /\ root' = [root EXCEPT !.pos = @ + 1]
          /\ at' = "compare"
          /\ AskNothing
  /\ UNCHANGED <<memory, geometry, name, open, handle, left, chunk, loaded, fresh, errors>>

(* FAT_ReadEntry on the root: an entry, and the next sector when this one is *)
(* used up.  At the end of the directory nothing is read.                  *)
ReadEntry ==
  /\ at = "find"
  /\ root.pos < RootSectors * Sector
  /\ entry' = EntryIn(root.buf, root.pos % Sector)
  /\ IF (root.pos + 1) % Sector = 0
     THEN /\ root' = [root EXCEPT !.pos = @ + 1, !.cluster = @ + 1]
          /\ Ask(root.cluster + 1)
          /\ at' = "next root sector"
     ELSE /\ root' = [root EXCEPT !.pos = @ + 1]
          /\ at' = "compare"
          /\ AskNothing
  /\ UNCHANGED <<memory, geometry, name, open, handle, left, chunk, loaded, fresh, errors>>

(* A sector that cannot be read is reported, and the buffer stays as it is. *)
NextRootSector ==
  /\ at = "next root sector" /\ (Readable(geometry) \/ GivenUp)
  /\ root' = IF Readable(geometry) THEN [root EXCEPT !.buf = Delivered(geometry)] ELSE root
  /\ errors' = IF Readable(geometry) THEN errors ELSE errors + 1
  /\ AskNothing
  /\ at' = "compare"
  /\ UNCHANGED <<memory, geometry, name, open, handle, entry, left, chunk, loaded, fresh>>

(* FAT_Close of the root: position and sector start again, the buffer does not. *)
Rewound(r) == [r EXCEPT !.pos = 0, !.cluster = RootLba]

FreeHandles == {h \in DOMAIN open : ~open[h].opened}

(* FAT_FindFile's comparison; on the name, FAT_Close and FAT_OpenEntry. *)
Compare ==
  /\ at = "compare"
  /\ IF entry # name
     THEN at' = "find" /\ AskNothing /\ UNCHANGED <<root, handle, open>>
     ELSE /\ root' = Rewound(root)
          /\ IF FreeHandles = {}
             THEN at' = "no file" /\ AskNothing /\ UNCHANGED <<handle, open>>
             ELSE LET h == CHOOSE g \in FreeHandles : \A k \in FreeHandles : g <= k
                  IN  /\ handle' = h
                      /\ open' = [open EXCEPT ![h].pos = 0, ![h].size = volume.size[name],
                                              ![h].cluster = volume.first[name]]
                      /\ Ask(DataLba + volume.first[name] - 2)
                      /\ at' = "open"
  /\ UNCHANGED <<memory, geometry, name, entry, left, chunk, loaded, fresh, errors>>

NotFound ==
  /\ at = "find"
  /\ root.pos = RootSectors * Sector
  /\ root' = Rewound(root)
  /\ at' = "no file"
  /\ UNCHANGED <<memory, geometry, name, open, handle, entry, left, chunk, loaded, fresh, errors, diskVars>>

OpenEntry ==
  /\ at = "open" /\ (Readable(geometry) \/ GivenUp)
  /\ AskNothing
  /\ IF Readable(geometry)
     THEN /\ open' = [open EXCEPT ![handle].opened = TRUE, ![handle].buf = Delivered(geometry)]
          /\ at' = IF name = "kernel" THEN "memory" ELSE "call"
          /\ UNCHANGED errors
     ELSE at' = "no file" /\ errors' = errors + 1 /\ UNCHANGED open
  /\ UNCHANGED <<memory, geometry, name, root, handle, entry, left, chunk, loaded, fresh>>

(* Mutation of DetectMemory: the next block is fetched before one is recorded. *)
DetectMemoryMutant ==
  /\ at = "memory"
  /\ IF memory.block >= Len(memory.bios.blocks)
     THEN at' = "call" /\ UNCHANGED memory
     ELSE /\ memory' = [memory EXCEPT !.block = @ + 1,
                                      !.regions = Append(@, memory.bios.blocks[memory.block + 1])]
          /\ UNCHANGED at
  /\ UNCHANGED <<geometry, name, root, open, handle, entry, left, chunk, loaded, fresh, errors, diskVars>>

(* x86_E820GetNextBlock gave block b, and a continuation that is not 0: there *)
(* is such a block and, if the BIOS marks the end, it is not the last.       *)
GoesOn(bios, b) == b <= Len(bios.blocks) /\ ~(b = Len(bios.blocks) /\ bios.end = "zero")

(* Memory_Detect, with the kernel open: a round of its loop records the block *)
(* the BIOS gave and asks for the next.  It ends with the call that fails, or *)
(* that gives the last block and the continuation 0; that block is dropped.  *)
DetectMemory ==
  /\ at = "memory"
  /\ LET b == memory.block
     IN  IF GoesOn(memory.bios, b)
         THEN /\ memory' = [memory EXCEPT !.block = @ + 1, !.regions = Append(@, memory.bios.blocks[b])]
              /\ UNCHANGED at
         ELSE at' = "call" /\ UNCHANGED memory
  /\ UNCHANGED <<geometry, name, root, open, handle, entry, left, chunk, loaded, fresh, errors, diskVars>>

(* get_memory_info, here and in the kernel: the memory there is to manage. *)
UsableIn(blocks) ==
  LET sum[i \in 0 .. Len(blocks)] ==
        IF i = 0 THEN 0
        ELSE sum[i - 1] + (IF blocks[i].type = Usable THEN blocks[i].len ELSE 0)
  IN  sum[Len(blocks)]
TotalMemory == UsableIn(memory.regions) % UintMod

(* Mutation of CallRead: the size of the load buffer is forgotten. *)
CallReadMutant ==
  /\ at = "call"
  /\ left' = open[handle].size - open[handle].pos
  /\ chunk' = <<>>
  /\ at' = "read"
  /\ UNCHANGED <<memory, geometry, name, root, open, handle, entry, loaded, fresh, errors, diskVars>>

(* main calls FAT_Read for as much as the load buffer takes; FAT_Read goes   *)
(* no further than the end of the file.                                    *)
CallRead ==
  /\ at = "call"
  /\ LET f == open[handle]
     IN  left' = IF LoadSize < f.size - f.pos THEN LoadSize ELSE f.size - f.pos
  /\ chunk' = <<>>
  /\ at' = "read"
  /\ UNCHANGED <<memory, geometry, name, root, open, handle, entry, loaded, fresh, errors, diskVars>>

Smaller(a, b) == IF a < b THEN a ELSE b
Buffered(f, n) == [k \in 1 .. n |-> [lba |-> f.buf, at |-> (f.pos % Sector) + k - 1]]

(* Mutation of ReadBuffer: the cluster that is read next is not remembered. *)
ReadBufferMutant ==
  /\ at = "read" /\ left > 0
  /\ LET f == open[handle]
         take == Smaller(left, Sector - (f.pos % Sector))
     IN  /\ chunk' = chunk \o Buffered(f, take)
         /\ left' = left - take
         /\ IF (f.pos + take) % Sector # 0
            THEN open' = [open EXCEPT ![handle].pos = @ + take] /\ AskNothing /\ UNCHANGED at
            ELSE LET next == NextCluster(f.cluster)
                 IN  IF next >= EndOfChain
                     THEN /\ open' = [open EXCEPT ![handle].pos = @ + take, ![handle].cluster = next,
                                                  ![handle].size = f.pos + take]
                          /\ at' = "copy" /\ AskNothing
                     ELSE /\ open' = [open EXCEPT ![handle].pos = @ + take]
                          /\ Ask(DataLba + next - 2)
                          /\ at' = "next sector"
  /\ UNCHANGED <<memory, geometry, name, root, handle, entry, loaded, fresh, errors>>

(* One round of FAT_Read's loop on a file: what the buffer has is copied.    *)
(* At the end of the sector, which is the end of the cluster here, the next  *)
(* cluster is read; the end of the chain ends the file.                    *)
ReadBuffer ==
  /\ at = "read" /\ left > 0
  /\ LET f == open[handle]
         take == Smaller(left, Sector - (f.pos % Sector))
     IN  /\ chunk' = chunk \o Buffered(f, take)
         /\ left' = left - take
         /\ IF (f.pos + take) % Sector # 0
            THEN open' = [open EXCEPT ![handle].pos = @ + take] /\ AskNothing /\ UNCHANGED at
            ELSE LET next == NextCluster(f.cluster)
                 IN  IF next >= EndOfChain
                     THEN /\ open' = [open EXCEPT ![handle].pos = @ + take, ![handle].cluster = next,
                                                  ![handle].size = f.pos + take]
                          /\ at' = "copy" /\ AskNothing
                     ELSE /\ open' = [open EXCEPT ![handle].pos = @ + take, ![handle].cluster = next]
                          /\ Ask(DataLba + next - 2)
                          /\ at' = "next sector"
  /\ UNCHANGED <<memory, geometry, name, root, handle, entry, loaded, fresh, errors>>

(* On an error FAT_Read returns what it has copied; position and cluster    *)
(* are past the sector that was not read.                                  *)
NextSector ==
  /\ at = "next sector" /\ (Readable(geometry) \/ GivenUp)
  /\ open' = IF Readable(geometry) THEN [open EXCEPT ![handle].buf = Delivered(geometry)] ELSE open
  /\ at' = IF Readable(geometry) THEN "read" ELSE "copy"
  /\ errors' = IF Readable(geometry) THEN errors ELSE errors + 1
  /\ AskNothing
  /\ UNCHANGED <<memory, geometry, name, root, handle, entry, left, chunk, loaded, fresh>>

Returned ==
  /\ at = "read" /\ left = 0
  /\ at' = "copy"
  /\ UNCHANGED <<memory, geometry, name, root, open, handle, entry, left, chunk, loaded, fresh, errors, diskVars>>

(* main's memcpy, which copies the size modulo 2^16, and the next chunk. *)
Copy ==
  /\ at = "copy" /\ chunk # <<>>
  /\ loaded' = [loaded EXCEPT ![name] = @ \o [k \in DOMAIN chunk |->
                  IF k <= Len(chunk) % CopyMod THEN chunk[k] ELSE Unwritten]]
  /\ at' = "call"
  /\ UNCHANGED <<memory, geometry, name, root, open, handle, entry, left, chunk, fresh, errors, diskVars>>

(* FAT_Close of the file, behind the kernel the search for the module. *)
Close ==
  /\ at = "copy" /\ chunk = <<>>
  /\ open' = [open EXCEPT ![handle].opened = FALSE]
  /\ handle' = NoHandle
  /\ IF name = "kernel"
     THEN name' = "userland" /\ at' = "find" /\ fresh' = (root.buf = RootLba)
     ELSE at' = "start kernel" /\ UNCHANGED <<geometry, name, fresh>>
  /\ UNCHANGED <<memory, geometry, root, entry, left, chunk, loaded, errors, diskVars>>

(* Without the module the kernel is started; without the kernel, FAT_Read   *)
(* is called with NULL, which is not followed.                              *)
NoModule ==
  /\ at = "no file" /\ name = "userland"
  /\ at' = "start kernel"
  /\ UNCHANGED <<memory, geometry, name, root, open, handle, entry, left, chunk, loaded, fresh, errors, diskVars>>

Stage2Next ==
  \/ DiskInitialize \/ FatInitialize \/ InitializeFails
  \/ ReadEntry \/ NextRootSector \/ Compare \/ NotFound \/ OpenEntry \/ DetectMemory
  \/ CallRead \/ ReadBuffer \/ NextSector \/ Returned \/ Copy \/ Close \/ NoModule
=============================================================================
