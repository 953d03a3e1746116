--------------------------------- MODULE Boot ---------------------------------
(***************************************************************************)
(* From the BIOS to the first instruction of the kernel: the boot sector,   *)
(* then stage 2, over the same volume and the same drive.                  *)
(***************************************************************************)
EXTENDS Stage1, Stage2

vars == <<diskVars, stage1Vars, stage2Vars>>

Init == DiskInit /\ Stage1Init /\ Stage2Init

Next ==
  \/ Stage1Next /\ UNCHANGED stage2Vars
  \/ step = "jump" /\ Stage2Next /\ UNCHANGED stage1Vars
  \/ ReadFails(IF step = "jump" THEN geometry ELSE Drive) /\ UNCHANGED <<stage1Vars, stage2Vars>>

Spec == Init /\ [][Next]_vars /\ WF_vars(Next)
-----------------------------------------------------------------------------
TypeOK ==
  /\ step \in {"read root", "not found", "read fat", "load", "jump", "floppy error"}
  /\ at \in {"drive", "boot sector", "fat", "root", "halt", "find", "next root sector", "compare", "no file",
             "open", "memory", "call", "read", "next sector", "copy", "start kernel"}
  /\ name \in {"kernel", "userland"}
  /\ tries \in 0 .. 3 /\ faults \in 0 .. MaxFaults /\ errors \in Nat
  /\ root.pos \in 0 .. (RootSectors * Sector)
  /\ handle \in {NoHandle} \union DOMAIN open
  /\ \A h \in DOMAIN open : open[h].pos \in 0 .. open[h].size
  /\ Len(chunk) <= LoadSize
  /\ memory.bios \in BiosMaps /\ memory.block \in 1 .. (Len(memory.bios.blocks) + 1)

(* boot.asm hands over to stage 2 only when the file is in memory whole and  *)
(* in the order of its chain, whatever attempts failed on the way.          *)
Stage1LoadsFile ==
  step = "jump" =>
    /\ "stage2" \in ToSet(volume.root)
    /\ Len(stage2) * Sector >= volume.size["stage2"]
    /\ (Len(stage2) - 1) * Sector < volume.size["stage2"]
    /\ \A k \in DOMAIN stage2 : stage2[k] = DataLba + Chain("stage2")[k - 1] - 2

(* main.c starts the kernel with both files copied byte for byte, over any   *)
(* layout of the chains and any failed attempts a retry made good; for files *)
(* shorter than the load buffer, whose length memcpy can count, and the      *)
(* geometry of the drive that is read.                                     *)
LoadedIsFile ==
  at = "start kernel" /\ errors = 0 /\ geometry = Drive =>
    \A n \in {"kernel", "userland"} :
      loaded[n] # <<>> /\ volume.size[n] < CopyMod => loaded[n] = Content(n)

(* What either stage jumps to or hands over is the file on the volume.       *)
FilesLoaded == Stage1LoadsFile /\ LoadedIsFile

(* FAT_Open finds what is in the root directory, if the search begins with   *)
(* the first sector in the buffer, no read is given up and the geometry is   *)
(* that of the drive.                                                      *)
FindsWhatIsThere ==
  at = "no file" /\ errors = 0 /\ fresh /\ geometry = Drive => name \notin ToSet(volume.root)

(* The kernel is told of every usable byte the BIOS reports, once, if they    *)
(* are fewer than 2^32 and the last block, which is dropped when the BIOS     *)
(* ends with continuation 0, is not usable.                                 *)
MemoryCounted ==
  at = "start kernel" =>
    LET blocks == memory.bios.blocks
        dropped == memory.bios.end = "zero" /\ blocks # <<>> /\ Last(blocks).type = Usable
    IN  UsableIn(blocks) < UintMod /\ ~dropped => TotalMemory = UsableIn(blocks)

(* What is left to do before loading ends: the clusters of stage 2, the      *)
(* entries of the root directory, the bytes of the files and the blocks of   *)
(* the memory map, with weights that pay for the steps each may take, and    *)
(* the attempts of the read under way.                                     *)
SizeOf(n) == IF n \in ToSet(volume.root) THEN volume.size[n] ELSE 0
ClustersOf(n) == IF n \in ToSet(volume.root) THEN LastOf(volume, n) + 1 ELSE 0
ClustersLeft == ClustersOf("stage2") - Len(stage2)
Stage1Left ==
  CASE step = "read root" -> ClustersLeft + 2
    [] step = "read fat"  -> ClustersLeft + 1
    [] step = "load"      -> ClustersLeft
    [] OTHER              -> 0

Behind(n) == IF n = "kernel" THEN 3 * (RootSectors * Sector) + 5 * SizeOf("userland") + 8 ELSE 1
SearchLeft == 3 * (RootSectors * Sector - root.pos) + 5 * SizeOf(name) + Behind(name)
FileLeft == 5 * (open[handle].size - open[handle].pos) + Behind(name)
ChunkLeft == IF chunk = <<>> THEN 0 ELSE 3
BlocksLeft == Len(memory.bios.blocks) + 1 - memory.block

FilesLeft ==
  CASE at = "drive"            -> SearchLeft + 13
    [] at = "boot sector"      -> SearchLeft + 12
    [] at = "fat"              -> SearchLeft + 11
    [] at = "root"             -> SearchLeft + 10
    [] at = "next root sector" -> SearchLeft + 9
    [] at = "compare"          -> SearchLeft + 8
    [] at = "find"             -> SearchLeft + 7
    [] at = "open"             -> FileLeft + 6
    [] at = "memory"           -> FileLeft + 4
    [] at = "call"             -> FileLeft + 3
    [] at = "next sector"      -> FileLeft + 6
    [] at = "read"             -> FileLeft + 2 + ChunkLeft
    [] at = "copy"             -> FileLeft + 1 + ChunkLeft
    [] at = "no file"          -> 1
    [] OTHER                   -> 0
Stage2Left == FilesLeft + BlocksLeft

AttemptsLeft == IF asked = NoSector THEN 4 ELSE 3 - tries
Distance == 5 * (Stage1Left + Stage2Left) + AttemptsLeft

(* Nothing is done for ever: every step of either stage brings loading nearer *)
(* to its end, by a measure that cannot fall below 0, whatever attempts fail, *)
(* where the chains lead and whatever geometry the BIOS answers.            *)
BootAdvances == [][Distance' \in 0 .. (Distance - 1)]_vars

(* Whatever fails, loading ends: with the kernel, with an error reported, or *)
(* with a file that is not there.  Fairness: the processor goes on.          *)
BootEnds ==
  <>(step \in {"not found", "floppy error"} \/ at \in {"start kernel", "halt", "no file"})

=============================================================================
