-------------------------------- MODULE Stage1 --------------------------------
(***************************************************************************)
(* The boot sector (bootloader/stage1/boot.asm): it finds STAGE2.BIN in the *)
(* root directory, follows its chain of clusters, one sector each, and      *)
(* jumps to what it has read.                                              *)
(***************************************************************************)
EXTENDS Fat12

VARIABLES
  step,         \* where the boot sector is
  cluster,      \* stage2_cluster
  stage2        \* sectors loaded from STAGE2_LOAD_OFFSET on, by LBA

stage1Vars == <<step, cluster, stage2>>

Stage1Init ==
  /\ step = "read root"
  /\ cluster = 0
  /\ stage2 = <<>>

(* The whole root directory in one call; the entries are compared in order. *)
ReadRoot ==
  /\ step = "read root"
  /\ IF asked = NoSector
     THEN Ask(RootLba) /\ UNCHANGED stage1Vars
     ELSE /\ Readable(Drive)
          /\ AskNothing
          /\ IF "stage2" \in ToSet(volume.root)
             THEN cluster' = volume.first["stage2"] /\ step' = "read fat"
             ELSE step' = "not found" /\ UNCHANGED cluster
          /\ UNCHANGED stage2

ReadFat ==
  /\ step = "read fat"
  /\ IF asked = NoSector
     THEN Ask(1) /\ UNCHANGED step
     ELSE Readable(Drive) /\ AskNothing /\ step' = "load"
  /\ UNCHANGED <<cluster, stage2>>

(* load_kernel_loop: a sector, then the next cluster. *)
LoadCluster ==
  /\ step = "load"
  /\ IF asked = NoSector
     THEN Ask(cluster + DataLba - 2) /\ UNCHANGED stage1Vars
     ELSE /\ Readable(Drive)
          /\ AskNothing
          /\ stage2' = Append(stage2, Delivered(Drive))
          /\ IF NextCluster(cluster) >= EndOfChain
             THEN step' = "jump" /\ UNCHANGED cluster
             ELSE cluster' = NextCluster(cluster) /\ UNCHANGED step

(* floppy_error: the drive does not tell its parameters, a read has failed   *)
(* three times, or the reset behind a failed read fails.                   *)
Stage1GivesUp ==
  /\ step \in {"read root", "read fat", "load"}
  /\ (asked = NoSector /\ step = "read root") \/ (asked # NoSector /\ tries > 0)
  /\ AskNothing
  /\ step' = "floppy error"
  /\ UNCHANGED <<cluster, stage2>>

Stage1Next == ReadRoot \/ ReadFat \/ LoadCluster \/ Stage1GivesUp
=============================================================================
