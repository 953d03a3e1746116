-------------------------------- MODULE Fat12 --------------------------------
(***************************************************************************)
(* A FAT12 volume and the BIOS calls both boot stages read it with.         *)
(*                                                                         *)
(* A sector is Sector units long and a directory entry is one unit, so a    *)
(* sector holds Sector entries.  What a sector holds is told apart by its   *)
(* LBA.  A cluster is one sector, as on the 1.44 MB volume the Makefile      *)
(* makes.  Every read is tried three times, with a reset in between.        *)
(***************************************************************************)
EXTENDS Integers, SequencesExt

CONSTANTS
  Volumes,      \* volumes that may be booted from, see volume
  Sector,       \* SECTOR_SIZE, in units
  RootLba,      \* the first sector of the root directory
  RootSectors,  \* sectors of the root directory
  Drive,        \* the drive's geometry: sectors per track, heads
  EndOfChain,   \* 0xFF8
  MaxFaults     \* bound: read attempts that fail

(* The chain of clusters of a file on volume v, as far as its size goes. *)
LastOf(v, name) == (v.size[name] - 1) \div Sector
ChainOn(v, name) ==
  LET at[i \in 0 .. LastOf(v, name)] == IF i = 0 THEN v.first[name] ELSE v.fat[at[i - 1]]
  IN  at
Files == {"stage2", "kernel", "userland"}

ASSUME FatAssumption ==
  /\ Sector \in Nat \ {0} /\ RootLba \in Nat /\ RootSectors \in Nat
  /\ Drive \in [sectors : Nat \ {0}, heads : Nat \ {0}]
  /\ EndOfChain \in Nat /\ MaxFaults \in Nat

(* A volume as mkfs.fat and mcopy leave it: the chain of a file that is in    *)
(* the root directory is as long as its size needs, and ends there.          *)
RootFull(v) == v.root \in Seq(ToSet(v.root)) /\ Len(v.root) = RootSectors * Sector
FatInRange(v) == \A c \in DOMAIN v.fat : c \in Nat /\ c >= 2 /\ v.fat[c] \in 0 .. 4095
ChainComplete(v, name) ==
  /\ v.size[name] \in Nat \ {0}
  /\ \A i \in 0 .. LastOf(v, name) :
       LET c == ChainOn(v, name)[i]
       IN  c \in DOMAIN v.fat /\ (v.fat[c] >= EndOfChain <=> i = LastOf(v, name))

ASSUME VolumesAssumption ==
  \A v \in Volumes :
    /\ RootFull(v) /\ FatInRange(v)
    /\ \A n \in Files \intersect ToSet(v.root) : ChainComplete(v, n)

VARIABLES
  volume,       \* root: the names of the directory entries, in order;
                \* first, size: first cluster and size of each name; fat: cluster -> next
  asked,        \* the sector a read is under way for, or NoSector
  tries,        \* attempts of that read that failed
  faults        \* history: attempts that failed so far

diskVars == <<volume, asked, tries, faults>>

NoSector == -1
DataLba == RootLba + RootSectors

(* The two stages convert alike, each with the geometry g it was told.      *)
LBA2CHS(g, lba) ==
  [cylinder |-> (lba \div g.sectors) \div g.heads, head |-> (lba \div g.sectors) % g.heads,
   sector |-> (lba % g.sectors) + 1]

(* The BIOS has the sectors the drive has, and counts the other way. *)
OnDrive(chs) == chs.sector <= Drive.sectors /\ chs.head < Drive.heads
BiosSector(chs) == (chs.cylinder * Drive.heads + chs.head) * Drive.sectors + chs.sector - 1

(* What the successful read of asked brings. *)
Delivered(g) == BiosSector(LBA2CHS(g, asked))

(* The bytes of the file allocation table: a cluster has three digits of     *)
(* four bits, two clusters share three bytes.                              *)
Digit(i) ==
  LET c == i \div 3
  IN  IF c \in DOMAIN volume.fat THEN (volume.fat[c] \div <<1, 16, 256>>[(i % 3) + 1]) % 16 ELSE 0
Word(byte) == Digit(2 * byte) + 16 * Digit(2 * byte + 1) + 256 * Digit(2 * byte + 2)
                + 4096 * Digit(2 * byte + 3)

NextCluster(c) ==
  IF c % 2 = 0 THEN Word((c * 3) \div 2) % 4096 ELSE Word((c * 3) \div 2) \div 16

DiskInit ==
  /\ volume \in Volumes
  /\ asked = NoSector /\ tries = 0 /\ faults = 0

Ask(lba) == asked' = lba /\ tries' = 0 /\ UNCHANGED <<volume, faults>>
AskNothing == Ask(NoSector)

(* Mutation of ReadFails: the attempt is not counted. *)
ReadFailsMutant(g) ==
  /\ asked # NoSector /\ tries < 3
  /\ \/ OnDrive(LBA2CHS(g, asked)) /\ faults < MaxFaults /\ faults' = faults + 1
     \/ ~OnDrive(LBA2CHS(g, asked)) /\ UNCHANGED faults
  /\ UNCHANGED <<volume, asked, tries>>

(* int 13h fails and the drive is reset; the third failure is the last.  An *)
(* attempt on a sector the drive has not got always fails.                 *)
ReadFails(g) ==
  /\ asked # NoSector /\ tries < 3
  /\ tries' = tries + 1
  /\ \/ OnDrive(LBA2CHS(g, asked)) /\ faults < MaxFaults /\ faults' = faults + 1
     \/ ~OnDrive(LBA2CHS(g, asked)) /\ UNCHANGED faults
  /\ UNCHANGED <<volume, asked>>

Readable(g) == asked # NoSector /\ tries < 3 /\ OnDrive(LBA2CHS(g, asked))
GivenUp == asked # NoSector /\ tries = 3

(* What a file consists of, from the volume itself: its chain of clusters,   *)
(* and its units as sector and offset.                                      *)
Chain(name) == ChainOn(volume, name)
Content(name) ==
  [k \in 1 .. volume.size[name] |->
     [lba |-> DataLba + Chain(name)[(k - 1) \div Sector] - 2, at |-> (k - 1) % Sector]]
Names == DOMAIN volume.first
=============================================================================
