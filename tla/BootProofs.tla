------------------------------ MODULE BootProofs ------------------------------
(***************************************************************************)
(* What the run boot checks for 180 volumes, for every volume whose chains   *)
(* are complete, every drive, memory map and size of the load buffer, and    *)
(* whatever attempts fail: stage 1 jumps to all of stage 2, stage 2 finds    *)
(* and copies the files, memory is counted, and every step brings loading    *)
(* nearer to its end.                                                      *)
(*                                                                         *)
(* First the inductive invariant Inv; then numbers, the volume and the       *)
(* drive (a read brings the sector asked for, twelve bits taken from three   *)
(* bytes are the next cluster), sums over the memory map; then a lemma for   *)
(* each action, with a step for each part of Inv; then what follows; at the  *)
(* end the measure of what is left to load.                                *)
(***************************************************************************)
EXTENDS Boot, FiniteSetTheorems, SequenceTheorems, TLAPS

Stage1Steps == {"read root", "not found", "read fat", "load", "jump", "floppy error"}
Stage2Steps == {"drive", "boot sector", "fat", "root", "halt", "find", "next root sector", "compare",
                "no file", "open", "memory", "call", "read", "next sector", "copy", "start kernel"}
Starting == {"drive", "boot sector", "fat", "root"}
Searching == {"find", "compare", "next root sector"}
Reading == {"read", "next sector", "copy"}
Holding == {"memory", "call"} \union Reading

(* No read was given up, and sectors are found where the drive has them.     *)
Plain == errors = 0 /\ geometry = Drive

Pieces == [lba : Int, at : Int]
HandleType == [opened : BOOLEAN, buf : Int, pos : Nat, size : Nat, cluster : Nat]
Handles == 0 .. (MaxHandles - 1)
Modules == {"kernel", "userland"}

(* What the variables are. *)
DiskShape ==
  /\ volume \in Volumes
  /\ asked \in Int /\ tries \in 0 .. 3 /\ faults \in 0 .. MaxFaults
ControlShape ==
  /\ step \in Stage1Steps /\ at \in Stage2Steps /\ name \in Modules
  /\ geometry \in Geometries \union {Drive} /\ errors \in Nat /\ fresh \in BOOLEAN
  /\ handle \in {NoHandle} \union Handles
DataShape ==
  /\ root \in [buf : Int, pos : 0 .. (RootSectors * Sector), cluster : Nat]
  /\ open \in [Handles -> HandleType]
  /\ entry \in ToSet(volume.root) \union {"free"}
  /\ left \in Nat /\ chunk \in Seq(Pieces) /\ Len(chunk) + left <= LoadSize
  /\ loaded \in [Modules -> Seq(Pieces)]
Shape == DiskShape /\ ControlShape /\ DataShape

(* What the boot sector has loaded is the beginning of the chain.            *)
Stage1Inv ==
  /\ step # "jump" => at = "drive"
  /\ step \in {"read root", "read fat"} => stage2 = <<>>
  /\ step \in {"read fat", "load", "jump"} => "stage2" \in ToSet(volume.root)
  /\ step = "read fat" => cluster = volume.first["stage2"]
  /\ step = "load" => /\ Len(stage2) <= LastOf(volume, "stage2")
                      /\ cluster = Chain("stage2")[Len(stage2)]
                      /\ asked \in {NoSector, cluster + DataLba - 2}
  /\ step = "jump" => Len(stage2) = LastOf(volume, "stage2") + 1
  /\ stage2 \in Seq(Int)
  /\ step \in {"load", "jump"} =>
       \A k \in 1 .. Len(stage2) : stage2[k] = DataLba + Chain("stage2")[k - 1] - 2

(* Until the first search the root directory is at its beginning, and so it   *)
(* is while a file is open.                                                *)
StartInv ==
  /\ at \in Starting => name = "kernel" /\ errors = 0
  /\ at \in Starting \union {"open"} \union Holding => root.pos = 0 /\ root.cluster = RootLba
  /\ at = "drive" /\ step = "jump" => asked = NoSector
  /\ at = "root" => asked \in {NoSector, RootLba}

(* The search has passed the entries before the position, and the buffer     *)
(* holds the sector the position is in.                                    *)
SearchInv ==
  at \in Searching /\ Plain /\ fresh =>
    /\ root.cluster = RootLba + (root.pos \div Sector)
    /\ at # "next root sector" /\ root.pos < RootSectors * Sector => root.buf = root.cluster
    /\ at = "next root sector" => asked = root.cluster
    /\ at = "find" => \A i \in 1 .. root.pos : volume.root[i] # name
    /\ at # "find" => /\ root.pos > 0 /\ entry = volume.root[root.pos]
                      /\ \A i \in 1 .. (root.pos - 1) : volume.root[i] # name

(* One handle at most is open, and its position is inside the file.          *)
HandleInv ==
  /\ at \in {"open"} \union Holding => handle # NoHandle /\ name \in ToSet(volume.root)
  /\ \A h \in Handles : open[h].opened => at \in Holding /\ h = handle
  /\ \A h \in Handles : open[h].pos <= open[h].size
  /\ at \in {"read", "next sector"} => open[handle].pos + left <= open[handle].size

(* The k-th unit of a file. *)
PieceAt(n, k) == [lba |-> DataLba + Chain(n)[(k - 1) \div Sector] - 2, at |-> (k - 1) % Sector]

(* The cluster and the buffer are those of the position ... *)
PositionInv ==
  at \in {"open"} \union Holding /\ Plain =>
    LET f == open[handle]
        k == f.pos \div Sector
    IN  /\ f.size = volume.size[name]
        /\ at \in {"open", "memory"} => f.pos = 0
        /\ k <= LastOf(volume, name) =>
             /\ f.cluster = Chain(name)[k]
             /\ (IF at \in {"open", "next sector"} THEN asked ELSE f.buf) = DataLba + f.cluster - 2

(* ... and all before the position has been copied, chunk by chunk, until     *)
(* nothing is left.                                                        *)
CopyInv ==
  at \in Holding /\ Plain =>
    LET f == open[handle]
        done == Len(loaded[name])
    IN  /\ at \notin Reading => f.pos = done
        /\ at \in Reading =>
             /\ f.pos = done + Len(chunk)
             /\ \A k \in 1 .. Len(chunk) : chunk[k] = PieceAt(name, done + k)
             /\ Len(chunk) + left = 0 => f.pos = f.size
             /\ at = "copy" => left = 0
        /\ volume.size[name] < CopyMod => \A k \in 1 .. done : loaded[name][k] = PieceAt(name, k)

(* A file is whole once it is closed. *)
Whole(n) == loaded[n] # <<>> /\ volume.size[n] < CopyMod => loaded[n] = Content(n)
DoneInv ==
  /\ name = "kernel" => loaded["userland"] = <<>>
  /\ at \notin Holding \union {"start kernel", "halt"} => loaded[name] = <<>>
  /\ name = "userland" /\ Plain => Whole("kernel")
  /\ at = "start kernel" => name = "userland" /\ (Plain => Whole("userland"))

(* The blocks before the one fetched last are recorded. *)
Prefix(s, n) == [k \in 1 .. n |-> s[k]]
MemoryInv ==
  /\ memory \in [bios : BiosMaps, block : Nat \ {0}, regions : {Prefix(memory.bios.blocks, memory.block - 1)}]
  /\ memory.block <= Len(memory.bios.blocks) + 1
  /\ at \in Starting => name = "kernel"
  /\ name = "userland" \/ at \in Holding \ {"memory"} => ~GoesOn(memory.bios, memory.block)

Inv ==
  /\ Shape /\ Stage1Inv /\ StartInv /\ SearchInv /\ HandleInv /\ PositionInv /\ CopyInv
  /\ DoneInv /\ MemoryInv /\ FindsWhatIsThere
-----------------------------------------------------------------------------
(* Numbers. *)

LEMMA DivMod ==
  ASSUME NEW a \in Nat, NEW n \in Nat \ {0}
  PROVE  /\ a \div n \in Nat /\ a % n \in 0 .. (n - 1)
         /\ a = n * (a \div n) + (a % n)
  OBVIOUS

LEMMA DivOf ==
  ASSUME NEW n \in Nat \ {0}, NEW q \in Nat, NEW r \in 0 .. (n - 1)
  PROVE  (n * q + r) \div n = q /\ (n * q + r) % n = r
  OBVIOUS

(* One step further: in the same sector, or at the start of the next. *)
LEMMA DivStep ==
  ASSUME NEW a \in Nat, NEW n \in Nat \ {0}, NEW d \in Nat, (a % n) + d <= n
  PROVE  /\ (a % n) + d = n => (a + d) \div n = (a \div n) + 1 /\ (a + d) % n = 0
         /\ (a % n) + d # n => (a + d) \div n = a \div n /\ (a + d) % n = (a % n) + d
<1> DEFINE q == a \div n
           r == a % n
<1>1. q \in Nat /\ r \in 0 .. (n - 1) /\ a = n * q + r
  BY DivMod
<1>2. n * q \in Nat
  BY <1>1
<1> HIDE DEF q, r
<1>3. ASSUME r + d = n PROVE (a + d) \div n = q + 1 /\ (a + d) % n = 0
  <2>1. a + d = n * (q + 1) + 0
    BY <1>1, <1>3
  <2>2. q + 1 \in Nat /\ 0 \in 0 .. (n - 1)
    BY <1>1
  <2>3. (n * (q + 1) + 0) \div n = q + 1 /\ (n * (q + 1) + 0) % n = 0
    BY <2>2, DivOf
  <2> QED
    BY <2>1, <2>3
<1>4. ASSUME r + d # n, r + d <= n PROVE (a + d) \div n = q /\ (a + d) % n = r + d
  <2>1. a + d = n * q + (r + d) /\ r + d \in 0 .. (n - 1)
    BY <1>1, <1>2, <1>4
  <2> QED
    BY <1>1, <2>1, DivOf
<1> QED
  BY <1>3, <1>4 DEF q, r

(* A step that ends inside the block of a.                                  *)
LEMMA DivStays ==
  ASSUME NEW a \in Nat, NEW n \in Nat \ {0}, NEW d \in Nat, (a % n) + d < n
  PROVE  (a + d) \div n = a \div n /\ (a + d) % n = (a % n) + d
<1> DEFINE r == a % n
<1>1. r \in 0 .. (n - 1)
  BY DivMod
<1>2. r + d < n
  OBVIOUS
<1>3. r + d <= n /\ r + d # n
  <2> HIDE DEF r
  <2> QED BY <1>1, <1>2
<1> QED
  BY <1>3, DivStep, Zenon

LEMMA DivNext ==
  ASSUME NEW a \in Nat, NEW n \in Nat \ {0}
  PROVE  /\ (a + 1) % n = 0 => (a + 1) \div n = (a \div n) + 1
         /\ (a + 1) % n # 0 => (a + 1) \div n = a \div n
<1> DEFINE r == a % n
<1>1. r \in 0 .. (n - 1)
  BY DivMod
<1>2. r + 1 <= n /\ r + 1 \in Nat /\ r + 1 # 0
  <2> HIDE DEF r
  <2> QED BY <1>1
<1>3. 1 \in Nat
  OBVIOUS
<1>4. /\ r + 1 = n => (a + 1) \div n = (a \div n) + 1 /\ (a + 1) % n = 0
      /\ r + 1 # n => (a + 1) \div n = a \div n /\ (a + 1) % n = r + 1
  BY <1>2, <1>3, DivStep, Zenon
<1> QED
  BY <1>2, <1>4, Zenon

LEMMA DivLess ==
  ASSUME NEW a \in Nat, NEW n \in Nat \ {0}, NEW k \in Nat
  PROVE  /\ a < k * n => a \div n < k
         /\ a \div n < k => a < k * n
<1> DEFINE q == a \div n
           r == a % n
<1>1. q \in Nat /\ r \in 0 .. (n - 1) /\ a = n * q + r
  BY DivMod
<1> HIDE DEF q, r
<1>2. n * q \in Nat /\ k * n \in Nat
  BY <1>1
<1>3. ASSUME a < k * n, q >= k PROVE FALSE
  <2>1. PICK j \in Nat : q = k + j
    <3>1. q - k \in Nat /\ q = k + (q - k)
      BY <1>1, <1>3
    <3> QED
      BY <3>1
  <2>2. n * q = k * n + n * j /\ n * j \in Nat
    BY <2>1
  <2> QED
    BY <1>1, <1>2, <1>3, <2>2
<1>4. ASSUME q < k PROVE a < k * n
  <2>1. PICK j \in Nat : k = q + 1 + j
    <3>1. k - q - 1 \in Nat /\ k = q + 1 + (k - q - 1)
      BY <1>1, <1>4
    <3> QED
      BY <3>1
  <2>2. k * n = n * q + n + n * j /\ n * j \in Nat
    BY <1>1, <2>1
  <2> QED
    BY <1>1, <1>2, <2>2
<1> QED
  BY <1>1, <1>3, <1>4 DEF q

LEMMA SectorOf ==
  ASSUME NEW p \in Nat, NEW z \in Nat, NEW n \in Nat \ {0}, p < z
  PROVE  p \div n \in 0 .. ((z - 1) \div n)
<1> DEFINE q == p \div n
           l == (z - 1) \div n
<1>1. z - 1 \in Nat
  OBVIOUS
<1>2. q \in Nat /\ l \in Nat
  BY <1>1, DivMod
<1>3. ~(l < q)
  <2>1. SUFFICES ASSUME l < q PROVE FALSE
    OBVIOUS
  <2>2. z - 1 < q * n
    BY <1>1, <1>2, <2>1, DivLess
  <2>3. ~(p < q * n)
    <3>1. p < q * n => p \div n < q
      BY <1>2, DivLess
    <3>2. ~(q < q)
      BY <1>2
    <3> QED
      BY <3>1, <3>2
  <2>4. q * n \in Nat
    BY <1>2
  <2> HIDE DEF q
  <2> QED
    BY <2>2, <2>3, <2>4
<1> HIDE DEF q, l
<1>4. q \in 0 .. l
  BY <1>2, <1>3
<1> QED
  BY <1>4 DEF q, l

LEMMA LastSector ==
  ASSUME NEW p \in Nat, NEW z \in Nat, NEW n \in Nat \ {0}, NEW d \in Nat,
         p < z, p + d <= z, (p % n) + d = n, p \div n = (z - 1) \div n
  PROVE  p + d = z
<1> DEFINE q == p \div n
           o == p % n
<1>1. q \in Nat /\ o \in Nat /\ p = n * q + o
  BY DivMod
<1>2. z - 1 < (q + 1) * n
  <2>1. z - 1 \in Nat /\ q + 1 \in Nat /\ (z - 1) \div n < q + 1
    BY <1>1
  <2> HIDE DEF q
  <2> QED
    BY <2>1, DivLess
<1> HIDE DEF q, o
<1>3. (q + 1) * n = n * q + n /\ n * q \in Nat
  BY <1>1
<1>4. o + d = n
  BY DEF o
<1> DEFINE x == n * q
<1>5. x \in Nat /\ p = x + o /\ z - 1 < x + n
  BY <1>1, <1>2, <1>3
<1> HIDE DEF x
<1> QED
  BY <1>1, <1>4, <1>5

LEMMA LeastInNat ==
  ASSUME NEW S, S \subseteq Nat, NEW n \in S
  PROVE  \E m \in S : \A k \in Nat : k < m => k \notin S
<1>1. IsWellFoundedOn(OpToRel(<, Nat), Nat)
  BY NatLessThanWellFounded
<1>2. PICK m \in S : \A y \in S : ~ (<<y, m>> \in OpToRel(<, Nat))
  BY <1>1, WFMin
<1>3. ASSUME NEW k \in Nat, k < m PROVE k \notin S
  <2>1. <<k, m>> \in OpToRel(<, Nat)
    BY <1>3 DEF OpToRel
  <2> QED
    BY <1>2, <2>1
<1> QED
  BY <1>3

(* A sequence of values that each follow from the one before, f[i] from       *)
(* f[i - 1] by step[i]: the recursive functions of Fat12 and Stage2.         *)
Rounds(f, first, g, n) == f = [i \in 0 .. n |-> IF i = 0 THEN first ELSE g[i][f[i - 1]]]

LEMMA RoundsExist ==
  ASSUME NEW first, NEW g, NEW n \in Nat
  PROVE  \E f : Rounds(f, first, g, n)
<1> DEFINE Missing == {k \in Nat : ~ \E f : Rounds(f, first, g, k)}
<1>1. SUFFICES ASSUME n \in Missing PROVE FALSE
  OBVIOUS
<1>2. PICK k \in Missing : \A j \in Nat : j < k => j \notin Missing
  BY <1>1, LeastInNat
<1>3. k # 0
  <2>1. SUFFICES ASSUME k = 0 PROVE FALSE
    OBVIOUS
  <2> DEFINE f == [i \in 0 .. 0 |-> first]
  <2>2. f = [i \in 0 .. 0 |-> IF i = 0 THEN first ELSE g[i][f[i - 1]]]
    OBVIOUS
  <2> HIDE DEF f
  <2>3. Rounds(f, first, g, 0)
    BY <2>2 DEF Rounds
  <2> QED
    BY <1>2, <2>1, <2>3
<1>4. k \in Nat /\ k - 1 \in Nat /\ k - 1 < k
  BY <1>2, <1>3
<1>5. PICK f : Rounds(f, first, g, k - 1)
  BY <1>2, <1>4
<1> DEFINE e == [i \in 0 .. k |-> IF i < k THEN f[i] ELSE g[k][f[k - 1]]]
           h == [i \in 0 .. k |-> IF i = 0 THEN first ELSE g[i][e[i - 1]]]
<1>6. ASSUME NEW i \in 0 .. k PROVE e[i] = IF i = 0 THEN first ELSE g[i][e[i - 1]]
  <2>1. CASE i = 0
    <3>1. e[i] = f[0] /\ 0 \in 0 .. (k - 1)
      BY <1>4, <2>1
    <3> HIDE DEF e
    <3>2. f[0] = first
      BY <1>5, <3>1 DEF Rounds
    <3> QED
      BY <2>1, <3>1, <3>2
  <2>2. CASE i # 0 /\ i < k
    <3>1. i \in 0 .. (k - 1) /\ i - 1 \in 0 .. k /\ i - 1 < k
      BY <1>4, <2>2
    <3>2. e[i] = f[i] /\ e[i - 1] = f[i - 1]
      BY <2>2, <3>1
    <3> HIDE DEF e
    <3>3. f[i] = g[i][f[i - 1]]
      BY <1>5, <2>2, <3>1 DEF Rounds
    <3> QED
      BY <2>2, <3>2, <3>3
  <2>3. CASE i = k
    <3>1. k - 1 \in 0 .. k
      BY <1>4
    <3>2. e[i] = g[k][f[k - 1]] /\ e[k - 1] = f[k - 1]
      BY <1>4, <2>3, <3>1
    <3> HIDE DEF e
    <3> QED
      BY <1>3, <2>3, <3>2
  <2> QED
    BY <1>4, <2>1, <2>2, <2>3
<1>7. e = h
  <2>1. h = [i \in 0 .. k |-> e[i]]
    <3> HIDE DEF e
    <3> QED BY <1>6
  <2> QED
    BY <2>1
<1>8. Rounds(e, first, g, k)
  <2> HIDE DEF e
  <2> QED BY <1>7 DEF Rounds
<1> QED
  BY <1>2, <1>8
-----------------------------------------------------------------------------
(* The volume and the drive. *)

LEMMA Constants ==
  /\ Sector \in Nat \ {0} /\ RootLba \in Nat /\ RootSectors \in Nat
  /\ Drive.sectors \in Nat \ {0} /\ Drive.heads \in Nat \ {0}
  /\ EndOfChain \in Nat /\ MaxFaults \in Nat
  /\ LoadSize \in Nat \ {0} /\ UintMod \in Nat \ {0} /\ CopyMod \in Nat \ {0}
  /\ MaxHandles \in Nat \ {0} /\ NoSector = -1 /\ NoHandle = -1
  /\ DataLba \in Nat /\ RootSectors * Sector \in Nat
  BY FatAssumption, Stage2Assumption DEF NoSector, NoHandle, DataLba

(* From LBA to cylinder, head and sector and back. *)
LEMMA ReadsWhatIsAsked ==
  ASSUME asked \in Nat
  PROVE  Delivered(Drive) = asked
<1> DEFINE s == Drive.sectors
           h == Drive.heads
<1>1. s \in Nat \ {0} /\ h \in Nat \ {0}
  BY Constants
<1>2. PICK q \in Nat, r \in Nat : q = asked \div s /\ r = asked % s /\ asked = s * q + r
  <2> HIDE DEF s
  <2>1. asked \div s \in Nat /\ asked % s \in 0 .. (s - 1) /\ asked = s * (asked \div s) + (asked % s)
    BY <1>1, DivMod
  <2>2. asked % s \in Nat
    BY <1>1, <2>1
  <2> QED
    BY <2>1, <2>2
<1>3. PICK c \in Nat, d \in Nat : c = q \div h /\ d = q % h /\ q = h * c + d
  <2> HIDE DEF h
  <2>1. q \div h \in Nat /\ q % h \in 0 .. (h - 1) /\ q = h * (q \div h) + (q % h)
    BY <1>1, DivMod
  <2>2. q % h \in Nat
    BY <1>1, <2>1
  <2> QED
    BY <2>1, <2>2
<1>4. Delivered(Drive) = (c * h + d) * s + (r + 1) - 1
  <2>1. Delivered(Drive) = (((asked \div s) \div h) * h + ((asked \div s) % h)) * s + ((asked % s) + 1) - 1
    BY DEF Delivered, BiosSector, LBA2CHS
  <2> QED
    BY <1>2, <1>3, <2>1
<1> HIDE DEF s, h
<1>5. c * h = h * c /\ h * c \in Nat /\ s * q \in Nat /\ q * s = s * q
  BY <1>1
<1>6. q = h * c + d /\ asked = s * q + r
  BY <1>2, <1>3
<1>7. c * h + d = q
  BY <1>5, <1>6
<1>8. Delivered(Drive) = q * s + (r + 1) - 1
  BY <1>4, <1>7
<1> QED
  BY <1>5, <1>6, <1>8

LEMMA DeliveredInt ==
  ASSUME asked \in Int, NEW g \in Geometries \union {Drive}
  PROVE  Delivered(g) \in Int
<1>1. g.sectors \in Nat \ {0} /\ g.heads \in Nat \ {0} /\ Drive.sectors \in Nat /\ Drive.heads \in Nat
  BY FatAssumption, Stage2Assumption
<1> DEFINE q == asked \div g.sectors
           r == asked % g.sectors
           c == q \div g.heads
           d == q % g.heads
<1>2. q \in Int /\ r \in Int
  BY <1>1
<1>3. c \in Int /\ d \in Int
  <2> HIDE DEF q
  <2> QED BY <1>1, <1>2
<1>4. Delivered(g) = (c * Drive.heads + d) * Drive.sectors + (r + 1) - 1
  BY DEF Delivered, BiosSector, LBA2CHS
<1>5. c * Drive.heads \in Int /\ r + 1 \in Int
  <2> HIDE DEF c, r
  <2> QED BY <1>1, <1>2, <1>3
<1>6. (c * Drive.heads + d) * Drive.sectors \in Int
  <2>1. c * Drive.heads + d \in Int
    <3> HIDE DEF c, d
    <3> QED BY <1>3, <1>5
  <2> HIDE DEF c, d
  <2> QED BY <1>1, <2>1
<1> DEFINE x == (c * Drive.heads + d) * Drive.sectors
           y == r + 1
<1>7. x \in Int /\ y \in Int /\ Delivered(g) = x + y - 1
  BY <1>4, <1>5, <1>6, Zenon
<1> HIDE DEF x, y
<1> QED
  BY <1>7

(* What the twelve bits of an entry hold, under a name that the provers do   *)
(* not expand.                                                              *)
EntryValues == 0 .. 4095

LEMMA FatFacts ==
  ASSUME volume \in Volumes, NEW c \in DOMAIN volume.fat
  PROVE  c \in Nat /\ c >= 2 /\ volume.fat[c] \in EntryValues /\ volume.fat[c] \in Nat
<1>1. FatInRange(volume)
  BY VolumesAssumption
<1> DEFINE fat == volume.fat
<1>2. c \in DOMAIN fat /\ \A e \in DOMAIN fat : e \in Nat /\ e >= 2 /\ fat[e] \in 0 .. 4095
  BY <1>1, Zenon DEF FatInRange
<1> HIDE DEF fat
<1>3. c \in Nat /\ c >= 2 /\ fat[c] \in EntryValues
  BY <1>2 DEF EntryValues
<1>4. \A d \in EntryValues : d \in Nat
  BY DEF EntryValues
<1> QED
  BY <1>3, <1>4, Zenon DEF fat

LEMMA DigitIs ==
  ASSUME NEW c \in DOMAIN volume.fat, volume \in Volumes, NEW j \in 0 .. 2
  PROVE  Digit(3 * c + j) = (volume.fat[c] \div <<1, 16, 256>>[j + 1]) % 16
<1>1. c \in Nat
  BY FatFacts, Zenon
<1>2. (3 * c + j) \div 3 = c /\ (3 * c + j) % 3 = j
  BY <1>1
<1> QED
  BY <1>2 DEF Digit

LEMMA Digits ==
  ASSUME NEW v \in EntryValues
  PROVE  (v % 16) + 16 * ((v \div 16) % 16) + 256 * ((v \div 256) % 16) = v
<1> DEFINE a == v % 16
           h == v \div 16
           b == h % 16
           g == h \div 16
<1>1. v = 16 * h + a /\ a \in 0 .. 15 /\ h \in 0 .. 255
  BY DEF EntryValues
<1> HIDE DEF a, h
<1>2. h = 16 * g + b /\ b \in 0 .. 15 /\ g \in 0 .. 15
  BY <1>1
<1> HIDE DEF b, g
<1>3. v \div 256 = g /\ g % 16 = g
  BY <1>1, <1>2
<1>4. a + 16 * b + 256 * g = v
  BY <1>1, <1>2
<1> QED
  BY <1>3, <1>4 DEF a, b, h

LEMMA ThreeDigits ==
  ASSUME NEW c \in DOMAIN volume.fat, volume \in Volumes
  PROVE  /\ Digit(3 * c) + 16 * Digit(3 * c + 1) + 256 * Digit(3 * c + 2) = volume.fat[c]
         /\ Digit(3 * c) \in 0 .. 15 /\ Digit(3 * c + 1) \in 0 .. 15 /\ Digit(3 * c + 2) \in 0 .. 15
<1> DEFINE v == volume.fat[c]
<1>1. v \in EntryValues /\ v \in Nat /\ c \in Nat
  BY FatFacts, Zenon
<1>2. Digit(3 * c + 0) = (v \div 1) % 16 /\ Digit(3 * c + 1) = (v \div 16) % 16
      /\ Digit(3 * c + 2) = (v \div 256) % 16
  <2>1. \A j \in 0 .. 2 : Digit(3 * c + j) = (v \div <<1, 16, 256>>[j + 1]) % 16
    BY DigitIs
  <2>2. <<1, 16, 256>>[0 + 1] = 1 /\ <<1, 16, 256>>[1 + 1] = 16 /\ <<1, 16, 256>>[2 + 1] = 256
    OBVIOUS
  <2> HIDE DEF v
  <2> QED
    BY <2>1, <2>2
<1>3. 3 * c + 0 = 3 * c /\ v \div 1 = v
  <2> HIDE DEF v
  <2> QED BY <1>1
<1> HIDE DEF v
<1>4. (v % 16) + 16 * ((v \div 16) % 16) + 256 * ((v \div 256) % 16) = v
  BY <1>1, Digits
<1>5. Digit(3 * c) = v % 16
  BY <1>2, <1>3
<1>6. v % 16 \in 0 .. 15 /\ (v \div 16) % 16 \in 0 .. 15 /\ (v \div 256) % 16 \in 0 .. 15
  BY <1>1
<1> QED
  BY <1>2, <1>4, <1>5, <1>6 DEF v

LEMMA DigitSmall ==
  ASSUME NEW i \in Nat, volume \in Volumes
  PROVE  Digit(i) \in 0 .. 15
<1>1. CASE (i \div 3) \in DOMAIN volume.fat
  <2> DEFINE c == i \div 3
             j == i % 3
  <2>1. i = 3 * c + j /\ j \in 0 .. 2 /\ c \in Nat
    OBVIOUS
  <2>2. c \in DOMAIN volume.fat
    BY <1>1
  <2> HIDE DEF c, j
  <2>3. j = 0 \/ j = 1 \/ j = 2
    BY <2>1
  <2>4. Digit(3 * c + j) \in 0 .. 15
    <3>1. 3 * c + 0 = 3 * c
      BY <2>1
    <3> QED
      BY <2>2, <2>3, <3>1, ThreeDigits
  <2> QED
    BY <2>1, <2>4
<1>2. CASE (i \div 3) \notin DOMAIN volume.fat
  BY <1>2 DEF Digit
<1> QED
  BY <1>1, <1>2

(* The two ways to take a cluster out of a word of the table. *)
LEMMA LowDigits ==
  ASSUME NEW a \in 0 .. 15, NEW b \in 0 .. 15, NEW c \in 0 .. 15, NEW d \in 0 .. 15
  PROVE  /\ (a + 16 * b + 256 * c + 4096 * d) % 4096 = a + 16 * b + 256 * c
         /\ (a + 16 * b + 256 * c + 4096 * d) \div 16 = b + 16 * c + 256 * d
  OBVIOUS

LEMMA NextClusterIs ==
  ASSUME NEW c \in DOMAIN volume.fat, volume \in Volumes
  PROVE  NextCluster(c) = volume.fat[c]
<1>1. c \in Nat
  BY FatFacts, Zenon
<1>2. CASE c % 2 = 0
  <2>1. PICK k \in Nat : c = 2 * k
    BY <1>1, <1>2
  <2>2. (c * 3) \div 2 = 3 * k /\ 2 * (3 * k) = 3 * c /\ 3 * c + 3 \in Nat
    BY <2>1
  <2>3. NextCluster(c) = Word(3 * k) % 4096
    BY <1>2, <2>2 DEF NextCluster
  <2>4. Word(3 * k) = Digit(3 * c) + 16 * Digit(3 * c + 1) + 256 * Digit(3 * c + 2) + 4096 * Digit(3 * c + 3)
    BY <2>2 DEF Word
  <2> DEFINE x == Digit(3 * c)
             y == Digit(3 * c + 1)
             z == Digit(3 * c + 2)
             w == Digit(3 * c + 3)
  <2>5. w \in 0 .. 15
    BY <2>2, DigitSmall
  <2>6. x \in 0 .. 15 /\ y \in 0 .. 15 /\ z \in 0 .. 15 /\ x + 16 * y + 256 * z = volume.fat[c]
    BY ThreeDigits, Zenon
  <2>7. NextCluster(c) = (x + 16 * y + 256 * z + 4096 * w) % 4096
    BY <2>3, <2>4
  <2> HIDE DEF x, y, z, w
  <2>8. (x + 16 * y + 256 * z + 4096 * w) % 4096 = x + 16 * y + 256 * z
    BY <2>5, <2>6, LowDigits
  <2> QED
    BY <2>6, <2>7, <2>8
<1>3. CASE c % 2 # 0
  <2>1. PICK k \in Nat : c = 2 * k + 1
    <3>1. c = 2 * (c \div 2) + 1 /\ c \div 2 \in Nat
      BY <1>1, <1>3
    <3> QED
      BY <3>1
  <2>2. (c * 3) \div 2 = 3 * k + 1 /\ 2 * (3 * k + 1) = 3 * c - 1 /\ 3 * c - 1 \in Nat
    BY <2>1
  <2>3. NextCluster(c) = Word(3 * k + 1) \div 16
    BY <1>3, <2>2 DEF NextCluster
  <2>4. Word(3 * k + 1) = Digit(3 * c - 1) + 16 * Digit(3 * c - 1 + 1) + 256 * Digit(3 * c - 1 + 2)
                            + 4096 * Digit(3 * c - 1 + 3)
    BY <2>2 DEF Word
  <2>5. 3 * c - 1 + 1 = 3 * c /\ 3 * c - 1 + 2 = 3 * c + 1 /\ 3 * c - 1 + 3 = 3 * c + 2
    BY <1>1
  <2> DEFINE x == Digit(3 * c)
             y == Digit(3 * c + 1)
             z == Digit(3 * c + 2)
             w == Digit(3 * c - 1)
  <2>6. w \in 0 .. 15
    BY <2>2, DigitSmall
  <2>7. x \in 0 .. 15 /\ y \in 0 .. 15 /\ z \in 0 .. 15 /\ x + 16 * y + 256 * z = volume.fat[c]
    BY ThreeDigits, Zenon
  <2>8. NextCluster(c) = (w + 16 * x + 256 * y + 4096 * z) \div 16
    BY <2>3, <2>4, <2>5
  <2> HIDE DEF x, y, z, w
  <2>9. (w + 16 * x + 256 * y + 4096 * z) \div 16 = x + 16 * y + 256 * z
    BY <2>6, <2>7, LowDigits
  <2> QED
    BY <2>7, <2>8, <2>9
<1> QED
  BY <1>2, <1>3, Zenon

LEMMA NextClusterNat ==
  ASSUME NEW c \in Nat, volume \in Volumes
  PROVE  NextCluster(c) \in Nat
<1> DEFINE b == (c * 3) \div 2
<1>1. b \in Nat
  OBVIOUS
<1> HIDE DEF b
<1>2. Word(b) \in Nat
  <2>1. 2 * b \in Nat /\ 2 * b + 1 \in Nat /\ 2 * b + 2 \in Nat /\ 2 * b + 3 \in Nat
    BY <1>1
  <2>2. Digit(2 * b) \in Nat /\ Digit(2 * b + 1) \in Nat /\ Digit(2 * b + 2) \in Nat /\ Digit(2 * b + 3) \in Nat
    BY <2>1, DigitSmall
  <2> QED
    BY <2>2 DEF Word
<1>3. Word(b) % 4096 \in Nat /\ Word(b) \div 16 \in Nat
  BY <1>2
<1> QED
  BY <1>3 DEF NextCluster, b

(* The chain of a file. *)
LEMMA ChainIs ==
  ASSUME NEW v, NEW n, LastOf(v, n) \in Nat
  PROVE  /\ ChainOn(v, n)[0] = v.first[n]
         /\ \A i \in 1 .. LastOf(v, n) : ChainOn(v, n)[i] = v.fat[ChainOn(v, n)[i - 1]]
<1> DEFINE l == LastOf(v, n)
           g == [i \in 1 .. l |-> v.fat]
           P(f) == f = [i \in 0 .. l |-> IF i = 0 THEN v.first[n] ELSE v.fat[f[i - 1]]]
           f == CHOOSE f : P(f)
<1>1. PICK r : Rounds(r, v.first[n], g, l)
  BY RoundsExist
<1>2. P(r)
  <2>1. r = [i \in 0 .. l |-> IF i = 0 THEN v.first[n] ELSE g[i][r[i - 1]]]
    BY <1>1, Zenon DEF Rounds
  <2>2. \A i \in 0 .. l : i # 0 => g[i] = v.fat
    OBVIOUS
  <2> HIDE DEF g, l
  <2> QED
    BY <2>1, <2>2
<1>3. P(f)
  BY <1>2
<1>4. ChainOn(v, n) = f
  BY DEF ChainOn
<1> HIDE DEF f
<1> QED
  BY <1>3, <1>4

LEMMA FileFacts ==
  ASSUME volume \in Volumes, NEW n \in Files \intersect ToSet(volume.root)
  PROVE  /\ volume.size[n] \in Nat \ {0} /\ LastOf(volume, n) \in Nat
         /\ LastOf(volume, n) = (volume.size[n] - 1) \div Sector
         /\ Chain(n)[0] = volume.first[n]
         /\ \A i \in 0 .. LastOf(volume, n) :
              /\ Chain(n)[i] \in DOMAIN volume.fat /\ Chain(n)[i] \in Nat /\ Chain(n)[i] >= 2
              /\ NextCluster(Chain(n)[i]) \in Nat
              /\ NextCluster(Chain(n)[i]) >= EndOfChain <=> i = LastOf(volume, n)
              /\ i # LastOf(volume, n) => Chain(n)[i + 1] = NextCluster(Chain(n)[i])
<1> DEFINE l == LastOf(volume, n)
<1>0. ChainComplete(volume, n)
  BY VolumesAssumption
<1>1. volume.size[n] \in Nat \ {0} /\ l = (volume.size[n] - 1) \div Sector
  BY <1>0 DEF ChainComplete, LastOf
<1>2. l \in Nat
  <2>1. volume.size[n] - 1 \in Nat /\ Sector \in Nat \ {0}
    BY <1>1, Constants
  <2>2. (volume.size[n] - 1) \div Sector \in Nat
    BY <2>1, DivMod
  <2> QED
    BY <1>1, <2>2
<1>3. Chain(n)[0] = volume.first[n] /\ \A i \in 1 .. l : Chain(n)[i] = volume.fat[Chain(n)[i - 1]]
  BY <1>2, ChainIs DEF Chain
<1>4. \A i \in 0 .. l : Chain(n)[i] \in DOMAIN volume.fat
                        /\ (volume.fat[Chain(n)[i]] >= EndOfChain <=> i = l)
  BY <1>0 DEF Chain, ChainComplete
<1>5. ASSUME NEW i \in 0 .. l
      PROVE  /\ Chain(n)[i] \in Nat /\ Chain(n)[i] >= 2
             /\ NextCluster(Chain(n)[i]) = volume.fat[Chain(n)[i]]
             /\ NextCluster(Chain(n)[i]) \in Nat
  <2> DEFINE c == Chain(n)[i]
  <2>1. c \in DOMAIN volume.fat
    BY <1>4, Zenon
  <2> HIDE DEF c
  <2>2. c \in Nat /\ c >= 2 /\ volume.fat[c] \in Nat
    BY <2>1, FatFacts
  <2>3. NextCluster(c) = volume.fat[c]
    BY <2>1, NextClusterIs
  <2>4. NextCluster(c) \in Nat
    BY <2>2, <2>3
  <2>5. c \in Nat /\ c >= 2
    BY <2>2
  <2> QED
    BY <2>3, <2>4, <2>5 DEF c
<1>6. ASSUME NEW i \in 0 .. l, i # l PROVE Chain(n)[i + 1] = NextCluster(Chain(n)[i])
  <2>1. i + 1 \in 1 .. l /\ i + 1 - 1 = i
    <3> HIDE DEF l
    <3> QED BY <1>2, <1>6
  <2> QED
    BY <1>3, <1>5, <2>1
<1> HIDE DEF l
<1>7. QED
  BY <1>1, <1>2, <1>3, <1>4, <1>5, <1>6 DEF l
-----------------------------------------------------------------------------
(* The sum over a memory map. *)

Weight(b) == IF b.type = Usable THEN b.len ELSE 0
SumTo(f, blocks) == f = [i \in 0 .. Len(blocks) |-> IF i = 0 THEN 0 ELSE f[i - 1] + Weight(blocks[i])]

LEMMA UsableInIs ==
  ASSUME NEW blocks, Len(blocks) \in Nat, \A i \in 1 .. Len(blocks) : blocks[i].len \in Nat
  PROVE  \E f : SumTo(f, blocks) /\ f \in [0 .. Len(blocks) -> Nat] /\ UsableIn(blocks) = f[Len(blocks)]
<1> DEFINE l == Len(blocks)
           g == [i \in 1 .. l |-> [x \in Nat |-> x + Weight(blocks[i])]]
           f == CHOOSE f : SumTo(f, blocks)
<1>1. \A i \in 1 .. l : Weight(blocks[i]) \in Nat
  BY DEF Weight
<1>2. PICK r : Rounds(r, 0, g, l)
  BY RoundsExist
<1>3. r = [i \in 0 .. l |-> IF i = 0 THEN 0 ELSE g[i][r[i - 1]]]
  BY <1>2 DEF Rounds
<1> HIDE DEF l
<1>4. ASSUME NEW i \in 1 .. l, r[i - 1] \in Nat PROVE r[i] = r[i - 1] + Weight(blocks[i]) /\ r[i] \in Nat
  <2>1. i \in 0 .. l /\ i # 0 /\ l \in Nat
    BY DEF l
  <2>2. r[i] = g[i][r[i - 1]]
    <3> HIDE DEF g
    <3> QED BY <1>3, <2>1
  <2>3. g[i][r[i - 1]] = r[i - 1] + Weight(blocks[i])
    <3>1. g[i] = [x \in Nat |-> x + Weight(blocks[i])]
      BY <1>4
    <3> HIDE DEF g
    <3> QED BY <1>4, <3>1
  <2> HIDE DEF g
  <2> QED
    BY <1>1, <1>4, <2>2, <2>3
<1>5. r[0] = 0 /\ l \in Nat
  <2>1. l \in Nat /\ 0 \in 0 .. l
    BY DEF l
  <2> HIDE DEF g
  <2> QED BY <1>3, <2>1
<1> HIDE DEF g
<1>6. ASSUME NEW i \in 0 .. l PROVE r[i] \in Nat
  <2> DEFINE Bad == {k \in Nat : k <= l /\ r[k] \notin Nat}
  <2>1. SUFFICES ASSUME i \in Bad PROVE FALSE
    BY <1>5
  <2>2. PICK k \in Bad : \A j \in Nat : j < k => j \notin Bad
    <3> HIDE DEF Bad
    <3>1. Bad \subseteq Nat
      BY DEF Bad
    <3> QED
      BY <2>1, <3>1, LeastInNat
  <2>3. k \in 1 .. l /\ k - 1 \in Nat /\ k - 1 < k /\ k - 1 <= l
    BY <1>5, <2>2
  <2>4. r[k - 1] \in Nat
    BY <2>2, <2>3
  <2> QED
    BY <1>4, <2>2, <2>3, <2>4
<1>7. ASSUME NEW i \in 0 .. l PROVE r[i] = IF i = 0 THEN 0 ELSE r[i - 1] + Weight(blocks[i])
  <2>1. CASE i = 0
    BY <1>5, <2>1
  <2>2. CASE i # 0
    <3>1. i \in 1 .. l /\ i - 1 \in 0 .. l
      BY <1>5, <2>2
    <3> QED
      BY <1>4, <1>6, <2>2, <3>1
  <2> QED
    BY <2>1, <2>2
<1>8. SumTo(r, blocks)
  <2> DEFINE h == [i \in 0 .. l |-> IF i = 0 THEN 0 ELSE r[i - 1] + Weight(blocks[i])]
             e == [i \in 0 .. l |-> r[i]]
  <2>1. r = e
    BY <1>3
  <2>2. h = e
    BY <1>7
  <2>3. r = h
    BY <2>1, <2>2
  <2> HIDE DEF e
  <2> QED
    BY <2>3 DEF SumTo, l
<1>9. SumTo(f, blocks)
  BY <1>8
<1>10. UsableIn(blocks) = f[l]
  BY DEF UsableIn, SumTo, Weight, l
<1>11. \A i \in 0 .. l : f[i] = r[i]
  <2> DEFINE Bad == {k \in Nat : k <= l /\ f[k] # r[k]}
  <2> HIDE DEF f
  <2>1. SUFFICES ASSUME NEW i \in Bad PROVE FALSE
    BY <1>5
  <2>2. PICK k \in Bad : \A j \in Nat : j < k => j \notin Bad
    <3> HIDE DEF Bad
    <3>1. Bad \subseteq Nat
      BY DEF Bad
    <3> QED
      BY <3>1, LeastInNat
  <2>3. k \in 0 .. l
    BY <1>5, <2>2
  <2>4. f[k] = (IF k = 0 THEN 0 ELSE f[k - 1] + Weight(blocks[k]))
    BY <1>9, <2>3 DEF SumTo, l
  <2>5. k # 0
    BY <1>5, <2>2, <2>4
  <2>6. k - 1 \in Nat /\ k - 1 < k /\ k - 1 <= l
    BY <1>5, <2>3, <2>5
  <2>7. f[k - 1] = r[k - 1]
    BY <2>2, <2>6
  <2> QED
    BY <1>7, <2>2, <2>3, <2>4, <2>5, <2>7
<1>12. f \in [0 .. l -> Nat]
  <2> HIDE DEF f
  <2>1. f = [i \in 0 .. l |-> IF i = 0 THEN 0 ELSE f[i - 1] + Weight(blocks[i])]
    BY <1>9 DEF SumTo, l
  <2>2. \A i \in 0 .. l : f[i] \in Nat
    BY <1>6, <1>11
  <2>3. DOMAIN f = 0 .. l /\ f = [i \in DOMAIN f |-> f[i]]
    BY <2>1
  <2> QED
    BY <2>2, <2>3
<1> HIDE DEF f
<1> QED
  BY <1>9, <1>10, <1>12 DEF l

(* A last block that does not count can be left out. *)
LEMMA UsablePrefix ==
  ASSUME NEW blocks, Len(blocks) \in Nat, \A i \in 1 .. Len(blocks) : blocks[i].len \in Nat,
         NEW n \in Nat, n <= Len(blocks),
         \A i \in (n + 1) .. Len(blocks) : Weight(blocks[i]) = 0
  PROVE  UsableIn(Prefix(blocks, n)) = UsableIn(blocks) /\ UsableIn(blocks) \in Nat
<1> DEFINE p == Prefix(blocks, n)
           l == Len(blocks)
<1>1. Len(p) = n /\ \A i \in 1 .. n : p[i] = blocks[i]
  BY DEF Prefix
<1> HIDE DEF p
<1>2. \A i \in 1 .. Len(p) : p[i].len \in Nat
  BY <1>1
<1>3. PICK f : SumTo(f, blocks) /\ f \in [0 .. l -> Nat] /\ UsableIn(blocks) = f[l]
  BY UsableInIs
<1>4. PICK e : SumTo(e, p) /\ e \in [0 .. n -> Nat] /\ UsableIn(p) = e[n]
  <2>1. Len(p) \in Nat
    BY <1>1
  <2>2. \E e : SumTo(e, p) /\ e \in [0 .. Len(p) -> Nat] /\ UsableIn(p) = e[Len(p)]
    BY <1>2, <2>1, UsableInIs
  <2> QED
    BY <1>1, <2>2
<1>5. \A i \in 0 .. l : f[i] = IF i = 0 THEN 0 ELSE f[i - 1] + Weight(blocks[i])
  BY <1>3 DEF SumTo
<1>6. \A i \in 0 .. n : e[i] = IF i = 0 THEN 0 ELSE e[i - 1] + Weight(blocks[i])
  <2>1. \A i \in 0 .. n : e[i] = IF i = 0 THEN 0 ELSE e[i - 1] + Weight(p[i])
    BY <1>1, <1>4 DEF SumTo
  <2>2. ASSUME NEW i \in 0 .. n PROVE e[i] = IF i = 0 THEN 0 ELSE e[i - 1] + Weight(blocks[i])
    <3>1. CASE i = 0
      BY <2>1, <3>1
    <3>2. CASE i # 0
      <4>1. p[i] = blocks[i]
        BY <1>1, <3>2
      <4> QED
        BY <2>1, <3>2, <4>1
    <3> QED
      BY <3>1, <3>2
  <2> QED
    BY <2>2
<1> DEFINE Bad == {k \in Nat : k <= l /\ f[k] # e[IF k <= n THEN k ELSE n]}
<1>7. SUFFICES ASSUME l \in Bad PROVE FALSE
  <2>1. f[l] = e[n]
    BY <1>7
  <2> QED
    BY <1>3, <1>4, <2>1 DEF p
<1>8. PICK k \in Bad : \A j \in Nat : j < k => j \notin Bad
  <2> HIDE DEF Bad
  <2>1. Bad \subseteq Nat
    BY DEF Bad
  <2> QED
    BY <1>7, <2>1, LeastInNat
<1> HIDE DEF l
<1>9. k \in 0 .. l /\ l \in Nat /\ n <= l
  BY <1>8 DEF l
<1>10. k # 0
  BY <1>5, <1>6, <1>8, <1>9
<1>11. k - 1 \in Nat /\ k - 1 < k /\ k - 1 <= l
  BY <1>9, <1>10
<1>12. f[k - 1] = e[IF k - 1 <= n THEN k - 1 ELSE n] /\ f[k] = f[k - 1] + Weight(blocks[k])
  BY <1>5, <1>8, <1>9, <1>10, <1>11
<1>13. CASE k <= n
  <2>1. e[k] = e[k - 1] + Weight(blocks[k])
    BY <1>6, <1>9, <1>10, <1>13
  <2> QED
    BY <1>8, <1>9, <1>11, <1>12, <1>13, <2>1
<1>14. CASE k > n
  <2>1. Weight(blocks[k]) = 0
    BY <1>9, <1>14 DEF l
  <2>2. f[k - 1] = e[n]
    <3>1. k - 1 >= n
      BY <1>9, <1>14
    <3> QED
      BY <1>11, <1>12, <3>1
  <2>3. f[k] = e[n]
    <3>1. e[n] \in Nat
      BY <1>4
    <3> QED
      BY <1>12, <2>1, <2>2, <3>1
  <2> QED
    BY <1>8, <1>9, <1>14, <2>3
<1> QED
  BY <1>9, <1>13, <1>14
-----------------------------------------------------------------------------
(* What the steps share. *)

LEMMA Asks ==
  ASSUME DiskShape, NEW lba \in Int, Ask(lba)
  PROVE  DiskShape'
  BY DEF DiskShape, Ask

LEMMA AsksNothing ==
  ASSUME DiskShape, AskNothing
  PROVE  DiskShape'
  BY Asks, Constants DEF AskNothing

LEMMA DrivesAnswer ==
  ASSUME DiskShape, ControlShape
  PROVE  Delivered(geometry) \in Int
  BY DeliveredInt DEF DiskShape, ControlShape

(* Where stage 1 is in the chain of its file. *)
LEMMA Stage1File ==
  ASSUME DiskShape, Stage1Inv, step \in {"read fat", "load", "jump"}
  PROVE  /\ LastOf(volume, "stage2") \in Nat /\ Len(stage2) \in Nat
         /\ \A i \in 0 .. LastOf(volume, "stage2") :
              /\ Chain("stage2")[i] \in Nat /\ Chain("stage2")[i] >= 2
              /\ NextCluster(Chain("stage2")[i]) >= EndOfChain <=> i = LastOf(volume, "stage2")
              /\ i # LastOf(volume, "stage2") => Chain("stage2")[i + 1] = NextCluster(Chain("stage2")[i])
         /\ step = "read fat" => cluster = Chain("stage2")[0] /\ Len(stage2) = 0
         /\ step = "load" => Len(stage2) \in 0 .. LastOf(volume, "stage2") /\ cluster = Chain("stage2")[Len(stage2)]
<1>1. volume \in Volumes /\ "stage2" \in Files \intersect ToSet(volume.root)
  BY DEF DiskShape, Stage1Inv, Files
<1>2. LastOf(volume, "stage2") \in Nat /\ Len(stage2) \in Nat
  <2>1. Len(stage2) \in Nat
    <3>1. stage2 \in Seq(Int)
      BY DEF Stage1Inv
    <3> QED
      BY <3>1, LenProperties
  <2>2. LastOf(volume, "stage2") \in Nat
    BY <1>1, FileFacts
  <2> QED
    BY <2>1, <2>2
<1>3. step = "load" => Len(stage2) \in 0 .. LastOf(volume, "stage2")
  BY <1>2 DEF Stage1Inv
<1> QED
  BY <1>1, <1>2, <1>3, FileFacts DEF Stage1Inv

(* The file that is open, or about to be. *)
LEMMA ModuleFile ==
  ASSUME DiskShape, ControlShape, name \in ToSet(volume.root)
  PROVE  /\ volume.size[name] \in Nat \ {0} /\ LastOf(volume, name) \in Nat
         /\ LastOf(volume, name) = (volume.size[name] - 1) \div Sector
         /\ volume.first[name] = Chain(name)[0] /\ volume.first[name] \in Nat /\ volume.first[name] >= 2
         /\ \A i \in 0 .. LastOf(volume, name) :
              /\ Chain(name)[i] \in Nat /\ Chain(name)[i] >= 2
              /\ NextCluster(Chain(name)[i]) >= EndOfChain <=> i = LastOf(volume, name)
              /\ i # LastOf(volume, name) => Chain(name)[i + 1] = NextCluster(Chain(name)[i])
<1>1. volume \in Volumes /\ name \in Files \intersect ToSet(volume.root)
  BY DEF DiskShape, ControlShape, Modules, Files
<1>2. LastOf(volume, name) \in Nat
  BY <1>1, FileFacts
<1>3. 0 \in 0 .. LastOf(volume, name)
  BY <1>2
<1> QED
  BY <1>1, <1>2, <1>3, FileFacts

(* The handle in use and its file. *)
LEMMA HandleFacts ==
  ASSUME Inv, at \in {"open"} \union Holding
  PROVE  /\ handle \in Handles /\ handle \in Int /\ handle # NoHandle
         /\ open[handle] \in HandleType
         /\ open[handle].pos \in Nat /\ open[handle].size \in Nat /\ open[handle].cluster \in Nat
         /\ open[handle].buf \in Int
         /\ open[handle].pos <= open[handle].size
         /\ name \in ToSet(volume.root)
<1>1. handle \in Handles /\ name \in ToSet(volume.root) /\ handle # NoHandle
  BY DEF Inv, Shape, ControlShape, HandleInv
<1>2. open[handle] \in HandleType
  BY <1>1 DEF Inv, Shape, DataShape
<1>3. open[handle].pos <= open[handle].size
  BY <1>1 DEF Inv, HandleInv
<1>4. handle \in Int
  BY <1>1, Constants DEF Handles
<1> QED
  BY <1>1, <1>2, <1>3, <1>4 DEF HandleType

(* The entries of the root directory, sector by sector. *)
LEMMA EntryRange ==
  ASSUME volume \in Volumes, NEW lba \in Int, NEW i \in 0 .. (Sector - 1)
  PROVE  EntryIn(lba, i) \in ToSet(volume.root) \union {"free"}
<1>1. RootFull(volume)
  BY VolumesAssumption
<1>2. SUFFICES ASSUME lba \in RootLba .. (DataLba - 1)
      PROVE  (lba - RootLba) * Sector + i + 1 \in 1 .. Len(volume.root)
  <2>1. \A j \in 1 .. Len(volume.root) : volume.root[j] \in ToSet(volume.root)
    BY <1>1 DEF RootFull
  <2> QED
    BY <1>2, <2>1 DEF EntryIn
<1> DEFINE k == lba - RootLba
<1>3. k \in Nat /\ k < RootSectors /\ i \in Nat /\ i < Sector /\ Sector \in Nat \ {0} /\ RootSectors \in Nat
  BY <1>2, Constants DEF DataLba
<1>4. Len(volume.root) = RootSectors * Sector
  BY <1>1 DEF RootFull
<1> HIDE DEF k
<1>5. Sector * k + i \in Nat /\ (Sector * k + i) \div Sector = k
  BY <1>3, DivOf
<1>6. Sector * k + i < RootSectors * Sector
  BY <1>3, <1>5, DivLess
<1>7. k * Sector + i + 1 \in 1 .. (RootSectors * Sector)
  <2>1. k * Sector = Sector * k /\ k * Sector \in Nat /\ RootSectors * Sector \in Nat
    BY <1>3
  <2> QED
    BY <1>3, <1>6, <2>1
<1> QED
  BY <1>4, <1>7 DEF k

LEMMA EntryAt ==
  ASSUME volume \in Volumes, NEW p \in Nat, p < RootSectors * Sector
  PROVE  EntryIn(RootLba + (p \div Sector), p % Sector) = volume.root[p + 1]
<1> DEFINE k == p \div Sector
           i == p % Sector
<1>1. Sector \in Nat \ {0} /\ RootSectors \in Nat /\ RootLba \in Nat
  BY Constants
<1>2. k \in Nat /\ i \in 0 .. (Sector - 1) /\ p = Sector * k + i
  BY <1>1, DivMod
<1>3. k < RootSectors
  BY <1>1, DivLess
<1> HIDE DEF k, i
<1>4. RootLba + k \in RootLba .. (DataLba - 1)
  BY <1>1, <1>2, <1>3 DEF DataLba
<1>5. ((RootLba + k) - RootLba) * Sector + i + 1 = p + 1
  <2>1. k * Sector = Sector * k /\ k * Sector \in Nat /\ (RootLba + k) - RootLba = k
    BY <1>1, <1>2
  <2> QED
    BY <1>1, <1>2, <2>1
<1>6. EntryIn(RootLba + k, i) = volume.root[p + 1]
  BY <1>4, <1>5 DEF EntryIn
<1> QED
  BY <1>6 DEF k, i

(* What a step does to one of the open files. *)
LEMMA FileChanges ==
  ASSUME DataShape, NEW h \in Handles, NEW f \in HandleType, open' = [open EXCEPT ![h] = f]
  PROVE  /\ open' \in [Handles -> HandleType]
         /\ open'[h] = f
         /\ \A g \in Handles : g # h => open'[g] = open[g]
  BY DEF DataShape

LEMMA NoneOpen ==
  ASSUME DataShape, HandleInv, at \notin Holding
  PROVE  \A h \in Handles : ~open[h].opened
  BY DEF HandleInv

(* A map one block longer. *)
LEMMA PrefixAppend ==
  ASSUME NEW s, s \in Seq(ToSet(s)), NEW n \in 1 .. Len(s)
  PROVE  Append(Prefix(s, n - 1), s[n]) = Prefix(s, n)
<1> DEFINE p == Prefix(s, n - 1)
<1>1. n - 1 \in Nat /\ n \in Nat
  OBVIOUS
<1>2. \A k \in 1 .. (n - 1) : s[k] \in ToSet(s)
  OBVIOUS
<1>3. p \in Seq(ToSet(s)) /\ Len(p) = n - 1 /\ \A k \in 1 .. (n - 1) : p[k] = s[k]
  BY <1>1, <1>2 DEF Prefix
<1>4. s[n] \in ToSet(s)
  OBVIOUS
<1> DEFINE a == Append(p, s[n])
<1> HIDE DEF p
<1>5. Len(a) = n /\ DOMAIN a = 1 .. n /\ a[n] = s[n] /\ \A k \in 1 .. (n - 1) : a[k] = s[k]
  BY <1>1, <1>3, <1>4
<1>6. a = [k \in 1 .. n |-> a[k]]
  BY <1>3, <1>4, <1>5
<1>7. \A k \in 1 .. n : a[k] = s[k]
  BY <1>1, <1>5
<1> HIDE DEF a
<1>8. [k \in 1 .. n |-> a[k]] = [k \in 1 .. n |-> s[k]]
  BY <1>7
<1> QED
  BY <1>6, <1>8 DEF a, p, Prefix

-----------------------------------------------------------------------------
(* The boot sector. *)

LEMMA ReadRootKeeps ==
  ASSUME Inv, ReadRoot, UNCHANGED stage2Vars
  PROVE  Inv'
<1>1. /\ DiskShape /\ ControlShape /\ DataShape /\ Stage1Inv /\ StartInv /\ SearchInv
      /\ HandleInv /\ PositionInv /\ CopyInv /\ DoneInv /\ MemoryInv /\ FindsWhatIsThere
  BY DEF Inv, Shape
<1>2. DiskShape'
  <2>1. RootLba \in Int
    BY Constants
  <2> QED
    BY <1>1, <2>1, Asks, AsksNothing DEF ReadRoot
<1>3. ControlShape'
  BY <1>1 DEF ReadRoot, stage1Vars, stage2Vars, diskVars, Ask, AskNothing, ControlShape,
      Stage1Steps, Stage2Steps, Modules, Handles
<1>4. DataShape'
  BY <1>1, Constants DEF ReadRoot, stage1Vars, stage2Vars, diskVars, Ask, AskNothing, DataShape
<1>5. Stage1Inv'
  BY <1>1 DEF ReadRoot, stage1Vars, stage2Vars, diskVars, Ask, AskNothing, Stage1Inv, Chain
<1>6. StartInv'
  BY <1>1 DEF ReadRoot, stage1Vars, stage2Vars, diskVars, Ask, AskNothing, StartInv, Starting,
      Searching, Holding, Reading, Stage1Inv, NoSector
<1>7. SearchInv'
  BY <1>1 DEF ReadRoot, stage1Vars, stage2Vars, diskVars, Ask, AskNothing, SearchInv, Searching,
      Plain, Stage1Inv
<1>8. HandleInv'
  BY <1>1 DEF ReadRoot, stage1Vars, stage2Vars, diskVars, Ask, AskNothing, HandleInv, Holding,
      Reading
<1>9. PositionInv'
  BY <1>1 DEF ReadRoot, stage1Vars, stage2Vars, diskVars, Ask, AskNothing, PositionInv, Holding,
      Reading, Plain, Chain, Stage1Inv
<1>10. CopyInv'
  BY <1>1 DEF ReadRoot, stage1Vars, stage2Vars, diskVars, Ask, AskNothing, CopyInv, Holding,
      Reading, Plain, PieceAt, Chain
<1>11. DoneInv'
  BY <1>1 DEF ReadRoot, stage1Vars, stage2Vars, diskVars, Ask, AskNothing, DoneInv, Holding,
      Reading, Plain, Whole, Content, Chain, ControlShape, Modules
<1>12. MemoryInv'
  BY <1>1 DEF ReadRoot, stage1Vars, stage2Vars, diskVars, Ask, AskNothing, MemoryInv, Starting,
      Holding, Reading, ControlShape, Modules
<1>13. FindsWhatIsThere'
  BY <1>1 DEF ReadRoot, stage1Vars, stage2Vars, diskVars, Ask, AskNothing, FindsWhatIsThere
<1> QED
  BY <1>2, <1>3, <1>4, <1>5, <1>6, <1>7, <1>8, <1>9, <1>10, <1>11, <1>12, <1>13 DEF Inv, Shape

LEMMA ReadFatKeeps ==
  ASSUME Inv, ReadFat, UNCHANGED stage2Vars
  PROVE  Inv'
<1>1. /\ DiskShape /\ ControlShape /\ DataShape /\ Stage1Inv /\ StartInv /\ SearchInv
      /\ HandleInv /\ PositionInv /\ CopyInv /\ DoneInv /\ MemoryInv /\ FindsWhatIsThere
  BY DEF Inv, Shape
<1>2. DiskShape'
  <2>1. 1 \in Int
    OBVIOUS
  <2> QED
    BY <1>1, <2>1, Asks, AsksNothing DEF ReadFat
<1>3. ControlShape'
  BY <1>1 DEF ReadFat, stage1Vars, stage2Vars, diskVars, Ask, AskNothing, ControlShape,
      Stage1Steps, Stage2Steps, Modules, Handles
<1>4. DataShape'
  BY <1>1, Constants DEF ReadFat, stage1Vars, stage2Vars, diskVars, Ask, AskNothing, DataShape
<1>5. Stage1Inv'
  <2>1. CASE asked = NoSector
    BY <1>1, <2>1 DEF ReadFat, Ask, Stage1Inv, stage2Vars, Chain
  <2>2. CASE asked # NoSector
    <3>1. LastOf(volume, "stage2") \in Nat /\ cluster = Chain("stage2")[0] /\ Len(stage2) = 0
      BY <1>1, Stage1File DEF ReadFat
    <3>2. stage2 = <<>> /\ step' = "load" /\ at' = at /\ at = "drive" /\ asked' = NoSector
          /\ UNCHANGED <<volume, cluster, stage2>> /\ "stage2" \in ToSet(volume.root)
      BY <1>1, <2>2 DEF ReadFat, Ask, AskNothing, Stage1Inv, stage2Vars
    <3> QED
      BY <3>1, <3>2 DEF Stage1Inv, Chain
  <2> QED
    BY <2>1, <2>2
<1>6. StartInv'
  BY <1>1 DEF ReadFat, stage1Vars, stage2Vars, diskVars, Ask, AskNothing, StartInv, Starting,
      Searching, Holding, Reading, Stage1Inv, NoSector
<1>7. SearchInv'
  BY <1>1 DEF ReadFat, stage1Vars, stage2Vars, diskVars, Ask, AskNothing, SearchInv, Searching,
      Plain, Stage1Inv
<1>8. HandleInv'
  BY <1>1 DEF ReadFat, stage1Vars, stage2Vars, diskVars, Ask, AskNothing, HandleInv, Holding,
      Reading
<1>9. PositionInv'
  BY <1>1 DEF ReadFat, stage1Vars, stage2Vars, diskVars, Ask, AskNothing, PositionInv, Holding,
      Reading, Plain, Chain, Stage1Inv
<1>10. CopyInv'
  BY <1>1 DEF ReadFat, stage1Vars, stage2Vars, diskVars, Ask, AskNothing, CopyInv, Holding,
      Reading, Plain, PieceAt, Chain
<1>11. DoneInv'
  BY <1>1 DEF ReadFat, stage1Vars, stage2Vars, diskVars, Ask, AskNothing, DoneInv, Holding,
      Reading, Plain, Whole, Content, Chain, ControlShape, Modules
<1>12. MemoryInv'
  BY <1>1 DEF ReadFat, stage1Vars, stage2Vars, diskVars, Ask, AskNothing, MemoryInv, Starting,
      Holding, Reading, ControlShape, Modules
<1>13. FindsWhatIsThere'
  BY <1>1 DEF ReadFat, stage1Vars, stage2Vars, diskVars, Ask, AskNothing, FindsWhatIsThere
<1> QED
  BY <1>2, <1>3, <1>4, <1>5, <1>6, <1>7, <1>8, <1>9, <1>10, <1>11, <1>12, <1>13 DEF Inv, Shape

LEMMA LoadClusterKeeps ==
  ASSUME Inv, LoadCluster, UNCHANGED stage2Vars
  PROVE  Inv'
<1>1. /\ DiskShape /\ ControlShape /\ DataShape /\ Stage1Inv /\ StartInv /\ SearchInv
      /\ HandleInv /\ PositionInv /\ CopyInv /\ DoneInv /\ MemoryInv /\ FindsWhatIsThere
  BY DEF Inv, Shape
<1>2. /\ LastOf(volume, "stage2") \in Nat /\ Len(stage2) \in 0 .. LastOf(volume, "stage2")
      /\ cluster = Chain("stage2")[Len(stage2)] /\ cluster \in Nat /\ cluster >= 2
      /\ NextCluster(cluster) >= EndOfChain <=> Len(stage2) = LastOf(volume, "stage2")
      /\ Len(stage2) # LastOf(volume, "stage2") => Chain("stage2")[Len(stage2) + 1] = NextCluster(cluster)
  BY <1>1, Stage1File DEF LoadCluster
<1>3. DiskShape'
  <2>1. cluster + DataLba - 2 \in Int
    BY <1>2, Constants
  <2> QED
    BY <1>1, <2>1, Asks, AsksNothing DEF LoadCluster
<1>4. ControlShape'
  BY <1>1 DEF LoadCluster, stage1Vars, stage2Vars, diskVars, Ask, AskNothing, ControlShape,
      Stage1Steps, Stage2Steps, Modules, Handles
<1>5. DataShape'
  BY <1>1, Constants DEF LoadCluster, stage1Vars, stage2Vars, diskVars, Ask, AskNothing, DataShape
<1>6. Stage1Inv'
  <2>1. CASE asked = NoSector
    BY <1>1, <2>1 DEF LoadCluster, Ask, Stage1Inv, stage1Vars, stage2Vars, Chain
  <2>2. CASE asked # NoSector
    <3> DEFINE n == Len(stage2)
    <3>1. at = "drive" /\ at' = at /\ volume' = volume /\ asked' = NoSector /\ step = "load"
          /\ stage2 \in Seq(Int) /\ "stage2" \in ToSet(volume.root)
      BY <1>1, <2>2 DEF LoadCluster, Ask, AskNothing, Stage1Inv, stage2Vars
    <3>2. asked = cluster + DataLba - 2 /\ asked \in Nat
      <4>1. asked = cluster + DataLba - 2
        BY <1>1, <2>2 DEF LoadCluster, Stage1Inv
      <4>2. cluster \in Nat /\ cluster >= 2
        BY <1>2, Zenon
      <4>3. cluster + DataLba - 2 \in Nat
        BY <4>2, Constants
      <4> QED
        BY <4>1, <4>3, Zenon
    <3>3. stage2' = Append(stage2, cluster + DataLba - 2)
      BY <2>2, <3>2, ReadsWhatIsAsked DEF LoadCluster
    <3>4. stage2' \in Seq(Int) /\ Len(stage2') = n + 1 /\ n \in Nat
          /\ stage2'[n + 1] = cluster + DataLba - 2 /\ \A k \in 1 .. n : stage2'[k] = stage2[k]
      BY <3>1, <3>2, <3>3
    <3>5. \A k \in 1 .. (n + 1) : stage2'[k] = DataLba + Chain("stage2")[k - 1] - 2
      <4>1. stage2'[n + 1] = DataLba + Chain("stage2")[n] - 2
        <5>1. cluster \in Nat /\ cluster = Chain("stage2")[n]
          BY <1>2, Zenon
        <5>2. cluster + DataLba - 2 = DataLba + cluster - 2
          BY <5>1, Constants
        <5> QED
          BY <3>4, <5>1, <5>2, Zenon
      <4>2. \A k \in 1 .. n : stage2[k] = DataLba + Chain("stage2")[k - 1] - 2
        BY <1>1, <3>1 DEF Stage1Inv
      <4>3. ASSUME NEW k \in 1 .. (n + 1), k # n + 1 PROVE k \in 1 .. n
        BY <3>4, <4>3
      <4>4. n + 1 - 1 = n
        BY <3>4
      <4> QED
        BY <3>4, <4>1, <4>2, <4>3, <4>4
    <3>6. LastOf(volume, "stage2")' = LastOf(volume, "stage2") /\ Chain("stage2")' = Chain("stage2")
      BY <3>1 DEF Chain
    <3>7. CASE NextCluster(cluster) >= EndOfChain
      <4>1. step' = "jump" /\ n = LastOf(volume, "stage2")
        BY <1>2, <2>2, <3>7 DEF LoadCluster
      <4> QED
        BY <3>1, <3>4, <3>5, <3>6, <4>1 DEF Stage1Inv
    <3>8. CASE ~(NextCluster(cluster) >= EndOfChain)
      <4>1. step' = "load" /\ cluster' = Chain("stage2")[n + 1] /\ n + 1 <= LastOf(volume, "stage2")
        BY <1>2, <2>2, <3>1, <3>8 DEF LoadCluster
      <4> QED
        BY <3>1, <3>4, <3>5, <3>6, <4>1 DEF Stage1Inv
    <3> QED
      BY <3>7, <3>8
  <2> QED
    BY <2>1, <2>2
<1>7. StartInv'
  BY <1>1 DEF LoadCluster, stage1Vars, stage2Vars, diskVars, Ask, AskNothing, StartInv,
      Starting, Searching, Holding, Reading, Stage1Inv
<1>8. SearchInv'
  BY <1>1 DEF LoadCluster, stage1Vars, stage2Vars, diskVars, Ask, AskNothing, SearchInv,
      Searching, Plain, Stage1Inv
<1>9. HandleInv'
  BY <1>1 DEF LoadCluster, stage1Vars, stage2Vars, diskVars, Ask, AskNothing, HandleInv,
      Holding, Reading
<1>10. PositionInv'
  BY <1>1 DEF LoadCluster, stage1Vars, stage2Vars, diskVars, Ask, AskNothing, PositionInv,
      Holding, Reading, Plain, Chain, Stage1Inv
<1>11. CopyInv'
  BY <1>1 DEF LoadCluster, stage1Vars, stage2Vars, diskVars, Ask, AskNothing, CopyInv, Holding,
      Reading, Plain, PieceAt, Chain
<1>12. DoneInv'
  BY <1>1 DEF LoadCluster, stage1Vars, stage2Vars, diskVars, Ask, AskNothing, DoneInv, Holding,
      Reading, Plain, Whole, Content, Chain, ControlShape, Modules
<1>13. MemoryInv'
  BY <1>1 DEF LoadCluster, stage1Vars, stage2Vars, diskVars, Ask, AskNothing, MemoryInv,
      Starting, Holding, Reading, ControlShape, Modules
<1>14. FindsWhatIsThere'
  BY <1>1 DEF LoadCluster, stage1Vars, stage2Vars, diskVars, Ask, AskNothing, FindsWhatIsThere
<1> QED
  BY <1>3, <1>4, <1>5, <1>6, <1>7, <1>8, <1>9, <1>10, <1>11, <1>12, <1>13, <1>14 DEF Inv, Shape

LEMMA Stage1GivesUpKeeps ==
  ASSUME Inv, Stage1GivesUp, UNCHANGED stage2Vars
  PROVE  Inv'
<1>1. /\ DiskShape /\ ControlShape /\ DataShape /\ Stage1Inv /\ StartInv /\ SearchInv
      /\ HandleInv /\ PositionInv /\ CopyInv /\ DoneInv /\ MemoryInv /\ FindsWhatIsThere
  BY DEF Inv, Shape
<1>2. DiskShape'
  BY <1>1, AsksNothing DEF Stage1GivesUp
<1>3. ControlShape'
  BY <1>1 DEF Stage1GivesUp, stage1Vars, stage2Vars, diskVars, Ask, AskNothing, ControlShape,
      Stage1Steps, Stage2Steps, Modules, Handles
<1>4. DataShape'
  BY <1>1, Constants DEF Stage1GivesUp, stage1Vars, stage2Vars, diskVars, Ask, AskNothing, DataShape
<1>5. Stage1Inv'
  BY <1>1 DEF Stage1GivesUp, stage1Vars, stage2Vars, diskVars, Ask, AskNothing, Stage1Inv, Chain
<1>6. StartInv'
  BY <1>1 DEF Stage1GivesUp, stage1Vars, stage2Vars, diskVars, Ask, AskNothing, StartInv,
      Starting, Searching, Holding, Reading, Stage1Inv, NoSector
<1>7. SearchInv'
  BY <1>1 DEF Stage1GivesUp, stage1Vars, stage2Vars, diskVars, Ask, AskNothing, SearchInv,
      Searching, Plain, Stage1Inv
<1>8. HandleInv'
  BY <1>1 DEF Stage1GivesUp, stage1Vars, stage2Vars, diskVars, Ask, AskNothing, HandleInv,
      Holding, Reading
<1>9. PositionInv'
  BY <1>1 DEF Stage1GivesUp, stage1Vars, stage2Vars, diskVars, Ask, AskNothing, PositionInv,
      Holding, Reading, Plain, Chain, Stage1Inv
<1>10. CopyInv'
  BY <1>1 DEF Stage1GivesUp, stage1Vars, stage2Vars, diskVars, Ask, AskNothing, CopyInv,
      Holding, Reading, Plain, PieceAt, Chain
<1>11. DoneInv'
  BY <1>1 DEF Stage1GivesUp, stage1Vars, stage2Vars, diskVars, Ask, AskNothing, DoneInv,
      Holding, Reading, Plain, Whole, Content, Chain, ControlShape, Modules
<1>12. MemoryInv'
  BY <1>1 DEF Stage1GivesUp, stage1Vars, stage2Vars, diskVars, Ask, AskNothing, MemoryInv,
      Starting, Holding, Reading, ControlShape, Modules
<1>13. FindsWhatIsThere'
  BY <1>1 DEF Stage1GivesUp, stage1Vars, stage2Vars, diskVars, Ask, AskNothing, FindsWhatIsThere
<1> QED
  BY <1>2, <1>3, <1>4, <1>5, <1>6, <1>7, <1>8, <1>9, <1>10, <1>11, <1>12, <1>13 DEF Inv, Shape

(* An attempt that fails. *)

LEMMA ReadFailsKeeps ==
  ASSUME Inv, ReadFails(IF step = "jump" THEN geometry ELSE Drive), UNCHANGED <<stage1Vars, stage2Vars>>
  PROVE  Inv'
<1>1. /\ DiskShape /\ ControlShape /\ DataShape /\ Stage1Inv /\ StartInv /\ SearchInv
      /\ HandleInv /\ PositionInv /\ CopyInv /\ DoneInv /\ MemoryInv /\ FindsWhatIsThere
  BY DEF Inv, Shape
<1>2. DiskShape'
  <2>1. tries \in 0 .. 3 /\ tries < 3 /\ tries' = tries + 1
    BY <1>1, Zenon DEF ReadFails, DiskShape
  <2>2. /\ faults \in 0 .. MaxFaults
        /\ \/ faults' = faults
           \/ faults < MaxFaults /\ faults' = faults + 1
    BY <1>1, Zenon DEF ReadFails, DiskShape
  <2>3. tries' \in 0 .. 3
    BY <2>1
  <2>4. faults' \in 0 .. MaxFaults
    BY <2>2, Constants
  <2> QED
    BY <1>1, <2>3, <2>4, Zenon DEF ReadFails, DiskShape
<1>3. ControlShape'
  BY <1>1, Zenon DEF ReadFails, stage1Vars, stage2Vars, ControlShape
<1>4. DataShape'
  BY <1>1, Constants DEF ReadFails, stage1Vars, stage2Vars, DataShape
<1>5. Stage1Inv'
  BY <1>1 DEF ReadFails, stage1Vars, stage2Vars, Stage1Inv, Chain
<1>6. StartInv'
  BY <1>1 DEF ReadFails, stage1Vars, stage2Vars, StartInv, Starting, Searching, Holding, Reading
<1>7. SearchInv'
  BY <1>1 DEF ReadFails, stage1Vars, stage2Vars, SearchInv, Searching, Plain
<1>8. HandleInv'
  BY <1>1 DEF ReadFails, stage1Vars, stage2Vars, HandleInv, Holding, Reading
<1>9. PositionInv'
  BY <1>1 DEF ReadFails, stage1Vars, stage2Vars, PositionInv, Holding, Reading, Plain, Chain
<1>10. CopyInv'
  BY <1>1 DEF ReadFails, stage1Vars, stage2Vars, CopyInv, Holding, Reading, Plain, PieceAt, Chain
<1>11. DoneInv'
  BY <1>1 DEF ReadFails, stage1Vars, stage2Vars, DoneInv, Holding, Reading, Plain, Whole,
      Content, Chain, ControlShape, Modules
<1>12. MemoryInv'
  BY <1>1 DEF ReadFails, stage1Vars, stage2Vars, MemoryInv, Starting, Holding, Reading,
      ControlShape, Modules
<1>13. FindsWhatIsThere'
  BY <1>1 DEF ReadFails, stage1Vars, stage2Vars, FindsWhatIsThere
<1> QED
  BY <1>2, <1>3, <1>4, <1>5, <1>6, <1>7, <1>8, <1>9, <1>10, <1>11, <1>12, <1>13 DEF Inv, Shape

-----------------------------------------------------------------------------
(* Stage 2. *)

LEMMA DiskInitializeKeeps ==
  ASSUME Inv, DiskInitialize, step = "jump", UNCHANGED stage1Vars
  PROVE  Inv'
<1>1. /\ DiskShape /\ ControlShape /\ DataShape /\ Stage1Inv /\ StartInv /\ SearchInv
      /\ HandleInv /\ PositionInv /\ CopyInv /\ DoneInv /\ MemoryInv /\ FindsWhatIsThere
  BY DEF Inv, Shape
<1>2. DiskShape'
  BY <1>1, Constants DEF DiskInitialize, stage1Vars, diskVars, Ask, AskNothing, DiskShape,
      DataShape, ControlShape, NoSector
<1>3. ControlShape'
  BY <1>1 DEF DiskInitialize, stage1Vars, diskVars, Ask, AskNothing, ControlShape, Stage1Steps,
      Stage2Steps, Modules, Handles
<1>4. DataShape'
  BY <1>1, Constants DEF DiskInitialize, stage1Vars, diskVars, Ask, AskNothing, DataShape
<1>5. Stage1Inv'
  BY <1>1 DEF DiskInitialize, stage1Vars, diskVars, Ask, AskNothing, Stage1Inv, Chain
<1>6. StartInv'
  BY <1>1 DEF DiskInitialize, stage1Vars, diskVars, Ask, AskNothing, StartInv, Starting,
      Searching, Holding, Reading
<1>7. SearchInv'
  BY <1>1 DEF DiskInitialize, stage1Vars, diskVars, Ask, AskNothing, SearchInv, Searching, Plain
<1>8. HandleInv'
  BY <1>1 DEF DiskInitialize, stage1Vars, diskVars, Ask, AskNothing, HandleInv, Holding, Reading
<1>9. PositionInv'
  BY <1>1 DEF DiskInitialize, stage1Vars, diskVars, Ask, AskNothing, PositionInv, Holding,
      Reading, Plain, Chain
<1>10. CopyInv'
  BY <1>1 DEF DiskInitialize, stage1Vars, diskVars, Ask, AskNothing, CopyInv, Holding, Reading,
      Plain, PieceAt, Chain
<1>11. DoneInv'
  BY <1>1 DEF DiskInitialize, stage1Vars, diskVars, Ask, AskNothing, DoneInv, Holding, Reading,
      Plain, Whole, Content, Chain, ControlShape, StartInv, Starting
<1>12. MemoryInv'
  BY <1>1 DEF DiskInitialize, stage1Vars, diskVars, Ask, AskNothing, MemoryInv, Starting,
      Holding, Reading, ControlShape, Modules
<1>13. FindsWhatIsThere'
  BY <1>1 DEF DiskInitialize, stage1Vars, diskVars, Ask, AskNothing, FindsWhatIsThere
<1> QED
  BY <1>2, <1>3, <1>4, <1>5, <1>6, <1>7, <1>8, <1>9, <1>10, <1>11, <1>12, <1>13 DEF Inv, Shape

LEMMA FatInitializeKeeps ==
  ASSUME Inv, FatInitialize, step = "jump", UNCHANGED stage1Vars
  PROVE  Inv'
<1>1. /\ DiskShape /\ ControlShape /\ DataShape /\ Stage1Inv /\ StartInv /\ SearchInv
      /\ HandleInv /\ PositionInv /\ CopyInv /\ DoneInv /\ MemoryInv /\ FindsWhatIsThere
  BY DEF Inv, Shape
<1>2. Delivered(geometry) \in Int
  BY <1>1, DrivesAnswer
<1>3. DiskShape'
  <2>1. 0 \in Int /\ 1 \in Int /\ RootLba \in Int
    BY Constants
  <2> QED
    BY <1>1, <2>1, Asks, AsksNothing DEF FatInitialize
<1>4. ControlShape'
  BY <1>1 DEF FatInitialize, stage1Vars, diskVars, Ask, AskNothing, ControlShape, Stage1Steps,
      Stage2Steps, Modules, Handles
<1>5. DataShape'
  <2>1. root' \in [buf : Int, pos : 0 .. (RootSectors * Sector), cluster : Nat]
    BY <1>1, <1>2 DEF FatInitialize, DataShape
  <2>2. UNCHANGED <<volume, open, entry, left, chunk, loaded>>
    BY DEF FatInitialize, Ask, AskNothing, diskVars
  <2> QED
    BY <1>1, <2>1, <2>2 DEF DataShape
<1>6. Stage1Inv'
  BY <1>1 DEF FatInitialize, stage1Vars, diskVars, Ask, AskNothing, Stage1Inv, Chain
<1>7. StartInv'
  BY <1>1 DEF FatInitialize, stage1Vars, diskVars, Ask, AskNothing, StartInv, Starting,
      Searching, Holding, Reading
<1>8. SearchInv'
  <2>1. CASE at = "root" /\ asked # NoSector
    <3>1. at' = "find" /\ asked = RootLba /\ root.pos = 0 /\ root.cluster = RootLba
          /\ root'.pos = 0 /\ root'.cluster = RootLba /\ root'.buf = Delivered(geometry)
      <4>1. root' = [root EXCEPT !.buf = Delivered(geometry)] /\ at' = "find"
        BY <2>1 DEF FatInitialize
      <4>2. asked = RootLba /\ root.pos = 0 /\ root.cluster = RootLba
        BY <1>1, <2>1 DEF StartInv, Starting
      <4> QED
        BY <1>1, <4>1, <4>2 DEF DataShape
    <3>2. geometry = Drive => Delivered(geometry) = RootLba
      BY <3>1, Constants, ReadsWhatIsAsked
    <3>3. 0 \div Sector = 0 /\ RootLba \in Nat
      BY Constants
    <3>4. UNCHANGED geometry
      BY DEF FatInitialize
    <3> QED
      BY <3>1, <3>2, <3>3, <3>4 DEF SearchInv, Searching, Plain
  <2>2. CASE ~(at = "root" /\ asked # NoSector)
    BY <1>1, <2>2 DEF FatInitialize, SearchInv, Searching, stage1Vars
  <2> QED
    BY <2>1, <2>2
<1>9. HandleInv'
  BY <1>1 DEF FatInitialize, stage1Vars, diskVars, Ask, AskNothing, HandleInv, Holding, Reading
<1>10. PositionInv'
  BY <1>1 DEF FatInitialize, stage1Vars, diskVars, Ask, AskNothing, PositionInv, Holding,
      Reading, Plain, Chain
<1>11. CopyInv'
  BY <1>1 DEF FatInitialize, stage1Vars, diskVars, Ask, AskNothing, CopyInv, Holding, Reading,
      Plain, PieceAt, Chain
<1>12. DoneInv'
  BY <1>1 DEF FatInitialize, stage1Vars, diskVars, Ask, AskNothing, DoneInv, Holding, Reading,
      Plain, Whole, Content, Chain, ControlShape, Modules
<1>13. MemoryInv'
  BY <1>1 DEF FatInitialize, stage1Vars, diskVars, Ask, AskNothing, MemoryInv, Starting,
      Holding, Reading, ControlShape, Modules
<1>14. FindsWhatIsThere'
  BY <1>1 DEF FatInitialize, stage1Vars, diskVars, Ask, AskNothing, FindsWhatIsThere
<1> QED
  BY <1>3, <1>4, <1>5, <1>6, <1>7, <1>8, <1>9, <1>10, <1>11, <1>12, <1>13, <1>14 DEF Inv, Shape

LEMMA InitializeFailsKeeps ==
  ASSUME Inv, InitializeFails, step = "jump", UNCHANGED stage1Vars
  PROVE  Inv'
<1>1. /\ DiskShape /\ ControlShape /\ DataShape /\ Stage1Inv /\ StartInv /\ SearchInv
      /\ HandleInv /\ PositionInv /\ CopyInv /\ DoneInv /\ MemoryInv /\ FindsWhatIsThere
  BY DEF Inv, Shape
<1>2. DiskShape'
  BY <1>1, AsksNothing DEF InitializeFails
<1>3. ControlShape'
  <2>1. errors' \in Nat
    <3>1. errors \in Nat
      BY <1>1 DEF ControlShape
    <3>2. errors' = errors \/ errors' = errors + 1
      BY DEF InitializeFails
    <3> QED
      BY <3>1, <3>2
  <2>2. UNCHANGED <<step, name, geometry, fresh, handle>> /\ at' \in Stage2Steps
    BY DEF InitializeFails, stage1Vars, Stage2Steps
  <2> QED
    BY <1>1, <2>1, <2>2 DEF ControlShape, Handles
<1>4. DataShape'
  BY <1>1, Constants DEF InitializeFails, stage1Vars, diskVars, Ask, AskNothing, DataShape
<1>5. Stage1Inv'
  BY <1>1 DEF InitializeFails, stage1Vars, diskVars, Ask, AskNothing, Stage1Inv, Chain
<1>6. StartInv'
  BY <1>1 DEF InitializeFails, stage1Vars, diskVars, Ask, AskNothing, StartInv, Starting,
      Searching, Holding, Reading
<1>7. SearchInv'
  BY <1>1 DEF InitializeFails, stage1Vars, diskVars, Ask, AskNothing, SearchInv, Searching, Plain
<1>8. HandleInv'
  BY <1>1 DEF InitializeFails, stage1Vars, diskVars, Ask, AskNothing, HandleInv, Holding, Reading
<1>9. PositionInv'
  BY <1>1 DEF InitializeFails, stage1Vars, diskVars, Ask, AskNothing, PositionInv, Holding,
      Reading, Plain, Chain
<1>10. CopyInv'
  BY <1>1 DEF InitializeFails, stage1Vars, diskVars, Ask, AskNothing, CopyInv, Holding, Reading,
      Plain, PieceAt, Chain
<1>11. DoneInv'
  BY <1>1 DEF InitializeFails, stage1Vars, diskVars, Ask, AskNothing, DoneInv, Holding, Reading,
      Plain, Whole, Content, Chain, ControlShape, StartInv, Starting
<1>12. MemoryInv'
  BY <1>1 DEF InitializeFails, stage1Vars, diskVars, Ask, AskNothing, MemoryInv, Starting,
      Holding, Reading, ControlShape, Modules
<1>13. FindsWhatIsThere'
  BY <1>1 DEF InitializeFails, stage1Vars, diskVars, Ask, AskNothing, FindsWhatIsThere
<1> QED
  BY <1>2, <1>3, <1>4, <1>5, <1>6, <1>7, <1>8, <1>9, <1>10, <1>11, <1>12, <1>13 DEF Inv, Shape

LEMMA ReadEntryKeeps ==
  ASSUME Inv, ReadEntry, step = "jump", UNCHANGED stage1Vars
  PROVE  Inv'
<1>1. /\ DiskShape /\ ControlShape /\ DataShape /\ Stage1Inv /\ StartInv /\ SearchInv
      /\ HandleInv /\ PositionInv /\ CopyInv /\ DoneInv /\ MemoryInv /\ FindsWhatIsThere
  BY DEF Inv, Shape
<1>2. root.pos \in Nat /\ root.pos < RootSectors * Sector /\ root.cluster \in Nat /\ root.buf \in Int
      /\ root' = [root EXCEPT !.pos = root.pos + 1,
                             !.cluster = IF (root.pos + 1) % Sector = 0 THEN root.cluster + 1 ELSE root.cluster]
      /\ root'.pos = root.pos + 1 /\ root'.buf = root.buf
      /\ root'.cluster = IF (root.pos + 1) % Sector = 0 THEN root.cluster + 1 ELSE root.cluster
  <2>1. root \in [buf : Int, pos : 0 .. (RootSectors * Sector), cluster : Nat]
    BY <1>1 DEF DataShape
  <2>2. root.pos \in Nat /\ root.pos < RootSectors * Sector /\ root.cluster \in Nat /\ root.buf \in Int
    <3> DEFINE n == RootSectors * Sector
    <3>1. n \in Nat
      BY Constants
    <3>2. root \in [buf : Int, pos : 0 .. n, cluster : Nat] /\ root.pos < n
      BY <2>1 DEF ReadEntry
    <3> HIDE DEF n
    <3>3. root.pos \in Nat /\ root.pos < n /\ root.cluster \in Nat /\ root.buf \in Int
      BY <3>1, <3>2
    <3> QED
      BY <3>3 DEF n
  <2>3. root' = [root EXCEPT !.pos = root.pos + 1,
                             !.cluster = IF (root.pos + 1) % Sector = 0 THEN root.cluster + 1 ELSE root.cluster]
    BY <2>1 DEF ReadEntry
  <2> QED
    BY <2>1, <2>2, <2>3
<1>3. DiskShape'
  <2>1. root.cluster + 1 \in Int
    BY <1>2
  <2> QED
    BY <1>1, <2>1, Asks, AsksNothing DEF ReadEntry
<1>4. ControlShape'
  BY <1>1 DEF ReadEntry, stage1Vars, diskVars, Ask, AskNothing, ControlShape, Stage1Steps,
      Stage2Steps, Modules, Handles
<1>5. DataShape'
  <2>1. root' \in [buf : Int, pos : 0 .. (RootSectors * Sector), cluster : Nat]
    <3>1. root.pos + 1 \in 0 .. (RootSectors * Sector) /\ root.cluster + 1 \in Nat
      BY <1>2, Constants
    <3>2. root \in [buf : Int, pos : 0 .. (RootSectors * Sector), cluster : Nat]
      BY <1>1 DEF DataShape
    <3> QED
      BY <1>2, <3>1, <3>2
  <2>2. entry' \in ToSet(volume.root) \union {"free"}
    <3>1. root.pos % Sector \in 0 .. (Sector - 1)
      BY <1>2, Constants, DivMod
    <3> QED
      BY <1>1, <1>2, <3>1, EntryRange DEF ReadEntry, DiskShape
  <2>3. UNCHANGED <<volume, open, left, chunk, loaded>>
    BY DEF ReadEntry, Ask, AskNothing, diskVars
  <2> QED
    BY <1>1, <2>1, <2>2, <2>3 DEF DataShape
<1>6. Stage1Inv'
  BY <1>1 DEF ReadEntry, stage1Vars, diskVars, Ask, AskNothing, Stage1Inv, Chain
<1>7. StartInv'
  BY <1>1 DEF ReadEntry, stage1Vars, diskVars, Ask, AskNothing, StartInv, Starting, Searching,
      Holding, Reading
<1>8. SearchInv'
  <2>1. SUFFICES ASSUME Plain, fresh
        PROVE  SearchInv'
    BY DEF ReadEntry, SearchInv, Plain
  <2> DEFINE p == root.pos
  <2>2. /\ root.cluster = RootLba + (p \div Sector) /\ root.buf = root.cluster
        /\ \A i \in 1 .. p : volume.root[i] # name
    BY <1>1, <1>2, <2>1 DEF SearchInv, ReadEntry, Searching
  <2>3. entry' = volume.root[p + 1]
    <3>1. entry' = EntryIn(RootLba + (p \div Sector), p % Sector)
      BY <2>2 DEF ReadEntry
    <3> QED
      BY <1>1, <1>2, <3>1, EntryAt DEF DiskShape
  <2>4. root'.cluster = RootLba + ((p + 1) \div Sector)
    <3>1. p \div Sector \in Nat /\ RootLba \in Nat /\ Sector \in Nat \ {0}
      BY <1>2, Constants, DivMod
    <3> QED
      BY <1>2, <2>2, <3>1, DivNext
  <2>5. UNCHANGED <<volume, name>> /\ at' \in {"compare", "next root sector"}
    BY DEF ReadEntry, Ask, AskNothing
  <2>6. at' = "next root sector" => asked' = root'.cluster
    BY <1>2 DEF ReadEntry, Ask
  <2>7. at' # "next root sector" => root'.buf = root'.cluster
    BY <1>2, <2>2 DEF ReadEntry
  <2>8. root'.pos = p + 1 /\ p + 1 > 0 /\ (p + 1) - 1 = p
    BY <1>2
  <2> HIDE DEF p
  <2> QED
    BY <2>2, <2>3, <2>4, <2>5, <2>6, <2>7, <2>8 DEF SearchInv
<1>9. HandleInv'
  BY <1>1 DEF ReadEntry, stage1Vars, diskVars, Ask, AskNothing, HandleInv, Holding, Reading
<1>10. PositionInv'
  BY <1>1 DEF ReadEntry, stage1Vars, diskVars, Ask, AskNothing, PositionInv, Holding, Reading,
      Plain, Chain
<1>11. CopyInv'
  BY <1>1 DEF ReadEntry, stage1Vars, diskVars, Ask, AskNothing, CopyInv, Holding, Reading,
      Plain, PieceAt, Chain
<1>12. DoneInv'
  BY <1>1 DEF ReadEntry, stage1Vars, diskVars, Ask, AskNothing, DoneInv, Holding, Reading,
      Plain, Whole, Content, Chain, ControlShape, Modules
<1>13. MemoryInv'
  BY <1>1 DEF ReadEntry, stage1Vars, diskVars, Ask, AskNothing, MemoryInv, Starting, Holding,
      Reading, ControlShape, Modules
<1>14. FindsWhatIsThere'
  BY <1>1 DEF ReadEntry, stage1Vars, diskVars, Ask, AskNothing, FindsWhatIsThere
<1> QED
  BY <1>3, <1>4, <1>5, <1>6, <1>7, <1>8, <1>9, <1>10, <1>11, <1>12, <1>13, <1>14 DEF Inv, Shape

LEMMA NextRootSectorKeeps ==
  ASSUME Inv, NextRootSector, step = "jump", UNCHANGED stage1Vars
  PROVE  Inv'
<1>1. /\ DiskShape /\ ControlShape /\ DataShape /\ Stage1Inv /\ StartInv /\ SearchInv
      /\ HandleInv /\ PositionInv /\ CopyInv /\ DoneInv /\ MemoryInv /\ FindsWhatIsThere
  BY DEF Inv, Shape
<1>2. Delivered(geometry) \in Int
  BY <1>1, DrivesAnswer
<1>3. (Plain' => Plain /\ Readable(geometry)) /\ UNCHANGED geometry
  <2>1. errors \in Nat
    BY <1>1 DEF ControlShape
  <2>2. UNCHANGED geometry /\ ((errors' = errors /\ Readable(geometry)) \/ errors' = errors + 1)
    BY DEF NextRootSector
  <2> QED
    BY <2>1, <2>2 DEF Plain
<1>4. DiskShape'
  BY <1>1, AsksNothing DEF NextRootSector
<1>5. ControlShape'
  <2>1. errors' \in Nat
    <3>1. errors \in Nat
      BY <1>1 DEF ControlShape
    <3>2. errors' = errors \/ errors' = errors + 1
      BY DEF NextRootSector
    <3> QED
      BY <3>1, <3>2
  <2>2. UNCHANGED <<step, name, geometry, fresh, handle>> /\ at' \in Stage2Steps
    BY DEF NextRootSector, stage1Vars, Stage2Steps
  <2> QED
    BY <1>1, <2>1, <2>2 DEF ControlShape, Handles
<1>6. DataShape'
  <2>1. root' \in [buf : Int, pos : 0 .. (RootSectors * Sector), cluster : Nat]
    BY <1>1, <1>2 DEF NextRootSector, DataShape
  <2>2. UNCHANGED <<volume, open, entry, left, chunk, loaded>>
    BY DEF NextRootSector, Ask, AskNothing, diskVars
  <2> QED
    BY <1>1, <2>1, <2>2 DEF DataShape
<1>7. Stage1Inv'
  BY <1>1 DEF NextRootSector, stage1Vars, diskVars, Ask, AskNothing, Stage1Inv, Chain
<1>8. StartInv'
  BY <1>1 DEF NextRootSector, stage1Vars, diskVars, Ask, AskNothing, StartInv, Starting,
      Searching, Holding, Reading
<1>9. SearchInv'
  <2>1. SUFFICES ASSUME Plain', fresh
        PROVE  SearchInv'
    BY DEF NextRootSector, SearchInv
  <2>2. root' = [root EXCEPT !.buf = Delivered(geometry)] /\ geometry = Drive
    BY <1>3, <2>1 DEF NextRootSector, Plain
  <2>3. /\ root.cluster = RootLba + (root.pos \div Sector) /\ asked = root.cluster
        /\ root.pos > 0 /\ entry = volume.root[root.pos]
        /\ \A i \in 1 .. (root.pos - 1) : volume.root[i] # name
    BY <1>1, <1>3, <2>1 DEF SearchInv, NextRootSector, Searching
  <2>4. root \in [buf : Int, pos : 0 .. (RootSectors * Sector), cluster : Nat]
    BY <1>1 DEF DataShape
  <2>5. root'.pos = root.pos /\ root'.cluster = root.cluster /\ root'.buf = root.cluster
    BY <2>2, <2>3, <2>4, ReadsWhatIsAsked
  <2>6. UNCHANGED <<volume, name, entry>> /\ at' = "compare"
    BY DEF NextRootSector, Ask, AskNothing
  <2> QED
    BY <2>3, <2>5, <2>6 DEF SearchInv
<1>10. HandleInv'
  BY <1>1 DEF NextRootSector, stage1Vars, diskVars, Ask, AskNothing, HandleInv, Holding, Reading
<1>11. PositionInv'
  BY <1>1 DEF NextRootSector, stage1Vars, diskVars, Ask, AskNothing, PositionInv, Holding,
      Reading, Plain, Chain
<1>12. CopyInv'
  BY <1>1 DEF NextRootSector, stage1Vars, diskVars, Ask, AskNothing, CopyInv, Holding, Reading,
      Plain, PieceAt, Chain
<1>13. DoneInv'
  <2>1. UNCHANGED <<name, loaded, volume>> /\ at = "next root sector" /\ at' = "compare"
    BY DEF NextRootSector, AskNothing, Ask
  <2> QED
    BY <1>1, <1>3, <2>1 DEF DoneInv, Holding, Reading, Whole, Content, Chain
<1>14. MemoryInv'
  BY <1>1 DEF NextRootSector, stage1Vars, diskVars, Ask, AskNothing, MemoryInv, Starting,
      Holding, Reading, ControlShape, Modules
<1>15. FindsWhatIsThere'
  BY <1>1 DEF NextRootSector, stage1Vars, diskVars, Ask, AskNothing, FindsWhatIsThere
<1> QED
  BY <1>4, <1>5, <1>6, <1>7, <1>8, <1>9, <1>10, <1>11, <1>12, <1>13, <1>14, <1>15 DEF Inv, Shape

LEMMA CompareOpens ==
  ASSUME Inv, Compare, entry = name
  PROVE  /\ at' = "open" /\ handle' \in Handles /\ handle' # NoHandle
         /\ Ask(DataLba + volume.first[name] - 2)
         /\ open' = [open EXCEPT ![handle'] = [open[handle'] EXCEPT !.pos = 0, !.size = volume.size[name],
                                                                    !.cluster = volume.first[name]]]
         /\ name \in ToSet(volume.root)
<1>1. ControlShape /\ DataShape /\ HandleInv
  BY DEF Inv, Shape
<1>2. name \in ToSet(volume.root)
  BY <1>1 DEF DataShape, ControlShape, Modules
<1>3. DOMAIN open = Handles /\ FreeHandles = Handles
  <2>1. at \notin Holding
    BY DEF Compare, Holding, Reading
  <2> QED
    BY <1>1, <2>1, NoneOpen DEF FreeHandles, DataShape
<1> DEFINE h == CHOOSE g \in FreeHandles : \A k \in FreeHandles : g <= k
<1>4. 0 \in FreeHandles /\ \A k \in FreeHandles : 0 <= k
  BY <1>3, Constants DEF Handles
<1>5. h \in FreeHandles
  BY <1>4
<1>6. /\ at' = "open" /\ handle' = h /\ Ask(DataLba + volume.first[name] - 2)
      /\ open' = [open EXCEPT ![h].pos = 0, ![h].size = volume.size[name], ![h].cluster = volume.first[name]]
  BY <1>4 DEF Compare
<1> HIDE DEF h
<1>7. h \in Handles /\ h # NoHandle
  BY <1>3, <1>5, Constants DEF Handles
<1>8. open' = [open EXCEPT ![h] = [open[h] EXCEPT !.pos = 0, !.size = volume.size[name],
                                                 !.cluster = volume.first[name]]]
  BY <1>3, <1>6, <1>7
<1> QED
  BY <1>2, <1>6, <1>7, <1>8

LEMMA CompareKeeps ==
  ASSUME Inv, Compare, step = "jump", UNCHANGED stage1Vars
  PROVE  Inv'
<1>1. /\ DiskShape /\ ControlShape /\ DataShape /\ Stage1Inv /\ StartInv /\ SearchInv
      /\ HandleInv /\ PositionInv /\ CopyInv /\ DoneInv /\ MemoryInv /\ FindsWhatIsThere
  BY DEF Inv, Shape
<1>2. /\ root' = (IF entry # name THEN root ELSE Rewound(root)) /\ UNCHANGED <<volume, name, errors, geometry, fresh>>
      /\ entry # name => at' = "find" /\ AskNothing /\ UNCHANGED <<root, handle, open>>
  BY DEF Compare, AskNothing, Ask
<1>3. entry = name => name \in ToSet(volume.root)
  BY <1>1 DEF DataShape, ControlShape, Modules
<1>4. DOMAIN open = Handles /\ FreeHandles = Handles /\ \A h \in Handles : ~open[h].opened
  <2>1. at \notin Holding
    BY DEF Compare, Holding, Reading
  <2> QED
    BY <1>1, <2>1, NoneOpen DEF FreeHandles, DataShape
<1>5. entry = name =>
      /\ at' = "open" /\ handle' \in Handles /\ handle' # NoHandle
      /\ Ask(DataLba + volume.first[name] - 2)
      /\ open' = [open EXCEPT ![handle'] = [open[handle'] EXCEPT !.pos = 0, !.size = volume.size[name],
                                                                 !.cluster = volume.first[name]]]
  BY CompareOpens
<1>6. entry = name =>
      /\ open' \in [Handles -> HandleType] /\ \A h \in Handles : ~open'[h].opened
      /\ \A h \in Handles : open'[h].pos <= open'[h].size
      /\ open'[handle'].pos = 0 /\ open'[handle'].size = volume.size[name]
      /\ open'[handle'].cluster = volume.first[name]
  <2>1. SUFFICES ASSUME entry = name
        PROVE  /\ open' \in [Handles -> HandleType] /\ \A h \in Handles : ~open'[h].opened
               /\ \A h \in Handles : open'[h].pos <= open'[h].size
               /\ open'[handle'].pos = 0 /\ open'[handle'].size = volume.size[name]
               /\ open'[handle'].cluster = volume.first[name]
    OBVIOUS
  <2> DEFINE f == [open[handle'] EXCEPT !.pos = 0, !.size = volume.size[name], !.cluster = volume.first[name]]
  <2>2. handle' \in Handles /\ open' = [open EXCEPT ![handle'] = f]
    BY <2>1, <1>5
  <2>3. open[handle'] \in HandleType /\ volume.size[name] \in Nat /\ volume.first[name] \in Nat
    <3>1. open[handle'] \in HandleType
      BY <1>1, <2>2 DEF DataShape
    <3>2. volume.size[name] \in Nat /\ volume.first[name] \in Nat
      BY <1>1, <2>1, <1>3, ModuleFile
    <3> QED
      BY <3>1, <3>2
  <2>4. /\ f \in HandleType /\ f.opened = open[handle'].opened
        /\ f.pos = 0 /\ f.size = volume.size[name] /\ f.cluster = volume.first[name]
    BY <2>3 DEF HandleType
  <2>5. \A h \in Handles : open[h].pos <= open[h].size
    BY <1>1 DEF HandleInv
  <2> HIDE DEF f
  <2>6. open' \in [Handles -> HandleType] /\ open'[handle'] = f
        /\ \A g \in Handles : g # handle' => open'[g] = open[g]
    BY <1>1, <2>2, <2>4, FileChanges
  <2>7. 0 <= volume.size[name]
    BY <2>3
  <2> QED
    BY <1>4, <2>2, <2>4, <2>5, <2>6, <2>7
<1>7. DiskShape'
  <2>1. CASE entry # name
    BY <1>1, <1>2, <2>1, AsksNothing
  <2>2. CASE entry = name
    <3>1. DataLba + volume.first[name] - 2 \in Int
      <4>1. volume.first[name] \in Nat
        BY <1>1, <1>3, <2>2, ModuleFile
      <4> QED
        BY <4>1, Constants
    <3> QED
      BY <1>1, <1>5, <2>2, <3>1, Asks
  <2> QED
    BY <2>1, <2>2
<1>8. ControlShape'
  <2>1. handle' \in {NoHandle} \union Handles /\ at' \in Stage2Steps
    BY <1>1, <1>2, <1>5 DEF ControlShape, Stage2Steps
  <2>2. UNCHANGED <<step, name, geometry, errors, fresh>>
    BY DEF Compare, stage1Vars
  <2> QED
    BY <1>1, <2>1, <2>2 DEF ControlShape
<1>9. DataShape'
  <2>1. root' \in [buf : Int, pos : 0 .. (RootSectors * Sector), cluster : Nat]
    <3>1. 0 \in 0 .. (RootSectors * Sector) /\ RootLba \in Nat
      BY Constants
    <3> QED
      BY <1>1, <3>1, <1>2 DEF Rewound, DataShape
  <2>2. open' \in [Handles -> HandleType]
    BY <1>1, <1>2, <1>6 DEF DataShape
  <2>3. UNCHANGED <<volume, entry, left, chunk, loaded>>
    BY DEF Compare, Ask, AskNothing, diskVars
  <2> QED
    BY <1>1, <2>1, <2>2, <2>3 DEF DataShape
<1>10. Stage1Inv'
  BY <1>1 DEF Compare, stage1Vars, diskVars, Ask, AskNothing, Stage1Inv, Chain
<1>11. StartInv'
  <2>1. CASE entry # name
    BY <1>2, <2>1 DEF StartInv, Starting, Holding, Reading
  <2>2. CASE entry = name
    <3>1. root'.pos = 0 /\ root'.cluster = RootLba
      BY <1>1, <1>2, <2>2 DEF DataShape, Rewound
    <3> QED
      BY <1>5, <2>2, <3>1 DEF StartInv, Starting
  <2> QED
    BY <2>1, <2>2
<1>12. SearchInv'
  <2>1. CASE entry = name
    BY <1>5, <2>1 DEF SearchInv, Searching
  <2>2. CASE entry # name
    <3>1. SUFFICES ASSUME Plain, fresh
          PROVE  SearchInv'
      BY <1>2 DEF SearchInv, Plain
    <3>2. /\ root.cluster = RootLba + (root.pos \div Sector)
          /\ root.pos < RootSectors * Sector => root.buf = root.cluster
          /\ root.pos > 0 /\ entry = volume.root[root.pos]
          /\ \A i \in 1 .. (root.pos - 1) : volume.root[i] # name
      BY <1>1, <3>1 DEF SearchInv, Searching, Compare
    <3>3. \A i \in 1 .. root.pos : volume.root[i] # name
      <4>1. root.pos \in Nat
        <5> DEFINE n == RootSectors * Sector
        <5>1. n \in Nat /\ root.pos \in 0 .. n
          BY <1>1, Constants DEF DataShape
        <5> HIDE DEF n
        <5> QED
          BY <5>1
      <4>2. \A i \in 1 .. root.pos : i = root.pos \/ i \in 1 .. (root.pos - 1)
        BY <4>1
      <4> QED
        BY <2>2, <3>2, <4>2
    <3> QED
      BY <1>2, <2>2, <3>2, <3>3 DEF SearchInv
  <2> QED
    BY <2>1, <2>2
<1>13. HandleInv'
  <2>1. CASE entry # name
    <3>1. at' = "find" /\ UNCHANGED <<open, handle>>
      BY <1>2, <2>1
    <3> QED
      BY <1>1, <1>4, <3>1 DEF HandleInv, Holding, Reading
  <2>2. CASE entry = name
    BY <1>2, <1>3, <1>5, <1>6, <2>2 DEF HandleInv, Holding, Reading
  <2> QED
    BY <2>1, <2>2
<1>14. PositionInv'
  <2>1. CASE entry # name
    BY <1>2, <2>1 DEF PositionInv, Holding, Reading
  <2>2. CASE entry = name
    <3>1. 0 \div Sector = 0 /\ volume.first[name] = Chain(name)[0]
      BY <1>1, <1>3, <2>2, Constants, ModuleFile
    <3>2. Chain(name)' = Chain(name) /\ asked' = DataLba + volume.first[name] - 2
      BY <1>2, <1>5, <2>2 DEF Chain, Ask
    <3> QED
      BY <1>2, <1>5, <1>6, <2>2, <3>1, <3>2 DEF PositionInv
  <2> QED
    BY <2>1, <2>2
<1>15. CopyInv'
  BY <1>1 DEF Compare, stage1Vars, diskVars, Ask, AskNothing, CopyInv, Holding, Reading, Plain,
      PieceAt, Chain
<1>16. DoneInv'
  BY <1>1 DEF Compare, stage1Vars, diskVars, Ask, AskNothing, DoneInv, Holding, Reading, Plain,
      Whole, Content, Chain, ControlShape, Modules
<1>17. MemoryInv'
  BY <1>1 DEF Compare, stage1Vars, diskVars, Ask, AskNothing, MemoryInv, Starting, Holding,
      Reading, ControlShape, Modules
<1>18. FindsWhatIsThere'
  BY <1>2, <1>5 DEF FindsWhatIsThere
<1> QED
  BY <1>7, <1>8, <1>9, <1>10, <1>11, <1>12, <1>13, <1>14, <1>15, <1>16, <1>17, <1>18 DEF Inv, Shape

LEMMA NotFoundKeeps ==
  ASSUME Inv, NotFound, step = "jump", UNCHANGED stage1Vars
  PROVE  Inv'
<1>1. /\ DiskShape /\ ControlShape /\ DataShape /\ Stage1Inv /\ StartInv /\ SearchInv
      /\ HandleInv /\ PositionInv /\ CopyInv /\ DoneInv /\ MemoryInv /\ FindsWhatIsThere
  BY DEF Inv, Shape
<1>2. DiskShape'
  BY <1>1, Constants DEF NotFound, stage1Vars, diskVars, Ask, AskNothing, DiskShape, DataShape,
      ControlShape, NoSector
<1>3. ControlShape'
  BY <1>1 DEF NotFound, stage1Vars, diskVars, Ask, AskNothing, ControlShape, Stage1Steps,
      Stage2Steps, Modules, Handles
<1>4. DataShape'
  <2>1. root' \in [buf : Int, pos : 0 .. (RootSectors * Sector), cluster : Nat]
    <3>1. 0 \in 0 .. (RootSectors * Sector)
      BY Constants
    <3> QED
      BY <1>1, <3>1, Constants DEF NotFound, Rewound, DataShape
  <2>2. UNCHANGED <<volume, open, entry, left, chunk, loaded>>
    BY DEF NotFound, Ask, AskNothing, diskVars
  <2> QED
    BY <1>1, <2>1, <2>2 DEF DataShape
<1>5. Stage1Inv'
  BY <1>1 DEF NotFound, stage1Vars, diskVars, Ask, AskNothing, Stage1Inv, Chain
<1>6. StartInv'
  BY <1>1 DEF NotFound, stage1Vars, diskVars, Ask, AskNothing, StartInv, Starting, Searching,
      Holding, Reading
<1>7. SearchInv'
  BY <1>1 DEF NotFound, stage1Vars, diskVars, Ask, AskNothing, SearchInv, Searching, Plain
<1>8. HandleInv'
  BY <1>1 DEF NotFound, stage1Vars, diskVars, Ask, AskNothing, HandleInv, Holding, Reading
<1>9. PositionInv'
  BY <1>1 DEF NotFound, stage1Vars, diskVars, Ask, AskNothing, PositionInv, Holding, Reading,
      Plain, Chain
<1>10. CopyInv'
  BY <1>1 DEF NotFound, stage1Vars, diskVars, Ask, AskNothing, CopyInv, Holding, Reading, Plain,
      PieceAt, Chain
<1>11. DoneInv'
  BY <1>1 DEF NotFound, stage1Vars, diskVars, Ask, AskNothing, DoneInv, Holding, Reading, Plain,
      Whole, Content, Chain, ControlShape, Modules
<1>12. MemoryInv'
  BY <1>1 DEF NotFound, stage1Vars, diskVars, Ask, AskNothing, MemoryInv, Starting, Holding,
      Reading, ControlShape, Modules
<1>13. FindsWhatIsThere'
  <2>1. SUFFICES ASSUME Plain, fresh
        PROVE  name \notin ToSet(volume.root)
    BY DEF NotFound, FindsWhatIsThere, Plain, diskVars
  <2>2. \A i \in 1 .. (RootSectors * Sector) : volume.root[i] # name
    BY <1>1, <2>1 DEF SearchInv, Searching, NotFound
  <2>3. volume.root \in Seq(ToSet(volume.root)) /\ Len(volume.root) = RootSectors * Sector
    BY <1>1, VolumesAssumption DEF DiskShape, RootFull
  <2>4. DOMAIN volume.root = 1 .. (RootSectors * Sector)
    BY <2>3
  <2> QED
    BY <2>2, <2>4 DEF ToSet
<1> QED
  BY <1>2, <1>3, <1>4, <1>5, <1>6, <1>7, <1>8, <1>9, <1>10, <1>11, <1>12, <1>13 DEF Inv, Shape

LEMMA OpenEntryKeeps ==
  ASSUME Inv, OpenEntry, step = "jump", UNCHANGED stage1Vars
  PROVE  Inv'
<1>1. /\ DiskShape /\ ControlShape /\ DataShape /\ Stage1Inv /\ StartInv /\ SearchInv
      /\ HandleInv /\ PositionInv /\ CopyInv /\ DoneInv /\ MemoryInv /\ FindsWhatIsThere
  BY DEF Inv, Shape
<1>2. Delivered(geometry) \in Int
  BY <1>1, DrivesAnswer
<1>3. (Plain' => Plain /\ Readable(geometry)) /\ UNCHANGED geometry
  <2>1. errors \in Nat
    BY <1>1 DEF ControlShape
  <2>2. UNCHANGED geometry /\ ((errors' = errors /\ Readable(geometry)) \/ errors' = errors + 1)
    BY DEF OpenEntry
  <2> QED
    BY <2>1, <2>2 DEF Plain
<1>4. /\ handle \in Handles /\ handle # NoHandle /\ open[handle] \in HandleType
      /\ open[handle].pos \in Nat /\ open[handle].size \in Nat /\ open[handle].cluster \in Nat
      /\ open[handle].buf \in Int /\ open[handle].pos <= open[handle].size
      /\ name \in ToSet(volume.root)
  <2>1. at \in {"open"} \union Holding
    BY DEF OpenEntry, Holding, Reading
  <2> QED
    BY <2>1, HandleFacts
<1>5. Readable(geometry) =>
      /\ at' \in {"memory", "call"}
      /\ open' = [open EXCEPT ![handle] = [open[handle] EXCEPT !.opened = TRUE, !.buf = Delivered(geometry)]]
  <2>1. SUFFICES ASSUME Readable(geometry)
        PROVE  /\ at' \in {"memory", "call"}
               /\ open' = [open EXCEPT ![handle] = [open[handle] EXCEPT !.opened = TRUE, !.buf = Delivered(geometry)]]
    OBVIOUS
  <2>2. at' \in {"memory", "call"} /\ DOMAIN open = Handles
        /\ open' = [open EXCEPT ![handle].opened = TRUE, ![handle].buf = Delivered(geometry)]
    BY <1>1, <2>1 DEF OpenEntry, DataShape
  <2> QED
    BY <2>2, <1>4
<1>6. Readable(geometry) =>
      /\ open' \in [Handles -> HandleType] /\ \A h \in Handles : h # handle => open'[h] = open[h]
      /\ open'[handle].pos = open[handle].pos /\ open'[handle].size = open[handle].size
      /\ open'[handle].cluster = open[handle].cluster /\ open'[handle].buf = Delivered(geometry)
  <2> DEFINE f == [open[handle] EXCEPT !.opened = TRUE, !.buf = Delivered(geometry)]
  <2>1. /\ f \in HandleType /\ f.pos = open[handle].pos /\ f.size = open[handle].size
        /\ f.cluster = open[handle].cluster /\ f.buf = Delivered(geometry)
    BY <1>2, <1>4 DEF HandleType
  <2>2. Readable(geometry) => open' = [open EXCEPT ![handle] = f]
    BY <1>5
  <2> HIDE DEF f
  <2> QED
    BY <1>1, <1>4, <2>1, <2>2, FileChanges
<1>7. ~Readable(geometry) => at' = "no file" /\ errors' # 0 /\ open' = open
  <2>1. errors \in Nat
    BY <1>1 DEF ControlShape
  <2>2. errors + 1 # 0
    BY <2>1
  <2> QED
    BY <2>2 DEF OpenEntry
<1>8. DiskShape'
  BY <1>1, AsksNothing DEF OpenEntry
<1>9. ControlShape'
  <2>1. errors' \in Nat
    <3>1. errors \in Nat
      BY <1>1 DEF ControlShape
    <3>2. errors' = errors \/ errors' = errors + 1
      BY DEF OpenEntry
    <3> QED
      BY <3>1, <3>2
  <2>2. UNCHANGED <<step, name, geometry, fresh, handle>> /\ at' \in Stage2Steps
    BY DEF OpenEntry, stage1Vars, Stage2Steps
  <2> QED
    BY <1>1, <2>1, <2>2 DEF ControlShape, Handles
<1>10. DataShape'
  <2>1. open' \in [Handles -> HandleType]
    BY <1>1, <1>6, <1>7 DEF DataShape
  <2>2. UNCHANGED <<volume, root, entry, left, chunk, loaded>>
    BY DEF OpenEntry, Ask, AskNothing, diskVars
  <2> QED
    BY <1>1, <2>1, <2>2 DEF DataShape
<1>11. Stage1Inv'
  BY <1>1 DEF OpenEntry, stage1Vars, diskVars, Ask, AskNothing, Stage1Inv, Chain
<1>12. StartInv'
  BY <1>1 DEF OpenEntry, stage1Vars, diskVars, Ask, AskNothing, StartInv, Starting, Searching,
      Holding, Reading
<1>13. SearchInv'
  BY <1>1 DEF OpenEntry, stage1Vars, diskVars, Ask, AskNothing, SearchInv, Searching, Plain
<1>14. HandleInv'
  <2>1. UNCHANGED <<handle, name, volume, left>> /\ at' \in {"memory", "call", "no file"}
    BY <1>5 DEF OpenEntry, AskNothing, Ask
  <2>2. \A h \in Handles : ~open[h].opened
    <3>1. at \notin Holding
      BY DEF OpenEntry, Holding, Reading
    <3> QED
      BY <1>1, <3>1, NoneOpen
  <2>3. \A h \in Handles : open[h].pos <= open[h].size
    BY <1>1 DEF HandleInv
  <2>4. CASE Readable(geometry)
    <3>1. \A h \in Handles : open'[h].opened => h = handle
      BY <1>6, <2>2, <2>4
    <3>2. \A h \in Handles : open'[h].pos <= open'[h].size
      BY <1>4, <1>6, <2>3, <2>4
    <3>3. at' \in Holding
      BY <1>5, <2>4 DEF Holding
    <3> QED
      BY <1>4, <1>5, <2>1, <2>4, <3>1, <3>2, <3>3 DEF HandleInv
  <2>5. CASE ~Readable(geometry)
    BY <1>7, <2>1, <2>2, <2>3, <2>5 DEF HandleInv, Holding, Reading
  <2> QED
    BY <2>4, <2>5
<1>15. PositionInv'
  <2>1. SUFFICES ASSUME Plain'
        PROVE  PositionInv'
    BY DEF PositionInv
  <2>2. Plain /\ Readable(geometry) /\ UNCHANGED <<volume, name, handle>> /\ geometry = Drive /\ at = "open"
    BY <1>3, <2>1 DEF OpenEntry, Ask, AskNothing, Plain
  <2> DEFINE f == open[handle]
  <2>3. /\ f.size = volume.size[name] /\ f.pos = 0 /\ f.pos \div Sector = 0 /\ 0 <= LastOf(volume, name)
        /\ f.cluster = Chain(name)[0] /\ asked = DataLba + f.cluster - 2
    <3>1. 0 \div Sector = 0 /\ LastOf(volume, name) \in Nat
      BY <1>1, <1>4, Constants, ModuleFile
    <3> QED
      BY <1>1, <2>2, <3>1 DEF PositionInv
  <2>4. asked \in Nat
    <3>1. f.cluster \in Nat /\ f.cluster >= 2
      BY <1>1, <1>4, <2>3, ModuleFile
    <3> HIDE DEF f
    <3> QED
      BY <2>3, <3>1, Constants
  <2>5. Delivered(geometry) = asked
    BY <2>2, <2>4, ReadsWhatIsAsked
  <2>6. Chain(name)' = Chain(name)
    BY <2>2 DEF Chain
  <2> QED
    BY <1>5, <1>6, <2>2, <2>3, <2>5, <2>6 DEF PositionInv
<1>16. CopyInv'
  <2>1. SUFFICES ASSUME Plain'
        PROVE  CopyInv'
    BY DEF CopyInv
  <2>2. /\ Plain /\ Readable(geometry) /\ UNCHANGED <<volume, name, handle, loaded>> /\ at = "open"
        /\ at' \notin Reading
    BY <1>3, <1>5, <2>1 DEF OpenEntry, Ask, AskNothing, Plain, Reading
  <2>3. open[handle].pos = 0
    BY <1>1, <2>2 DEF PositionInv
  <2>4. loaded[name] = <<>>
    BY <1>1, <2>2 DEF DoneInv, Holding, Reading
  <2>5. Len(loaded[name]) = 0 /\ \A k \in 1 .. 0 : FALSE
    BY <2>4
  <2> QED
    BY <1>6, <2>2, <2>3, <2>5 DEF CopyInv
<1>17. DoneInv'
  <2>1. /\ UNCHANGED <<volume, name, loaded>> /\ at = "open" /\ at' \in {"memory", "call", "no file"}
    BY <1>5, <1>7 DEF OpenEntry, Ask, AskNothing
  <2> QED
    BY <1>1, <1>3, <2>1 DEF DoneInv, Whole, Content, Chain, Holding, Reading
<1>18. MemoryInv'
  BY <1>1 DEF OpenEntry, stage1Vars, diskVars, Ask, AskNothing, MemoryInv, Starting, Holding,
      Reading, ControlShape, Modules
<1>19. FindsWhatIsThere'
  BY <1>5, <1>7 DEF FindsWhatIsThere
<1> QED
  BY <1>8, <1>9, <1>10, <1>11, <1>12, <1>13, <1>14, <1>15, <1>16, <1>17, <1>18, <1>19 DEF Inv, Shape

LEMMA DetectMemoryKeeps ==
  ASSUME Inv, DetectMemory, step = "jump", UNCHANGED stage1Vars
  PROVE  Inv'
<1>1. /\ DiskShape /\ ControlShape /\ DataShape /\ Stage1Inv /\ StartInv /\ SearchInv
      /\ HandleInv /\ PositionInv /\ CopyInv /\ DoneInv /\ MemoryInv /\ FindsWhatIsThere
  BY DEF Inv, Shape
<1>2. DiskShape'
  BY <1>1, Constants DEF DetectMemory, stage1Vars, diskVars, Ask, AskNothing, DiskShape,
      DataShape, ControlShape, NoSector
<1>3. ControlShape'
  BY <1>1 DEF DetectMemory, stage1Vars, diskVars, Ask, AskNothing, ControlShape, Stage1Steps,
      Stage2Steps, Modules, Handles
<1>4. DataShape'
  BY <1>1, Constants DEF DetectMemory, stage1Vars, diskVars, Ask, AskNothing, DataShape
<1>5. Stage1Inv'
  BY <1>1 DEF DetectMemory, stage1Vars, diskVars, Ask, AskNothing, Stage1Inv, Chain
<1>6. StartInv'
  BY <1>1 DEF DetectMemory, stage1Vars, diskVars, Ask, AskNothing, StartInv, Starting,
      Searching, Holding, Reading
<1>7. SearchInv'
  BY <1>1 DEF DetectMemory, stage1Vars, diskVars, Ask, AskNothing, SearchInv, Searching, Plain
<1>8. HandleInv'
  BY <1>1 DEF DetectMemory, stage1Vars, diskVars, Ask, AskNothing, HandleInv, Holding, Reading
<1>9. PositionInv'
  BY <1>1 DEF DetectMemory, stage1Vars, diskVars, Ask, AskNothing, PositionInv, Holding,
      Reading, Plain, Chain
<1>10. CopyInv'
  BY <1>1 DEF DetectMemory, stage1Vars, diskVars, Ask, AskNothing, CopyInv, Holding, Reading,
      Plain, PieceAt, Chain
<1>11. DoneInv'
  BY <1>1 DEF DetectMemory, stage1Vars, diskVars, Ask, AskNothing, DoneInv, Holding, Reading,
      Plain, Whole, Content, Chain, ControlShape, Modules
<1>12. MemoryInv'
  <2> DEFINE b == memory.block
             s == memory.bios.blocks
  <2>1. /\ memory \in [bios : BiosMaps, block : Nat \ {0}, regions : {Prefix(s, b - 1)}] /\ b <= Len(s) + 1
        /\ b \in Nat \ {0} /\ memory.regions = Prefix(s, b - 1)
    BY <1>1 DEF MemoryInv
  <2>2. UNCHANGED name /\ at = "memory"
    BY DEF DetectMemory
  <2>3. CASE GoesOn(memory.bios, b)
    <3>1. s \in Seq(ToSet(s)) /\ b \in 1 .. Len(s)
      <4>1. memory.bios \in BiosMaps
        BY <2>1
      <4>2. s \in Seq(ToSet(s))
        BY <4>1, Stage2Assumption
      <4>3. b <= Len(s)
        BY <2>3 DEF GoesOn
      <4> QED
        BY <2>1, <4>2, <4>3
    <3>2. Append(memory.regions, s[b]) = Prefix(s, b) /\ b + 1 - 1 = b /\ b + 1 \in Nat \ {0} /\ b + 1 <= Len(s) + 1
      <4>1. Append(Prefix(s, b - 1), s[b]) = Prefix(s, b)
        BY <3>1, PrefixAppend, Zenon
      <4>2. Len(s) \in Nat
        BY <3>1, LenProperties
      <4> HIDE DEF b
      <4>3. b + 1 - 1 = b /\ b + 1 \in Nat \ {0} /\ b + 1 <= Len(s) + 1
        BY <3>1, <4>2
      <4> QED
        BY <2>1, <4>1, <4>3, Zenon
    <3>3. memory' = [memory EXCEPT !.block = b + 1, !.regions = Append(memory.regions, s[b])] /\ at' = at
      BY <2>3 DEF DetectMemory
    <3> HIDE DEF b
    <3>4. /\ memory'.bios = memory.bios /\ memory'.block = b + 1
          /\ memory' \in [bios : BiosMaps, block : Nat \ {0}, regions : {Prefix(s, b)}]
      BY <2>1, <3>2, <3>3
    <3>5. name # "userland"
      BY <1>1, <2>2, <2>3 DEF MemoryInv, b
    <3> DEFINE r == memory'.block - 1
    <3>6. r = b /\ memory'.bios.blocks = s
      BY <2>1, <3>2, <3>4
    <3> HIDE DEF s, r
    <3>7. /\ memory' \in [bios : BiosMaps, block : Nat \ {0}, regions : {Prefix(memory'.bios.blocks, r)}]
          /\ memory'.block <= Len(memory'.bios.blocks) + 1
      BY <3>2, <3>4, <3>6
    <3>8. name' # "userland" /\ at' = "memory"
      BY <2>2, <3>3, <3>5
    <3> QED
      BY <3>7, <3>8 DEF MemoryInv, Starting, Holding, Reading, r
  <2>4. CASE ~GoesOn(memory.bios, b)
    <3>1. memory' = memory /\ at' = "call"
      BY <2>4 DEF DetectMemory
    <3> QED
      BY <1>1, <2>2, <2>4, <3>1 DEF MemoryInv, Starting
  <2> QED
    BY <2>3, <2>4
<1>13. FindsWhatIsThere'
  BY <1>1 DEF DetectMemory, stage1Vars, diskVars, Ask, AskNothing, FindsWhatIsThere
<1> QED
  BY <1>2, <1>3, <1>4, <1>5, <1>6, <1>7, <1>8, <1>9, <1>10, <1>11, <1>12, <1>13 DEF Inv, Shape

LEMMA CallReadKeeps ==
  ASSUME Inv, CallRead, step = "jump", UNCHANGED stage1Vars
  PROVE  Inv'
<1>1. /\ DiskShape /\ ControlShape /\ DataShape /\ Stage1Inv /\ StartInv /\ SearchInv
      /\ HandleInv /\ PositionInv /\ CopyInv /\ DoneInv /\ MemoryInv /\ FindsWhatIsThere
  BY DEF Inv, Shape
<1>2. /\ handle \in Handles /\ handle # NoHandle /\ open[handle] \in HandleType
      /\ open[handle].pos \in Nat /\ open[handle].size \in Nat /\ open[handle].cluster \in Nat
      /\ open[handle].buf \in Int /\ open[handle].pos <= open[handle].size
      /\ name \in ToSet(volume.root)
  <2>1. at \in {"open"} \union Holding
    BY DEF CallRead, Holding, Reading
  <2> QED
    BY <2>1, HandleFacts
<1>3. /\ at = "call" /\ at' = "read" /\ left' \in Nat /\ left' <= LoadSize
      /\ open[handle].pos + left' <= open[handle].size /\ chunk' = <<>>
      /\ left' = 0 => open[handle].pos = open[handle].size
      /\ UNCHANGED <<volume, geometry, name, handle, open, loaded, errors, root, entry, asked>>
  <2>1. left' = IF LoadSize < open[handle].size - open[handle].pos THEN LoadSize
                 ELSE open[handle].size - open[handle].pos
    BY DEF CallRead
  <2>2. /\ left' \in Nat /\ left' <= LoadSize /\ open[handle].pos + left' <= open[handle].size
        /\ left' = 0 => open[handle].pos = open[handle].size
    BY <1>2, <2>1, Constants
  <2> QED
    BY <2>2 DEF CallRead, diskVars
<1>4. DiskShape'
  BY <1>1, Constants DEF CallRead, stage1Vars, diskVars, Ask, AskNothing, DiskShape, DataShape,
      ControlShape, NoSector
<1>5. ControlShape'
  BY <1>1 DEF CallRead, stage1Vars, diskVars, Ask, AskNothing, ControlShape, Stage1Steps,
      Stage2Steps, Modules, Handles
<1>6. DataShape'
  <2>1. <<>> \in Seq(Pieces) /\ Len(<<>>) = 0
    OBVIOUS
  <2> QED
    BY <1>1, <1>3, <2>1 DEF DataShape
<1>7. Stage1Inv'
  BY <1>1 DEF CallRead, stage1Vars, diskVars, Ask, AskNothing, Stage1Inv, Chain
<1>8. StartInv'
  BY <1>1 DEF CallRead, stage1Vars, diskVars, Ask, AskNothing, StartInv, Starting, Searching,
      Holding, Reading
<1>9. SearchInv'
  BY <1>1 DEF CallRead, stage1Vars, diskVars, Ask, AskNothing, SearchInv, Searching, Plain
<1>10. HandleInv'
  BY <1>1, <1>2, <1>3 DEF HandleInv, Holding, Reading
<1>11. PositionInv'
  BY <1>1 DEF CallRead, stage1Vars, diskVars, Ask, AskNothing, PositionInv, Holding, Reading,
      Plain, Chain
<1>12. CopyInv'
  <2>1. SUFFICES ASSUME Plain
        PROVE  CopyInv'
    BY <1>3 DEF CopyInv, Plain
  <2>2. /\ open[handle].pos = Len(loaded[name])
        /\ volume.size[name] < CopyMod => \A k \in 1 .. Len(loaded[name]) : loaded[name][k] = PieceAt(name, k)
    BY <1>1, <1>3, <2>1 DEF CopyInv, Holding, Reading
  <2>3. Len(chunk') = 0 /\ \A k \in 1 .. 0 : FALSE
    BY <1>3
  <2>4. at' \in Reading /\ \A k : PieceAt(name, k)' = PieceAt(name, k)
    BY <1>3 DEF Reading, PieceAt, Chain
  <2> QED
    BY <1>2, <1>3, <2>2, <2>3, <2>4 DEF CopyInv
<1>13. DoneInv'
  BY <1>1 DEF CallRead, stage1Vars, diskVars, Ask, AskNothing, DoneInv, Holding, Reading, Plain,
      Whole, Content, Chain, ControlShape, Modules
<1>14. MemoryInv'
  BY <1>1 DEF CallRead, stage1Vars, diskVars, Ask, AskNothing, MemoryInv, Starting, Holding,
      Reading, ControlShape, Modules
<1>15. FindsWhatIsThere'
  BY <1>1 DEF CallRead, stage1Vars, diskVars, Ask, AskNothing, FindsWhatIsThere
<1> QED
  BY <1>4, <1>5, <1>6, <1>7, <1>8, <1>9, <1>10, <1>11, <1>12, <1>13, <1>14, <1>15 DEF Inv, Shape

LEMMA ReadBufferKeeps ==
  ASSUME Inv, ReadBuffer, step = "jump", UNCHANGED stage1Vars
  PROVE  Inv'
<1>1. /\ DiskShape /\ ControlShape /\ DataShape /\ Stage1Inv /\ StartInv /\ SearchInv
      /\ HandleInv /\ PositionInv /\ CopyInv /\ DoneInv /\ MemoryInv /\ FindsWhatIsThere
  BY DEF Inv, Shape
<1>2. /\ handle \in Handles /\ handle # NoHandle /\ open[handle] \in HandleType
      /\ open[handle].pos \in Nat /\ open[handle].size \in Nat /\ open[handle].cluster \in Nat
      /\ open[handle].buf \in Int /\ open[handle].pos <= open[handle].size
      /\ name \in ToSet(volume.root)
  <2>1. at \in {"open"} \union Holding
    BY DEF ReadBuffer, Holding, Reading
  <2> QED
    BY <2>1, HandleFacts
<1>3. PICK p \in Nat, z \in Nat, m \in Nat, q \in Nat, o \in Nat, n \in Nat :
        /\ p = open[handle].pos /\ z = open[handle].size /\ m = left
        /\ q = p \div Sector /\ o = p % Sector /\ n = Smaller(left, Sector - o)
        /\ n >= 1 /\ n <= m /\ o + n <= Sector /\ o < Sector
  <2> DEFINE p == open[handle].pos
             o == p % Sector
             n == Smaller(left, Sector - o)
  <2>1. p \div Sector \in Nat /\ o \in 0 .. (Sector - 1) /\ left \in Nat /\ left > 0 /\ Sector \in Nat \ {0}
        /\ p \in Nat /\ open[handle].size \in Nat
    BY <1>1, <1>2, Constants, DivMod DEF DataShape, ReadBuffer
  <2> HIDE DEF o
  <2>2. o \in Nat /\ n \in Nat /\ n >= 1 /\ n <= left /\ o + n <= Sector /\ o < Sector
    BY <2>1 DEF Smaller
  <2> HIDE DEF n
  <2> QED
    BY <2>1, <2>2 DEF n, o
<1>4. /\ p \in Nat /\ z \in Nat /\ m \in Nat /\ q \in Nat /\ o \in Nat /\ n \in Nat
      /\ open[handle].pos = p /\ open[handle].size = z /\ left = m /\ Sector \in Nat \ {0}
      /\ n >= 1 /\ n <= m /\ o + n <= Sector /\ o < Sector
  BY <1>3, Constants
<1>5. /\ chunk' = chunk \o Buffered(open[handle], n) /\ left' = left - n /\ left \in Nat /\ left' \in Nat
      /\ UNCHANGED <<volume, name, handle, loaded, errors, geometry, root, entry>>
      /\ (open[handle].pos + n) % Sector = 0 <=> o + n = Sector
      /\ o + n # Sector => (open[handle].pos + n) \div Sector = q
      /\ o + n = Sector => (open[handle].pos + n) \div Sector = q + 1
  <2>1. left \in Nat
    BY <1>1 DEF DataShape
  <2>2. chunk' = chunk \o Buffered(open[handle], n) /\ left' = left - n
        /\ UNCHANGED <<volume, name, handle, loaded, errors, geometry, root, entry>>
    BY <1>3 DEF ReadBuffer, Ask, AskNothing
  <2>3. left' \in Nat
    BY <1>4, <2>1, <2>2
  <2>4. /\ o + n = Sector => (open[handle].pos + n) \div Sector = q + 1 /\ (open[handle].pos + n) % Sector = 0
        /\ o + n # Sector => (open[handle].pos + n) \div Sector = q /\ (open[handle].pos + n) % Sector = o + n
    <3>1. /\ (p % Sector) + n = Sector => (p + n) \div Sector = (p \div Sector) + 1 /\ (p + n) % Sector = 0
          /\ (p % Sector) + n # Sector => (p + n) \div Sector = p \div Sector /\ (p + n) % Sector = (p % Sector) + n
      <4>1. (p % Sector) + n <= Sector
        BY <1>3, <1>4
      <4>2. p \in Nat /\ n \in Nat /\ Sector \in Nat \ {0}
        BY <1>4
      <4> QED
        BY <4>1, <4>2, DivStep, ZenonT(40)
    <3> QED
      BY <1>3, <1>4, <3>1
  <2>5. o + n # 0
    BY <1>4
  <2> QED
    BY <2>1, <2>2, <2>3, <2>4, <2>5
<1>6. /\ chunk' \in Seq(Pieces) /\ Len(chunk) \in Nat /\ Len(chunk') = Len(chunk) + n
      /\ \A k \in 1 .. Len(chunk) : chunk'[k] = chunk[k]
      /\ \A k \in 1 .. n : chunk'[Len(chunk) + k] = [lba |-> open[handle].buf, at |-> o + k - 1]
  <2> DEFINE b == Buffered(open[handle], n)
  <2>1. b = [k \in 1 .. n |-> [lba |-> open[handle].buf, at |-> o + k - 1]]
    BY <1>3 DEF Buffered
  <2>2. \A k \in 1 .. n : [lba |-> open[handle].buf, at |-> o + k - 1] \in Pieces
    BY <1>2, <1>4 DEF Pieces
  <2> HIDE DEF b
  <2>3. b \in Seq(Pieces) /\ Len(b) = n /\ \A k \in 1 .. n : b[k] = [lba |-> open[handle].buf, at |-> o + k - 1]
    BY <1>4, <2>1, <2>2
  <2>4. chunk \in Seq(Pieces) /\ chunk' = chunk \o b
    BY <1>1, <1>5 DEF DataShape, b
  <2>5. /\ chunk' \in Seq(Pieces) /\ Len(chunk') = Len(chunk) + n /\ Len(chunk) \in Nat
        /\ \A k \in 1 .. (Len(chunk) + n) : chunk'[k] = IF k <= Len(chunk) THEN chunk[k] ELSE b[k - Len(chunk)]
    <3>1. chunk \in Seq(Pieces) /\ b \in Seq(Pieces)
      BY <2>3, <2>4
    <3>2. Len(chunk) \in Nat
      BY <3>1, LenProperties
    <3>3. /\ chunk \o b \in Seq(Pieces) /\ Len(chunk \o b) = Len(chunk) + Len(b)
          /\ \A k \in 1 .. Len(chunk) + Len(b) : (chunk \o b)[k] =
               IF k <= Len(chunk) THEN chunk[k] ELSE b[k - Len(chunk)]
      BY <3>1, ConcatProperties
    <3>4. Len(b) = n /\ chunk' = chunk \o b
      BY <2>3, <2>4
    <3> QED
      BY <3>2, <3>3, <3>4
  <2>6. \A k \in 1 .. Len(chunk) : chunk'[k] = chunk[k]
    BY <1>4, <2>5
  <2>7. ASSUME NEW k \in 1 .. n PROVE chunk'[Len(chunk) + k] = b[k]
    <3>1. Len(chunk) + k \in 1 .. (Len(chunk) + n) /\ ~(Len(chunk) + k <= Len(chunk))
          /\ (Len(chunk) + k) - Len(chunk) = k
      BY <1>4, <2>5
    <3> QED
      BY <2>5, <3>1
  <2> QED
    BY <2>3, <2>5, <2>6, <2>7
<1>7. LET f == open[handle]
          c == NextCluster(f.cluster)
      IN  /\ c \in Nat
          /\ \/ /\ o + n # Sector /\ at' = "read" /\ AskNothing
                /\ open' = [open EXCEPT ![handle] = [f EXCEPT !.pos = f.pos + n]]
             \/ /\ o + n = Sector /\ c >= EndOfChain /\ at' = "copy" /\ AskNothing
                /\ open' = [open EXCEPT ![handle] = [f EXCEPT !.pos = f.pos + n, !.cluster = c, !.size = f.pos + n]]
             \/ /\ o + n = Sector /\ ~(c >= EndOfChain) /\ at' = "next sector" /\ Ask(DataLba + c - 2)
                /\ open' = [open EXCEPT ![handle] = [f EXCEPT !.pos = f.pos + n, !.cluster = c]]
  <2> DEFINE f == open[handle]
             c == NextCluster(f.cluster)
  <2>1. c \in Nat
    BY <1>1, <1>2, NextClusterNat DEF DiskShape
  <2>2. DOMAIN open = Handles /\ at = "read"
    BY <1>1 DEF DataShape, ReadBuffer
  <2>3. CASE o + n # Sector
    <3>1. open' = [open EXCEPT ![handle].pos = @ + n] /\ AskNothing /\ at' = at
      BY <1>3, <1>4, <1>5, <2>3, Zenon DEF ReadBuffer
    <3> QED
      BY <1>2, <2>1, <2>2, <2>3, <3>1
  <2>4. CASE o + n = Sector /\ c >= EndOfChain
    <3>1. open' = [open EXCEPT ![handle].pos = @ + n, ![handle].cluster = c, ![handle].size = f.pos + n]
          /\ AskNothing /\ at' = "copy"
      BY <1>3, <1>4, <1>5, <2>4, Zenon DEF ReadBuffer
    <3> QED
      BY <1>2, <2>1, <2>2, <2>4, <3>1
  <2>5. CASE o + n = Sector /\ ~(c >= EndOfChain)
    <3>1. open' = [open EXCEPT ![handle].pos = @ + n, ![handle].cluster = c]
          /\ Ask(DataLba + c - 2) /\ at' = "next sector"
      BY <1>3, <1>4, <1>5, <2>5, Zenon DEF ReadBuffer
    <3> QED
      BY <1>2, <2>1, <2>2, <2>5, <3>1
  <2> QED
    BY <2>3, <2>4, <2>5
<1>8. LET f == open[handle]
          g == open'[handle]
          c == NextCluster(f.cluster)
      IN  /\ open' \in [Handles -> HandleType] /\ \A h \in Handles : h # handle => open'[h] = open[h]
          /\ g.opened = f.opened /\ g.buf = f.buf /\ g.pos = f.pos + n
          /\ \/ o + n # Sector /\ at' = "read" /\ g.size = f.size /\ g.cluster = f.cluster
             \/ o + n = Sector /\ c >= EndOfChain /\ at' = "copy" /\ g.size = f.pos + n
             \/ /\ o + n = Sector /\ ~(c >= EndOfChain) /\ at' = "next sector" /\ g.size = f.size
                /\ g.cluster = c /\ asked' = DataLba + c - 2
  <2> DEFINE f == open[handle]
             c == NextCluster(f.cluster)
  <2>1. f \in HandleType /\ c \in Nat /\ f.pos + n \in Nat
    <3>1. f \in HandleType /\ f.pos \in Nat
      BY <1>2
    <3>2. c \in Nat
      BY <1>7
    <3>3. f.pos + n \in Nat
      <4> HIDE DEF f
      <4> QED BY <1>4, <3>1
    <3> QED
      BY <3>1, <3>2, <3>3
  <2>2. CASE o + n # Sector /\ at' = "read" /\ open' = [open EXCEPT ![handle] = [f EXCEPT !.pos = f.pos + n]]
    <3> DEFINE g == [f EXCEPT !.pos = f.pos + n]
    <3>1. /\ g \in HandleType /\ g.opened = f.opened /\ g.buf = f.buf /\ g.pos = f.pos + n
          /\ g.size = f.size /\ g.cluster = f.cluster
      BY <2>1 DEF HandleType
    <3>2. open' = [open EXCEPT ![handle] = g]
      BY <2>2
    <3> HIDE DEF g
    <3> QED
      BY <1>1, <1>2, <2>2, <3>1, <3>2, FileChanges
  <2>3. CASE /\ o + n = Sector /\ c >= EndOfChain /\ at' = "copy"
             /\ open' = [open EXCEPT ![handle] = [f EXCEPT !.pos = f.pos + n, !.cluster = c, !.size = f.pos + n]]
    <3> DEFINE g == [f EXCEPT !.pos = f.pos + n, !.cluster = c, !.size = f.pos + n]
    <3>1. /\ g \in HandleType /\ g.opened = f.opened /\ g.buf = f.buf /\ g.pos = f.pos + n
          /\ g.size = f.pos + n
      BY <2>1 DEF HandleType
    <3>2. open' = [open EXCEPT ![handle] = g]
      BY <2>3
    <3> HIDE DEF g
    <3> QED
      BY <1>1, <1>2, <2>3, <3>1, <3>2, FileChanges
  <2>4. CASE /\ o + n = Sector /\ ~(c >= EndOfChain) /\ at' = "next sector" /\ Ask(DataLba + c - 2)
             /\ open' = [open EXCEPT ![handle] = [f EXCEPT !.pos = f.pos + n, !.cluster = c]]
    <3> DEFINE g == [f EXCEPT !.pos = f.pos + n, !.cluster = c]
    <3>1. /\ g \in HandleType /\ g.opened = f.opened /\ g.buf = f.buf /\ g.pos = f.pos + n
          /\ g.size = f.size /\ g.cluster = c
      BY <2>1 DEF HandleType
    <3>2. open' = [open EXCEPT ![handle] = g]
      BY <2>4
    <3>3. asked' = DataLba + c - 2
      BY <2>4 DEF Ask
    <3> HIDE DEF g
    <3> QED
      BY <1>1, <1>2, <2>4, <3>1, <3>2, <3>3, FileChanges
  <2> QED
    BY <1>7, <2>2, <2>3, <2>4
<1>9. DiskShape'
  <2>1. DataLba + NextCluster(open[handle].cluster) - 2 \in Int
    <3> DEFINE c == NextCluster(open[handle].cluster)
    <3>1. c \in Nat
      BY <1>7
    <3> HIDE DEF c
    <3>2. DataLba + c - 2 \in Int
      BY <3>1, Constants
    <3> QED
      BY <3>2 DEF c
  <2> QED
    BY <1>1, <1>7, <2>1, Asks, AsksNothing
<1>10. ControlShape'
  BY <1>1 DEF ReadBuffer, stage1Vars, diskVars, Ask, AskNothing, ControlShape, Stage1Steps,
      Stage2Steps, Modules, Handles
<1>11. DataShape'
  <2>1. Len(chunk') + left' <= LoadSize
    <3>1. Len(chunk) + left <= LoadSize
      BY <1>1 DEF DataShape
    <3> QED
      <4>1. n \in Nat /\ n <= left /\ left' = left - n /\ left \in Nat
        BY <1>4, <1>5
      <4>2. Len(chunk) \in Nat /\ Len(chunk') = Len(chunk) + n
        BY <1>6, Zenon
      <4> QED
        BY <3>1, <4>1, <4>2
  <2> QED
    BY <1>1, <1>5, <1>6, <1>8, <2>1 DEF DataShape
<1>12. Stage1Inv'
  BY <1>1 DEF ReadBuffer, stage1Vars, diskVars, Ask, AskNothing, Stage1Inv, Chain
<1>13. StartInv'
  BY <1>1 DEF ReadBuffer, stage1Vars, diskVars, Ask, AskNothing, StartInv, Starting, Searching,
      Holding, Reading
<1>14. SearchInv'
  BY <1>1 DEF ReadBuffer, stage1Vars, diskVars, Ask, AskNothing, SearchInv, Searching, Plain
<1>15. HandleInv'
  <2>1. at = "read" /\ open[handle].pos + left <= open[handle].size
        /\ \A h \in Handles : (open[h].opened => h = handle) /\ open[h].pos <= open[h].size
    BY <1>1 DEF HandleInv, ReadBuffer, Holding, Reading
  <2>2. open'[handle].pos <= open'[handle].size
        /\ (at' \in {"read", "next sector"} => open'[handle].pos + left' <= open'[handle].size)
    <3>1. p + m <= z
      BY <1>4, <2>1
    <3>2. /\ open'[handle].pos = p + n /\ left' = m - n
          /\ open'[handle].size = z \/ (at' = "copy" /\ open'[handle].size = p + n)
      BY <1>4, <1>5, <1>8
    <3>3. p + n <= z /\ (p + n) + (m - n) <= z
      BY <1>4, <3>1
    <3>4. CASE open'[handle].size = z
      BY <3>2, <3>3, <3>4
    <3>5. CASE at' = "copy" /\ open'[handle].size = p + n
      BY <1>4, <3>2, <3>5
    <3> QED
      BY <3>2, <3>4, <3>5
  <2>3. at' \in {"read", "copy", "next sector"}
    BY <1>8
  <2>4. \A h \in Handles : (open'[h].opened => h = handle) /\ open'[h].pos <= open'[h].size
    BY <1>8, <2>1, <2>2
  <2> QED
    BY <1>2, <1>5, <2>2, <2>3, <2>4 DEF HandleInv, Holding, Reading
<1>16. PositionInv'
  <2>1. SUFFICES ASSUME Plain
        PROVE  PositionInv'
    BY <1>5 DEF PositionInv, Plain
  <2> DEFINE f == open[handle]
             l == LastOf(volume, name)
  <2>2. /\ f.size = volume.size[name] /\ l \in Nat /\ l = (f.size - 1) \div Sector
        /\ \A i \in 0 .. l :
             /\ NextCluster(Chain(name)[i]) >= EndOfChain <=> i = l
             /\ i # l => Chain(name)[i + 1] = NextCluster(Chain(name)[i])
    <3>1. f.size = volume.size[name]
      BY <1>1, <2>1 DEF PositionInv, ReadBuffer, Holding, Reading
    <3> QED
      BY <1>1, <1>2, <3>1, ModuleFile
  <2>3. p + n <= z /\ p < z
    <3>1. p + m <= z
      BY <1>1, <1>4 DEF HandleInv, ReadBuffer
    <3> QED
      BY <1>4, <3>1
  <2>4. q \in 0 .. l
    BY <1>3, <1>4, <2>2, <2>3, SectorOf
  <2>5. f.cluster = Chain(name)[q] /\ f.buf = DataLba + f.cluster - 2
    <3>1. f.pos \div Sector = q /\ q <= l
      BY <1>3, <2>2, <2>4
    <3> QED
      BY <1>1, <2>1, <3>1 DEF PositionInv, ReadBuffer, Holding, Reading
  <2>6. Chain(name)' = Chain(name) /\ LastOf(volume, name)' = l
    BY <1>5 DEF Chain
  <2> DEFINE g == open'[handle]
  <2>7. g = open[handle]'
    BY <1>5
  <2>8. CASE o + n # Sector /\ at' = "read" /\ g.size = f.size /\ g.cluster = f.cluster
    <3>1. g.pos \div Sector = q /\ g.buf = f.buf
      BY <1>5, <1>8, <2>8
    <3> QED
      BY <1>5, <2>2, <2>5, <2>6, <2>8, <3>1 DEF PositionInv
  <2>9. CASE o + n = Sector /\ NextCluster(f.cluster) >= EndOfChain /\ at' = "copy" /\ g.size = f.pos + n
    <3>1. q = l
      <4>1. NextCluster(Chain(name)[q]) >= EndOfChain <=> q = l
        <5> HIDE DEF l, f
        <5> QED BY <2>2, <2>4
      <4> QED
        BY <2>5, <2>9, <4>1
    <3>2. g.pos \div Sector = q + 1
      BY <1>5, <1>8, <2>9
    <3>3. f.pos + n = f.size
      <4>1. p \div Sector = (z - 1) \div Sector /\ (p % Sector) + n = Sector
        BY <1>3, <1>4, <2>2, <2>9, <3>1
      <4>2. p \in Nat /\ z \in Nat /\ n \in Nat /\ Sector \in Nat \ {0}
        BY <1>4
      <4>3. p + n = z
        BY <2>3, <4>1, <4>2, LastSector, Zenon
      <4> QED
        BY <1>4, <4>3
    <3>4. ~(q + 1 <= l)
      BY <2>2, <3>1
    <3> HIDE DEF l
    <3> QED
      BY <1>5, <2>2, <2>6, <2>9, <3>2, <3>3, <3>4 DEF PositionInv
  <2>10. CASE /\ o + n = Sector /\ ~(NextCluster(f.cluster) >= EndOfChain) /\ at' = "next sector"
              /\ g.size = f.size /\ g.cluster = NextCluster(f.cluster)
              /\ asked' = DataLba + NextCluster(f.cluster) - 2
    <3>1. g.pos \div Sector = q + 1
      BY <1>5, <1>8, <2>10
    <3>2. Chain(name)[q + 1] = NextCluster(f.cluster)
      <4>1. /\ NextCluster(Chain(name)[q]) >= EndOfChain <=> q = l
            /\ q # l => Chain(name)[q + 1] = NextCluster(Chain(name)[q])
        <5> HIDE DEF l, f
        <5> QED BY <2>2, <2>4
      <4> QED
        BY <2>5, <2>10, <4>1
    <3> QED
      BY <1>5, <2>2, <2>6, <2>10, <3>1, <3>2 DEF PositionInv
  <2> QED
    BY <1>8, <2>8, <2>9, <2>10
<1>17. CopyInv'
  <2>1. SUFFICES ASSUME Plain
        PROVE  CopyInv'
    BY <1>5 DEF CopyInv, Plain
  <2> DEFINE f == open[handle]
             done == Len(loaded[name])
             l == LastOf(volume, name)
  <2>2. /\ f.pos = done + Len(chunk) /\ done \in Nat
        /\ \A k \in 1 .. Len(chunk) : chunk[k] = PieceAt(name, done + k)
        /\ volume.size[name] < CopyMod => \A k \in 1 .. done : loaded[name][k] = PieceAt(name, k)
    <3>1. loaded[name] \in Seq(Pieces)
      BY <1>1 DEF DataShape, ControlShape
    <3> QED
      BY <1>1, <2>1, <3>1, LenProperties DEF CopyInv, ReadBuffer, Holding, Reading
  <2>3. f.buf = DataLba + Chain(name)[q] - 2
    <3>1. q <= l
      <4>1. z = volume.size[name]
        BY <1>1, <1>4, <2>1 DEF PositionInv, ReadBuffer, Holding, Reading
      <4>2. l = (z - 1) \div Sector /\ l \in Nat
        BY <1>1, <1>2, <4>1, ModuleFile
      <4>3. p + m <= z
        BY <1>1, <1>4 DEF HandleInv, ReadBuffer
      <4>4. p < z
        BY <1>4, <4>3
      <4> QED
        BY <1>3, <1>4, <4>2, <4>4, SectorOf
    <3>2. f.pos \div Sector = q
      BY <1>3
    <3> QED
      BY <1>1, <2>1, <3>1, <3>2 DEF PositionInv, ReadBuffer, Holding, Reading
  <2>4. ASSUME NEW k \in 1 .. n PROVE chunk'[Len(chunk) + k] = PieceAt(name, done + (Len(chunk) + k))
    <3>1. k - 1 \in Nat /\ o + (k - 1) < Sector
      BY <1>4
    <3>2. (f.pos + (k - 1)) \div Sector = q /\ (f.pos + (k - 1)) % Sector = o + (k - 1)
      <4>1. p \in Nat /\ k - 1 \in Nat /\ Sector \in Nat \ {0} /\ (p % Sector) + (k - 1) < Sector
        BY <1>3, <1>4, <3>1
      <4>2. (p + (k - 1)) \div Sector = p \div Sector /\ (p + (k - 1)) % Sector = (p % Sector) + (k - 1)
        BY <4>1, DivStays, Zenon
      <4> QED
        BY <1>3, <4>2
    <3>3. (done + (Len(chunk) + k)) - 1 = f.pos + (k - 1) /\ o + (k - 1) = o + k - 1
      <4>1. f.pos = done + Len(chunk) /\ done \in Nat /\ Len(chunk) \in Nat /\ k \in Nat /\ o \in Nat
        BY <1>4, <1>6, <2>2
      <4> HIDE DEF done, f
      <4> QED
        BY <4>1
    <3> QED
      BY <1>6, <2>3, <3>2, <3>3 DEF PieceAt
  <2>5. \A k \in 1 .. Len(chunk') : chunk'[k] = PieceAt(name, done + k)
    <3>1. ASSUME NEW k \in 1 .. Len(chunk')
          PROVE  k \in 1 .. Len(chunk) \/ \E j \in 1 .. n : k = Len(chunk) + j
      <4>1. CASE k > Len(chunk)
        <5>1. k - Len(chunk) \in 1 .. n /\ k = Len(chunk) + (k - Len(chunk))
          BY <1>4, <1>6, <4>1
        <5> QED
          BY <5>1
      <4> QED
        BY <1>6, <4>1
    <3> QED
      BY <1>6, <2>2, <2>4, <3>1
  <2>6. (\A k : PieceAt(name, k)' = PieceAt(name, k)) /\ done' = done
    BY <1>5 DEF PieceAt, Chain
  <2>7. at' \in Reading /\ open'[handle].pos = done + Len(chunk') /\ Len(chunk') + left' # 0
    <3>1. at' \in Reading
      BY <1>8 DEF Reading
    <3>2. open'[handle].pos = f.pos + n
      BY <1>8
    <3> HIDE DEF f, done
    <3> QED
      BY <1>4, <1>5, <1>6, <2>2, <3>1, <3>2
  <2>8. at' = "copy" => left' = 0
    <3>1. f.pos + left <= f.size
      BY <1>1 DEF HandleInv, ReadBuffer
    <3>2. at' = "copy" => f.pos + n = open'[handle].size /\ open'[handle].size = f.size
      <4>1. SUFFICES ASSUME at' = "copy" PROVE open'[handle].size = f.size /\ f.pos + n = open'[handle].size
        OBVIOUS
      <4>2. open'[handle].size = f.pos + n
        BY <1>8, <4>1
      <4>3. PositionInv' /\ Plain'
        BY <1>16, <1>5, <2>1 DEF Plain
      <4>4. open'[handle].size = volume.size[name]
        BY <1>5, <4>1, <4>3 DEF PositionInv, Holding, Reading
      <4>5. f.size = volume.size[name]
        BY <1>1, <2>1 DEF PositionInv, ReadBuffer, Holding, Reading
      <4> QED
        BY <4>2, <4>4, <4>5
    <3>3. p + m <= z /\ left' = m - n /\ (at' = "copy" => p + n = z)
      BY <1>4, <1>5, <3>1, <3>2
    <3> QED
      BY <1>4, <3>3
  <2> HIDE DEF done
  <2> QED
    BY <1>5, <2>2, <2>5, <2>6, <2>7, <2>8 DEF CopyInv, done
<1>18. DoneInv'
  BY <1>1 DEF ReadBuffer, stage1Vars, diskVars, Ask, AskNothing, DoneInv, Holding, Reading,
      Plain, Whole, Content, Chain, ControlShape, Modules
<1>19. MemoryInv'
  BY <1>1 DEF ReadBuffer, stage1Vars, diskVars, Ask, AskNothing, MemoryInv, Starting, Holding,
      Reading, ControlShape, Modules
<1>20. FindsWhatIsThere'
  BY <1>1 DEF ReadBuffer, stage1Vars, diskVars, Ask, AskNothing, FindsWhatIsThere
<1> QED
  BY <1>9, <1>10, <1>11, <1>12, <1>13, <1>14, <1>15, <1>16, <1>17, <1>18, <1>19, <1>20 DEF Inv, Shape

LEMMA NextSectorKeeps ==
  ASSUME Inv, NextSector, step = "jump", UNCHANGED stage1Vars
  PROVE  Inv'
<1>1. /\ DiskShape /\ ControlShape /\ DataShape /\ Stage1Inv /\ StartInv /\ SearchInv
      /\ HandleInv /\ PositionInv /\ CopyInv /\ DoneInv /\ MemoryInv /\ FindsWhatIsThere
  BY DEF Inv, Shape
<1>2. Delivered(geometry) \in Int
  BY <1>1, DrivesAnswer
<1>3. (Plain' => Plain /\ Readable(geometry)) /\ UNCHANGED geometry
  <2>1. errors \in Nat
    BY <1>1 DEF ControlShape
  <2>2. UNCHANGED geometry /\ ((errors' = errors /\ Readable(geometry)) \/ errors' = errors + 1)
    BY DEF NextSector
  <2> QED
    BY <2>1, <2>2 DEF Plain
<1>4. /\ handle \in Handles /\ handle # NoHandle /\ open[handle] \in HandleType
      /\ open[handle].pos \in Nat /\ open[handle].size \in Nat /\ open[handle].cluster \in Nat
      /\ open[handle].buf \in Int /\ open[handle].pos <= open[handle].size
      /\ name \in ToSet(volume.root)
  <2>1. at \in {"open"} \union Holding
    BY DEF NextSector, Holding, Reading
  <2> QED
    BY <2>1, HandleFacts
<1>5. /\ open' \in [Handles -> HandleType] /\ \A h \in Handles : h # handle => open'[h] = open[h]
      /\ open'[handle].opened = open[handle].opened /\ open'[handle].pos = open[handle].pos
      /\ open'[handle].size = open[handle].size /\ open'[handle].cluster = open[handle].cluster
      /\ Readable(geometry) => open'[handle].buf = Delivered(geometry)
  <2>1. CASE Readable(geometry)
    <3> DEFINE f == [open[handle] EXCEPT !.buf = Delivered(geometry)]
    <3>1. /\ f \in HandleType /\ f.opened = open[handle].opened /\ f.pos = open[handle].pos
          /\ f.size = open[handle].size /\ f.cluster = open[handle].cluster /\ f.buf = Delivered(geometry)
      BY <1>2, <1>4 DEF HandleType
    <3>2. open' = [open EXCEPT ![handle] = f]
      BY <1>1, <1>4, <2>1 DEF NextSector, DataShape
    <3> HIDE DEF f
    <3> QED
      BY <1>1, <1>4, <3>1, <3>2, FileChanges
  <2>2. CASE ~Readable(geometry)
    BY <1>1, <2>2 DEF NextSector, DataShape
  <2> QED
    BY <2>1, <2>2
<1>6. /\ at = "next sector" /\ at' \in {"read", "copy"} /\ (at' = "read" <=> Readable(geometry))
      /\ UNCHANGED <<volume, name, handle, left, chunk, loaded, entry, root>>
  BY DEF NextSector, Ask, AskNothing
<1>7. DiskShape'
  BY <1>1, AsksNothing DEF NextSector
<1>8. ControlShape'
  <2>1. errors' \in Nat
    <3>1. errors \in Nat
      BY <1>1 DEF ControlShape
    <3>2. errors' = errors \/ errors' = errors + 1
      BY DEF NextSector
    <3> QED
      BY <3>1, <3>2
  <2>2. UNCHANGED <<step, name, geometry, fresh, handle>> /\ at' \in Stage2Steps
    BY DEF NextSector, stage1Vars, Stage2Steps
  <2> QED
    BY <1>1, <2>1, <2>2 DEF ControlShape, Handles
<1>9. DataShape'
  <2>1. open' \in [Handles -> HandleType]
    BY <1>5
  <2>2. UNCHANGED <<volume, root, entry, left, chunk, loaded>>
    BY DEF NextSector, Ask, AskNothing, diskVars
  <2> QED
    BY <1>1, <2>1, <2>2 DEF DataShape
<1>10. Stage1Inv'
  BY <1>1 DEF NextSector, stage1Vars, diskVars, Ask, AskNothing, Stage1Inv, Chain
<1>11. StartInv'
  BY <1>1 DEF NextSector, stage1Vars, diskVars, Ask, AskNothing, StartInv, Starting, Searching,
      Holding, Reading
<1>12. SearchInv'
  BY <1>1 DEF NextSector, stage1Vars, diskVars, Ask, AskNothing, SearchInv, Searching, Plain
<1>13. HandleInv'
  <2>1. open[handle].pos + left <= open[handle].size
        /\ \A h \in Handles : (open[h].opened => h = handle) /\ open[h].pos <= open[h].size
    BY <1>1, <1>6 DEF HandleInv
  <2>2. \A h \in Handles : (open'[h].opened => h = handle) /\ open'[h].pos <= open'[h].size
    BY <1>4, <1>5, <2>1
  <2> QED
    BY <1>4, <1>5, <1>6, <2>1, <2>2 DEF HandleInv, Holding, Reading
<1>14. PositionInv'
  <2>1. SUFFICES ASSUME Plain'
        PROVE  PositionInv'
    BY DEF PositionInv
  <2>2. Plain /\ Readable(geometry) /\ geometry = Drive /\ at' = "read"
    BY <1>3, <1>6, <2>1 DEF Plain
  <2> DEFINE f == open[handle]
             k == f.pos \div Sector
  <2>3. /\ f.size = volume.size[name]
        /\ k <= LastOf(volume, name) => f.cluster = Chain(name)[k] /\ asked = DataLba + f.cluster - 2
    BY <1>1, <1>6, <2>2 DEF PositionInv, Holding, Reading
  <2>4. k <= LastOf(volume, name) => Delivered(geometry) = asked
    <3>1. SUFFICES ASSUME k <= LastOf(volume, name)
          PROVE  Delivered(geometry) = asked
      OBVIOUS
    <3>2. k \in 0 .. LastOf(volume, name)
      <4>1. k \in Nat /\ LastOf(volume, name) \in Nat
        BY <1>1, <1>4, Constants, DivMod, ModuleFile
      <4> HIDE DEF k
      <4> QED
        BY <3>1, <4>1
    <3>3. f.cluster >= 2 /\ f.cluster \in Nat
      BY <1>1, <1>4, <2>3, <3>1, <3>2, ModuleFile
    <3>4. asked \in Nat
      <4>1. asked = DataLba + f.cluster - 2
        BY <2>3, <3>1
      <4> HIDE DEF f
      <4> QED
        BY <3>3, <4>1, Constants
    <3> QED
      BY <2>2, <3>4, ReadsWhatIsAsked
  <2>5. Chain(name)' = Chain(name)
    BY <1>6 DEF Chain
  <2> QED
    BY <1>5, <1>6, <2>2, <2>3, <2>4, <2>5 DEF PositionInv
<1>15. CopyInv'
  <2>1. SUFFICES ASSUME Plain'
        PROVE  CopyInv'
    BY DEF CopyInv
  <2>2. Plain /\ at' = "read"
    BY <1>3, <1>6, <2>1
  <2>3. \A k : PieceAt(name, k)' = PieceAt(name, k)
    BY <1>6 DEF PieceAt, Chain
  <2> QED
    BY <1>1, <1>5, <1>6, <2>2, <2>3 DEF CopyInv, Holding, Reading
<1>16. DoneInv'
  BY <1>1, <1>3, <1>6 DEF DoneInv, Whole, Content, Chain, Holding, Reading
<1>17. MemoryInv'
  BY <1>1 DEF NextSector, stage1Vars, diskVars, Ask, AskNothing, MemoryInv, Starting, Holding,
      Reading, ControlShape, Modules
<1>18. FindsWhatIsThere'
  BY <1>1 DEF NextSector, stage1Vars, diskVars, Ask, AskNothing, FindsWhatIsThere
<1> QED
  BY <1>7, <1>8, <1>9, <1>10, <1>11, <1>12, <1>13, <1>14, <1>15, <1>16, <1>17, <1>18 DEF Inv, Shape

LEMMA ReturnedKeeps ==
  ASSUME Inv, Returned, step = "jump", UNCHANGED stage1Vars
  PROVE  Inv'
<1>1. /\ DiskShape /\ ControlShape /\ DataShape /\ Stage1Inv /\ StartInv /\ SearchInv
      /\ HandleInv /\ PositionInv /\ CopyInv /\ DoneInv /\ MemoryInv /\ FindsWhatIsThere
  BY DEF Inv, Shape
<1>2. DiskShape'
  BY <1>1, Constants DEF Returned, stage1Vars, diskVars, Ask, AskNothing, DiskShape, DataShape,
      ControlShape, NoSector
<1>3. ControlShape'
  BY <1>1 DEF Returned, stage1Vars, diskVars, Ask, AskNothing, ControlShape, Stage1Steps,
      Stage2Steps, Modules, Handles
<1>4. DataShape'
  BY <1>1, Constants DEF Returned, stage1Vars, diskVars, Ask, AskNothing, DataShape
<1>5. Stage1Inv'
  BY <1>1 DEF Returned, stage1Vars, diskVars, Ask, AskNothing, Stage1Inv, Chain
<1>6. StartInv'
  BY <1>1 DEF Returned, stage1Vars, diskVars, Ask, AskNothing, StartInv, Starting, Searching,
      Holding, Reading
<1>7. SearchInv'
  BY <1>1 DEF Returned, stage1Vars, diskVars, Ask, AskNothing, SearchInv, Searching, Plain
<1>8. HandleInv'
  BY <1>1 DEF Returned, stage1Vars, diskVars, Ask, AskNothing, HandleInv, Holding, Reading
<1>9. PositionInv'
  BY <1>1 DEF Returned, stage1Vars, diskVars, Ask, AskNothing, PositionInv, Holding, Reading,
      Plain, Chain
<1>10. CopyInv'
  BY <1>1 DEF Returned, stage1Vars, diskVars, Ask, AskNothing, CopyInv, Holding, Reading, Plain,
      PieceAt, Chain
<1>11. DoneInv'
  BY <1>1 DEF Returned, stage1Vars, diskVars, Ask, AskNothing, DoneInv, Holding, Reading, Plain,
      Whole, Content, Chain, ControlShape, Modules
<1>12. MemoryInv'
  BY <1>1 DEF Returned, stage1Vars, diskVars, Ask, AskNothing, MemoryInv, Starting, Holding,
      Reading, ControlShape, Modules
<1>13. FindsWhatIsThere'
  BY <1>1 DEF Returned, stage1Vars, diskVars, Ask, AskNothing, FindsWhatIsThere
<1> QED
  BY <1>2, <1>3, <1>4, <1>5, <1>6, <1>7, <1>8, <1>9, <1>10, <1>11, <1>12, <1>13 DEF Inv, Shape

LEMMA CopyKeeps ==
  ASSUME Inv, Copy, step = "jump", UNCHANGED stage1Vars
  PROVE  Inv'
<1>1. /\ DiskShape /\ ControlShape /\ DataShape /\ Stage1Inv /\ StartInv /\ SearchInv
      /\ HandleInv /\ PositionInv /\ CopyInv /\ DoneInv /\ MemoryInv /\ FindsWhatIsThere
  BY DEF Inv, Shape
<1>2. /\ handle \in Handles /\ handle # NoHandle /\ open[handle] \in HandleType
      /\ open[handle].pos \in Nat /\ open[handle].size \in Nat /\ open[handle].cluster \in Nat
      /\ open[handle].buf \in Int /\ open[handle].pos <= open[handle].size
      /\ name \in ToSet(volume.root)
  <2>1. at \in {"open"} \union Holding
    BY DEF Copy, Holding, Reading
  <2> QED
    BY <2>1, HandleFacts
<1>3. /\ chunk \in Seq(Pieces) /\ Len(chunk) \in Nat /\ loaded[name] \in Seq(Pieces) /\ Len(loaded[name]) \in Nat
      /\ name \in Modules /\ DOMAIN loaded = Modules
  BY <1>1, LenProperties DEF DataShape, ControlShape
<1>4. \E s \in Seq(Pieces) :
        /\ Len(s) = Len(chunk) /\ (Len(chunk) < CopyMod => s = chunk)
        /\ loaded' = [loaded EXCEPT ![name] = loaded[name] \o s]
  <2> DEFINE s == [k \in DOMAIN chunk |-> IF k <= Len(chunk) % CopyMod THEN chunk[k] ELSE Unwritten]
  <2>1. DOMAIN chunk = 1 .. Len(chunk) /\ \A k \in 1 .. Len(chunk) : chunk[k] \in Pieces
    BY <1>3
  <2>2. Unwritten \in Pieces
    BY Constants DEF Unwritten, Pieces
  <2>3. s \in Seq(Pieces) /\ Len(s) = Len(chunk)
    BY <1>3, <2>1, <2>2
  <2>4. ASSUME Len(chunk) < CopyMod PROVE s = chunk
    <3>1. Len(chunk) % CopyMod = Len(chunk)
      BY <1>3, <2>4, Constants
    <3>2. s = [k \in 1 .. Len(chunk) |-> chunk[k]]
      BY <2>1, <3>1
    <3>3. chunk = [k \in 1 .. Len(chunk) |-> chunk[k]]
      BY <1>3
    <3> QED
      BY <3>2, <3>3
  <2>5. loaded' = [loaded EXCEPT ![name] = loaded[name] \o s]
    BY <1>3 DEF Copy
  <2> HIDE DEF s
  <2> QED
    BY <2>3, <2>4, <2>5
<1>5. /\ loaded' \in [Modules -> Seq(Pieces)] /\ \A n \in Modules : n # name => loaded'[n] = loaded[n]
      /\ Len(loaded'[name]) = Len(loaded[name]) + Len(chunk)
      /\ \A k \in 1 .. Len(loaded[name]) : loaded'[name][k] = loaded[name][k]
      /\ Len(chunk) < CopyMod =>
           \A k \in 1 .. Len(chunk) : loaded'[name][Len(loaded[name]) + k] = chunk[k]
  <2>1. PICK s \in Seq(Pieces) :
          /\ Len(s) = Len(chunk) /\ (Len(chunk) < CopyMod => s = chunk)
          /\ loaded' = [loaded EXCEPT ![name] = loaded[name] \o s]
    BY <1>4
  <2> DEFINE t == loaded[name]
             u == t \o s
  <2>2. /\ u \in Seq(Pieces) /\ Len(u) = Len(t) + Len(s)
        /\ \A i \in 1 .. Len(t) + Len(s) : u[i] = IF i <= Len(t) THEN t[i] ELSE s[i - Len(t)]
    <3>1. t \in Seq(Pieces)
      BY <1>3
    <3> HIDE DEF t
    <3> QED
      BY <2>1, <3>1, ConcatProperties
  <2>3. loaded' = [loaded EXCEPT ![name] = u]
    BY <2>1
  <2> HIDE DEF u
  <2>4. loaded'[name] = u /\ loaded' \in [Modules -> Seq(Pieces)]
        /\ \A n \in Modules : n # name => loaded'[n] = loaded[n]
    BY <1>1, <1>3, <2>2, <2>3 DEF DataShape
  <2>5. \A k \in 1 .. Len(t) : u[k] = t[k]
    BY <1>3, <2>1, <2>2
  <2>6. ASSUME NEW k \in 1 .. Len(chunk) PROVE u[Len(t) + k] = s[k]
    <3>1. Len(t) + k \in 1 .. Len(t) + Len(s) /\ ~(Len(t) + k <= Len(t)) /\ (Len(t) + k) - Len(t) = k
      BY <1>3, <2>1
    <3> QED
      BY <2>2, <3>1
  <2> QED
    BY <2>1, <2>2, <2>4, <2>5, <2>6
<1>6. DiskShape'
  BY <1>1, Constants DEF Copy, stage1Vars, diskVars, Ask, AskNothing, DiskShape, DataShape,
      ControlShape, NoSector
<1>7. ControlShape'
  BY <1>1 DEF Copy, stage1Vars, diskVars, Ask, AskNothing, ControlShape, Stage1Steps,
      Stage2Steps, Modules, Handles
<1>8. DataShape'
  <2>1. loaded' \in [Modules -> Seq(Pieces)]
    BY <1>5
  <2>2. UNCHANGED <<volume, root, open, entry, left, chunk>>
    BY DEF Copy, Ask, AskNothing, diskVars
  <2> QED
    BY <1>1, <2>1, <2>2 DEF DataShape
<1>9. Stage1Inv'
  BY <1>1 DEF Copy, stage1Vars, diskVars, Ask, AskNothing, Stage1Inv, Chain
<1>10. StartInv'
  BY <1>1 DEF Copy, stage1Vars, diskVars, Ask, AskNothing, StartInv, Starting, Searching,
      Holding, Reading
<1>11. SearchInv'
  BY <1>1 DEF Copy, stage1Vars, diskVars, Ask, AskNothing, SearchInv, Searching, Plain
<1>12. HandleInv'
  BY <1>1 DEF Copy, stage1Vars, diskVars, Ask, AskNothing, HandleInv, Holding, Reading
<1>13. PositionInv'
  BY <1>1 DEF Copy, stage1Vars, diskVars, Ask, AskNothing, PositionInv, Holding, Reading, Plain,
      Chain
<1>14. CopyInv'
  <2>1. SUFFICES ASSUME Plain
        PROVE  CopyInv'
    BY DEF Copy, CopyInv, Plain
  <2> DEFINE done == Len(loaded[name])
             f == open[handle]
  <2>2. /\ f.pos = done + Len(chunk)
        /\ \A k \in 1 .. Len(chunk) : chunk[k] = PieceAt(name, done + k)
        /\ volume.size[name] < CopyMod => \A k \in 1 .. done : loaded[name][k] = PieceAt(name, k)
    BY <1>1, <2>1 DEF Copy, CopyInv, Holding, Reading
  <2>3. UNCHANGED <<volume, name, open, handle>> /\ at' = "call"
    BY DEF Copy, diskVars
  <2>4. \A k : PieceAt(name, k)' = PieceAt(name, k)
    BY <2>3 DEF PieceAt, Chain
  <2>5. Len(loaded'[name]) = done + Len(chunk)
    BY <1>5
  <2>6. ASSUME volume.size[name] < CopyMod, NEW k \in 1 .. (done + Len(chunk))
        PROVE  loaded'[name][k] = PieceAt(name, k)
    <3>1. CASE k \in 1 .. done
      BY <1>5, <2>2, <2>6, <3>1
    <3>2. CASE k \notin 1 .. done
      <4>1. PICK j \in 1 .. Len(chunk) : k = done + j
        <5>1. k - done \in 1 .. Len(chunk) /\ k = done + (k - done)
          BY <1>3, <3>2
        <5> QED
          BY <5>1
      <4>2. Len(chunk) < CopyMod
        <5>1. f.size = volume.size[name] /\ f.pos <= f.size
          BY <1>1, <1>2, <2>1 DEF PositionInv, Copy, Holding, Reading
        <5>2. f.pos = done + Len(chunk) /\ done \in Nat /\ Len(chunk) \in Nat /\ f.size \in Nat /\ f.size < CopyMod
          BY <1>2, <1>3, <2>2, <2>6, <5>1
        <5> HIDE DEF f, done
        <5> QED
          BY <5>1, <5>2, Constants
      <4> QED
        BY <1>5, <2>2, <4>1, <4>2
    <3> QED
      BY <3>1, <3>2
  <2> HIDE DEF done
  <2> QED
    BY <2>2, <2>3, <2>4, <2>5, <2>6 DEF CopyInv, Reading, Holding
<1>15. DoneInv'
  BY <1>1 DEF Copy, stage1Vars, diskVars, Ask, AskNothing, DoneInv, Holding, Reading, Plain,
      Whole, Content, Chain, ControlShape, Modules
<1>16. MemoryInv'
  BY <1>1 DEF Copy, stage1Vars, diskVars, Ask, AskNothing, MemoryInv, Starting, Holding,
      Reading, ControlShape, Modules
<1>17. FindsWhatIsThere'
  BY <1>1 DEF Copy, stage1Vars, diskVars, Ask, AskNothing, FindsWhatIsThere
<1> QED
  BY <1>6, <1>7, <1>8, <1>9, <1>10, <1>11, <1>12, <1>13, <1>14, <1>15, <1>16, <1>17 DEF Inv, Shape

LEMMA CloseKeeps ==
  ASSUME Inv, Close, step = "jump", UNCHANGED stage1Vars
  PROVE  Inv'
<1>1. /\ DiskShape /\ ControlShape /\ DataShape /\ Stage1Inv /\ StartInv /\ SearchInv
      /\ HandleInv /\ PositionInv /\ CopyInv /\ DoneInv /\ MemoryInv /\ FindsWhatIsThere
  BY DEF Inv, Shape
<1>2. /\ handle \in Handles /\ handle # NoHandle /\ open[handle] \in HandleType
      /\ open[handle].pos \in Nat /\ open[handle].size \in Nat /\ open[handle].cluster \in Nat
      /\ open[handle].buf \in Int /\ open[handle].pos <= open[handle].size
      /\ name \in ToSet(volume.root)
  <2>1. at \in {"open"} \union Holding
    BY DEF Close, Holding, Reading
  <2> QED
    BY <2>1, HandleFacts
<1>3. /\ at = "copy" /\ chunk = <<>> /\ handle' = NoHandle
      /\ UNCHANGED <<volume, root, chunk, left, loaded, entry, errors, geometry, asked>>
      /\ open' = [open EXCEPT ![handle] = [open[handle] EXCEPT !.opened = FALSE]]
      /\ name = "kernel" => at' = "find" /\ name' = "userland" /\ fresh' = (root.buf = RootLba)
      /\ name # "kernel" => at' = "start kernel" /\ name' = name
  <2>1. open' = [open EXCEPT ![handle].opened = FALSE] /\ DOMAIN open = Handles
    BY <1>1 DEF Close, DataShape
  <2>2. open' = [open EXCEPT ![handle] = [open[handle] EXCEPT !.opened = FALSE]]
    BY <1>2, <2>1
  <2> QED
    BY <2>2 DEF Close, diskVars
<1>4. /\ open' \in [Handles -> HandleType] /\ \A h \in Handles : ~open'[h].opened
      /\ \A h \in Handles : open'[h].pos <= open'[h].size
  <2> DEFINE f == [open[handle] EXCEPT !.opened = FALSE]
  <2>1. f \in HandleType /\ ~f.opened /\ f.pos = open[handle].pos /\ f.size = open[handle].size
    BY <1>2 DEF HandleType
  <2>2. open' = [open EXCEPT ![handle] = f]
    BY <1>3
  <2> HIDE DEF f
  <2>3. open' \in [Handles -> HandleType] /\ open'[handle] = f
        /\ \A g \in Handles : g # handle => open'[g] = open[g]
    BY <1>1, <1>2, <2>1, <2>2, FileChanges
  <2>4. \A h \in Handles : (open[h].opened => h = handle) /\ open[h].pos <= open[h].size
    BY <1>1 DEF HandleInv
  <2> QED
    BY <1>2, <2>1, <2>3, <2>4
<1>5. Plain /\ volume.size[name] < CopyMod => loaded[name] = Content(name)
  <2>1. SUFFICES ASSUME Plain, volume.size[name] < CopyMod
        PROVE  loaded[name] = Content(name)
    OBVIOUS
  <2> DEFINE s == loaded[name]
             f == open[handle]
  <2>2. /\ f.pos = Len(s) + Len(chunk) /\ left = 0 /\ (Len(chunk) + left = 0 => f.pos = f.size)
        /\ \A k \in 1 .. Len(s) : s[k] = PieceAt(name, k)
    BY <1>1, <1>3, <2>1 DEF CopyInv, Holding, Reading
  <2>3. Len(chunk) = 0
    BY <1>3
  <2>4. f.size = volume.size[name]
    BY <1>1, <1>3, <2>1 DEF PositionInv, Holding, Reading
  <2>5. s \in Seq(Pieces) /\ Len(s) \in Nat
    BY <1>1, LenProperties DEF DataShape, ControlShape
  <2>6. Len(s) = volume.size[name]
    <3>1. f.pos = Len(s) + 0 /\ f.pos = f.size
      BY <2>2, <2>3
    <3> HIDE DEF f, s
    <3> QED
      BY <2>4, <2>5, <3>1
  <2> HIDE DEF s
  <2>7. s = [k \in 1 .. volume.size[name] |-> s[k]]
    BY <2>5, <2>6
  <2>8. [k \in 1 .. volume.size[name] |-> s[k]] = [k \in 1 .. volume.size[name] |-> PieceAt(name, k)]
    BY <2>2, <2>6
  <2>9. s = [k \in 1 .. volume.size[name] |-> PieceAt(name, k)]
    BY <2>7, <2>8
  <2> QED
    BY <2>9 DEF Content, PieceAt, s
<1>6. DiskShape'
  BY <1>1, Constants DEF Close, stage1Vars, diskVars, Ask, AskNothing, DiskShape, DataShape,
      ControlShape, NoSector
<1>7. ControlShape'
  BY <1>1 DEF Close, stage1Vars, diskVars, Ask, AskNothing, ControlShape, Stage1Steps,
      Stage2Steps, Modules, Handles
<1>8. DataShape'
  BY <1>1, <1>3, <1>4 DEF DataShape
<1>9. Stage1Inv'
  BY <1>1 DEF Close, stage1Vars, diskVars, Ask, AskNothing, Stage1Inv, Chain
<1>10. StartInv'
  BY <1>1 DEF Close, stage1Vars, diskVars, Ask, AskNothing, StartInv, Starting, Searching,
      Holding, Reading
<1>11. SearchInv'
  <2>1. CASE name = "kernel"
    <3>1. root.pos = 0 /\ root.cluster = RootLba
      BY <1>1, <1>3 DEF StartInv, Holding, Reading
    <3>2. 0 \div Sector = 0 /\ RootLba + 0 = RootLba /\ \A i \in 1 .. 0 : FALSE
      BY Constants
    <3> QED
      BY <1>3, <2>1, <3>1, <3>2 DEF SearchInv
  <2>2. CASE name # "kernel"
    BY <1>3, <2>2 DEF SearchInv, Searching
  <2> QED
    BY <2>1, <2>2
<1>12. HandleInv'
  <2>1. at' \in {"find", "start kernel"}
    BY <1>3
  <2> QED
    BY <1>4, <2>1 DEF HandleInv, Holding, Reading
<1>13. PositionInv'
  BY <1>1 DEF Close, stage1Vars, diskVars, Ask, AskNothing, PositionInv, Holding, Reading,
      Plain, Chain
<1>14. CopyInv'
  BY <1>1 DEF Close, stage1Vars, diskVars, Ask, AskNothing, CopyInv, Holding, Reading, Plain,
      PieceAt, Chain
<1>15. DoneInv'
  <2>1. Plain' = Plain /\ \A n : Content(n)' = Content(n)
    BY <1>3 DEF Plain, Content, Chain
  <2>2. CASE name = "kernel"
    <3>1. name' = "userland" /\ at' = "find" /\ loaded["userland"] = <<>>
      BY <1>1, <1>3, <2>2 DEF DoneInv
    <3>2. Plain => Whole("kernel")
      BY <1>5, <2>2 DEF Whole
    <3>3. Plain' => Whole("kernel")'
      BY <1>3, <2>1, <3>2 DEF Whole
    <3> QED
      BY <1>3, <3>1, <3>3 DEF DoneInv
  <2>3. CASE name = "userland"
    <3>1. name' = "userland" /\ at' = "start kernel" /\ (Plain => Whole("kernel"))
      BY <1>1, <1>3, <2>3 DEF DoneInv
    <3>2. Plain => Whole("userland")
      BY <1>5, <2>3 DEF Whole
    <3>3. Plain' => Whole("kernel")' /\ Whole("userland")'
      BY <1>3, <2>1, <3>1, <3>2 DEF Whole
    <3> QED
      BY <1>3, <3>1, <3>3 DEF DoneInv
  <2> QED
    BY <1>1, <2>2, <2>3 DEF ControlShape, Modules
<1>16. MemoryInv'
  BY <1>1 DEF Close, stage1Vars, diskVars, Ask, AskNothing, MemoryInv, Starting, Holding,
      Reading, ControlShape, Modules
<1>17. FindsWhatIsThere'
  BY <1>1 DEF Close, stage1Vars, diskVars, Ask, AskNothing, FindsWhatIsThere
<1> QED
  BY <1>6, <1>7, <1>8, <1>9, <1>10, <1>11, <1>12, <1>13, <1>14, <1>15, <1>16, <1>17 DEF Inv, Shape

LEMMA NoModuleKeeps ==
  ASSUME Inv, NoModule, step = "jump", UNCHANGED stage1Vars
  PROVE  Inv'
<1>1. /\ DiskShape /\ ControlShape /\ DataShape /\ Stage1Inv /\ StartInv /\ SearchInv
      /\ HandleInv /\ PositionInv /\ CopyInv /\ DoneInv /\ MemoryInv /\ FindsWhatIsThere
  BY DEF Inv, Shape
<1>2. DiskShape'
  BY <1>1, Constants DEF NoModule, stage1Vars, diskVars, Ask, AskNothing, DiskShape, DataShape,
      ControlShape, NoSector
<1>3. ControlShape'
  BY <1>1 DEF NoModule, stage1Vars, diskVars, Ask, AskNothing, ControlShape, Stage1Steps,
      Stage2Steps, Modules, Handles
<1>4. DataShape'
  BY <1>1, Constants DEF NoModule, stage1Vars, diskVars, Ask, AskNothing, DataShape
<1>5. Stage1Inv'
  BY <1>1 DEF NoModule, stage1Vars, diskVars, Ask, AskNothing, Stage1Inv, Chain
<1>6. StartInv'
  BY <1>1 DEF NoModule, stage1Vars, diskVars, Ask, AskNothing, StartInv, Starting, Searching,
      Holding, Reading
<1>7. SearchInv'
  BY <1>1 DEF NoModule, stage1Vars, diskVars, Ask, AskNothing, SearchInv, Searching, Plain
<1>8. HandleInv'
  BY <1>1 DEF NoModule, stage1Vars, diskVars, Ask, AskNothing, HandleInv, Holding, Reading
<1>9. PositionInv'
  BY <1>1 DEF NoModule, stage1Vars, diskVars, Ask, AskNothing, PositionInv, Holding, Reading,
      Plain, Chain
<1>10. CopyInv'
  BY <1>1 DEF NoModule, stage1Vars, diskVars, Ask, AskNothing, CopyInv, Holding, Reading, Plain,
      PieceAt, Chain
<1>11. DoneInv'
  BY <1>1 DEF NoModule, stage1Vars, diskVars, Ask, AskNothing, DoneInv, Holding, Reading, Plain,
      Whole, Content, Chain, ControlShape, Modules
<1>12. MemoryInv'
  BY <1>1 DEF NoModule, stage1Vars, diskVars, Ask, AskNothing, MemoryInv, Starting, Holding,
      Reading, ControlShape, Modules
<1>13. FindsWhatIsThere'
  BY <1>1 DEF NoModule, stage1Vars, diskVars, Ask, AskNothing, FindsWhatIsThere
<1> QED
  BY <1>2, <1>3, <1>4, <1>5, <1>6, <1>7, <1>8, <1>9, <1>10, <1>11, <1>12, <1>13 DEF Inv, Shape

-----------------------------------------------------------------------------
(* Init, the steps and the theorems. *)

LEMMA InitInv == Init => Inv
<1>1. SUFFICES ASSUME Init PROVE Inv
  OBVIOUS
<1> USE <1>1 DEF Init
<1>2. 0 \in 0 .. (RootSectors * Sector) /\ RootLba \in Nat /\ MaxFaults \in Nat /\ LoadSize \in Nat
      /\ 0 \div Sector = 0 /\ NoSector \in Int /\ NoHandle = -1 /\ Sector \in Nat \ {0}
  BY Constants
<1>3. DiskShape
  BY <1>2 DEF DiskInit, DiskShape
<1>4. ControlShape
  BY DEF Stage1Init, Stage2Init, ControlShape, Stage1Steps, Stage2Steps, Modules
<1>5. DataShape
  <2>1. root \in [buf : Int, pos : 0 .. (RootSectors * Sector), cluster : Nat]
    BY <1>2 DEF Stage2Init
  <2>2. Closed \in HandleType
    BY <1>2 DEF Closed, HandleType
  <2>3. open \in [Handles -> HandleType]
    BY <2>2 DEF Stage2Init, Handles
  <2>4. <<>> \in Seq(Pieces) /\ Len(<<>>) = 0
    OBVIOUS
  <2>5. chunk = <<>> /\ left = 0 /\ entry = "free"
    BY DEF Stage2Init
  <2>6. Len(chunk) + left <= LoadSize
    BY <1>2, <2>4, <2>5
  <2>7. loaded \in [Modules -> Seq(Pieces)]
    BY <2>4 DEF Stage2Init, Modules
  <2> QED
    BY <2>1, <2>3, <2>4, <2>5, <2>6, <2>7 DEF DataShape
<1>6. Stage1Inv
  <2>1. <<>> \in Seq(Int)
    OBVIOUS
  <2> QED
    BY <2>1 DEF Stage1Init, Stage2Init, Stage1Inv
<1>7. StartInv /\ SearchInv /\ PositionInv /\ CopyInv
  BY DEF DiskInit, Stage1Init, Stage2Init, StartInv, SearchInv, PositionInv, CopyInv,
         Starting, Searching, Holding, Reading
<1>8. HandleInv
  <2>1. \A h \in Handles : open[h] = Closed
    BY DEF Stage2Init, Handles
  <2>2. at = "drive"
    BY DEF Stage2Init
  <2> QED
    BY <2>1, <2>2 DEF HandleInv, Holding, Reading, Closed
<1>9. DoneInv
  BY DEF Stage2Init, DoneInv, Holding, Reading
<1>10. MemoryInv
  <2>1. memory \in [bios : BiosMaps, block : {1}, regions : {<<>>}] /\ at = "drive" /\ name = "kernel"
    BY DEF Stage2Init
  <2>2. memory.bios \in BiosMaps /\ memory.block = 1 /\ memory.regions = <<>>
    BY <2>1
  <2>3. Len(memory.bios.blocks) \in Nat
    <3>1. memory.bios.blocks \in Seq(ToSet(memory.bios.blocks))
      BY <2>2, Stage2Assumption
    <3> QED
      BY <3>1, LenProperties
  <2>4. Prefix(memory.bios.blocks, 0) = <<>>
    BY DEF Prefix
  <2>5. memory \in [bios : BiosMaps, block : Nat \ {0}, regions : {Prefix(memory.bios.blocks, memory.block - 1)}]
    BY <2>1, <2>2, <2>4
  <2>6. memory.block <= Len(memory.bios.blocks) + 1
    BY <2>2, <2>3
  <2> QED
    BY <2>1, <2>5, <2>6 DEF MemoryInv, Holding, Reading
<1>11. FindsWhatIsThere
  BY DEF Stage2Init, FindsWhatIsThere
<1> QED
  BY <1>3, <1>4, <1>5, <1>6, <1>7, <1>8, <1>9, <1>10, <1>11 DEF Inv, Shape

LEMMA StutterInv ==
  ASSUME Inv, UNCHANGED vars
  PROVE  Inv'
<1> USE DEF vars, diskVars, stage1Vars, stage2Vars
<1>1. /\ DiskShape /\ ControlShape /\ DataShape /\ Stage1Inv /\ StartInv /\ SearchInv
      /\ HandleInv /\ PositionInv /\ CopyInv /\ DoneInv /\ MemoryInv /\ FindsWhatIsThere
  BY DEF Inv, Shape
<1>2. DiskShape' /\ ControlShape' /\ DataShape'
  BY <1>1 DEF DiskShape, ControlShape, DataShape
<1>3. Stage1Inv'
  BY <1>1 DEF Stage1Inv, Chain
<1>4. StartInv' /\ SearchInv' /\ FindsWhatIsThere'
  BY <1>1 DEF StartInv, SearchInv, FindsWhatIsThere, Plain
<1>5. HandleInv'
  BY <1>1 DEF HandleInv
<1>6. PositionInv'
  BY <1>1 DEF PositionInv, Plain, Chain
<1>7. CopyInv'
  BY <1>1 DEF CopyInv, Plain, PieceAt, Chain
<1>8. DoneInv' /\ MemoryInv'
  BY <1>1 DEF DoneInv, MemoryInv, Whole, Plain, Content, Chain
<1> QED
  BY <1>2, <1>3, <1>4, <1>5, <1>6, <1>7, <1>8 DEF Inv, Shape

LEMMA NextInv ==
  ASSUME Inv, [Next]_vars
  PROVE  Inv'
<1>1. CASE Stage1Next /\ UNCHANGED stage2Vars
  BY <1>1, ReadRootKeeps, ReadFatKeeps, LoadClusterKeeps, Stage1GivesUpKeeps DEF Stage1Next
<1>2. CASE step = "jump" /\ Stage2Next /\ UNCHANGED stage1Vars
  BY <1>2, DiskInitializeKeeps, FatInitializeKeeps, InitializeFailsKeeps, ReadEntryKeeps, NextRootSectorKeeps,
     CompareKeeps, NotFoundKeeps, OpenEntryKeeps, DetectMemoryKeeps, CallReadKeeps, ReadBufferKeeps,
     NextSectorKeeps, ReturnedKeeps, CopyKeeps, CloseKeeps, NoModuleKeeps DEF Stage2Next
<1>3. CASE ReadFails(IF step = "jump" THEN geometry ELSE Drive) /\ UNCHANGED <<stage1Vars, stage2Vars>>
  BY <1>3, ReadFailsKeeps
<1>4. CASE UNCHANGED vars
  BY <1>4, StutterInv
<1> QED
  BY <1>1, <1>2, <1>3, <1>4 DEF Next

(* The invariant holds in every state the two stages reach. *)
THEOREM Invariant == Spec => []Inv
<1>1. Inv /\ [Next]_vars => Inv'
  BY NextInv
<1> QED
  BY InitInv, <1>1, PTL DEF Spec

(* TypeOK: both stages stay at steps and positions the source has, a file is *)
(* never read behind its end, and main's load buffer is never overrun.      *)
THEOREM TypeCorrect == Spec => []TypeOK
<1>1. Inv => TypeOK
  <2>1. SUFFICES ASSUME Inv PROVE TypeOK
    OBVIOUS
  <2>2. ControlShape /\ DiskShape /\ DataShape /\ HandleInv /\ MemoryInv
    BY <2>1 DEF Inv, Shape
  <2>3. DOMAIN open = Handles
    BY <2>2 DEF DataShape
  <2>4. \A h \in Handles : open[h].pos \in 0 .. open[h].size
    <3>1. ASSUME NEW h \in Handles PROVE open[h].pos \in 0 .. open[h].size
      <4>1. open[h] \in HandleType /\ open[h].pos <= open[h].size
        BY <2>2 DEF DataShape, HandleInv
      <4> QED
        BY <4>1 DEF HandleType
    <3> QED
      BY <3>1
  <2>5. Len(chunk) <= LoadSize
    <3>1. chunk \in Seq(Pieces) /\ left \in Nat /\ Len(chunk) + left <= LoadSize
      BY <2>2 DEF DataShape
    <3>2. Len(chunk) \in Nat
      BY <3>1, LenProperties
    <3> QED
      BY <3>1, <3>2, Constants
  <2>6. memory.bios \in BiosMaps /\ memory.block \in 1 .. (Len(memory.bios.blocks) + 1)
    <3>1. memory.bios \in BiosMaps /\ memory.block \in Nat \ {0} /\ memory.block <= Len(memory.bios.blocks) + 1
      BY <2>2 DEF MemoryInv
    <3>2. Len(memory.bios.blocks) \in Nat
      <4>1. memory.bios.blocks \in Seq(ToSet(memory.bios.blocks))
        BY <3>1, Stage2Assumption
      <4> QED
        BY <4>1, LenProperties
    <3> QED
      BY <3>1, <3>2
  <2>7. /\ step \in {"read root", "not found", "read fat", "load", "jump", "floppy error"}
        /\ at \in {"drive", "boot sector", "fat", "root", "halt", "find", "next root sector", "compare", "no file",
                   "open", "memory", "call", "read", "next sector", "copy", "start kernel"}
        /\ name \in {"kernel", "userland"} /\ errors \in Nat /\ handle \in {NoHandle} \union Handles
    BY <2>2 DEF ControlShape, Stage1Steps, Stage2Steps, Modules
  <2>8. tries \in 0 .. 3 /\ faults \in 0 .. MaxFaults /\ root.pos \in 0 .. (RootSectors * Sector)
    BY <2>2 DEF DiskShape, DataShape
  <2> QED
    BY <2>3, <2>4, <2>5, <2>6, <2>7, <2>8 DEF TypeOK
<1> QED
  BY Invariant, <1>1, PTL

(* FilesLoaded: boot.asm jumps to stage 2 with the whole file in memory, and *)
(* main starts the kernel with both files as the volume has them, on every   *)
(* volume whose chains are complete and whatever attempts failed.          *)
THEOREM FilesAreLoaded == Spec => []FilesLoaded
<1>1. Inv => FilesLoaded
  <2>1. SUFFICES ASSUME Inv PROVE FilesLoaded
    OBVIOUS
  <2>2. ControlShape /\ DiskShape /\ Stage1Inv /\ DoneInv
    BY <2>1 DEF Inv, Shape
  <2>3. Stage1LoadsFile
    <3>1. SUFFICES ASSUME step = "jump" PROVE Stage1LoadsFile
      BY DEF Stage1LoadsFile
    <3> DEFINE z == volume.size["stage2"]
               l == Len(stage2)
    <3>2. /\ "stage2" \in ToSet(volume.root) /\ stage2 \in Seq(Int) /\ l = LastOf(volume, "stage2") + 1
          /\ \A k \in 1 .. l : stage2[k] = DataLba + Chain("stage2")[k - 1] - 2
      BY <2>2, <3>1 DEF Stage1Inv
    <3>3. z \in Nat \ {0} /\ LastOf(volume, "stage2") = (z - 1) \div Sector /\ LastOf(volume, "stage2") \in Nat
      BY <2>2, <3>2, FileFacts DEF DiskShape, Files
    <3>4. l * Sector >= z /\ (l - 1) * Sector < z
      <4> DEFINE q == (z - 1) \div Sector
      <4>1. z - 1 \in Nat /\ Sector \in Nat \ {0} /\ q \in Nat /\ l = q + 1
        <5>1. z \in Nat \ {0}
          BY <3>3, Zenon
        <5>2. z - 1 \in Nat
          <6> HIDE DEF z
          <6> QED BY <5>1
        <5> QED
          BY <3>2, <3>3, <5>2, Constants, Zenon
      <4>2. z - 1 < (q + 1) * Sector /\ ~(z - 1 < q * Sector)
        <5>1. q + 1 \in Nat /\ q < q + 1 /\ ~(q < q)
          <6> HIDE DEF q
          <6> QED BY <4>1
        <5> DEFINE a == z - 1
        <5>2. a \in Nat /\ q = a \div Sector
          BY <4>1
        <5> HIDE DEF a
        <5>3. a < (q + 1) * Sector
          BY <4>1, <5>1, <5>2, DivLess, Zenon
        <5>4. ~(a < q * Sector)
          <6>1. a < q * Sector => a \div Sector < q
            BY <4>1, <5>2, DivLess
          <6> QED
            BY <5>1, <5>2, <6>1
        <5> QED
          BY <5>3, <5>4 DEF a
      <4> HIDE DEF q
      <4>3. (q + 1) * Sector \in Nat /\ q * Sector \in Nat /\ (q + 1) - 1 = q
        BY <4>1
      <4> HIDE DEF z, l
      <4> QED
        BY <3>3, <4>1, <4>2, <4>3
    <3>5. DOMAIN stage2 = 1 .. l
      BY <3>2
    <3> QED
      BY <3>2, <3>4, <3>5 DEF Stage1LoadsFile
  <2>4. LoadedIsFile
    BY <2>2 DEF LoadedIsFile, DoneInv, Plain, Whole
  <2> QED
    BY <2>3, <2>4 DEF FilesLoaded
<1> QED
  BY Invariant, <1>1, PTL

(* FindsWhatIsThere: FAT_Open, whose search starts with the first sector of   *)
(* the root directory in the buffer, finds every file that is there.        *)
THEOREM FindsFiles == Spec => []FindsWhatIsThere
<1>1. Inv => FindsWhatIsThere
  BY DEF Inv
<1> QED
  BY Invariant, <1>1, PTL

(* MemoryCounted: whatever map the BIOS has, the kernel is told of each       *)
(* usable byte once, if the count does not wrap and no usable block is       *)
(* dropped.                                                                *)
THEOREM MemoryIsCounted == Spec => []MemoryCounted
<1>1. Inv => MemoryCounted
  <2>1. SUFFICES ASSUME Inv, at = "start kernel",
                        UsableIn(memory.bios.blocks) < UintMod,
                        ~(memory.bios.end = "zero" /\ memory.bios.blocks # <<>>
                            /\ Last(memory.bios.blocks).type = Usable)
        PROVE  TotalMemory = UsableIn(memory.bios.blocks)
    BY DEF MemoryCounted
  <2> DEFINE s == memory.bios.blocks
             n == memory.block - 1
  <2>2. /\ memory.bios \in BiosMaps /\ memory.block \in Nat \ {0} /\ memory.regions = Prefix(s, n)
        /\ memory.block <= Len(s) + 1 /\ ~GoesOn(memory.bios, memory.block)
    <3>1. name = "userland" /\ MemoryInv
      BY <2>1 DEF Inv, DoneInv
    <3> QED
      BY <3>1 DEF MemoryInv
  <2>3. s \in Seq(ToSet(s)) /\ DOMAIN s = 1 .. Len(s) /\ Len(s) \in Nat /\ \A i \in 1 .. Len(s) : s[i].len \in Nat
    <3>1. s \in Seq(ToSet(s)) /\ \A i \in DOMAIN s : s[i].len \in Nat
      BY <2>2, Stage2Assumption
    <3> HIDE DEF s
    <3> QED
      BY <3>1, LenProperties
  <2>4. n \in Nat /\ n <= Len(s)
    <3> HIDE DEF s
    <3> QED BY <2>2, <2>3
  <2>5. \A i \in (n + 1) .. Len(s) : Weight(s[i]) = 0
    <3>1. n + 1 = memory.block
      BY <2>2
    <3>2. CASE memory.block <= Len(s)
      <4>1. memory.block = Len(s) /\ memory.bios.end = "zero"
        BY <2>2, <3>2 DEF GoesOn
      <4>2. s # <<>> /\ Last(s) = s[Len(s)]
        <5> HIDE DEF s
        <5>1. Len(s) # 0
          BY <2>2, <4>1
        <5> QED
          BY <2>3, <5>1 DEF Last
      <4>3. Weight(s[Len(s)]) = 0
        BY <2>1, <4>1, <4>2 DEF Weight
      <4> HIDE DEF s, n
      <4>4. \A i \in (n + 1) .. Len(s) : i = Len(s)
        <5>1. n + 1 = Len(s) /\ Len(s) \in Nat
          BY <2>3, <3>1, <4>1
        <5> QED
          BY <5>1
      <4> QED
        BY <4>3, <4>4
    <3>3. CASE ~(memory.block <= Len(s))
      <4> HIDE DEF s, n
      <4>1. (n + 1) .. Len(s) = {}
        BY <2>2, <2>3, <3>1, <3>3
      <4> QED
        BY <4>1
    <3> QED
      BY <3>2, <3>3
  <2>6. UsableIn(Prefix(s, n)) = UsableIn(s) /\ UsableIn(s) \in Nat
    <3> HIDE DEF s, n
    <3> QED BY <2>3, <2>4, <2>5, UsablePrefix
  <2>7. TotalMemory = UsableIn(s) % UintMod
    BY <2>2, <2>6 DEF TotalMemory
  <2> DEFINE u == UsableIn(s)
  <2>8. u \in Nat /\ u < UintMod /\ UintMod \in Nat \ {0}
    BY <2>1, <2>6, Constants
  <2>9. u % UintMod = u
    <3> HIDE DEF u
    <3> QED BY <2>8
  <2> QED
    BY <2>7, <2>9
<1> QED
  BY Invariant, <1>1, PTL
-----------------------------------------------------------------------------
(* Loading ends: what is left to do goes down with every step.  First the      *)
(* parts of the measure, then a lemma for each action.                     *)

Outside == {"halt", "start kernel"}

(* FilesLeft, place by place. *)
FilesPlaces ==
  /\ at = "drive" => FilesLeft = SearchLeft + 13
  /\ at = "boot sector" => FilesLeft = SearchLeft + 12
  /\ at = "fat" => FilesLeft = SearchLeft + 11
  /\ at = "root" => FilesLeft = SearchLeft + 10
  /\ at = "next root sector" => FilesLeft = SearchLeft + 9
  /\ at = "compare" => FilesLeft = SearchLeft + 8
  /\ at = "find" => FilesLeft = SearchLeft + 7
  /\ at = "open" => FilesLeft = FileLeft + 6
  /\ at = "memory" => FilesLeft = FileLeft + 4
  /\ at = "call" => FilesLeft = FileLeft + 3
  /\ at = "next sector" => FilesLeft = FileLeft + 6
  /\ at = "read" => FilesLeft = FileLeft + 2 + ChunkLeft
  /\ at = "copy" => FilesLeft = FileLeft + 1 + ChunkLeft
  /\ at = "no file" => FilesLeft = 1
  /\ at \in Outside => FilesLeft = 0

Stage1Places ==
  /\ step = "read root" => Stage1Left = ClustersLeft + 2
  /\ step = "read fat" => Stage1Left = ClustersLeft + 1
  /\ step = "load" => Stage1Left = ClustersLeft
  /\ step \in {"jump", "not found", "floppy error"} => Stage1Left = 0

LEMMA PlacesAre == FilesPlaces /\ Stage1Places
<1>1. FilesPlaces
  BY DEF FilesPlaces, FilesLeft, Outside
<1>2. Stage1Places
  BY DEF Stage1Places, Stage1Left
<1> QED
  BY <1>1, <1>2

LEMMA PlacesAreNext == FilesPlaces' /\ Stage1Places'
  BY PlacesAre, PTL

(* Every part of the measure is a number. *)
LeftShape ==
  /\ SizeOf("userland") \in Nat /\ SizeOf(name) \in Nat
  /\ Behind(name) \in Nat /\ Behind(name) >= 1
  /\ SearchLeft \in Nat /\ SearchLeft >= 5 * SizeOf(name) + Behind(name)
  /\ BlocksLeft \in Nat /\ ChunkLeft \in {0, 3}
  /\ at \in {"open"} \union Holding => FileLeft \in Nat /\ FileLeft >= Behind(name)
  /\ step \in {"read root", "read fat", "load"} => ClustersLeft \in Nat
  /\ step = "load" => ClustersLeft > 0
  /\ Stage1Left \in Nat /\ FilesLeft \in Nat
  /\ AttemptsLeft \in 0 .. 4

LEMMA LeftIsNat == Inv => LeftShape
<1>1. SUFFICES ASSUME Inv PROVE LeftShape
  OBVIOUS
<1>2. DiskShape /\ ControlShape /\ DataShape /\ Stage1Inv /\ MemoryInv
  BY <1>1 DEF Inv, Shape
<1>3. \A n \in Files : SizeOf(n) \in Nat
  BY <1>2, FileFacts DEF SizeOf, DiskShape
<1>4. SizeOf("userland") \in Nat /\ SizeOf(name) \in Nat
  BY <1>2, <1>3 DEF Files, ControlShape, Modules
<1> DEFINE all == RootSectors * Sector
<1>5. all \in Nat
  BY Constants
<1>6. root.pos \in Nat /\ root.pos <= all
  <2>1. root.pos \in 0 .. all
    BY <1>2 DEF DataShape
  <2> HIDE DEF all
  <2> QED
    BY <1>5, <2>1
<1>7. Behind(name) \in Nat /\ Behind(name) >= 1
  <2>1. Behind(name) = IF name = "kernel" THEN 3 * all + 5 * SizeOf("userland") + 8 ELSE 1
    BY DEF Behind
  <2> HIDE DEF all
  <2> QED
    BY <1>4, <1>5, <2>1
<1>8. SearchLeft \in Nat /\ SearchLeft >= 5 * SizeOf(name) + Behind(name)
  <2>1. SearchLeft = 3 * (all - root.pos) + 5 * SizeOf(name) + Behind(name)
    BY DEF SearchLeft
  <2> HIDE DEF all
  <2> QED
    BY <1>4, <1>5, <1>6, <1>7, <2>1
<1>9. BlocksLeft \in Nat
  <2>1. memory.bios \in BiosMaps /\ memory.block \in Nat /\ memory.block <= Len(memory.bios.blocks) + 1
    BY <1>2 DEF MemoryInv
  <2>2. Len(memory.bios.blocks) \in Nat
    <3>1. memory.bios.blocks \in Seq(ToSet(memory.bios.blocks))
      BY <2>1, Stage2Assumption
    <3> QED
      BY <3>1, LenProperties
  <2> QED
    BY <2>1, <2>2 DEF BlocksLeft
<1>10. ChunkLeft \in {0, 3}
  BY DEF ChunkLeft
<1>11. ASSUME at \in {"open"} \union Holding PROVE FileLeft \in Nat /\ FileLeft >= Behind(name)
  <2>1. open[handle].pos \in Nat /\ open[handle].size \in Nat /\ open[handle].pos <= open[handle].size
    BY <1>1, <1>11, HandleFacts
  <2> QED
    BY <1>7, <2>1 DEF FileLeft
<1>12. /\ step \in {"read root", "read fat", "load"} => ClustersLeft \in Nat
       /\ step = "load" => ClustersLeft > 0
  <2>1. PICK boot \in Files : boot = "stage2"
    BY DEF Files
  <2>2. ClustersLeft = ClustersOf(boot) - Len(stage2)
    BY <2>1 DEF ClustersLeft
  <2>3. ClustersOf(boot) \in Nat /\ (boot \in ToSet(volume.root) => ClustersOf(boot) = LastOf(volume, boot) + 1)
    <3>1. boot \in ToSet(volume.root) => LastOf(volume, boot) \in Nat
      BY <1>2, FileFacts DEF DiskShape
    <3> QED
      BY <3>1 DEF ClustersOf
  <2>4. Len(stage2) \in Nat
    <3>1. stage2 \in Seq(Int)
      BY <1>2 DEF Stage1Inv
    <3> QED
      BY <3>1, LenProperties
  <2>5. step = "load" => boot \in ToSet(volume.root) /\ Len(stage2) <= LastOf(volume, boot)
    BY <1>2, <2>1, Zenon DEF Stage1Inv
  <2>6. step \in {"read root", "read fat"} => stage2 = <<>>
    BY <1>2, Zenon DEF Stage1Inv
  <2>7. ASSUME stage2 = <<>> PROVE ClustersLeft \in Nat
    BY <2>2, <2>3, <2>7
  <2>8. ASSUME boot \in ToSet(volume.root), Len(stage2) <= LastOf(volume, boot)
        PROVE  ClustersLeft \in Nat /\ ClustersLeft > 0
    <3>1. LastOf(volume, boot) \in Nat
      BY <1>2, <2>8, FileFacts DEF DiskShape
    <3> QED
      BY <2>2, <2>3, <2>4, <2>8, <3>1
  <2> QED
    BY <2>5, <2>6, <2>7, <2>8, Zenon
<1>13. Stage1Left \in Nat
  <2>1. step \in Stage1Steps
    BY <1>2 DEF ControlShape
  <2>2. \/ Stage1Left = 0
        \/ /\ ClustersLeft \in Nat
           /\ \/ Stage1Left = ClustersLeft \/ Stage1Left = ClustersLeft + 1 \/ Stage1Left = ClustersLeft + 2
    BY <1>12, <2>1, PlacesAre, Zenon DEF Stage1Places, Stage1Steps
  <2> QED
    BY <2>2
<1>14. FilesLeft \in Nat
  <2>1. at \in Stage2Steps
    BY <1>2 DEF ControlShape
  <2>2. ChunkLeft \in Nat
    BY <1>10
  <2>3. ASSUME at \in {"open"} \union Holding
        PROVE  \E c \in Nat : FilesLeft = FileLeft + c \/ FilesLeft = FileLeft + c + ChunkLeft
    <3>1. 6 \in Nat /\ 4 \in Nat /\ 3 \in Nat /\ 2 \in Nat /\ 1 \in Nat
      OBVIOUS
    <3> QED
      BY <2>3, <3>1, PlacesAre, Zenon DEF FilesPlaces, Holding, Reading
  <2>4. ASSUME at \notin {"open"} \union Holding
        PROVE  FilesLeft = 0 \/ FilesLeft = 1 \/ \E c \in Nat : FilesLeft = SearchLeft + c
    <3>1. 13 \in Nat /\ 12 \in Nat /\ 11 \in Nat /\ 10 \in Nat /\ 9 \in Nat /\ 8 \in Nat /\ 7 \in Nat
      OBVIOUS
    <3> QED
      BY <2>1, <2>4, <3>1, PlacesAre, Zenon DEF FilesPlaces, Stage2Steps, Holding, Reading, Outside
  <2>5. CASE at \in {"open"} \union Holding
    <3>1. FileLeft \in Nat
      BY <1>11, <2>5
    <3>2. PICK c \in Nat : FilesLeft = FileLeft + c \/ FilesLeft = FileLeft + c + ChunkLeft
      BY <2>3, <2>5
    <3> QED
      BY <2>2, <3>1, <3>2
  <2>6. CASE at \notin {"open"} \union Holding
    <3>1. FilesLeft = 0 \/ FilesLeft = 1 \/ \E c \in Nat : FilesLeft = SearchLeft + c
      BY <2>4, <2>6
    <3> QED
      BY <1>8, <3>1
  <2> QED
    BY <2>5, <2>6
<1>15. AttemptsLeft \in 0 .. 4
  BY <1>2 DEF DiskShape, AttemptsLeft
<1> QED
  BY <1>4, <1>7, <1>8, <1>9, <1>10, <1>11, <1>12, <1>13, <1>14, <1>15 DEF LeftShape

LEMMA LeftIsNatNext == Inv' => LeftShape'
  BY LeftIsNat, PTL

(* A step brings the end nearer with something done, or with a read begun or *)
(* an attempt failed.                                                      *)
Nearer ==
  \/ Stage1Left' + Stage2Left' < Stage1Left + Stage2Left
  \/ /\ Stage1Left' + Stage2Left' = Stage1Left + Stage2Left
     /\ AttemptsLeft' < AttemptsLeft

LEMMA Sums ==
  ASSUME NEW a \in Nat, NEW b \in Nat, NEW n \in Nat, a < b
  PROVE  a + n < b + n
  OBVIOUS

LEMMA NearerIs ==
  ASSUME LeftShape, LeftShape', Nearer
  PROVE  Distance' \in 0 .. (Distance - 1)
<1> DEFINE a == Stage1Left
           b == FilesLeft
           c == BlocksLeft
           t == AttemptsLeft
           d == Distance
           x == Stage1Left'
           y == FilesLeft'
           z == BlocksLeft'
           u == AttemptsLeft'
           e == Distance'
<1>1. a \in Nat /\ b \in Nat /\ c \in Nat /\ t \in 0 .. 4
  BY DEF LeftShape
<1>2. x \in Nat /\ y \in Nat /\ z \in Nat /\ u \in 0 .. 4
  BY DEF LeftShape
<1>3. \/ x + (y + z) < a + (b + c)
      \/ x + (y + z) = a + (b + c) /\ u < t
  BY Zenon DEF Nearer, Stage2Left
<1>4. d = 5 * (a + (b + c)) + t
  BY Zenon DEF Distance, Stage2Left
<1>5. e = 5 * (x + (y + z)) + u
  BY Zenon DEF Distance, Stage2Left
<1> HIDE DEF a, b, c, t, d, x, y, z, u, e
<1>6. e \in 0 .. (d - 1)
  BY <1>1, <1>2, <1>3, <1>4, <1>5
<1> QED
  BY <1>6 DEF d, e

(* What a step leaves alone. *)
LEMMA SearchSame ==
  ASSUME UNCHANGED <<volume, name>>
  PROVE  /\ Behind(name)' = Behind(name) /\ SizeOf(name)' = SizeOf(name)
         /\ root'.pos = root.pos => SearchLeft' = SearchLeft
<1>1. SizeOf(name)' = SizeOf(name) /\ SizeOf("userland")' = SizeOf("userland")
  BY DEF SizeOf
<1>2. Behind(name)' = Behind(name)
  BY <1>1 DEF Behind
<1> QED
  BY <1>1, <1>2 DEF SearchLeft

LEMMA Stage2Same ==
  ASSUME UNCHANGED <<volume, stage2Vars>>
  PROVE  FilesLeft' = FilesLeft /\ BlocksLeft' = BlocksLeft
<1>1. SearchLeft' = SearchLeft /\ Behind(name)' = Behind(name)
  BY SearchSame DEF stage2Vars
<1>2. FileLeft' = FileLeft /\ ChunkLeft' = ChunkLeft /\ BlocksLeft' = BlocksLeft /\ at' = at
  BY <1>1 DEF FileLeft, ChunkLeft, BlocksLeft, stage2Vars
<1>3. FilesLeft' = FilesLeft
  BY <1>1, <1>2, Zenon DEF FilesLeft
<1> QED
  BY <1>2, <1>3

LEMMA ClustersSame ==
  ASSUME UNCHANGED <<volume, stage2>>
  PROVE  ClustersLeft' = ClustersLeft
<1>1. \A n \in Files : ClustersOf(n)' = ClustersOf(n)
  BY DEF ClustersOf, LastOf
<1>2. ClustersOf("stage2")' = ClustersOf("stage2")
  BY <1>1, Zenon DEF Files
<1> QED
  BY <1>2, Zenon DEF ClustersLeft

LEMMA Stage1Same ==
  ASSUME UNCHANGED <<volume, stage1Vars>>
  PROVE  Stage1Left' = Stage1Left
<1>1. ClustersLeft' = ClustersLeft /\ step' = step
  BY ClustersSame DEF stage1Vars
<1> QED
  BY <1>1, Zenon DEF Stage1Left

(* A read that begins, and a step of stage 1 alone. *)
LEMMA AskNearer ==
  ASSUME asked = NoSector, NEW lba \in Int, lba # NoSector, Ask(lba), UNCHANGED <<stage1Vars, stage2Vars>>
  PROVE  Nearer
<1>1. Stage1Left' = Stage1Left /\ Stage2Left' = Stage2Left
  BY Stage1Same, Stage2Same DEF Ask, Stage2Left
<1>2. AttemptsLeft = 4 /\ AttemptsLeft' = 3
  BY DEF AttemptsLeft, Ask
<1> QED
  BY <1>1, <1>2 DEF Nearer

LEMMA Stage1Nearer ==
  ASSUME LeftShape, LeftShape', UNCHANGED <<volume, stage2Vars>>, Stage1Left' < Stage1Left
  PROVE  Nearer
<1>1. FilesLeft' = FilesLeft /\ BlocksLeft' = BlocksLeft
  BY Stage2Same
<1>2. Stage1Left \in Nat /\ FilesLeft \in Nat /\ BlocksLeft \in Nat /\ Stage1Left' \in Nat
  BY DEF LeftShape
<1>3. Stage2Left' = Stage2Left
  BY <1>1, Zenon DEF Stage2Left
<1>4. Stage2Left \in Nat
  BY <1>2 DEF Stage2Left
<1>5. Stage1Left' + Stage2Left < Stage1Left + Stage2Left
  BY <1>2, <1>4, Sums, Zenon
<1> QED
  BY <1>3, <1>5, Zenon DEF Nearer

LEMMA Sectors ==
  /\ NoSector \in Int /\ RootLba \in Int /\ RootLba # NoSector
  /\ 0 \in Int /\ 0 # NoSector /\ 1 \in Int /\ 1 # NoSector
  BY Constants DEF NoSector

LEMMA ReadRootNearer ==
  ASSUME Inv, LeftShape, LeftShape', ReadRoot, UNCHANGED stage2Vars
  PROVE  Nearer
<1>1. CASE asked = NoSector
  BY <1>1, Sectors, AskNearer DEF ReadRoot
<1>2. CASE asked # NoSector
  <2>1. UNCHANGED <<volume, stage2>> /\ (step' = "read fat" \/ step' = "not found") /\ step = "read root"
    BY <1>2, Zenon DEF ReadRoot, AskNothing, Ask
  <2>2. ClustersLeft \in Nat /\ ClustersLeft' = ClustersLeft
    BY <2>1, ClustersSame, Zenon DEF LeftShape
  <2>3. Stage1Left = ClustersLeft + 2 /\ (Stage1Left' = ClustersLeft + 1 \/ Stage1Left' = 0)
    BY <2>1, <2>2, PlacesAre, PlacesAreNext, Zenon DEF Stage1Places
  <2>4. Stage1Left' < Stage1Left
    BY <2>2, <2>3
  <2> QED
    BY <2>1, <2>4, Stage1Nearer
<1> QED
  BY <1>1, <1>2

LEMMA ReadFatNearer ==
  ASSUME Inv, LeftShape, LeftShape', ReadFat, UNCHANGED stage2Vars
  PROVE  Nearer
<1>1. CASE asked = NoSector
  <2>1. Ask(1) /\ UNCHANGED stage1Vars
    BY <1>1 DEF ReadFat, stage1Vars
  <2> QED
    BY <1>1, <2>1, Sectors, AskNearer
<1>2. CASE asked # NoSector
  <2>1. UNCHANGED <<volume, stage2>> /\ step' = "load" /\ step = "read fat"
    BY <1>2, Zenon DEF ReadFat, AskNothing, Ask
  <2>2. ClustersLeft \in Nat /\ ClustersLeft' = ClustersLeft
    BY <2>1, ClustersSame, Zenon DEF LeftShape
  <2>3. Stage1Left = ClustersLeft + 1 /\ Stage1Left' = ClustersLeft
    BY <2>1, <2>2, PlacesAre, PlacesAreNext, Zenon DEF Stage1Places
  <2>4. Stage1Left' < Stage1Left
    BY <2>2, <2>3
  <2> QED
    BY <2>1, <2>4, Stage1Nearer
<1> QED
  BY <1>1, <1>2

LEMMA LoadClusterNearer ==
  ASSUME Inv, LeftShape, LeftShape', LoadCluster, UNCHANGED stage2Vars
  PROVE  Nearer
<1>1. DiskShape /\ Stage1Inv
  BY DEF Inv, Shape
<1>2. CASE asked = NoSector
  <2>1. cluster \in Nat /\ cluster >= 2
    BY <1>1, Stage1File DEF LoadCluster
  <2>2. cluster + DataLba - 2 \in Int /\ cluster + DataLba - 2 # NoSector
    BY <2>1, Constants DEF DataLba, NoSector
  <2> QED
    BY <1>2, <2>2, AskNearer DEF LoadCluster
<1>3. CASE asked # NoSector
  <2>1. UNCHANGED volume /\ step = "load" /\ (step' = "load" \/ step' = "jump")
        /\ \E piece : stage2' = Append(stage2, piece)
    BY <1>3, Zenon DEF LoadCluster, AskNothing, Ask
  <2>2. Len(stage2) \in Nat /\ Len(stage2') = Len(stage2) + 1
    <3>1. stage2 \in Seq(Int) /\ stage2' = Append(stage2, Delivered(Drive))
      BY <1>1, <1>3 DEF Stage1Inv, LoadCluster
    <3>2. Delivered(Drive) \in Int
      BY <1>1, DeliveredInt DEF DiskShape
    <3> QED
      BY <3>1, <3>2, LenProperties, AppendProperties
  <2>3. ClustersLeft \in Nat /\ ClustersLeft > 0
    BY <2>1, Zenon DEF LeftShape
  <2>4. ClustersLeft' = ClustersLeft - 1
    <3>1. PICK boot \in Files : boot = "stage2"
      BY DEF Files
    <3>2. ClustersOf(boot)' = ClustersOf(boot)
      BY <2>1 DEF ClustersOf, LastOf
    <3>3. ClustersLeft = ClustersOf(boot) - Len(stage2) /\ ClustersLeft' = ClustersOf(boot) - Len(stage2')
      BY <3>1, <3>2, Zenon DEF ClustersLeft
    <3>4. ClustersOf(boot) \in Int
      <4>1. boot \in ToSet(volume.root) => LastOf(volume, boot) \in Nat
        BY <1>1, FileFacts DEF DiskShape
      <4> QED
        BY <4>1 DEF ClustersOf
    <3> QED
      BY <2>2, <3>3, <3>4
  <2>5. Stage1Left = ClustersLeft /\ (Stage1Left' = ClustersLeft' \/ Stage1Left' = 0)
    BY <2>1, PlacesAre, PlacesAreNext, Zenon DEF Stage1Places
  <2>6. Stage1Left' < Stage1Left
    BY <2>3, <2>4, <2>5
  <2> QED
    BY <2>1, <2>6, Stage1Nearer
<1> QED
  BY <1>2, <1>3

LEMMA Stage1GivesUpNearer ==
  ASSUME Inv, LeftShape, LeftShape', Stage1GivesUp, UNCHANGED stage2Vars
  PROVE  Nearer
<1>1. UNCHANGED volume /\ step' = "floppy error"
      /\ (step = "read root" \/ step = "read fat" \/ step = "load")
  BY Zenon DEF Stage1GivesUp, AskNothing, Ask
<1>2. ClustersLeft \in Nat /\ (step = "load" => ClustersLeft > 0)
  BY <1>1, Zenon DEF LeftShape
<1>3. Stage1Left' = 0 /\ \/ Stage1Left = ClustersLeft + 2 \/ Stage1Left = ClustersLeft + 1
                         \/ Stage1Left = ClustersLeft /\ ClustersLeft > 0
  BY <1>1, <1>2, PlacesAre, PlacesAreNext, Zenon DEF Stage1Places
<1>4. Stage1Left' < Stage1Left
  BY <1>2, <1>3
<1> QED
  BY <1>1, <1>4, Stage1Nearer

LEMMA ReadFailsNearer ==
  ASSUME Inv, NEW g, ReadFails(g), UNCHANGED <<stage1Vars, stage2Vars>>
  PROVE  Nearer
<1>1. Stage1Left' = Stage1Left /\ Stage2Left' = Stage2Left
  BY Stage1Same, Stage2Same DEF ReadFails, Stage2Left
<1>2. tries \in 0 .. 3 /\ tries' = tries + 1 /\ asked # NoSector /\ asked' = asked
  BY DEF Inv, Shape, DiskShape, ReadFails
<1>3. AttemptsLeft' < AttemptsLeft
  BY <1>2 DEF AttemptsLeft
<1> QED
  BY <1>1, <1>3 DEF Nearer

(* Stage 2: at each place what FilesLeft is. *)
LEMMA FilesNearer ==
  ASSUME LeftShape, LeftShape', UNCHANGED <<volume, stage1Vars, memory>>, FilesLeft' < FilesLeft
  PROVE  Nearer
<1>1. Stage1Left' = Stage1Left /\ BlocksLeft' = BlocksLeft
  BY Stage1Same DEF BlocksLeft
<1>2. Stage1Left \in Nat /\ FilesLeft \in Nat /\ BlocksLeft \in Nat /\ FilesLeft' \in Nat
  BY DEF LeftShape
<1>3. FilesLeft' + BlocksLeft < FilesLeft + BlocksLeft
  BY <1>2, Sums, Zenon
<1>4. Stage2Left \in Nat /\ Stage2Left = FilesLeft + BlocksLeft
  BY <1>2 DEF Stage2Left
<1>5. Stage2Left' = FilesLeft' + BlocksLeft
  BY <1>1, Zenon DEF Stage2Left
<1> DEFINE x == Stage1Left
           y == Stage2Left
           z == Stage2Left'
           f == FilesLeft'
<1>6. f \in Nat /\ z = f + BlocksLeft /\ f + BlocksLeft < FilesLeft + BlocksLeft
  BY <1>2, <1>3, <1>5
<1> HIDE DEF f, z
<1>7. x + z < x + y
  BY <1>2, <1>4, <1>6
<1> HIDE DEF x, y
<1>8. Stage1Left' + Stage2Left' < Stage1Left + Stage2Left
  BY <1>1, <1>7, Zenon DEF x, y, z
<1> QED
  BY <1>8 DEF Nearer

LEMMA Numbers ==
  ASSUME LeftShape
  PROVE  /\ SizeOf(name) \in Nat /\ Behind(name) \in Nat /\ Behind(name) >= 1
         /\ SearchLeft \in Nat /\ SearchLeft >= 5 * SizeOf(name) + Behind(name)
         /\ ChunkLeft \in {0, 3}
  BY DEF LeftShape

LEMMA FileSame ==
  ASSUME UNCHANGED <<volume, name, handle>>,
         open'[handle].size = open[handle].size, open'[handle].pos = open[handle].pos
  PROVE  FileLeft' = FileLeft
  BY SearchSame DEF FileLeft

LEMMA DiskInitializeNearer ==
  ASSUME LeftShape, LeftShape', DiskInitialize, UNCHANGED stage1Vars
  PROVE  Nearer
<1>1. UNCHANGED <<volume, name, root, memory>> /\ at = "drive" /\ (at' = "halt" \/ at' = "boot sector")
  BY Zenon DEF DiskInitialize, diskVars
<1>2. SearchLeft' = SearchLeft
  BY <1>1, SearchSame
<1>3. FilesLeft = SearchLeft + 13 /\ (FilesLeft' = 0 \/ FilesLeft' = SearchLeft + 12)
  BY <1>1, <1>2, PlacesAre, PlacesAreNext, Zenon DEF FilesPlaces, Outside
<1>4. FilesLeft' < FilesLeft
  BY <1>3, Numbers
<1> QED
  BY <1>1, <1>4, FilesNearer

LEMMA FatInitializeNearer ==
  ASSUME Inv, LeftShape, LeftShape', FatInitialize, UNCHANGED stage1Vars
  PROVE  Nearer
<1>1. CASE asked = NoSector
  <2>1. UNCHANGED stage2Vars /\ (Ask(0) \/ Ask(1) \/ Ask(RootLba))
    BY <1>1, Zenon DEF FatInitialize, stage2Vars
  <2> QED
    BY <1>1, <2>1, Sectors, AskNearer
<1>2. CASE asked # NoSector
  <2>1. /\ UNCHANGED <<volume, name, memory>>
        /\ \/ at = "boot sector" /\ at' = "fat" /\ root' = root
           \/ at = "fat" /\ at' = "root" /\ root' = root
           \/ at = "root" /\ at' = "find" /\ root' = [root EXCEPT !.buf = Delivered(geometry)]
    BY <1>2, Zenon DEF FatInitialize, AskNothing, Ask
  <2>2. root'.pos = root.pos
    <3>1. root \in [buf : Int, pos : 0 .. (RootSectors * Sector), cluster : Nat]
      BY DEF Inv, Shape, DataShape
    <3>2. root' = root \/ root' = [root EXCEPT !.buf = Delivered(geometry)]
      BY <2>1, Zenon
    <3> QED
      BY <3>1, <3>2
  <2>3. SearchLeft' = SearchLeft
    BY <2>1, <2>2, SearchSame
  <2>4. \/ FilesLeft = SearchLeft + 12 /\ FilesLeft' = SearchLeft + 11
        \/ FilesLeft = SearchLeft + 11 /\ FilesLeft' = SearchLeft + 10
        \/ FilesLeft = SearchLeft + 10 /\ FilesLeft' = SearchLeft + 7
    BY <2>1, <2>3, PlacesAre, PlacesAreNext, Zenon DEF FilesPlaces
  <2>5. FilesLeft' < FilesLeft
    BY <2>4, Numbers
  <2> QED
    BY <2>1, <2>5, FilesNearer
<1> QED
  BY <1>1, <1>2

LEMMA InitializeFailsNearer ==
  ASSUME LeftShape, LeftShape', InitializeFails, UNCHANGED stage1Vars
  PROVE  Nearer
<1>1. UNCHANGED <<volume, memory>> /\ at' = "halt" /\ (at = "boot sector" \/ at = "fat" \/ at = "root")
  BY Zenon DEF InitializeFails, AskNothing, Ask
<1>2. FilesLeft' = 0 /\ (FilesLeft = SearchLeft + 12 \/ FilesLeft = SearchLeft + 11 \/ FilesLeft = SearchLeft + 10)
  BY <1>1, PlacesAre, PlacesAreNext, Zenon DEF FilesPlaces, Outside
<1>3. FilesLeft' < FilesLeft
  BY <1>2, Numbers
<1> QED
  BY <1>1, <1>3, FilesNearer

LEMMA ReadEntryNearer ==
  ASSUME Inv, LeftShape, LeftShape', ReadEntry, UNCHANGED stage1Vars
  PROVE  Nearer
<1>1. /\ UNCHANGED <<volume, name, memory>> /\ at = "find" /\ (at' = "next root sector" \/ at' = "compare")
      /\ root'.pos = root.pos + 1
  <2>1. root \in [buf : Int, pos : 0 .. (RootSectors * Sector), cluster : Nat]
    BY DEF Inv, Shape, DataShape
  <2>2. \/ root' = [root EXCEPT !.pos = @ + 1, !.cluster = @ + 1]
        \/ root' = [root EXCEPT !.pos = @ + 1]
    BY DEF ReadEntry
  <2>3. root'.pos = root.pos + 1
    BY <2>1, <2>2
  <2> QED
    BY <2>3, Zenon DEF ReadEntry, AskNothing, Ask
<1>2. SearchLeft' = SearchLeft - 3
  <2> DEFINE all == RootSectors * Sector
             b == Behind(name)
             s == SizeOf(name)
             p == root'.pos
  <2>1. b \in Nat /\ s \in Nat
    BY DEF LeftShape
  <2>2. root.pos \in 0 .. all
    BY DEF Inv, Shape, DataShape
  <2>3. SearchLeft = 3 * (all - root.pos) + 5 * s + b
    BY DEF SearchLeft
  <2>4. SearchLeft' = 3 * (all - p) + 5 * s + b
    BY <1>1, SearchSame DEF SearchLeft
  <2>5. all \in Nat /\ p = root.pos + 1
    BY <1>1, Constants
  <2> HIDE DEF all, b, s, p
  <2> QED
    BY <2>1, <2>2, <2>3, <2>4, <2>5
<1>3. FilesLeft = SearchLeft + 7 /\ (FilesLeft' = SearchLeft - 3 + 9 \/ FilesLeft' = SearchLeft - 3 + 8)
  BY <1>1, <1>2, PlacesAre, PlacesAreNext, Zenon DEF FilesPlaces
<1>4. FilesLeft' < FilesLeft
  BY <1>3, Numbers
<1> QED
  BY <1>1, <1>4, FilesNearer

LEMMA NextRootSectorNearer ==
  ASSUME Inv, LeftShape, LeftShape', NextRootSector, UNCHANGED stage1Vars
  PROVE  Nearer
<1>1. UNCHANGED <<volume, name, memory>> /\ at = "next root sector" /\ at' = "compare"
  BY Zenon DEF NextRootSector, AskNothing, Ask
<1>2. root'.pos = root.pos
  BY DEF Inv, Shape, DataShape, NextRootSector
<1>3. SearchLeft' = SearchLeft
  BY <1>1, <1>2, SearchSame
<1>4. FilesLeft = SearchLeft + 9 /\ FilesLeft' = SearchLeft + 8
  BY <1>1, <1>3, PlacesAre, PlacesAreNext, Zenon DEF FilesPlaces
<1>5. FilesLeft' < FilesLeft
  BY <1>4, Numbers
<1> QED
  BY <1>1, <1>5, FilesNearer

LEMMA CompareNearer ==
  ASSUME Inv, LeftShape, LeftShape', Compare, UNCHANGED stage1Vars
  PROVE  Nearer
<1>1. UNCHANGED <<volume, name, memory>> /\ at = "compare"
  BY Zenon DEF Compare, AskNothing, Ask
<1>2. FilesLeft = SearchLeft + 8
  BY <1>1, PlacesAre, Zenon DEF FilesPlaces
<1>3. CASE entry # name
  <2>1. at' = "find" /\ root' = root
    BY <1>3, Zenon DEF Compare
  <2>2. SearchLeft' = SearchLeft
    BY <1>1, <2>1, SearchSame
  <2>3. FilesLeft' = SearchLeft + 7
    BY <2>1, <2>2, PlacesAreNext, Zenon DEF FilesPlaces
  <2>4. FilesLeft' < FilesLeft
    BY <1>2, <2>3, Numbers
  <2> QED
    BY <1>1, <2>4, FilesNearer
<1>4. CASE entry = name
  <2>1. /\ at' = "open" /\ handle' \in Handles
        /\ open' = [open EXCEPT ![handle'] = [open[handle'] EXCEPT !.pos = 0, !.size = volume.size[name],
                                                                   !.cluster = volume.first[name]]]
        /\ name \in ToSet(volume.root)
    BY <1>4, CompareOpens
  <2>2. open'[handle'].pos = 0 /\ open'[handle'].size = volume.size[name]
    <3>1. open[handle'] \in HandleType /\ open \in [Handles -> HandleType]
      BY <2>1 DEF Inv, Shape, DataShape
    <3> QED
      BY <2>1, <3>1 DEF HandleType
  <2>3. volume.size[name] = SizeOf(name) /\ SizeOf(name) \in Nat
    BY <2>1 DEF SizeOf, LeftShape
  <2>4. FileLeft' = 5 * SizeOf(name) + Behind(name)
    <3>1. FileLeft' = 5 * (open'[handle'].size - open'[handle'].pos) + Behind(name)
      BY <1>1, SearchSame DEF FileLeft
    <3>2. open'[handle'].size - open'[handle'].pos = SizeOf(name)
      BY <2>2, <2>3
    <3> QED
      BY <3>1, <3>2, Zenon
  <2>5. FilesLeft' = FileLeft' + 6
    BY <2>1, PlacesAreNext, Zenon DEF FilesPlaces
  <2>6. FilesLeft' = 5 * SizeOf(name) + Behind(name) + 6
    BY <2>4, <2>5, Zenon
  <2>7. FilesLeft' < FilesLeft
    BY <1>2, <2>6, Numbers
  <2> QED
    BY <1>1, <2>7, FilesNearer
<1> QED
  BY <1>3, <1>4

LEMMA NotFoundNearer ==
  ASSUME LeftShape, LeftShape', NotFound, UNCHANGED stage1Vars
  PROVE  Nearer
<1>1. UNCHANGED <<volume, memory>> /\ at = "find" /\ at' = "no file"
  BY Zenon DEF NotFound, diskVars
<1>2. FilesLeft = SearchLeft + 7 /\ FilesLeft' = 1
  BY <1>1, PlacesAre, PlacesAreNext, Zenon DEF FilesPlaces
<1>3. FilesLeft' < FilesLeft
  BY <1>2, Numbers
<1> QED
  BY <1>1, <1>3, FilesNearer

LEMMA FileNumbers ==
  ASSUME LeftShape, at \in {"open"} \union Holding
  PROVE  FileLeft \in Nat /\ FileLeft >= Behind(name) /\ Behind(name) \in Nat /\ Behind(name) >= 1
  BY Zenon DEF LeftShape

LEMMA OpenEntryNearer ==
  ASSUME Inv, LeftShape, LeftShape', OpenEntry, UNCHANGED stage1Vars
  PROVE  Nearer
<1>1. /\ UNCHANGED <<volume, name, handle, memory>> /\ at = "open"
      /\ \/ at' = "no file"
         \/ /\ at' = "memory" \/ at' = "call"
            /\ open' = [open EXCEPT ![handle].opened = TRUE, ![handle].buf = Delivered(geometry)]
  BY Zenon DEF OpenEntry, AskNothing, Ask
<1>2. at \in {"open"} \union Holding
  BY <1>1
<1>3. FilesLeft = FileLeft + 6
  BY <1>1, PlacesAre, Zenon DEF FilesPlaces
<1>4. CASE at' = "no file"
  <2>1. FilesLeft' = 1
    BY <1>4, PlacesAreNext, Zenon DEF FilesPlaces
  <2>2. FilesLeft' < FilesLeft
    BY <1>2, <1>3, <2>1, FileNumbers
  <2> QED
    BY <1>1, <2>2, FilesNearer
<1>5. CASE /\ at' = "memory" \/ at' = "call"
           /\ open' = [open EXCEPT ![handle].opened = TRUE, ![handle].buf = Delivered(geometry)]
  <2>1. handle \in Handles /\ open \in [Handles -> HandleType]
    BY <1>2, HandleFacts DEF Inv, Shape, DataShape
  <2>2. open'[handle].size = open[handle].size /\ open'[handle].pos = open[handle].pos
    BY <1>5, <2>1 DEF HandleType
  <2>3. FileLeft' = FileLeft
    BY <1>1, <2>2, FileSame
  <2>4. FilesLeft' = FileLeft + 4 \/ FilesLeft' = FileLeft + 3
    BY <1>5, <2>3, PlacesAreNext, Zenon DEF FilesPlaces
  <2>5. FilesLeft' < FilesLeft
    BY <1>2, <1>3, <2>4, FileNumbers
  <2> QED
    BY <1>1, <2>5, FilesNearer
<1> QED
  BY <1>1, <1>4, <1>5

LEMMA DetectMemoryNearer ==
  ASSUME Inv, LeftShape, LeftShape', DetectMemory, UNCHANGED stage1Vars
  PROVE  Nearer
<1>1. UNCHANGED <<volume, name, handle, open, root, chunk>> /\ at = "memory"
  BY Zenon DEF DetectMemory, diskVars
<1>2. at \in {"open"} \union Holding
  BY <1>1, Zenon DEF Holding
<1>3. FileLeft' = FileLeft
  BY <1>1, FileSame
<1>4. CASE GoesOn(memory.bios, memory.block)
  <2>1. at' = at /\ memory' = [memory EXCEPT !.block = @ + 1, !.regions = Append(@, memory.bios.blocks[memory.block])]
    BY <1>1, <1>4 DEF DetectMemory
  <2>2. memory \in [bios : BiosMaps, block : Nat \ {0}, regions : {Prefix(memory.bios.blocks, memory.block - 1)}]
    BY DEF Inv, MemoryInv
  <2>3. memory'.bios = memory.bios /\ memory'.block = memory.block + 1
    BY <2>1, <2>2
  <2>4. Len(memory.bios.blocks) \in Nat
    <3>1. memory.bios.blocks \in Seq(ToSet(memory.bios.blocks))
      BY <2>2, Stage2Assumption
    <3> QED
      BY <3>1, LenProperties
  <2>5. BlocksLeft' = BlocksLeft - 1
    <3> DEFINE m == memory'.block
    <3>1. BlocksLeft' = Len(memory.bios.blocks) + 1 - m /\ m = memory.block + 1
      BY <2>3 DEF BlocksLeft
    <3> HIDE DEF m
    <3> QED
      BY <2>2, <2>4, <3>1 DEF BlocksLeft
  <2>6. FilesLeft = FileLeft + 4 /\ FilesLeft' = FileLeft + 4
    BY <1>1, <1>3, <2>1, PlacesAre, PlacesAreNext, Zenon DEF FilesPlaces
  <2>7. Stage1Left' = Stage1Left
    BY <1>1, Stage1Same
  <2>8. Stage1Left \in Nat /\ FilesLeft \in Nat /\ BlocksLeft \in Nat
    BY DEF LeftShape
  <2>9. Stage2Left = FilesLeft + BlocksLeft
    BY DEF Stage2Left
  <2>10. Stage2Left' = FilesLeft + (BlocksLeft - 1)
    BY <2>5, <2>6, Zenon DEF Stage2Left
  <2>11. Stage2Left' < Stage2Left
    BY <2>8, <2>9, <2>10
  <2>12. Stage2Left' \in Nat /\ Stage2Left \in Nat
    <3>1. BlocksLeft - 1 \in Nat
      BY <2>5 DEF LeftShape
    <3> QED
      BY <2>8, <2>9, <2>10, <3>1
  <2> DEFINE x == Stage1Left
             y == Stage2Left
             z == Stage2Left'
  <2>13. x \in Nat /\ y \in Nat /\ z \in Nat /\ z < y
    BY <2>8, <2>11, <2>12
  <2> HIDE DEF x, y, z
  <2>14. x + z < x + y
    BY <2>13
  <2>15. Stage1Left' + Stage2Left' < Stage1Left + Stage2Left
    BY <2>7, <2>14, Zenon DEF x, y, z
  <2> QED
    BY <2>15 DEF Nearer
<1>5. CASE ~GoesOn(memory.bios, memory.block)
  <2>1. at' = "call" /\ memory' = memory
    BY <1>5 DEF DetectMemory
  <2>2. FilesLeft = FileLeft + 4 /\ FilesLeft' = FileLeft + 3
    BY <1>1, <1>3, <2>1, PlacesAre, PlacesAreNext, Zenon DEF FilesPlaces
  <2>3. FilesLeft' < FilesLeft
    BY <1>2, <2>2, FileNumbers
  <2> QED
    BY <1>1, <2>1, <2>3, FilesNearer
<1> QED
  BY <1>4, <1>5

LEMMA CallReadNearer ==
  ASSUME Inv, LeftShape, LeftShape', CallRead, UNCHANGED stage1Vars
  PROVE  Nearer
<1>1. UNCHANGED <<volume, name, handle, open, memory>> /\ at = "call" /\ at' = "read" /\ chunk' = <<>>
  BY Zenon DEF CallRead, diskVars
<1>2. at \in {"open"} \union Holding
  BY <1>1, Zenon DEF Holding
<1>3. FileLeft' = FileLeft /\ ChunkLeft' = 0
  BY <1>1, FileSame DEF ChunkLeft
<1>4. FilesLeft = FileLeft + 3 /\ FilesLeft' = FileLeft + 2 + 0
  BY <1>1, <1>3, PlacesAre, PlacesAreNext, Zenon DEF FilesPlaces
<1>5. FilesLeft' < FilesLeft
  BY <1>2, <1>4, FileNumbers
<1> QED
  BY <1>1, <1>5, FilesNearer

LEMMA ReadBufferNearer ==
  ASSUME Inv, LeftShape, LeftShape', ReadBuffer, UNCHANGED stage1Vars
  PROVE  Nearer
<1>1. UNCHANGED <<volume, name, handle, memory>> /\ at = "read" /\ left > 0
  BY Zenon DEF ReadBuffer, AskNothing, Ask
<1>2. at \in {"open"} \union Holding
  BY <1>1, Zenon DEF Holding, Reading
<1>3. /\ handle \in Handles /\ open[handle] \in HandleType /\ open \in [Handles -> HandleType]
      /\ open[handle].pos \in Nat /\ open[handle].size \in Nat
  BY <1>2, HandleFacts DEF Inv, Shape, DataShape
<1>4. left \in Nat /\ open[handle].pos + left <= open[handle].size
  BY <1>1 DEF Inv, Shape, DataShape, HandleInv
<1>5. PICK n \in Nat : n = Smaller(left, Sector - (open[handle].pos % Sector)) /\ n >= 1 /\ n <= left
  <2> DEFINE o == open[handle].pos % Sector
  <2>1. o \in 0 .. (Sector - 1) /\ Sector \in Nat \ {0}
    BY <1>3, Constants, DivMod
  <2> HIDE DEF o
  <2>2. Smaller(left, Sector - o) \in Nat /\ Smaller(left, Sector - o) >= 1 /\ Smaller(left, Sector - o) <= left
    BY <1>1, <1>4, <2>1 DEF Smaller
  <2> QED
    BY <2>2 DEF o
<1> DEFINE p == open[handle].pos
           z == open[handle].size
           q == open'[handle].pos
           y == open'[handle].size
           b == Behind(name)
           c == ChunkLeft
           d == ChunkLeft'
           f == FilesLeft
           g == FilesLeft'
<1>6. \E next :
        \/ at' = "read" /\ open' = [open EXCEPT ![handle].pos = @ + n]
        \/ /\ at' = "copy"
           /\ open' = [open EXCEPT ![handle].pos = @ + n, ![handle].cluster = next, ![handle].size = p + n]
        \/ /\ at' = "next sector"
           /\ open' = [open EXCEPT ![handle].pos = @ + n, ![handle].cluster = next]
  BY <1>1, <1>5, Zenon DEF ReadBuffer
<1>7. /\ q = p + n
      /\ \/ at' = "read" /\ y = z
         \/ at' = "copy" /\ y = p + n
         \/ at' = "next sector" /\ y = z
  <2>1. PICK next :
          \/ at' = "read" /\ open' = [open EXCEPT ![handle].pos = @ + n]
          \/ /\ at' = "copy"
             /\ open' = [open EXCEPT ![handle].pos = @ + n, ![handle].cluster = next, ![handle].size = p + n]
          \/ /\ at' = "next sector"
             /\ open' = [open EXCEPT ![handle].pos = @ + n, ![handle].cluster = next]
    BY <1>6
  <2>2. ASSUME open' = [open EXCEPT ![handle].pos = @ + n] PROVE q = p + n /\ y = z
    BY <1>3, <2>2 DEF HandleType
  <2>3. ASSUME open' = [open EXCEPT ![handle].pos = @ + n, ![handle].cluster = next, ![handle].size = p + n]
        PROVE  q = p + n /\ y = p + n
    BY <1>3, <2>3 DEF HandleType
  <2>4. ASSUME open' = [open EXCEPT ![handle].pos = @ + n, ![handle].cluster = next]
        PROVE  q = p + n /\ y = z
    BY <1>3, <2>4 DEF HandleType
  <2> HIDE DEF q, y, z
  <2> QED
    BY <2>1, <2>2, <2>3, <2>4, Zenon
<1>8. f = 5 * (z - p) + b + 2 + c
  BY <1>1, PlacesAre, Zenon DEF FilesPlaces, FileLeft
<1>9. FileLeft' = 5 * (y - q) + b
  BY <1>1, SearchSame, Zenon DEF FileLeft
<1>10. /\ at' = "read" => g = 5 * (y - q) + b + 2 + d
       /\ at' = "copy" => g = 5 * (y - q) + b + 1 + d
       /\ at' = "next sector" => g = 5 * (y - q) + b + 6
  BY <1>9, PlacesAreNext, Zenon DEF FilesPlaces
<1>11. b \in Nat /\ c \in {0, 3} /\ d \in {0, 3}
  BY DEF LeftShape
<1>12. p \in Nat /\ z \in Nat /\ n \in Nat /\ n >= 1 /\ p + n <= z
  BY <1>3, <1>4, <1>5
<1> HIDE DEF p, z, q, y, b, c, d, f, g
<1>13. /\ q = p + n
       /\ \/ y = z /\ g = 5 * (y - q) + b + 2 + d
          \/ y = p + n /\ g = 5 * (y - q) + b + 1 + d
          \/ y = z /\ g = 5 * (y - q) + b + 6
  BY <1>7, <1>10, Zenon
<1>14. g < f
  BY <1>8, <1>11, <1>12, <1>13
<1>15. FilesLeft' < FilesLeft
  BY <1>14 DEF f, g
<1> QED
  BY <1>1, <1>15, FilesNearer

LEMMA NextSectorNearer ==
  ASSUME Inv, LeftShape, LeftShape', NextSector, UNCHANGED stage1Vars
  PROVE  Nearer
<1>1. /\ UNCHANGED <<volume, name, handle, chunk, memory>> /\ at = "next sector" /\ (at' = "read" \/ at' = "copy")
      /\ open' = open \/ open' = [open EXCEPT ![handle].buf = Delivered(geometry)]
  BY Zenon DEF NextSector, AskNothing, Ask
<1>2. at \in {"open"} \union Holding
  BY <1>1, Zenon DEF Holding, Reading
<1>3. handle \in Handles /\ open \in [Handles -> HandleType]
  BY <1>2, HandleFacts DEF Inv, Shape, DataShape
<1>4. open'[handle].size = open[handle].size /\ open'[handle].pos = open[handle].pos
  <2>1. open' = open \/ open' = [open EXCEPT ![handle].buf = Delivered(geometry)]
    BY <1>1, Zenon
  <2> QED
    BY <1>3, <2>1 DEF HandleType
<1>5. FileLeft' = FileLeft /\ ChunkLeft' = ChunkLeft
  BY <1>1, <1>4, FileSame DEF ChunkLeft
<1>6. FilesLeft = FileLeft + 6 /\ (FilesLeft' = FileLeft + 2 + ChunkLeft \/ FilesLeft' = FileLeft + 1 + ChunkLeft)
  BY <1>1, <1>5, PlacesAre, PlacesAreNext, Zenon DEF FilesPlaces
<1>7. FilesLeft' < FilesLeft
  BY <1>2, <1>6, FileNumbers, Numbers
<1> QED
  BY <1>1, <1>7, FilesNearer

LEMMA ReturnedNearer ==
  ASSUME Inv, LeftShape, LeftShape', Returned, UNCHANGED stage1Vars
  PROVE  Nearer
<1>1. UNCHANGED <<volume, name, handle, open, chunk, memory>> /\ at = "read" /\ at' = "copy"
  BY Zenon DEF Returned, diskVars
<1>2. at \in {"open"} \union Holding
  BY <1>1, Zenon DEF Holding, Reading
<1>3. FileLeft' = FileLeft /\ ChunkLeft' = ChunkLeft
  BY <1>1, FileSame DEF ChunkLeft
<1>4. FilesLeft = FileLeft + 2 + ChunkLeft /\ FilesLeft' = FileLeft + 1 + ChunkLeft
  BY <1>1, <1>3, PlacesAre, PlacesAreNext, Zenon DEF FilesPlaces
<1>5. FilesLeft' < FilesLeft
  BY <1>2, <1>4, FileNumbers, Numbers
<1> QED
  BY <1>1, <1>5, FilesNearer

LEMMA CopyNearer ==
  ASSUME Inv, LeftShape, LeftShape', Copy, UNCHANGED stage1Vars
  PROVE  Nearer
<1>1. UNCHANGED <<volume, name, handle, open, memory>> /\ at = "copy" /\ at' = "call" /\ chunk # <<>>
  BY Zenon DEF Copy, diskVars
<1>2. at \in {"open"} \union Holding
  BY <1>1, Zenon DEF Holding, Reading
<1>3. FileLeft' = FileLeft /\ ChunkLeft = 3
  BY <1>1, FileSame DEF ChunkLeft
<1>4. FilesLeft = FileLeft + 1 + 3 /\ FilesLeft' = FileLeft + 3
  BY <1>1, <1>3, PlacesAre, PlacesAreNext, Zenon DEF FilesPlaces
<1>5. FilesLeft' < FilesLeft
  BY <1>2, <1>4, FileNumbers
<1> QED
  BY <1>1, <1>5, FilesNearer

(* The search for the module is paid for by what lies behind the kernel. *)
LEMMA CloseNearer ==
  ASSUME Inv, LeftShape, LeftShape', Close, UNCHANGED stage1Vars
  PROVE  Nearer
<1>1. /\ UNCHANGED <<volume, root, memory>> /\ at = "copy" /\ chunk = <<>>
      /\ \/ name = "kernel" /\ name' = "userland" /\ at' = "find"
         \/ at' = "start kernel"
  BY Zenon DEF Close, diskVars
<1>2. at \in {"open"} \union Holding
  BY <1>1, Zenon DEF Holding, Reading
<1>3. FilesLeft = FileLeft + 1 + 0
  <2>1. ChunkLeft = 0
    BY <1>1 DEF ChunkLeft
  <2> QED
    BY <1>1, <2>1, PlacesAre, Zenon DEF FilesPlaces
<1>4. CASE at' = "start kernel"
  <2>1. FilesLeft' = 0
    BY <1>4, PlacesAreNext, Zenon DEF FilesPlaces, Outside
  <2>2. FilesLeft' < FilesLeft
    BY <1>2, <1>3, <2>1, FileNumbers
  <2> QED
    BY <1>1, <2>2, FilesNearer
<1>5. CASE name = "kernel" /\ name' = "userland" /\ at' = "find"
  <2> DEFINE all == RootSectors * Sector
             u == SizeOf("userland")
             f == FilesLeft
             g == FilesLeft'
             b == Behind(name)
  <2>1. all \in Nat /\ u \in Nat /\ root.pos \in 0 .. all
    BY Constants DEF LeftShape, Inv, Shape, DataShape
  <2>2. b = 3 * all + 5 * u + 8
    BY <1>5 DEF Behind
  <2>3. SearchLeft' = 3 * (all - root.pos) + 5 * u + 1
    <3>1. SizeOf("userland")' = u
      BY <1>1 DEF SizeOf
    <3>2. Behind(name)' = 1 /\ SizeOf(name)' = u
      BY <1>1, <1>5 DEF Behind, SizeOf
    <3> QED
      BY <1>1, <3>2 DEF SearchLeft
  <2>4. g = 3 * (all - root.pos) + 5 * u + 1 + 7
    BY <1>5, <2>3, PlacesAreNext, Zenon DEF FilesPlaces
  <2>5. f = FileLeft + 1 + 0 /\ FileLeft \in Nat /\ FileLeft >= b
    BY <1>2, <1>3, FileNumbers
  <2> HIDE DEF all, u, f, g, b
  <2>6. g < f
    BY <2>1, <2>2, <2>4, <2>5
  <2>7. FilesLeft' < FilesLeft
    BY <2>6 DEF f, g
  <2> QED
    BY <1>1, <2>7, FilesNearer
<1> QED
  BY <1>1, <1>4, <1>5

LEMMA NoModuleNearer ==
  ASSUME LeftShape, LeftShape', NoModule, UNCHANGED stage1Vars
  PROVE  Nearer
<1>1. UNCHANGED <<volume, memory>> /\ at = "no file" /\ at' = "start kernel"
  BY Zenon DEF NoModule, diskVars
<1>2. FilesLeft = 1 /\ FilesLeft' = 0
  BY <1>1, PlacesAre, PlacesAreNext, Zenon DEF FilesPlaces, Outside
<1>3. FilesLeft' < FilesLeft
  BY <1>2
<1> QED
  BY <1>1, <1>3, FilesNearer

LEMMA NextNearer ==
  ASSUME Inv, Inv', Next
  PROVE  Nearer
<1>1. LeftShape /\ LeftShape'
  BY LeftIsNat, LeftIsNatNext
<1>2. CASE Stage1Next /\ UNCHANGED stage2Vars
  BY <1>1, <1>2, ReadRootNearer, ReadFatNearer, LoadClusterNearer, Stage1GivesUpNearer DEF Stage1Next
<1>3. CASE Stage2Next /\ UNCHANGED stage1Vars
  BY <1>1, <1>3, DiskInitializeNearer, FatInitializeNearer, InitializeFailsNearer, ReadEntryNearer,
     NextRootSectorNearer, CompareNearer, NotFoundNearer, OpenEntryNearer, DetectMemoryNearer, CallReadNearer,
     ReadBufferNearer, NextSectorNearer, ReturnedNearer, CopyNearer, CloseNearer, NoModuleNearer DEF Stage2Next
<1>4. CASE ReadFails(IF step = "jump" THEN geometry ELSE Drive) /\ UNCHANGED <<stage1Vars, stage2Vars>>
  BY <1>4, ReadFailsNearer
<1> QED
  BY <1>2, <1>3, <1>4, Zenon DEF Next

(* BootAdvances: every step of boot.asm and of stage 2's main, a failed        *)
(* attempt included, lowers a measure that is never below 0, so loading stops *)
(* for every volume, drive and memory map, after no more steps than that.   *)
THEOREM BootComesNearer == Spec => BootAdvances
<1>1. Inv /\ Inv' /\ [Next]_vars => [Distance' \in 0 .. (Distance - 1)]_vars
  <2>1. ASSUME Inv, Inv', Next PROVE Distance' \in 0 .. (Distance - 1)
    BY <2>1, NextNearer, LeftIsNat, LeftIsNatNext, NearerIs
  <2> QED
    BY <2>1
<1>2. Spec => []Inv
  BY Invariant
<1> QED
  BY <1>1, <1>2, PTL DEF Spec, BootAdvances
=============================================================================
