------------------------------ MODULE HeapProofs ------------------------------
(***************************************************************************)
(* What the run heap checks for a heap of a few words, for every header,    *)
(* page and request size, every number of frames and any order of calls:   *)
(* the list tiles the pages, used blocks are the held ones, and every frame *)
(* is accounted for wherever they run out.                                 *)
(*                                                                         *)
(* First, what each operation does to any list (merge, split, exact fit,    *)
(* growth, release) to the tiling and to the set of used blocks; then the   *)
(* inductive invariant Inv and one lemma for each action.                   *)
(***************************************************************************)
EXTENDS Heap, FiniteSetTheorems, SequenceTheorems, TLAPS

Blocks == [at : Nat, size : Nat, free : BOOLEAN]
Lists  == Seq(Blocks)
End(b) == b.at + Header + b.size

(* The blocks of a list lie one behind the other, from 0 to the end.        *)
Tiles(l, end) ==
  /\ Len(l) > 0 /\ l[1].at = 0
  /\ \A i \in 1 .. (Len(l) - 1) : l[i + 1].at = End(l[i])
  /\ \A i, j \in 1 .. Len(l) : i < j => End(l[i]) <= l[j].at
  /\ End(l[Len(l)]) = end

(* What the list says is handed out. *)
Used(l) == {i \in 1 .. Len(l) : ~l[i].free}
UsedBlocks(l) == {[at |-> l[i].at + Header, size |-> l[i].size] : i \in Used(l)}
-----------------------------------------------------------------------------
(* Counting. *)

LEMMA LeastInNat ==
  ASSUME NEW S \in SUBSET Nat, S # {}
  PROVE  \E m \in S : \A c \in S : m <= c
<1>1. PICK x \in S : \A y \in S : <<y, x>> \notin OpToRel(<, Nat)
  BY NatLessThanWellFounded, WFMin
<1>2. x \in S /\ \A y \in S : ~(y < x)
  BY <1>1 DEF OpToRel
<1>3. \A y \in S : x \in Nat /\ y \in Nat /\ x <= y
  BY <1>2
<1> QED BY <1>2, <1>3

(* Induction over a set of numbers. *)
LEMMA AllNumbers ==
  ASSUME NEW S, 0 \in S, \A k \in Nat : k \in S => k + 1 \in S
  PROVE  \A k \in Nat : k \in S
<1>1. SUFFICES ASSUME NEW n \in Nat, n \notin S PROVE FALSE
  OBVIOUS
<1> DEFINE Out == Nat \ S
<1>2. PICK m \in Out : \A k \in Out : m <= k
  BY <1>1, LeastInNat
<1>3. m \in Nat /\ m # 0 /\ m - 1 \in Nat /\ m - 1 < m /\ m - 1 + 1 = m
  BY <1>2
<1> QED BY <1>2, <1>3
-----------------------------------------------------------------------------
(* Blocks and lists. *)

LEMMA BlockFacts ==
  ASSUME NEW b \in Blocks
  PROVE  /\ b.at \in Nat /\ b.size \in Nat /\ b.free \in BOOLEAN
         /\ End(b) \in Nat /\ End(b) = b.at + Header + b.size /\ b.at + Header \in Nat
  BY HeapAssumption DEF Blocks, End

LEMMA ListFacts ==
  ASSUME NEW l \in Lists
  PROVE  Len(l) \in Nat /\ \A i \in 1 .. Len(l) : l[i] \in Blocks
  BY DEF Lists

(* Concatenation under a name that the provers do not expand. *)
Cat(s, t) == s \o t

LEMMA CatFacts ==
  ASSUME NEW s \in Lists, NEW t \in Lists
  PROVE  /\ Cat(s, t) \in Lists /\ Len(Cat(s, t)) = Len(s) + Len(t)
         /\ Len(s) \in Nat /\ Len(t) \in Nat
         /\ \A j \in 1 .. (Len(s) + Len(t)) : /\ j <= Len(s) => Cat(s, t)[j] = s[j]
                                              /\ j > Len(s) => Cat(s, t)[j] = t[j - Len(s)]
  BY ConcatProperties DEF Lists, Cat

(* A block in front of a list. *)
LEMMA ConsFacts ==
  ASSUME NEW b \in Blocks, NEW t \in Lists
  PROVE  /\ Cons(b, t) \in Lists /\ Len(t) \in Nat /\ Len(Cons(b, t)) = Len(t) + 1
         /\ Cons(b, t)[1] = b
         /\ \A j \in 1 .. Len(t) : Cons(b, t)[j + 1] = t[j]
<1>1. <<b>> \in Lists /\ Len(<<b>>) = 1 /\ <<b>>[1] = b
  BY DEF Lists
<1> DEFINE s == <<b>>
<1> HIDE DEF s
<1>2. /\ Cat(s, t) \in Lists /\ Len(Cat(s, t)) = 1 + Len(t) /\ Len(t) \in Nat
      /\ \A j \in 1 .. (1 + Len(t)) : /\ j <= 1 => Cat(s, t)[j] = s[j]
                                      /\ j > 1 => Cat(s, t)[j] = t[j - 1]
  BY <1>1, CatFacts DEF s
<1>3. Cat(s, t)[1] = b
  BY <1>1, <1>2 DEF s
<1>4. ASSUME NEW j \in 1 .. Len(t) PROVE Cat(s, t)[j + 1] = t[j]
  <2>1. j + 1 \in 1 .. (1 + Len(t)) /\ j + 1 > 1 /\ j + 1 - 1 = j
    BY <1>2
  <2> QED BY <1>2, <2>1
<1> QED BY <1>2, <1>3, <1>4 DEF Cons, Cat, s

(* The blocks lie one behind the other from start to end; none lie nowhere. *)
Lies(l, start, end) ==
  IF Len(l) = 0 THEN start = end ELSE
  /\ l[1].at = start
  /\ \A i \in 1 .. (Len(l) - 1) : l[i + 1].at = End(l[i])
  /\ \A i, j \in 1 .. Len(l) : i < j => End(l[i]) <= l[j].at
  /\ End(l[Len(l)]) = end

LEMMA ConsLies ==
  ASSUME NEW b \in Blocks, NEW t \in Lists, NEW end, Lies(t, End(b), end)
  PROVE  Lies(Cons(b, t), b.at, end)
<1> DEFINE s == Cons(b, t)
           n == Len(t)
<1>1. /\ n \in Nat /\ s[1] = b /\ Len(s) = n + 1
      /\ \A j \in 1 .. n : s[j + 1] = t[j]
  BY ConsFacts
<1>2. \A j \in 1 .. n : t[j] \in Blocks /\ t[j].at \in Nat /\ End(t[j]) \in Nat /\ t[j].at <= End(t[j])
  BY ListFacts, BlockFacts, HeapAssumption
<1>3. End(b) \in Nat
  BY BlockFacts
<1> HIDE DEF s
<1>4. CASE n = 0
  <2>1. Len(s) = 1 /\ End(b) = end
    BY <1>1, <1>4 DEF Lies
  <2> HIDE DEF n
  <2>2. s[Len(s)] = b /\ s[1] = b /\ Len(s) # 0
    <3>1. s[1] = b
      BY <1>1
    <3> QED BY <2>1, <3>1
  <2>3. /\ \A i \in 1 .. (Len(s) - 1) : FALSE
        /\ \A i, j \in 1 .. Len(s) : ~(i < j)
    BY <2>1
  <2>4. Lies(s, b.at, end)
    BY <2>1, <2>2, <2>3 DEF Lies
  <2> QED BY <2>4 DEF s
<1>5. CASE n # 0
  <2>1. /\ t[1].at = End(b) /\ End(t[n]) = end
        /\ \A i \in 1 .. (n - 1) : t[i + 1].at = End(t[i])
        /\ \A i, j \in 1 .. n : i < j => End(t[i]) <= t[j].at
    BY <1>5 DEF Lies
  <2> HIDE DEF n
  <2>2. 1 \in 1 .. n /\ n \in 1 .. n
    BY <1>1, <1>5
  <2>3. \A j \in 1 .. n : End(b) <= t[j].at
    <3> TAKE j \in 1 .. n
    <3>1. CASE j = 1
      BY <1>3, <2>1, <3>1
    <3>2. CASE j # 1
      <4>1. 1 < j
        BY <1>1, <3>2
      <4>2. End(t[1]) <= t[j].at
        BY <2>1, <2>2, <4>1
      <4>3. t[1].at \in Nat /\ End(t[1]) \in Nat /\ t[1].at <= End(t[1]) /\ t[j].at \in Nat
        BY <1>2, <2>2
      <4> QED BY <2>1, <4>2, <4>3
    <3> QED BY <3>1, <3>2
  <2>4. ASSUME NEW i \in 1 .. n PROVE s[i + 1].at = End(s[i])
    <3>1. CASE i = 1
      BY <1>1, <2>1, <2>2, <3>1
    <3>2. CASE i # 1
      <4>1. i - 1 \in 1 .. n /\ i - 1 \in 1 .. (n - 1) /\ i - 1 + 1 = i
        BY <1>1, <3>2
      <4>2. s[i + 1] = t[i] /\ s[i] = t[i - 1]
        BY <1>1, <4>1
      <4>3. t[i].at = End(t[i - 1])
        BY <2>1, <4>1
      <4> QED BY <4>2, <4>3
    <3> QED BY <3>1, <3>2
  <2>5. ASSUME NEW i \in 1 .. (n + 1), NEW j \in 1 .. (n + 1), i < j PROVE End(s[i]) <= s[j].at
    <3>1. j - 1 \in 1 .. n /\ j - 1 + 1 = j
      BY <1>1, <2>5
    <3>2. s[j] = t[j - 1]
      BY <1>1, <3>1
    <3>3. CASE i = 1
      BY <1>1, <2>3, <3>1, <3>2, <3>3
    <3>4. CASE i # 1
      <4>1. i - 1 \in 1 .. n /\ i - 1 + 1 = i /\ i - 1 < j - 1
        BY <1>1, <2>5, <3>4
      <4>2. s[i] = t[i - 1]
        BY <1>1, <4>1
      <4> QED BY <2>1, <3>1, <3>2, <4>1, <4>2
    <3> QED BY <3>3, <3>4
  <2>6. End(s[n + 1]) = end
    BY <1>1, <2>1, <2>2
  <2>7. n + 1 # 0 /\ n + 1 - 1 = n
    BY <1>1
  <2>8. Len(s) = n + 1
    BY <1>1
  <2>9. s[1].at = b.at
    BY <1>1
  <2>10. ASSUME NEW i \in 1 .. (Len(s) - 1) PROVE s[i + 1].at = End(s[i])
    <3>1. i \in 1 .. n
      BY <1>1, <2>8
    <3> QED BY <2>4, <3>1
  <2>11. ASSUME NEW i \in 1 .. Len(s), NEW j \in 1 .. Len(s), i < j PROVE End(s[i]) <= s[j].at
    <3>1. i \in 1 .. (n + 1) /\ j \in 1 .. (n + 1)
      BY <2>8
    <3> QED BY <2>5, <2>11, <3>1
  <2>12. End(s[Len(s)]) = end /\ Len(s) # 0
    BY <2>6, <2>7, <2>8
  <2>13. Lies(s, b.at, end)
    BY <2>9, <2>10, <2>11, <2>12 DEF Lies
  <2> QED BY <2>13 DEF s
<1> QED BY <1>4, <1>5
-----------------------------------------------------------------------------
(* merge_free_blocks: what the walk makes of the blocks from the i-th on,   *)
(* from the last block to the first.                                       *)
Pair(l, i) == i < Len(l) /\ l[i].free /\ l[i + 1].free

WalkFrom(f, l, i) ==
  IF i > Len(l) THEN <<>>
  ELSE IF Pair(l, i) THEN Cons(Joined(l[i], l[i + 1]), f[i + 2])
  ELSE Cons(l[i], f[i + 1])

Walks(f, l) == f = [i \in 1 .. (Len(l) + 1) |-> WalkFrom(f, l, i)]

LEMMA WalkExists ==
  ASSUME NEW l, Len(l) \in Nat
  PROVE  \E f : Walks(f, l)
<1> DEFINE n == Len(l)
           Done(f, k) == /\ f = [i \in 1 .. (n + 1) |-> f[i]]
                         /\ \A i \in 1 .. (n + 1) : i >= n + 1 - k => f[i] = WalkFrom(f, l, i)
           S == {k \in Nat : \E f : Done(f, k)}
<1> HIDE DEF n
<1>0. n \in Nat
  BY DEF n
<1>1. 0 \in S
  <2> DEFINE f == [i \in 1 .. (n + 1) |-> <<>>]
  <2>1. f = [i \in 1 .. (n + 1) |-> f[i]] /\ \A i \in 1 .. (n + 1) : f[i] = <<>>
    OBVIOUS
  <2> HIDE DEF f
  <2>2. \A i \in 1 .. (n + 1) : i >= n + 1 - 0 => WalkFrom(f, l, i) = <<>>
    BY <1>0 DEF WalkFrom, n
  <2>3. Done(f, 0)
    BY <2>1, <2>2
  <2> HIDE DEF Done
  <2> QED BY <2>3
<1>2. ASSUME NEW k \in Nat, k \in S PROVE k + 1 \in S
  <2>1. PICK f : Done(f, k)
    BY <1>2
  <2> DEFINE new == n - k
             g == [i \in 1 .. (n + 1) |-> IF i = new THEN WalkFrom(f, l, i) ELSE f[i]]
  <2>2. /\ g = [i \in 1 .. (n + 1) |-> g[i]]
        /\ \A i \in 1 .. (n + 1) : g[i] = IF i = new THEN WalkFrom(f, l, i) ELSE f[i]
    OBVIOUS
  <2>3. new \in Int /\ \A i \in 1 .. (n + 1) : i >= n + 1 - (k + 1) => i >= new
    BY <1>0
  <2>4. \A i \in Int : i > new => i >= n + 1 - k
    BY <1>0
  <2> HIDE DEF g, new
  <2>5. ASSUME NEW i \in 1 .. (n + 1), i >= new PROVE WalkFrom(g, l, i) = WalkFrom(f, l, i)
    <3>1. i > Len(l) \/ (i + 1 \in 1 .. (n + 1) /\ i + 1 # new)
      BY <1>0, <2>3, <2>5 DEF n
    <3>2. Pair(l, i) => i + 2 \in 1 .. (n + 1) /\ i + 2 # new
      BY <1>0, <2>3, <2>5 DEF Pair, n
    <3>3. i > Len(l) \/ g[i + 1] = f[i + 1]
      BY <2>2, <3>1
    <3>4. Pair(l, i) => g[i + 2] = f[i + 2]
      BY <2>2, <3>2
    <3> QED BY <3>3, <3>4 DEF WalkFrom
  <2>6. \A i \in 1 .. (n + 1) : i >= n + 1 - (k + 1) => g[i] = WalkFrom(g, l, i)
    <3> TAKE i \in 1 .. (n + 1)
    <3> HAVE i >= n + 1 - (k + 1)
    <3>1. i >= new
      BY <2>3
    <3>2. i = new \/ i >= n + 1 - k
      BY <2>3, <2>4, <3>1
    <3>3. i = new \/ f[i] = WalkFrom(f, l, i)
      BY <2>1, <3>2
    <3> QED BY <2>2, <2>5, <3>1, <3>3
  <2>7. Done(g, k + 1)
    BY <2>2, <2>6
  <2> HIDE DEF Done
  <2> QED BY <2>7
<1>3. n \in S
  <2> HIDE DEF S
  <2>1. \A k \in Nat : k \in S
    BY <1>1, <1>2, AllNumbers
  <2> QED BY <1>0, <2>1
<1>4. PICK f : Done(f, n)
  BY <1>3
<1>5. \A i \in 1 .. (n + 1) : i >= n + 1 - n
  BY <1>0
<1>6. f = [i \in 1 .. (n + 1) |-> f[i]] /\ \A i \in 1 .. (n + 1) : f[i] = WalkFrom(f, l, i)
  BY <1>4, <1>5
<1>7. f = [i \in 1 .. (n + 1) |-> WalkFrom(f, l, i)]
  BY <1>6
<1> QED BY <1>7 DEF Walks, n

LEMMA MergedIs ==
  ASSUME NEW l \in Lists
  PROVE  \E f : Merged(l) = f[1] /\ \A i \in 1 .. (Len(l) + 1) : f[i] = WalkFrom(f, l, i)
<1> DEFINE f == CHOOSE g : Walks(g, l)
<1>1. Walks(f, l)
  BY WalkExists, ListFacts
<1>2. Merged(l) = f[1]
  BY DEF Merged, Walks, WalkFrom, Pair
<1> HIDE DEF f
<1> QED BY <1>1, <1>2 DEF Walks

(* The used blocks from the i-th on. *)
UsedFrom(l, i) == {[at |-> l[j].at + Header, size |-> l[j].size] : j \in {k \in Used(l) : k >= i}}
AsUsed(b) == IF b.free THEN {} ELSE {[at |-> b.at + Header, size |-> b.size]}

LEMMA UsedFromNext ==
  ASSUME NEW l \in Lists, NEW i \in 1 .. Len(l)
  PROVE  UsedFrom(l, i) = AsUsed(l[i]) \union UsedFrom(l, i + 1)
<1>1. \A k \in Used(l) : k >= i <=> k = i \/ k >= i + 1
  BY DEF Used
<1>2. i \in Used(l) <=> ~l[i].free
  BY DEF Used
<1> DEFINE Rec(j) == [at |-> l[j].at + Header, size |-> l[j].size]
<1>3. \A x : x \in UsedFrom(l, i) <=> \E j \in Used(l) : j >= i /\ x = Rec(j)
  BY DEF UsedFrom
<1>4. \A x : x \in UsedFrom(l, i + 1) <=> \E j \in Used(l) : j >= i + 1 /\ x = Rec(j)
  BY DEF UsedFrom
<1>5. \A x : x \in AsUsed(l[i]) <=> ~l[i].free /\ x = Rec(i)
  BY DEF AsUsed
<1> HIDE DEF Rec
<1> QED BY <1>1, <1>2, <1>3, <1>4, <1>5

LEMMA ConsUsed ==
  ASSUME NEW b \in Blocks, NEW t \in Lists
  PROVE  UsedBlocks(Cons(b, t)) = AsUsed(b) \union UsedBlocks(t)
<1> DEFINE s == Cons(b, t)
           Rec(c) == [at |-> c.at + Header, size |-> c.size]
<1>1. /\ Len(t) \in Nat /\ s[1] = b /\ Len(s) = Len(t) + 1
      /\ \A j \in 1 .. Len(t) : s[j + 1] = t[j]
  BY ConsFacts
<1> HIDE DEF s
<1>2. \A x : x \in UsedBlocks(s) <=> \E j \in 1 .. Len(s) : ~s[j].free /\ x = Rec(s[j])
  BY DEF UsedBlocks, Used
<1>3. \A x : x \in UsedBlocks(t) <=> \E j \in 1 .. Len(t) : ~t[j].free /\ x = Rec(t[j])
  BY DEF UsedBlocks, Used
<1>4. \A x : x \in AsUsed(b) <=> ~b.free /\ x = Rec(b)
  BY DEF AsUsed
<1> HIDE DEF Rec
<1>5. ASSUME NEW x \in UsedBlocks(s) PROVE x \in AsUsed(b) \union UsedBlocks(t)
  <2>1. PICK j \in 1 .. Len(s) : ~s[j].free /\ x = Rec(s[j])
    BY <1>2, <1>5
  <2>2. CASE j = 1
    BY <1>1, <1>4, <2>1, <2>2
  <2>3. CASE j # 1
    <3>1. j - 1 \in 1 .. Len(t) /\ j - 1 + 1 = j
      BY <1>1, <2>3
    <3> QED BY <1>1, <1>3, <2>1, <3>1
  <2> QED BY <2>2, <2>3
<1>6. ASSUME NEW x \in AsUsed(b) PROVE x \in UsedBlocks(s)
  <2>1. 1 \in 1 .. Len(s)
    BY <1>1
  <2> QED BY <1>1, <1>2, <1>4, <1>6, <2>1
<1>7. ASSUME NEW x \in UsedBlocks(t) PROVE x \in UsedBlocks(s)
  <2>1. PICK j \in 1 .. Len(t) : ~t[j].free /\ x = Rec(t[j])
    BY <1>3, <1>7
  <2>2. j + 1 \in 1 .. Len(s)
    BY <1>1
  <2> QED BY <1>1, <1>2, <2>1, <2>2
<1> QED BY <1>5, <1>6, <1>7 DEF s

(* Where the i-th block starts, and the end behind the last. *)
StartOf(l, i, end) == IF i > Len(l) THEN end ELSE l[i].at

(* The walk loses no byte and no used block, and leaves the end free. *)
Merges(s, l, i) ==
  /\ s \in Lists
  /\ UsedBlocks(s) = UsedFrom(l, i)
  /\ \A end : Tiles(l, end) => Lies(s, StartOf(l, i, end), end)
  /\ i <= Len(l) => /\ Len(s) > 0
                    /\ l[Len(l)].free => s[Len(s)].free

(* A block in front of what the walk made of the blocks behind it: it stands *)
(* for the blocks from the i-th to the one before the k-th.                 *)
LEMMA MergesCons ==
  ASSUME NEW l \in Lists, NEW i \in 1 .. Len(l), NEW k \in 2 .. (Len(l) + 1),
         NEW b \in Blocks, NEW t, Merges(t, l, k),
         UsedFrom(l, i) = AsUsed(b) \union UsedFrom(l, k),
         b.at = l[i].at, \A end : Tiles(l, end) => End(b) = StartOf(l, k, end),
         k = Len(l) + 1 /\ l[Len(l)].free => b.free
  PROVE  Merges(Cons(b, t), l, i)
<1> DEFINE s == Cons(b, t)
<1>1. t \in Lists /\ UsedBlocks(t) = UsedFrom(l, k)
  BY DEF Merges
<1>2. /\ s \in Lists /\ Len(t) \in Nat /\ s[1] = b /\ Len(s) = Len(t) + 1
      /\ \A j \in 1 .. Len(t) : s[j + 1] = t[j]
  BY <1>1, ConsFacts
<1>3. UsedBlocks(s) = UsedFrom(l, i)
  BY <1>1, ConsUsed
<1>4. ASSUME NEW end, Tiles(l, end) PROVE Lies(s, StartOf(l, i, end), end)
  <2>1. Lies(t, End(b), end)
    BY <1>4 DEF Merges
  <2>2. Lies(s, b.at, end)
    BY <1>1, <2>1, ConsLies
  <2>3. StartOf(l, i, end) = b.at
    BY ListFacts DEF StartOf
  <2> QED BY <2>2, <2>3
<1>5. ASSUME l[Len(l)].free PROVE s[Len(s)].free
  <2>1. Len(l) \in Nat
    BY ListFacts
  <2>2. CASE k = Len(l) + 1
    <3>1. CASE Len(t) = 0
      BY <1>2, <1>5, <2>2, <3>1
    <3>2. CASE Len(t) # 0
      <4>1. UsedFrom(l, k) = {}
        BY <2>1, <2>2 DEF UsedFrom, Used
      <4>2. Len(t) \in 1 .. Len(t)
        BY <1>2, <3>2
      <4>3. t[Len(t)].free
        BY <1>1, <4>1, <4>2 DEF UsedBlocks, Used
      <4> QED BY <1>2, <4>2, <4>3
    <3> QED BY <3>1, <3>2
  <2>3. CASE k # Len(l) + 1
    <3>1. k <= Len(l)
      BY <2>1, <2>3
    <3>2. Len(t) > 0 /\ t[Len(t)].free
      BY <1>5, <3>1 DEF Merges
    <3>3. Len(t) \in 1 .. Len(t)
      BY <1>2, <3>2
    <3> QED BY <1>2, <3>2, <3>3
  <2> QED BY <2>2, <2>3
<1>6. Len(s) > 0
  BY <1>2
<1> HIDE DEF s
<1>7. Merges(s, l, i)
  BY <1>2, <1>3, <1>4, <1>5, <1>6 DEF Merges
<1> QED BY <1>7 DEF s

LEMMA JoinedFacts ==
  ASSUME NEW b \in Blocks, NEW c \in Blocks
  PROVE  /\ Joined(b, c) \in Blocks /\ Joined(b, c).at = b.at /\ Joined(b, c).free = b.free
         /\ c.at = End(b) => End(Joined(b, c)) = End(c)
<1>1. b.at \in Nat /\ b.size \in Nat /\ c.size \in Nat /\ c.at \in Nat /\ Header \in Nat
  BY HeapAssumption DEF Blocks
<1>2. b.size + c.size + Header \in Nat
  BY <1>1
<1>3. /\ Joined(b, c) \in Blocks /\ Joined(b, c).at = b.at /\ Joined(b, c).free = b.free
      /\ Joined(b, c).size = b.size + c.size + Header
  BY <1>2 DEF Blocks, Joined
<1>4. ASSUME c.at = End(b) PROVE End(Joined(b, c)) = End(c)
  <2>1. End(Joined(b, c)) = b.at + Header + (b.size + c.size + Header)
    BY <1>3 DEF End
  <2>2. End(c) = (b.at + Header + b.size) + Header + c.size
    BY <1>4 DEF End
  <2> QED BY <1>1, <2>1, <2>2
<1> QED BY <1>3, <1>4

LEMMA WalkMerges ==
  ASSUME NEW l \in Lists, NEW i \in 1 .. (Len(l) + 1), NEW f,
         \A k \in 1 .. (Len(l) + 1) : k > i => Merges(f[k], l, k)
  PROVE  Merges(WalkFrom(f, l, i), l, i)
<1>0. Len(l) \in Nat
  BY ListFacts
<1>1. CASE i > Len(l)
  <2>1. WalkFrom(f, l, i) = <<>>
    BY <1>1 DEF WalkFrom
  <2>2. <<>> \in Lists /\ Len(<<>>) = 0
    BY DEF Lists
  <2>3. UsedBlocks(<<>>) = {} /\ UsedFrom(l, i) = {}
    BY <1>0, <1>1, <2>2 DEF UsedBlocks, UsedFrom, Used
  <2>4. \A end : Lies(<<>>, StartOf(l, i, end), end)
    BY <1>1, <2>2 DEF Lies, StartOf
  <2>5. ~(i <= Len(l))
    BY <1>0, <1>1
  <2> QED BY <2>1, <2>2, <2>3, <2>4, <2>5 DEF Merges
<1>2. CASE ~(i > Len(l)) /\ Pair(l, i)
  <2>1. /\ i \in 1 .. Len(l) /\ i + 1 \in 1 .. Len(l) /\ i + 2 \in 2 .. (Len(l) + 1)
        /\ i + 2 \in 1 .. (Len(l) + 1) /\ i + 2 > i /\ l[i].free /\ l[i + 1].free
        /\ i \in 1 .. (Len(l) - 1) /\ i + 1 + 1 = i + 2
    BY <1>0, <1>2 DEF Pair
  <2>2. l[i] \in Blocks /\ l[i + 1] \in Blocks
    BY <2>1, ListFacts
  <2> DEFINE b == Joined(l[i], l[i + 1])
  <2>3. b \in Blocks /\ b.at = l[i].at /\ b.free = l[i].free
    BY <2>2, JoinedFacts
  <2>4. ASSUME NEW end, Tiles(l, end) PROVE End(b) = StartOf(l, i + 2, end)
    <3>1. l[i + 1].at = End(l[i])
      BY <2>1, <2>4 DEF Tiles
    <3>2. End(b) = End(l[i + 1])
      BY <2>2, <3>1, JoinedFacts
    <3>3. CASE i + 2 > Len(l)
      <4>1. i + 1 = Len(l)
        BY <1>0, <2>1, <3>3
      <4> QED BY <2>4, <3>2, <3>3, <4>1 DEF Tiles, StartOf
    <3>4. CASE ~(i + 2 > Len(l))
      <4>1. i + 1 \in 1 .. (Len(l) - 1)
        BY <1>0, <2>1, <3>4
      <4>2. l[i + 2].at = End(l[i + 1])
        BY <2>1, <2>4, <4>1 DEF Tiles
      <4> QED BY <3>2, <3>4, <4>2 DEF StartOf
    <3> QED BY <3>3, <3>4
  <2>5. UsedFrom(l, i) = AsUsed(b) \union UsedFrom(l, i + 2)
    <3>1. UsedFrom(l, i) = AsUsed(l[i]) \union UsedFrom(l, i + 1)
      BY <2>1, UsedFromNext
    <3>2. UsedFrom(l, i + 1) = AsUsed(l[i + 1]) \union UsedFrom(l, i + 2)
      BY <2>1, UsedFromNext
    <3>3. AsUsed(l[i]) = {} /\ AsUsed(l[i + 1]) = {} /\ AsUsed(b) = {}
      BY <2>1, <2>3 DEF AsUsed
    <3> QED BY <3>1, <3>2, <3>3
  <2>6. Merges(f[i + 2], l, i + 2)
    BY <2>1
  <2> HIDE DEF b
  <2>7. Merges(Cons(b, f[i + 2]), l, i)
    BY <2>1, <2>3, <2>4, <2>5, <2>6, MergesCons
  <2>8. WalkFrom(f, l, i) = Cons(b, f[i + 2])
    BY <1>2 DEF WalkFrom, b
  <2> QED BY <2>7, <2>8
<1>3. CASE ~(i > Len(l)) /\ ~Pair(l, i)
  <2>1. /\ i \in 1 .. Len(l) /\ i + 1 \in 2 .. (Len(l) + 1) /\ i + 1 \in 1 .. (Len(l) + 1) /\ i + 1 > i
    BY <1>0, <1>3
  <2>2. l[i] \in Blocks
    BY <2>1, ListFacts
  <2>3. ASSUME NEW end, Tiles(l, end) PROVE End(l[i]) = StartOf(l, i + 1, end)
    <3>1. CASE i + 1 > Len(l)
      <4>1. i = Len(l)
        BY <1>0, <2>1, <3>1
      <4> QED BY <2>3, <3>1, <4>1 DEF Tiles, StartOf
    <3>2. CASE ~(i + 1 > Len(l))
      <4>1. i \in 1 .. (Len(l) - 1)
        BY <1>0, <2>1, <3>2
      <4> QED BY <2>3, <3>2, <4>1 DEF Tiles, StartOf
    <3> QED BY <3>1, <3>2
  <2>4. UsedFrom(l, i) = AsUsed(l[i]) \union UsedFrom(l, i + 1)
    BY <2>1, UsedFromNext
  <2>5. Merges(f[i + 1], l, i + 1)
    BY <2>1
  <2>6. i + 1 = Len(l) + 1 /\ l[Len(l)].free => l[i].free
    <3>1. i + 1 = Len(l) + 1 => i = Len(l)
      BY <1>0, <2>1
    <3> QED BY <3>1
  <2>7. Merges(Cons(l[i], f[i + 1]), l, i)
    BY <2>1, <2>2, <2>3, <2>4, <2>5, <2>6, MergesCons
  <2>8. WalkFrom(f, l, i) = Cons(l[i], f[i + 1])
    BY <1>3 DEF WalkFrom
  <2> QED BY <2>7, <2>8
<1> QED BY <1>1, <1>2, <1>3

LEMMA MergedMerges ==
  ASSUME NEW l \in Lists
  PROVE  Merges(Merged(l), l, 1)
<1> DEFINE n == Len(l)
<1>0. n \in Nat
  BY ListFacts
<1>1. PICK f : Merged(l) = f[1] /\ \A i \in 1 .. (n + 1) : f[i] = WalkFrom(f, l, i)
  BY MergedIs
<1> DEFINE S == {k \in Nat : \A i \in 1 .. (n + 1) : i >= n + 1 - k => Merges(f[i], l, i)}
<1>2. ASSUME NEW i \in 1 .. (n + 1), \A k \in 1 .. (n + 1) : k > i => Merges(f[k], l, k)
      PROVE  Merges(f[i], l, i)
  BY <1>1, <1>2, WalkMerges
<1> HIDE DEF n
<1>3. 0 \in S
  <2>1. \A i \in 1 .. (n + 1) : i >= n + 1 - 0 => ~ \E k \in 1 .. (n + 1) : k > i
    BY <1>0
  <2> QED BY <1>2, <2>1
<1>4. ASSUME NEW k \in Nat, k \in S PROVE k + 1 \in S
  <2>1. \A i, j \in 1 .. (n + 1) : i >= n + 1 - (k + 1) /\ j > i => j >= n + 1 - k
    BY <1>0
  <2>2. \A i \in 1 .. (n + 1) : i >= n + 1 - k => Merges(f[i], l, i)
    BY <1>4
  <2>3. ASSUME NEW i \in 1 .. (n + 1), i >= n + 1 - (k + 1) PROVE Merges(f[i], l, i)
    BY <1>2, <2>1, <2>2, <2>3
  <2> QED BY <2>3
<1>5. n \in S
  <2> HIDE DEF S
  <2>1. \A k \in Nat : k \in S
    BY <1>3, <1>4, AllNumbers
  <2> QED BY <1>0, <2>1
<1>6. 1 \in 1 .. (n + 1) /\ 1 >= n + 1 - n
  BY <1>0
<1>7. Merges(f[1], l, 1)
  BY <1>5, <1>6
<1> QED BY <1>1, <1>7

LEMMA MergedType ==
  ASSUME NEW l \in Lists, Len(l) > 0
  PROVE  Merged(l) \in Lists /\ Len(Merged(l)) > 0
<1>1. Merges(Merged(l), l, 1) /\ Len(l) \in Nat
  BY MergedMerges, ListFacts
<1> QED BY <1>1 DEF Merges

LEMMA MergedTiles ==
  ASSUME NEW l \in Lists, NEW end, Tiles(l, end)
  PROVE  Tiles(Merged(l), end)
<1>1. Merges(Merged(l), l, 1) /\ Len(l) \in Nat /\ Len(l) > 0 /\ l[1].at = 0
  BY MergedMerges, ListFacts DEF Tiles
<1>2. Lies(Merged(l), StartOf(l, 1, end), end) /\ Len(Merged(l)) > 0
  BY <1>1 DEF Merges
<1>3. StartOf(l, 1, end) = 0
  BY <1>1 DEF StartOf
<1> QED BY <1>2, <1>3 DEF Lies, Tiles

(* No used block comes, goes or changes in a merge, and the end stays free. *)
LEMMA MergedUsed ==
  ASSUME NEW l \in Lists, Len(l) > 0
  PROVE  /\ UsedBlocks(Merged(l)) = UsedBlocks(l)
         /\ l[Len(l)].free => Merged(l)[Len(Merged(l))].free
<1>1. Merges(Merged(l), l, 1) /\ Len(l) \in Nat
  BY MergedMerges, ListFacts
<1>2. UsedFrom(l, 1) = UsedBlocks(l)
  <2>1. {k \in Used(l) : k >= 1} = Used(l)
    BY DEF Used
  <2> QED BY <2>1 DEF UsedFrom, UsedBlocks
<1> QED BY <1>1, <1>2 DEF Merges
-----------------------------------------------------------------------------
(* malloc_split and the changes of one block. *)

(* Where a block of the split list was before: the rest was part of block i. *)
Was(i, j) == IF j <= i THEN j ELSE j - 1

(* What block i becomes in a split. *)
Piece(l, i, n) == Block(l[i].at, n, FALSE)
Rest(l, i, n)  == Block(l[i].at + n + Header, l[i].size - n - Header, TRUE)

LEMMA SplitIs ==
  ASSUME NEW l \in Lists, NEW i \in 1 .. Len(l), NEW n \in Nat, l[i].size - n - Header \in Nat
  PROVE  /\ Split(l, i, n) \in Lists /\ Len(Split(l, i, n)) = Len(l) + 1
         /\ \A j \in 1 .. (Len(l) + 1) : Was(i, j) \in 1 .. Len(l) /\ Split(l, i, n)[j] \in Blocks
         /\ \A j \in 1 .. (Len(l) + 1) : j # i /\ j # i + 1 => Split(l, i, n)[j] = l[Was(i, j)]
         /\ i \in 1 .. (Len(l) + 1) /\ i + 1 \in 1 .. (Len(l) + 1) /\ i + 1 # i
         /\ Split(l, i, n)[i] = Piece(l, i, n)
         /\ Split(l, i, n)[i + 1] = Rest(l, i, n)
<1> DEFINE first  == Piece(l, i, n)
           rest   == Rest(l, i, n)
           before == SubSeq(l, 1, i - 1)
           behind == SubSeq(l, i + 1, Len(l))
           two    == <<first, rest>>
<1>1. /\ Len(l) \in Nat /\ i \in Nat /\ i >= 1 /\ i <= Len(l)
      /\ \A j \in 1 .. Len(l) : l[j] \in Blocks
  BY ListFacts
<1>2. first \in Blocks /\ rest \in Blocks
  <2>1. l[i].at \in Nat /\ l[i].at + n + Header \in Nat
    <3>1. l[i].at \in Nat
      BY <1>1, BlockFacts, Zenon
    <3> DEFINE a == l[i].at
    <3> HIDE DEF a
    <3>2. a \in Nat
      BY <3>1, Zenon DEF a
    <3>3. a + n + Header \in Nat
      BY <3>2, HeapAssumption
    <3> QED BY <3>1, <3>3, Zenon DEF a
  <2> QED BY <2>1 DEF Blocks, Block, Piece, Rest
<1>3. /\ before \in Seq(Blocks) /\ Len(before) = i - 1
      /\ \A j \in 1 .. (i - 1) : before[j] = l[j]
  <2>1. \A j \in 1 .. (i - 1) : l[j] \in Blocks
    BY <1>1
  <2>2. /\ before \in Seq(Blocks)
        /\ Len(before) = IF 1 <= i - 1 THEN (i - 1) - 1 + 1 ELSE 0
        /\ \A j \in 1 .. ((i - 1) - 1 + 1) : before[j] = l[1 + j - 1]
    BY <1>1, <2>1, SubSeqProperties
  <2> HIDE DEF before
  <2>3. (IF 1 <= i - 1 THEN (i - 1) - 1 + 1 ELSE 0) = i - 1 /\ (i - 1) - 1 + 1 = i - 1
    BY <1>1
  <2>4. \A j \in 1 .. (i - 1) : 1 + j - 1 = j
    OBVIOUS
  <2> QED BY <2>2, <2>3, <2>4
<1>4. /\ behind \in Seq(Blocks) /\ Len(behind) = Len(l) - i
      /\ \A j \in 1 .. (Len(l) - i) : behind[j] = l[i + j]
  <2>1. \A j \in (i + 1) .. Len(l) : l[j] \in Blocks
    BY <1>1
  <2>2. /\ behind \in Seq(Blocks)
        /\ Len(behind) = IF i + 1 <= Len(l) THEN Len(l) - (i + 1) + 1 ELSE 0
        /\ \A j \in 1 .. (Len(l) - (i + 1) + 1) : behind[j] = l[(i + 1) + j - 1]
    BY <1>1, <2>1, SubSeqProperties
  <2> HIDE DEF behind
  <2>3. (IF i + 1 <= Len(l) THEN Len(l) - (i + 1) + 1 ELSE 0) = Len(l) - i
        /\ Len(l) - (i + 1) + 1 = Len(l) - i
    BY <1>1
  <2>4. \A j \in 1 .. (Len(l) - i) : (i + 1) + j - 1 = i + j
    BY <1>1
  <2> QED BY <2>2, <2>3, <2>4
<1>5. two \in Seq(Blocks) /\ Len(two) = 2 /\ two[1] = first /\ two[2] = rest
  <2> HIDE DEF first, rest
  <2> QED BY <1>2
<1> HIDE DEF first, rest, before, behind, two
<1>6. /\ Cat(before, two) \in Seq(Blocks) /\ Len(Cat(before, two)) = i + 1
      /\ \A j \in 1 .. (i + 1) :
           /\ j <= i - 1 => Cat(before, two)[j] = before[j]
           /\ j > i - 1 => Cat(before, two)[j] = two[j - (i - 1)]
  <2>1. (i - 1) + 2 = i + 1
    BY <1>1
  <2>2. before \in Lists /\ two \in Lists
    BY <1>3, <1>5 DEF Lists
  <2>3. /\ Cat(before, two) \in Lists /\ Len(Cat(before, two)) = Len(before) + Len(two)
        /\ \A j \in 1 .. (Len(before) + Len(two)) :
             /\ j <= Len(before) => Cat(before, two)[j] = before[j]
             /\ j > Len(before) => Cat(before, two)[j] = two[j - Len(before)]
    BY <2>2, CatFacts
  <2>4. Len(before) = i - 1 /\ Len(before) + Len(two) = i + 1
    BY <1>3, <1>5, <2>1
  <2> QED BY <2>3, <2>4 DEF Lists
<1>7. /\ Cat(Cat(before, two), behind) \in Seq(Blocks)
      /\ Len(Cat(Cat(before, two), behind)) = Len(l) + 1
      /\ \A j \in 1 .. (Len(l) + 1) :
           /\ j <= i + 1 => Cat(Cat(before, two), behind)[j] = Cat(before, two)[j]
           /\ j > i + 1 => Cat(Cat(before, two), behind)[j] = behind[j - (i + 1)]
  <2>1. (i + 1) + (Len(l) - i) = Len(l) + 1
    BY <1>1
  <2>2. Cat(before, two) \in Lists /\ behind \in Lists /\ i + 1 \in Nat /\ Len(l) - i \in Nat
    BY <1>1, <1>4, <1>6 DEF Lists
  <2> DEFINE front == Cat(before, two)
  <2> HIDE DEF front
  <2>3. /\ Cat(front, behind) \in Lists /\ Len(Cat(front, behind)) = Len(front) + Len(behind)
        /\ \A j \in 1 .. (Len(front) + Len(behind)) :
             /\ j <= Len(front) => Cat(front, behind)[j] = front[j]
             /\ j > Len(front) => Cat(front, behind)[j] = behind[j - Len(front)]
    BY <2>2, CatFacts DEF front
  <2>4. Len(front) = i + 1 /\ Len(front) + Len(behind) = Len(l) + 1
    BY <1>4, <1>6, <2>1 DEF front
  <2> QED BY <2>3, <2>4 DEF Lists, front
<1>8. Split(l, i, n) = Cat(Cat(before, two), behind)
  BY DEF Split, Cat, Piece, Rest, before, two, behind, first, rest
<1>9. ASSUME NEW j \in 1 .. (Len(l) + 1)
      PROVE  /\ Was(i, j) \in 1 .. Len(l)
             /\ Split(l, i, n)[j] = IF j = i THEN first ELSE IF j = i + 1 THEN rest ELSE l[Was(i, j)]
  <2>1. Was(i, j) \in 1 .. Len(l)
    BY <1>1 DEF Was
  <2>2. CASE j <= i - 1
    <3>1. j \in 1 .. (i - 1) /\ j \in 1 .. (i + 1) /\ j <= i + 1 /\ j # i /\ j # i + 1 /\ Was(i, j) = j
      BY <1>1, <2>2 DEF Was
    <3>2. Split(l, i, n)[j] = Cat(before, two)[j]
      BY <1>7, <1>8, <3>1
    <3>3. Cat(before, two)[j] = before[j]
      BY <1>6, <3>1
    <3>4. before[j] = l[j]
      BY <1>3, <3>1
    <3> QED BY <2>1, <3>1, <3>2, <3>3, <3>4
  <2>3. CASE j = i
    <3>1. j \in 1 .. (i + 1) /\ j > i - 1 /\ j - (i - 1) = 1 /\ j <= i + 1
      BY <1>1, <2>3
    <3>2. Split(l, i, n)[j] = Cat(before, two)[j]
      BY <1>7, <1>8, <3>1
    <3>3. Cat(before, two)[j] = two[1]
      BY <1>6, <3>1
    <3> QED BY <1>5, <2>1, <2>3, <3>2, <3>3
  <2>4. CASE j = i + 1
    <3>1. j \in 1 .. (i + 1) /\ j > i - 1 /\ j - (i - 1) = 2 /\ j <= i + 1 /\ j # i
      BY <1>1, <2>4
    <3>2. Split(l, i, n)[j] = Cat(before, two)[j]
      BY <1>7, <1>8, <3>1
    <3>3. Cat(before, two)[j] = two[2]
      BY <1>6, <3>1
    <3> QED BY <1>5, <2>1, <2>4, <3>1, <3>2, <3>3
  <2>5. CASE j > i + 1
    <3>1. /\ j > i + 1 /\ j # i /\ j # i + 1 /\ Was(i, j) = j - 1
          /\ j - (i + 1) \in 1 .. (Len(l) - i) /\ i + (j - (i + 1)) = j - 1
      <4>1. j \in Nat /\ j <= Len(l) + 1 /\ i \in Nat /\ Len(l) \in Nat /\ j > i + 1
        BY <1>1, <2>5
      <4> QED BY <4>1 DEF Was
    <3>2. Split(l, i, n)[j] = behind[j - (i + 1)]
      BY <1>7, <1>8, <3>1
    <3>3. behind[j - (i + 1)] = l[j - 1]
      BY <1>4, <3>1
    <3> QED BY <2>1, <3>1, <3>2, <3>3
  <2> QED BY <1>1, <2>2, <2>3, <2>4, <2>5
<1>10. i \in 1 .. (Len(l) + 1) /\ i + 1 \in 1 .. (Len(l) + 1) /\ i + 1 # i
  BY <1>1
<1>11. Split(l, i, n)[i] = first /\ Split(l, i, n)[i + 1] = rest
  BY <1>9, <1>10
<1>12. Split(l, i, n) \in Lists /\ Len(Split(l, i, n)) = Len(l) + 1
  BY <1>7, <1>8 DEF Lists
<1>13. \A j \in 1 .. (Len(l) + 1) : Was(i, j) \in 1 .. Len(l) /\ Split(l, i, n)[j] \in Blocks
  BY <1>9, <1>12 DEF Lists
<1>14. \A j \in 1 .. (Len(l) + 1) : j # i /\ j # i + 1 => Split(l, i, n)[j] = l[Was(i, j)]
  BY <1>9
<1> QED BY <1>10, <1>11, <1>12, <1>13, <1>14 DEF first, rest

LEMMA SplitTiles ==
  ASSUME NEW l \in Lists, NEW i \in 1 .. Len(l), NEW n \in Nat, l[i].size - n - Header \in Nat,
         NEW end, Tiles(l, end)
  PROVE  Tiles(Split(l, i, n), end)
<1> DEFINE S == Split(l, i, n)
           m == Len(l) + 1
           W(j) == Was(i, j)
<1>1. /\ Len(l) \in Nat /\ i \in Nat /\ 1 <= i /\ i <= Len(l)
      /\ \A j \in 1 .. Len(l) : l[j] \in Blocks
  BY ListFacts
<1>2. /\ S \in Lists /\ Len(S) = m
      /\ \A j \in 1 .. m : W(j) \in 1 .. Len(l)
      /\ \A j \in 1 .. m : S[j] \in Blocks
      /\ \A j \in 1 .. m : j # i /\ j # i + 1 => S[j] = l[W(j)]
  BY SplitIs
<1>3. /\ i \in 1 .. m /\ S[i].at = l[i].at /\ S[i].size = n
      /\ i + 1 \in 1 .. m /\ S[i + 1].at = l[i].at + n + Header
      /\ S[i + 1].size = l[i].size - n - Header
  <2>1. i \in 1 .. m /\ i + 1 \in 1 .. m
    BY SplitIs
  <2>2. S[i] = Piece(l, i, n)
        /\ S[i + 1] = Rest(l, i, n)
    BY SplitIs
  <2> HIDE DEF S, m
  <2> QED BY <2>1, <2>2 DEF Block, Piece, Rest
<1>4. W(i) = i /\ W(i + 1) = i
  BY <1>1 DEF Was
<1>5. /\ End(S[i]) = S[i + 1].at /\ End(S[i + 1]) = End(l[i])
      /\ End(S[i]) <= End(l[i]) /\ l[i].at <= S[i + 1].at
  <2> DEFINE a == l[i].at
             z == l[i].size
  <2>1. a \in Nat /\ z \in Nat /\ Header \in Nat /\ z - n - Header \in Nat
    BY <1>1, BlockFacts, HeapAssumption
  <2> HIDE DEF S, m
  <2>2. /\ End(S[i]) = a + Header + n /\ End(S[i + 1]) = (a + n + Header) + Header + (z - n - Header)
        /\ End(l[i]) = a + Header + z /\ S[i + 1].at = a + n + Header
    BY <1>3 DEF End
  <2> HIDE DEF a, z
  <2>3. /\ a + Header + n = a + n + Header
        /\ (a + n + Header) + Header + (z - n - Header) = a + Header + z
        /\ a + Header + n <= a + Header + z /\ a <= a + n + Header
    BY <2>1
  <2>4. /\ End(S[i]) = S[i + 1].at /\ End(S[i + 1]) = End(l[i])
        /\ End(S[i]) <= End(l[i]) /\ a <= S[i + 1].at
    BY <2>2, <2>3
  <2> QED BY <2>4 DEF a
<1> HIDE DEF S, m, W
<1>6. \A j \in 1 .. m : /\ l[W(j)].at <= S[j].at /\ End(S[j]) <= End(l[W(j)])
                        /\ l[W(j)].at \in Nat /\ S[j].at \in Nat
                        /\ End(S[j]) \in Nat /\ End(l[W(j)]) \in Nat
                        /\ j # i + 1 => S[j].at = l[W(j)].at
                        /\ j # i => End(S[j]) = End(l[W(j)])
  <2> TAKE j \in 1 .. m
  <2>1. l[W(j)] \in Blocks /\ S[j] \in Blocks
    BY <1>1, <1>2
  <2>2. /\ l[W(j)].at \in Nat /\ S[j].at \in Nat
        /\ End(S[j]) \in Nat /\ End(l[W(j)]) \in Nat
    BY <2>1, BlockFacts
  <2>3. CASE j # i /\ j # i + 1
    <3>1. S[j] = l[W(j)]
      BY <1>2, <2>3
    <3> QED BY <2>2, <2>3, <3>1
  <2>4. CASE j = i
    <3>1. i # i + 1
      BY <1>1
    <3> QED BY <1>3, <1>4, <1>5, <2>2, <2>4, <3>1
  <2>5. CASE j = i + 1
    <3>1. i # i + 1
      BY <1>1
    <3> QED BY <1>3, <1>4, <1>5, <2>2, <2>5, <3>1
  <2> QED BY <2>3, <2>4, <2>5
<1>7. \A j, k \in 1 .. m : j < k => W(j) < W(k) \/ (j = i /\ k = i + 1)
  <2> TAKE j, k \in 1 .. m
  <2> HAVE j < k
  <2>1. j \in Nat /\ k \in Nat
    BY <1>1 DEF m
  <2> QED BY <1>1, <2>1 DEF W, Was
<1>8. \A j, k \in 1 .. m : j < k => End(S[j]) <= S[k].at
  <2> TAKE j, k \in 1 .. m
  <2> HAVE j < k
  <2>1. CASE W(j) < W(k)
    <3> DEFINE p == W(j)
               q == W(k)
    <3>1. p \in 1 .. Len(l) /\ q \in 1 .. Len(l) /\ p < q
      BY <1>2, <2>1, Zenon
    <3>2. End(S[j]) <= End(l[p]) /\ l[q].at <= S[k].at
      BY <1>6, Zenon
    <3> HIDE DEF p, q, S
    <3>3. End(l[p]) <= l[q].at
      BY <3>1, Zenon DEF Tiles
    <3>4. End(l[p]) \in Nat /\ l[q].at \in Nat
      BY <1>1, <3>1, BlockFacts, Zenon
    <3>5. S[j] \in Blocks /\ S[k] \in Blocks
      BY <1>2, Zenon
    <3>6. End(S[j]) \in Nat /\ S[k].at \in Nat
      BY <3>5, BlockFacts, Zenon
    <3> QED BY <3>2, <3>3, <3>4, <3>6, SMTT(20)
  <2>2. CASE j = i /\ k = i + 1
    BY <1>5, <1>6, <2>2
  <2> QED BY <1>7, <2>1, <2>2
<1>9. ASSUME NEW j \in 1 .. (m - 1) PROVE S[j + 1].at = End(S[j])
  <2>1. m \in Nat /\ j \in Nat /\ j \in 1 .. m /\ j + 1 \in 1 .. m
    BY <1>1 DEF m
  <2>2. CASE j = i
    BY <1>5, <2>2
  <2>3. CASE j # i
    <3>1. W(j + 1) = W(j) + 1
      BY <1>1, <2>1, <2>3 DEF W, Was
    <3>2. W(j) \in 1 .. Len(l) /\ W(j + 1) \in 1 .. Len(l)
      BY <1>2, <2>1
    <3>3. W(j) \in 1 .. (Len(l) - 1)
      BY <1>1, <3>1, <3>2
    <3>4. l[W(j) + 1].at = End(l[W(j)])
      BY <3>3 DEF Tiles
    <3>5. j + 1 # i + 1
      BY <1>1, <2>1, <2>3
    <3> QED BY <1>6, <2>1, <2>3, <3>1, <3>4, <3>5
  <2> QED BY <2>2, <2>3
<1>10. S[1].at = 0
  <2>1. 1 \in 1 .. m /\ W(1) = 1 /\ 1 # i + 1
    BY <1>1 DEF m, W, Was
  <2> QED BY <1>6, <2>1 DEF Tiles
<1>11. End(S[m]) = end
  <2>1. m \in 1 .. m /\ W(m) = Len(l) /\ m # i
    BY <1>1 DEF m, W, Was
  <2> QED BY <1>6, <2>1 DEF Tiles
<1>12. m > 0
  BY <1>1 DEF m
<1> QED BY <1>2, <1>8, <1>9, <1>10, <1>11, <1>12 DEF Tiles, S

(* The piece that is cut off is the only new used block. *)
LEMMA SplitUsed ==
  ASSUME NEW l \in Lists, NEW i \in 1 .. Len(l), NEW n \in Nat, l[i].size - n - Header \in Nat,
         l[i].free
  PROVE  /\ UsedBlocks(Split(l, i, n))
            = UsedBlocks(l) \union {[at |-> l[i].at + Header, size |-> n]}
         /\ l[Len(l)].free => Split(l, i, n)[Len(l) + 1].free
<1> DEFINE S == Split(l, i, n)
           m == Len(l) + 1
<1>1. /\ Len(l) \in Nat /\ i \in Nat /\ 1 <= i /\ i <= Len(l)
  BY ListFacts
<1>2. /\ Len(S) = m
      /\ \A j \in 1 .. m : Was(i, j) \in 1 .. Len(l)
      /\ \A j \in 1 .. m : j # i /\ j # i + 1 => S[j] = l[Was(i, j)]
      /\ i \in 1 .. m /\ i + 1 \in 1 .. m /\ i + 1 # i
      /\ S[i] = Piece(l, i, n)
      /\ S[i + 1] = Rest(l, i, n)
  <2>1. Len(S) = m /\ \A j \in 1 .. m : Was(i, j) \in 1 .. Len(l) /\ S[j] \in Blocks
    BY SplitIs
  <2>2. \A j \in 1 .. m : j # i /\ j # i + 1 => S[j] = l[Was(i, j)]
    BY SplitIs
  <2>3. i \in 1 .. m /\ i + 1 \in 1 .. m /\ i + 1 # i
    BY SplitIs
  <2>4. S[i] = Piece(l, i, n)
    BY SplitIs
  <2>5. S[i + 1] = Rest(l, i, n)
    BY SplitIs
  <2> HIDE DEF S, m
  <2> QED BY <2>1, <2>2, <2>3, <2>4, <2>5
<1> HIDE DEF S
<1>3. ~S[i].free /\ S[i].at = l[i].at /\ S[i].size = n /\ S[i + 1].free
  BY <1>2 DEF Block, Piece, Rest
<1>4. \A j \in 1 .. Len(l) : j # i => \E k \in 1 .. m : k # i /\ k # i + 1 /\ Was(i, k) = j
  <2> TAKE j \in 1 .. Len(l)
  <2> HAVE j # i
  <2>1. CASE j < i
    <3>1. j \in 1 .. m /\ j # i + 1 /\ Was(i, j) = j
      BY <1>1, <2>1 DEF Was
    <3> QED BY <2>1, <3>1
  <2>2. CASE j > i
    <3>1. j + 1 \in 1 .. m /\ j + 1 # i /\ j + 1 # i + 1 /\ Was(i, j + 1) = j
      BY <1>1, <2>2 DEF Was
    <3> QED BY <3>1
  <2> QED BY <1>1, <2>1, <2>2
<1>5. S[m].free \/ ~l[Len(l)].free
  <2>1. CASE i = Len(l)
    BY <1>3, <2>1
  <2>2. CASE i # Len(l)
    <3>1. m \in 1 .. m /\ m # i /\ m # i + 1 /\ Was(i, m) = Len(l)
      BY <1>1, <2>2 DEF Was
    <3> QED BY <1>2, <3>1
  <2> QED BY <2>1, <2>2
<1> HIDE DEF m
<1>6. i \in Used(S) /\ \A j \in Used(S) : j = i \/ (Was(i, j) \in Used(l) /\ S[j] = l[Was(i, j)])
  BY <1>2, <1>3 DEF Used
<1>7. \A j \in Used(l) : \E k \in Used(S) : S[k] = l[j]
  <2> TAKE j \in Used(l)
  <2>1. j \in 1 .. Len(l) /\ j # i /\ ~l[j].free
    BY DEF Used
  <2>2. PICK k \in 1 .. m : k # i /\ k # i + 1 /\ Was(i, k) = j
    BY <1>4, <2>1
  <2> QED BY <1>2, <2>1, <2>2 DEF Used
<1>8. UsedBlocks(S) = UsedBlocks(l) \union {[at |-> l[i].at + Header, size |-> n]}
  <2>1. ASSUME NEW b \in UsedBlocks(S)
        PROVE  b \in UsedBlocks(l) \union {[at |-> l[i].at + Header, size |-> n]}
    <3>1. PICK j \in Used(S) : b = [at |-> S[j].at + Header, size |-> S[j].size]
      BY DEF UsedBlocks
    <3>2. CASE j = i
      BY <1>3, <3>1, <3>2
    <3>3. CASE Was(i, j) \in Used(l) /\ S[j] = l[Was(i, j)]
      BY <3>1, <3>3 DEF UsedBlocks
    <3> QED BY <1>6, <3>2, <3>3
  <2>2. ASSUME NEW b \in UsedBlocks(l) PROVE b \in UsedBlocks(S)
    <3>1. PICK j \in Used(l) : b = [at |-> l[j].at + Header, size |-> l[j].size]
      BY DEF UsedBlocks
    <3>2. PICK k \in Used(S) : S[k] = l[j]
      BY <1>7
    <3> QED BY <3>1, <3>2 DEF UsedBlocks
  <2>3. [at |-> l[i].at + Header, size |-> n] \in UsedBlocks(S)
    BY <1>3, <1>6 DEF UsedBlocks
  <2> QED BY <2>1, <2>2, <2>3
<1> QED BY <1>5, <1>8 DEF S, m

(* Only places and sizes decide whether a list tiles. *)
LEMMA SameShape ==
  ASSUME NEW l \in Lists, NEW s \in Lists, Len(s) = Len(l),
         \A j \in 1 .. Len(l) : s[j].at = l[j].at /\ s[j].size = l[j].size,
         NEW end, Tiles(l, end)
  PROVE  Tiles(s, end)
<1>1. Len(l) \in Nat /\ Len(l) > 0
  BY DEF Lists, Tiles
<1>2. \A j \in 1 .. Len(l) : s[j].at = l[j].at /\ End(s[j]) = End(l[j])
  BY DEF End
<1>3. \A j \in 1 .. (Len(l) - 1) : j \in 1 .. Len(l) /\ j + 1 \in 1 .. Len(l)
  BY <1>1
<1>4. 1 \in 1 .. Len(l) /\ Len(l) \in 1 .. Len(l)
  BY <1>1
<1>5. \A j \in 1 .. (Len(l) - 1) : s[j + 1].at = End(s[j])
  BY <1>2, <1>3 DEF Tiles
<1>6. \A i, j \in 1 .. Len(l) : i < j => End(s[i]) <= s[j].at
  BY <1>2 DEF Tiles
<1>7. s[1].at = 0 /\ End(s[Len(l)]) = end
  BY <1>2, <1>4 DEF Tiles
<1> QED BY <1>1, <1>5, <1>6, <1>7 DEF Tiles

(* An exact fit: block i is marked. *)
Marked(l, i) == [l EXCEPT ![i].free = FALSE]

LEMMA MarkedFacts ==
  ASSUME NEW l \in Lists, NEW i \in 1 .. Len(l)
  PROVE  /\ Marked(l, i) \in Lists /\ Len(Marked(l, i)) = Len(l)
         /\ \A end : Tiles(l, end) => Tiles(Marked(l, i), end)
         /\ l[i].free => UsedBlocks(Marked(l, i))
                         = UsedBlocks(l) \union {[at |-> l[i].at + Header, size |-> l[i].size]}
         /\ l[Len(l)].free /\ i # Len(l) => Marked(l, i)[Len(l)].free
<1> DEFINE S == Marked(l, i)
           b == [l[i] EXCEPT !.free = FALSE]
<1>1. Len(l) \in Nat /\ \A j \in 1 .. Len(l) : l[j] \in Blocks
  BY ListFacts
<1>2. b \in Blocks /\ b.at = l[i].at /\ b.size = l[i].size /\ ~b.free
  BY <1>1 DEF Blocks
<1> HIDE DEF b
<1>3. S = [l EXCEPT ![i] = b]
  BY DEF Marked, b
<1>4. S \in Lists /\ Len(S) = Len(l) /\ \A j \in 1 .. Len(l) : S[j] = IF j = i THEN b ELSE l[j]
  BY <1>2, <1>3, ExceptSeq DEF Lists
<1> HIDE DEF S
<1>5. \A j \in 1 .. Len(l) : S[j].at = l[j].at /\ S[j].size = l[j].size
  BY <1>2, <1>4
<1>6. \A end : Tiles(l, end) => Tiles(S, end)
  BY <1>4, <1>5, SameShape
<1>7. Used(S) = Used(l) \union {i}
  BY <1>2, <1>4 DEF Used
<1>8. UsedBlocks(S) = UsedBlocks(l) \union {[at |-> l[i].at + Header, size |-> l[i].size]}
  <2>1. \A j \in Used(l) \union {i} : j \in 1 .. Len(l)
    BY DEF Used
  <2> QED BY <1>5, <1>7, <2>1 DEF UsedBlocks
<1>9. l[Len(l)].free /\ i # Len(l) => S[Len(l)].free
  BY <1>1, <1>4
<1> QED BY <1>4, <1>6, <1>8, <1>9 DEF S

(* Growth: k pages are added to the size of block i. *)
Grown(l, i, k) == [l EXCEPT ![i].size = @ + k * Page]

LEMMA GrownFacts ==
  ASSUME NEW l \in Lists, NEW i \in 1 .. Len(l), NEW k \in Nat
  PROVE  /\ Grown(l, i, k) \in Lists /\ Len(Grown(l, i, k)) = Len(l)
         /\ Grown(l, i, k)[i].at = l[i].at /\ Grown(l, i, k)[i].free = l[i].free
         /\ Grown(l, i, k)[i].size = l[i].size + k * Page
         /\ \A end \in Nat : Tiles(l, end) /\ i = Len(l) => Tiles(Grown(l, i, k), end + k * Page)
         /\ l[i].free => UsedBlocks(Grown(l, i, k)) = UsedBlocks(l)
<1> DEFINE S == Grown(l, i, k)
           x == k * Page
           b == [l[i] EXCEPT !.size = @ + k * Page]
<1>1. Len(l) \in Nat /\ \A j \in 1 .. Len(l) : l[j] \in Blocks
  BY ListFacts
<1>2. x \in Nat
  BY HeapAssumption
<1>3. b \in Blocks /\ b.at = l[i].at /\ b.size = l[i].size + x /\ b.free = l[i].free
  <2> HIDE DEF x
  <2>1. l[i] \in Blocks /\ l[i].size \in Nat /\ b = [l[i] EXCEPT !.size = l[i].size + x]
    BY <1>1 DEF Blocks, x
  <2> HIDE DEF b
  <2>2. l[i].size + x \in Nat
    BY <1>2, <2>1
  <2> QED BY <2>1, <2>2 DEF Blocks
<1> HIDE DEF b
<1>4. S = [l EXCEPT ![i] = b]
  BY DEF Grown, b
<1>5. S \in Lists /\ Len(S) = Len(l) /\ \A j \in 1 .. Len(l) : S[j] = IF j = i THEN b ELSE l[j]
  BY <1>3, <1>4, ExceptSeq DEF Lists
<1> HIDE DEF S
<1>6. \A j \in 1 .. Len(l) : S[j].at = l[j].at /\ S[j].free = l[j].free
  BY <1>3, <1>5
<1>7. ASSUME NEW end \in Nat, Tiles(l, end), i = Len(l)
      PROVE  Tiles(S, end + x)
  <2>1. \A j \in 1 .. Len(l) : j # Len(l) => S[j] = l[j]
    BY <1>5, <1>7
  <2>2. End(S[Len(l)]) = end + x
    <3>1. End(l[i]) = end /\ S[i] = b
      BY <1>5, <1>7 DEF Tiles
    <3>2. l[i].at \in Nat /\ l[i].size \in Nat /\ Header \in Nat
      BY <1>1, HeapAssumption, BlockFacts
    <3> HIDE DEF x
    <3>3. End(b) = l[i].at + Header + (l[i].size + x)
      BY <1>3 DEF End
    <3>4. End(l[i]) = l[i].at + Header + l[i].size
      BY DEF End
    <3> QED BY <1>2, <1>7, <3>1, <3>2, <3>3, <3>4, SMTT(20)
  <2>3. \A j \in 1 .. (Len(l) - 1) : j \in 1 .. Len(l) /\ j + 1 \in 1 .. Len(l) /\ j # Len(l)
    BY <1>1
  <2>4. \A j \in 1 .. (Len(l) - 1) : S[j + 1].at = End(S[j])
    BY <1>6, <1>7, <2>1, <2>3 DEF Tiles
  <2>5. \A j, m \in 1 .. Len(l) : j < m => End(S[j]) <= S[m].at
    <3> TAKE j, m \in 1 .. Len(l)
    <3> HAVE j < m
    <3>1. j # Len(l)
      BY <1>1
    <3> QED BY <1>6, <1>7, <2>1, <3>1 DEF Tiles
  <2>6. Len(l) > 0 /\ S[1].at = 0
    <3>1. Len(l) > 0 /\ 1 \in 1 .. Len(l)
      BY <1>1, <1>7 DEF Tiles
    <3> QED BY <1>6, <1>7, <3>1 DEF Tiles
  <2> QED BY <1>5, <2>2, <2>4, <2>5, <2>6 DEF Tiles
<1>8. ASSUME l[i].free PROVE UsedBlocks(S) = UsedBlocks(l)
  <2>1. Used(S) = Used(l)
    BY <1>5, <1>6 DEF Used
  <2>2. \A j \in Used(l) : S[j] = l[j]
    BY <1>5, <1>8 DEF Used
  <2> QED BY <2>1, <2>2 DEF UsedBlocks
<1> HIDE DEF x
<1>9. S[i].at = l[i].at /\ S[i].free = l[i].free /\ S[i].size = l[i].size + x
  BY <1>3, <1>5
<1> QED BY <1>5, <1>7, <1>8, <1>9 DEF S, x

(* No two blocks begin at the same place. *)
LEMMA PlacesDiffer ==
  ASSUME NEW l \in Lists, NEW end, Tiles(l, end)
  PROVE  \A i, j \in 1 .. Len(l) : l[i].at = l[j].at => i = j
<1>1. \A i, j \in 1 .. Len(l) : i < j => l[i].at < l[j].at
  <2> TAKE i, j \in 1 .. Len(l)
  <2> HAVE i < j
  <2>1. End(l[i]) <= l[j].at
    BY DEF Tiles
  <2>2. l[i] \in Blocks /\ l[j] \in Blocks
    BY ListFacts
  <2>3. l[i].at \in Nat /\ l[i].size \in Nat /\ l[j].at \in Nat /\ End(l[i]) = l[i].at + Header + l[i].size
    BY <2>2, BlockFacts
  <2>4. Header \in Nat /\ Header > 0
    BY HeapAssumption
  <2> QED BY <2>1, <2>3, <2>4
<1>2. \A i \in 1 .. Len(l) : i \in Nat /\ l[i].at \in Nat
  BY ListFacts, BlockFacts
<1> TAKE i, j \in 1 .. Len(l)
<1> HAVE l[i].at = l[j].at
<1>3. ~(i < j) /\ ~(j < i)
  BY <1>1, <1>2
<1> QED BY <1>2, <1>3

(* What Free finds, and the list with those blocks marked free. *)
Hits(l, p) == {i \in 1 .. (Len(l) - 1) : l[i].at + Header = p.at}
Freed(l, H) == [j \in DOMAIN l |-> IF j \in H THEN [l[j] EXCEPT !.free = TRUE] ELSE l[j]]

LEMMA FreedType ==
  ASSUME NEW l \in Lists, NEW H
  PROVE  /\ Freed(l, H) \in Lists /\ Len(Freed(l, H)) = Len(l)
         /\ \A j \in 1 .. Len(l) : /\ Freed(l, H)[j].at = l[j].at /\ Freed(l, H)[j].size = l[j].size
                                   /\ Freed(l, H)[j].free = (l[j].free \/ j \in H)
         /\ \A end : Tiles(l, end) => Tiles(Freed(l, H), end)
<1> DEFINE S == Freed(l, H)
           B(j) == IF j \in H THEN [l[j] EXCEPT !.free = TRUE] ELSE l[j]
<1>1. /\ Len(l) \in Nat /\ DOMAIN l = 1 .. Len(l)
      /\ \A j \in 1 .. Len(l) : l[j] \in Blocks
  BY ListFacts, LenProperties DEF Lists
<1>2. \A j \in 1 .. Len(l) : /\ B(j) \in Blocks /\ B(j).at = l[j].at /\ B(j).size = l[j].size
                             /\ B(j).free = (l[j].free \/ j \in H)
  <2> TAKE j \in 1 .. Len(l)
  <2>1. CASE j \in H
    BY <1>1, <2>1 DEF Blocks
  <2>2. CASE j \notin H
    <3>1. l[j] \in Blocks /\ l[j].free \in BOOLEAN
      BY <1>1 DEF Blocks
    <3> QED BY <2>2, <3>1
  <2> QED BY <2>1, <2>2
<1> HIDE DEF B
<1>3. S = [j \in 1 .. Len(l) |-> B(j)]
  BY <1>1 DEF Freed, B
<1>4. S \in Seq(Blocks) /\ Len(S) = Len(l) /\ \A j \in 1 .. Len(l) : S[j] = B(j)
  BY <1>1, <1>2, <1>3
<1> HIDE DEF S
<1>5. S \in Lists
  BY <1>4 DEF Lists
<1>6. \A j \in 1 .. Len(l) : S[j].at = l[j].at /\ S[j].size = l[j].size
  BY <1>2, <1>4
<1>7. \A end : Tiles(l, end) => Tiles(S, end)
  BY <1>4, <1>5, <1>6, SameShape
<1>8. \A j \in 1 .. Len(l) : S[j].free = (l[j].free \/ j \in H)
  BY <1>2, <1>4
<1> QED BY <1>4, <1>5, <1>6, <1>7, <1>8 DEF S

(* Free gives back the block that malloc handed out, unless it is the last. *)
LEMMA FreedUsed ==
  ASSUME NEW l \in Lists, NEW end, Tiles(l, end), NEW p \in UsedBlocks(l)
  PROVE  /\ Hits(l, p) # {} => UsedBlocks(Freed(l, Hits(l, p))) = UsedBlocks(l) \ {p}
         /\ l[Len(l)].free => Hits(l, p) # {} /\ Freed(l, Hits(l, p))[Len(l)].free
<1> DEFINE H == Hits(l, p)
           S == Freed(l, H)
<1>1. Len(l) \in Nat /\ Len(l) > 0
  BY ListFacts DEF Tiles
<1>2. PICK i \in Used(l) : p = [at |-> l[i].at + Header, size |-> l[i].size]
  BY DEF UsedBlocks
<1>3. i \in 1 .. Len(l) /\ ~l[i].free
  BY DEF Used
<1>4. \A j \in 1 .. Len(l) : l[j].at + Header = l[i].at + Header => j = i
  <2>1. \A j \in 1 .. Len(l) : l[j].at \in Nat
    BY ListFacts, BlockFacts
  <2>2. \A j \in 1 .. Len(l) : l[j].at + Header = l[i].at + Header => l[j].at = l[i].at
    BY <1>3, <2>1, HeapAssumption
  <2> QED BY <1>3, <2>2, PlacesDiffer
<1>5. H \subseteq {i}
  <2>1. \A j \in 1 .. (Len(l) - 1) : j \in 1 .. Len(l)
    BY <1>1
  <2> QED BY <1>2, <1>4, <2>1 DEF Hits
<1>6. /\ Len(S) = Len(l)
      /\ \A j \in 1 .. Len(l) : /\ S[j].at = l[j].at /\ S[j].size = l[j].size
                                /\ S[j].free = (l[j].free \/ j \in H)
  BY FreedType
<1>7. l[Len(l)].free => H # {} /\ S[Len(l)].free
  <2>1. l[Len(l)].free => i # Len(l)
    BY <1>3
  <2>2. i # Len(l) => i \in 1 .. (Len(l) - 1)
    BY <1>1, <1>3
  <2>3. i # Len(l) => i \in H
    BY <1>2, <2>2 DEF Hits
  <2>4. Len(l) \in 1 .. Len(l)
    BY <1>1
  <2> HIDE DEF S, H
  <2>5. l[Len(l)].free => S[Len(l)].free
    BY <1>6, <2>4
  <2> QED BY <2>1, <2>3, <2>5
<1> HIDE DEF S, H
<1>8. ASSUME H # {} PROVE UsedBlocks(S) = UsedBlocks(l) \ {p}
  <2>1. Used(S) = Used(l) \ {i}
    BY <1>5, <1>6, <1>8 DEF Used
  <2>2. \A j \in Used(l) : j \in 1 .. Len(l) /\ S[j].at = l[j].at /\ S[j].size = l[j].size
    BY <1>6 DEF Used
  <2>3. \A j \in Used(l) : [at |-> l[j].at + Header, size |-> l[j].size] = p => j = i
    BY <1>2, <1>4, <2>2
  <2> QED BY <1>2, <2>1, <2>2, <2>3 DEF UsedBlocks
<1> QED BY <1>7, <1>8 DEF S, H
-----------------------------------------------------------------------------
(* Pages and frames. *)

(* Rounding up loses nothing. *)
LEMMA RoundedUp ==
  ASSUME NEW x \in Nat
  PROVE  /\ (x + Page - 1) \div Page \in Nat
         /\ ((x + Page - 1) \div Page) * Page >= x
         /\ x > 0 => (x + Page - 1) \div Page >= 1
<1> DEFINE y == x + Page - 1
           q == y \div Page
           r == y % Page
<1>1. Page \in Nat /\ Page > 0
  BY HeapAssumption
<1>2. y \in Nat /\ y = x + Page - 1
  BY <1>1
<1> HIDE DEF y
<1>3. q \in Nat /\ r \in Nat /\ r < Page /\ y = Page * q + r
  BY <1>1, <1>2
<1> HIDE DEF q, r
<1>4. q * Page = Page * q /\ q * Page \in Nat
  BY <1>1, <1>3
<1>5. q * Page >= x
  BY <1>1, <1>2, <1>3, <1>4
<1>6. x > 0 => q >= 1
  <2> SUFFICES ASSUME x > 0, q = 0 PROVE FALSE
    BY <1>3
  <2>1. q * Page = 0
    BY <1>1
  <2> QED BY <1>5, <2>1
<1> QED BY <1>3, <1>5, <1>6 DEF q, y

LEMMA PagesSuffice ==
  ASSUME NEW l \in Lists, NEW i \in 1 .. Len(l), NEW n \in Nat, l[i].size <= n + Header
  PROVE  /\ NewPages(l, i, n) \in Nat /\ NewPages(l, i, n) >= 1
         /\ l[i].size + NewPages(l, i, n) * Page - n - Header \in Nat
<1> DEFINE z == l[i].size
           x == n + Header - z
           k == NewPages(l, i, n)
           w == (x + Page - 1) \div Page
<1>1. z \in Nat /\ Header \in Nat /\ Page \in Nat /\ Page > 0
  BY ListFacts, BlockFacts, HeapAssumption
<1>2. z <= n + Header /\ k = IF w < 1 THEN 1 ELSE w
  BY DEF NewPages, PagesWanted
<1> HIDE DEF z, k
<1>3. x \in Nat /\ x = n + Header - z
  BY <1>1, <1>2
<1> HIDE DEF x
<1>4. w \in Nat /\ w * Page >= x /\ (x > 0 => w >= 1)
  BY <1>3, RoundedUp
<1> HIDE DEF w
<1>5. k \in Nat /\ k >= 1 /\ k * Page \in Nat
  BY <1>1, <1>2, <1>4
<1>6. k * Page >= x
  <2>1. CASE w < 1
    BY <1>1, <1>3, <1>4, <1>5, <2>1
  <2>2. CASE ~(w < 1)
    BY <1>2, <1>4, <2>2
  <2> QED BY <2>1, <2>2
<1> DEFINE y == k * Page
<1>7. y \in Nat /\ y >= x
  BY <1>5, <1>6
<1> HIDE DEF y
<1>8. z + y - n - Header \in Nat
  BY <1>1, <1>3, <1>7
<1> QED BY <1>5, <1>8 DEF y, k, z

LEMMA FreshFacts ==
  /\ InitialPages(TaskSize) \in Nat
  /\ Fresh(TaskSize) \in Lists /\ Len(Fresh(TaskSize)) = 1
  /\ Fresh(TaskSize)[1].free /\ Fresh(TaskSize)[1].at = 0
  /\ Tiles(Fresh(TaskSize), InitialPages(TaskSize) * Page)
  /\ UsedBlocks(Fresh(TaskSize)) = {}
<1> DEFINE k == InitialPages(TaskSize)
           y == k * Page
           b == Block(0, y - Header, TRUE)
<1>1. TaskSize \in Nat /\ TaskSize > 0 /\ Page \in Nat /\ Page > 0 /\ Header \in Nat /\ Header < Page
  BY HeapAssumption
<1>2. k \in Nat /\ k >= 1
  <2>1. (TaskSize + Page - 1) \div Page \in Nat /\ (TaskSize + Page - 1) \div Page >= 1
    BY <1>1, RoundedUp
  <2> QED BY <2>1 DEF InitialPages
<1>3. y \in Nat /\ y >= Page
  BY <1>1, <1>2
<1>4. Fresh(TaskSize) = <<b>>
  BY DEF Fresh
<1> HIDE DEF k
<1> HIDE DEF y
<1>5. y - Header \in Nat /\ 0 + Header + (y - Header) = y
  BY <1>1, <1>3
<1>6. b \in Blocks /\ b.free /\ b.at = 0 /\ End(b) = y
  BY <1>5 DEF Blocks, Block, End
<1> HIDE DEF b
<1>7. <<b>> \in Seq(Blocks) /\ Len(<<b>>) = 1 /\ <<b>>[1] = b
  BY <1>6
<1> DEFINE s == <<b>>
<1> HIDE DEF s
<1>8. s \in Lists /\ Len(s) = 1 /\ s[1] = b
  BY <1>7 DEF s, Lists
<1>9. Tiles(s, y)
  <2>1. \A i, j \in 1 .. 1 : ~(i < j)
    OBVIOUS
  <2>2. 1 .. (1 - 1) = {}
    OBVIOUS
  <2> QED BY <1>6, <1>8, <2>1, <2>2 DEF Tiles
<1>10. UsedBlocks(s) = {}
  <2>1. \A i \in 1 .. 1 : i = 1
    OBVIOUS
  <2> QED BY <1>6, <1>8, <2>1 DEF UsedBlocks, Used
<1> QED BY <1>2, <1>4, <1>6, <1>8, <1>9, <1>10 DEF s, k, y

LEMMA FirstFitFacts ==
  ASSUME NEW l \in Lists, Len(l) > 0, NEW n \in Nat
  PROVE  FirstFit(l, n) \in 1 .. Len(l)
<1>1. CASE Fits(l, n) = {}
  BY <1>1, ListFacts DEF FirstFit
<1>2. CASE Fits(l, n) # {}
  <2>1. Fits(l, n) \in SUBSET Nat
    BY DEF Fits
  <2>2. \E i \in Fits(l, n) : \A j \in Fits(l, n) : i <= j
    BY <1>2, <2>1, LeastInNat
  <2>3. FirstFit(l, n) \in Fits(l, n)
    BY <1>2, <2>2 DEF FirstFit
  <2> QED BY <2>3 DEF Fits
<1> QED BY <1>1, <1>2

(* The ways in which a list is written back. *)
LEMMA CutFacts ==
  ASSUME NEW l \in Lists, NEW i \in 1 .. Len(l), NEW n \in Nat, l[i].size - n - Header \in Nat
  PROVE  /\ Merged(Split(l, i, n)) \in Lists /\ Len(Merged(Split(l, i, n))) > 0
         /\ \A end : Tiles(l, end) => Tiles(Merged(Split(l, i, n)), end)
         /\ l[i].free => UsedBlocks(Merged(Split(l, i, n)))
                         = UsedBlocks(l) \union {[at |-> l[i].at + Header, size |-> n]}
         /\ l[i].free /\ l[Len(l)].free => Merged(Split(l, i, n))[Len(Merged(Split(l, i, n)))].free
<1> DEFINE S == Split(l, i, n)
<1>1. S \in Lists /\ Len(S) = Len(l) + 1
  BY SplitIs
<1>2. \A end : Tiles(l, end) => Tiles(S, end)
  BY SplitTiles
<1>3. l[i].free => UsedBlocks(S) = UsedBlocks(l) \union {[at |-> l[i].at + Header, size |-> n]}
  BY SplitUsed
<1>4. l[i].free /\ l[Len(l)].free => S[Len(l) + 1].free
  BY SplitUsed
<1> HIDE DEF S
<1>5. Len(S) > 0
  BY <1>1, ListFacts
<1>6. Merged(S) \in Lists /\ Len(Merged(S)) > 0
  BY <1>1, <1>5, MergedType
<1>7. UsedBlocks(Merged(S)) = UsedBlocks(S) /\ (S[Len(S)].free => Merged(S)[Len(Merged(S))].free)
  BY <1>1, <1>5, MergedUsed
<1>8. \A end : Tiles(l, end) => Tiles(Merged(S), end)
  BY <1>1, <1>2, MergedTiles
<1> QED BY <1>1, <1>3, <1>4, <1>6, <1>7, <1>8 DEF S

LEMMA ExactFacts ==
  ASSUME NEW l \in Lists, NEW i \in 1 .. Len(l)
  PROVE  /\ Merged(Marked(l, i)) \in Lists /\ Len(Merged(Marked(l, i))) > 0
         /\ \A end : Tiles(l, end) => Tiles(Merged(Marked(l, i)), end)
         /\ l[i].free => UsedBlocks(Merged(Marked(l, i)))
                         = UsedBlocks(l) \union {[at |-> l[i].at + Header, size |-> l[i].size]}
         /\ i # Len(l) /\ l[Len(l)].free => Merged(Marked(l, i))[Len(Merged(Marked(l, i)))].free
<1> DEFINE S == Marked(l, i)
<1>1. S \in Lists /\ Len(S) = Len(l) /\ \A end : Tiles(l, end) => Tiles(S, end)
  BY MarkedFacts
<1>2. l[i].free => UsedBlocks(S) = UsedBlocks(l) \union {[at |-> l[i].at + Header, size |-> l[i].size]}
  BY MarkedFacts
<1>3. i # Len(l) /\ l[Len(l)].free => S[Len(l)].free
  BY MarkedFacts
<1> HIDE DEF S
<1>4. Len(S) > 0
  BY <1>1, ListFacts
<1>5. Merged(S) \in Lists /\ Len(Merged(S)) > 0
  BY <1>1, <1>4, MergedType
<1>6. UsedBlocks(Merged(S)) = UsedBlocks(S) /\ (S[Len(S)].free => Merged(S)[Len(Merged(S))].free)
  BY <1>1, <1>4, MergedUsed
<1>7. \A end : Tiles(l, end) => Tiles(Merged(S), end)
  BY <1>1, MergedTiles
<1> QED BY <1>1, <1>2, <1>3, <1>5, <1>6, <1>7 DEF S
-----------------------------------------------------------------------------
(* The inductive invariant. *)

(* Before the first call nothing has been taken. *)
Blank == list = <<>> =>
  /\ pages = 0 /\ noFrame = {} /\ tables = {} /\ frames \in 0 .. FrameCount
  /\ live = {} /\ wild = "no"

(* Until blocks overlap they tile the pages, and what somebody holds is used. *)
Tiled == wild # "overlap" =>
  /\ list # <<>> => Tiles(list, pages * Page)
  /\ live \subseteq UsedBlocks(list)

(* Until the last block is taken, it is free and what is used is held. *)
Held == wild = "no" =>
  /\ live = UsedBlocks(list)
  /\ list # <<>> => list[Len(list)].free

Inv == TypeOK /\ FramesAccounted /\ Blank /\ Tiled /\ Held

LEMMA TypeFacts ==
  ASSUME TypeOK
  PROVE  /\ list \in Lists /\ pages \in Nat /\ frames \in Int /\ frames <= FrameCount
         /\ FrameCount \in Nat /\ elsewhere \in Nat /\ -InitialPages(TaskSize) <= frames
         /\ list # <<>> => Len(list) > 0
<1>1. list \in Lists
  BY DEF TypeOK, Lists, Blocks
<1>2. list # <<>> => Len(list) > 0
  <2>1. list # <<>> => Len(list) \in Nat \ {0}
    BY <1>1, EmptySeq DEF Lists
  <2> QED BY <2>1
<1>3. FrameCount \in Nat
  BY HeapAssumption
<1> DEFINE k == InitialPages(TaskSize)
<1>4. pages \in Nat /\ frames \in (-k) .. FrameCount /\ elsewhere \in 0 .. FrameCount /\ k \in Nat
  BY FreshFacts DEF TypeOK
<1> HIDE DEF k
<1>5. frames \in Int /\ frames <= FrameCount /\ elsewhere \in Nat /\ -k <= frames
  BY <1>3, <1>4
<1> QED BY <1>1, <1>2, <1>3, <1>4, <1>5 DEF k

LEMMA InitInv == Init => Inv
<1> SUFFICES ASSUME Init PROVE Inv
  OBVIOUS
<1> USE DEF Init
<1>1. TypeOK
  <2>1. <<>> \in Seq([at : Nat, size : Nat, free : BOOLEAN])
    OBVIOUS
  <2>2. [at |-> Null, wasFree |-> TRUE] \in [at : Nat \union {Null}, wasFree : BOOLEAN]
    OBVIOUS
  <2> DEFINE k == InitialPages(TaskSize)
  <2>3. k \in Nat /\ FrameCount \in Nat /\ frames \in 0 .. FrameCount /\ elsewhere = FrameCount - frames
    BY FreshFacts, HeapAssumption
  <2> HIDE DEF k
  <2>4. frames \in (-k) .. FrameCount /\ elsewhere \in 0 .. FrameCount
    BY <2>3
  <2> QED BY <2>1, <2>2, <2>4 DEF TypeOK, k
<1>2. FramesAccounted
  <2>1. frames \in Int /\ elsewhere = FrameCount - frames /\ FrameCount \in Int
    BY HeapAssumption
  <2>2. frames + elsewhere + (0 - 0) + 0 = FrameCount
    BY <2>1
  <2>3. Cardinality({}) = 0
    BY FS_EmptySet
  <2>4. Unmapped = {}
    BY DEF Unmapped
  <2> QED BY <2>2, <2>3, <2>4 DEF FramesAccounted
<1>3. UsedBlocks(<<>>) = {}
  BY DEF UsedBlocks, Used
<1> QED BY <1>1, <1>2, <1>3 DEF Inv, Blank, Tiled, Held

(* Frames, while pages are mapped: n pages count, and the first c of them   *)
(* have been through map_page.                                             *)
Counted(m, n, c) ==
  /\ m \in [left : Int, noFrame : SUBSET (0 .. (n - 1)),
            tables : SUBSET {p \div TableSpan : p \in 0 .. (n - 1)}]
  /\ -InitialPages(TaskSize) <= m.left /\ m.left <= FrameCount
  /\ m.left + elsewhere + (n - Cardinality(m.noFrame)) + Cardinality(m.tables) = FrameCount
  /\ m.left > 0 => /\ m.noFrame \subseteq 0 .. (InitialPages(TaskSize) - 1)
                   /\ \A p \in 0 .. (c - 1) : p \div TableSpan \in m.tables

FrameTypes ==
  /\ frames \in (-InitialPages(TaskSize)) .. FrameCount
  /\ elsewhere \in 0 .. FrameCount
  /\ noFrame \subseteq 0 .. (pages - 1)
  /\ tables \subseteq {p \div TableSpan : p \in 0 .. (pages - 1)}

LEMMA CountedFinite ==
  ASSUME NEW n \in Nat, NEW bare, bare \subseteq 0 .. (n - 1),
         NEW t, t \subseteq {p \div TableSpan : p \in 0 .. (n - 1)}
  PROVE  /\ IsFiniteSet(bare) /\ Cardinality(bare) \in Nat /\ Cardinality(bare) <= n
         /\ IsFiniteSet(t) /\ Cardinality(t) \in Nat
<1>1. IsFiniteSet(0 .. (n - 1)) /\ Cardinality(0 .. (n - 1)) = n
  <2>1. 0 \in Int /\ n - 1 \in Int /\ (IF 0 > n - 1 THEN 0 ELSE (n - 1) - 0 + 1) = n
    OBVIOUS
  <2> QED BY <2>1, FS_Interval
<1>2. IsFiniteSet(bare) /\ Cardinality(bare) <= n
  <2> DEFINE dom == 0 .. (n - 1)
  <2>1. IsFiniteSet(dom) /\ bare \subseteq dom /\ Cardinality(dom) = n
    BY <1>1
  <2> HIDE DEF dom
  <2> QED BY <2>1, FS_Subset
<1> DEFINE Of(p) == p \div TableSpan
           all == {Of(p) : p \in 0 .. (n - 1)}
<1>3. IsFiniteSet(all)
  <2> DEFINE dom == 0 .. (n - 1)
             f == [p \in dom |-> Of(p)]
  <2> HIDE DEF Of
  <2>1. f \in Surjection(dom, all)
    BY DEF Surjection
  <2> HIDE DEF f, dom, all
  <2>2. IsFiniteSet(dom)
    BY <1>1 DEF dom
  <2> QED BY <2>1, <2>2, FS_Surjection
<1>4. IsFiniteSet(t)
  <2>1. t \subseteq all
    OBVIOUS
  <2> HIDE DEF all
  <2> QED BY <1>3, <2>1, FS_Subset
<1> QED BY <1>2, <1>4, FS_CardinalityType

(* allocate_page for one more page. *)
LEMMA TakePageCounts ==
  ASSUME NEW m, NEW n \in Nat, Counted(m, n, n), elsewhere \in Nat
  PROVE  Counted(TakePage(m, n), n + 1, n)
<1> DEFINE I == InitialPages(TaskSize)
           Of(p) == p \div TableSpan
           bare == m.noFrame
           t == m.tables
           c == Cardinality(bare)
           d == Cardinality(t)
           r == TakePage(m, n)
<1>1. /\ m = [left |-> m.left, noFrame |-> bare, tables |-> t] /\ m.left \in Int
      /\ bare \subseteq 0 .. (n - 1) /\ t \subseteq {Of(p) : p \in 0 .. (n - 1)}
      /\ -I <= m.left /\ m.left <= FrameCount
      /\ m.left + elsewhere + (n - c) + d = FrameCount
      /\ m.left > 0 => /\ bare \subseteq 0 .. (I - 1) /\ \A p \in 0 .. (n - 1) : Of(p) \in t
  BY DEF Counted
<1>2. IsFiniteSet(bare) /\ c \in Nat /\ d \in Nat
  BY <1>1, CountedFinite
<1>3. I \in Nat /\ FrameCount \in Nat
  BY FreshFacts, HeapAssumption
<1>4. 0 .. (n - 1) \subseteq 0 .. (n + 1 - 1) /\ n \in 0 .. (n + 1 - 1) /\ n \notin 0 .. (n - 1)
  OBVIOUS
<1>5. bare \subseteq 0 .. (n + 1 - 1) /\ t \subseteq {Of(p) : p \in 0 .. (n + 1 - 1)} /\ n \notin bare
  <2> HIDE DEF Of, bare, t
  <2> QED BY <1>1, <1>4
<1> HIDE DEF I, Of, c, d
<1>6. CASE m.left > 0
  <2>1. r = [left |-> m.left - 1, noFrame |-> bare, tables |-> t]
    BY <1>1, <1>6 DEF TakePage
  <2>2. /\ m.left - 1 \in Int /\ -I <= m.left - 1 /\ m.left - 1 <= FrameCount
        /\ (m.left - 1) + elsewhere + ((n + 1) - c) + d = FrameCount
    BY <1>1, <1>2, <1>3, <1>6
  <2>3. bare \subseteq 0 .. (I - 1) /\ \A p \in 0 .. (n - 1) : Of(p) \in t
    BY <1>1, <1>6
  <2>4. r.left = m.left - 1 /\ r.noFrame = bare /\ r.tables = t
    BY <2>1
  <2>5. r \in [left : Int, noFrame : SUBSET (0 .. (n + 1 - 1)), tables : SUBSET {Of(p) : p \in 0 .. (n + 1 - 1)}]
    BY <1>5, <2>1, <2>2
  <2> HIDE DEF r, bare, t
  <2> QED BY <2>2, <2>3, <2>4, <2>5 DEF Counted, I, Of, c, d, r
<1>7. CASE ~(m.left > 0)
  <2> DEFINE more == bare \union {n}
  <2>1. r = [left |-> m.left, noFrame |-> more, tables |-> t]
    BY <1>1, <1>7 DEF TakePage
  <2>2. Cardinality(more) = c + 1
    BY <1>2, <1>5, FS_AddElement DEF c
  <2>3. m.left + elsewhere + ((n + 1) - (c + 1)) + d = FrameCount
    BY <1>1, <1>2, <1>3
  <2>4. r.left = m.left /\ r.noFrame = more /\ r.tables = t
    BY <2>1
  <2>5. more \subseteq 0 .. (n + 1 - 1)
    BY <1>4, <1>5
  <2>6. r \in [left : Int, noFrame : SUBSET (0 .. (n + 1 - 1)), tables : SUBSET {Of(p) : p \in 0 .. (n + 1 - 1)}]
    BY <1>1, <1>5, <2>1, <2>5
  <2> HIDE DEF r, more, bare, t
  <2> QED BY <1>1, <1>7, <2>2, <2>3, <2>4, <2>6 DEF Counted, I, Of, c, d, r
<1> QED BY <1>6, <1>7

(* map_page of the next page. *)
LEMMA MapPageCounts ==
  ASSUME NEW m, NEW n \in Nat, NEW q \in Nat, q < n, Counted(m, n, q), elsewhere \in Nat
  PROVE  Counted(MapPage(m, q), n, q + 1)
<1> DEFINE I == InitialPages(TaskSize)
           Of(p) == p \div TableSpan
           bare == m.noFrame
           t == m.tables
           c == Cardinality(bare)
           d == Cardinality(t)
           r == MapPage(m, q)
<1>1. /\ m = [left |-> m.left, noFrame |-> bare, tables |-> t] /\ m.left \in Int
      /\ bare \subseteq 0 .. (n - 1) /\ t \subseteq {Of(p) : p \in 0 .. (n - 1)}
      /\ -I <= m.left /\ m.left <= FrameCount
      /\ m.left + elsewhere + (n - c) + d = FrameCount
      /\ m.left > 0 => /\ bare \subseteq 0 .. (I - 1) /\ \A p \in 0 .. (q - 1) : Of(p) \in t
  BY DEF Counted
<1>2. IsFiniteSet(t) /\ c \in Nat /\ d \in Nat
  BY <1>1, CountedFinite
<1>3. I \in Nat /\ FrameCount \in Nat
  BY FreshFacts, HeapAssumption
<1>4. q \in 0 .. (n - 1) /\ \A p \in 0 .. (q + 1 - 1) : p \in 0 .. (q - 1) \/ p = q
  OBVIOUS
<1>5. MapPage(m, q) = IF Of(q) \in t \/ m.left <= 0 THEN m
                      ELSE [m EXCEPT !.left = @ - 1, !.tables = @ \union {Of(q)}]
  BY DEF MapPage
<1> HIDE DEF I, Of, c, d
<1>6. CASE Of(q) \in t \/ m.left <= 0
  <2>1. r = m
    BY <1>5, <1>6
  <2>2. m.left > 0 => \A p \in 0 .. (q + 1 - 1) : Of(p) \in t
    BY <1>1, <1>4, <1>6
  <2>3. m \in [left : Int, noFrame : SUBSET (0 .. (n - 1)), tables : SUBSET {Of(p) : p \in 0 .. (n - 1)}]
    BY <1>1
  <2> HIDE DEF r
  <2> QED BY <1>1, <2>1, <2>2, <2>3 DEF Counted, I, Of, c, d, r
<1>7. CASE ~(Of(q) \in t \/ m.left <= 0)
  <2> DEFINE more == t \union {Of(q)}
  <2>1. r = [left |-> m.left - 1, noFrame |-> bare, tables |-> more]
    BY <1>1, <1>5, <1>7
  <2>2. Cardinality(more) = d + 1
    BY <1>2, <1>7, FS_AddElement DEF d
  <2>3. /\ m.left - 1 \in Int /\ -I <= m.left - 1 /\ m.left - 1 <= FrameCount
        /\ (m.left - 1) + elsewhere + (n - c) + (d + 1) = FrameCount
    BY <1>1, <1>2, <1>3, <1>7
  <2>4. r.left = m.left - 1 /\ r.noFrame = bare /\ r.tables = more
    BY <2>1
  <2>5. more \subseteq {Of(p) : p \in 0 .. (n - 1)}
    BY <1>1, <1>4
  <2>6. bare \subseteq 0 .. (I - 1) /\ \A p \in 0 .. (q + 1 - 1) : Of(p) \in more
    BY <1>1, <1>4, <1>7
  <2>7. r \in [left : Int, noFrame : SUBSET (0 .. (n - 1)), tables : SUBSET {Of(p) : p \in 0 .. (n - 1)}]
    BY <1>1, <2>1, <2>3, <2>5
  <2> HIDE DEF r, more, bare, t
  <2> QED BY <2>2, <2>3, <2>4, <2>6, <2>7 DEF Counted, I, Of, c, d, r
<1> QED BY <1>6, <1>7

(* One page after the other. *)
PageSteps(f, m, first, k, framed) ==
  f = [j \in 0 .. k |-> IF j = 0 THEN m ELSE NextPage(f[j - 1], first + j - 1, framed)]

LEMMA PageStepsExist ==
  ASSUME NEW m, NEW first, NEW framed, NEW k \in Nat
  PROVE  \E f : PageSteps(f, m, first, k, framed)
<1> DEFINE S == {i \in Nat : \E f : PageSteps(f, m, first, i, framed)}
<1>1. 0 \in S
  <2> DEFINE f == [j \in 0 .. 0 |-> m]
  <2>1. f = [j \in 0 .. 0 |-> IF j = 0 THEN m ELSE NextPage(f[j - 1], first + j - 1, framed)]
    OBVIOUS
  <2> HIDE DEF f
  <2> QED BY <2>1 DEF PageSteps
<1>2. ASSUME NEW i \in Nat, i \in S PROVE i + 1 \in S
  <2>1. PICK f : PageSteps(f, m, first, i, framed)
    BY <1>2
  <2> DEFINE last == NextPage(f[i], first + (i + 1) - 1, framed)
             g == [j \in 0 .. (i + 1) |-> IF j <= i THEN f[j] ELSE last]
  <2>2. \A j \in 0 .. i : f[j] = IF j = 0 THEN m ELSE NextPage(f[j - 1], first + j - 1, framed)
    BY <2>1 DEF PageSteps
  <2>3. \A j \in 0 .. (i + 1) : g[j] = (IF j <= i THEN f[j] ELSE last)
    OBVIOUS
  <2>4. g = [j \in 0 .. (i + 1) |-> g[j]]
    OBVIOUS
  <2> HIDE DEF g
  <2>5. ASSUME NEW j \in 0 .. (i + 1)
        PROVE  g[j] = IF j = 0 THEN m ELSE NextPage(g[j - 1], first + j - 1, framed)
    <3>1. CASE j <= i
      <4>1. j \in 0 .. i /\ (j # 0 => j - 1 \in 0 .. (i + 1) /\ j - 1 <= i)
        BY <1>2, <3>1
      <4>2. g[j] = f[j] /\ (j # 0 => g[j - 1] = f[j - 1])
        BY <2>3, <4>1
      <4> QED BY <2>2, <4>1, <4>2
    <3>2. CASE ~(j <= i)
      <4>1. j = i + 1 /\ j # 0 /\ j - 1 = i /\ i \in 0 .. (i + 1) /\ i <= i
        BY <1>2, <3>2
      <4>2. g[j - 1] = f[i] /\ g[j] = last
        BY <2>3, <3>2, <4>1
      <4> QED BY <4>1, <4>2
    <3> QED BY <3>1, <3>2
  <2>6. PageSteps(g, m, first, i + 1, framed)
    BY <2>4, <2>5 DEF PageSteps
  <2> QED BY <1>2, <2>6
<1>3. \A i \in Nat : i \in S
  <2> HIDE DEF S
  <2> QED BY <1>1, <1>2, AllNumbers
<1> QED BY <1>3

LEMMA MapPagesIs ==
  ASSUME NEW m, NEW first, NEW framed, NEW k \in Nat
  PROVE  \E f : /\ MapPages(m, first, k, framed) = f[k] /\ f[0] = m
                /\ \A j \in Nat : j < k => f[j + 1] = NextPage(f[j], first + (j + 1) - 1, framed)
<1> DEFINE f == CHOOSE g : PageSteps(g, m, first, k, framed)
<1>1. PageSteps(f, m, first, k, framed)
  BY PageStepsExist
<1>2. MapPages(m, first, k, framed) = f[k]
  BY DEF MapPages, PageSteps
<1> HIDE DEF f
<1>3. \A j \in 0 .. k : f[j] = IF j = 0 THEN m ELSE NextPage(f[j - 1], first + j - 1, framed)
  BY <1>1 DEF PageSteps
<1>4. 0 \in 0 .. k
  OBVIOUS
<1>5. ASSUME NEW j \in Nat, j < k PROVE f[j + 1] = NextPage(f[j], first + (j + 1) - 1, framed)
  <2>1. j + 1 \in 0 .. k /\ j + 1 # 0 /\ j + 1 - 1 = j
    BY <1>5
  <2> QED BY <1>3, <2>1
<1> QED BY <1>2, <1>3, <1>4, <1>5

(* Growth: k pages from first on, each with a frame. *)
LEMMA GrowthCounts ==
  ASSUME NEW m, NEW first \in Nat, NEW k \in Nat, Counted(m, first, first), elsewhere \in Nat
  PROVE  Counted(MapPages(m, first, k, FALSE), first + k, first + k)
<1> DEFINE framed == FALSE
<1> HIDE DEF framed
<1>1. PICK f : /\ MapPages(m, first, k, framed) = f[k] /\ f[0] = m
               /\ \A j \in Nat : j < k => f[j + 1] = NextPage(f[j], first + (j + 1) - 1, framed)
  BY MapPagesIs
<1> DEFINE S == {j \in Nat : j <= k => Counted(f[j], first + j, first + j)}
<1>2. 0 \in S
  BY <1>1
<1>3. ASSUME NEW j \in Nat, j \in S PROVE j + 1 \in S
  <2>1. SUFFICES ASSUME j + 1 <= k PROVE Counted(f[j + 1], first + (j + 1), first + (j + 1))
    OBVIOUS
  <2>2. j < k /\ j <= k /\ first + (j + 1) - 1 = first + j
    BY <2>1
  <2> DEFINE n == first + j
  <2>3. n \in Nat /\ n + 1 = first + (j + 1) /\ n < n + 1 /\ n + 1 \in Nat
    OBVIOUS
  <2>4. f[j + 1] = MapPage(TakePage(f[j], n), n)
    <3>1. f[j + 1] = NextPage(f[j], n, framed)
      BY <1>1, <2>2
    <3> QED BY <3>1 DEF NextPage, framed
  <2>5. Counted(f[j], n, n)
    BY <1>3, <2>2
  <2> HIDE DEF n
  <2>6. Counted(TakePage(f[j], n), n + 1, n)
    BY <2>3, <2>5, TakePageCounts
  <2>7. Counted(MapPage(TakePage(f[j], n), n), n + 1, n + 1)
    BY <2>3, <2>6, MapPageCounts
  <2> QED BY <2>3, <2>4, <2>7
<1>4. \A j \in Nat : j \in S
  <2> HIDE DEF S
  <2> QED BY <1>2, <1>3, AllNumbers
<1>5. k <= k
  OBVIOUS
<1>6. Counted(MapPages(m, first, k, framed), first + k, first + k)
  BY <1>1, <1>4, <1>5
<1> QED BY <1>6 DEF framed

(* The first k pages, which have their frames or none. *)
LEMMA RunCounts ==
  ASSUME NEW m, NEW k \in Nat, Counted(m, k, 0), elsewhere \in Nat
  PROVE  Counted(MapPages(m, 0, k, TRUE), k, k)
<1> DEFINE framed == TRUE
<1> HIDE DEF framed
<1>1. PICK f : /\ MapPages(m, 0, k, framed) = f[k] /\ f[0] = m
               /\ \A j \in Nat : j < k => f[j + 1] = NextPage(f[j], 0 + (j + 1) - 1, framed)
  BY MapPagesIs
<1> DEFINE S == {j \in Nat : j <= k => Counted(f[j], k, j)}
<1>2. 0 \in S
  BY <1>1
<1>3. ASSUME NEW j \in Nat, j \in S PROVE j + 1 \in S
  <2>1. SUFFICES ASSUME j + 1 <= k PROVE Counted(f[j + 1], k, j + 1)
    OBVIOUS
  <2>2. j < k /\ j <= k /\ 0 + (j + 1) - 1 = j
    BY <2>1
  <2>3. f[j + 1] = MapPage(f[j], j)
    <3>1. f[j + 1] = NextPage(f[j], j, framed)
      BY <1>1, <2>2
    <3> QED BY <3>1 DEF NextPage, framed
  <2>4. Counted(f[j], k, j)
    BY <1>3, <2>2
  <2> QED BY <2>2, <2>3, <2>4, MapPageCounts
<1>4. \A j \in Nat : j \in S
  <2> HIDE DEF S
  <2> QED BY <1>2, <1>3, AllNumbers
<1>5. k <= k
  OBVIOUS
<1>6. Counted(MapPages(m, 0, k, framed), k, k)
  BY <1>1, <1>4, <1>5
<1> QED BY <1>6 DEF framed

(* Memory that is counted is as FramesAccounted has it. *)
LEMMA CountedBecomes ==
  ASSUME NEW m, Counted(m, pages', pages'), Becomes(m), elsewhere \in 0 .. FrameCount
  PROVE  FrameTypes' /\ FramesAccounted'
<1> DEFINE I == InitialPages(TaskSize)
<1>1. frames' = m.left /\ noFrame' = m.noFrame /\ tables' = m.tables /\ elsewhere' = elsewhere
  BY DEF Becomes
<1>2. I \in Nat /\ FrameCount \in Nat
  BY FreshFacts, HeapAssumption
<1>3. /\ m.left \in Int /\ -I <= m.left /\ m.left <= FrameCount
      /\ m.noFrame \subseteq 0 .. (pages' - 1)
      /\ m.tables \subseteq {p \div TableSpan : p \in 0 .. (pages' - 1)}
  BY DEF Counted
<1>4. /\ m.left + elsewhere + (pages' - Cardinality(m.noFrame)) + Cardinality(m.tables) = FrameCount
      /\ m.left > 0 => /\ m.noFrame \subseteq 0 .. (I - 1)
                       /\ \A p \in 0 .. (pages' - 1) : p \div TableSpan \in m.tables
  BY DEF Counted
<1> HIDE DEF I
<1>5. m.left \in (-I) .. FrameCount
  BY <1>2, <1>3
<1>6. FrameTypes'
  BY <1>1, <1>3, <1>5 DEF FrameTypes, I
<1>7. FramesAccounted'
  BY <1>1, <1>4 DEF FramesAccounted, Unmapped, I
<1> QED BY <1>6, <1>7

(* k pages from the end of the heap on. *)
LEMMA FramesKept ==
  ASSUME TypeOK, FramesAccounted, NEW k \in Nat, k >= 1, pages' = pages + k,
         TakeFrames(pages, k)
  PROVE  FrameTypes' /\ FramesAccounted'
<1>1. /\ pages \in Nat /\ frames \in Int /\ frames <= FrameCount /\ elsewhere \in Nat
      /\ -InitialPages(TaskSize) <= frames
  BY TypeFacts
<1>2. Counted(Memory, pages, pages)
  <2>1. Memory.left = frames /\ Memory.noFrame = noFrame /\ Memory.tables = tables
    BY DEF Memory
  <2>2. Memory \in [left : Int, noFrame : SUBSET (0 .. (pages - 1)),
                    tables : SUBSET {p \div TableSpan : p \in 0 .. (pages - 1)}]
    BY <1>1 DEF TypeOK, Memory
  <2>3. /\ frames + elsewhere + (pages - Cardinality(noFrame)) + Cardinality(tables) = FrameCount
        /\ frames > 0 => /\ noFrame \subseteq 0 .. (InitialPages(TaskSize) - 1)
                         /\ \A p \in 0 .. (pages - 1) : p \div TableSpan \in tables
    BY DEF FramesAccounted, Unmapped
  <2> QED BY <1>1, <2>1, <2>2, <2>3 DEF Counted
<1> DEFINE m == MapPages(Memory, pages, k, FALSE)
<1>3. Counted(m, pages', pages')
  BY <1>1, <1>2, GrowthCounts
<1>4. Becomes(m)
  BY DEF TakeFrames
<1> HIDE DEF m
<1>5. elsewhere \in 0 .. FrameCount
  BY DEF TypeOK
<1> QED BY <1>3, <1>4, <1>5, CountedBecomes

(* The first pages, as one run or not at all. *)
LEMMA FirstFrames ==
  ASSUME TypeOK, FramesAccounted, frames \in 0 .. FrameCount, pages = 0, noFrame = {}, tables = {},
         pages' = InitialPages(TaskSize), TakeRun(InitialPages(TaskSize))
  PROVE  FrameTypes' /\ FramesAccounted'
<1> DEFINE k == InitialPages(TaskSize)
<1>1. k \in Nat /\ FrameCount \in Nat /\ elsewhere \in Nat /\ elsewhere \in 0 .. FrameCount
  BY FreshFacts, HeapAssumption, TypeFacts DEF TypeOK
<1>2. Cardinality({}) = 0
  BY FS_EmptySet
<1>3. frames + elsewhere = FrameCount
  BY <1>1, <1>2 DEF FramesAccounted
<1>4. Memory = [left |-> frames, noFrame |-> {}, tables |-> {}]
  BY DEF Memory
<1> DEFINE taken == [left |-> frames - k, noFrame |-> {}, tables |-> {}]
           low == [left |-> frames, noFrame |-> 0 .. (k - 1), tables |-> {}]
           T == {p \div TableSpan : p \in 0 .. (k - 1)}
<1>5. \/ frames > 0 /\ Becomes(MapPages(taken, 0, k, TRUE))
      \/ Becomes(MapPages(low, 0, k, TRUE))
  <2> HIDE DEF k
  <2>1. [Memory EXCEPT !.left = @ - k] = taken
    BY <1>4 DEF Memory
  <2>2. [Memory EXCEPT !.noFrame = 0 .. (k - 1)] = low
    <3> DEFINE all == 0 .. (k - 1)
    <3> HIDE DEF all
    <3>1. [Memory EXCEPT !.noFrame = all] = [left |-> frames, noFrame |-> all, tables |-> {}]
      BY <1>4
    <3> QED BY <3>1 DEF all
  <2> HIDE DEF taken, low
  <2> QED BY <2>1, <2>2 DEF TakeRun, k
<1>6. pages' = k
  OBVIOUS
<1> HIDE DEF k, T
<1>7. CASE frames > 0 /\ Becomes(MapPages(taken, 0, k, TRUE))
  <2>1. /\ frames - k \in Int /\ -k <= frames - k /\ frames - k <= FrameCount
        /\ (frames - k) + elsewhere + (k - 0) + 0 = FrameCount
    BY <1>1, <1>3, <1>7
  <2>2. taken \in [left : Int, noFrame : SUBSET (0 .. (k - 1)), tables : SUBSET T]
    BY <2>1
  <2>3. taken.left = frames - k /\ taken.noFrame = {} /\ taken.tables = {}
    OBVIOUS
  <2>4. \A p \in 0 .. (0 - 1) : FALSE
    OBVIOUS
  <2> HIDE DEF taken
  <2>5. Counted(taken, k, 0)
    BY <1>2, <2>1, <2>2, <2>3, <2>4 DEF Counted, k, T
  <2>6. Counted(MapPages(taken, 0, k, TRUE), k, k)
    BY <1>1, <2>5, RunCounts
  <2> QED BY <1>1, <1>6, <1>7, <2>6, CountedBecomes
<1>8. CASE Becomes(MapPages(low, 0, k, TRUE))
  <2>1. Cardinality(0 .. (k - 1)) = k
    <3>1. 0 \in Int /\ k - 1 \in Int /\ (IF 0 > k - 1 THEN 0 ELSE (k - 1) - 0 + 1) = k
      BY <1>1
    <3> QED BY <3>1, FS_Interval
  <2>2. /\ frames \in Int /\ -k <= frames /\ frames <= FrameCount
        /\ frames + elsewhere + (k - k) + 0 = FrameCount
    BY <1>1, <1>3
  <2>3. low \in [left : Int, noFrame : SUBSET (0 .. (k - 1)), tables : SUBSET T]
    BY <2>2
  <2>4. low.left = frames /\ low.noFrame = 0 .. (k - 1) /\ low.tables = {}
    OBVIOUS
  <2>5. \A p \in 0 .. (0 - 1) : FALSE
    OBVIOUS
  <2> HIDE DEF low
  <2>6. Counted(low, k, 0)
    BY <1>2, <2>1, <2>2, <2>3, <2>4, <2>5 DEF Counted, k, T
  <2>7. Counted(MapPages(low, 0, k, TRUE), k, k)
    BY <1>1, <2>6, RunCounts
  <2> QED BY <1>1, <1>6, <1>8, <2>7, CountedBecomes
<1> QED BY <1>5, <1>7, <1>8
-----------------------------------------------------------------------------
(* The operations. *)

LEMMA NotEmpty ==
  ASSUME NEW s, Len(s) > 0
  PROVE  s # <<>>
<1>1. Len(<<>>) = 0
  OBVIOUS
<1> QED BY <1>1

(* What the exact fit and the split do to any list. *)
LEMMA PlaceKeeps ==
  ASSUME NEW l \in Lists, NEW i \in 1 .. Len(l), NEW n \in Requests, PlaceIn(l, i, n)
  PROVE  /\ list' \in Lists /\ Len(list') > 0
         /\ \A end : Tiles(l, end) => Tiles(list', end)
         /\ l[i].free => UsedBlocks(list')
                         = UsedBlocks(l) \union {[at |-> l[i].at + Header, size |-> n]}
         /\ ~l[i].free => wild' = "overlap"
         /\ wild' \in {"overlap", "tail taken", wild}
         /\ wild' = "no" /\ l[Len(l)].free => wild = "no" /\ list'[Len(list')].free
         /\ HandOut(l, i, n)
<1>1. n \in Nat /\ n > 0
  BY HeapAssumption
<1>2. HandOut(l, i, n) /\ (n = l[i].size \/ l[i].size > n + Header)
  BY DEF PlaceIn
<1>3. wild' = IF ~l[i].free THEN "overlap"
              ELSE IF n = l[i].size /\ i = Len(l) THEN "tail taken" ELSE wild
  BY DEF PlaceIn
<1>4. CASE n = l[i].size
  <2>1. list' = Merged(Marked(l, i))
    BY <1>4 DEF PlaceIn, Marked
  <2>2. wild' = "no" => i # Len(l) /\ wild = "no"
    BY <1>3, <1>4
  <2>3. /\ list' \in Lists /\ Len(list') > 0
        /\ \A end : Tiles(l, end) => Tiles(list', end)
        /\ l[i].free => UsedBlocks(list')
                        = UsedBlocks(l) \union {[at |-> l[i].at + Header, size |-> l[i].size]}
        /\ i # Len(l) /\ l[Len(l)].free => list'[Len(list')].free
    BY <2>1, ExactFacts
  <2> QED BY <1>2, <1>3, <1>4, <2>2, <2>3
<1>5. CASE n # l[i].size
  <2>1. l[i].size > n + Header /\ list' = Merged(Split(l, i, n))
    BY <1>2, <1>5 DEF PlaceIn
  <2>2. l[i].size - n - Header \in Nat
    <3>1. l[i].size \in Nat /\ Header \in Nat
      BY ListFacts, BlockFacts, HeapAssumption
    <3> QED BY <1>1, <2>1, <3>1
  <2>3. /\ list' \in Lists /\ Len(list') > 0
        /\ \A end : Tiles(l, end) => Tiles(list', end)
        /\ l[i].free => UsedBlocks(list')
                        = UsedBlocks(l) \union {[at |-> l[i].at + Header, size |-> n]}
        /\ l[i].free /\ l[Len(l)].free => list'[Len(list')].free
    BY <1>1, <2>1, <2>2, CutFacts
  <2>4. wild' = "no" => l[i].free /\ wild = "no"
    BY <1>3
  <2> QED BY <1>2, <1>3, <2>3, <2>4
<1> QED BY <1>4, <1>5

LEMMA HandOutType ==
  ASSUME TypeOK, NEW l \in Lists, NEW i \in 1 .. Len(l), NEW n \in Requests, HandOut(l, i, n)
  PROVE  /\ live' \subseteq [at : Nat, size : Requests]
         /\ ret' \in [at : Nat \union {Null}, wasFree : BOOLEAN]
<1>1. l[i] \in Blocks
  BY ListFacts
<1>2. l[i].at + Header \in Nat /\ l[i].free \in BOOLEAN
  BY <1>1, BlockFacts
<1>3. live \subseteq [at : Nat, size : Requests]
  BY DEF TypeOK
<1> QED BY <1>2, <1>3 DEF HandOut

LEMMA FirstMallocKeeps == Inv /\ FirstMalloc => Inv'
<1> SUFFICES ASSUME Inv, FirstMalloc PROVE Inv'
  OBVIOUS
<1> DEFINE l == Fresh(TaskSize)
           k == InitialPages(TaskSize)
<1>1. /\ TypeOK /\ FramesAccounted
      /\ frames \in 0 .. FrameCount /\ pages = 0 /\ noFrame = {} /\ tables = {}
      /\ live = {} /\ wild = "no"
  BY DEF Inv, Blank, FirstMalloc
<1>2. TaskSize \in Requests
  BY HeapAssumption
<1>3. /\ l \in Lists /\ Len(l) = 1 /\ 1 \in 1 .. Len(l) /\ l[1].free
      /\ Tiles(l, k * Page) /\ UsedBlocks(l) = {} /\ k \in Nat
  BY FreshFacts
<1>4. pages' = k /\ TakeRun(k) /\ PlaceIn(l, 1, TaskSize)
  BY DEF FirstMalloc
<1>5. FrameTypes' /\ FramesAccounted'
  BY <1>1, <1>4, FirstFrames
<1> HIDE DEF l, k
<1>6. /\ list' \in Lists /\ Len(list') > 0 /\ Tiles(list', k * Page)
      /\ UsedBlocks(list') = {[at |-> l[1].at + Header, size |-> TaskSize]}
      /\ wild' \in {"overlap", "tail taken", wild}
      /\ wild' = "no" => list'[Len(list')].free
      /\ HandOut(l, 1, TaskSize)
  <2>1. /\ list' \in Lists /\ Len(list') > 0
        /\ \A end : Tiles(l, end) => Tiles(list', end)
        /\ l[1].free => UsedBlocks(list')
                        = UsedBlocks(l) \union {[at |-> l[1].at + Header, size |-> TaskSize]}
        /\ wild' \in {"overlap", "tail taken", wild}
        /\ wild' = "no" /\ l[Len(l)].free => wild = "no" /\ list'[Len(list')].free
        /\ HandOut(l, 1, TaskSize)
    BY <1>2, <1>3, <1>4, PlaceKeeps
  <2> QED BY <1>3, <2>1
<1>7. live' = UsedBlocks(list')
  BY <1>1, <1>6 DEF HandOut
<1>8. list' # <<>>
  BY <1>6, NotEmpty
<1>9. TypeOK'
  <2>1. live' \subseteq [at : Nat, size : Requests] /\ ret' \in [at : Nat \union {Null}, wasFree : BOOLEAN]
    BY <1>1, <1>2, <1>3, <1>6, HandOutType
  <2>2. wild' \in {"no", "tail taken", "overlap", "hung"}
    BY <1>1, <1>6
  <2> QED BY <1>3, <1>4, <1>5, <1>6, <2>1, <2>2 DEF TypeOK, FrameTypes, Lists, Blocks
<1>10. Blank' /\ Tiled' /\ Held'
  BY <1>4, <1>6, <1>7, <1>8 DEF Blank, Tiled, Held
<1> QED BY <1>5, <1>9, <1>10 DEF Inv

LEMMA MallocFitKeeps ==
  ASSUME Inv, NEW n \in Requests, MallocFit(n)
  PROVE  Inv'
<1> DEFINE i == FirstFit(list, n)
<1>1. list # <<>> /\ Followed /\ PlaceIn(list, i, n) /\ UNCHANGED <<pages, frames, noFrame, tables, elsewhere>>
  BY DEF MallocFit
<1>2. TypeOK /\ FramesAccounted /\ Tiled /\ Held
  BY DEF Inv
<1>3. list \in Lists /\ Len(list) > 0
  BY <1>1, <1>2, TypeFacts
<1>4. i \in 1 .. Len(list)
  BY <1>3, FirstFitFacts, HeapAssumption
<1> HIDE DEF i
<1>5. /\ list' \in Lists /\ Len(list') > 0
      /\ \A end : Tiles(list, end) => Tiles(list', end)
      /\ list[i].free => UsedBlocks(list')
                         = UsedBlocks(list) \union {[at |-> list[i].at + Header, size |-> n]}
      /\ ~list[i].free => wild' = "overlap"
      /\ wild' \in {"overlap", "tail taken", wild}
      /\ wild' = "no" /\ list[Len(list)].free => wild = "no" /\ list'[Len(list')].free
      /\ HandOut(list, i, n)
  BY <1>1, <1>3, <1>4, PlaceKeeps
<1>6. wild \in {"no", "tail taken"}
  BY <1>1 DEF Followed
<1>7. TypeOK'
  <2>1. live' \subseteq [at : Nat, size : Requests] /\ ret' \in [at : Nat \union {Null}, wasFree : BOOLEAN]
    BY <1>2, <1>3, <1>4, <1>5, HandOutType
  <2>2. wild' \in {"no", "tail taken", "overlap", "hung"}
    BY <1>5, <1>6
  <2> QED BY <1>1, <1>2, <1>5, <2>1, <2>2 DEF TypeOK, Lists, Blocks
<1>8. FramesAccounted'
  BY <1>1, <1>2 DEF FramesAccounted, Unmapped
<1>9. Blank'
  BY <1>5, NotEmpty DEF Blank
<1>10. live' = live \union {[at |-> list[i].at + Header, size |-> n]}
  BY <1>5 DEF HandOut
<1>11. Tiled'
  BY <1>1, <1>2, <1>5, <1>6, <1>10 DEF Tiled
<1>12. Held'
  <2> SUFFICES ASSUME wild' = "no" PROVE live' = UsedBlocks(list') /\ list'[Len(list')].free
    BY DEF Held
  <2>1. wild = "no" /\ list[i].free
    BY <1>5, <1>6
  <2>2. live = UsedBlocks(list) /\ list[Len(list)].free
    BY <1>1, <1>2, <2>1 DEF Held
  <2> QED BY <1>5, <1>10, <2>1, <2>2
<1> QED BY <1>7, <1>8, <1>9, <1>11, <1>12 DEF Inv

LEMMA MallocGrowKeeps ==
  ASSUME Inv, NEW n \in Requests, MallocGrow(n)
  PROVE  Inv'
<1> DEFINE i == FirstFit(list, n)
           k == NewPages(list, i, n)
           G == Grown(list, i, k)
           M == Merged(Split(G, i, n))
<1>1. /\ list # <<>> /\ Followed /\ list[i].size <= n + Header
      /\ pages' = pages + k /\ TakeFrames(pages, k) /\ list' = M /\ HandOut(list, i, n)
      /\ wild' = IF ~list[i].free \/ i < Len(list) THEN "overlap" ELSE wild
  BY DEF MallocGrow, Grown
<1>2. TypeOK /\ FramesAccounted /\ Tiled /\ Held
  BY DEF Inv
<1>3. list \in Lists /\ Len(list) > 0 /\ Len(list) \in Nat /\ pages \in Nat /\ n \in Nat
  BY <1>1, <1>2, TypeFacts, HeapAssumption, ListFacts
<1>4. i \in 1 .. Len(list)
  BY <1>3, FirstFitFacts
<1> HIDE DEF i
<1>5. k \in Nat /\ k >= 1 /\ list[i].size + k * Page - n - Header \in Nat
  BY <1>1, <1>3, <1>4, PagesSuffice
<1> HIDE DEF k
<1>6. /\ G \in Lists /\ Len(G) = Len(list)
      /\ G[i].at = list[i].at /\ G[i].free = list[i].free /\ G[i].size = list[i].size + k * Page
      /\ \A end \in Nat : Tiles(list, end) /\ i = Len(list) => Tiles(G, end + k * Page)
      /\ list[i].free => UsedBlocks(G) = UsedBlocks(list)
  BY <1>3, <1>4, <1>5, GrownFacts
<1> HIDE DEF G
<1>7. i \in 1 .. Len(G) /\ G[i].size - n - Header \in Nat
  <2> DEFINE y == k * Page
  <2>1. G[i].size = list[i].size + y /\ list[i].size + y - n - Header \in Nat
    BY <1>5, <1>6
  <2>2. y \in Nat /\ list[i].size \in Nat /\ Header \in Nat
    BY <1>3, <1>4, <1>5, ListFacts, BlockFacts, HeapAssumption
  <2> HIDE DEF y
  <2>3. G[i].size - n - Header \in Nat
    BY <1>3, <2>1, <2>2
  <2>4. i \in 1 .. Len(G)
    BY <1>4, <1>6
  <2> QED BY <2>3, <2>4
<1>8. /\ M \in Lists /\ Len(M) > 0
      /\ \A end : Tiles(G, end) => Tiles(M, end)
      /\ G[i].free => UsedBlocks(M) = UsedBlocks(G) \union {[at |-> G[i].at + Header, size |-> n]}
      /\ G[i].free /\ G[Len(G)].free => M[Len(M)].free
  BY <1>3, <1>6, <1>7, CutFacts
<1> HIDE DEF M
<1>9. wild \in {"no", "tail taken"} /\ wild' \in {"overlap", wild}
  BY <1>1 DEF Followed
<1>10. FrameTypes' /\ FramesAccounted'
  BY <1>1, <1>2, <1>5, FramesKept
<1>11. TypeOK'
  <2>1. live' \subseteq [at : Nat, size : Requests] /\ ret' \in [at : Nat \union {Null}, wasFree : BOOLEAN]
    BY <1>1, <1>2, <1>3, <1>4, HandOutType
  <2>2. wild' \in {"no", "tail taken", "overlap", "hung"}
    BY <1>9
  <2>3. pages' \in Nat
    BY <1>1, <1>3, <1>5
  <2> QED BY <1>1, <1>8, <1>10, <2>1, <2>2, <2>3 DEF TypeOK, FrameTypes, Lists, Blocks
<1>12. Blank'
  BY <1>1, <1>8, NotEmpty DEF Blank
<1>13. live' = live \union {[at |-> list[i].at + Header, size |-> n]}
  BY <1>1 DEF HandOut
<1>14. wild' # "overlap" => wild' = wild /\ list[i].free /\ i = Len(list)
  BY <1>1, <1>3, <1>4
<1>15. Tiled'
  <2> SUFFICES ASSUME wild' # "overlap"
               PROVE  Tiles(list', pages' * Page) /\ live' \subseteq UsedBlocks(list')
    BY DEF Tiled
  <2>1. Tiles(list, pages * Page) /\ live \subseteq UsedBlocks(list)
    BY <1>1, <1>2, <1>9 DEF Tiled
  <2>2. live' \subseteq UsedBlocks(list')
    BY <1>1, <1>6, <1>8, <1>13, <1>14, <2>1
  <2>3. Tiles(G, pages * Page + k * Page)
    <3>1. pages * Page \in Nat
      BY <1>3, HeapAssumption
    <3> QED BY <1>6, <1>14, <2>1, <3>1
  <2>4. (pages + k) * Page = pages * Page + k * Page
    BY <1>3, <1>5, HeapAssumption
  <2>5. Tiles(list', pages' * Page)
    BY <1>1, <1>8, <2>3, <2>4
  <2> QED BY <2>2, <2>5
<1>16. Held'
  <2> SUFFICES ASSUME wild' = "no" PROVE live' = UsedBlocks(list') /\ list'[Len(list')].free
    BY DEF Held
  <2>1. wild = "no" /\ list[i].free /\ i = Len(list)
    BY <1>14
  <2>2. live = UsedBlocks(list)
    BY <1>2, <2>1 DEF Held
  <2>3. G[Len(G)].free
    BY <1>6, <2>1
  <2> QED BY <1>1, <1>6, <1>8, <1>13, <2>1, <2>2, <2>3
<1> QED BY <1>10, <1>11, <1>12, <1>15, <1>16 DEF Inv

LEMMA MallocHangKeeps ==
  ASSUME Inv, NEW n \in Requests, MallocHang(n)
  PROVE  Inv'
<1>1. /\ list # <<>> /\ wild \in {"no", "tail taken"} /\ wild' = "hung"
      /\ UNCHANGED <<list, pages, frames, noFrame, tables, elsewhere, live, ret>>
  BY DEF MallocHang, Followed
<1>2. TypeOK /\ FramesAccounted /\ Tiled
  BY DEF Inv
<1>3. TypeOK'
  BY <1>1, <1>2 DEF TypeOK
<1>4. FramesAccounted'
  BY <1>1, <1>2 DEF FramesAccounted, Unmapped
<1>5. Blank' /\ Held'
  BY <1>1 DEF Blank, Held
<1>6. Tiled'
  BY <1>1, <1>2 DEF Tiled
<1> QED BY <1>3, <1>4, <1>5, <1>6 DEF Inv

LEMMA FreeKeeps ==
  ASSUME Inv, NEW p \in live, Free(p)
  PROVE  Inv'
<1> DEFINE H == Hits(list, p)
           F == Freed(list, H)
           M == Merged(F)
<1>1. /\ Followed /\ live' = live \ {p}
      /\ UNCHANGED <<pages, frames, noFrame, tables, elsewhere, ret, wild>>
      /\ list' = IF H = {} THEN list ELSE M
  BY DEF Free, Hits, Freed
<1>2. TypeOK /\ FramesAccounted /\ Blank /\ Tiled /\ Held
  BY DEF Inv
<1>3. list # <<>> /\ wild \in {"no", "tail taken"}
  BY <1>1, <1>2 DEF Blank, Followed
<1>4. list \in Lists /\ Len(list) > 0
  BY <1>2, <1>3, TypeFacts
<1>5. Tiles(list, pages * Page) /\ live \subseteq UsedBlocks(list) /\ p \in UsedBlocks(list)
  BY <1>2, <1>3 DEF Tiled
<1>6. /\ F \in Lists /\ Len(F) = Len(list)
      /\ \A end : Tiles(list, end) => Tiles(F, end)
  BY <1>4, FreedType
<1>7. /\ H # {} => UsedBlocks(F) = UsedBlocks(list) \ {p}
      /\ list[Len(list)].free => H # {} /\ F[Len(F)].free
  <2>1. /\ H # {} => UsedBlocks(F) = UsedBlocks(list) \ {p}
        /\ list[Len(list)].free => H # {} /\ F[Len(list)].free
    BY <1>4, <1>5, FreedUsed
  <2> HIDE DEF F, H
  <2> QED BY <1>6, <2>1
<1> HIDE DEF F, H
<1>8. M \in Lists /\ Len(M) > 0
  BY <1>4, <1>6, MergedType
<1>9. Tiles(M, pages * Page)
  BY <1>5, <1>6, MergedTiles
<1>10. UsedBlocks(M) = UsedBlocks(F) /\ (F[Len(F)].free => M[Len(M)].free)
  BY <1>4, <1>6, MergedUsed
<1> HIDE DEF M
<1>11. list' \in Lists /\ Len(list') > 0 /\ Tiles(list', pages' * Page)
  BY <1>1, <1>4, <1>5, <1>8, <1>9
<1>12. TypeOK'
  BY <1>1, <1>2, <1>11 DEF TypeOK, Lists, Blocks
<1>13. FramesAccounted'
  BY <1>1, <1>2 DEF FramesAccounted, Unmapped
<1>14. Blank'
  BY <1>11, NotEmpty DEF Blank
<1>15. live' \subseteq UsedBlocks(list')
  BY <1>1, <1>5, <1>7, <1>10
<1>16. Held'
  <2> SUFFICES ASSUME wild' = "no" PROVE live' = UsedBlocks(list') /\ list'[Len(list')].free
    BY DEF Held
  <2>1. live = UsedBlocks(list) /\ list[Len(list)].free
    BY <1>1, <1>2, <1>3 DEF Held
  <2> QED BY <1>1, <1>7, <1>10, <2>1
<1> QED BY <1>11, <1>12, <1>13, <1>14, <1>15, <1>16 DEF Inv, Tiled

LEMMA LoadModuleKeeps ==
  ASSUME Inv, NEW n \in 1 .. frames, LoadModule(n)
  PROVE  Inv'
<1>1. /\ live # {} /\ frames' = frames - n /\ elsewhere' = elsewhere + n
      /\ UNCHANGED <<list, pages, noFrame, tables, live, ret, wild>>
  BY DEF LoadModule
<1>2. TypeOK /\ FramesAccounted /\ Blank /\ Tiled /\ Held
  BY DEF Inv
<1> DEFINE I == InitialPages(TaskSize)
           c == Cardinality(noFrame)
           d == Cardinality(tables)
<1>3. /\ pages \in Nat /\ frames \in Int /\ frames <= FrameCount /\ FrameCount \in Nat
      /\ elsewhere \in Nat /\ n \in Nat /\ n > 0 /\ n <= frames /\ I \in Nat
  BY <1>2, TypeFacts, FreshFacts
<1>4. c \in Nat /\ c <= pages /\ d \in Nat
  BY <1>2, <1>3, CountedFinite DEF TypeOK
<1>5. /\ frames + elsewhere + (pages - c) + d = FrameCount
      /\ frames > 0 => Unmapped = {} /\ noFrame \subseteq 0 .. (I - 1)
  BY <1>2 DEF FramesAccounted
<1> HIDE DEF I, c, d
<1>6. /\ frames - n \in (-I) .. FrameCount /\ elsewhere + n \in 0 .. FrameCount
      /\ (frames - n) + (elsewhere + n) + (pages - c) + d = FrameCount
  BY <1>3, <1>4, <1>5
<1>7. TypeOK'
  BY <1>1, <1>2, <1>6 DEF TypeOK, I
<1>8. Unmapped' = Unmapped
  BY <1>1 DEF Unmapped
<1>9. FramesAccounted'
  BY <1>1, <1>3, <1>5, <1>6, <1>8 DEF FramesAccounted, I, c, d
<1>10. Blank'
  BY <1>1, <1>2 DEF Blank
<1>11. Tiled' /\ Held'
  BY <1>1, <1>2 DEF Tiled, Held
<1> QED BY <1>7, <1>9, <1>10, <1>11 DEF Inv

LEMMA StutterKeeps == Inv /\ UNCHANGED vars => Inv'
<1> SUFFICES ASSUME Inv, UNCHANGED vars PROVE Inv'
  OBVIOUS
<1> QED BY DEF Inv, vars, TypeOK, FramesAccounted, Unmapped, Blank, Tiled, Held

LEMMA InvHolds == Spec => []Inv
<1>1. Init => Inv
  BY InitInv
<1>2. Inv /\ [Next]_vars => Inv'
  <2> SUFFICES ASSUME Inv, [Next]_vars PROVE Inv'
    OBVIOUS
  <2>1. CASE FirstMalloc
    BY <2>1, FirstMallocKeeps
  <2>2. ASSUME NEW n \in Requests, MallocFit(n) PROVE Inv'
    BY <2>2, MallocFitKeeps
  <2>3. ASSUME NEW n \in Requests, MallocGrow(n) PROVE Inv'
    BY <2>3, MallocGrowKeeps
  <2>4. ASSUME NEW n \in Requests, MallocHang(n) PROVE Inv'
    BY <2>4, MallocHangKeeps
  <2>5. ASSUME NEW p \in live, Free(p) PROVE Inv'
    BY <2>5, FreeKeeps
  <2>6. ASSUME NEW n \in 1 .. frames, LoadModule(n) PROVE Inv'
    BY <2>6, LoadModuleKeeps
  <2>7. CASE UNCHANGED vars
    BY <2>7, StutterKeeps
  <2> QED BY <2>1, <2>2, <2>3, <2>4, <2>5, <2>6, <2>7 DEF Next
<1> QED BY <1>1, <1>2, PTL DEF Spec
-----------------------------------------------------------------------------
(* The heap is well typed: no size ever goes below zero in a split, whatever *)
(* the sizes asked for (malloc_split, malloc.c).                            *)
THEOREM TypeCorrect == Spec => []TypeOK
<1>1. Inv => TypeOK
  BY DEF Inv
<1> QED BY <1>1, InvHolds, PTL

(* Blocks that tile do not overlap: neither do the payloads of two used     *)
(* blocks, nor a payload and any header.                                   *)
LEMMA TilesApart ==
  ASSUME NEW l \in Lists, NEW end, Tiles(l, end)
  PROVE  /\ \A p, q \in UsedBlocks(l) : p # q => Units(p) \intersect Units(q) = {}
         /\ \A p \in UsedBlocks(l) : \A i \in 1 .. Len(l) :
              Units(p) \intersect HeaderUnits(l[i]) = {}
<1> DEFINE P(j) == [at |-> l[j].at + Header, size |-> l[j].size]
<1>1. \A j \in 1 .. Len(l) : /\ l[j].at \in Nat /\ l[j].size \in Nat
                             /\ End(l[j]) = l[j].at + Header + l[j].size
  BY ListFacts, BlockFacts
<1>2. Header \in Nat /\ Header > 0
  BY HeapAssumption
<1>3. \A j \in 1 .. Len(l) : \A x \in Units(P(j)) : x >= l[j].at + Header /\ x < End(l[j]) /\ x \in Int
  BY <1>1, <1>2 DEF Units
<1>4. \A j \in 1 .. Len(l) : \A x \in HeaderUnits(l[j]) : /\ x >= l[j].at /\ x < l[j].at + Header
                                                          /\ x < End(l[j]) /\ x \in Int
  BY <1>1, <1>2 DEF HeaderUnits
<1>5. \A j, k \in 1 .. Len(l) : j < k => End(l[j]) <= l[k].at
  BY DEF Tiles
<1>6. \A j \in 1 .. Len(l) : l[j].at \in Nat /\ End(l[j]) \in Nat /\ j \in Nat
  BY <1>1, <1>2
<1>7. ASSUME NEW j \in 1 .. Len(l), NEW k \in 1 .. Len(l), j < k
      PROVE  /\ Units(P(j)) \intersect Units(P(k)) = {}
             /\ Units(P(j)) \intersect HeaderUnits(l[k]) = {}
             /\ Units(P(k)) \intersect HeaderUnits(l[j]) = {}
  <2>1. End(l[j]) <= l[k].at /\ l[k].at \in Nat /\ End(l[j]) \in Nat
    BY <1>5, <1>6, <1>7
  <2>2. \A x \in Units(P(k)) : x >= l[k].at /\ x \in Int
    BY <1>2, <1>3, <2>1
  <2>3. \A x \in Units(P(j)) : x < End(l[j]) /\ x \in Int
    BY <1>3
  <2>4. \A x \in HeaderUnits(l[j]) : x < End(l[j]) /\ x \in Int
    BY <1>4
  <2>5. \A x \in HeaderUnits(l[k]) : x >= l[k].at /\ x \in Int
    BY <1>4
  <2> HIDE DEF P
  <2>6. \A x \in Int : ~(x >= l[k].at /\ x < End(l[j]))
    BY <2>1
  <2> QED BY <2>2, <2>3, <2>4, <2>5, <2>6
<1>8. \A j \in 1 .. Len(l) : Units(P(j)) \intersect HeaderUnits(l[j]) = {}
  <2> TAKE j \in 1 .. Len(l)
  <2>1. \A x \in Int : ~(x >= l[j].at + Header /\ x < l[j].at + Header)
    BY <1>1, <1>2
  <2> HIDE DEF P
  <2> QED BY <1>3, <1>4, <2>1
<1>9. \A j, k \in 1 .. Len(l) : j < k \/ j = k \/ k < j
  BY <1>6
<1>10. \A p \in UsedBlocks(l) : \E j \in 1 .. Len(l) : p = P(j)
  BY DEF UsedBlocks, Used
<1> HIDE DEF P
<1>11. \A p, q \in UsedBlocks(l) : p # q => Units(p) \intersect Units(q) = {}
  <2> TAKE p, q \in UsedBlocks(l)
  <2> HAVE p # q
  <2>1. PICK j \in 1 .. Len(l) : p = P(j)
    BY <1>10
  <2>2. PICK k \in 1 .. Len(l) : q = P(k)
    BY <1>10
  <2>3. j < k \/ k < j
    BY <1>9, <2>1, <2>2
  <2> QED BY <1>7, <2>1, <2>2, <2>3
<1>12. \A p \in UsedBlocks(l) : \A i \in 1 .. Len(l) : Units(p) \intersect HeaderUnits(l[i]) = {}
  <2> TAKE p \in UsedBlocks(l)
  <2> TAKE i \in 1 .. Len(l)
  <2>1. PICK j \in 1 .. Len(l) : p = P(j)
    BY <1>10
  <2> QED BY <1>7, <1>8, <1>9, <2>1
<1> QED BY <1>11, <1>12

(* No byte of the heap is lost or has two owners (malloc.c: malloc_split,   *)
(* merge_free_blocks, malloc_next_block, malloc_free), for any order of     *)
(* calls of any sizes.                                                     *)
THEOREM HeapIsPartitioned == Spec => []HeapPartitioned
<1>1. Inv => HeapPartitioned
  <2> SUFFICES ASSUME Inv, wild # "overlap", Backed PROVE
         /\ list # <<>> =>
              /\ list[1].at = 0
              /\ \A i \in 1 .. (Len(list) - 1) : list[i + 1].at = list[i].at + Header + list[i].size
              /\ Last(list).at + Header + Last(list).size = pages * Page
         /\ \A p, q \in live : p # q => Units(p) \intersect Units(q) = {}
         /\ \A p \in live : \A i \in DOMAIN list : Units(p) \intersect HeaderUnits(list[i]) = {}
    BY DEF HeapPartitioned, BlocksTile, PayloadsDisjoint
  <2>1. list \in Lists /\ live \subseteq UsedBlocks(list) /\ (list # <<>> => Tiles(list, pages * Page))
    BY TypeFacts DEF Inv, Tiled
  <2>2. list = <<>> => live = {}
    BY DEF Inv, Blank
  <2>3. DOMAIN list = 1 .. Len(list)
    BY <2>1, LenProperties DEF Lists
  <2>4. CASE list = <<>>
    BY <2>2, <2>4
  <2>5. CASE list # <<>>
    <3>1. Tiles(list, pages * Page)
      BY <2>1, <2>5
    <3>2. /\ \A p, q \in UsedBlocks(list) : p # q => Units(p) \intersect Units(q) = {}
          /\ \A p \in UsedBlocks(list) : \A i \in 1 .. Len(list) :
               Units(p) \intersect HeaderUnits(list[i]) = {}
      BY <2>1, <3>1, TilesApart
    <3>3. /\ list[1].at = 0
          /\ \A i \in 1 .. (Len(list) - 1) : list[i + 1].at = list[i].at + Header + list[i].size
          /\ Last(list).at + Header + Last(list).size = pages * Page
      BY <3>1 DEF Tiles, End, Last
    <3> QED BY <2>1, <2>3, <3>2, <3>3
  <2> QED BY <2>4, <2>5
<1> QED BY <1>1, InvHolds, PTL

(* A block is marked used exactly as long as somebody holds it, and the walk *)
(* of malloc_next_block ends in a free block, until the last one is taken.  *)
THEOREM UsedBlocksAreLive == Spec => []UsedIsLive
<1>1. Inv => UsedIsLive
  <2> SUFFICES ASSUME Inv, wild = "no", Backed
               PROVE  /\ {list[i].at + Header : i \in {j \in DOMAIN list : ~list[j].free}}
                           = {p.at : p \in live}
                      /\ list # <<>> => Last(list).free
    BY DEF UsedIsLive
  <2>1. list \in Lists /\ live = UsedBlocks(list) /\ (list # <<>> => list[Len(list)].free)
    BY TypeFacts DEF Inv, Held
  <2>2. DOMAIN list = 1 .. Len(list)
    BY <2>1, LenProperties DEF Lists
  <2>3. {j \in DOMAIN list : ~list[j].free} = Used(list)
    BY <2>2 DEF Used
  <2>4. {p.at : p \in UsedBlocks(list)} = {list[i].at + Header : i \in Used(list)}
    <3> DEFINE B(i) == [at |-> list[i].at + Header, size |-> list[i].size]
    <3>1. \A i \in Used(list) : B(i).at = list[i].at + Header
      OBVIOUS
    <3>2. UsedBlocks(list) = {B(i) : i \in Used(list)}
      BY DEF UsedBlocks
    <3> HIDE DEF B
    <3>3. {p.at : p \in {B(i) : i \in Used(list)}} = {B(i).at : i \in Used(list)}
      OBVIOUS
    <3> QED BY <3>1, <3>2, <3>3
  <2> QED BY <2>1, <2>3, <2>4 DEF Last
<1> QED BY <1>1, InvHolds, PTL

(* Wherever frames run out, none is lost and none has two uses, and a page   *)
(* goes without frame or mapping only once none is left (malloc_init,       *)
(* malloc_next_block: allocate_block, allocate_page, map_page).            *)
THEOREM FramesAreAccounted == Spec => []FramesAccounted
<1>1. Inv => FramesAccounted
  BY DEF Inv
<1> QED BY <1>1, InvHolds, PTL
=============================================================================
