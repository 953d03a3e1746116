----------------------------- MODULE PrintfProofs -----------------------------
(***************************************************************************)
(* What the run console checks for calls of three items: every call of every *)
(* copy of printf that the manual allows writes what the manual says.        *)
(*                                                                         *)
(* First powers and numerals: the digits that printf_unsigned finds last to  *)
(* first are the numeral.  Then sequences put together from sequences, which *)
(* formats and texts are.  Then the automaton: one character, one item, and  *)
(* from one item to the next.                                              *)
(***************************************************************************)
EXTENDS Formats, SequenceTheorems, WellFoundedInduction, TLAPS

-----------------------------------------------------------------------------
(* Induction over a set of numbers. *)

LEMMA LeastInNat ==
  ASSUME NEW S, S \subseteq Nat, NEW n \in S
  PROVE  \E m \in S : \A k \in Nat : k < m => k \notin S
<1>1. IsWellFoundedOn(OpToRel(<, Nat), Nat)
  BY NatLessThanWellFounded
<1>2. PICK m \in S : \A y \in S : ~ (<<y, m>> \in OpToRel(<, Nat))
  BY <1>1, WFMin
<1>3. ASSUME NEW k \in Nat, k < m PROVE k \notin S
  <2>1. <<k, m>> \in OpToRel(<, Nat)
    BY <1>3 DEF OpToRel
  <2> QED
    BY <1>2, <2>1
<1> QED
  BY <1>3

LEMMA AllNumbers ==
  ASSUME NEW S, 0 \in S, \A k \in Nat : k \in S => k + 1 \in S
  PROVE  \A k \in Nat : k \in S
<1>1. SUFFICES ASSUME NEW n \in Nat, n \notin S PROVE FALSE
  OBVIOUS
<1> DEFINE Out == Nat \ S
<1>2. PICK m \in Out : \A k \in Nat : k < m => k \notin Out
  BY <1>1, LeastInNat
<1>3. m \in Nat /\ m # 0 /\ m - 1 \in Nat /\ m - 1 < m /\ m - 1 + 1 = m
  BY <1>2
<1> QED
  BY <1>2, <1>3

-----------------------------------------------------------------------------
(* Division. *)

LEMMA DivMod ==
  ASSUME NEW a \in Nat, NEW n \in Nat \ {0}
  PROVE  /\ a \div n \in Nat /\ a % n \in 0 .. (n - 1)
         /\ a = n * (a \div n) + (a % n)
  OBVIOUS

LEMMA DivOf ==
  ASSUME NEW n \in Nat \ {0}, NEW q \in Nat, NEW r \in 0 .. (n - 1)
  PROVE  (n * q + r) \div n = q /\ (n * q + r) % n = r
  OBVIOUS

LEMMA TimesGrows ==
  ASSUME NEW a \in Nat, NEW x \in Nat, NEW y \in Nat, x <= y
  PROVE  a * x <= a * y /\ a * x \in Nat /\ a * y \in Nat
<1>1. y - x \in Nat /\ y = x + (y - x)
  OBVIOUS
<1>2. a * (y - x) \in Nat /\ a * y = a * x + a * (y - x) /\ a * x \in Nat
  BY <1>1
<1> QED
  BY <1>2

(* A quotient is below a bound exactly if the number is below its multiple. *)
LEMMA DivBelow ==
  ASSUME NEW n \in Nat, NEW a \in Nat \ {0}, NEW b \in Nat
  PROVE  n \div a < b <=> n < a * b
<1> DEFINE q == n \div a
           x == n % a
<1>1. q \in Nat /\ x \in 0 .. (a - 1) /\ n = a * q + x
  BY DivMod
<1> HIDE DEF q, x
<1>2. ASSUME q < b PROVE n < a * b
  <2>1. a * (q + 1) <= a * b /\ a * (q + 1) = a * q + a
    BY <1>1, <1>2, TimesGrows
  <2>2. a * q \in Nat /\ a * b \in Nat
    BY <1>1
  <2> QED
    BY <1>1, <2>1, <2>2
<1>3. ASSUME ~(q < b) PROVE ~(n < a * b)
  <2>1. a * b <= a * q /\ a * b \in Nat /\ a * q \in Nat
    BY <1>1, <1>3, TimesGrows
  <2> QED
    BY <1>1, <2>1
<1> QED
  BY <1>2, <1>3 DEF q

(* Dividing by a and then by b is dividing by a * b. *)
LEMMA DivDiv ==
  ASSUME NEW n \in Nat, NEW a \in Nat \ {0}, NEW b \in Nat \ {0}
  PROVE  n \div (a * b) = (n \div a) \div b
<1> DEFINE q == n \div a
           x == n % a
           s == q \div b
           y == q % b
<1>1. q \in Nat /\ x \in 0 .. (a - 1) /\ n = a * q + x
  BY DivMod
<1>2. s \in Nat /\ y \in 0 .. (b - 1) /\ q = b * s + y
  <2> HIDE DEF q
  <2> QED BY <1>1, DivMod
<1> HIDE DEF q, x, s, y
<1> DEFINE rest == a * y + x
           ab == a * b
<1>3. rest \in 0 .. (ab - 1) /\ ab \in Nat \ {0}
  <2>1. a * y <= a * (b - 1) /\ a * (b - 1) = a * b - a /\ a * y \in Nat
    BY <1>2, TimesGrows
  <2>2. a * b \in Nat
    OBVIOUS
  <2>3. a * y + x \in Nat /\ a * y + x <= a * b - 1 /\ a * b # 0
    BY <1>1, <2>1, <2>2
  <2> QED
    BY <2>2, <2>3
<1>4. n = ab * s + rest
  <2>1. a * q = a * (b * s) + a * y
    BY <1>1, <1>2
  <2>2. a * (b * s) = ab * s /\ ab * s \in Nat /\ a * y \in Nat
    BY <1>2
  <2> HIDE DEF ab
  <2> QED
    BY <1>1, <2>1, <2>2
<1> HIDE DEF rest, ab
<1>5. n \div ab = s
  BY <1>2, <1>3, <1>4, DivOf
<1> QED
  BY <1>5 DEF ab, s, q

-----------------------------------------------------------------------------
(* Powers. *)

PowerSteps(f, b, k) == f = [j \in 0 .. k |-> IF j = 0 THEN 1 ELSE b * f[j - 1]]

LEMMA PowerStepsExist ==
  ASSUME NEW b \in Nat, NEW k \in Nat
  PROVE  \E f : PowerSteps(f, b, k) /\ \A j \in 0 .. k : f[j] \in Nat
<1> DEFINE S == {m \in Nat : \E f : PowerSteps(f, b, m) /\ \A j \in 0 .. m : f[j] \in Nat}
<1>1. 0 \in S
  <2> DEFINE f == [j \in 0 .. 0 |-> 1]
  <2>1. f = [j \in 0 .. 0 |-> IF j = 0 THEN 1 ELSE b * f[j - 1]]
    OBVIOUS
  <2>2. \A j \in 0 .. 0 : f[j] \in Nat
    OBVIOUS
  <2> HIDE DEF f
  <2> QED
    BY <2>1, <2>2 DEF PowerSteps
<1>2. ASSUME NEW m \in Nat, m \in S PROVE m + 1 \in S
  <2>1. PICK f : PowerSteps(f, b, m) /\ \A j \in 0 .. m : f[j] \in Nat
    BY <1>2
  <2> DEFINE g == [j \in 0 .. (m + 1) |-> IF j <= m THEN f[j] ELSE b * f[m]]
  <2>2. \A j \in 0 .. m : f[j] = IF j = 0 THEN 1 ELSE b * f[j - 1]
    BY <2>1 DEF PowerSteps
  <2>3. \A j \in 0 .. (m + 1) : g[j] = (IF j <= m THEN f[j] ELSE b * f[m])
    OBVIOUS
  <2>4. DOMAIN g = 0 .. (m + 1) /\ g = [j \in 0 .. (m + 1) |-> g[j]]
    OBVIOUS
  <2> HIDE DEF g
  <2>5. ASSUME NEW j \in 0 .. (m + 1)
        PROVE  g[j] = (IF j = 0 THEN 1 ELSE b * g[j - 1]) /\ g[j] \in Nat
    <3>1. CASE j <= m
      <4>1. j \in 0 .. m /\ (j # 0 => j - 1 \in 0 .. (m + 1) /\ j - 1 <= m)
        BY <1>2, <3>1
      <4>2. g[j] = f[j] /\ (j # 0 => g[j - 1] = f[j - 1])
        BY <2>3, <4>1
      <4> QED
        BY <2>1, <2>2, <4>1, <4>2
    <3>2. CASE ~(j <= m)
      <4>1. j = m + 1 /\ j - 1 = m /\ m \in 0 .. (m + 1) /\ m <= m /\ j # 0
        BY <1>2, <3>2
      <4>2. g[j] = b * f[m] /\ g[j - 1] = f[m] /\ f[m] \in Nat
        BY <1>2, <2>1, <2>3, <3>2, <4>1
      <4> QED
        BY <4>1, <4>2
    <3> QED
      BY <3>1, <3>2
  <2>6. PowerSteps(g, b, m + 1)
    BY <2>4, <2>5 DEF PowerSteps
  <2> QED
    BY <1>2, <2>5, <2>6
<1>3. \A m \in Nat : m \in S
  <2> HIDE DEF S
  <2> QED BY <1>1, <1>2, AllNumbers
<1> QED
  BY <1>3

LEMMA PowerIs ==
  ASSUME NEW b \in Nat, NEW k \in Nat
  PROVE  \E f : /\ PowerSteps(f, b, k) /\ Power(b, k) = f[k]
                /\ \A j \in 0 .. k : f[j] \in Nat
<1> DEFINE f == CHOOSE g : PowerSteps(g, b, k)
<1>1. PowerSteps(f, b, k)
  BY PowerStepsExist
<1>2. Power(b, k) = f[k]
  BY DEF Power, PowerSteps
<1> HIDE DEF f
<1> DEFINE S == {m \in Nat : m <= k => f[m] \in Nat}
<1>3. \A j \in 0 .. k : f[j] = IF j = 0 THEN 1 ELSE b * f[j - 1]
  BY <1>1 DEF PowerSteps
<1>4. 0 \in S
  BY <1>3
<1>5. ASSUME NEW m \in Nat, m \in S PROVE m + 1 \in S
  <2>1. SUFFICES ASSUME m + 1 <= k PROVE f[m + 1] \in Nat
    OBVIOUS
  <2>2. m + 1 \in 0 .. k /\ m + 1 # 0 /\ m + 1 - 1 = m /\ m <= k
    BY <2>1
  <2>3. f[m] \in Nat
    BY <1>5, <2>2
  <2>4. f[m + 1] = b * f[m]
    BY <1>3, <2>2
  <2> QED
    BY <2>3, <2>4
<1>6. \A m \in Nat : m \in S
  <2> HIDE DEF S
  <2> QED BY <1>4, <1>5, AllNumbers
<1> QED
  BY <1>1, <1>2, <1>6

LEMMA PowerNext ==
  ASSUME NEW b \in Nat, NEW k \in Nat
  PROVE  /\ Power(b, 0) = 1
         /\ Power(b, k + 1) = b * Power(b, k)
         /\ Power(b, k) \in Nat
<1>1. Power(b, 0) = 1
  <2>1. PICK f : PowerSteps(f, b, 0) /\ Power(b, 0) = f[0]
    BY PowerIs
  <2> QED
    BY <2>1 DEF PowerSteps
<1>2. PICK f : PowerSteps(f, b, k) /\ Power(b, k) = f[k] /\ \A j \in 0 .. k : f[j] \in Nat
  BY PowerIs
<1>3. PICK g : PowerSteps(g, b, k + 1) /\ Power(b, k + 1) = g[k + 1]
  BY PowerIs
<1>4. \A j \in 0 .. k : f[j] = IF j = 0 THEN 1 ELSE b * f[j - 1]
  BY <1>2 DEF PowerSteps
<1>5. \A j \in 0 .. (k + 1) : g[j] = IF j = 0 THEN 1 ELSE b * g[j - 1]
  BY <1>3 DEF PowerSteps
<1> DEFINE S == {m \in Nat : m <= k => f[m] = g[m]}
<1>6. 0 \in S
  BY <1>4, <1>5
<1>7. ASSUME NEW m \in Nat, m \in S PROVE m + 1 \in S
  <2>1. SUFFICES ASSUME m + 1 <= k PROVE f[m + 1] = g[m + 1]
    OBVIOUS
  <2>2. m + 1 \in 0 .. k /\ m + 1 \in 0 .. (k + 1) /\ m + 1 # 0 /\ m + 1 - 1 = m /\ m <= k
    BY <2>1
  <2> QED
    BY <1>4, <1>5, <1>7, <2>2
<1>8. \A m \in Nat : m \in S
  <2> HIDE DEF S
  <2> QED BY <1>6, <1>7, AllNumbers
<1>9. f[k] = g[k] /\ f[k] \in Nat
  BY <1>2, <1>8
<1>10. k + 1 \in 0 .. (k + 1) /\ k + 1 # 0 /\ k + 1 - 1 = k
  OBVIOUS
<1> QED
  BY <1>1, <1>2, <1>3, <1>5, <1>9, <1>10

LEMMA PowerPositive ==
  ASSUME NEW b \in Nat \ {0}, NEW k \in Nat
  PROVE  Power(b, k) \in Nat \ {0}
<1> DEFINE S == {m \in Nat : Power(b, m) \in Nat \ {0}}
<1>1. 0 \in S
  BY PowerNext
<1>2. ASSUME NEW m \in Nat, m \in S PROVE m + 1 \in S
  <2>1. Power(b, m + 1) = b * Power(b, m) /\ Power(b, m) \in Nat \ {0}
    BY <1>2, PowerNext
  <2> DEFINE p == Power(b, m)
  <2> HIDE DEF p
  <2>2. p \in Nat \ {0} /\ Power(b, m + 1) = b * p
    BY <2>1 DEF p
  <2>3. b * p \in Nat \ {0}
    BY <2>2
  <2> QED
    BY <2>2, <2>3
<1>3. \A m \in Nat : m \in S
  <2> HIDE DEF S
  <2> QED BY <1>1, <1>2, AllNumbers
<1> QED
  BY <1>3

(* Higher powers are no less. *)
LEMMA PowerGrows ==
  ASSUME NEW b \in Nat \ {0}, NEW j \in Nat, NEW k \in Nat, j <= k
  PROVE  Power(b, j) <= Power(b, k)
<1> DEFINE S == {d \in Nat : Power(b, j) <= Power(b, j + d)}
<1>1. 0 \in S
  BY PowerPositive
<1>2. ASSUME NEW d \in Nat, d \in S PROVE d + 1 \in S
  <2> DEFINE p == Power(b, j + d)
  <2>1. j + d \in Nat /\ j + (d + 1) = (j + d) + 1
    OBVIOUS
  <2>2. Power(b, j + (d + 1)) = b * p /\ p \in Nat \ {0} /\ Power(b, j) <= p /\ Power(b, j) \in Nat
    BY <1>2, <2>1, PowerNext, PowerPositive
  <2> HIDE DEF p
  <2>3. b * p = p + (b - 1) * p /\ (b - 1) * p \in Nat
    BY <2>2
  <2> QED
    BY <2>2, <2>3
<1>3. \A d \in Nat : d \in S
  <2> HIDE DEF S
  <2> QED BY <1>1, <1>2, AllNumbers
<1>4. k - j \in Nat /\ j + (k - j) = k
  OBVIOUS
<1> QED
  BY <1>3, <1>4

LEMMA PowerSum ==
  ASSUME NEW b \in Nat \ {0}, NEW j \in Nat, NEW k \in Nat
  PROVE  Power(b, j + k) = Power(b, j) * Power(b, k)
<1> DEFINE S == {m \in Nat : Power(b, j + m) = Power(b, j) * Power(b, m)}
<1>1. 0 \in S
  BY PowerNext, PowerPositive
<1>2. ASSUME NEW m \in Nat, m \in S PROVE m + 1 \in S
  <2> DEFINE p == Power(b, j)
             q == Power(b, m)
  <2>1. j + m \in Nat /\ j + (m + 1) = (j + m) + 1
    OBVIOUS
  <2>2. /\ Power(b, j + (m + 1)) = b * Power(b, j + m) /\ Power(b, m + 1) = b * q
        /\ Power(b, j + m) = p * q /\ p \in Nat /\ q \in Nat
    BY <1>2, <2>1, PowerNext
  <2> HIDE DEF p, q
  <2>3. b * (p * q) = p * (b * q)
    BY <2>2
  <2> QED
    BY <2>2, <2>3 DEF p
<1>3. \A m \in Nat : m \in S
  <2> HIDE DEF S
  <2> QED BY <1>1, <1>2, AllNumbers
<1> QED
  BY <1>3

(* A greater base has no less a power. *)
LEMMA PowerOfGreater ==
  ASSUME NEW a \in Nat \ {0}, NEW b \in Nat \ {0}, a <= b, NEW k \in Nat
  PROVE  Power(a, k) <= Power(b, k)
<1> DEFINE S == {m \in Nat : Power(a, m) <= Power(b, m)}
<1>1. 0 \in S
  BY PowerNext
<1>2. ASSUME NEW m \in Nat, m \in S PROVE m + 1 \in S
  <2> DEFINE p == Power(a, m)
             q == Power(b, m)
  <2>1. /\ Power(a, m + 1) = a * p /\ Power(b, m + 1) = b * q
        /\ p \in Nat /\ q \in Nat /\ p <= q
    BY <1>2, PowerNext
  <2> HIDE DEF p, q
  <2>2. a * p <= a * q /\ q * a <= q * b /\ a * p \in Nat /\ a * q \in Nat /\ q * b \in Nat
    BY <2>1, TimesGrows
  <2>3. q * a = a * q /\ q * b = b * q
    BY <2>1
  <2> QED
    BY <2>1, <2>2, <2>3
<1>3. \A m \in Nat : m \in S
  <2> HIDE DEF S
  <2> QED BY <1>1, <1>2, AllNumbers
<1> QED
  BY <1>3

-----------------------------------------------------------------------------
(* Numerals. *)

(* k digits hold n and no fewer do. *)
Holds(n, radix, k) == n < Power(radix, k) /\ (k = 1 \/ n >= Power(radix, k - 1))

LEMMA HoldsOnce ==
  ASSUME NEW n \in Nat, NEW radix \in Nat \ {0}, NEW k \in Nat \ {0}, NEW l \in Nat \ {0},
         Holds(n, radix, k), Holds(n, radix, l)
  PROVE  k = l
<1>1. ASSUME NEW x \in Nat \ {0}, NEW y \in Nat \ {0}, Holds(n, radix, x), Holds(n, radix, y), x < y
      PROVE  FALSE
  <2>1. x \in Nat /\ y - 1 \in Nat /\ x <= y - 1 /\ y # 1
    BY <1>1
  <2>2. Power(radix, x) <= Power(radix, y - 1)
    BY <2>1, PowerGrows
  <2>3. n < Power(radix, x) /\ n >= Power(radix, y - 1)
    BY <1>1, <2>1 DEF Holds
  <2>4. Power(radix, x) \in Nat /\ Power(radix, y - 1) \in Nat
    BY <2>1, PowerPositive
  <2> QED
    BY <2>2, <2>3, <2>4
<1>2. ~(k < l) /\ ~(l < k)
  BY <1>1
<1> QED
  BY <1>2

LEMMA HoldsSome ==
  ASSUME NEW n \in Nat, NEW radix \in Nat \ {0}, NEW top \in Nat \ {0}, n < Power(radix, top)
  PROVE  \E k \in 1 .. top : Holds(n, radix, k)
<1> DEFINE S == {k \in Nat : k # 0 /\ n < Power(radix, k)}
<1>1. PICK k \in S : \A j \in Nat : j < k => j \notin S
  <2>1. top \in S
    OBVIOUS
  <2>2. S \subseteq Nat
    OBVIOUS
  <2> HIDE DEF S
  <2> QED BY <2>1, <2>2, LeastInNat
<1>2. k \in 1 .. top
  BY <1>1
<1>3. k # 1 => n >= Power(radix, k - 1)
  <2>1. SUFFICES ASSUME k # 1 PROVE n >= Power(radix, k - 1)
    OBVIOUS
  <2>2. k - 1 \in Nat /\ k - 1 < k /\ k - 1 # 0
    BY <1>2, <2>1
  <2>3. ~(n < Power(radix, k - 1)) /\ Power(radix, k - 1) \in Nat
    BY <1>1, <2>2, PowerPositive
  <2> QED
    BY <2>3
<1> QED
  BY <1>1, <1>2, <1>3 DEF Holds

(* The numeral of n, when k digits hold it. *)
Figures(n, radix, k) == [j \in 1 .. k |-> HexChars[1 + ((n \div Power(radix, k - j)) % radix)]]

LEMMA NumeralIs ==
  ASSUME NEW n \in Nat, NEW radix \in Nat \ {0}, NEW k \in 1 .. (2 * WordBits), Holds(n, radix, k)
  PROVE  Numeral(n, radix) = Figures(n, radix, k)
<1> DEFINE digits == CHOOSE d \in 1 .. (2 * WordBits) : n < Power(radix, d) /\ (d = 1 \/ n >= Power(radix, d - 1))
<1>1. WordBits \in Nat \ {0}
  BY PrintfAssumption
<1>2. digits \in 1 .. (2 * WordBits) /\ Holds(n, radix, digits)
  BY DEF Holds
<1>3. digits \in Nat \ {0} /\ k \in Nat \ {0}
  <2> HIDE DEF digits
  <2> QED BY <1>1, <1>2
<1>4. digits = k
  <2> HIDE DEF digits
  <2> QED BY <1>2, <1>3, HoldsOnce
<1>5. Numeral(n, radix) = Figures(n, radix, digits)
  BY DEF Numeral, Figures
<1> QED
  BY <1>4, <1>5

(* One digit more. *)
LEMMA HoldsNext ==
  ASSUME NEW radix \in Nat \ {0}, NEW n \in Nat, radix <= n, NEW k \in Nat \ {0},
         Holds(n \div radix, radix, k)
  PROVE  Holds(n, radix, k + 1)
<1> DEFINE p == Power(radix, k)
           o == Power(radix, k - 1)
<1>1. k - 1 \in Nat /\ k - 1 + 1 = k /\ k + 1 - 1 = k /\ k + 1 # 1
  OBVIOUS
<1>2. p \in Nat /\ o \in Nat /\ p = radix * o /\ Power(radix, k + 1) = radix * p
  <2>1. radix \in Nat /\ k \in Nat
    OBVIOUS
  <2>2. Power(radix, k + 1) = radix * p /\ p \in Nat
    BY <2>1, PowerNext, Zenon
  <2>3. Power(radix, k - 1 + 1) = radix * o /\ o \in Nat
    BY <1>1, <2>1, PowerNext, Zenon
  <2> QED
    BY <1>1, <2>2, <2>3, Zenon
<1>3. n \div radix < p /\ (k = 1 \/ n \div radix >= o) /\ n \div radix \in Nat
  BY DivMod DEF Holds
<1>4. k = 1 => p = radix
  <2>1. Power(radix, 0) = 1
    BY PowerNext
  <2> QED
    BY <1>2, <2>1
<1> HIDE DEF p, o
<1>5. n < radix * p
  BY <1>2, <1>3, DivBelow
<1>6. n >= p
  <2>1. CASE k = 1
    BY <1>4, <2>1
  <2>2. CASE k # 1
    <3>1. ~(n \div radix < o)
      BY <1>2, <1>3, <2>2
    <3>2. ~(n < radix * o)
      BY <1>2, <3>1, DivBelow
    <3> QED
      BY <1>2, <3>2
  <2> QED
    BY <2>1, <2>2
<1> QED
  BY <1>1, <1>2, <1>5, <1>6 DEF Holds, p

LEMMA FiguresNext ==
  ASSUME NEW radix \in 2 .. 16, NEW n \in Nat, NEW k \in Nat \ {0}
  PROVE  Figures(n, radix, k + 1) = Append(Figures(n \div radix, radix, k), HexChars[1 + (n % radix)])
<1> DEFINE r == Figures(n \div radix, radix, k)
           e == HexChars[1 + (n % radix)]
           S == {HexChars[d] : d \in 1 .. 16}
           a == Append(r, e)
           f == Figures(n, radix, k + 1)
<1>1. radix \in Nat \ {0} /\ n \div radix \in Nat
  BY DivMod
<1>2. \A x \in Nat : HexChars[1 + (x % radix)] \in S
  <2>1. ASSUME NEW x \in Nat PROVE 1 + (x % radix) \in 1 .. 16
    <3> DEFINE y == x % radix
    <3>1. y \in 0 .. (radix - 1)
      BY <1>1, DivMod
    <3> HIDE DEF y
    <3>2. 1 + y \in 1 .. 16
      BY <3>1
    <3> QED
      BY <3>2 DEF y
  <2> QED
    BY <2>1
<1>3. ASSUME NEW m \in Nat, NEW l \in Nat, NEW j \in 1 .. l
      PROVE  l - j \in Nat /\ Power(radix, l - j) \in Nat \ {0} /\ m \div Power(radix, l - j) \in Nat
  <2>1. l - j \in Nat
    BY <1>3
  <2>2. Power(radix, l - j) \in Nat \ {0}
    BY <1>1, <2>1, PowerPositive
  <2> QED
    BY <2>1, <2>2, DivMod
<1>4. r \in [1 .. k -> S] /\ f \in [1 .. (k + 1) -> S] /\ e \in S
  <2>1. ASSUME NEW m \in Nat, NEW l \in Nat PROVE Figures(m, radix, l) \in [1 .. l -> S]
    <3> HIDE DEF S
    <3>1. \A j \in 1 .. l : HexChars[1 + ((m \div Power(radix, l - j)) % radix)] \in S
      BY <1>2, <1>3
    <3> QED BY <3>1 DEF Figures
  <2>2. k \in Nat /\ k + 1 \in Nat
    OBVIOUS
  <2> HIDE DEF S
  <2>3. r \in [1 .. k -> S] /\ f \in [1 .. (k + 1) -> S]
    BY <1>1, <2>1, <2>2
  <2> QED BY <1>2, <2>3
<1>5. r \in Seq(S) /\ Len(r) = k /\ f \in Seq(S) /\ Len(f) = k + 1
  <2>1. k \in Nat /\ k + 1 \in Nat
    OBVIOUS
  <2> HIDE DEF r, f, S
  <2>2. r \in Seq(S) /\ f \in Seq(S)
    BY <1>4, <2>1, SeqDef
  <2> QED
    BY <1>4, <2>1, <2>2, LenProperties
<1>6. /\ a \in Seq(S) /\ Len(a) = k + 1 /\ a[k + 1] = e
      /\ \A j \in 1 .. k : a[j] = r[j]
  <2> HIDE DEF r, e, S
  <2> QED BY <1>4, <1>5, AppendProperties
<1>7. \A j \in 1 .. k : f[j] = r[j]
  <2> TAKE j \in 1 .. k
  <2>1. j \in 1 .. (k + 1) /\ k + 1 - j = (k - j) + 1 /\ k - j \in Nat
    OBVIOUS
  <2>2. Power(radix, k + 1 - j) = radix * Power(radix, k - j)
    BY <1>1, <2>1, PowerNext
  <2>3. n \div Power(radix, k + 1 - j) = (n \div radix) \div Power(radix, k - j)
    <3> DEFINE b == Power(radix, k - j)
    <3>1. b \in Nat \ {0} /\ Power(radix, k + 1 - j) = radix * b
      BY <1>1, <2>1, <2>2, PowerPositive
    <3> HIDE DEF b
    <3>2. n \div (radix * b) = (n \div radix) \div b
      BY <1>1, <3>1, DivDiv
    <3> QED
      BY <3>1, <3>2 DEF b
  <2> QED
    BY <2>1, <2>3 DEF Figures
<1>8. f[k + 1] = e
  <2>1. k + 1 \in 1 .. (k + 1) /\ k + 1 - (k + 1) = 0
    OBVIOUS
  <2>2. Power(radix, 0) = 1 /\ n \div 1 = n
    <3>1. Power(radix, 0) = 1
      BY <1>1, PowerNext
    <3>2. n \div 1 = n
      OBVIOUS
    <3> QED
      BY <3>1, <3>2
  <2>3. n \div Power(radix, k + 1 - (k + 1)) = n
    BY <2>1, <2>2
  <2> QED
    BY <2>1, <2>3 DEF Figures
<1> HIDE DEF a, f, r, e, S
<1>9. \A j \in 1 .. (k + 1) : f[j] = a[j]
  <2> TAKE j \in 1 .. (k + 1)
  <2>1. j \in 1 .. k \/ j = k + 1
    OBVIOUS
  <2> QED
    BY <1>6, <1>7, <1>8, <2>1
<1>10. f = a
  BY <1>5, <1>6, <1>9, SeqEqual
<1> QED
  BY <1>10 DEF a, f, r, e

(* The numeral as printf_unsigned builds it, digit by digit. *)
LEMMA NumeralNext ==
  ASSUME NEW radix \in 2 .. 16, NEW n \in Nat, n < Power(radix, 2 * WordBits)
  PROVE  Numeral(n, radix) = IF n < radix THEN <<HexChars[n + 1]>>
                             ELSE Append(Numeral(n \div radix, radix), HexChars[1 + (n % radix)])
<1> DEFINE top == 2 * WordBits
<1>1. radix \in Nat \ {0} /\ WordBits \in Nat \ {0} /\ top \in Nat \ {0, 1}
  BY PrintfAssumption
<1>2. ASSUME n < radix PROVE Numeral(n, radix) = <<HexChars[n + 1]>>
  <2>1. Power(radix, 0) = 1 /\ Power(radix, 0 + 1) = radix * Power(radix, 0) /\ 0 + 1 = 1
    BY <1>1, PowerNext
  <2>2. Power(radix, 1) = radix
    BY <2>1
  <2>3. Holds(n, radix, 1) /\ 1 \in 1 .. top
    BY <1>1, <1>2, <2>2 DEF Holds
  <2>4. Numeral(n, radix) = Figures(n, radix, 1)
    BY <1>1, <2>3, NumeralIs
  <2>5. Power(radix, 1 - 1) = 1 /\ n \div 1 = n /\ n % radix = n
    BY <1>1, <1>2, <2>1
  <2>6. 1 + ((n \div Power(radix, 1 - 1)) % radix) = n + 1
    BY <2>5
  <2>7. Figures(n, radix, 1) = [j \in 1 .. 1 |-> HexChars[n + 1]]
    <3>1. \A j \in 1 .. 1 : j = 1
      OBVIOUS
    <3>2. \A j \in 1 .. 1 : 1 + ((n \div Power(radix, 1 - j)) % radix) = n + 1
      BY <2>6, <3>1
    <3> QED
      BY <3>2 DEF Figures
  <2>8. <<HexChars[n + 1]>> = [j \in 1 .. 1 |-> HexChars[n + 1]]
    OBVIOUS
  <2> QED
    BY <2>4, <2>7, <2>8
<1>3. ASSUME ~(n < radix)
      PROVE  Numeral(n, radix) = Append(Numeral(n \div radix, radix), HexChars[1 + (n % radix)])
  <2> DEFINE m == n \div radix
  <2>1. m \in Nat /\ radix <= n
    <3>1. n \div radix \in Nat
      BY <1>1, DivMod
    <3>2. radix <= n
      BY <1>1, <1>3
    <3> QED
      BY <3>1, <3>2
  <2>2. m < Power(radix, top - 1)
    <3>1. top - 1 \in Nat /\ top - 1 + 1 = top
      BY <1>1
    <3>2. Power(radix, top) = radix * Power(radix, top - 1) /\ Power(radix, top - 1) \in Nat
      <4>1. radix \in Nat
        BY <1>1
      <4>2. /\ Power(radix, top - 1 + 1) = radix * Power(radix, top - 1)
            /\ Power(radix, top - 1) \in Nat
        BY <3>1, <4>1, PowerNext, Zenon
      <4> QED
        BY <3>1, <4>2, Zenon
    <3> QED
      BY <1>1, <3>2, DivBelow
  <2>3. PICK k \in 1 .. (top - 1) : Holds(m, radix, k)
    <3>1. top - 1 \in Nat \ {0}
      BY <1>1
    <3> HIDE DEF m, top
    <3> QED BY <1>1, <2>1, <2>2, <3>1, HoldsSome
  <2>4. k \in Nat \ {0} /\ k \in 1 .. top /\ k + 1 \in 1 .. top
    BY <1>1, <2>3
  <2>5. Holds(n, radix, k + 1)
    BY <1>1, <2>1, <2>3, <2>4, HoldsNext
  <2>6. Numeral(m, radix) = Figures(m, radix, k) /\ Numeral(n, radix) = Figures(n, radix, k + 1)
    <3> HIDE DEF m
    <3> QED BY <1>1, <2>1, <2>3, <2>4, <2>5, NumeralIs
  <2>7. Figures(n, radix, k + 1) = Append(Figures(m, radix, k), HexChars[1 + (n % radix)])
    BY <2>4, FiguresNext
  <2> QED
    BY <2>6, <2>7
<1> QED
  BY <1>2, <1>3

(* printf_unsigned writes the numeral: the digits it finds last to first and  *)
(* writes backwards are the fewest that hold the number.                   *)
THEOREM UnsignedIsNumeral ==
  ASSUME NEW radix \in 2 .. 16, NEW n \in Nat, n < Power(radix, 2 * WordBits)
  PROVE  Unsigned(n, radix) = Numeral(n, radix)
<1> DEFINE Is(f) == f = [k \in 0 .. n |-> IF k < radix THEN <<HexChars[k + 1]>>
                                       ELSE Append(f[k \div radix], HexChars[1 + (k % radix)])]
           f == CHOOSE g : Is(g)
<1>1. radix \in Nat \ {0} /\ Power(radix, 2 * WordBits) \in Nat
  <2>1. radix \in Nat \ {0} /\ 2 * WordBits \in Nat
    BY PrintfAssumption
  <2> QED
    BY <2>1, PowerPositive
<1>2. ASSUME NEW k \in 0 .. n
      PROVE  /\ k \in Nat /\ k < Power(radix, 2 * WordBits)
             /\ ~(k < radix) => k \div radix \in 0 .. n /\ k \div radix < k
  <2>1. k \in Nat /\ k <= n
    OBVIOUS
  <2>2. k < Power(radix, 2 * WordBits)
    BY <1>1, <2>1
  <2>3. ASSUME ~(k < radix) PROVE k \div radix < k
    <3>1. k < radix * k
      <4>1. k # 0 /\ radix * k = k + (radix - 1) * k
        BY <1>1, <2>1, <2>3
      <4>2. (radix - 1) * k >= 1 * k
        <5>1. 1 <= radix - 1 /\ radix - 1 \in Nat
          OBVIOUS
        <5>2. k * 1 <= k * (radix - 1)
          BY <2>1, <5>1, TimesGrows
        <5> QED
          BY <2>1, <5>1, <5>2
      <4>3. (radix - 1) * k \in Nat
        BY <2>1
      <4> QED
        BY <2>1, <4>1, <4>2, <4>3
    <3> QED
      BY <1>1, <2>1, <3>1, DivBelow
  <2>4. k \div radix \in Nat
    BY <1>1, <2>1, DivMod
  <2> QED
    BY <2>1, <2>2, <2>3, <2>4
<1>3. ASSUME NEW k \in 0 .. n
      PROVE  Numeral(k, radix) = IF k < radix THEN <<HexChars[k + 1]>>
                                 ELSE Append(Numeral(k \div radix, radix), HexChars[1 + (k % radix)])
  BY <1>2, NumeralNext
<1>4. \E g : Is(g)
  <2> DEFINE g == [k \in 0 .. n |-> Numeral(k, radix)]
  <2>1. ASSUME NEW k \in 0 .. n
        PROVE  Numeral(k, radix) = IF k < radix THEN <<HexChars[k + 1]>>
                                   ELSE Append(g[k \div radix], HexChars[1 + (k % radix)])
    BY <1>2, <1>3
  <2>2. g = [k \in 0 .. n |-> IF k < radix THEN <<HexChars[k + 1]>>
                              ELSE Append(g[k \div radix], HexChars[1 + (k % radix)])]
    BY <2>1
  <2> HIDE DEF g
  <2> QED
    BY <2>2
<1>5. Is(f)
  <2> HIDE DEF Is
  <2> QED BY <1>4
<1>6. Unsigned(n, radix) = f[n]
  BY DEF Unsigned
<1>7. \A k \in 0 .. n : f[k] = IF k < radix THEN <<HexChars[k + 1]>>
                               ELSE Append(f[k \div radix], HexChars[1 + (k % radix)])
  <2> HIDE DEF f
  <2> QED BY <1>5
<1> HIDE DEF Is, f
<1> DEFINE Differ == {k \in Nat : k <= n /\ f[k] # Numeral(k, radix)}
<1>8. ASSUME n \in Differ PROVE FALSE
  <2>1. PICK k \in Differ : \A j \in Nat : j < k => j \notin Differ
    <3>1. Differ \subseteq Nat
      OBVIOUS
    <3> HIDE DEF Differ
    <3> QED BY <1>8, <3>1, LeastInNat
  <2>2. k \in 0 .. n /\ f[k] # Numeral(k, radix)
    BY <2>1
  <2>3. ~(k < radix)
    BY <1>3, <1>7, <2>2
  <2>4. k \div radix \in 0 .. n /\ k \div radix < k
    BY <1>2, <2>2, <2>3
  <2>5. f[k \div radix] = Numeral(k \div radix, radix)
    BY <2>1, <2>4
  <2> QED
    BY <1>3, <1>7, <2>2, <2>3, <2>5
<1> QED
  BY <1>6, <1>8

-----------------------------------------------------------------------------
(* Sequences of sequences. *)

ASeq(s) == s \in Seq(ToSet(s))

LEMMA SeqIsASeq ==
  ASSUME NEW S, NEW s \in Seq(S)
  PROVE  ASeq(s) /\ Len(s) \in Nat /\ DOMAIN s = 1 .. Len(s)
<1>1. Len(s) \in Nat /\ DOMAIN s = 1 .. Len(s) /\ s \in [1 .. Len(s) -> S]
  BY LenProperties
<1>2. s \in [1 .. Len(s) -> ToSet(s)]
  BY <1>1 DEF ToSet
<1>3. s \in Seq(ToSet(s))
  BY <1>1, <1>2, SeqDef
<1> QED
  BY <1>1, <1>3 DEF ASeq

LEMMA EmptyIsASeq == ASeq(<<>>) /\ Len(<<>>) = 0
BY EmptySeq DEF ASeq

LEMMA ConcatIsASeq ==
  ASSUME NEW s, ASeq(s), NEW t, ASeq(t)
  PROVE  /\ ASeq(s \o t) /\ Len(s) \in Nat /\ Len(t) \in Nat
         /\ Len(s \o t) = Len(s) + Len(t)
         /\ \A j \in 1 .. Len(s) : (s \o t)[j] = s[j]
         /\ \A j \in 1 .. Len(t) : (s \o t)[Len(s) + j] = t[j]
<1> DEFINE S == ToSet(s) \union ToSet(t)
<1>1. s \in Seq(S) /\ t \in Seq(S)
  <2>1. ToSet(s) \subseteq S /\ ToSet(t) \subseteq S
    OBVIOUS
  <2> HIDE DEF S
  <2> QED BY <2>1, SeqMonotonic DEF ASeq
<1> HIDE DEF S
<1>2. Len(s) \in Nat /\ Len(t) \in Nat
  BY <1>1, LenProperties
<1>3. s \o t \in Seq(S) /\ Len(s \o t) = Len(s) + Len(t)
  BY <1>1, ConcatProperties
<1>4. \A j \in 1 .. (Len(s) + Len(t)) : (s \o t)[j] = IF j <= Len(s) THEN s[j] ELSE t[j - Len(s)]
  BY <1>1, ConcatProperties
<1>5. ASeq(s \o t)
  BY <1>3, SeqIsASeq
<1>6. ASSUME NEW j \in 1 .. Len(s) PROVE (s \o t)[j] = s[j]
  BY <1>2, <1>4
<1>7. ASSUME NEW j \in 1 .. Len(t) PROVE (s \o t)[Len(s) + j] = t[j]
  <2>1. Len(s) + j \in 1 .. (Len(s) + Len(t)) /\ ~(Len(s) + j <= Len(s)) /\ Len(s) + j - Len(s) = j
    BY <1>2
  <2> QED
    BY <1>4, <2>1
<1> QED
  BY <1>2, <1>3, <1>5, <1>6, <1>7

Join(u, s, t) ==
  /\ ASeq(u) /\ Len(s) \in Nat /\ Len(t) \in Nat /\ Len(u) = Len(s) + Len(t)
  /\ \A j \in 1 .. Len(s) : u[j] = s[j]
  /\ \A j \in 1 .. Len(t) : u[Len(s) + j] = t[j]

LEMMA JoinIs ==
  ASSUME NEW s, ASeq(s), NEW t, ASeq(t)
  PROVE  Join(s \o t, s, t)
BY ConcatIsASeq DEF Join

(* g is what the first so many of the sequences put together come to.        *)
Parts(g, seqs) ==
  /\ g[0] = <<>>
  /\ \A j \in 1 .. Len(seqs) : g[j] = g[j - 1] \o seqs[j]

Flat(f, seqs, n) == f = [j \in 1 .. n |-> IF j = 1 THEN seqs[j] ELSE f[j - 1] \o seqs[j]]

LEMMA FlatExists ==
  ASSUME NEW seqs, NEW n \in Nat
  PROVE  \E f : Flat(f, seqs, n)
<1> DEFINE S == {m \in Nat : \E f : Flat(f, seqs, m)}
<1>1. 0 \in S
  <2> DEFINE f == [j \in 1 .. 0 |-> <<>>]
  <2>1. f = [j \in 1 .. 0 |-> IF j = 1 THEN seqs[j] ELSE f[j - 1] \o seqs[j]]
    OBVIOUS
  <2> HIDE DEF f
  <2> QED
    BY <2>1 DEF Flat
<1>2. ASSUME NEW m \in Nat, m \in S PROVE m + 1 \in S
  <2>1. PICK f : Flat(f, seqs, m)
    BY <1>2
  <2> DEFINE g == [j \in 1 .. (m + 1) |-> IF j <= m THEN f[j]
                                          ELSE IF j = 1 THEN seqs[j] ELSE f[m] \o seqs[j]]
  <2>2. \A j \in 1 .. m : f[j] = IF j = 1 THEN seqs[j] ELSE f[j - 1] \o seqs[j]
    BY <2>1 DEF Flat
  <2>3. \A j \in 1 .. (m + 1) : g[j] = (IF j <= m THEN f[j]
                                        ELSE IF j = 1 THEN seqs[j] ELSE f[m] \o seqs[j])
    OBVIOUS
  <2>4. g = [j \in 1 .. (m + 1) |-> g[j]]
    OBVIOUS
  <2> HIDE DEF g
  <2>5. ASSUME NEW j \in 1 .. (m + 1)
        PROVE  g[j] = IF j = 1 THEN seqs[j] ELSE g[j - 1] \o seqs[j]
    <3>1. CASE j <= m
      <4>1. j \in 1 .. m /\ (j # 1 => j - 1 \in 1 .. (m + 1) /\ j - 1 <= m)
        BY <1>2, <3>1
      <4>2. g[j] = f[j] /\ (j # 1 => g[j - 1] = f[j - 1])
        BY <2>3, <4>1
      <4> QED
        BY <2>2, <4>1, <4>2
    <3>2. CASE ~(j <= m)
      <4>1. j = m + 1 /\ j - 1 = m /\ (j # 1 => m \in 1 .. (m + 1) /\ m <= m)
        BY <1>2, <3>2
      <4>2. j # 1 => g[j - 1] = f[m]
        BY <2>3, <4>1
      <4> QED
        BY <2>3, <3>2, <4>2
    <3> QED
      BY <3>1, <3>2
  <2>6. Flat(g, seqs, m + 1)
    BY <2>4, <2>5 DEF Flat
  <2> QED
    BY <1>2, <2>6
<1>3. \A m \in Nat : m \in S
  <2> HIDE DEF S
  <2> QED BY <1>1, <1>2, AllNumbers
<1> QED
  BY <1>3

LEMMA FlattenIs ==
  ASSUME NEW seqs, NEW n \in Nat, seqs = [j \in 1 .. n |-> seqs[j]], \A j \in 1 .. n : ASeq(seqs[j])
  PROVE  /\ Len(seqs) = n
         /\ \E g : /\ Parts(g, seqs) /\ FlattenSeq(seqs) = g[n]
                   /\ \A j \in 0 .. n : ASeq(g[j])
<1> DEFINE f == CHOOSE h : Flat(h, seqs, n)
           g == [j \in 0 .. n |-> IF j = 0 THEN <<>> ELSE f[j]]
<1>1. Flat(f, seqs, n)
  BY FlatExists
<1>2. Len(seqs) = n
  <2> DEFINE S == {seqs[j] : j \in 1 .. n}
  <2>1. seqs \in [1 .. n -> S]
    OBVIOUS
  <2> HIDE DEF S
  <2>2. seqs \in Seq(S)
    BY <2>1, SeqDef
  <2> QED
    BY <2>1, <2>2, LenProperties
<1>3. n # 0 => FlattenSeq(seqs) = f[n]
  BY <1>2 DEF FlattenSeq, Flat
<1>4. n = 0 => FlattenSeq(seqs) = <<>>
  <2>1. SUFFICES ASSUME n = 0 PROVE seqs = <<>>
    BY <1>2 DEF FlattenSeq
  <2>2. seqs = [j \in 1 .. 0 |-> seqs[j]]
    BY <2>1
  <2> QED
    BY <2>2
<1>5. \A j \in 1 .. n : f[j] = IF j = 1 THEN seqs[j] ELSE f[j - 1] \o seqs[j]
  <2> HIDE DEF f
  <2> QED BY <1>1 DEF Flat
<1> HIDE DEF f
<1>6. g[0] = <<>> /\ \A j \in 1 .. n : g[j] = f[j]
  OBVIOUS
<1> HIDE DEF g
<1>7. ASSUME NEW j \in 1 .. n PROVE g[j] = g[j - 1] \o seqs[j]
  <2>1. CASE j = 1
    <3>1. g[1] = seqs[1] /\ g[j - 1] = <<>>
      BY <1>5, <1>6, <2>1
    <3>2. <<>> \o seqs[1] = seqs[1]
      BY <2>1, ConcatEmptySeq DEF ASeq
    <3> QED
      BY <2>1, <3>1, <3>2
  <2>2. CASE j # 1
    <3>1. j - 1 \in 1 .. n
      BY <2>2
    <3> QED
      BY <1>5, <1>6, <2>2, <3>1
  <2> QED
    BY <2>1, <2>2
<1> DEFINE T == {j \in Nat : j <= n => ASeq(g[j])}
<1>8. \A j \in Nat : j \in T
  <2>1. 0 \in T
    BY <1>6, EmptyIsASeq
  <2>2. ASSUME NEW j \in Nat, j \in T PROVE j + 1 \in T
    <3>1. SUFFICES ASSUME j + 1 <= n PROVE ASeq(g[j + 1])
      OBVIOUS
    <3>2. j + 1 \in 1 .. n /\ j + 1 - 1 = j /\ j <= n
      BY <3>1
    <3> DEFINE l == j + 1
    <3>3. l \in 1 .. n /\ l - 1 = j
      BY <3>2
    <3>4. ASeq(g[j])
      BY <2>2, <3>2
    <3> HIDE DEF l
    <3>5. g[l] = g[l - 1] \o seqs[l] /\ ASeq(seqs[l])
      BY <1>7, <3>3
    <3>6. ASeq(g[j] \o seqs[l])
      BY <3>4, <3>5, ConcatIsASeq
    <3>7. g[l] = g[j] \o seqs[l]
      BY <3>3, <3>5
    <3> QED
      BY <3>6, <3>7 DEF l
  <2> HIDE DEF T
  <2> QED BY <2>1, <2>2, AllNumbers
<1>9. Parts(g, seqs) /\ \A j \in 0 .. n : ASeq(g[j])
  BY <1>2, <1>6, <1>7, <1>8 DEF Parts
<1>10. FlattenSeq(seqs) = g[n]
  <2>1. CASE n = 0
    BY <1>4, <1>6, <2>1
  <2>2. CASE n # 0
    <3>1. n \in 1 .. n
      BY <2>2
    <3> QED
      BY <1>3, <1>6, <2>2, <3>1
  <2> QED
    BY <2>1, <2>2
<1> QED
  BY <1>2, <1>9, <1>10

(* What is put together first stays in front. *)
LEMMA PartsArePrefixes ==
  ASSUME NEW seqs, NEW n \in Nat, Len(seqs) = n, \A j \in 1 .. n : ASeq(seqs[j]),
         NEW g, Parts(g, seqs), \A j \in 0 .. n : ASeq(g[j]),
         NEW k \in 0 .. n
  PROVE  /\ Len(g[k]) \in Nat /\ Len(g[n]) \in Nat /\ Len(g[k]) <= Len(g[n])
         /\ \A p \in 1 .. Len(g[k]) : g[n][p] = g[k][p]
<1> DEFINE In(d) == /\ Len(g[k]) <= Len(g[k + d])
                    /\ \A p \in 1 .. Len(g[k]) : g[k + d][p] = g[k][p]
           S == {d \in Nat : k + d <= n => In(d)}
<1>1. \A j \in 0 .. n : Len(g[j]) \in Nat
  BY LenProperties DEF ASeq
<1>2. 0 \in S
  BY <1>1
<1>3. ASSUME NEW d \in Nat, d \in S PROVE d + 1 \in S
  <2>1. SUFFICES ASSUME k + (d + 1) <= n PROVE In(d + 1)
    OBVIOUS
  <2> DEFINE m == k + d
             l == m + 1
  <2>2. m \in 0 .. n /\ l \in 1 .. n /\ l - 1 = m /\ k + (d + 1) = l
    BY <2>1
  <2>3. Len(g[k]) <= Len(g[m]) /\ \A p \in 1 .. Len(g[k]) : g[m][p] = g[k][p]
    <3>1. m <= n
      BY <2>2
    <3> HIDE DEF m, l
    <3>2. In(d)
      BY <1>3, <3>1, Zenon DEF m
    <3> QED
      BY <3>2, Zenon DEF m
  <2> HIDE DEF m, l
  <2>4. g[l] = g[l - 1] \o seqs[l]
    BY <2>2 DEF Parts
  <2>5. g[l] = g[m] \o seqs[l] /\ ASeq(g[m]) /\ ASeq(seqs[l])
    BY <2>2, <2>4
  <2>6. /\ Len(g[l]) = Len(g[m]) + Len(seqs[l]) /\ Len(g[m]) \in Nat /\ Len(seqs[l]) \in Nat
        /\ \A p \in 1 .. Len(g[m]) : g[l][p] = g[m][p]
    <3> DEFINE s == g[m]
               t == seqs[l]
    <3>1. ASeq(s) /\ ASeq(t) /\ g[l] = s \o t
      BY <2>5
    <3> HIDE DEF s, t
    <3>2. /\ Len(g[l]) = Len(s) + Len(t) /\ Len(s) \in Nat /\ Len(t) \in Nat
          /\ \A p \in 1 .. Len(s) : g[l][p] = s[p]
      BY <3>1, ConcatIsASeq
    <3> QED
      BY <3>2 DEF s, t
  <2>7. Len(g[k]) \in Nat
    BY <1>1
  <2>8. Len(g[k]) <= Len(g[l]) /\ \A p \in 1 .. Len(g[k]) : g[l][p] = g[k][p]
    <3>1. Len(g[k]) <= Len(g[l])
      <4> DEFINE a == Len(g[k])
                 b == Len(g[m])
                 c == Len(g[l])
                 e == Len(seqs[l])
      <4>1. a <= b /\ c = b + e /\ a \in Nat /\ b \in Nat /\ e \in Nat
        BY <2>3, <2>6, <2>7
      <4> HIDE DEF a, b, c, e
      <4>2. a <= c
        BY <4>1
      <4> QED
        BY <4>2 DEF a, c
    <3>2. ASSUME NEW p \in 1 .. Len(g[k]) PROVE g[l][p] = g[k][p]
      <4>1. p \in 1 .. Len(g[m])
        BY <2>3, <2>6, <2>7
      <4> QED
        BY <2>3, <2>6, <4>1
    <3> QED
      BY <3>1, <3>2
  <2> QED
    BY <2>2, <2>8
<1>4. \A d \in Nat : d \in S
  <2> HIDE DEF S
  <2> QED BY <1>2, <1>3, AllNumbers
<1>5. n - k \in Nat /\ k + (n - k) = n
  OBVIOUS
<1>6. In(n - k)
  <2> DEFINE d == n - k
  <2>1. d \in Nat /\ k + d <= n
    BY <1>5
  <2> HIDE DEF d
  <2>2. In(d)
    BY <1>4, <2>1
  <2> QED
    BY <2>2 DEF d
<1> QED
  BY <1>1, <1>5, <1>6

-----------------------------------------------------------------------------
(* The loop of printf, character by character. *)

LoopSteps(f, copy, fmt, args, n) ==
  f = [k \in 0 .. n |-> IF k = 0 THEN Fresh ELSE Round(copy, f[k - 1], fmt[k], args)]

LEMMA LoopStepsExist ==
  ASSUME NEW copy, NEW fmt, NEW args, NEW n \in Nat
  PROVE  \E f : LoopSteps(f, copy, fmt, args, n)
<1> DEFINE S == {m \in Nat : \E f : LoopSteps(f, copy, fmt, args, m)}
<1>1. 0 \in S
  <2> DEFINE f == [k \in 0 .. 0 |-> Fresh]
  <2>1. f = [k \in 0 .. 0 |-> IF k = 0 THEN Fresh ELSE Round(copy, f[k - 1], fmt[k], args)]
    OBVIOUS
  <2> HIDE DEF f
  <2> QED
    BY <2>1 DEF LoopSteps
<1>2. ASSUME NEW m \in Nat, m \in S PROVE m + 1 \in S
  <2>1. PICK f : LoopSteps(f, copy, fmt, args, m)
    BY <1>2
  <2> DEFINE last == Round(copy, f[m], fmt[m + 1], args)
             g == [k \in 0 .. (m + 1) |-> IF k <= m THEN f[k] ELSE last]
  <2>2. \A k \in 0 .. m : f[k] = IF k = 0 THEN Fresh ELSE Round(copy, f[k - 1], fmt[k], args)
    BY <2>1 DEF LoopSteps
  <2>3. \A k \in 0 .. (m + 1) : g[k] = (IF k <= m THEN f[k] ELSE last)
    OBVIOUS
  <2>4. g = [k \in 0 .. (m + 1) |-> g[k]]
    OBVIOUS
  <2> HIDE DEF g
  <2>5. ASSUME NEW k \in 0 .. (m + 1)
        PROVE  g[k] = IF k = 0 THEN Fresh ELSE Round(copy, g[k - 1], fmt[k], args)
    <3>1. CASE k <= m
      <4>1. k \in 0 .. m /\ (k # 0 => k - 1 \in 0 .. (m + 1) /\ k - 1 <= m)
        BY <1>2, <3>1
      <4>2. g[k] = f[k] /\ (k # 0 => g[k - 1] = f[k - 1])
        BY <2>3, <4>1
      <4> QED
        BY <2>2, <4>1, <4>2
    <3>2. CASE ~(k <= m)
      <4>1. k = m + 1 /\ k # 0 /\ k - 1 = m /\ m \in 0 .. (m + 1) /\ m <= m
        BY <1>2, <3>2
      <4>2. g[k - 1] = f[m] /\ g[k] = last
        BY <2>3, <3>2, <4>1
      <4> QED
        BY <4>1, <4>2
    <3> QED
      BY <3>1, <3>2
  <2>6. LoopSteps(g, copy, fmt, args, m + 1)
    BY <2>4, <2>5 DEF LoopSteps
  <2> QED
    BY <1>2, <2>6
<1>3. \A m \in Nat : m \in S
  <2> HIDE DEF S
  <2> QED BY <1>1, <1>2, AllNumbers
<1> QED
  BY <1>3

LEMMA LoopIs ==
  ASSUME NEW copy, NEW fmt, NEW args, Len(fmt) \in Nat
  PROVE  \E f : /\ f[0] = Fresh /\ Loop(copy, fmt, args) = f[Len(fmt)]
                /\ \A k \in 1 .. Len(fmt) : f[k] = Round(copy, f[k - 1], fmt[k], args)
<1> DEFINE n == Len(fmt)
           f == CHOOSE g : LoopSteps(g, copy, fmt, args, n)
<1>1. LoopSteps(f, copy, fmt, args, n)
  BY LoopStepsExist
<1>2. Loop(copy, fmt, args) = f[n]
  BY DEF Loop, LoopSteps
<1>3. \A k \in 0 .. n : f[k] = IF k = 0 THEN Fresh ELSE Round(copy, f[k - 1], fmt[k], args)
  <2> HIDE DEF f
  <2> QED BY <1>1 DEF LoopSteps
<1> HIDE DEF f
<1>4. f[0] = Fresh /\ \A k \in 1 .. n : f[k] = Round(copy, f[k - 1], fmt[k], args)
  <2>1. 0 \in 0 .. n /\ \A k \in 1 .. n : k \in 0 .. n /\ k # 0
    OBVIOUS
  <2> QED
    BY <1>3, <2>1
<1> QED
  BY <1>2, <1>4

-----------------------------------------------------------------------------
(* One round of the automaton.  Between two directives, and inside one up to *)
(* its specifier, the record is                                            *)
Full(state, length, num, sign, radix, u, o) ==
  [state |-> state, length |-> length, number |-> num, sign |-> sign,
   radix |-> radix, used |-> u, out |-> o]
No == FALSE
At(state, length, num, u, o) == Full(state, length, num, No, Decimal, u, o)

Copies == {"kernel", "user", "stage2"}
Texts(copy) == IF copy = "user" THEN UserPuts ELSE KernelPuts

(* What the reset leaves of number. *)
Left(copy, num) == IF copy = "stage2" THEN num ELSE No

LEMMA RoundIs ==
  ASSUME NEW copy \in Copies, NEW m, NEW c, NEW args
  PROVE  Round(copy, m, c, args) = IF copy = "stage2" THEN ResetStage2(Step(m, c, args, Texts(copy)))
                                   ELSE ResetKernel(Step(m, c, args, Texts(copy)))
BY DEF Round, Copies, Texts, ResetUser

LEMMA ResetWaits ==
  ASSUME NEW copy \in Copies, NEW state, state # "reset", NEW length, NEW num, NEW u, NEW o
  PROVE  /\ ResetKernel(At(state, length, num, u, o)) = At(state, length, num, u, o)
         /\ ResetStage2(At(state, length, num, u, o)) = At(state, length, num, u, o)
BY DEF At, Full, ResetKernel, ResetStage2

LEMMA ResetRestores ==
  ASSUME NEW length, NEW is, NEW sign, NEW radix, NEW v, NEW p
  PROVE  /\ ResetKernel(Full("reset", length, is, sign, radix, v, p)) = At("normal", "default", No, v, p)
         /\ ResetStage2(Full("reset", length, is, sign, radix, v, p)) = At("normal", "default", is, v, p)
<1> DEFINE m == Full("reset", length, is, sign, radix, v, p)
<1>1. ResetKernel(m) = [m EXCEPT !.state = "normal", !.length = "default", !.radix = Decimal,
                                 !.sign = No, !.number = No]
  BY DEF ResetKernel, Full, No
<1>2. ResetKernel(m) = At("normal", "default", No, v, p)
  BY <1>1 DEF At, Full
<1>3. m.number = is
  BY DEF Full
<1>4. ResetStage2(m) = [At("normal", "default", No, v, p) EXCEPT !.number = is]
  BY <1>2, <1>3 DEF ResetStage2
<1>5. ASSUME NEW x, NEW y, NEW r
      PROVE  [Full("normal", "default", x, y, r, v, p) EXCEPT !.number = is] = Full("normal", "default", is, y, r, v, p)
  BY DEF Full
<1>6. ResetStage2(m) = At("normal", "default", is, v, p)
  BY <1>4, <1>5 DEF At
<1> QED
  BY <1>2, <1>6

LEMMA RoundOfChar ==
  ASSUME NEW copy \in Copies, NEW args, NEW num, NEW u, NEW o, NEW c, c # "%"
  PROVE  Round(copy, At("normal", "default", num, u, o), c, args) = At("normal", "default", num, u, Append(o, c))
<1>1. Step(At("normal", "default", num, u, o), c, args, Texts(copy)) = At("normal", "default", num, u, Append(o, c))
  BY DEF At, Full, Step
<1> QED
  BY <1>1, RoundIs, ResetWaits

LEMMA RoundOfPercent ==
  ASSUME NEW copy \in Copies, NEW args, NEW num, NEW u, NEW o
  PROVE  Round(copy, At("normal", "default", num, u, o), "%", args) = At("length", "default", num, u, o)
<1>1. Step(At("normal", "default", num, u, o), "%", args, Texts(copy)) = At("length", "default", num, u, o)
  BY DEF At, Full, Step
<1> QED
  BY <1>1, RoundIs, ResetWaits

LEMMA RoundOfLength ==
  ASSUME NEW copy \in Copies, NEW args, NEW num, NEW u, NEW o
  PROVE  /\ Round(copy, At("length", "default", num, u, o), "h", args) = At("h", "h", num, u, o)
         /\ Round(copy, At("length", "default", num, u, o), "l", args) = At("l", "l", num, u, o)
         /\ Round(copy, At("h", "h", num, u, o), "h", args) = At("spec", "hh", num, u, o)
         /\ Round(copy, At("l", "l", num, u, o), "l", args) = At("spec", "ll", num, u, o)
<1>1. /\ Step(At("length", "default", num, u, o), "h", args, Texts(copy)) = At("h", "h", num, u, o)
      /\ Step(At("length", "default", num, u, o), "l", args, Texts(copy)) = At("l", "l", num, u, o)
  BY DEF At, Full, Step
<1>2. Step(At("h", "h", num, u, o), "h", args, Texts(copy)) = At("spec", "hh", num, u, o)
  BY DEF At, Full, Step
<1>3. Step(At("l", "l", num, u, o), "l", args, Texts(copy)) = At("spec", "ll", num, u, o)
  BY DEF At, Full, Step
<1> QED
  BY <1>1, <1>2, <1>3, RoundIs, ResetWaits

Specs == NumberSpecs \union {"c", "s", "%"}
SpecStates == {"length", "h", "l", "spec"}

(* The record behind a specifier, and what it has taken and written.        *)
Gives(copy, state, length, num, u, o, c, args, is, sign, radix, v, p) ==
  WriteNumber(Specifier(At(state, length, num, u, o), c, args, Texts(copy)), args)
    = Full(state, length, is, sign, radix, v, p)

(* The specifier writes and leaves everything but number as it was.         *)
LEMMA RoundOfSpec ==
  ASSUME NEW copy \in Copies, NEW args, NEW num, NEW u, NEW o, NEW length,
         NEW state \in SpecStates, NEW c \in Specs,
         NEW radix, NEW sign, NEW is, NEW v, NEW p,
         Gives(copy, state, length, num, u, o, c, args, is, sign, radix, v, p)
  PROVE  Round(copy, At(state, length, num, u, o), c, args) = At("normal", "default", Left(copy, is), v, p)
<1> DEFINE m == At(state, length, num, u, o)
           w == WriteNumber(Specifier(m, c, args, Texts(copy)), args)
           z == Step(m, c, args, Texts(copy))
<1>1. m.state = state
  BY DEF At, Full
<1>2. c # "h" /\ c # "l" /\ state # "normal"
  BY DEF Specs, SpecStates, NumberSpecs
<1>3. w = Full(state, length, is, sign, radix, v, p)
  BY DEF Gives
<1> HIDE DEF m, w
<1>4. z = [w EXCEPT !.state = "reset"]
  BY <1>1, <1>2 DEF Step, w
<1>5. [Full(state, length, is, sign, radix, v, p) EXCEPT !.state = "reset"]
        = Full("reset", length, is, sign, radix, v, p)
  BY DEF Full
<1>6. z = Full("reset", length, is, sign, radix, v, p)
  BY <1>3, <1>4, <1>5
<1>7. Round(copy, m, c, args) = IF copy = "stage2" THEN ResetStage2(z) ELSE ResetKernel(z)
  BY RoundIs
<1> HIDE DEF z
<1>8. ResetKernel(z) = At("normal", "default", No, v, p) /\ ResetStage2(z) = At("normal", "default", is, v, p)
  <2>1. /\ ResetKernel(Full("reset", length, is, sign, radix, v, p)) = At("normal", "default", No, v, p)
        /\ ResetStage2(Full("reset", length, is, sign, radix, v, p)) = At("normal", "default", is, v, p)
    BY ResetRestores
  <2> QED
    BY <1>6, <2>1, Zenon
<1>9. Round(copy, m, c, args) = At("normal", "default", Left(copy, is), v, p)
  BY <1>7, <1>8 DEF Left
<1> QED
  BY <1>9 DEF m
-----------------------------------------------------------------------------
(* What a specifier writes. *)

Yes == TRUE
Signs(c) == IF c \in {"d", "i"} THEN Yes ELSE No
RadixOf(c) == CASE c \in {"d", "i", "u"} -> Decimal [] c \in {"x", "p"} -> 16 [] c = "o" -> 8
WordsFor(length) == IF length = "ll" THEN 2 ELSE 1
ValueAt(args, u, words) == args[u + 1] + (IF words = 2 THEN args[u + 2] * Power(2, WordBits) ELSE 0)
Shown(value, bits, c) ==
  IF c \in {"d", "i"} THEN Signed(AsSigned(value, bits), RadixOf(c)) ELSE Unsigned(value, RadixOf(c))

WithNumber(m, x) == [m EXCEPT !.number = x]
WithSign(m, x) == [m EXCEPT !.sign = x]
WithRadix(m, x) == [m EXCEPT !.radix = x]
WithUsed(m, x) == [m EXCEPT !.used = x]
WithOut(m, x) == [m EXCEPT !.out = x]

LEMMA FullExcept ==
  ASSUME NEW state, NEW length, NEW num, NEW sign, NEW radix, NEW u, NEW o, NEW x
  PROVE  LET m == Full(state, length, num, sign, radix, u, o)
         IN  /\ WithNumber(m, x) = Full(state, length, x, sign, radix, u, o)
             /\ WithSign(m, x) = Full(state, length, num, x, radix, u, o)
             /\ WithRadix(m, x) = Full(state, length, num, sign, x, u, o)
             /\ WithUsed(m, x) = Full(state, length, num, sign, radix, x, o)
             /\ WithOut(m, x) = Full(state, length, num, sign, radix, u, x)
BY DEF Full, WithNumber, WithSign, WithRadix, WithUsed, WithOut

LEMMA SpecifierOfNumber ==
  ASSUME NEW state, NEW length, NEW num, NEW u, NEW o, NEW args, NEW texts, NEW c \in NumberSpecs
  PROVE  Specifier(At(state, length, num, u, o), c, args, texts)
           = Full(state, length, Yes, Signs(c), RadixOf(c), u, o)
<1> DEFINE m == At(state, length, num, u, o)
<1>1. ASSUME NEW radix, NEW sign
      PROVE  [m EXCEPT !.number = Yes, !.radix = radix, !.sign = sign]
               = Full(state, length, Yes, sign, radix, u, o)
  <2>1. m = Full(state, length, num, No, Decimal, u, o)
    BY DEF At
  <2> HIDE DEF m
  <2>2. WithNumber(m, Yes) = Full(state, length, Yes, No, Decimal, u, o)
    BY <2>1, FullExcept
  <2>3. WithRadix(WithNumber(m, Yes), radix) = Full(state, length, Yes, No, radix, u, o)
    BY <2>2, FullExcept
  <2>4. WithSign(WithRadix(WithNumber(m, Yes), radix), sign) = Full(state, length, Yes, sign, radix, u, o)
    BY <2>3, FullExcept
  <2>5. [m EXCEPT !.number = Yes, !.radix = radix, !.sign = sign]
          = WithSign(WithRadix(WithNumber(m, Yes), radix), sign)
    BY DEF WithSign, WithRadix, WithNumber
  <2> QED
    BY <2>4, <2>5
<1> HIDE DEF m
<1>2. CASE c \in {"d", "i"}
  <2>1. Specifier(m, c, args, texts) = [m EXCEPT !.number = Yes, !.radix = Decimal, !.sign = Yes]
    BY <1>2 DEF Specifier, Yes
  <2> QED
    BY <1>1, <1>2, <2>1 DEF Signs, RadixOf, m
<1>3. CASE c = "u"
  <2>1. Specifier(m, c, args, texts) = [m EXCEPT !.number = Yes, !.radix = Decimal, !.sign = No]
    BY <1>3 DEF Specifier, Yes, No
  <2> QED
    BY <1>1, <1>3, <2>1 DEF Signs, RadixOf, m
<1>4. CASE c \in {"x", "p"}
  <2>1. Specifier(m, c, args, texts) = [m EXCEPT !.number = Yes, !.radix = 16, !.sign = No]
    BY <1>4 DEF Specifier, Yes, No
  <2> QED
    BY <1>1, <1>4, <2>1 DEF Signs, RadixOf, m
<1>5. CASE c = "o"
  <2>1. Specifier(m, c, args, texts) = [m EXCEPT !.number = Yes, !.radix = 8, !.sign = No]
    BY <1>5 DEF Specifier, Yes, No
  <2> QED
    BY <1>1, <1>5, <2>1 DEF Signs, RadixOf, m
<1> QED
  BY <1>2, <1>3, <1>4, <1>5 DEF NumberSpecs

LEMMA NumberWritten ==
  ASSUME NEW state, NEW length, NEW u, NEW o, NEW args, NEW c
  PROVE  LET words == WordsFor(length)
         IN  WriteNumber(Full(state, length, Yes, Signs(c), RadixOf(c), u, o), args)
               = Full(state, length, Yes, Signs(c), RadixOf(c), u + words,
                      o \o Shown(ValueAt(args, u, words), words * WordBits, c))
<1> DEFINE radix == RadixOf(c)
           sign == Signs(c)
           m == Full(state, length, Yes, sign, radix, u, o)
           words == WordsFor(length)
           value == ValueAt(args, u, words)
           digits == IF sign THEN Signed(AsSigned(value, words * WordBits), radix) ELSE Unsigned(value, radix)
<1>1. digits = Shown(value, words * WordBits, c)
  BY DEF Shown, Signs, Yes, No
<1>2. ASSUME NEW v, NEW p PROVE [m EXCEPT !.used = v, !.out = p] = Full(state, length, Yes, sign, radix, v, p)
  <2> HIDE DEF m, sign, radix
  <2>1. m = Full(state, length, Yes, sign, radix, u, o)
    BY DEF m
  <2>2. WithUsed(m, v) = Full(state, length, Yes, sign, radix, v, o)
    BY <2>1, FullExcept
  <2>3. WithOut(WithUsed(m, v), p) = Full(state, length, Yes, sign, radix, v, p)
    BY <2>2, FullExcept
  <2>4. [m EXCEPT !.used = v, !.out = p] = WithOut(WithUsed(m, v), p)
    BY DEF WithUsed, WithOut
  <2> QED
    BY <2>3, <2>4
<1>3. m.length = length /\ m.number = Yes /\ m.used = u /\ m.out = o /\ m.radix = radix /\ m.sign = sign
  BY DEF Full
<1> HIDE DEF m, radix, sign
<1>4. WriteNumber(m, args) = [m EXCEPT !.used = m.used + words, !.out = m.out \o digits]
  BY <1>3 DEF WriteNumber, Yes, WordsFor, ValueAt
<1>5. WriteNumber(m, args) = [m EXCEPT !.used = u + words, !.out = o \o digits]
  BY <1>3, <1>4
<1> HIDE DEF digits
<1>6. WriteNumber(m, args) = Full(state, length, Yes, sign, radix, u + words, o \o digits)
  BY <1>2, <1>5
<1> QED
  BY <1>1, <1>6 DEF m, radix, sign

LEMMA NothingWritten ==
  ASSUME NEW state, NEW length, NEW u, NEW o, NEW args
  PROVE  WriteNumber(At(state, length, No, u, o), args) = At(state, length, No, u, o)
<1>1. At(state, length, No, u, o).number = No
  BY DEF At, Full
<1> QED
  BY <1>1 DEF WriteNumber, No

LEMMA SpecifierOfOther ==
  ASSUME NEW state, NEW length, NEW num, NEW u, NEW o, NEW args, NEW texts
  PROVE  LET m == At(state, length, num, u, o)
         IN  /\ Specifier(m, "c", args, texts) = At(state, length, num, u + 1, Append(o, CharAt[args[u + 1]]))
             /\ Specifier(m, "s", args, texts) = At(state, length, num, u + 1, o \o texts[args[u + 1]])
             /\ Specifier(m, "%", args, texts) = At(state, length, num, u, Append(o, "%"))
<1> DEFINE m == At(state, length, num, u, o)
<1>1. ASSUME NEW v, NEW p PROVE [m EXCEPT !.out = p, !.used = v] = At(state, length, num, v, p)
  <2>1. m = Full(state, length, num, No, Decimal, u, o)
    BY DEF At
  <2> HIDE DEF m
  <2>2. WithOut(m, p) = Full(state, length, num, No, Decimal, u, p)
    BY <2>1, FullExcept
  <2>3. WithUsed(WithOut(m, p), v) = Full(state, length, num, No, Decimal, v, p)
    BY <2>2, FullExcept
  <2>4. [m EXCEPT !.out = p, !.used = v] = WithUsed(WithOut(m, p), v)
    BY DEF WithUsed, WithOut
  <2> QED
    BY <2>3, <2>4 DEF At
<1>2. ASSUME NEW p PROVE [m EXCEPT !.out = p] = At(state, length, num, u, p)
  BY DEF At, Full
<1>3. m.used = u /\ m.out = o
  BY DEF At, Full
<1> HIDE DEF m
<1>4. Specifier(m, "c", args, texts) = [m EXCEPT !.out = Append(m.out, CharAt[args[m.used + 1]]), !.used = m.used + 1]
  BY DEF Specifier
<1>5. Specifier(m, "s", args, texts) = [m EXCEPT !.out = m.out \o texts[args[m.used + 1]], !.used = m.used + 1]
  BY DEF Specifier
<1>6. Specifier(m, "%", args, texts) = [m EXCEPT !.out = Append(m.out, "%")]
  BY DEF Specifier
<1>7. Specifier(m, "c", args, texts) = At(state, length, num, u + 1, Append(o, CharAt[args[u + 1]]))
  BY <1>1, <1>3, <1>4
<1>8. Specifier(m, "s", args, texts) = At(state, length, num, u + 1, o \o texts[args[u + 1]])
  BY <1>1, <1>3, <1>5
<1>9. Specifier(m, "%", args, texts) = At(state, length, num, u, Append(o, "%"))
  BY <1>2, <1>3, <1>6
<1> QED
  BY <1>7, <1>8, <1>9 DEF m

-----------------------------------------------------------------------------
(* A number is written as the manual says. *)

LEMMA FunIsASeq ==
  ASSUME NEW s, NEW n \in Nat, s = [j \in 1 .. n |-> s[j]]
  PROVE  ASeq(s) /\ Len(s) = n
<1> DEFINE S == {s[j] : j \in 1 .. n}
<1>1. s \in [1 .. n -> S]
  OBVIOUS
<1> HIDE DEF S
<1>2. s \in Seq(S)
  BY <1>1, SeqDef
<1>3. Len(s) = n
  BY <1>1, <1>2, LenProperties
<1> QED
  BY <1>2, <1>3, SeqIsASeq

LEMMA NumeralIsASeq ==
  ASSUME NEW radix \in 2 .. 16, NEW n \in Nat, n < Power(radix, 2 * WordBits)
  PROVE  ASeq(Numeral(n, radix))
<1> DEFINE top == 2 * WordBits
<1>1. radix \in Nat \ {0} /\ top \in Nat \ {0}
  BY PrintfAssumption
<1>2. n < Power(radix, top)
  OBVIOUS
<1>3. PICK k \in 1 .. (2 * WordBits) : Holds(n, radix, k)
  <2> HIDE DEF top
  <2>1. \E k \in 1 .. top : Holds(n, radix, k)
    BY <1>1, <1>2, HoldsSome
  <2> QED
    BY <2>1 DEF top
<1>4. Numeral(n, radix) = Figures(n, radix, k)
  BY <1>1, <1>3, NumeralIs
<1>5. k \in Nat
  BY <1>1, <1>3
<1> DEFINE f == Figures(n, radix, k)
<1>6. f = [j \in 1 .. k |-> f[j]]
  BY DEF Figures
<1> HIDE DEF f
<1>7. ASeq(f)
  BY <1>5, <1>6, FunIsASeq
<1> QED
  BY <1>4, <1>7 DEF f

LEMMA WordBelow ==
  ASSUME NEW w \in Word
  PROVE  w \in Nat /\ w < Power(2, WordBits) /\ Power(2, WordBits) \in Nat \ {0}
<1>1. WordBits \in Nat
  BY PrintfAssumption
<1>2. Power(2, WordBits) \in Nat \ {0}
  BY <1>1, PowerPositive
<1> QED
  BY <1>2 DEF Word

LEMMA ValueBelow ==
  ASSUME NEW args \in Seq(Word), NEW u \in Nat, NEW words \in {1, 2}, u + words <= Len(args)
  PROVE  ValueAt(args, u, words) \in Nat /\ ValueAt(args, u, words) < Power(2, words * WordBits)
<1> DEFINE P == Power(2, WordBits)
           a == args[u + 1]
           b == args[u + 2]
<1>1. WordBits \in Nat
  BY PrintfAssumption
<1>2. args \in [1 .. Len(args) -> Word] /\ Len(args) \in Nat
  BY LenProperties
<1>3. a \in Nat /\ a < P /\ P \in Nat \ {0}
  <2>1. u + 1 \in 1 .. Len(args)
    BY <1>2
  <2> QED
    BY <1>2, <2>1, WordBelow
<1>4. CASE words = 1
  <2>1. words * WordBits = WordBits
    BY <1>1, <1>4
  <2>2. ValueAt(args, u, words) = a
    BY <1>3, <1>4 DEF ValueAt
  <2> QED
    BY <1>3, <2>1, <2>2
<1>5. CASE words = 2
  <2>1. words * WordBits = WordBits + WordBits
    BY <1>1, <1>5
  <2>2. Power(2, words * WordBits) = P * P
    <3>1. 2 \in Nat \ {0} /\ Power(2, WordBits + WordBits) = P * P
      BY <1>1, PowerSum
    <3> QED
      BY <2>1, <3>1
  <2>3. ValueAt(args, u, words) = a + b * P
    BY <1>5 DEF ValueAt
  <2>4. b \in Nat /\ b < P
    <3>1. u + 2 \in 1 .. Len(args)
      BY <1>2, <1>5
    <3> QED
      BY <1>2, <3>1, WordBelow
  <2> HIDE DEF P, a, b
  <2>5. P * (b + 1) <= P * P /\ P * (b + 1) = b * P + P /\ b * P \in Nat
    <3>1. b + 1 \in Nat /\ b + 1 <= P /\ P \in Nat
      BY <1>3, <2>4
    <3>2. P * (b + 1) <= P * P
      BY <3>1, TimesGrows
    <3>3. P * (b + 1) = b * P + P /\ b * P \in Nat
      BY <2>4, <3>1
    <3> QED
      BY <3>2, <3>3
  <2>6. a + b * P \in Nat /\ a + b * P < P * P
    <3> DEFINE bp == b * P
               pp == P * P
    <3>1. bp \in Nat /\ bp + P <= pp /\ pp \in Nat
      BY <1>3, <2>5
    <3> HIDE DEF bp, pp
    <3>2. a + bp \in Nat /\ a + bp < pp
      BY <1>3, <3>1
    <3> QED
      BY <3>2 DEF bp, pp
  <2> QED
    BY <2>2, <2>3, <2>6
<1> QED
  BY <1>4, <1>5

(* A number of one or two words is written with the digits there are. *)
LEMMA DigitsEnough ==
  ASSUME NEW n \in Nat, NEW words \in {1, 2}, NEW radix \in 2 .. 16, n < Power(2, words * WordBits)
  PROVE  Unsigned(n, radix) = Numeral(n, radix) /\ ASeq(Numeral(n, radix))
<1> DEFINE x == words * WordBits
           y == 2 * WordBits
<1>1. WordBits \in Nat
  BY PrintfAssumption
<1>2. x \in Nat /\ y \in Nat /\ x <= y /\ n < Power(2, x)
  BY <1>1
<1>3. radix \in Nat \ {0} /\ 2 <= radix
  OBVIOUS
<1>4. n < Power(radix, y)
  <2> HIDE DEF x, y
  <2>1. Power(2, x) <= Power(2, y)
    BY <1>2, PowerGrows
  <2>2. Power(2, y) <= Power(radix, y)
    BY <1>2, <1>3, PowerOfGreater
  <2>3. Power(2, x) \in Nat /\ Power(2, y) \in Nat /\ Power(radix, y) \in Nat
    BY <1>2, <1>3, PowerPositive
  <2> QED
    BY <1>2, <2>1, <2>2, <2>3
<1>5. n < Power(radix, 2 * WordBits)
  BY <1>4
<1> QED
  BY <1>5, UnsignedIsNumeral, NumeralIsASeq

IsNumberItem(item) == item \in Directives /\ item.spec \in NumberSpecs

LEMMA NumberItem ==
  ASSUME NEW item, IsNumberItem(item)
  PROVE  WordsOf(item) = WordsFor(item.length) /\ WordsOf(item) \in {1, 2}
         /\ item.spec \in {"d", "i", "u", "x", "o", "p"}
BY DEF IsNumberItem, WordsOf, WordsFor, NumberSpecs

(* An argument of h or hh has a value of that type. *)
Fits(item, word) == item.length \in {"h", "hh"} => HasTypeOf(item, word)

LEMMA PowerHalf ==
  ASSUME NEW b \in Nat \ {0}
  PROVE  /\ Power(2, b - 1) \in Nat \ {0} /\ Power(2, b) \in Nat \ {0}
         /\ Power(2, b) = Power(2, b - 1) + Power(2, b - 1)
<1> DEFINE a == b - 1
<1>1. a \in Nat /\ b = a + 1 /\ 2 \in Nat /\ 2 \in Nat \ {0}
  OBVIOUS
<1> HIDE DEF a
<1>2. Power(2, a) \in Nat \ {0} /\ Power(2, a + 1) = 2 * Power(2, a)
  BY <1>1, PowerPositive, PowerNext
<1>3. Power(2, a + 1) = Power(2, a) + Power(2, a) /\ Power(2, a + 1) \in Nat \ {0}
  BY <1>2
<1> QED
  BY <1>1, <1>2, <1>3 DEF a

(* A word of x bits, converted to b of them, is what it was if it fits: small *)
(* enough, or the word of a negative number that is not too small.          *)
LEMMA Converted ==
  ASSUME NEW x \in Nat, NEW b \in Nat \ {0}, b <= x, NEW v \in Nat, v < Power(2, x)
  PROVE  LET n    == v % Power(2, b)
             half == Power(2, b - 1)
         IN  /\ v < Power(2, b) => n = v
             /\ v < half => v < Power(2, b) /\ v < Power(2, x - 1)
             /\ v >= Power(2, x) - half =>
                  /\ Power(2, b) - n = Power(2, x) - v /\ ~(n < half)
                  /\ ~(v < Power(2, x - 1))
<1> DEFINE B == Power(2, b)
           X == Power(2, x)
           half == Power(2, b - 1)
           most == Power(2, x - 1)
<1>1. B \in Nat \ {0} /\ half \in Nat \ {0} /\ B = half + half
  BY PowerHalf
<1>2. X \in Nat \ {0} /\ most \in Nat \ {0} /\ X = most + most
  <2>1. x \in Nat \ {0}
    OBVIOUS
  <2> QED BY <2>1, PowerHalf
<1>3. half <= most
  <2> DEFINE c == b - 1
             d == x - 1
  <2>1. c \in Nat /\ d \in Nat /\ c <= d /\ 2 \in Nat \ {0}
    OBVIOUS
  <2> HIDE DEF c, d
  <2>2. Power(2, c) <= Power(2, d)
    BY <2>1, PowerGrows
  <2> QED BY <2>2 DEF c, d
<1>4. PICK q \in Nat : X = B * q /\ q > 0
  <2> DEFINE e == x - b
  <2>1. e \in Nat /\ b \in Nat /\ x = b + e /\ 2 \in Nat \ {0}
    OBVIOUS
  <2> HIDE DEF e
  <2>2. Power(2, b + e) = B * Power(2, e) /\ Power(2, e) \in Nat \ {0}
    BY <2>1, PowerSum, PowerPositive
  <2> QED BY <2>1, <2>2
<1> HIDE DEF B, X, half, most
<1>5. v < B => v % B = v
  <2>1. SUFFICES ASSUME v < B PROVE v % B = v
    OBVIOUS
  <2>2. v \in 0 .. (B - 1) /\ B * 0 + v = v
    BY <1>1, <2>1
  <2>3. (B * 0 + v) % B = v
    BY <1>1, <2>2, DivOf
  <2> QED BY <2>2, <2>3
<1>6. v < half => v < B /\ v < most
  BY <1>1, <1>2, <1>3
<1>7. ASSUME v >= X - half
      PROVE  B - (v % B) = X - v /\ ~(v % B < half) /\ ~(v < most)
  <2> DEFINE r == v - X + B
             p == q - 1
             bp == B * p
  <2>1. v < X
    BY DEF X
  <2>2. r \in 0 .. (B - 1) /\ ~(r < half) /\ ~(v < most)
    BY <1>1, <1>2, <1>3, <1>7, <2>1
  <2>3. p \in Nat
    BY <1>4
  <2>4. X = bp + B /\ bp \in Nat
    BY <1>1, <1>4, <2>3
  <2>5. (bp + r) % B = r
    <3> HIDE DEF r, p
    <3> QED BY <1>1, <2>2, <2>3, DivOf
  <2> HIDE DEF bp
  <2>6. bp + r = v
    BY <1>1, <1>2, <2>4
  <2>7. v % B = r
    BY <2>5, <2>6
  <2>8. B - r = X - v
    BY <1>1, <1>2
  <2> HIDE DEF r
  <2> QED BY <2>2, <2>7, <2>8
<1> QED BY <1>5, <1>6, <1>7 DEF B, X, half, most

(* The argument of a number, in the words and in the type of its directive. *)
LEMMA ArgumentFits ==
  ASSUME NEW item, IsNumberItem(item), NEW args \in Seq(Word), NEW u \in Nat, u + WordsOf(item) <= Len(args),
         Fits(item, args[u + 1])
  PROVE  LET v == ValueAt(args, u, WordsOf(item))
             x == WordsOf(item) * WordBits
             b == BitsOf(item)
         IN  /\ x \in Nat /\ b \in Nat \ {0} /\ b <= x
             /\ v \in Nat /\ v < Power(2, x)
             /\ item.spec \notin {"d", "i"} => v < Power(2, b)
             /\ item.spec \in {"d", "i"} => v < Power(2, b - 1) \/ v >= Power(2, x) - Power(2, b - 1)
<1> DEFINE words == WordsOf(item)
           v == ValueAt(args, u, words)
           x == words * WordBits
           b == BitsOf(item)
           half == Power(2, b - 1)
<1>1. words \in {1, 2} /\ words = WordsFor(item.length)
  BY NumberItem
<1>2. v \in Nat /\ v < Power(2, x)
  <2> HIDE DEF words
  <2>1. u + words <= Len(args)
    BY DEF words
  <2> QED BY <1>1, <2>1, ValueBelow
<1>3. WordBits \in Nat \ {0}
  BY PrintfAssumption
<1>4. CASE item.length \in {"h", "hh"}
  <2>1. words = 1
    BY <1>1, <1>4 DEF WordsFor
  <2>2. x = WordBits /\ v = args[u + 1]
    <3>1. 1 * WordBits = WordBits /\ 1 # 2
      BY <1>3
    <3>2. v = args[u + 1] + 0
      BY <2>1, <3>1 DEF ValueAt
    <3>3. args[u + 1] \in Nat
      <4>1. args \in [1 .. Len(args) -> Word] /\ u + 1 \in 1 .. Len(args)
        BY <2>1, LenProperties
      <4> QED
        BY <4>1, WordBelow
    <3> HIDE DEF words
    <3> QED
      BY <2>1, <3>1, <3>2, <3>3
  <2>3. b \in Nat \ {0} /\ b <= WordBits
    BY <1>4, FormatsAssumption DEF BitsOf
  <2>4. HasTypeOf(item, v)
    BY <1>4, <2>2 DEF Fits
  <2>5. half \in Nat \ {0} /\ Power(2, x) \in Nat
    <3>1. Power(2, b - 1) \in Nat \ {0}
      BY <2>3, PowerHalf
    <3>2. Power(2, WordBits) \in Nat
      BY <1>3, PowerHalf
    <3> QED BY <2>2, <3>1, <3>2
  <2>6. item.spec \notin {"d", "i"} => v < Power(2, b)
    BY <2>4 DEF HasTypeOf
  <2>7. ASSUME item.spec \in {"d", "i"} PROVE v < half \/ v >= Power(2, x) - half
    <3>1. AsSigned(v, x) \in (-half) .. (half - 1)
      BY <2>2, <2>4, <2>7 DEF HasTypeOf
    <3>2. AsSigned(v, x) = v \/ AsSigned(v, x) = v - Power(2, x)
      BY DEF AsSigned
    <3> HIDE DEF half, x, v
    <3> QED BY <1>2, <2>5, <3>1, <3>2
  <2> HIDE DEF v, x, b
  <2> QED BY <1>2, <1>3, <2>2, <2>3, <2>6, <2>7 DEF half, v, x, b, words
<1>5. CASE item.length \notin {"h", "hh"}
  <2>1. b = x
    <3>1. b = WordBits * words
      BY <1>5 DEF BitsOf
    <3> HIDE DEF words, b
    <3> QED BY <1>1, <1>3, <3>1
  <2>2. x \in Nat \ {0}
    <3> HIDE DEF words
    <3> QED BY <1>1, <1>3
  <2> HIDE DEF x, v, b
  <2>3. Power(2, x - 1) \in Nat \ {0} /\ Power(2, x) \in Nat /\ Power(2, x) = Power(2, x - 1) + Power(2, x - 1)
    BY <2>2, PowerHalf
  <2>4. v < Power(2, x - 1) \/ v >= Power(2, x) - Power(2, x - 1)
    BY <1>2, <2>3
  <2> QED BY <1>2, <2>1, <2>2, <2>4 DEF v, x, b, words
<1> QED BY <1>4, <1>5

LEMMA NumberTextIs ==
  ASSUME NEW item, IsNumberItem(item), NEW args \in Seq(Word), NEW u \in Nat, u + WordsOf(item) <= Len(args),
         Fits(item, args[u + 1])
  PROVE  LET words == WordsOf(item)
         IN  /\ Shown(ValueAt(args, u, words), words * WordBits, item.spec) = NumberText(item, args, u + 1)
             /\ ASeq(NumberText(item, args, u + 1))
<1> DEFINE words == WordsOf(item)
           v == ValueAt(args, u, words)
           x == words * WordBits
           b == BitsOf(item)
           n == v % Power(2, b)
           half == Power(2, b - 1)
           c == item.spec
           text == NumberText(item, args, u + 1)
<1>1. words \in {1, 2} /\ c \in {"d", "i", "u", "x", "o", "p"}
  BY NumberItem
<1>2. /\ x \in Nat /\ b \in Nat \ {0} /\ b <= x /\ v \in Nat /\ v < Power(2, x)
      /\ c \notin {"d", "i"} => v < Power(2, b)
      /\ c \in {"d", "i"} => v < half \/ v >= Power(2, x) - half
  BY ArgumentFits
<1>3. Decimal \in 2 .. 16 /\ WordBits \in Nat \ {0}
  BY PrintfAssumption
<1>4. args[u + 1] + (IF words = 2 THEN args[u + 1 + 1] * Power(2, WordBits) ELSE 0) = v
  <2>1. u + 1 + 1 = u + 2
    OBVIOUS
  <2> HIDE DEF words
  <2> QED BY <2>1 DEF ValueAt
<1>5. text = CASE c = "u" -> Numeral(n, Decimal)
               [] c \in {"x", "p"} -> Numeral(n, 16)
               [] c = "o" -> Numeral(n, 8)
               [] c \in {"d", "i"} ->
                    IF n < half THEN Numeral(n, Decimal)
                    ELSE <<"-">> \o Numeral(Power(2, b) - n, Decimal)
  BY <1>4 DEF NumberText
<1> HIDE DEF v, words, c, text, x, b
<1>6. /\ v < Power(2, b) => n = v
      /\ v < half => v < Power(2, b) /\ v < Power(2, x - 1)
      /\ v >= Power(2, x) - half =>
           Power(2, b) - n = Power(2, x) - v /\ ~(n < half) /\ ~(v < Power(2, x - 1))
  BY <1>2, Converted
<1> HIDE DEF n, half
<1>7. \A r \in 2 .. 16 : Unsigned(v, r) = Numeral(v, r) /\ ASeq(Numeral(v, r))
  BY <1>1, <1>2, DigitsEnough DEF x
<1>8. CASE c \notin {"d", "i"}
  <2>1. n = v
    BY <1>2, <1>6, <1>8
  <2>2. text = Numeral(v, RadixOf(c)) /\ RadixOf(c) \in 2 .. 16
    <3>1. CASE c = "u"
      BY <1>3, <1>5, <2>1, <3>1 DEF RadixOf
    <3>2. CASE c \in {"x", "p"}
      BY <1>5, <2>1, <3>2 DEF RadixOf
    <3>3. CASE c = "o"
      BY <1>5, <2>1, <3>3 DEF RadixOf
    <3> QED BY <1>1, <1>8, <3>1, <3>2, <3>3
  <2>3. Shown(v, x, c) = Unsigned(v, RadixOf(c))
    BY <1>8 DEF Shown
  <2> QED
    BY <1>7, <2>2, <2>3 DEF text, c, v, words, x
<1>9. CASE c \in {"d", "i"}
  <2>1. Shown(v, x, c) = Signed(AsSigned(v, x), Decimal)
    BY <1>9 DEF Shown, RadixOf
  <2>2. text = IF n < half THEN Numeral(n, Decimal) ELSE <<"-">> \o Numeral(Power(2, b) - n, Decimal)
    BY <1>5, <1>9
  <2>3. Power(2, x) \in Nat /\ Power(2, x - 1) \in Nat \ {0}
    <3>1. x \in Nat \ {0}
      BY <1>2
    <3> QED
      BY <3>1, PowerHalf
  <2>4. CASE v < half
    <3>1. AsSigned(v, x) = v
      BY <1>2, <1>6, <2>3, <2>4 DEF AsSigned
    <3>2. Signed(v, Decimal) = Unsigned(v, Decimal)
      BY <1>2 DEF Signed
    <3>3. text = Numeral(v, Decimal)
      BY <1>6, <2>2, <2>4
    <3> QED
      BY <1>3, <1>7, <2>1, <3>1, <3>2, <3>3 DEF text, c, v, words, x
  <2>5. CASE v >= Power(2, x) - half
    <3> DEFINE k == Power(2, x) - v
    <3>1. ~(v < Power(2, x - 1)) /\ text = <<"-">> \o Numeral(k, Decimal)
      BY <1>6, <2>2, <2>5
    <3>2. k \in Nat /\ k < Power(2, x) /\ v - Power(2, x) < 0 /\ -(v - Power(2, x)) = k
      BY <1>2, <2>3, <3>1
    <3> HIDE DEF k
    <3>3. AsSigned(v, x) = v - Power(2, x)
      BY <1>2, <2>3, <3>1 DEF AsSigned
    <3>4. Signed(v - Power(2, x), Decimal) = <<"-">> \o Unsigned(k, Decimal)
      BY <3>2 DEF Signed
    <3>5. Unsigned(k, Decimal) = Numeral(k, Decimal) /\ ASeq(Numeral(k, Decimal))
      BY <1>1, <1>3, <3>2, DigitsEnough DEF x
    <3>6. ASeq(<<"-">>)
      <4>1. <<"-">> \in Seq({"-"})
        OBVIOUS
      <4> QED
        BY <4>1, SeqIsASeq
    <3>7. ASeq(text)
      BY <3>1, <3>5, <3>6, ConcatIsASeq
    <3>8. Shown(v, x, c) = text
      BY <2>1, <3>1, <3>3, <3>4, <3>5
    <3> QED
      BY <3>7, <3>8 DEF text, c, v, words, x
  <2> QED
    BY <1>2, <1>9, <2>4, <2>5
<1> QED
  BY <1>8, <1>9

-----------------------------------------------------------------------------
(* From one item to the next. *)

Runs(f, copy, fmt, args, n) == \A k \in 1 .. n : f[k] = Round(copy, f[k - 1], fmt[k], args)

(* s stands in the format behind its first b characters. *)
Placed(fmt, b, s) == \A k \in 1 .. Len(s) : fmt[b + k] = s[k]

LEMMA NextRound ==
  ASSUME NEW f, NEW copy, NEW fmt, NEW args, NEW n \in Nat, Runs(f, copy, fmt, args, n),
         NEW b \in Nat, b + 1 <= n
  PROVE  f[b + 1] = Round(copy, f[b], fmt[b + 1], args)
<1> DEFINE k == b + 1
<1>1. k \in 1 .. n /\ k - 1 = b
  OBVIOUS
<1> HIDE DEF k
<1>2. f[k] = Round(copy, f[b], fmt[k], args)
  BY <1>1 DEF Runs
<1> QED
  BY <1>2 DEF k

LEMMA DirectiveIs ==
  ASSUME NEW item \in Directives
  PROVE  /\ item.length \in {"default", "hh", "h", "l", "ll"} /\ item.spec \in Specs
         /\ item.spec # "text" /\ item.char = "%"
         /\ item.spec \in {"c", "s", "%"} => item.length = "default"
         /\ item.spec \notin {"c", "s", "%"} => item.spec \in NumberSpecs
BY DEF Directives, Directive, Lengths, Specs, NumberSpecs

Behind(q, c, t) ==
  /\ ASeq(q) /\ Len(t) \in Nat /\ Len(q) = 1 + Len(t) /\ q[1] = c
  /\ \A k \in 1 .. Len(t) : q[1 + k] = t[k]

LEMMA BehindOne ==
  ASSUME NEW c, NEW t, ASeq(t)
  PROVE  Behind(<<c>> \o t, c, t)
<1> DEFINE p == <<c>>
           q == p \o t
<1>1. ASeq(p) /\ Len(p) = 1 /\ p[1] = c
  <2>1. p \in Seq({c})
    OBVIOUS
  <2> QED
    BY <2>1, SeqIsASeq
<1> HIDE DEF p
<1>2. q = p \o t
  OBVIOUS
<1> HIDE DEF q
<1>3. /\ ASeq(q) /\ Len(t) \in Nat /\ Len(q) = Len(p) + Len(t)
      /\ \A k \in 1 .. Len(p) : q[k] = p[k]
      /\ \A k \in 1 .. Len(t) : q[Len(p) + k] = t[k]
  <2>1. Join(q, p, t)
    BY <1>1, <1>2, JoinIs
  <2> QED
    BY <2>1 DEF Join
<1>4. Behind(q, c, t)
  BY <1>1, <1>3 DEF Behind
<1> QED
  BY <1>4 DEF q, p

Spells(s, t, v) ==
  /\ Len(s) = Len(t) + 2 /\ s[1] = "%" /\ s[Len(t) + 2] = v
  /\ \A k \in 1 .. Len(t) : s[1 + k] = t[k]

LEMMA SpellingIs ==
  ASSUME NEW v, NEW t, ASeq(t)
  PROVE  Spells(<<"%">> \o t \o <<v>>, t, v)
<1> DEFINE e == <<v>>
           q == <<"%">> \o t
           s == q \o e
<1>1. ASeq(e) /\ Len(e) = 1 /\ e[1] = v
  <2>1. e \in Seq({v})
    OBVIOUS
  <2> QED
    BY <2>1, SeqIsASeq
<1>2. /\ ASeq(q) /\ Len(t) \in Nat /\ Len(q) = 1 + Len(t) /\ q[1] = "%"
      /\ \A k \in 1 .. Len(t) : q[1 + k] = t[k]
  <2>1. Behind(q, "%", t)
    BY BehindOne
  <2> QED
    BY <2>1 DEF Behind
<1>3. s = q \o e
  OBVIOUS
<1> HIDE DEF e, q, s
<1>4. /\ Len(s) = Len(q) + 1 /\ s[Len(q) + 1] = v
      /\ \A k \in 1 .. Len(q) : s[k] = q[k]
  <2>1. /\ Len(s) = Len(q) + Len(e)
        /\ \A k \in 1 .. Len(q) : s[k] = q[k]
        /\ \A k \in 1 .. Len(e) : s[Len(q) + k] = e[k]
    <3>1. Join(s, q, e)
      BY <1>1, <1>2, <1>3, JoinIs
    <3> QED
      BY <3>1 DEF Join
  <2> QED
    BY <1>1, <2>1
<1>5. Len(s) = Len(t) + 2 /\ s[1] = "%" /\ s[Len(t) + 2] = v
  <2>1. Len(q) + 1 = Len(t) + 2 /\ 1 \in 1 .. Len(q)
    BY <1>2
  <2> QED
    BY <1>2, <1>4, <2>1
<1>6. ASSUME NEW k \in 1 .. Len(t) PROVE s[1 + k] = t[k]
  <2>1. 1 + k \in 1 .. Len(q)
    BY <1>2
  <2> QED
    BY <1>2, <1>4, <2>1
<1>7. Spells(s, t, v)
  BY <1>5, <1>6 DEF Spells
<1> QED
  BY <1>7 DEF s, q, e

LEMMA LengthTextIs ==
  /\ ASeq(LengthText["default"]) /\ Len(LengthText["default"]) = 0
  /\ \A c \in {"h", "l"} : ASeq(LengthText[c]) /\ Len(LengthText[c]) = 1 /\ LengthText[c][1] = c
  /\ ASeq(LengthText["hh"]) /\ Len(LengthText["hh"]) = 2 /\ LengthText["hh"][1] = "h" /\ LengthText["hh"][2] = "h"
  /\ ASeq(LengthText["ll"]) /\ Len(LengthText["ll"]) = 2 /\ LengthText["ll"][1] = "l" /\ LengthText["ll"][2] = "l"
<1>1. LengthText["default"] = <<>> /\ \A c \in {"h", "l"} : LengthText[c] = <<c>>
  BY DEF LengthText
<1>2. LengthText["hh"] = <<"h", "h">> /\ LengthText["ll"] = <<"l", "l">>
  BY DEF LengthText
<1>3. \A c \in {"h", "l"} : <<c>> \in Seq({"h", "l"}) /\ <<c, c>> \in Seq({"h", "l"})
  OBVIOUS
<1>4. \A c \in {"h", "l"} : ASeq(<<c>>) /\ ASeq(<<c, c>>)
  BY <1>3, SeqIsASeq
<1> QED
  BY <1>1, <1>2, <1>4, EmptyIsASeq

(* The characters before the specifier leave all but the length alone.      *)
LEMMA DirectiveRounds ==
  ASSUME NEW copy \in Copies, NEW item \in Directives, NEW f, NEW fmt, NEW args, NEW n \in Nat,
         Runs(f, copy, fmt, args, n), NEW b \in Nat,
         Placed(fmt, b, Spelled(item)), b + Len(Spelled(item)) <= n,
         NEW num, NEW u, NEW o, f[b] = At("normal", "default", num, u, o)
  PROVE  \E state \in SpecStates :
           f[b + Len(Spelled(item))] = Round(copy, At(state, item.length, num, u, o), item.spec, args)
<1> DEFINE s == Spelled(item)
           v == item.spec
<1>1. s = <<"%">> \o LengthText[item.length] \o <<v>>
  BY DirectiveIs DEF Spelled
<1>2. (\A k \in 1 .. Len(s) : fmt[b + k] = s[k]) /\ b + Len(s) <= n
  BY DEF Placed
<1> HIDE DEF s, v
<1>3. CASE item.length = "default"
  <2> DEFINE t == LengthText["default"]
  <2>1. ASeq(t) /\ Len(t) = 0 /\ s = <<"%">> \o t \o <<v>>
    BY <1>1, <1>3, LengthTextIs
  <2> HIDE DEF t
  <2>2. Len(s) = 2 /\ s[1] = "%" /\ s[2] = v
    <3>1. Spells(s, t, v)
      BY <2>1, SpellingIs
    <3> QED
      BY <2>1, <3>1 DEF Spells
  <2>3. fmt[b + 1] = "%" /\ fmt[b + 2] = v /\ b + 1 \in Nat /\ b + 1 <= n /\ b + 1 + 1 <= n /\ b + 1 + 1 = b + 2
    BY <1>2, <2>2
  <2>4. f[b + 1] = At("length", "default", num, u, o)
    BY <2>3, NextRound, RoundOfPercent
  <2>5. f[b + 2] = Round(copy, f[b + 1], fmt[b + 2], args)
    BY <2>3, NextRound
  <2>6. f[b + Len(s)] = Round(copy, At("length", item.length, num, u, o), v, args)
    BY <1>3, <2>2, <2>3, <2>4, <2>5
  <2> QED
    BY <2>6 DEF s, v, SpecStates
<1>4. ASSUME NEW c \in {"h", "l"}, item.length = c
      PROVE  f[b + Len(s)] = Round(copy, At(c, item.length, num, u, o), v, args)
  <2> DEFINE t == LengthText[c]
  <2>1. ASeq(t) /\ Len(t) = 1 /\ t[1] = c /\ s = <<"%">> \o t \o <<v>>
    BY <1>1, <1>4, LengthTextIs
  <2> HIDE DEF t
  <2>2. Len(s) = 3 /\ s[1] = "%" /\ s[2] = c /\ s[3] = v
    <3>1. /\ Len(s) = Len(t) + 2 /\ s[1] = "%" /\ s[Len(t) + 2] = v
          /\ \A k \in 1 .. Len(t) : s[1 + k] = t[k]
      <4>1. Spells(s, t, v)
        BY <2>1, SpellingIs
      <4> QED
        BY <4>1 DEF Spells
    <3>2. 1 \in 1 .. Len(t) /\ 1 + 1 = 2
      BY <2>1
    <3> QED
      BY <2>1, <3>1, <3>2
  <2>3. /\ fmt[b + 1] = "%" /\ fmt[b + 2] = c /\ fmt[b + 3] = v
        /\ b + 1 \in Nat /\ b + 1 <= n /\ b + 1 + 1 <= n /\ b + 1 + 1 = b + 2
        /\ b + 2 \in Nat /\ b + 2 + 1 <= n /\ b + 2 + 1 = b + 3
    BY <1>2, <2>2
  <2>4. f[b + 1] = At("length", "default", num, u, o)
    BY <2>3, NextRound, RoundOfPercent
  <2>5. f[b + 2] = Round(copy, f[b + 1], fmt[b + 2], args) /\ f[b + 3] = Round(copy, f[b + 2], fmt[b + 3], args)
    BY <2>3, NextRound
  <2>6. f[b + 2] = At(c, c, num, u, o)
    BY <1>4, <2>3, <2>4, <2>5, RoundOfLength
  <2> QED
    BY <1>4, <2>2, <2>3, <2>5, <2>6
<1>5. ASSUME NEW c \in {"h", "l"}, NEW cc, c = "h" => cc = "hh", c = "l" => cc = "ll", item.length = cc
      PROVE  f[b + Len(s)] = Round(copy, At("spec", item.length, num, u, o), v, args)
  <2> DEFINE t == LengthText[cc]
  <2>1. ASeq(t) /\ Len(t) = 2 /\ t[1] = c /\ t[2] = c /\ s = <<"%">> \o t \o <<v>>
    BY <1>1, <1>5, LengthTextIs
  <2> HIDE DEF t
  <2>2. Len(s) = 4 /\ s[1] = "%" /\ s[2] = c /\ s[3] = c /\ s[4] = v
    <3>1. /\ Len(s) = Len(t) + 2 /\ s[1] = "%" /\ s[Len(t) + 2] = v
          /\ \A k \in 1 .. Len(t) : s[1 + k] = t[k]
      <4>1. Spells(s, t, v)
        BY <2>1, SpellingIs
      <4> QED
        BY <4>1 DEF Spells
    <3>2. 1 \in 1 .. Len(t) /\ 2 \in 1 .. Len(t) /\ 1 + 1 = 2 /\ 1 + 2 = 3
      BY <2>1
    <3> QED
      BY <2>1, <3>1, <3>2
  <2>3. /\ fmt[b + 1] = "%" /\ fmt[b + 2] = c /\ fmt[b + 3] = c /\ fmt[b + 4] = v
        /\ b + 1 \in Nat /\ b + 1 <= n /\ b + 1 + 1 <= n /\ b + 1 + 1 = b + 2
        /\ b + 2 \in Nat /\ b + 2 + 1 <= n /\ b + 2 + 1 = b + 3
        /\ b + 3 \in Nat /\ b + 3 + 1 <= n /\ b + 3 + 1 = b + 4
    BY <1>2, <2>2
  <2>4. f[b + 1] = At("length", "default", num, u, o)
    BY <2>3, NextRound, RoundOfPercent
  <2>5. /\ f[b + 2] = Round(copy, f[b + 1], fmt[b + 2], args)
        /\ f[b + 3] = Round(copy, f[b + 2], fmt[b + 3], args)
        /\ f[b + 4] = Round(copy, f[b + 3], fmt[b + 4], args)
    BY <2>3, NextRound
  <2>6. f[b + 2] = At(c, c, num, u, o)
    BY <1>5, <2>3, <2>4, <2>5, RoundOfLength
  <2>7. f[b + 3] = At("spec", cc, num, u, o)
    BY <1>5, <2>3, <2>5, <2>6, RoundOfLength
  <2> QED
    BY <1>5, <2>2, <2>3, <2>5, <2>7
<1>6. item.length \in {"default", "hh", "h", "l", "ll"}
  BY DirectiveIs
<1>7. item.length \in {"h", "l"} => f[b + Len(s)] = Round(copy, At(item.length, item.length, num, u, o), v, args)
  BY <1>4
<1>8. item.length \in {"hh", "ll"} => f[b + Len(s)] = Round(copy, At("spec", item.length, num, u, o), v, args)
  BY <1>5
<1> QED
  BY <1>3, <1>6, <1>7, <1>8 DEF s, v, SpecStates

(* What is left of number behind an item: stage 2 remembers it.             *)
After(copy, num, item) ==
  IF item.spec \in NumberSpecs THEN Left(copy, Yes) ELSE num

(* Items the copy reads as the manual says: behind a number that stage 2     *)
(* remembers, numbers and text only.                                       *)
Readable(num, item) == num = No \/ item.spec \in NumberSpecs \union {"text"}

IsItem(item) == item \in Directives \/ (item = Character(item.char) /\ item.char # "%")

LEMMA TextsAreSequences ==
  ASSUME NEW copy \in Copies, NEW w \in Word
  PROVE  ASeq(Texts(copy)[w])
<1>1. ASeq(TextAt[w]) /\ w \in DOMAIN TextAt
  BY PrintfAssumption DEF ASeq
<1>2. ASeq(<<"(", "n", "u", "l", "l", ")">>)
  <2>1. <<"(", "n", "u", "l", "l", ")">> \in Seq({"(", "n", "u", "l", ")"})
    OBVIOUS
  <2> QED
    BY <2>1, SeqIsASeq
<1>3. UserPuts[w] = TextAt[w] \/ UserPuts[w] = <<"(", "n", "u", "l", "l", ")">>
  BY <1>1 DEF UserPuts
<1> QED
  BY <1>1, <1>2, <1>3 DEF Texts, KernelPuts

LEMMA AppendIs ==
  ASSUME NEW o, ASeq(o), NEW c
  PROVE  Append(o, c) = o \o <<c>> /\ ASeq(<<c>>)
<1> DEFINE S == ToSet(o) \union {c}
<1>1. o \in Seq(S) /\ c \in S
  <2>1. ToSet(o) \subseteq S /\ c \in S
    OBVIOUS
  <2> HIDE DEF S
  <2> QED BY <2>1, SeqMonotonic DEF ASeq
<1> HIDE DEF S
<1>2. Append(o, c) = o \o <<c>>
  BY <1>1, AppendIsConcat
<1>3. <<c>> \in Seq({c})
  OBVIOUS
<1> QED
  BY <1>2, <1>3, SeqIsASeq

LEMMA TextIs ==
  ASSUME NEW item, IsItem(item), item.spec = "text", NEW args, NEW u, NEW texts
  PROVE  /\ item.char # "%" /\ ItemText(item, args, u, texts) = <<item.char>>
         /\ Spelled(item) = <<item.char>> /\ WordsOf(item) = 0
<1>1. item.char # "%" /\ item.length = "default"
  BY DirectiveIs DEF IsItem, Character
<1>2. item.spec \notin NumberSpecs /\ item.spec # "c" /\ item.spec # "s"
  BY DEF NumberSpecs
<1>3. ItemText(item, args, u, texts) = <<item.char>>
  BY <1>2 DEF ItemText
<1>4. Spelled(item) = <<item.char>> /\ WordsOf(item) = 0
  BY <1>1 DEF Spelled, WordsOf
<1> QED
  BY <1>1, <1>3, <1>4

LEMMA OtherIs ==
  ASSUME NEW item \in Directives, item.spec \in {"c", "s", "%"}, NEW args, NEW u, NEW texts
  PROVE  /\ item.spec = "c" => ItemText(item, args, u, texts) = <<CharAt[args[u]]>> /\ WordsOf(item) = 1
         /\ item.spec = "s" => ItemText(item, args, u, texts) = texts[args[u]] /\ WordsOf(item) = 1
         /\ item.spec = "%" => ItemText(item, args, u, texts) = <<"%">> /\ WordsOf(item) = 0
<1>1. item.char = "%" /\ item.length = "default"
  BY DirectiveIs
<1>2. item.spec = "c" => ItemText(item, args, u, texts) = <<CharAt[args[u]]>> /\ WordsOf(item) = 1
  BY <1>1 DEF ItemText, NumberSpecs, WordsOf
<1>3. item.spec = "s" => ItemText(item, args, u, texts) = texts[args[u]] /\ WordsOf(item) = 1
  BY <1>1 DEF ItemText, NumberSpecs, WordsOf
<1>4. item.spec = "%" => ItemText(item, args, u, texts) = <<"%">> /\ WordsOf(item) = 0
  BY <1>1 DEF ItemText, NumberSpecs, WordsOf
<1> QED
  BY <1>2, <1>3, <1>4

LEMMA ArgumentIsWord ==
  ASSUME NEW args \in Seq(Word), NEW u \in Nat, u + 1 <= Len(args)
  PROVE  args[u + 1] \in Word
<1>1. args \in [1 .. Len(args) -> Word] /\ Len(args) \in Nat
  BY LenProperties
<1> QED
  BY <1>1

LEMMA ItemTextIsASeq ==
  ASSUME NEW copy \in Copies, NEW item, IsItem(item), NEW args \in Seq(Word), NEW u \in Nat,
         u + WordsOf(item) <= Len(args), Fits(item, args[u + 1])
  PROVE  ASeq(ItemText(item, args, u + 1, Texts(copy)))
<1> DEFINE text == ItemText(item, args, u + 1, Texts(copy))
<1>1. \A c : ASeq(<<c>>)
  BY EmptyIsASeq, AppendIs
<1>2. CASE item.spec = "text"
  <2>1. text = <<item.char>>
    BY <1>2, TextIs
  <2> QED
    BY <1>1, <2>1
<1>3. CASE item.spec # "text" /\ item.spec \in NumberSpecs
  <2>1. IsNumberItem(item)
    BY <1>3 DEF IsItem, Character, IsNumberItem
  <2>2. text = NumberText(item, args, u + 1)
    BY <1>3 DEF ItemText, NumberSpecs
  <2> QED
    BY <2>1, <2>2, NumberTextIs
<1>4. CASE item.spec # "text" /\ item.spec \notin NumberSpecs
  <2>1. item \in Directives /\ item.spec \in {"c", "s", "%"}
    BY <1>4, DirectiveIs DEF IsItem, Character
  <2>2. CASE item.spec = "s"
    <3>1. text = Texts(copy)[args[u + 1]] /\ WordsOf(item) = 1
      BY <2>1, <2>2, OtherIs
    <3>2. args[u + 1] \in Word
      BY <3>1, ArgumentIsWord
    <3> HIDE DEF text
    <3> QED
      BY <3>1, <3>2, TextsAreSequences DEF text
  <2>3. CASE item.spec # "s"
    <3>1. text = <<CharAt[args[u + 1]]>> \/ text = <<"%">>
      BY <2>1, <2>3, OtherIs
    <3> QED
      BY <1>1, <3>1
  <2> QED
    BY <2>2, <2>3
<1> QED
  BY <1>2, <1>3, <1>4

(* An item is read as the manual says. *)
LEMMA ItemIsRead ==
  ASSUME NEW copy \in Copies, NEW item, IsItem(item), NEW f, NEW fmt, NEW args \in Seq(Word), NEW n \in Nat,
         Runs(f, copy, fmt, args, n), NEW b \in Nat,
         Placed(fmt, b, Spelled(item)), b + Len(Spelled(item)) <= n,
         NEW num, Readable(num, item), NEW u \in Nat, u + WordsOf(item) <= Len(args), NEW o, ASeq(o),
         Fits(item, args[u + 1]), f[b] = At("normal", "default", num, u, o)
  PROVE  LET text == ItemText(item, args, u + 1, Texts(copy))
         IN  f[b + Len(Spelled(item))]
               = At("normal", "default", After(copy, num, item), u + WordsOf(item), o \o text)
<1> DEFINE text == ItemText(item, args, u + 1, Texts(copy))
           e == b + Len(Spelled(item))
           w == args[u + 1]
<1>1. CASE item.spec = "text"
  <2> DEFINE c == item.char
  <2>1. c # "%" /\ text = <<c>> /\ Spelled(item) = <<c>> /\ WordsOf(item) = 0
    BY <1>1, TextIs
  <2> HIDE DEF c, text
  <2>2. Len(<<c>>) = 1 /\ <<c>>[1] = c
    OBVIOUS
  <2>3. e = b + 1 /\ fmt[b + 1] = c /\ b + 1 <= n /\ u + WordsOf(item) = u
    BY <2>1, <2>2 DEF Placed
  <2>4. f[b + 1] = Round(copy, f[b], c, args)
    BY <2>3, NextRound
  <2>5. f[b + 1] = At("normal", "default", num, u, Append(o, c))
    BY <2>1, <2>4, RoundOfChar
  <2>6. Append(o, c) = o \o text
    BY <2>1, AppendIs
  <2>7. After(copy, num, item) = num
    BY <1>1 DEF After, NumberSpecs
  <2> QED
    BY <2>3, <2>5, <2>6, <2>7 DEF text
<1>2. CASE item.spec # "text"
  <2> DEFINE c == item.spec
             l == item.length
             words == WordsOf(item)
  <2>1. item \in Directives
    BY <1>2 DEF IsItem, Character
  <2>2. PICK state \in SpecStates : f[e] = Round(copy, At(state, l, num, u, o), c, args)
    BY <2>1, DirectiveRounds
  <2>3. c \in Specs /\ item.char = "%" /\ (c \in {"c", "s", "%"} => l = "default")
    BY <2>1, DirectiveIs
  <2> DEFINE written == WriteNumber(Specifier(At(state, l, num, u, o), c, args, Texts(copy)), args)
  <2>4. CASE c \in NumberSpecs
    <3>1. IsNumberItem(item)
      BY <2>1, <2>4 DEF IsNumberItem
    <3>2. words = WordsFor(l)
      BY <3>1, NumberItem
    <3> DEFINE digits == Shown(ValueAt(args, u, words), words * WordBits, c)
    <3>3. digits = text
      <4>1. text = NumberText(item, args, u + 1)
        BY <2>4 DEF ItemText, NumberSpecs
      <4> QED
        BY <3>1, <4>1, NumberTextIs
    <3>4. written = Full(state, l, Yes, Signs(c), RadixOf(c), u + words, o \o digits)
      <4>1. Specifier(At(state, l, num, u, o), c, args, Texts(copy)) = Full(state, l, Yes, Signs(c), RadixOf(c), u, o)
        BY <2>4, SpecifierOfNumber
      <4>2. WriteNumber(Full(state, l, Yes, Signs(c), RadixOf(c), u, o), args)
              = Full(state, l, Yes, Signs(c), RadixOf(c), u + words, o \o digits)
        BY <3>2, NumberWritten
      <4> QED
        BY <4>1, <4>2
    <3>5. After(copy, num, item) = Left(copy, Yes)
      BY <2>4 DEF After
    <3> HIDE DEF text, e, digits, words, l, written, c
    <3>6. f[e] = At("normal", "default", Left(copy, Yes), u + words, o \o digits)
      <4>1. Round(copy, At(state, l, num, u, o), c, args) = At("normal", "default", Left(copy, Yes), u + words, o \o digits)
        <5>1. Gives(copy, state, l, num, u, o, c, args, Yes, Signs(c), RadixOf(c), u + words, o \o digits)
          BY <3>4 DEF Gives, written
        <5> QED
          BY <2>3, <5>1, RoundOfSpec
      <4> QED
        BY <2>2, <4>1
    <3> QED
      BY <3>3, <3>5, <3>6 DEF text, e, words
  <2>5. CASE c \in {"c", "s", "%"}
    <3>1. num = No /\ After(copy, num, item) = No /\ Left(copy, No) = No
      BY <2>5 DEF Readable, After, Left, NumberSpecs
    <3>2. \A v, p : Specifier(At(state, l, num, u, o), c, args, Texts(copy)) = At(state, l, num, v, p)
                      => f[e] = At("normal", "default", No, v, p)
      <4>1. SUFFICES ASSUME NEW v, NEW p,
                            Specifier(At(state, l, num, u, o), c, args, Texts(copy)) = At(state, l, num, v, p)
                     PROVE  f[e] = At("normal", "default", No, v, p)
        OBVIOUS
      <4>2. written = At(state, l, No, v, p)
        BY <3>1, <4>1, NothingWritten
      <4>3. written = Full(state, l, No, No, Decimal, v, p)
        BY <4>2 DEF At
      <4> HIDE DEF e, l, c, written
      <4>4. f[e] = At("normal", "default", Left(copy, No), v, p)
        <5>1. Round(copy, At(state, l, num, u, o), c, args) = At("normal", "default", Left(copy, No), v, p)
          <6>1. Gives(copy, state, l, num, u, o, c, args, No, No, Decimal, v, p)
            BY <4>3 DEF Gives, written
          <6> QED
            BY <2>3, <6>1, RoundOfSpec
        <5> QED
          BY <2>2, <5>1
      <4> QED
        BY <3>1, <4>4
    <3>3. CASE c = "c"
      <4>1. text = <<CharAt[w]>> /\ words = 1
        BY <2>1, <3>3, OtherIs
      <4>2. Append(o, CharAt[w]) = o \o text
        BY <4>1, AppendIs
      <4>3. f[e] = At("normal", "default", No, u + 1, Append(o, CharAt[w]))
        BY <3>2, <3>3, SpecifierOfOther
      <4> HIDE DEF text, e, words, w, c
      <4> QED
        BY <3>1, <4>1, <4>2, <4>3 DEF text, e, words
    <3>4. CASE c = "s"
      <4>1. text = Texts(copy)[w] /\ words = 1
        BY <2>1, <3>4, OtherIs
      <4>2. f[e] = At("normal", "default", No, u + 1, o \o Texts(copy)[w])
        BY <3>2, <3>4, SpecifierOfOther
      <4> HIDE DEF text, e, words, w, c
      <4> QED
        BY <3>1, <4>1, <4>2 DEF text, e, words
    <3>5. CASE c = "%"
      <4>1. text = <<"%">> /\ words = 0
        BY <2>1, <3>5, OtherIs
      <4>2. Append(o, "%") = o \o text
        BY <4>1, AppendIs
      <4>3. f[e] = At("normal", "default", No, u, Append(o, "%"))
        BY <3>2, <3>5, SpecifierOfOther
      <4> HIDE DEF text, e, words, w, c
      <4>4. u + words = u
        BY <4>1
      <4> QED
        BY <3>1, <4>2, <4>3, <4>4 DEF text, e, words
    <3> QED
      BY <2>5, <3>3, <3>4, <3>5
  <2> QED
    BY <2>3, <2>4, <2>5 DEF Specs
<1> QED
  BY <1>1, <1>2

-----------------------------------------------------------------------------
(* A whole call. *)

WordsSteps(f, items, n) ==
  f = [j \in 0 .. n |-> IF j = 0 THEN 0 ELSE f[j - 1] + WordsOf(items[j])]

LEMMA WordsStepsExist ==
  ASSUME NEW items, NEW n \in Nat
  PROVE  \E f : WordsSteps(f, items, n)
<1> DEFINE S == {m \in Nat : \E f : WordsSteps(f, items, m)}
<1>1. 0 \in S
  <2> DEFINE f == [j \in 0 .. 0 |-> 0]
  <2>1. f = [j \in 0 .. 0 |-> IF j = 0 THEN 0 ELSE f[j - 1] + WordsOf(items[j])]
    OBVIOUS
  <2> HIDE DEF f
  <2> QED
    BY <2>1 DEF WordsSteps
<1>2. ASSUME NEW m \in Nat, m \in S PROVE m + 1 \in S
  <2>1. PICK f : WordsSteps(f, items, m)
    BY <1>2
  <2> DEFINE last == f[m] + WordsOf(items[m + 1])
             g == [j \in 0 .. (m + 1) |-> IF j <= m THEN f[j] ELSE last]
  <2>2. \A j \in 0 .. m : f[j] = IF j = 0 THEN 0 ELSE f[j - 1] + WordsOf(items[j])
    BY <2>1 DEF WordsSteps
  <2>3. \A j \in 0 .. (m + 1) : g[j] = (IF j <= m THEN f[j] ELSE last)
    OBVIOUS
  <2>4. g = [j \in 0 .. (m + 1) |-> g[j]]
    OBVIOUS
  <2> HIDE DEF g
  <2>5. ASSUME NEW j \in 0 .. (m + 1)
        PROVE  g[j] = IF j = 0 THEN 0 ELSE g[j - 1] + WordsOf(items[j])
    <3>1. CASE j <= m
      <4>1. j \in 0 .. m /\ (j # 0 => j - 1 \in 0 .. (m + 1) /\ j - 1 <= m)
        BY <1>2, <3>1
      <4>2. g[j] = f[j] /\ (j # 0 => g[j - 1] = f[j - 1])
        BY <2>3, <4>1
      <4> QED
        BY <2>2, <4>1, <4>2
    <3>2. CASE ~(j <= m)
      <4>1. j = m + 1 /\ j # 0 /\ j - 1 = m /\ m \in 0 .. (m + 1) /\ m <= m
        BY <1>2, <3>2
      <4>2. g[j - 1] = f[m] /\ g[j] = last
        BY <2>3, <3>2, <4>1
      <4> QED
        BY <4>1, <4>2
    <3> QED
      BY <3>1, <3>2
  <2>6. WordsSteps(g, items, m + 1)
    BY <2>4, <2>5 DEF WordsSteps
  <2> QED
    BY <1>2, <2>6
<1>3. \A m \in Nat : m \in S
  <2> HIDE DEF S
  <2> QED BY <1>1, <1>2, AllNumbers
<1> QED
  BY <1>3

LEMMA WordsInIs ==
  ASSUME NEW items, Len(items) \in Nat
  PROVE  /\ WordsIn(items)[0] = 0
         /\ \A j \in 1 .. Len(items) : WordsIn(items)[j] = WordsIn(items)[j - 1] + WordsOf(items[j])
<1> DEFINE n == Len(items)
           f == CHOOSE g : WordsSteps(g, items, n)
<1>1. WordsSteps(f, items, n)
  BY WordsStepsExist
<1>2. WordsIn(items) = f
  BY DEF WordsIn, WordsSteps
<1>3. \A j \in 0 .. n : f[j] = IF j = 0 THEN 0 ELSE f[j - 1] + WordsOf(items[j])
  <2> HIDE DEF f
  <2> QED BY <1>1 DEF WordsSteps
<1> HIDE DEF f
<1>4. f[0] = 0 /\ \A j \in 1 .. n : f[j] = f[j - 1] + WordsOf(items[j])
  <2>1. 0 \in 0 .. n /\ \A j \in 1 .. n : j \in 0 .. n /\ j # 0
    OBVIOUS
  <2> QED
    BY <1>3, <2>1
<1> QED
  BY <1>2, <1>4

LEMMA WordsAreFew ==
  ASSUME NEW item, IsItem(item)
  PROVE  WordsOf(item) \in {0, 1, 2}
<1>1. CASE item.spec = "text"
  BY <1>1, TextIs
<1>2. CASE item.spec # "text"
  <2>1. item \in Directives
    BY <1>2 DEF IsItem, Character
  <2>2. CASE item.spec \in {"c", "s", "%"}
    BY <2>1, <2>2, OtherIs
  <2>3. CASE item.spec \notin {"c", "s", "%"}
    BY <2>1, <2>3, DirectiveIs, NumberItem DEF IsNumberItem
  <2> QED
    BY <2>2, <2>3
<1> QED
  BY <1>1, <1>2

(* The items of a call the manual allows, and the words up to each.         *)
LEMMA WordsGrow ==
  ASSUME NEW items, NEW n \in Nat, Len(items) = n, \A j \in 1 .. n : IsItem(items[j])
  PROVE  /\ \A j \in 0 .. n : WordsIn(items)[j] \in Nat
         /\ \A j \in 0 .. n : WordsIn(items)[j] <= WordsIn(items)[n]
<1> DEFINE w == WordsIn(items)
<1>1. w[0] = 0 /\ \A j \in 1 .. n : w[j] = w[j - 1] + WordsOf(items[j])
  BY WordsInIs
<1> HIDE DEF w
<1>2. \A j \in 1 .. n : WordsOf(items[j]) \in Nat
  BY WordsAreFew
<1> DEFINE S == {j \in Nat : j <= n => w[j] \in Nat}
<1>3. 0 \in S
  BY <1>1
<1>4. ASSUME NEW j \in Nat, j \in S PROVE j + 1 \in S
  <2> DEFINE k == j + 1
  <2>1. SUFFICES ASSUME k <= n PROVE w[k] \in Nat
    OBVIOUS
  <2>2. k \in 1 .. n /\ k - 1 = j /\ w[j] \in Nat
    BY <1>4, <2>1
  <2> HIDE DEF k
  <2> QED
    BY <1>1, <1>2, <2>2
<1>5. \A j \in Nat : j \in S
  <2> HIDE DEF S
  <2> QED BY <1>3, <1>4, AllNumbers
<1>6. \A j \in 0 .. n : w[j] \in Nat
  BY <1>5
<1>7. ASSUME NEW j \in 0 .. n PROVE w[j] <= w[n]
  <2> DEFINE T == {d \in Nat : j + d <= n => w[j] <= w[j + d]}
  <2>1. 0 \in T
    BY <1>6
  <2>2. ASSUME NEW d \in Nat, d \in T PROVE d + 1 \in T
    <3> DEFINE k == j + (d + 1)
               m == j + d
    <3>1. SUFFICES ASSUME k <= n PROVE w[j] <= w[k]
      OBVIOUS
    <3>2. k \in 1 .. n /\ k - 1 = m /\ m \in 0 .. n /\ w[j] <= w[m]
      BY <2>2, <3>1
    <3> HIDE DEF k, m
    <3>3. w[k] = w[m] + WordsOf(items[k]) /\ WordsOf(items[k]) \in Nat /\ w[m] \in Nat /\ w[j] \in Nat
      BY <1>1, <1>2, <1>6, <3>2
    <3> QED
      BY <3>2, <3>3
  <2>3. \A d \in Nat : d \in T
    <3> HIDE DEF T
    <3> QED BY <2>1, <2>2, AllNumbers
  <2>4. n - j \in Nat /\ j + (n - j) = n /\ n <= n
    OBVIOUS
  <2>5. w[j] <= w[j + (n - j)]
    <3> DEFINE d == n - j
    <3>1. d \in T /\ j + d <= n
      BY <2>3, <2>4
    <3> HIDE DEF d
    <3>2. w[j] <= w[j + d]
      BY <3>1
    <3> QED
      BY <3>2 DEF d
  <2> QED
    BY <2>4, <2>5
<1> QED
  BY <1>6, <1>7 DEF w

LEMMA SpelledIsASeq ==
  ASSUME NEW item, IsItem(item)
  PROVE  ASeq(Spelled(item))
<1>1. \A c : ASeq(<<c>>)
  BY EmptyIsASeq, AppendIs
<1>2. CASE item.spec = "text"
  <2>1. Spelled(item) = <<item.char>>
    BY <1>2, TextIs
  <2> QED
    BY <1>1, <2>1
<1>3. CASE item.spec # "text"
  <2> DEFINE t == LengthText[item.length]
             q == <<"%">> \o t
             e == <<item.spec>>
  <2>1. item.length \in {"default", "hh", "h", "l", "ll"}
    BY <1>3, DirectiveIs DEF IsItem, Character
  <2>2. ASeq(t)
    BY <2>1, LengthTextIs
  <2>3. Spelled(item) = q \o e /\ ASeq(e)
    BY <1>1, <1>3 DEF Spelled
  <2> HIDE DEF t, e
  <2>4. ASeq(q)
    BY <2>2, BehindOne DEF Behind
  <2> HIDE DEF q
  <2>5. ASeq(q \o e)
    BY <2>3, <2>4, ConcatIsASeq
  <2> QED
    BY <2>3, <2>5
<1> QED
  BY <1>2, <1>3

(* Whether stage 2 remembers a number among the first j items.              *)
NumberAt(copy, items, j) ==
  IF copy = "stage2" /\ (\E k \in 1 .. j : items[k].spec \in NumberSpecs) THEN Yes ELSE No

LEMMA NumberAtNext ==
  ASSUME NEW copy \in Copies, NEW items, NEW j \in Nat
  PROVE  /\ NumberAt(copy, items, 0) = No
         /\ After(copy, NumberAt(copy, items, j), items[j + 1]) = NumberAt(copy, items, j + 1)
<1>1. NumberAt(copy, items, 0) = No
  BY DEF NumberAt
<1>2. CASE items[j + 1].spec \in NumberSpecs
  <2>1. j + 1 \in 1 .. (j + 1)
    OBVIOUS
  <2>2. NumberAt(copy, items, j + 1) = IF copy = "stage2" THEN Yes ELSE No
    BY <1>2, <2>1 DEF NumberAt
  <2>3. After(copy, NumberAt(copy, items, j), items[j + 1]) = Left(copy, Yes)
    BY <1>2 DEF After
  <2> QED
    BY <1>1, <2>2, <2>3 DEF Left
<1>3. CASE items[j + 1].spec \notin NumberSpecs
  <2>1. (\E k \in 1 .. (j + 1) : items[k].spec \in NumberSpecs) <=> (\E k \in 1 .. j : items[k].spec \in NumberSpecs)
    <3>1. \A k \in 1 .. (j + 1) : k \in 1 .. j \/ k = j + 1
      OBVIOUS
    <3>2. \A k \in 1 .. j : k \in 1 .. (j + 1)
      OBVIOUS
    <3> QED
      BY <1>3, <3>1, <3>2
  <2>2. NumberAt(copy, items, j + 1) = NumberAt(copy, items, j)
    BY <2>1 DEF NumberAt
  <2> QED
    BY <1>1, <1>3, <2>2 DEF After
<1> QED
  BY <1>2, <1>3

(* Every call that the manual allows writes what the manual says and takes   *)
(* the arguments it says, in every copy of printf, in stage 2's as long as   *)
(* numbers come last, and where h or hh is given a value of that type, to    *)
(* which no copy converts its argument.                                     *)
THEOREM PrintfReadsItsFormat ==
  ASSUME NEW copy \in Copies, NEW items, NEW args, WellFormed(items, args), ShortsFit(items, args),
         copy = "stage2" => NumbersLast(items)
  PROVE  Reads(Loop(copy, Format(items), args), items, args, Texts(copy))
<1> DEFINE n == Len(items)
           w == WordsIn(items)
           texts == Texts(copy)
           spelled == [j \in DOMAIN items |-> Spelled(items[j])]
           written == [j \in DOMAIN items |-> ItemText(items[j], args, 1 + w[j - 1], texts)]
           fmt == Format(items)
<1>1. n \in Nat /\ DOMAIN items = 1 .. n /\ args \in Seq(Word) /\ Len(args) \in Nat
  BY LenProperties DEF WellFormed
<1>2. \A j \in 1 .. n : IsItem(items[j])
  BY <1>1 DEF WellFormed, IsItem
<1>3. w[n] <= Len(args)
  BY DEF WellFormed
<1>4. w[0] = 0 /\ \A j \in 1 .. n : w[j] = w[j - 1] + WordsOf(items[j])
  BY <1>1, WordsInIs
<1>5. (\A j \in 0 .. n : w[j] \in Nat) /\ (\A j \in 0 .. n : w[j] <= w[n])
  BY <1>1, <1>2, WordsGrow
<1> HIDE DEF w, texts
<1>6. spelled = [j \in 1 .. n |-> spelled[j]] /\ \A j \in 1 .. n : spelled[j] = Spelled(items[j])
  BY <1>1
<1>7. written = [j \in 1 .. n |-> written[j]]
      /\ \A j \in 1 .. n : written[j] = ItemText(items[j], args, 1 + w[j - 1], texts)
  BY <1>1
<1>8. fmt = FlattenSeq(spelled)
  BY DEF Format
<1>9. Reading(items, args, texts) = [out |-> FlattenSeq(written), used |-> w[n]]
  BY DEF Reading, w
<1> HIDE DEF n, spelled, written, fmt
<1>10. ASSUME NEW j \in 1 .. n
       PROVE  /\ j - 1 \in 0 .. n /\ j \in 0 .. n /\ w[j - 1] \in Nat
              /\ w[j - 1] + WordsOf(items[j]) <= Len(args)
              /\ written[j] = ItemText(items[j], args, w[j - 1] + 1, texts)
              /\ Fits(items[j], args[w[j - 1] + 1])
  <2>1. j - 1 \in 0 .. n /\ j \in 0 .. n
    BY <1>1
  <2>2. w[j - 1] \in Nat /\ w[j] \in Nat /\ w[j] <= w[n] /\ w[n] \in Nat
    BY <1>1, <1>5, <2>1
  <2>3. w[j - 1] + WordsOf(items[j]) <= Len(args)
    <3>1. w[j] = w[j - 1] + WordsOf(items[j])
      BY <1>4
    <3> QED
      BY <1>1, <1>3, <2>2, <3>1
  <2>4. 1 + w[j - 1] = w[j - 1] + 1
    BY <2>2
  <2>5. Fits(items[j], args[1 + w[j - 1]])
    BY <1>1 DEF ShortsFit, Fits, w, n
  <2> QED
    BY <1>7, <2>1, <2>2, <2>3, <2>4, <2>5
<1>11. \A j \in 1 .. n : ASeq(spelled[j]) /\ ASeq(written[j])
  <2>1. TAKE j \in 1 .. n
  <2>2. ASeq(spelled[j])
    BY <1>2, <1>6, SpelledIsASeq
  <2>3. ASeq(ItemText(items[j], args, w[j - 1] + 1, texts))
    BY <1>1, <1>2, <1>10, ItemTextIsASeq DEF texts
  <2> QED
    BY <1>10, <2>2, <2>3
<1>12. PICK g : Parts(g, spelled) /\ fmt = g[n] /\ Len(spelled) = n /\ \A j \in 0 .. n : ASeq(g[j])
  <2>1. n \in Nat /\ spelled = [j \in 1 .. n |-> spelled[j]] /\ \A j \in 1 .. n : ASeq(spelled[j])
    BY <1>1, <1>6, <1>11, Zenon
  <2>2. /\ Len(spelled) = n
        /\ \E g : Parts(g, spelled) /\ FlattenSeq(spelled) = g[n] /\ \A j \in 0 .. n : ASeq(g[j])
    BY <2>1, FlattenIs, Zenon
  <2>3. fmt = FlattenSeq(spelled)
    BY <1>8, Zenon
  <2> QED
    BY <2>2, <2>3, Zenon
<1>13. PICK h : Parts(h, written) /\ FlattenSeq(written) = h[n] /\ Len(written) = n /\ \A j \in 0 .. n : ASeq(h[j])
  <2>1. n \in Nat /\ written = [j \in 1 .. n |-> written[j]] /\ \A j \in 1 .. n : ASeq(written[j])
    BY <1>1, <1>7, <1>11, Zenon
  <2>2. /\ Len(written) = n
        /\ \E h : Parts(h, written) /\ FlattenSeq(written) = h[n] /\ \A j \in 0 .. n : ASeq(h[j])
    BY <2>1, FlattenIs, Zenon
  <2> QED
    BY <2>2, Zenon
<1> DEFINE N == Len(fmt)
<1>14. N \in Nat /\ \A j \in 0 .. n : Len(g[j]) \in Nat
  <2>1. n \in 0 .. n
    BY <1>1
  <2> QED
    BY <1>12, <2>1, LenProperties DEF ASeq
<1>15. PICK f : /\ f[0] = Fresh /\ Loop(copy, fmt, args) = f[N]
                /\ \A k \in 1 .. N : f[k] = Round(copy, f[k - 1], fmt[k], args)
  BY <1>14, LoopIs
<1>16. Runs(f, copy, fmt, args, N)
  BY <1>15 DEF Runs
<1> HIDE DEF N
<1> DEFINE Before(j) == At("normal", "default", NumberAt(copy, items, j), w[j], h[j])
           S == {j \in Nat : j <= n => f[Len(g[j])] = Before(j)}
<1>17. 0 \in S
  <2>1. g[0] = <<>> /\ h[0] = <<>> /\ Len(<<>>) = 0
    BY <1>12, <1>13 DEF Parts
  <2>2. Fresh = At("normal", "default", No, 0, <<>>)
    BY DEF Fresh, At, Full, No
  <2>3. NumberAt(copy, items, 0) = No
    BY NumberAtNext
  <2>4. Before(0) = Fresh
    BY <1>4, <2>1, <2>2, <2>3
  <2>5. f[Len(g[0])] = Fresh
    BY <1>15, <2>1
  <2> QED
    BY <2>4, <2>5
<1>18. ASSUME NEW m \in Nat, m \in S PROVE m + 1 \in S
  <2> DEFINE j == m + 1
             item == items[j]
             b == Len(g[m])
             num == NumberAt(copy, items, m)
  <2>1. SUFFICES ASSUME j <= n PROVE f[Len(g[j])] = Before(j)
    OBVIOUS
  <2>2. j \in 1 .. n /\ j - 1 = m /\ m <= n /\ m \in 0 .. n /\ j \in 0 .. n
    BY <1>1, <2>1
  <2>3. f[b] = At("normal", "default", num, w[m], h[m])
    BY <1>18, <2>2
  <2>4. After(copy, num, item) = NumberAt(copy, items, j)
    BY NumberAtNext
  <2>5. Readable(num, item)
    <3>1. CASE copy = "stage2" /\ \E k \in 1 .. m : items[k].spec \in NumberSpecs
      <4>1. PICK k \in 1 .. m : items[k].spec \in NumberSpecs
        BY <3>1
      <4>2. k \in 1 .. n /\ k < j
        BY <1>1, <2>2
      <4>3. NumbersLast(items)
        BY <3>1
      <4>4. DOMAIN items = 1 .. n
        BY <1>1 DEF n
      <4> HIDE DEF j, item
      <4>5. items[j].spec \in NumberSpecs \union {"text"}
        BY <2>2, <4>1, <4>2, <4>3, <4>4 DEF NumbersLast
      <4> QED
        BY <4>5 DEF Readable, item
    <3>2. CASE ~(copy = "stage2" /\ \E k \in 1 .. m : items[k].spec \in NumberSpecs)
      BY <3>2 DEF NumberAt, Readable
    <3> QED
      BY <3>1, <3>2
  <2> HIDE DEF j, num
  <2>6. /\ g[j] = g[m] \o Spelled(item) /\ ASeq(g[m]) /\ ASeq(Spelled(item)) /\ ASeq(g[j])
        /\ h[j] = h[m] \o written[j] /\ ASeq(h[m])
    <3>1. g[j] = g[j - 1] \o spelled[j] /\ h[j] = h[j - 1] \o written[j]
      BY <1>12, <1>13, <2>2 DEF Parts
    <3> QED
      BY <1>6, <1>11, <1>12, <1>13, <2>2, <3>1
  <2> DEFINE s == Spelled(item)
  <2>7. Join(g[j], g[m], s)
    BY <2>6, JoinIs
  <2>8. b \in Nat /\ Len(s) \in Nat /\ Len(g[j]) = b + Len(s)
    BY <2>7 DEF Join
  <2>9. Len(g[j]) <= N /\ \A k \in 1 .. Len(g[j]) : fmt[k] = g[j][k]
    <3>1. Len(g[j]) <= Len(g[n]) /\ \A p \in 1 .. Len(g[j]) : g[n][p] = g[j][p]
      <4>1. n \in Nat /\ j \in 0 .. n
        BY <1>1, <2>2
      <4>2. Len(spelled) = n /\ Parts(g, spelled) /\ \A k \in 0 .. n : ASeq(g[k])
        BY <1>12, Zenon
      <4>3. \A k \in 1 .. n : ASeq(spelled[k])
        BY <1>11, Zenon
      <4> QED
        BY <4>1, <4>2, <4>3, PartsArePrefixes
    <3> QED
      BY <1>12, <3>1 DEF N
  <2> HIDE DEF b, s
  <2>10. Placed(fmt, b, s) /\ b + Len(s) <= N
    <3>1. ASSUME NEW k \in 1 .. Len(s) PROVE fmt[b + k] = s[k]
      <4>1. b + k \in 1 .. Len(g[j])
        BY <2>8
      <4>2. g[j][b + k] = s[k]
        BY <2>7 DEF Join, b
      <4> QED
        BY <2>9, <4>1, <4>2
    <3> QED
      BY <2>8, <2>9, <3>1 DEF Placed
  <2>11. /\ w[m] \in Nat /\ w[m] + WordsOf(item) <= Len(args) /\ Fits(item, args[w[m] + 1])
         /\ written[j] = ItemText(item, args, w[m] + 1, texts)
    BY <1>10, <2>2
  <2>12. f[b + Len(Spelled(item))]
           = At("normal", "default", After(copy, num, item), w[m] + WordsOf(item),
                h[m] \o ItemText(item, args, w[m] + 1, Texts(copy)))
    <3>1. IsItem(item)
      BY <1>2, <2>2
    <3>2. Placed(fmt, b, Spelled(item)) /\ b + Len(Spelled(item)) <= N
      BY <2>10 DEF s
    <3> HIDE DEF item
    <3> QED
      BY <1>1, <1>14, <1>16, <2>3, <2>5, <2>6, <2>8, <2>11, <3>1, <3>2, ItemIsRead
  <2>13. w[j] = w[m] + WordsOf(item)
    BY <1>4, <2>2
  <2> QED
    BY <2>4, <2>6, <2>8, <2>11, <2>12, <2>13 DEF s, texts
<1>19. \A j \in Nat : j \in S
  <2> HIDE DEF S
  <2> QED BY <1>17, <1>18, AllNumbers
<1>20. f[N] = Before(n)
  <2>1. n <= n /\ n \in S
    BY <1>1, <1>19
  <2> QED
    BY <1>12, <2>1 DEF N
<1>21. Loop(copy, fmt, args) = Before(n)
  BY <1>15, <1>20
<1> DEFINE r == Loop(copy, fmt, args)
<1>22. r.state = "normal" /\ r.used = w[n] /\ r.out = h[n]
  BY <1>21 DEF At, Full
<1>23. [out |-> r.out, used |-> r.used] = Reading(items, args, texts)
  BY <1>9, <1>13, <1>22
<1> HIDE DEF r
<1>24. Reads(r, items, args, texts)
  BY <1>22, <1>23 DEF Reads
<1> QED
  BY <1>24 DEF r, fmt, texts

=============================================================================
