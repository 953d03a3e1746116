---------------------------- MODULE ConsoleProofs ----------------------------
(***************************************************************************)
(* Proofs about Console, for every size of the screen, every length of the   *)
(* line buffer and every text: the screen is the tail of what was written,   *)
(* readline leaves the line that was typed, and the echo shows it.          *)
(*                                                                         *)
(* Everything about the screen is said of Shows, which relates a screen that *)
(* put_c may still have to settle to a page, from the page's row top on.     *)
(***************************************************************************)
EXTENDS Console, PrintfProofs

-----------------------------------------------------------------------------
(* Rows and columns. *)

(* Where row r begins on a page. *)
Row(r) == r * Width

LEMMA RowFacts ==
  ASSUME NEW r \in Nat
  PROVE  /\ Row(r) \in Nat
         /\ Row(r + 1) = Row(r) + Width
         /\ r \in Nat \ {0} => Row(r) >= Width
<1>1. Width \in Nat \ {0}
  BY ScreenAssumption
<1>2. Row(r) \in Nat
  BY <1>1 DEF Row
<1>3. Row(r + 1) = Row(r) + Width
  BY <1>1 DEF Row
<1>4. ASSUME r # 0 PROVE Row(r) >= Width
  <2>1. /\ r - 1 \in Nat
        /\ r * Width = (r - 1) * Width + Width
    BY <1>1, <1>4
  <2>2. (r - 1) * Width \in Nat
    BY <1>1, <2>1
  <2> QED
    BY <1>1, <2>1, <2>2 DEF Row
<1> QED
  BY <1>2, <1>3, <1>4

LEMMA RowSum ==
  ASSUME NEW r \in Nat, NEW d \in Nat
  PROVE  Row(r + d) = Row(r) + Row(d)
BY ScreenAssumption DEF Row

LEMMA RowOrder ==
  ASSUME NEW r \in Nat, NEW s \in Nat, r < s
  PROVE  Row(r) + Width <= Row(s)
<1>1. s - r \in Nat \ {0} /\ s = r + (s - r)
  OBVIOUS
<1>2. Row(s) = Row(r) + Row(s - r)
  BY <1>1, RowSum
<1>3. Row(s - r) >= Width
  BY <1>1, RowFacts
<1> QED
  BY <1>2, <1>3, <1>1, RowFacts, ScreenAssumption

(* A place in row r is in row r, and its column is what it is behind the     *)
(* beginning of the row.                                                   *)
LEMMA PlaceInRow ==
  ASSUME NEW r \in Nat, NEW x \in 0 .. (Width - 1)
  PROVE  (Row(r) + x) \div Width = r /\ (Row(r) + x) % Width = x
<1> DEFINE n == Row(r) + x
           q == n \div Width
           m == n % Width
<1>1. Width \in Nat \ {0} /\ Row(r) \in Nat /\ n \in Nat
  BY ScreenAssumption, RowFacts
<1>2. q \in Nat /\ m \in 0 .. (Width - 1) /\ n = Width * q + m
  <2> HIDE DEF n
  <2> QED BY <1>1
<1>3. n = Row(q) + m
  BY <1>1, <1>2 DEF Row
<1> HIDE DEF q, m
<1>4. ~ (q < r)
  BY <1>1, <1>2, <1>3, RowOrder, RowFacts
<1>5. ~ (r < q)
  BY <1>1, <1>2, <1>3, RowOrder, RowFacts
<1>6. q = r
  BY <1>2, <1>4, <1>5
<1>7. m = x
  BY <1>1, <1>2, <1>3, <1>6
<1> QED
  BY <1>6, <1>7 DEF q, m

(* A row is a multiple of four columns wide. *)
LEMMA ColumnOfFour ==
  ASSUME NEW r \in Nat, NEW x \in Nat
  PROVE  (Row(r) + x) % 4 = x % 4
<1>1. PICK w \in Nat : Width = 4 * w
  <2>1. Width = 4 * (Width \div 4) /\ Width \div 4 \in Nat
    BY ScreenAssumption
  <2> QED BY <2>1
<1>2. Row(r) = 4 * (r * w)
  BY <1>1 DEF Row
<1>3. r * w \in Nat
  BY <1>1
<1> DEFINE k == r * w
<1> HIDE DEF k
<1>4. Row(r) = 4 * k /\ k \in Nat
  BY <1>2, <1>3 DEF k
<1> QED
  BY <1>4
-----------------------------------------------------------------------------
(* The page. *)

(* The character at a place of the page, counted from 0. *)
Letter(p, n) == IF n + 1 \in 1 .. Len(p.text) THEN p.text[n + 1] ELSE Blank

APage(p) ==
  /\ p = [text |-> p.text, pos |-> p.pos]
  /\ p.text \in Seq(Range(p.text))
  /\ p.pos \in 0 .. Len(p.text)

LEMMA EmptyPageIsAPage == APage(EmptyPage)
<1>1. <<>> \in Seq(Range(<<>>)) /\ Len(<<>>) = 0
  BY EmptySeq
<1> QED
  BY <1>1 DEF APage, EmptyPage

(* Writing one character moves one place on and changes no other.           *)
LEMMA WrittenPage ==
  ASSUME NEW p, APage(p), NEW c
  PROVE  /\ APage(Written(p, c))
         /\ Written(p, c).pos = p.pos + 1
         /\ Len(Written(p, c).text) = IF p.pos < Len(p.text) THEN Len(p.text) ELSE p.pos + 1
         /\ \A n \in Nat : Letter(Written(p, c), n) = IF n = p.pos THEN c ELSE Letter(p, n)
<1> DEFINE t == p.text
           w == Written(p, c)
           S == Range(t) \union {c}
<1>1. t \in Seq(S) /\ c \in S
  BY SeqMonotonic DEF APage
<1>2. Len(t) \in Nat /\ p.pos \in 0 .. Len(t)
  BY <1>1, LenProperties DEF APage
<1>3. /\ w.text \in Seq(S)
      /\ w.pos = p.pos + 1
      /\ w = [text |-> w.text, pos |-> w.pos]
      /\ Len(w.text) = IF p.pos < Len(t) THEN Len(t) ELSE p.pos + 1
      /\ \A k \in 1 .. Len(w.text) : w.text[k] = IF k = p.pos + 1 THEN c ELSE t[k]
  <2>1. CASE p.pos < Len(t)
    <3>1. w = [text |-> [t EXCEPT ![p.pos + 1] = c], pos |-> p.pos + 1]
      BY <2>1 DEF Written
    <3>2. p.pos + 1 \in 1 .. Len(t)
      BY <2>1, <1>2
    <3> HIDE DEF t, w, S
    <3> QED
      BY <1>1, <1>2, <2>1, <3>1, <3>2, ExceptSeq
  <2>2. CASE ~(p.pos < Len(t))
    <3>1. w = [text |-> Append(t, c), pos |-> p.pos + 1]
      BY <2>2 DEF Written
    <3>2. p.pos = Len(t)
      BY <2>2, <1>2
    <3> HIDE DEF t, w, S
    <3>3. \A k \in 1 .. Len(t) : Append(t, c)[k] = t[k]
      BY <1>1, AppendProperties
    <3>4. Append(t, c) \in Seq(S) /\ Len(Append(t, c)) = Len(t) + 1 /\ Append(t, c)[Len(t) + 1] = c
      BY <1>1, AppendProperties
    <3> QED
      BY <1>2, <2>2, <3>1, <3>2, <3>3, <3>4
  <2> QED
    BY <2>1, <2>2
<1>4. w.text \in Seq(Range(w.text))
  BY <1>3, SeqOfRange
<1>5. \A n \in Nat : Letter(w, n) = IF n = p.pos THEN c ELSE Letter(p, n)
  <2> HIDE DEF w, S
  <2> QED BY <1>2, <1>3 DEF Letter
<1>6. APage(w)
  <2> HIDE DEF w, S
  <2> QED BY <1>2, <1>3, <1>4 DEF APage
<1> QED
  BY <1>3, <1>5, <1>6

(* Filling up with blanks changes nothing that shows. *)
LEMMA PaddedPage ==
  ASSUME NEW p, APage(p), NEW m \in Nat, Len(p.text) <= m
  PROVE  /\ APage(Padded(p, m))
         /\ Padded(p, m).pos = m
         /\ Len(Padded(p, m).text) = m
         /\ \A n \in Nat : Letter(Padded(p, m), n) = Letter(p, n)
<1> DEFINE t == p.text
           d == m - Len(t)
           b == [j \in 1 .. d |-> Blank]
           S == Range(t) \union {Blank}
           w == Padded(p, m)
<1>1. t \in Seq(S) /\ Len(t) \in Nat
  BY SeqMonotonic, LenProperties DEF APage
<1>2. d \in Nat
  BY <1>1
<1>3. b \in Seq(S) /\ Len(b) = d /\ \A j \in 1 .. d : b[j] = Blank
  <2> HIDE DEF d
  <2>1. b \in [1 .. d -> S]
    OBVIOUS
  <2>2. b \in Seq(S)
    BY <1>2, <2>1, SeqDef
  <2> QED
    BY <1>2, <2>1, <2>2, LenProperties
<1>4. w = [text |-> t \o b, pos |-> m]
  BY DEF Padded
<1>5. d = m - Len(t)
  OBVIOUS
<1> HIDE DEF t, b, S, w, d
<1>6. /\ t \o b \in Seq(S)
      /\ Len(t \o b) = Len(t) + Len(b)
      /\ \A k \in 1 .. Len(t) + Len(b) : (t \o b)[k] = IF k <= Len(t) THEN t[k] ELSE b[k - Len(t)]
  BY <1>1, <1>3, ConcatProperties
<1> DEFINE u == t \o b
<1>7. /\ u \in Seq(S) /\ Len(u) = m
      /\ \A k \in 1 .. m : u[k] = IF k <= Len(t) THEN t[k] ELSE Blank
  <2>1. Len(t) + Len(b) = m
    BY <1>1, <1>2, <1>3, <1>5
  <2>2. ASSUME NEW k \in 1 .. m, ~ (k <= Len(t)) PROVE k - Len(t) \in 1 .. d
    BY <1>1, <1>5, <2>2
  <2> QED
    BY <1>3, <1>6, <2>1, <2>2
<1>8. w.text = u /\ w.pos = m
  BY <1>4
<1> HIDE DEF u
<1>9. w = [text |-> w.text, pos |-> w.pos]
  BY <1>4
<1>10. w.text \in Seq(Range(w.text))
  BY <1>7, <1>8, SeqOfRange
<1>11. \A n \in Nat : Letter(w, n) = Letter(p, n)
  BY <1>1, <1>7, <1>8 DEF Letter, t
<1>12. APage(w)
  BY <1>7, <1>8, <1>9, <1>10 DEF APage
<1> QED
  BY <1>7, <1>8, <1>11, <1>12 DEF w
-----------------------------------------------------------------------------
(* The screen. *)

(* The screen with the page's row top at its top. *)
Window(p, top) == [q \in Cells |-> Letter(p, Row(top) + q)]

(* Screen s shows page p from row top on; the cursor may be one column past  *)
(* the right margin or one row past the bottom.  Nothing is below its row.   *)
Shows(s, p, top) ==
  /\ s = [cell |-> Window(p, top), x |-> s.x, y |-> s.y]
  /\ s.x \in 0 .. Width /\ s.y \in 0 .. Height
  /\ s.y = Height => s.x = 0
  /\ APage(p)
  /\ p.pos = Row(top + s.y) + s.x
  /\ Len(p.text) <= Row(top + s.y + 1) /\ Len(p.text) <= Row(top + Height)
  /\ top = 0 \/ s.y >= Height - 1

Settled(s, p, top) == Shows(s, p, top) /\ s.x < Width /\ s.y < Height

(* What the kernel's console and the one of stage 2 keep between two calls.  *)
OnScreen(s, p) == \E top \in Nat : Settled(s, p, top)

LEMMA CellsAreRows == Cells = 0 .. (Row(Height) - 1)
BY ScreenAssumption DEF Cells, Row

LEMMA Scrolls ==
  ASSUME NEW s, NEW p, NEW top \in Nat, Shows(s, p, top), s.y = Height
  PROVE  /\ Settled(Scrollback(s), p, top + 1)
         /\ Stage2Scrollback(s, 1) = Scrollback(s)
<1> DEFINE r == Scrollback(s)
<1>1. Width \in Nat \ {0} /\ Height \in Nat \ {0}
  BY ScreenAssumption
<1>2. /\ s = [cell |-> Window(p, top), x |-> s.x, y |-> s.y]
      /\ s.x = 0 /\ s.y = Height /\ APage(p)
      /\ p.pos = Row(top + Height) + 0
      /\ Len(p.text) <= Row(top + Height)
  <2>1. s.x = 0
    BY DEF Shows
  <2> QED
    BY <2>1 DEF Shows
<1>3. Len(p.text) \in Nat
  BY LenProperties DEF APage, Shows
<1>4. /\ Row(top) \in Nat /\ Row(top + 1) = Row(top) + Width
      /\ Row(top + Height) = Row(top) + Row(Height)
      /\ Row(Height) \in Nat
      /\ Row(top + Height + 1) \in Nat /\ Row(top + Height + 1) = Row(top + Height) + Width
  <2>1. top + Height \in Nat /\ Height \in Nat
    BY <1>1
  <2>2. Row(top) \in Nat /\ Row(top + 1) = Row(top) + Width
    BY RowFacts
  <2>3. Row(top + Height) = Row(top) + Row(Height)
    BY <2>1, RowSum
  <2>4. Row(Height) \in Nat
    BY <2>1, RowFacts
  <2>5. Row(top + Height + 1) \in Nat /\ Row(top + Height + 1) = Row(top + Height) + Width
    <3>1. top + Height + 1 \in Nat
      BY <2>1
    <3> QED
      BY <2>1, <3>1, RowFacts
  <2> QED
    BY <2>2, <2>3, <2>4, <2>5
<1>5. r = [cell |-> [q \in Cells |-> IF q + Width \in Cells THEN Window(p, top)[q + Width] ELSE Blank],
           x |-> s.x, y |-> s.y - 1]
  BY <1>2 DEF Scrollback
<1>6. ASSUME NEW q \in Cells
      PROVE  (IF q + Width \in Cells THEN Window(p, top)[q + Width] ELSE Blank) = Letter(p, Row(top + 1) + q)
  <2>1. q \in Nat /\ q <= Row(Height) - 1
    BY <1>4, <1>6, CellsAreRows
  <2>2. CASE q + Width \in Cells
    <3>1. Window(p, top)[q + Width] = Letter(p, Row(top) + (q + Width))
      BY <2>2 DEF Window
    <3>2. Row(top) + (q + Width) = Row(top + 1) + q
      BY <1>1, <1>4, <2>1
    <3> QED
      BY <2>2, <3>1, <3>2
  <2>3. CASE ~(q + Width \in Cells)
    <3>1. q + Width >= Row(Height)
      BY <1>1, <1>4, <2>1, <2>3, CellsAreRows
    <3>2. Row(top + 1) + q + 1 > Len(p.text)
      <4>1. Row(top + 1) + q + 1 > Row(top + Height)
        BY <1>1, <1>4, <2>1, <3>1
      <4>2. Len(p.text) <= Row(top + Height) /\ Row(top + Height) \in Nat /\ Row(top + 1) \in Nat
        BY <1>1, <1>2, <1>4, SMTT(20)
      <4> QED
        BY <1>3, <2>1, <4>1, <4>2
    <3>3. Letter(p, Row(top + 1) + q) = Blank
      BY <1>3, <3>2 DEF Letter
    <3> QED
      BY <2>3, <3>3
  <2> QED
    BY <2>2, <2>3
<1>7. [q \in Cells |-> IF q + Width \in Cells THEN Window(p, top)[q + Width] ELSE Blank] = Window(p, top + 1)
  BY <1>6 DEF Window
<1>8. r = [cell |-> Window(p, top + 1), x |-> 0, y |-> Height - 1]
  BY <1>2, <1>5, <1>7
<1>9. /\ r = [cell |-> Window(p, top + 1), x |-> r.x, y |-> r.y]
      /\ r.x = 0 /\ r.y = Height - 1
  BY <1>8
<1> HIDE DEF r
<1>10. /\ top + 1 + r.y = top + Height
       /\ top + 1 + r.y + 1 = top + Height + 1
       /\ top + 1 + Height = top + Height + 1
  BY <1>1, <1>9
<1>11. Settled(r, p, top + 1)
  <2>1. /\ p.pos = Row(top + 1 + r.y) + r.x
        /\ Len(p.text) <= Row(top + 1 + r.y + 1)
        /\ Len(p.text) <= Row(top + 1 + Height)
    BY <1>1, <1>2, <1>3, <1>4, <1>9, <1>10, SMTT(20)
  <2>2. r.x \in 0 .. Width /\ r.y \in 0 .. Height /\ r.y # Height /\ r.y >= Height - 1 /\ r.x < Width /\ r.y < Height
    BY <1>1, <1>9
  <2> QED
    BY <1>2, <1>9, <2>1, <2>2 DEF Settled, Shows
<1>12. Stage2Scrollback(s, 1) = Scrollback(s)
  <2>1. 1 * Width = Width
    BY <1>1
  <2> QED
    BY <2>1 DEF Stage2Scrollback, Scrollback
<1> QED
  BY <1>11, <1>12 DEF r

(* The end of put_c, of either console: the page is shown, perhaps from the *)
(* next row on.                                                            *)
LEMMA Settles ==
  ASSUME NEW s, NEW p, NEW top \in Nat, Shows(s, p, top)
  PROVE  /\ OnScreen(Settle(s), p)
         /\ Stage2Settle(s) = Settle(s)
<1>1. Width \in Nat \ {0} /\ Height \in Nat \ {0}
  BY ScreenAssumption
<1>2. /\ s = [cell |-> Window(p, top), x |-> s.x, y |-> s.y]
      /\ s.x \in 0 .. Width /\ s.y \in 0 .. Height
      /\ s.y = Height => s.x = 0
      /\ APage(p)
      /\ p.pos = Row(top + s.y) + s.x
      /\ Len(p.text) <= Row(top + s.y + 1) /\ Len(p.text) <= Row(top + Height)
      /\ top = 0 \/ s.y >= Height - 1
  BY DEF Shows
<1>3. Len(p.text) \in Nat
  BY <1>2, LenProperties DEF APage
<1> DEFINE w == Wrapped(s)
           v == IF s.x >= Width THEN MovedTo(s, 0, s.y + 1) ELSE s
<1>4. w = v
  <2>1. CASE s.x >= Width
    <3>1. s.x = Width /\ s.x - Width = 0
      BY <1>1, <1>2, <2>1
    <3> QED
      BY <2>1, <3>1 DEF Wrapped
  <2>2. CASE ~(s.x >= Width)
    BY <2>2 DEF Wrapped
  <2> QED
    BY <2>1, <2>2
<1>5. Shows(w, p, top) /\ w.x < Width
  <2>1. CASE s.x >= Width
    <3>1. s.x = Width /\ s.y # Height
      BY <1>1, <1>2, <2>1
    <3>2. w = [cell |-> Window(p, top), x |-> 0, y |-> s.y + 1]
      <4>1. s.cell = Window(p, top)
        BY <1>2
      <4> QED
        BY <1>4, <2>1, <4>1 DEF MovedTo
    <3>3. w = [cell |-> Window(p, top), x |-> w.x, y |-> w.y] /\ w.x = 0 /\ w.y = s.y + 1
      BY <3>2
    <3> HIDE DEF w, v
    <3>4. s.y \in Nat /\ s.y < Height
      BY <1>1, <1>2, <3>1
    <3>5. /\ top + w.y = top + s.y + 1
          /\ top + w.y + 1 = top + s.y + 2
      BY <3>3, <3>4
    <3>6. /\ Row(top + s.y) \in Nat
          /\ Row(top + s.y + 1) = Row(top + s.y) + Width
          /\ Row(top + s.y + 2) = Row(top + s.y + 1) + Width
      <4>1. top + s.y \in Nat /\ top + s.y + 1 \in Nat /\ (top + s.y + 1) + 1 = top + s.y + 2
        BY <3>4
      <4> QED
        BY <4>1, RowFacts
    <3>7. p.pos = Row(top + w.y) + w.x
      BY <1>1, <1>2, <3>1, <3>3, <3>5, <3>6
    <3>8. Len(p.text) <= Row(top + w.y + 1)
      BY <1>1, <1>2, <1>3, <3>5, <3>6, SMTT(20)
    <3>9. w.x \in 0 .. Width /\ w.y \in 0 .. Height /\ w.x < Width /\ (top = 0 \/ w.y >= Height - 1)
      BY <1>1, <1>2, <3>3, <3>4
    <3> QED
      BY <1>2, <3>3, <3>7, <3>8, <3>9 DEF Shows
  <2>2. CASE ~(s.x >= Width)
    <3>1. w = s /\ s.x < Width
      BY <1>1, <1>2, <2>2 DEF Wrapped
    <3> QED
      BY <3>1
  <2> QED
    BY <2>1, <2>2
<1> HIDE DEF w, v
<1>6. w.y \in 0 .. Height
  BY <1>5 DEF Shows
<1>7. Settle(s) = IF w.y >= Height THEN Scrollback(w) ELSE w
  BY DEF Settle, w
<1>8. Stage2Settle(s) = IF w.y >= Height THEN Stage2Scrollback(w, 1) ELSE w
  BY <1>4 DEF Stage2Settle, v
<1>9. CASE w.y >= Height
  <2>1. w.y = Height
    BY <1>1, <1>6, <1>9
  <2>2. Settled(Scrollback(w), p, top + 1) /\ Stage2Scrollback(w, 1) = Scrollback(w)
    BY <1>5, <2>1, Scrolls
  <2>3. top + 1 \in Nat
    OBVIOUS
  <2> QED
    BY <1>7, <1>8, <1>9, <2>2, <2>3 DEF OnScreen
<1>10. CASE ~(w.y >= Height)
  <2>1. Settled(w, p, top)
    BY <1>1, <1>5, <1>6, <1>10 DEF Settled
  <2> QED
    BY <1>7, <1>8, <1>10, <2>1 DEF OnScreen
<1> QED
  BY <1>9, <1>10

(* A settled screen has nothing left to settle. *)
LEMMA SettledStays ==
  ASSUME NEW s, NEW p, OnScreen(s, p)
  PROVE  Settle(s) = s
<1>1. PICK top \in Nat : Settled(s, p, top)
  BY DEF OnScreen
<1>2. s.x \in Nat /\ s.y \in Nat /\ s.x < Width /\ s.y < Height
  BY <1>1, ScreenAssumption DEF Settled, Shows
<1>3. ~(s.x >= Width) /\ ~(s.y >= Height)
  BY <1>2, ScreenAssumption
<1> QED
  BY <1>3 DEF Settle, Wrapped

(* A glyph: what is drawn on the screen is what is written on the page.      *)
LEMMA GlyphShows ==
  ASSUME NEW s, NEW p, OnScreen(s, p), NEW c
  PROVE  /\ OnScreen(Glyph(s, c), Written(p, c))
         /\ Stage2Glyph(s, c) = Glyph(s, c)
<1>1. PICK top \in Nat : Settled(s, p, top)
  BY DEF OnScreen
<1> DEFINE d == Drawn(s, c)
           w == Written(p, c)
           a == s.y * Width + s.x
<1>2. Width \in Nat \ {0} /\ Height \in Nat \ {0}
  BY ScreenAssumption
<1>3. /\ s.cell = Window(p, top)
      /\ s.x \in 0 .. (Width - 1) /\ s.y \in 0 .. (Height - 1)
      /\ APage(p)
      /\ p.pos = Row(top + s.y) + s.x
      /\ Len(p.text) <= Row(top + s.y + 1) /\ Len(p.text) <= Row(top + Height)
      /\ top = 0 \/ s.y >= Height - 1
  <2>1. s = [cell |-> Window(p, top), x |-> s.x, y |-> s.y]
    BY <1>1 DEF Settled, Shows
  <2>2. s.cell = Window(p, top)
    BY <2>1
  <2> QED
    BY <1>1, <1>2, <2>2 DEF Settled, Shows
<1>4. Len(p.text) \in Nat /\ p.pos \in 0 .. Len(p.text)
  BY <1>3, LenProperties DEF APage
<1>5. /\ Row(top) \in Nat /\ Row(s.y) \in Nat /\ Row(top + s.y) = Row(top) + Row(s.y)
      /\ Row(top + s.y + 1) = Row(top + s.y) + Width
      /\ Row(s.y) + Width <= Row(Height)
      /\ Row(top + s.y + 1) <= Row(top + Height)
      /\ Row(Height) \in Nat
      /\ Row(top + Height) = Row(top) + Row(Height)
  <2>1. s.y \in Nat /\ s.y < Height /\ Height \in Nat /\ top + s.y \in Nat
    BY <1>2, <1>3
  <2>2. Row(top) \in Nat /\ Row(s.y) \in Nat /\ Row(Height) \in Nat
    BY <2>1, RowFacts
  <2>3. Row(top + s.y) = Row(top) + Row(s.y) /\ Row(top + Height) = Row(top) + Row(Height)
    BY <2>1, RowSum
  <2>4. Row(top + s.y + 1) = Row(top + s.y) + Width
    BY <2>1, RowFacts
  <2>5. Row(s.y) + Width <= Row(Height)
    BY <2>1, RowOrder
  <2> QED
    BY <1>2, <2>2, <2>3, <2>4, <2>5
<1>6. a = Row(s.y) + s.x
  BY DEF Row
<1>7. /\ APage(w) /\ w.pos = p.pos + 1
      /\ Len(w.text) = IF p.pos < Len(p.text) THEN Len(p.text) ELSE p.pos + 1
      /\ \A n \in Nat : Letter(w, n) = IF n = p.pos THEN c ELSE Letter(p, n)
  BY <1>3, WrittenPage
<1>8. d = [cell |-> [Window(p, top) EXCEPT ![a] = c], x |-> s.x + 1, y |-> s.y]
  BY <1>3 DEF Drawn
<1> HIDE DEF a, w
<1>9. [Window(p, top) EXCEPT ![a] = c] = Window(w, top)
  <2>1. ASSUME NEW q \in Cells
        PROVE  (IF q = a THEN c ELSE Letter(p, Row(top) + q)) = Letter(w, Row(top) + q)
    <3>1. q \in Nat /\ Row(top) + q \in Nat
      BY <1>5, <2>1, CellsAreRows
    <3>2. q = a <=> Row(top) + q = p.pos
      <4>1. p.pos = Row(top) + a
        BY <1>3, <1>5, <1>6, SMTT(20)
      <4>2. a \in Nat /\ Row(top) \in Nat
        BY <1>3, <1>5, <1>6
      <4> HIDE DEF a
      <4> QED
        BY <3>1, <4>1, <4>2
    <3> QED
      BY <1>7, <3>1, <3>2
  <2>2. [Window(p, top) EXCEPT ![a] = c] = [q \in Cells |-> IF q = a THEN c ELSE Letter(p, Row(top) + q)]
    BY DEF Window
  <2> QED
    BY <2>1, <2>2 DEF Window
<1>10. d = [cell |-> Window(w, top), x |-> d.x, y |-> d.y] /\ d.x = s.x + 1 /\ d.y = s.y
  BY <1>8, <1>9
<1> HIDE DEF d
<1>11. Shows(d, w, top)
  <2>1. w.pos = Row(top + d.y) + d.x
    BY <1>3, <1>5, <1>7, <1>10
  <2>2. Len(w.text) <= Row(top + d.y + 1) /\ Len(w.text) <= Row(top + Height)
    <3>1. p.pos + 1 <= Row(top + s.y + 1)
      <4>1. /\ p.pos = Row(top + s.y) + s.x /\ s.x \in 0 .. (Width - 1) /\ Row(top + s.y) \in Nat
            /\ Row(top + s.y + 1) = Row(top + s.y) + Width
        BY <1>2, <1>3, <1>5, SMTT(20)
      <4> QED
        BY <1>2, <4>1
    <3>2. Row(top + s.y + 1) \in Nat /\ Row(top + Height) \in Nat
      BY <1>2, <1>5
    <3>3. Len(w.text) <= Row(top + s.y + 1) /\ Len(w.text) <= Row(top + Height)
      BY <1>3, <1>4, <1>5, <1>7, <3>1, <3>2
    <3>4. top + d.y + 1 = top + s.y + 1
      BY <1>10
    <3> QED
      BY <3>3, <3>4
  <2>3. d.x \in 0 .. Width /\ d.y \in 0 .. Height /\ d.y # Height /\ (top = 0 \/ d.y >= Height - 1)
    BY <1>2, <1>3, <1>10, SMTT(20)
  <2> QED
    BY <1>7, <1>10, <2>1, <2>2, <2>3 DEF Shows
<1>12. OnScreen(Settle(d), w) /\ Stage2Settle(d) = Settle(d)
  BY <1>11, Settles
<1> QED
  BY <1>12 DEF Glyph, Stage2Glyph, d, w

LEMMA NewlineShows ==
  ASSUME NEW s, NEW p, OnScreen(s, p)
  PROVE  /\ OnScreen(Settle(MovedTo(s, 0, s.y + 1)), OnPage(p, LF))
         /\ Stage2Settle(MovedTo(s, 0, s.y + 1)) = Settle(MovedTo(s, 0, s.y + 1))
<1>1. PICK top \in Nat : Settled(s, p, top)
  BY DEF OnScreen
<1> DEFINE d == MovedTo(s, 0, s.y + 1)
           m == Row(top + s.y + 1)
           w == Padded(p, m)
<1>2. Width \in Nat \ {0} /\ Height \in Nat \ {0}
  BY ScreenAssumption
<1>3. /\ s.cell = Window(p, top)
      /\ s.x \in 0 .. (Width - 1) /\ s.y \in 0 .. (Height - 1)
      /\ APage(p)
      /\ p.pos = Row(top + s.y) + s.x
      /\ Len(p.text) <= Row(top + s.y + 1)
      /\ top = 0 \/ s.y >= Height - 1
  <2>1. s = [cell |-> Window(p, top), x |-> s.x, y |-> s.y]
    BY <1>1 DEF Settled, Shows
  <2>2. s.cell = Window(p, top)
    BY <2>1
  <2> QED
    BY <1>1, <1>2, <2>2 DEF Settled, Shows
<1>4. /\ s.y \in Nat /\ s.y + 1 \in Nat /\ top + s.y \in Nat /\ top + s.y + 1 \in Nat /\ top + (s.y + 1) = top + s.y + 1
      /\ s.y + 1 <= Height
  <2> DEFINE y == s.y
  <2>1. y \in 0 .. (Height - 1)
    BY <1>3
  <2> HIDE DEF y
  <2>2. /\ y \in Nat /\ y + 1 \in Nat /\ top + y \in Nat /\ top + y + 1 \in Nat /\ top + (y + 1) = top + y + 1
        /\ y + 1 <= Height
    BY <1>2, <2>1
  <2> QED
    BY <2>2 DEF y
<1>5. /\ Row(top + s.y) \in Nat /\ m \in Nat /\ m = Row(top + s.y) + Width
      /\ Row(top + s.y + 1 + 1) = m + Width
      /\ m <= Row(top + Height)
  <2>1. Row(top + s.y) \in Nat /\ m = Row(top + s.y) + Width
    BY <1>4, RowFacts
  <2>2. m \in Nat /\ Row(top + s.y + 1 + 1) = m + Width
    BY <1>4, RowFacts
  <2>3. m <= Row(top + Height)
    <3>1. CASE s.y + 1 = Height
      <4>1. top + s.y + 1 = top + Height
        BY <1>4, <3>1
      <4> QED
        BY <2>2, <4>1
    <3>2. CASE s.y + 1 # Height
      <4>1. top + s.y + 1 < top + Height /\ top + Height \in Nat
        BY <1>2, <1>4, <3>2
      <4>2. m + Width <= Row(top + Height)
        BY <1>4, <4>1, RowOrder
      <4>3. Row(top + Height) \in Nat
        BY <4>1, RowFacts
      <4> QED
        BY <1>2, <2>2, <4>2, <4>3
    <3> QED
      BY <3>1, <3>2
  <2> QED
    BY <2>1, <2>2, <2>3
<1>6. p.pos % Width = s.x
  BY <1>3, <1>4, PlaceInRow
<1>7. OnPage(p, LF) = w
  <2>1. p.pos - (p.pos % Width) = Row(top + s.y)
    BY <1>3, <1>5, <1>6, <1>2, SMTT(20)
  <2>2. p.pos - (p.pos % Width) + Width = m
    BY <2>1, <1>5
  <2>3. OnPage(p, LF) = Padded(p, p.pos - (p.pos % Width) + Width)
    BY DEF OnPage, LF, CR, TAB
  <2> QED
    BY <2>2, <2>3
<1>8. /\ APage(w) /\ w.pos = m /\ Len(w.text) = m
      /\ \A n \in Nat : Letter(w, n) = Letter(p, n)
  BY <1>3, <1>5, PaddedPage
<1>9. Window(p, top) = Window(w, top)
  <2>1. ASSUME NEW q \in Cells PROVE Row(top) + q \in Nat
    <3>1. Row(top) \in Nat /\ Row(Height) \in Nat
      BY <1>2, RowFacts
    <3> QED
      BY <2>1, <3>1, CellsAreRows
  <2> QED
    BY <1>8, <2>1 DEF Window
<1>10. /\ d = [cell |-> Window(w, top), x |-> d.x, y |-> d.y]
       /\ d.x = 0 /\ d.y = s.y + 1
  BY <1>3, <1>9 DEF MovedTo
<1> HIDE DEF d, w
<1>11. Shows(d, w, top)
  <2>1. w.pos = Row(top + d.y) + d.x
    BY <1>4, <1>5, <1>8, <1>10
  <2>2. Len(w.text) <= Row(top + d.y + 1) /\ Len(w.text) <= Row(top + Height)
    BY <1>2, <1>4, <1>5, <1>8, <1>10
  <2>3. d.x \in 0 .. Width /\ d.y \in 0 .. Height /\ (top = 0 \/ d.y >= Height - 1)
    BY <1>2, <1>3, <1>4, <1>10, SMTT(20)
  <2> QED
    BY <1>8, <1>10, <2>1, <2>2, <2>3 DEF Shows
<1>12. OnScreen(Settle(d), w) /\ Stage2Settle(d) = Settle(d)
  BY <1>11, Settles
<1> QED
  BY <1>7, <1>12 DEF d

LEMMA ReturnShows ==
  ASSUME NEW s, NEW p, OnScreen(s, p)
  PROVE  /\ OnScreen(Settle(MovedTo(s, 0, s.y)), OnPage(p, CR))
         /\ Stage2Settle(MovedTo(s, 0, s.y)) = Settle(MovedTo(s, 0, s.y))
<1>1. PICK top \in Nat : Settled(s, p, top)
  BY DEF OnScreen
<1> DEFINE d == MovedTo(s, 0, s.y)
           w == [text |-> p.text, pos |-> Row(top + s.y)]
<1>2. Width \in Nat \ {0} /\ Height \in Nat \ {0}
  BY ScreenAssumption
<1>3. /\ s.cell = Window(p, top)
      /\ s.x \in 0 .. (Width - 1) /\ s.y \in 0 .. (Height - 1)
      /\ APage(p)
      /\ p.pos = Row(top + s.y) + s.x
      /\ Len(p.text) <= Row(top + s.y + 1) /\ Len(p.text) <= Row(top + Height)
      /\ top = 0 \/ s.y >= Height - 1
  <2>1. s = [cell |-> Window(p, top), x |-> s.x, y |-> s.y]
    BY <1>1 DEF Settled, Shows
  <2>2. s.cell = Window(p, top)
    BY <2>1
  <2> QED
    BY <1>1, <1>2, <2>2 DEF Settled, Shows
<1>4. top + s.y \in Nat /\ Row(top + s.y) \in Nat
  <2>1. top + s.y \in Nat
    BY <1>2, <1>3
  <2> QED
    BY <2>1, RowFacts
<1>5. p.pos % Width = s.x
  BY <1>3, <1>4, PlaceInRow
<1>6. OnPage(p, CR) = w
  <2>1. p.pos - (p.pos % Width) = Row(top + s.y)
    BY <1>2, <1>3, <1>4, <1>5
  <2> QED
    BY <2>1 DEF OnPage, CR, LF, TAB
<1>7. w.text = p.text /\ w.pos = Row(top + s.y) /\ w = [text |-> w.text, pos |-> w.pos]
  OBVIOUS
<1> HIDE DEF w
<1>8. APage(w)
  <2>1. Len(p.text) \in Nat
    BY <1>3, LenProperties DEF APage
  <2>2. Row(top + s.y) \in 0 .. Len(p.text)
    BY <1>2, <1>3, <1>4, <2>1, SMTT(20) DEF APage
  <2> QED
    BY <1>3, <1>7, <2>2 DEF APage
<1>9. Window(p, top) = Window(w, top)
  BY <1>7 DEF Window, Letter
<1>10. /\ d = [cell |-> Window(w, top), x |-> d.x, y |-> d.y]
       /\ d.x = 0 /\ d.y = s.y
  BY <1>3, <1>9 DEF MovedTo
<1> HIDE DEF d
<1>11. Shows(d, w, top)
  <2>1. w.pos = Row(top + d.y) + d.x
    BY <1>4, <1>7, <1>10
  <2>2. d.x \in 0 .. Width /\ d.y \in 0 .. Height /\ (top = 0 \/ d.y >= Height - 1)
    BY <1>2, <1>3, <1>10
  <2> QED
    BY <1>3, <1>7, <1>8, <1>10, <2>1, <2>2 DEF Shows
<1>12. OnScreen(Settle(d), w) /\ Stage2Settle(d) = Settle(d)
  BY <1>11, Settles
<1> QED
  BY <1>6, <1>12 DEF d

(* A column is the place on the page, as far as a tab can tell.              *)
LEMMA SameColumn ==
  ASSUME NEW s, NEW p, OnScreen(s, p)
  PROVE  s.x \in Nat /\ p.pos \in Nat /\ s.x % 4 = p.pos % 4
<1>1. PICK top \in Nat : Settled(s, p, top)
  BY DEF OnScreen
<1>2. Width \in Nat \ {0} /\ Height \in Nat \ {0}
  BY ScreenAssumption
<1>3. s.x \in 0 .. Width /\ s.y \in 0 .. Height /\ p.pos = Row(top + s.y) + s.x
  BY <1>1 DEF Settled, Shows
<1>4. s.x \in Nat /\ top + s.y \in Nat
  BY <1>2, <1>3
<1>5. Row(top + s.y) \in Nat
  BY <1>4, RowFacts
<1>6. (Row(top + s.y) + s.x) % 4 = s.x % 4
  BY <1>4, ColumnOfFour
<1> QED
  BY <1>3, <1>4, <1>5, <1>6

LEMMA IndentShows ==
  ASSUME NEW s, NEW p, OnScreen(s, p), NEW j \in 0 .. 3
  PROVE  /\ Indent(s, j) = IF j < 4 - (p.pos % 4) THEN Glyph(s, " ") ELSE s
         /\ Stage2Indent(s, j) = Indent(s, j)
<1>1. s.x % 4 = p.pos % 4
  BY SameColumn
<1>2. Stage2Glyph(s, " ") = Glyph(s, " ")
  BY GlyphShows
<1> QED
  BY <1>1, <1>2 DEF Indent, Stage2Indent

LEMMA TabShows ==
  ASSUME NEW s, NEW p, OnScreen(s, p)
  PROVE  /\ OnScreen(Settle(Tab(s)), OnPage(p, TAB))
         /\ Stage2Settle(Stage2Tab(s)) = Settle(Tab(s))
<1> DEFINE G(r) == Glyph(r, " ")
           W(q) == Written(q, " ")
           k == p.pos % 4
<1>1. /\ OnScreen(G(s), W(p)) /\ OnScreen(G(G(s)), W(W(p)))
      /\ OnScreen(G(G(G(s))), W(W(W(p))))
  BY GlyphShows
<1>0. p.pos \in Nat
  BY SameColumn
<1>2. W(p).pos = p.pos + 1 /\ W(W(p)).pos = p.pos + 2 /\ W(W(W(p))).pos = p.pos + 3
  <2>1. /\ W(p).pos = p.pos + 1 /\ W(W(p)).pos = W(p).pos + 1
        /\ W(W(W(p))).pos = W(W(p)).pos + 1
    <3>1. APage(p) /\ APage(W(p)) /\ APage(W(W(p)))
      BY <1>1 DEF OnScreen, Settled, Shows
    <3> QED
      BY <3>1, WrittenPage
  <2> HIDE DEF W
  <2>2. W(W(p)).pos = (p.pos + 1) + 1
    BY <2>1
  <2>3. W(W(W(p))).pos = ((p.pos + 1) + 1) + 1
    BY <2>1, <2>2
  <2> QED
    BY <1>0, <2>1, <2>2, <2>3
<1>3. \A j \in 0 .. 3 :
        /\ Indent(s, j) = IF j < 4 - (p.pos % 4) THEN G(s) ELSE s
        /\ Indent(G(s), j) = IF j < 4 - ((p.pos + 1) % 4) THEN G(G(s)) ELSE G(s)
        /\ Indent(G(G(s)), j) = IF j < 4 - ((p.pos + 2) % 4) THEN G(G(G(s))) ELSE G(G(s))
        /\ Indent(G(G(G(s))), j) = IF j < 4 - ((p.pos + 3) % 4) THEN G(G(G(G(s)))) ELSE G(G(G(s)))
        /\ Stage2Indent(s, j) = Indent(s, j)
        /\ Stage2Indent(G(s), j) = Indent(G(s), j)
        /\ Stage2Indent(G(G(s)), j) = Indent(G(G(s)), j)
        /\ Stage2Indent(G(G(G(s))), j) = Indent(G(G(G(s))), j)
  BY <1>1, <1>2, IndentShows
<1>4. /\ OnPage(p, TAB) = <<W(W(p)), W(W(p)), W(p), W(W(W(p)))>>[1 + k]
  BY DEF OnPage, LF, CR, TAB
<1>5. k \in 0 .. 3
  BY <1>0
<1> HIDE DEF G, W
<1>6. CASE k = 0
  <2>1. (p.pos + 1) % 4 = 1 /\ (p.pos + 2) % 4 = 2
    BY <1>0, <1>6
  <2>2. Tab(s) = G(G(s)) /\ Stage2Tab(s) = Tab(s)
    BY <1>3, <1>6, <2>1 DEF Tab, Stage2Tab
  <2>3. OnPage(p, TAB) = W(W(p))
    BY <1>4, <1>6
  <2>4. OnScreen(Tab(s), OnPage(p, TAB))
    BY <1>1, <2>2, <2>3
  <2> QED
    BY <2>2, <2>4, SettledStays, Settles DEF OnScreen, Settled
<1>7. CASE k = 1
  <2>1. (p.pos + 1) % 4 = 2 /\ (p.pos + 2) % 4 = 3
    BY <1>0, <1>7
  <2>2. Tab(s) = G(G(s)) /\ Stage2Tab(s) = Tab(s)
    BY <1>3, <1>7, <2>1 DEF Tab, Stage2Tab
  <2>3. OnPage(p, TAB) = W(W(p))
    BY <1>4, <1>7
  <2>4. OnScreen(Tab(s), OnPage(p, TAB))
    BY <1>1, <2>2, <2>3
  <2> QED
    BY <2>2, <2>4, SettledStays, Settles DEF OnScreen, Settled
<1>8. CASE k = 2
  <2>1. (p.pos + 1) % 4 = 3
    BY <1>0, <1>8
  <2>2. Tab(s) = G(s) /\ Stage2Tab(s) = Tab(s)
    BY <1>3, <1>8, <2>1 DEF Tab, Stage2Tab
  <2>3. OnPage(p, TAB) = W(p)
    BY <1>4, <1>8
  <2>4. OnScreen(Tab(s), OnPage(p, TAB))
    BY <1>1, <2>2, <2>3
  <2> QED
    BY <2>2, <2>4, SettledStays, Settles DEF OnScreen, Settled
<1>9. CASE k = 3
  <2>1. (p.pos + 1) % 4 = 0 /\ (p.pos + 2) % 4 = 1 /\ (p.pos + 3) % 4 = 2
    BY <1>0, <1>9
  <2>2. Tab(s) = G(G(G(s))) /\ Stage2Tab(s) = Tab(s)
    BY <1>3, <1>9, <2>1 DEF Tab, Stage2Tab
  <2>3. OnPage(p, TAB) = W(W(W(p)))
    BY <1>4, <1>9
  <2>4. OnScreen(Tab(s), OnPage(p, TAB))
    BY <1>1, <2>2, <2>3
  <2> QED
    BY <2>2, <2>4, SettledStays, Settles DEF OnScreen, Settled
<1> QED
  BY <1>5, <1>6, <1>7, <1>8, <1>9

(* A call of put_c, in the kernel or in stage 2. *)
LEMMA PutCShows ==
  ASSUME NEW s, NEW p, OnScreen(s, p), NEW c
  PROVE  /\ OnScreen(PutC(s, c), OnPage(p, c))
         /\ Stage2PutC(s, c) = PutC(s, c)
<1>1. CASE c = LF
  BY <1>1, NewlineShows DEF PutC, Stage2PutC, LF, CR, TAB
<1>2. CASE c = CR
  BY <1>2, ReturnShows DEF PutC, Stage2PutC, LF, CR, TAB
<1>3. CASE c = TAB
  BY <1>3, TabShows DEF PutC, Stage2PutC, LF, CR, TAB
<1>4. CASE c \notin {LF, CR, TAB}
  BY <1>4, GlyphShows DEF PutC, Stage2PutC, OnPage
<1> QED
  BY <1>1, <1>2, <1>3, <1>4
-----------------------------------------------------------------------------
(* What keys come to. *)

(* f is the line after each of the first n keys. *)
EditSteps(f, keys, n) == f = [k \in 0 .. n |-> IF k = 0 THEN <<>> ELSE Edit(f[k - 1], keys[k])]

LEMMA EditStepsExist ==
  ASSUME NEW keys, NEW n \in Nat
  PROVE  \E f : EditSteps(f, keys, n)
<1> DEFINE Missing == {m \in Nat : ~ \E f : EditSteps(f, keys, m)}
<1>1. SUFFICES ASSUME n \in Missing PROVE FALSE
  OBVIOUS
<1>2. PICK m \in Missing : \A k \in Nat : k < m => k \notin Missing
  BY <1>1, LeastInNat
<1>3. m # 0
  <2>1. SUFFICES ASSUME m = 0 PROVE FALSE
    OBVIOUS
  <2> DEFINE f == [k \in 0 .. 0 |-> <<>>]
  <2>2. f = [k \in 0 .. 0 |-> IF k = 0 THEN <<>> ELSE Edit(f[k - 1], keys[k])]
    OBVIOUS
  <2> HIDE DEF f
  <2>3. EditSteps(f, keys, 0)
    BY <2>2 DEF EditSteps
  <2> QED
    BY <1>2, <2>1, <2>3
<1>4. m \in Nat /\ m - 1 \in Nat /\ m - 1 < m
  BY <1>2, <1>3
<1>5. PICK f : EditSteps(f, keys, m - 1)
  BY <1>2, <1>4
<1> DEFINE g == [k \in 0 .. m |-> IF k < m THEN f[k] ELSE Edit(f[m - 1], keys[m])]
           h == [k \in 0 .. m |-> IF k = 0 THEN <<>> ELSE Edit(g[k - 1], keys[k])]
<1>6. ASSUME NEW k \in 0 .. m PROVE g[k] = IF k = 0 THEN <<>> ELSE Edit(g[k - 1], keys[k])
  <2>1. CASE k = 0
    <3>1. g[k] = f[0] /\ 0 \in 0 .. (m - 1)
      BY <1>4, <2>1
    <3> HIDE DEF g
    <3>2. f[0] = <<>>
      BY <1>5, <3>1 DEF EditSteps
    <3> QED
      BY <2>1, <3>1, <3>2
  <2>2. CASE k # 0 /\ k < m
    <3>1. k \in 0 .. (m - 1) /\ k - 1 \in 0 .. m /\ k - 1 < m
      BY <1>4, <2>2
    <3>2. g[k] = f[k] /\ g[k - 1] = f[k - 1]
      BY <2>2, <3>1
    <3> HIDE DEF g
    <3>3. f[k] = Edit(f[k - 1], keys[k])
      BY <1>5, <2>2, <3>1 DEF EditSteps
    <3> QED
      BY <2>2, <3>2, <3>3
  <2>3. CASE k = m
    <3>1. m - 1 \in 0 .. m
      BY <1>4
    <3>2. g[k] = Edit(f[m - 1], keys[m]) /\ g[m - 1] = f[m - 1]
      BY <1>4, <2>3, <3>1
    <3> HIDE DEF g
    <3> QED
      BY <1>3, <2>3, <3>2
  <2> QED
    BY <1>4, <2>1, <2>2, <2>3
<1>7. g = h
  <2>1. h = [k \in 0 .. m |-> g[k]]
    <3> HIDE DEF g
    <3> QED BY <1>6
  <2> QED
    BY <2>1
<1>8. EditSteps(g, keys, m)
  <2> HIDE DEF g
  <2> QED BY <1>7 DEF EditSteps
<1> QED
  BY <1>2, <1>8

(* The line after a key depends on the keys up to it. *)
LEMMA EditStepsAgree ==
  ASSUME NEW keys, NEW more, NEW n \in Nat, NEW m \in Nat, n <= m,
         \A k \in 1 .. n : more[k] = keys[k],
         NEW f, EditSteps(f, keys, n), NEW g, EditSteps(g, more, m)
  PROVE  f[n] = g[n]
<1> DEFINE Differ == {k \in Nat : k <= n /\ f[k] # g[k]}
<1>1. SUFFICES ASSUME n \in Differ PROVE FALSE
  OBVIOUS
<1>2. PICK k \in Differ : \A j \in Nat : j < k => j \notin Differ
  BY <1>1, LeastInNat
<1>3. k \in 0 .. n /\ k \in 0 .. m /\ f[k] # g[k]
  BY <1>2
<1>4. /\ f[k] = IF k = 0 THEN <<>> ELSE Edit(f[k - 1], keys[k])
      /\ g[k] = IF k = 0 THEN <<>> ELSE Edit(g[k - 1], more[k])
  BY <1>3 DEF EditSteps
<1>5. k # 0
  BY <1>3, <1>4
<1>6. k - 1 \in Nat /\ k - 1 < k /\ k - 1 <= n /\ k \in 1 .. n
  BY <1>3, <1>5
<1>7. f[k - 1] = g[k - 1]
  BY <1>2, <1>6
<1> QED
  BY <1>3, <1>4, <1>5, <1>6, <1>7

LEMMA EditedSteps ==
  ASSUME NEW keys, Len(keys) \in Nat
  PROVE  \E f : EditSteps(f, keys, Len(keys)) /\ Edited(keys) = f[Len(keys)]
<1> DEFINE f == CHOOSE g : EditSteps(g, keys, Len(keys))
<1>1. EditSteps(f, keys, Len(keys))
  BY EditStepsExist
<1>2. Edited(keys) = f[Len(keys)]
  BY DEF Edited, EditSteps
<1> QED
  BY <1>1, <1>2

LEMMA EditedEmpty == Edited(<<>>) = <<>>
<1>1. Len(<<>>) = 0
  BY EmptySeq
<1>2. PICK f : EditSteps(f, <<>>, 0) /\ Edited(<<>>) = f[0]
  BY <1>1, EditedSteps
<1>3. 0 \in 0 .. 0
  OBVIOUS
<1> QED
  BY <1>2, <1>3 DEF EditSteps

LEMMA EditedAppend ==
  ASSUME NEW keys \in Seq(Keys), NEW c \in Keys
  PROVE  Edited(Append(keys, c)) = Edit(Edited(keys), c)
<1> DEFINE n == Len(keys)
           more == Append(keys, c)
<1>1. n \in Nat /\ Len(more) = n + 1 /\ more[n + 1] = c /\ \A k \in 1 .. n : more[k] = keys[k]
  BY AppendProperties, LenProperties
<1> HIDE DEF n, more
<1>2. PICK f : EditSteps(f, keys, n) /\ Edited(keys) = f[n]
  BY <1>1, EditedSteps DEF n
<1>3. PICK g : EditSteps(g, more, n + 1) /\ Edited(more) = g[n + 1]
  BY <1>1, EditedSteps
<1>4. f[n] = g[n]
  BY <1>1, <1>2, <1>3, EditStepsAgree, SMTT(30)
<1>5. n + 1 \in 0 .. (n + 1) /\ n + 1 # 0 /\ (n + 1) - 1 = n
  BY <1>1
<1>6. g[n + 1] = Edit(g[n], more[n + 1])
  BY <1>3, <1>5 DEF EditSteps
<1> QED
  BY <1>1, <1>2, <1>3, <1>4, <1>6 DEF more

(* The first k characters of the buffer. *)
Typed(b, k) == [j \in 1 .. k |-> b[j]]

Letters == Keys \union {"junk", NUL}

LEMMA TypedGrows ==
  ASSUME NEW b \in [1 .. BufSize -> Letters], NEW k \in 0 .. (BufSize - 2), NEW c \in Keys
  PROVE  Append(Typed(b, k), c) = Typed([b EXCEPT ![k + 1] = c], k + 1)
<1> DEFINE s == Typed(b, k)
           t == Typed([b EXCEPT ![k + 1] = c], k + 1)
           a == Append(s, c)
<1>1. BufSize \in Nat \ {0, 1} /\ k \in Nat /\ k + 1 \in 1 .. BufSize
  BY ShellAssumption
<1>2. c \in Letters
  BY DEF Letters
<1>3. s \in [1 .. k -> Letters]
  BY <1>1 DEF Typed
<1>4. s \in Seq(Letters) /\ Len(s) = k
  <2>1. s \in Seq(Letters)
    BY <1>1, <1>3, SeqDef
  <2> QED
    BY <1>1, <1>3, <2>1, LenProperties
<1>5. /\ a \in Seq(Letters) /\ Len(a) = k + 1
      /\ \A j \in 1 .. k : a[j] = s[j]
      /\ a[k + 1] = c
  <2> HIDE DEF s
  <2> QED BY <1>2, <1>4, AppendProperties
<1>6. t \in [1 .. (k + 1) -> Letters] /\ \A j \in 1 .. (k + 1) : t[j] = IF j = k + 1 THEN c ELSE b[j]
  BY <1>1, <1>2 DEF Typed
<1>7. t \in Seq(Letters) /\ Len(t) = k + 1
  <2> HIDE DEF t
  <2>1. t \in Seq(Letters)
    BY <1>1, <1>6, SeqDef
  <2> QED
    BY <1>1, <1>6, <2>1, LenProperties
<1>8. \A j \in 1 .. k : s[j] = b[j]
  BY DEF Typed
<1> HIDE DEF a, t, s
<1>9. \A j \in 1 .. (k + 1) : a[j] = t[j]
  <2> TAKE j \in 1 .. (k + 1)
  <2>1. CASE j = k + 1
    BY <1>5, <1>6, <2>1
  <2>2. CASE j # k + 1
    <3>1. j \in 1 .. k
      BY <1>1, <2>2
    <3> QED
      BY <1>5, <1>6, <1>8, <2>2, <3>1
  <2> QED
    BY <2>1, <2>2
<1>10. a = t
  BY <1>5, <1>7, <1>9, SeqEqual
<1> QED
  BY <1>10 DEF a, s, t

LEMMA TypedShrinks ==
  ASSUME NEW b \in [1 .. BufSize -> Letters], NEW k \in 1 .. BufSize
  PROVE  Typed(b, k) # <<>> /\ Front(Typed(b, k)) = Typed(b, k - 1)
<1> DEFINE s == Typed(b, k)
           t == Typed(b, k - 1)
<1>1. BufSize \in Nat \ {0, 1} /\ k \in Nat /\ k - 1 \in Nat
  BY ShellAssumption
<1>2. s \in [1 .. k -> Letters] /\ t \in [1 .. (k - 1) -> Letters]
  BY <1>1 DEF Typed
<1>3. /\ s \in Seq(Letters) /\ Len(s) = k
      /\ t \in Seq(Letters) /\ Len(t) = k - 1
  <2> HIDE DEF s, t
  <2>1. s \in Seq(Letters) /\ t \in Seq(Letters)
    BY <1>1, <1>2, SeqDef
  <2> QED
    BY <1>1, <1>2, <2>1, LenProperties
<1>4. \A j \in 1 .. (k - 1) : s[j] = t[j]
  BY <1>1 DEF Typed
<1> HIDE DEF s, t
<1>5. s # <<>>
  <2>1. Len(<<>>) = 0
    BY EmptySeq
  <2> QED
    BY <1>1, <1>3, <2>1
<1> DEFINE r == SubSeq(s, 1, k - 1)
<1>6. r \in Seq(Letters) /\ Len(r) = k - 1 /\ \A j \in 1 .. (k - 1) : r[j] = s[j]
  <2>1. \A j \in 1 .. (k - 1) : s[j] \in Letters
    BY <1>1, <1>2
  <2>2. /\ r \in Seq(Letters)
        /\ Len(r) = IF 1 <= k - 1 THEN (k - 1) - 1 + 1 ELSE 0
        /\ \A j \in 1 .. (k - 1) - 1 + 1 : r[j] = s[1 + j - 1]
    BY <1>1, <2>1, SubSeqProperties
  <2> HIDE DEF r
  <2> QED
    BY <1>1, <2>2
<1> HIDE DEF r
<1>7. r = t
  BY <1>3, <1>4, <1>6, SeqEqual
<1>8. Front(s) = r
  BY <1>3 DEF Front, r
<1> QED
  BY <1>5, <1>7, <1>8 DEF s, t

(* The string in a buffer ends in front of the first NUL. *)
LEMMA LineIsTyped ==
  ASSUME buf \in [1 .. BufSize -> Letters], NEW k \in 0 .. (BufSize - 1),
         buf[k + 1] = NUL, \A j \in 1 .. k : buf[j] # NUL
  PROVE  Line = Typed(buf, k)
<1> DEFINE ends == {j \in 1 .. BufSize : buf[j] = NUL}
           r == SubSeq(buf, 1, k)
           t == Typed(buf, k)
<1>1. BufSize \in Nat \ {0, 1} /\ k \in Nat /\ k + 1 \in 1 .. BufSize
  BY ShellAssumption
<1>2. k + 1 \in ends /\ \A j \in ends : k + 1 <= j
  BY <1>1
<1>3. Min(ends) = k + 1
  <2>1. \A j \in ends : j \in Nat
    BY <1>1
  <2> HIDE DEF ends
  <2>2. /\ Min(ends) \in ends /\ \A j \in ends : Min(ends) <= j
    BY <1>2 DEF Min
  <2> QED
    BY <1>1, <1>2, <2>1, <2>2
<1>4. Line = r
  <2>1. ends # {} /\ Min(ends) - 1 = k
    BY <1>1, <1>2, <1>3
  <2> QED
    BY <2>1 DEF Line
<1>5. \A j \in 1 .. k : buf[j] \in Letters
  BY <1>1
<1>6. r \in Seq(Letters) /\ Len(r) = k /\ \A j \in 1 .. k : r[j] = buf[j]
  <2>1. /\ r \in Seq(Letters)
        /\ Len(r) = IF 1 <= k THEN k - 1 + 1 ELSE 0
        /\ \A j \in 1 .. k - 1 + 1 : r[j] = buf[1 + j - 1]
    BY <1>1, <1>5, SubSeqProperties
  <2> HIDE DEF r
  <2> QED
    BY <1>1, <2>1
<1>7. t \in [1 .. k -> Letters] /\ \A j \in 1 .. k : t[j] = buf[j]
  BY <1>1, <1>5 DEF Typed
<1>8. t \in Seq(Letters) /\ Len(t) = k
  <2> HIDE DEF t
  <2>1. t \in Seq(Letters)
    BY <1>1, <1>7, SeqDef
  <2> QED
    BY <1>1, <1>7, <2>1, LenProperties
<1> HIDE DEF r, t
<1>9. r = t
  BY <1>6, <1>7, <1>8, SeqEqual
<1> QED
  BY <1>4, <1>9 DEF t

-----------------------------------------------------------------------------
(* The inductive invariant. *)

Places == {"stage2", "kernel", "idle", "prompt", "key", "line"}

(* What readline has in its buffer is what the keys of this line come to.    *)
LineInv ==
  /\ typed \in Seq(Keys)
  /\ buf \in [1 .. BufSize -> Letters]
  /\ i \in 0 .. (BufSize - 1)
  /\ at \in {"key", "line"} => Edited(typed) = Typed(buf, i) /\ \A j \in 1 .. i : buf[j] # NUL
  /\ at = "line" => buf[i + 1] = NUL

(* The first k characters of the buffer are the last k in front of the cursor *)
(* of the page.                                                            *)
EchoedTo(k) == \A j \in 1 .. k : page.pos - k + j >= 1 /\ page.text[page.pos - k + j] = buf[j]

NothingErased == \A j \in DOMAIN typed : typed[j] \notin Erase

(* The line is on the page, except for a character that is being written.    *)
EchoInv ==
  at = "key" /\ NothingErased =>
    \/ i = 0
    \/ out = <<>> /\ EchoedTo(i)
    \/ out = <<buf[i]>> /\ buf[i] \notin {LF, CR, TAB} /\ EchoedTo(i - 1)

Inv ==
  /\ at \in Places
  /\ OnScreen(screen, page)
  /\ prompt \in 0 .. (Power(2, WordBits) - 1) /\ presses \in 0 .. MaxKeys
  /\ LineInv
  /\ EchoInv

(* A cleared screen shows an empty page. *)
LEMMA ClearedShows == OnScreen(Clrscr, EmptyPage)
<1> DEFINE s == Clrscr
<1>1. EmptyPage.text = <<>> /\ EmptyPage.pos = 0 /\ Len(<<>>) = 0
  BY EmptySeq DEF EmptyPage
<1>2. \A n \in Nat : Letter(EmptyPage, n) = Blank
  BY <1>1 DEF Letter
<1>3. Width \in Nat \ {0} /\ Height \in Nat \ {0}
  BY ScreenAssumption
<1>4. Row(0) = 0 /\ Row(1) = Width /\ Row(Height) \in Nat
  BY <1>3, RowFacts DEF Row
<1>5. Window(EmptyPage, 0) = [q \in Cells |-> Blank]
  <2>1. ASSUME NEW q \in Cells PROVE Row(0) + q \in Nat
    BY <1>4, <2>1, CellsAreRows
  <2> QED
    BY <1>2, <2>1 DEF Window
<1>6. s = [cell |-> Window(EmptyPage, 0), x |-> 0, y |-> 0]
  BY <1>5 DEF Clrscr
<1>7. s = [cell |-> Window(EmptyPage, 0), x |-> s.x, y |-> s.y] /\ s.x = 0 /\ s.y = 0
  BY <1>6
<1> HIDE DEF s
<1>8. Settled(s, EmptyPage, 0)
  BY <1>1, <1>3, <1>4, <1>7, EmptyPageIsAPage DEF Settled, Shows
<1> QED
  BY <1>8 DEF OnScreen, s

LEMMA WordsAreMany == Power(2, WordBits) \in Nat \ {0, 1}
<1>1. WordBits - 1 \in Nat /\ WordBits - 1 + 1 = WordBits /\ 2 \in Nat
  BY PrintfAssumption
<1>2. Power(2, WordBits - 1) \in Nat \ {0}
  BY <1>1, PowerPositive
<1>3. Power(2, WordBits - 1 + 1) = 2 * Power(2, WordBits - 1)
  BY <1>1, PowerNext
<1> QED
  BY <1>1, <1>2, <1>3

LEMMA InitInv == Init => Inv
<1> SUFFICES ASSUME Init PROVE Inv
  OBVIOUS
<1> USE DEF Init, ShellInit
<1>1. at = "stage2" /\ at \in Places
  BY DEF Places
<1>2. OnScreen(screen, page)
  BY ClearedShows DEF Clrscr, Stage2Clrscr
<1>3. prompt \in 0 .. (Power(2, WordBits) - 1) /\ presses \in 0 .. MaxKeys
  BY WordsAreMany, ShellAssumption
<1>4. LineInv
  <2>1. typed \in Seq(Keys)
    BY EmptySeq
  <2>2. buf \in [1 .. BufSize -> Letters] /\ i \in 0 .. (BufSize - 1)
    BY ShellAssumption DEF Letters
  <2> QED
    BY <1>1, <2>1, <2>2 DEF LineInv
<1>5. EchoInv
  BY <1>1 DEF EchoInv
<1> QED
  BY <1>1, <1>2, <1>3, <1>4, <1>5 DEF Inv

(* A glyph goes behind what is echoed. *)
LEMMA EchoGrows ==
  ASSUME APage(page), i \in Nat \ {0}, EchoedTo(i - 1),
         page' = Written(page, buf[i]), UNCHANGED <<buf, i>>
  PROVE  EchoedTo(i)'
<1>1. Len(page.text) \in Nat /\ page.pos \in 0 .. Len(page.text)
  BY LenProperties DEF APage
<1>2. /\ page'.pos = page.pos + 1
      /\ Len(page'.text) = IF page.pos < Len(page.text) THEN Len(page.text) ELSE page.pos + 1
      /\ \A n \in Nat : Letter(page', n) = IF n = page.pos THEN buf[i] ELSE Letter(page, n)
  BY WrittenPage
<1>3. page'.text[page.pos + 1] = buf[i]
  <2>1. Letter(page', page.pos) = buf[i] /\ page.pos + 1 \in 1 .. Len(page'.text)
    BY <1>1, <1>2
  <2> QED
    BY <2>1 DEF Letter
<1>4. ASSUME NEW k \in 1 .. page.pos PROVE page'.text[k] = page.text[k]
  <2>1. k - 1 \in Nat /\ k - 1 # page.pos /\ (k - 1) + 1 = k
    BY <1>1, <1>4
  <2>2. k \in 1 .. Len(page.text) /\ k \in 1 .. Len(page'.text)
    BY <1>1, <1>2, <1>4
  <2>3. Letter(page', k - 1) = Letter(page, k - 1)
    BY <1>2, <2>1
  <2> QED
    BY <2>1, <2>2, <2>3 DEF Letter
<1>5. ASSUME NEW j \in 1 .. i
      PROVE  page'.pos - i + j >= 1 /\ page'.text[page'.pos - i + j] = buf[j]
  <2>1. CASE j = i
    <3>1. page'.pos - i + j = page.pos + 1
      BY <1>1, <1>2, <2>1
    <3> QED
      BY <1>1, <1>3, <2>1, <3>1
  <2>2. CASE j # i
    <3>1. j \in 1 .. (i - 1)
      BY <1>5, <2>2
    <3>2. page'.pos - i + j = page.pos - (i - 1) + j
      BY <1>1, <1>2, <3>1
    <3>3. page.pos - (i - 1) + j >= 1 /\ page.text[page.pos - (i - 1) + j] = buf[j]
      BY <3>1 DEF EchoedTo
    <3>4. page.pos - (i - 1) + j \in 1 .. page.pos
      BY <1>1, <3>1, <3>3
    <3> QED
      BY <1>4, <3>2, <3>3, <3>4
  <2> QED
    BY <2>1, <2>2
<1> QED
  BY <1>5 DEF EchoedTo

(* One character, of whoever writes. *)
LEMMA SysPutcInv == Inv /\ SysPutc => Inv'
<1> SUFFICES ASSUME Inv, SysPutc PROVE Inv'
  OBVIOUS
<1> USE DEF SysPutc
<1>1. OnScreen(screen, page)'
  BY PutCShows DEF Inv
<1>2. LineInv'
  BY DEF Inv, LineInv
<1>3. EchoInv'
  <2>1. SUFFICES ASSUME at = "key", NothingErased, i # 0 PROVE (out = <<>> /\ EchoedTo(i))'
    BY DEF EchoInv, NothingErased
  <2>2. out = <<buf[i]>> /\ buf[i] \notin {LF, CR, TAB} /\ EchoedTo(i - 1)
    BY <2>1 DEF Inv, EchoInv
  <2>3. Head(out) = buf[i] /\ Tail(out) = <<>>
    BY <2>2
  <2>4. page' = Written(page, buf[i])
    BY <2>2, <2>3 DEF OnPage
  <2>5. APage(page)
    BY DEF Inv, OnScreen, Settled, Shows
  <2>6. i \in Nat \ {0}
    BY <2>1, ShellAssumption DEF Inv, LineInv
  <2>7. EchoedTo(i)'
    BY <2>2, <2>4, <2>5, <2>6, EchoGrows
  <2> QED
    BY <2>3, <2>7
<1> QED
  BY <1>1, <1>2, <1>3 DEF Inv

LEMMA Stage2PutcInv == Inv /\ Stage2Putc => Inv'
<1> SUFFICES ASSUME Inv, Stage2Putc PROVE Inv'
  OBVIOUS
<1> USE DEF Stage2Putc
<1>1. OnScreen(screen, page)'
  BY PutCShows DEF Inv
<1>2. LineInv'
  BY DEF Inv, LineInv
<1>3. EchoInv'
  BY DEF EchoInv
<1> QED
  BY <1>1, <1>2, <1>3 DEF Inv

LEMMA EnterKernelInv ==
  ASSUME NEW m \in KernelMessages
  PROVE  Inv /\ EnterKernel(m) => Inv'
<1> SUFFICES ASSUME Inv, EnterKernel(m) PROVE Inv'
  OBVIOUS
<1>1. at' \in {"kernel", "idle"} /\ screen' = Clrscr /\ page' = EmptyPage
      /\ UNCHANGED <<prompt, buf, i, presses, typed>>
  BY DEF EnterKernel
<1>2. OnScreen(screen, page)'
  BY <1>1, ClearedShows
<1>3. LineInv'
  BY <1>1 DEF Inv, LineInv
<1>4. EchoInv'
  BY <1>1 DEF EchoInv
<1>5. (at \in Places /\ prompt \in 0 .. (Power(2, WordBits) - 1) /\ presses \in 0 .. MaxKeys)'
  BY <1>1 DEF Inv, Places
<1> QED
  BY <1>2, <1>3, <1>4, <1>5 DEF Inv

LEMMA StartUserInv == Inv /\ StartUser => Inv'
<1> SUFFICES ASSUME Inv, StartUser PROVE Inv'
  OBVIOUS
<1> USE DEF StartUser
<1>1. OnScreen(screen, page)'
  BY DEF Inv
<1>2. LineInv'
  BY DEF Inv, LineInv
<1>3. EchoInv'
  BY DEF EchoInv
<1> QED
  BY <1>1, <1>2, <1>3 DEF Inv, Places

LEMMA PromptInv == Inv /\ Prompt => Inv'
<1> SUFFICES ASSUME Inv, Prompt PROVE Inv'
  OBVIOUS
<1>1. /\ at' = "key" /\ typed' = <<>> /\ i' = 0
      /\ prompt' = (prompt + 1) % Power(2, WordBits)
      /\ UNCHANGED <<screen, buf, presses, page>>
  BY DEF Prompt
<1>2. prompt' \in 0 .. (Power(2, WordBits) - 1)
  <2> DEFINE w == Power(2, WordBits)
  <2>1. w \in Nat \ {0, 1}
    BY WordsAreMany
  <2>2. prompt \in 0 .. (w - 1) /\ prompt' = (prompt + 1) % w
    BY <1>1 DEF Inv
  <2> HIDE DEF w
  <2>3. prompt' \in 0 .. (w - 1)
    BY <2>1, <2>2
  <2> QED
    BY <2>3 DEF w
<1>3. LineInv'
  <2>1. typed' \in Seq(Keys)
    BY <1>1, EmptySeq
  <2>2. (buf \in [1 .. BufSize -> Letters] /\ i \in 0 .. (BufSize - 1))'
    BY <1>1, ShellAssumption DEF Inv, LineInv
  <2>3. Typed(buf', 0) = <<>>
    BY DEF Typed
  <2>4. (Edited(typed) = Typed(buf, i) /\ \A j \in 1 .. i : buf[j] # NUL)'
    BY <1>1, <2>3, EditedEmpty
  <2> QED
    BY <1>1, <2>1, <2>2, <2>4 DEF LineInv
<1>4. EchoInv'
  BY <1>1 DEF EchoInv
<1>5. OnScreen(screen, page)'
  BY <1>1 DEF Inv
<1> QED
  BY <1>1, <1>2, <1>3, <1>4, <1>5 DEF Inv, Places

(* One key, of the four kinds readline tells apart. *)
LEMMA ReadlineInv ==
  ASSUME NEW c \in Keys
  PROVE  Inv /\ Readline(c) => Inv'
<1> SUFFICES ASSUME Inv, Readline(c) PROVE Inv'
  OBVIOUS
<1>1. /\ at = "key" /\ out = <<>>
      /\ presses' \in 0 .. MaxKeys
      /\ typed' = Append(typed, c)
      /\ UNCHANGED <<screen, prompt, page>>
  BY ShellAssumption DEF Readline, Inv
<1>2. /\ typed \in Seq(Keys) /\ buf \in [1 .. BufSize -> Letters] /\ i \in 0 .. (BufSize - 1)
      /\ Edited(typed) = Typed(buf, i) /\ \A j \in 1 .. i : buf[j] # NUL
  BY <1>1 DEF Inv, LineInv
<1>3. BufSize \in Nat \ {0, 1}
  BY ShellAssumption
<1>4. /\ typed' \in Seq(Keys)
      /\ Len(typed') = Len(typed) + 1 /\ typed'[Len(typed) + 1] = c
      /\ \A j \in 1 .. Len(typed) : typed'[j] = typed[j]
      /\ Len(typed) \in Nat /\ DOMAIN typed = 1 .. Len(typed) /\ DOMAIN typed' = 1 .. (Len(typed) + 1)
  BY <1>1, <1>2, AppendProperties, LenProperties
<1>5. Edited(typed)' = Edit(Typed(buf, i), c)
  <2>1. Edited(Append(typed, c)) = Edit(Edited(typed), c)
    BY <1>2, EditedAppend
  <2> QED
    BY <1>1, <1>2, <2>1
<1>6. NothingErased' => NothingErased /\ c \notin Erase
  BY <1>4 DEF NothingErased
<1>7. Len(Typed(buf, i)) = i
  <2>1. Typed(buf, i) \in [1 .. i -> Letters] /\ i \in Nat
    BY <1>2, <1>3 DEF Typed
  <2>2. Typed(buf, i) \in Seq(Letters)
    BY <2>1, SeqDef
  <2> QED
    BY <2>1, <2>2, LenProperties
<1>8. /\ OnScreen(screen, page)'
      /\ prompt' \in 0 .. (Power(2, WordBits) - 1)
  BY <1>1 DEF Inv
<1>9. CASE c \in Enter /\ EnterKey
  <2>1. at' = "line" /\ buf' = [buf EXCEPT ![i + 1] = NUL] /\ i' = i
    BY <1>9 DEF EnterKey
  <2>2. c \notin Erase /\ c \in Control \union Enter
    BY <1>9 DEF Enter, Erase, CR, LF
  <2>3. Edited(typed)' = Typed(buf, i)
    BY <1>5, <2>2 DEF Edit
  <2>4. i + 1 \in 1 .. BufSize /\ i \in Nat
    BY <1>2, <1>3
  <2>5. buf' \in [1 .. BufSize -> Letters] /\ buf'[i + 1] = NUL /\ \A j \in 1 .. i : buf'[j] = buf[j]
    BY <1>2, <1>3, <2>1, <2>4 DEF Letters
  <2>6. Typed(buf', i') = Typed(buf, i)
    BY <2>1, <2>5 DEF Typed
  <2>7. LineInv'
    <3>1. Edited(typed') = Typed(buf', i')
      BY <2>3, <2>6
    <3> QED
      BY <1>2, <1>4, <2>1, <2>5, <3>1 DEF LineInv
  <2>8. EchoInv'
    BY <2>1 DEF EchoInv
  <2> QED
    BY <1>1, <1>8, <2>1, <2>7, <2>8 DEF Inv, Places
<1>10. CASE c \in Erase /\ EraseKey
  <2>1. at' = at /\ buf' = buf /\ i' = IF i > 0 THEN i - 1 ELSE i
    BY <1>10 DEF EraseKey
  <2>2. Edited(typed)' = Typed(buf, i')
    <3>1. CASE i = 0
      <4>1. Typed(buf, 0) = <<>>
        BY DEF Typed
      <4> QED
        BY <1>5, <1>10, <2>1, <3>1, <4>1 DEF Edit
    <3>2. CASE i # 0
      <4>1. i \in 1 .. BufSize /\ i > 0
        BY <1>2, <1>3, <3>2
      <4>2. Typed(buf, i) # <<>> /\ Front(Typed(buf, i)) = Typed(buf, i - 1)
        BY <1>2, <4>1, TypedShrinks
      <4> QED
        BY <1>5, <1>10, <2>1, <4>1, <4>2 DEF Edit
    <3> QED
      BY <3>1, <3>2
  <2>3. i' \in 0 .. (BufSize - 1) /\ \A j \in 1 .. i' : buf[j] # NUL
    BY <1>2, <1>3, <2>1
  <2>4. LineInv'
    <3>1. Edited(typed') = Typed(buf', i')
      BY <2>1, <2>2
    <3> QED
      BY <1>1, <1>2, <1>4, <2>1, <2>3, <3>1 DEF LineInv
  <2>5. EchoInv'
    BY <1>6, <1>10 DEF EchoInv
  <2> QED
    BY <1>1, <1>8, <2>1, <2>4, <2>5 DEF Inv, Places
<1>11. CASE c \in Control \ Enter /\ UNCHANGED <<at, out, buf, i>>
  <2>1. Edited(typed)' = Typed(buf, i)
    <3>1. c \notin Erase
      BY <1>11 DEF Control, Erase, NUL, TAB
    <3> QED
      BY <1>5, <1>11, <3>1 DEF Edit
  <2>2. LineInv'
    <3>1. Edited(typed') = Typed(buf', i')
      BY <1>11, <2>1
    <3> QED
      BY <1>1, <1>2, <1>4, <1>11, <3>1 DEF LineInv
  <2>3. EchoInv'
    BY <1>1, <1>6, <1>11 DEF EchoInv, Inv, EchoedTo
  <2> QED
    BY <1>1, <1>8, <1>11, <2>2, <2>3 DEF Inv
<1>12. CASE c \notin Enter \union Erase \union Control /\ GlyphKey(c)
  <2>1. at' = at /\ c \notin {LF, CR, TAB, NUL}
    BY <1>12 DEF GlyphKey, Enter, Control
  <2>2. CASE i < BufSize - 1
    <3>1. buf' = [buf EXCEPT ![i + 1] = c] /\ i' = i + 1 /\ out' = <<c>>
      BY <1>12, <2>2 DEF GlyphKey
    <3>2. i \in 0 .. (BufSize - 2) /\ i \in Nat /\ i + 1 \in 1 .. BufSize /\ i + 1 \in 0 .. (BufSize - 1)
      BY <1>2, <1>3, <2>2
    <3>3. Append(Typed(buf, i), c) = Typed(buf', i')
      BY <1>2, <3>1, <3>2, TypedGrows
    <3>4. Edited(typed)' = Typed(buf', i')
      <4>1. i # BufSize - 1
        BY <1>2, <1>3, <2>2
      <4> QED
        BY <1>5, <1>7, <1>12, <3>3, <4>1 DEF Edit
    <3>5. buf' \in [1 .. BufSize -> Letters] /\ buf'[i + 1] = c /\ \A j \in 1 .. i : buf'[j] = buf[j]
      <4>1. c \in Letters
        BY DEF Letters
      <4> QED
        BY <1>2, <1>3, <3>1, <3>2, <4>1
    <3>6. \A j \in 1 .. (i + 1) : buf'[j] # NUL
      <4> TAKE j \in 1 .. (i + 1)
      <4>1. CASE j = i + 1
        BY <2>1, <3>5, <4>1
      <4>2. CASE j # i + 1
        <5>1. j \in 1 .. i
          BY <3>2, <4>2
        <5> QED
          BY <1>2, <3>5, <5>1
      <4> QED
        BY <4>1, <4>2
    <3>7. LineInv'
      <4>1. Edited(typed') = Typed(buf', i')
        BY <3>4
      <4> QED
        BY <1>1, <1>4, <2>1, <3>1, <3>2, <3>5, <3>6, <4>1 DEF LineInv
    <3>8. EchoInv'
      <4>1. SUFFICES ASSUME NothingErased'
                     PROVE  out' = <<buf'[i']>> /\ buf'[i'] \notin {LF, CR, TAB} /\ EchoedTo(i - 1)'
        BY DEF EchoInv
      <4>3. i = 0 \/ EchoedTo(i)
        BY <1>1, <1>6, <4>1 DEF Inv, EchoInv
      <4>4. i' - 1 = i
        BY <3>1, <3>2
      <4>5. \A j \in 1 .. i : page.pos - i + j >= 1 /\ page.text[page.pos - i + j] = buf[j]
        BY <3>2, <4>3 DEF EchoedTo
      <4>6. EchoedTo(i - 1)'
        <5>1. \A j \in 1 .. (i' - 1) :
                page'.pos - (i' - 1) + j >= 1 /\ page'.text[page'.pos - (i' - 1) + j] = buf'[j]
          BY <1>1, <3>5, <4>4, <4>5
        <5> QED
          BY <5>1 DEF EchoedTo
      <4> QED
        BY <2>1, <3>1, <3>5, <4>6
    <3> QED
      BY <1>1, <1>8, <2>1, <3>7, <3>8 DEF Inv
  <2>3. CASE ~(i < BufSize - 1)
    <3>1. UNCHANGED <<buf, i, out>>
      BY <1>12, <2>3 DEF GlyphKey
    <3>2. i = BufSize - 1
      BY <1>2, <1>3, <2>3
    <3>3. Edited(typed') = Typed(buf', i')
      BY <1>5, <1>7, <1>12, <3>1, <3>2 DEF Edit
    <3>4. LineInv'
      BY <1>1, <1>2, <1>4, <2>1, <3>1, <3>3 DEF LineInv
    <3>5. EchoInv'
      BY <1>1, <1>6, <2>1, <3>1 DEF EchoInv, Inv, EchoedTo
    <3> QED
      BY <1>1, <1>8, <2>1, <3>4, <3>5 DEF Inv
  <2> QED
    BY <2>2, <2>3
<1> QED
  BY <1>9, <1>10, <1>11, <1>12 DEF Readline

LEMMA EchoStepInv == Inv /\ Echo => Inv'
<1> SUFFICES ASSUME Inv, Echo PROVE Inv'
  OBVIOUS
<1>1. at' = "prompt" /\ UNCHANGED <<screen, prompt, buf, i, presses, typed, page>>
  BY DEF Echo
<1>2. OnScreen(screen, page)'
  BY <1>1 DEF Inv
<1>3. LineInv'
  BY <1>1 DEF Inv, LineInv
<1>4. EchoInv'
  BY <1>1 DEF EchoInv
<1> QED
  BY <1>1, <1>2, <1>3, <1>4 DEF Inv, Places

LEMMA NextInv == Inv /\ [Next]_consoleVars => Inv'
<1> SUFFICES ASSUME Inv, [Next]_consoleVars PROVE Inv'
  OBVIOUS
<1>1. CASE UNCHANGED consoleVars
  BY <1>1 DEF consoleVars, vars, Inv, LineInv, EchoInv, NothingErased, EchoedTo
<1>2. CASE Stage2Putc
  BY <1>2, Stage2PutcInv
<1>3. ASSUME NEW m \in KernelMessages, EnterKernel(m) PROVE Inv'
  BY <1>3, EnterKernelInv
<1>4. CASE SysPutc
  BY <1>4, SysPutcInv
<1>5. CASE StartUser
  BY <1>5, StartUserInv
<1>6. CASE Prompt
  BY <1>6, PromptInv
<1>7. ASSUME NEW c \in Keys, Readline(c) PROVE Inv'
  BY <1>7, ReadlineInv
<1>8. CASE Echo
  BY <1>8, EchoStepInv
<1> QED
  BY <1>1, <1>2, <1>3, <1>4, <1>5, <1>6, <1>7, <1>8 DEF Next, ShellNext

LEMMA Invariance == Spec => []Inv
<1>1. Init => Inv
  BY InitInv
<1>2. Inv /\ [Next]_consoleVars => Inv'
  BY NextInv
<1> QED
  BY <1>1, <1>2, PTL DEF Spec

-----------------------------------------------------------------------------
(* The properties. *)

(* From the row that is shown at the top, the invariant says it is TopRow,   *)
(* and from that what ScreenIsTail says.                                    *)
LEMMA TopIsTopRow ==
  ASSUME NEW top \in Nat, Settled(screen, page, top)
  PROVE  /\ TopRow = top
         /\ screen.cell = Window(page, top)
         /\ screen.y * Width + screen.x = page.pos - top * Width
         /\ screen.x \in 0 .. (Width - 1) /\ screen.y \in 0 .. (Height - 1)
<1>1. Width \in Nat \ {0} /\ Height \in Nat \ {0}
  BY ScreenAssumption
<1>2. /\ screen.cell = Window(page, top)
      /\ screen.x \in 0 .. (Width - 1) /\ screen.y \in 0 .. (Height - 1)
      /\ page.pos = Row(top + screen.y) + screen.x
      /\ top = 0 \/ screen.y >= Height - 1
  <2>1. screen = [cell |-> Window(page, top), x |-> screen.x, y |-> screen.y]
    BY DEF Settled, Shows
  <2>2. screen.cell = Window(page, top)
    BY <2>1
  <2> QED
    BY <1>1, <2>2 DEF Settled, Shows
<1>3. screen.y \in Nat /\ top + screen.y \in Nat
  BY <1>1, <1>2
<1>4. page.pos \div Width = top + screen.y
  BY <1>2, <1>3, PlaceInRow
<1>5. TopRow = top
  BY <1>1, <1>2, <1>3, <1>4 DEF TopRow
<1>6. Row(top + screen.y) = Row(top) + Row(screen.y) /\ Row(top) \in Nat /\ Row(screen.y) \in Nat
  BY <1>3, RowSum, RowFacts
<1>7. screen.y * Width + screen.x = page.pos - top * Width
  <2>1. Row(screen.y) + screen.x = page.pos - Row(top)
    BY <1>1, <1>2, <1>6
  <2> QED
    BY <2>1 DEF Row
<1> QED
  BY <1>2, <1>5, <1>7

(* Console.TypeOK: the cursor is on the screen whoever writes, and readline  *)
(* keeps the last place of its buffer, for any screen, buffer and texts.     *)
THEOREM TypeCorrect == Spec => []TypeOK
<1>1. Inv => TypeOK
  <2> SUFFICES ASSUME Inv PROVE TypeOK
    OBVIOUS
  <2>1. PICK top \in Nat : Settled(screen, page, top)
    BY DEF Inv, OnScreen
  <2>2. DOMAIN screen.cell = Cells /\ screen.x \in 0 .. (Width - 1) /\ screen.y \in 0 .. (Height - 1)
    <3>1. screen.cell = Window(page, top) /\ screen.x \in 0 .. (Width - 1) /\ screen.y \in 0 .. (Height - 1)
      BY <2>1, TopIsTopRow
    <3> QED
      BY <3>1 DEF Window
  <2>3. DOMAIN buf = 1 .. BufSize /\ i \in 0 .. (BufSize - 1)
    BY DEF Inv, LineInv
  <2> QED
    BY <2>2, <2>3 DEF Inv, TypeOK, Places
<1> QED
  BY <1>1, Invariance, PTL

(* Shell.ScreenIsTail: the screen shows the last rows of all that was        *)
(* written, the cursor where it is there, however often either console       *)
(* wraps, scrolls, returns and indents.                                    *)
THEOREM ScreenShowsTail == Spec => []ScreenIsTail
<1>1. Inv => ScreenIsTail
  <2> SUFFICES ASSUME Inv PROVE ScreenIsTail
    OBVIOUS
  <2>1. PICK top \in Nat : Settled(screen, page, top)
    BY DEF Inv, OnScreen
  <2>2. /\ TopRow = top /\ screen.cell = Window(page, top)
        /\ screen.y * Width + screen.x = page.pos - top * Width
    BY <2>1, TopIsTopRow
  <2>3. page.text \in Seq(Range(page.text))
    BY <2>1 DEF Settled, Shows, APage
  <2>4. DOMAIN page.text = 1 .. Len(page.text)
    BY <2>3, LenProperties
  <2>5. ASSUME NEW q \in Cells
        PROVE  screen.cell[q] = IF TopRow * Width + q + 1 \in DOMAIN page.text
                                THEN page.text[TopRow * Width + q + 1] ELSE Blank
    <3>1. screen.cell[q] = Letter(page, Row(top) + q)
      BY <2>2 DEF Window
    <3>2. Row(top) = TopRow * Width
      BY <2>2 DEF Row
    <3> QED
      BY <2>4, <3>1, <3>2 DEF Letter
  <2> QED
    BY <2>2, <2>5 DEF ScreenIsTail
<1> QED
  BY <1>1, Invariance, PTL

(* Shell.LineIsEdited: the string readline leaves in the buffer is what the  *)
(* keys come to, for every sequence of keys and every length of the buffer. *)
THEOREM LineIsWhatWasTyped == Spec => []LineIsEdited
<1>1. Inv => LineIsEdited
  <2> SUFFICES ASSUME Inv, at = "line" PROVE Line = Edited(typed)
    BY DEF LineIsEdited
  <2>1. /\ buf \in [1 .. BufSize -> Letters] /\ i \in 0 .. (BufSize - 1)
        /\ Edited(typed) = Typed(buf, i) /\ \A j \in 1 .. i : buf[j] # NUL
        /\ buf[i + 1] = NUL
    BY DEF Inv, LineInv
  <2>2. Line = Typed(buf, i)
    BY <2>1, LineIsTyped
  <2> QED
    BY <2>1, <2>2
<1> QED
  BY <1>1, Invariance, PTL

(* Shell.EchoShowsLine: as long as nothing is erased, the characters of the  *)
(* line stand in front of the cursor, on however many rows.                 *)
THEOREM EchoIsTheLine == Spec => []EchoShowsLine
<1>1. Inv => EchoShowsLine
  <2>0. SUFFICES ASSUME Inv, at = "key", out = <<>>, \A j \in DOMAIN typed : typed[j] \notin Erase,
                       NEW j \in 1 .. i, screen.y * Width + screen.x - i + j - 1 \in Cells
                PROVE  screen.cell[screen.y * Width + screen.x - i + j - 1] = buf[j]
    BY DEF EchoShowsLine
  <2> DEFINE q == screen.y * Width + screen.x - i + j - 1
  <2>1. i \in Nat /\ j \in Nat /\ i # 0
    BY <2>0, ShellAssumption DEF Inv, LineInv
  <2>2. EchoedTo(i)
    <3>1. out # <<buf[i]>>
      BY <2>0
    <3> QED
      BY <2>0, <2>1, <3>1 DEF Inv, EchoInv, NothingErased
  <2>3. page.pos - i + j >= 1 /\ page.text[page.pos - i + j] = buf[j]
    BY <2>2 DEF EchoedTo
  <2>4. PICK top \in Nat : Settled(screen, page, top)
    BY <2>0 DEF Inv, OnScreen
  <2>5. /\ screen.cell = Window(page, top)
        /\ screen.y * Width + screen.x = page.pos - top * Width
    BY <2>4, TopIsTopRow
  <2>6. Len(page.text) \in Nat /\ page.pos \in 0 .. Len(page.text)
    BY <2>4, LenProperties DEF Settled, Shows, APage
  <2>7. Row(top) + q = page.pos - i + j - 1
    <3>1. Row(top) \in Nat /\ Row(top) = top * Width
      BY RowFacts DEF Row
    <3>2. screen.y * Width + screen.x = page.pos - Row(top)
      BY <2>5, <3>1
    <3> DEFINE line == screen.y * Width
    <3>3. line \in Int /\ screen.x \in Int
      BY <2>4, TopIsTopRow, ScreenAssumption
    <3>4. line + screen.x = page.pos - Row(top)
      BY <3>2
    <3> HIDE DEF line
    <3>5. q = line + screen.x - i + j - 1
      BY DEF line
    <3> HIDE DEF q
    <3>6. Row(top) \in Int /\ page.pos \in Int /\ i \in Int /\ j \in Int
      BY <2>1, <2>6, <3>1
    <3> QED
      BY <3>3, <3>4, <3>5, <3>6
  <2>8. screen.cell[q] = Letter(page, Row(top) + q)
    BY <2>0, <2>5 DEF Window
  <2> HIDE DEF q
  <2>9. Letter(page, Row(top) + q) = page.text[page.pos - i + j]
    <3>1. page.pos - i + j - 1 + 1 = page.pos - i + j /\ page.pos - i + j \in 1 .. Len(page.text)
      BY <2>1, <2>3, <2>6
    <3> QED
      BY <2>7, <3>1 DEF Letter
  <2> QED
    BY <2>3, <2>8, <2>9 DEF q
<1> QED
  BY <1>1, Invariance, PTL
-----------------------------------------------------------------------------
(* printf. *)

(* As long as stage 2 writes, the call under way is one the manual allows.   *)
CallInv == at = "stage2" => call \in Calls

LEMMA CallInvariance == Spec => []CallInv
<1>1. Init => CallInv
  BY DEF Init, CallInv
<1>2. CallInv /\ [Next]_consoleVars => CallInv'
  <2> SUFFICES ASSUME CallInv, [Next]_consoleVars PROVE CallInv'
    OBVIOUS
  <2>1. CASE Stage2Putc
    BY <2>1 DEF CallInv, Stage2Putc
  <2>2. CASE \E m \in KernelMessages : EnterKernel(m)
    <3>1. PICK m \in KernelMessages : EnterKernel(m)
      BY <2>2
    <3>2. at' # "stage2"
      BY <3>1 DEF EnterKernel
    <3> QED
      BY <3>2 DEF CallInv
  <2>3. CASE ShellNext /\ UNCHANGED call
    <3>1. at' = "stage2" => at = "stage2"
      <4>1. CASE SysPutc
        BY <4>1 DEF SysPutc
      <4>2. CASE StartUser \/ Prompt \/ Echo
        BY <4>2 DEF StartUser, Prompt, Echo
      <4>3. CASE \E c \in Keys : Readline(c)
        <5>1. PICK c \in Keys : Readline(c)
          BY <4>3
        <5>2. at' = "line" \/ UNCHANGED at
          BY <5>1 DEF Readline, EnterKey, EraseKey, GlyphKey
        <5> QED
          BY <5>2
      <4> QED
        BY <2>3, <4>1, <4>2, <4>3 DEF ShellNext
    <3> QED
      BY <2>3, <3>1 DEF CallInv
  <2>4. CASE UNCHANGED consoleVars
    BY <2>4 DEF CallInv, consoleVars, vars
  <2> QED
    BY <2>1, <2>2, <2>3, <2>4 DEF Next
<1> QED
  BY <1>1, <1>2, PTL DEF Spec

(* Console.PrintfReads: the kernel's printf and the user program's write what *)
(* the manual says of the call and take the arguments it says, and so does   *)
(* stage 2's as long as numbers come last, for every call of every length    *)
(* whose arguments of h and hh have a value of their type.                   *)
THEOREM PrintfWritesWhatItReads == Spec => []PrintfReads
<1>1. CallInv => PrintfReads
  <2> DEFINE items == call.items
             args == call.args
             fmt == Format(items)
  <2>1. SUFFICES ASSUME CallInv, at = "stage2", ShortsFit(items, args)
                 PROVE  /\ Reads(KernelPrintf(fmt, args), items, args, KernelPuts)
                        /\ Reads(UserPrintf(fmt, args), items, args, UserPuts)
                        /\ NumbersLast(items) => Reads(Stage2Printf(fmt, args), items, args, KernelPuts)
    BY DEF PrintfReads
  <2>2. WellFormed(items, args) /\ ShortsFit(items, args)
    BY <2>1, CallsAssumption DEF CallInv
  <2> HIDE DEF items, args
  <2>3. /\ Texts("kernel") = KernelPuts /\ Texts("user") = UserPuts /\ Texts("stage2") = KernelPuts
        /\ "kernel" \in Copies /\ "user" \in Copies /\ "stage2" \in Copies
    BY DEF Texts, Copies
  <2>4. Reads(Loop("kernel", fmt, args), items, args, Texts("kernel"))
    BY <2>2, <2>3, PrintfReadsItsFormat
  <2>5. Reads(Loop("user", fmt, args), items, args, Texts("user"))
    BY <2>2, <2>3, PrintfReadsItsFormat
  <2>6. NumbersLast(items) => Reads(Loop("stage2", fmt, args), items, args, Texts("stage2"))
    BY <2>2, <2>3, PrintfReadsItsFormat
  <2> QED
    BY <2>3, <2>4, <2>5, <2>6 DEF KernelPrintf, UserPrintf, Stage2Printf
<1> QED
  BY <1>1, CallInvariance, PTL
=============================================================================
