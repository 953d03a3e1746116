-------------------------------- MODULE Screen --------------------------------
(***************************************************************************)
(* The text console (kernel/drivers/display/screen.c) behind SYS_PUTC, and   *)
(* the one of stage 2 (stage2/stdio.c), on the same video memory.           *)
(*                                                                         *)
(* The screen is a record: cell, the video memory, one flat array of        *)
(* characters, and x, y, where the next character goes.  Colours never      *)
(* change and are left out, and so is the cursor of the CRTC, which follows  *)
(* x and y at the end of every call.                                        *)
(***************************************************************************)
EXTENDS Integers, Sequences

CONSTANTS
  Width,        \* SCREEN_WIDTH, 80
  Height        \* SCREEN_HEIGHT

ASSUME ScreenAssumption == Width \in Nat \ {0} /\ Width % 4 = 0 /\ Height \in Nat \ {0}

Cells == 0 .. (Width * Height - 1)
Blank == "blank"   \* the character 0 of a cleared cell
LF == "LF"
CR == "CR"
TAB == "TAB"

Clrscr == [cell |-> [q \in Cells |-> Blank], x |-> 0, y |-> 0]

(* Every row moves up by one, and the last one becomes blank. *)
Scrollback(s) ==
  [cell |-> [q \in Cells |-> IF q + Width \in Cells THEN s.cell[q + Width] ELSE Blank],
   x |-> s.x, y |-> s.y - 1]

(* The cursor goes to a column and a row. *)
MovedTo(s, column, row) == [cell |-> s.cell, x |-> column, y |-> row]

Wrapped(s) == IF s.x >= Width THEN MovedTo(s, s.x - Width, s.y + 1) ELSE s

(* Mutation of Settle: the bottom is looked at before the right margin. *)
SettleMutant(s) == Wrapped(IF s.y >= Height THEN Scrollback(s) ELSE s)

(* The end of every put_c: past the right margin is the next row, past the   *)
(* bottom the screen scrolls.                                              *)
Settle(s) == LET w == Wrapped(s) IN IF w.y >= Height THEN Scrollback(w) ELSE w

(* A character where the cursor is, and the cursor behind it. *)
Drawn(s, c) == [cell |-> [s.cell EXCEPT ![s.y * Width + s.x] = c], x |-> s.x + 1, y |-> s.y]

Glyph(s, c) == Settle(Drawn(s, c))

(* The loop of '\t', which looks at x again after every blank it writes. *)
Indent(s, i) == IF i < 4 - (s.x % 4) THEN Glyph(s, " ") ELSE s
Tab(s) == Indent(Indent(Indent(Indent(s, 0), 1), 2), 3)

(* put_c knows three control characters; all others, backspace too, are drawn. *)
PutC(s, c) ==
  CASE c = LF  -> Settle(MovedTo(s, 0, s.y + 1))
    [] c = CR  -> Settle(MovedTo(s, 0, s.y))
    [] c = TAB -> Settle(Tab(s))
    [] OTHER   -> Glyph(s, c)
-----------------------------------------------------------------------------
(* Stage 2: the same, written otherwise. *)
Stage2Clrscr == [cell |-> [q \in Cells |-> Blank], x |-> 0, y |-> 0]

Stage2Scrollback(s, lines) ==
  [cell |-> [q \in Cells |-> IF q + lines * Width \in Cells THEN s.cell[q + lines * Width] ELSE Blank],
   x |-> s.x, y |-> s.y - lines]

Stage2Settle(s) ==
  LET w == IF s.x >= Width THEN MovedTo(s, 0, s.y + 1) ELSE s
  IN  IF w.y >= Height THEN Stage2Scrollback(w, 1) ELSE w

Stage2Glyph(s, c) == Stage2Settle(Drawn(s, c))

Stage2Indent(s, i) == IF i < 4 - (s.x % 4) THEN Stage2Glyph(s, " ") ELSE s
Stage2Tab(s) == Stage2Indent(Stage2Indent(Stage2Indent(Stage2Indent(s, 0), 1), 2), 3)

Stage2PutC(s, c) ==
  CASE c = LF  -> Stage2Settle(MovedTo(s, 0, s.y + 1))
    [] c = CR  -> Stage2Settle(MovedTo(s, 0, s.y))
    [] c = TAB -> Stage2Settle(Stage2Tab(s))
    [] OTHER   -> Stage2Glyph(s, c)
=============================================================================
