-------------------------------- MODULE Shell ---------------------------------
(***************************************************************************)
(* The program of the user task: Umain.c prompts, reads a line with the      *)
(* readline of its stdio.h, and prints it back.  What it writes goes to the  *)
(* console one system call at a time; the screen is Screen's.               *)
(*                                                                         *)
(* A character is a string: a glyph, or the name of a control character.    *)
(* The key sys_getkey returns is any of Keys: what the interrupt handler    *)
(* and get_key do to it is in Sched.                                       *)
(***************************************************************************)
EXTENDS Screen, Printf

CONSTANTS
  Keys,         \* what sys_getkey may return
  BufSize,      \* INPUT_BUF_SIZE
  Banner,       \* what _start prints first
  PromptFormat, \* "%u> "
  EchoText,     \* "Echo: "
  MaxKeys       \* bound: keys pressed

ASSUME ShellAssumption ==
  BufSize \in Nat \ {0, 1} /\ MaxKeys \in Nat

NUL == "NUL"
Enter == {CR, LF}
Erase == {"BS", "DEL"}
(* c < 0x20 with a signed char: control characters and all from 128 on. *)
Control == {NUL, TAB, "ESC", "high"}

VARIABLES
  at,           \* where the loop of _start is
  out,          \* characters of the calls of sys_putc that come next
  screen,       \* see Screen
  prompt, buf,  \* of _start
  i,            \* of readline
  presses,      \* bound: keys still to be pressed
  typed,        \* history: the keys of this line
  page          \* history: all text since the screen was cleared, as on a page without
                \* end, row after row, and the place of the cursor on it

vars == <<at, out, screen, prompt, buf, i, presses, typed, page>>

EmptyPage == [text |-> <<>>, pos |-> 0]

(* The variables of _start and readline before they run. *)
ShellInit ==
  /\ prompt = 1
  /\ buf = [j \in 1 .. BufSize |-> "junk"]
  /\ i = 0
  /\ presses = MaxKeys
  /\ typed = <<>>

(* A character is written over the one that is there, or behind all text. *)
Written(p, c) ==
  [text |-> IF p.pos < Len(p.text) THEN [p.text EXCEPT ![p.pos + 1] = c] ELSE Append(p.text, c),
   pos  |-> p.pos + 1]

(* The text is filled up to a place, and the cursor is there. *)
Padded(p, place) ==
  [text |-> p.text \o [j \in 1 .. (place - Len(p.text)) |-> Blank], pos |-> place]

(* A newline goes to the next row and a return to the start of this one.  A  *)
(* tab is two blanks, in the third column of four one, in the fourth three. *)
OnPage(p, c) ==
  LET row == p.pos - (p.pos % Width)
      one == Written(p, " ")
      two == Written(one, " ")
  IN  CASE c = LF  -> Padded(p, row + Width)
        [] c = CR  -> [text |-> p.text, pos |-> row]
        [] c = TAB -> <<two, two, one, Written(two, " ")>>[1 + (p.pos % 4)]
        [] OTHER   -> Written(p, c)

(* SYS_PUTC, for the next character. *)
SysPutc ==
  /\ at # "stage2" /\ out # <<>>
  /\ screen' = PutC(screen, Head(out))
  /\ page' = OnPage(page, Head(out))
  /\ out' = Tail(out)
  /\ UNCHANGED <<at, prompt, buf, i, presses, typed>>

(* HAL_Initialize schedules the user task, which prints its banner. *)
StartUser ==
  /\ at = "kernel" /\ out = <<>>
  /\ out' = Banner
  /\ at' = "prompt"
  /\ UNCHANGED <<screen, prompt, buf, i, presses, typed, page>>

(* printf("%u> ", prompt++) and the entry of readline. *)
Prompt ==
  /\ at = "prompt" /\ out = <<>>
  /\ out' = UserPrintf(PromptFormat, <<prompt>>).out
  /\ prompt' = (prompt + 1) % Power(2, WordBits)
  /\ i' = 0
  /\ typed' = <<>>
  /\ at' = "key"
  /\ UNCHANGED <<screen, buf, presses, page>>

(* Mutation of EnterKey: the line is not ended. *)
EnterKeyMutant == out' = <<LF>> /\ at' = "line" /\ UNCHANGED <<buf, i>>

EnterKey == out' = <<LF>> /\ at' = "line" /\ buf' = [buf EXCEPT ![i + 1] = NUL] /\ UNCHANGED i

(* Mutation of EraseKey: an empty line is shortened too. *)
EraseKeyMutant == i' = i - 1 /\ out' = <<"BS", " ", "BS">> /\ UNCHANGED <<at, buf>>

EraseKey ==
  /\ IF i > 0 THEN i' = i - 1 /\ out' = <<"BS", " ", "BS">> ELSE UNCHANGED <<i, out>>
  /\ UNCHANGED <<at, buf>>

(* Mutation of GlyphKey: echoed even when there is no room for it. *)
GlyphKeyMutant(c) ==
  /\ IF i < BufSize - 1 THEN buf' = [buf EXCEPT ![i + 1] = c] /\ i' = i + 1 ELSE UNCHANGED <<buf, i>>
  /\ out' = <<c>>
  /\ UNCHANGED at

GlyphKey(c) ==
  /\ IF i < BufSize - 1
     THEN buf' = [buf EXCEPT ![i + 1] = c] /\ i' = i + 1 /\ out' = <<c>>
     ELSE UNCHANGED <<buf, i, out>>
  /\ UNCHANGED at

(* One round of the loop of readline. *)
Readline(c) ==
  /\ at = "key" /\ out = <<>> /\ presses > 0
  /\ presses' = presses - 1
  /\ typed' = Append(typed, c)
  /\ \/ c \in Enter /\ EnterKey
     \/ c \in Erase /\ EraseKey
     \/ c \in Control \ Enter /\ UNCHANGED <<at, out, buf, i>>
     \/ c \notin Enter \union Erase \union Control /\ GlyphKey(c)
  /\ UNCHANGED <<screen, prompt, page>>

(* The string that begins at buf. *)
Line ==
  LET ends == {j \in 1 .. BufSize : buf[j] = NUL}
  IN  IF ends = {} THEN buf ELSE SubSeq(buf, 1, Min(ends) - 1)

(* An empty line is not echoed. *)
Echo ==
  /\ at = "line" /\ out = <<>>
  /\ out' = IF buf[1] = NUL THEN <<>> ELSE EchoText \o Line \o <<LF>>
  /\ at' = "prompt"
  /\ UNCHANGED <<screen, prompt, buf, i, presses, typed, page>>

ShellNext == SysPutc \/ StartUser \/ Prompt \/ (\E c \in Keys : Readline(c)) \/ Echo
-----------------------------------------------------------------------------
(* The row of the page that the top row of the screen shows. *)
TopRow == LET rows == page.pos \div Width IN IF rows < Height THEN 0 ELSE rows - Height + 1

(* Whoever writes, the screen is a window on the page: its last rows, the    *)
(* cursor where it is there.  Wrapping and scrolling lose, repeat and move   *)
(* nothing, in the console of stage 2 and in the kernel's.                  *)
ScreenIsTail ==
  /\ \A q \in Cells :
       LET p == TopRow * Width + q + 1
       IN  screen.cell[q] = IF p \in DOMAIN page.text THEN page.text[p] ELSE Blank
  /\ screen.y * Width + screen.x = page.pos - TopRow * Width

(* What the keys of a line come to: glyphs add up to the room there is, an  *)
(* erasing key takes the last one back.                                     *)
Edit(line, c) ==
  IF c \in Erase THEN (IF line = <<>> THEN line ELSE Front(line))
  ELSE IF c \in Control \union Enter \/ Len(line) = BufSize - 1 THEN line
  ELSE Append(line, c)
Edited(keys) ==
  LET line[k \in 0 .. Len(keys)] == IF k = 0 THEN <<>> ELSE Edit(line[k - 1], keys[k])
  IN  line[Len(keys)]

(* The string readline leaves in buf is the line that was typed, whatever   *)
(* longer line was there before ("max len-1 chars and NUL-terminated").     *)
LineIsEdited == at = "line" => Line = Edited(typed)

(* "Each character is echoed": while readline waits and nothing was erased  *)
(* yet, the characters in front of the cursor, on however many rows, are    *)
(* those in buf.  After an erasure it is not so: put_c draws a backspace.   *)
EchoShowsLine ==
  at = "key" /\ out = <<>> /\ (\A j \in DOMAIN typed : typed[j] \notin Erase) =>
    \A j \in 1 .. i :
      LET q == screen.y * Width + screen.x - i + j - 1
      IN  q \in Cells => screen.cell[q] = buf[j]
=============================================================================
