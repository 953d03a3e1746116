------------------------------ MODULE MCConsole -------------------------------
(***************************************************************************)
(* Console on a screen of a few short rows, with texts of a few characters   *)
(* and argument words of a few bits.                                        *)
(***************************************************************************)
EXTENDS Console

MCCharAt == [w \in Word |-> <<"p", "q", LF, TAB>>[1 + (w % 4)]]
MCTextAt == [w \in Word |-> <<<<"?">>, <<"s", "t">>, <<>>>>[1 + (w % 3)]]

(* %i is %d, and %p is %x: both in calls of two items only. *)
MCItems == {d \in Directives : d.spec \notin {"i", "p"}} \union {Character(c) : c \in {"w", LF, CR}}
MCArgs == {<<15, 8, 0, 7, 10, 3>>, <<0, 1, 8, 15, 12, 2>>}
MCCalls == {[items |-> it, args |-> ar] : it \in SeqOf(MCItems, 3) \union SeqOf(Directives, 2), ar \in MCArgs}

(* "elf_load: OK  entry=0x%x  segments=%d\n", and the failure of HAL's caller. *)
MCKernelMessages ==
  {[items |-> <<Character("e"), Character(TAB), Directive("default", "x"), Directive("default", "d"), Character(LF)>>,
    args |-> <<12, 2>>, started |-> TRUE],
   [items |-> <<Character("f"), Directive("default", "d"), Character(TAB), Character(LF)>>,
    args |-> <<15>>, started |-> FALSE]}

MCBanner == <<"=", TAB, LF>>
MCPromptFormat == <<"%", "u", ">">>
MCEchoText == <<"E", ":">>
=============================================================================
