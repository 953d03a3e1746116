------------------------------- MODULE Formats --------------------------------
(***************************************************************************)
(* What a call of printf should write, by the manual and not by the code:    *)
(* a format is a sequence of items, each a character or a directive, and an  *)
(* item's text depends on the item and its argument alone.                  *)
(***************************************************************************)
EXTENDS Printf

CONSTANTS
  CharBits,     \* 8
  ShortBits     \* 16

ASSUME FormatsAssumption ==
  /\ CharBits \in Nat \ {0} /\ ShortBits \in Nat \ {0}
  /\ CharBits <= WordBits /\ ShortBits <= WordBits

NumberSpecs == {"d", "i", "u", "x", "o", "p"}

Character(c) == [spec |-> "text", length |-> "default", char |-> c]
Directive(l, v) == [spec |-> v, length |-> l, char |-> "%"]

Directives ==
  {Directive(l, v) : l \in Lengths, v \in NumberSpecs \ {"p"}} \union
  {Directive("default", v) : v \in {"p", "c", "s", "%"}}

LengthText == [default |-> <<>>, hh |-> <<"h", "h">>, h |-> <<"h">>, l |-> <<"l">>, ll |-> <<"l", "l">>]

(* The format string of a sequence of items. *)
Spelled(item) ==
  IF item.spec = "text" THEN <<item.char>> ELSE <<"%">> \o LengthText[item.length] \o <<item.spec>>
Format(items) == FlattenSeq([j \in DOMAIN items |-> Spelled(items[j])])

(* The argument words an item stands for, and the first j items. *)
WordsOf(item) ==
  CASE item.spec \in {"text", "%"} -> 0
    [] item.length = "ll" -> 2
    [] OTHER -> 1
WordsIn(items) ==
  LET n[j \in 0 .. Len(items)] == IF j = 0 THEN 0 ELSE n[j - 1] + WordsOf(items[j])
  IN  n

(* The numeral of n: as few digits as hold it, the first the most significant. *)
Numeral(n, radix) ==
  LET digits == CHOOSE k \in 1 .. (2 * WordBits) : n < Power(radix, k) /\ (k = 1 \/ n >= Power(radix, k - 1))
  IN  [j \in 1 .. digits |-> HexChars[1 + ((n \div Power(radix, digits - j)) % radix)]]

(* The bits of the type that the length of a directive names. *)
BitsOf(item) ==
  CASE item.length = "hh" -> CharBits
    [] item.length = "h"  -> ShortBits
    [] OTHER              -> WordBits * WordsOf(item)

(* The argument is converted to that type before it is printed. *)
NumberText(item, args, w) ==
  LET bits == BitsOf(item)
      word == args[w] + (IF WordsOf(item) = 2 THEN args[w + 1] * Power(2, WordBits) ELSE 0)
      n    == word % Power(2, bits)
  IN  CASE item.spec = "u" -> Numeral(n, Decimal)
        [] item.spec \in {"x", "p"} -> Numeral(n, 16)
        [] item.spec = "o" -> Numeral(n, 8)
        [] item.spec \in {"d", "i"} ->
             IF n < Power(2, bits - 1) THEN Numeral(n, Decimal)
             ELSE <<"-">> \o Numeral(Power(2, bits) - n, Decimal)

ItemText(item, args, w, texts) ==
  CASE item.spec \in NumberSpecs -> NumberText(item, args, w)
    [] item.spec = "c" -> <<CharAt[args[w]]>>
    [] item.spec = "s" -> texts[args[w]]
    [] OTHER -> <<item.char>>

(* A call as the manual allows it: directives it knows, a %% for every % that *)
(* is to be written, and an argument for each directive that takes one.      *)
WellFormed(items, args) ==
  /\ items \in Seq(ToSet(items)) /\ args \in Seq(Word)
  /\ \A j \in DOMAIN items :
       \/ items[j] \in Directives
       \/ items[j] = Character(items[j].char) /\ items[j].char # "%"
  /\ WordsIn(items)[Len(items)] <= Len(args)

(* What is written, and how many argument words are taken. *)
Reading(items, args, texts) ==
  [out  |-> FlattenSeq([j \in DOMAIN items |->
              ItemText(items[j], args, 1 + WordsIn(items)[j - 1], texts)]),
   used |-> WordsIn(items)[Len(items)]]

(* A call has that effect, and leaves the machine between two directives. *)
Reads(call, items, args, texts) ==
  /\ [out |-> call.out, used |-> call.used] = Reading(items, args, texts)
  /\ call.state = "normal"

(* The copies of printf print the whole word for h and hh (kernel/lib/stdio.c  *)
(* :162-164, 178-180): (char)0x80 comes as ffffff80 from %hhx, where the     *)
(* manual has 80.  They agree on arguments that have a value of the type.    *)
HasTypeOf(item, word) ==
  LET half == Power(2, BitsOf(item) - 1)
  IN  IF item.spec \in {"d", "i"} THEN AsSigned(word, WordBits) \in (-half) .. (half - 1)
      ELSE word < Power(2, BitsOf(item))

ShortsFit(items, args) ==
  \A j \in DOMAIN items :
    items[j].length \in {"h", "hh"} => HasTypeOf(items[j], args[1 + WordsIn(items)[j - 1]])

(* Stage 2's copy writes another argument as a number behind a %c, %s or %%  *)
(* that comes after a number: stdio.c:288-292 reset all of its state but    *)
(* number.                                                                  *)
NumbersLast(items) ==
  \A j, k \in DOMAIN items :
    j < k /\ items[j].spec \in NumberSpecs => items[k].spec \in NumberSpecs \union {"text"}
=============================================================================
