-------------------------------- MODULE Printf --------------------------------
(***************************************************************************)
(* The three copies of printf: stage 2's (stage2/stdio.c), the kernel's      *)
(* (kernel/lib/stdio.c) and the user program's (userland/lib/stdio.h).      *)
(*                                                                         *)
(* A character is a string, a format or a text a sequence of them.  args is *)
(* what va_arg walks over: the words of the stack from the first argument   *)
(* on, those behind the last argument included.  A call is one round per    *)
(* character of the format, from the record Fresh on; out is what has been  *)
(* written and used how many words va_arg has taken.                        *)
(***************************************************************************)
EXTENDS Integers, Sequences, SequencesExt

CONSTANTS
  WordBits,     \* 32: an int, a long, a pointer, one argument word
  Decimal,      \* 10
  CharAt,       \* the character an argument word is for %c
  TextAt        \* the string at an address; the kernel reads address 0 like any other

(* Powers, written out for provers that know none. *)
Power(b, k) ==
  LET p[j \in 0 .. k] == IF j = 0 THEN 1 ELSE b * p[j - 1]
  IN  p[k]

Word == 0 .. (Power(2, WordBits) - 1)

ASSUME PrintfAssumption ==
  /\ WordBits \in Nat \ {0} /\ Decimal \in 2 .. 10
  /\ DOMAIN CharAt = Word /\ DOMAIN TextAt = Word
  /\ \A w \in Word : TextAt[w] \in Seq(ToSet(TextAt[w]))

Lengths == {"default", "hh", "h", "l", "ll"}
Fresh == [state |-> "normal", length |-> "default", number |-> FALSE, sign |-> FALSE,
          radix |-> Decimal, used |-> 0, out |-> <<>>]

HexChars == <<"0", "1", "2", "3", "4", "5", "6", "7", "8", "9", "a", "b", "c", "d", "e", "f">>

(* printf_unsigned: the digits come last to first and are written backwards. *)
Unsigned(n, radix) ==
  LET digits[k \in 0 .. n] ==
        IF k < radix THEN <<HexChars[k + 1]>>
        ELSE Append(digits[k \div radix], HexChars[1 + (k % radix)])
  IN  digits[n]

Signed(n, radix) == IF n < 0 THEN <<"-">> \o Unsigned(-n, radix) ELSE Unsigned(n, radix)

(* A value of so many bits, read as a signed one. *)
AsSigned(n, bits) == IF n >= Power(2, bits - 1) THEN n - Power(2, bits) ELSE n

(* What puts writes for an address, and print of the user program, which    *)
(* looks for a null pointer.                                                *)
KernelPuts == TextAt
UserPuts == [TextAt EXCEPT ![0] = <<"(", "n", "u", "l", "l", ")">>]

(* The switch of PRINTF_STATE_SPEC. *)
Specifier(m, c, args, texts) ==
  LET word == args[m.used + 1]
      Number(radix, sign) == [m EXCEPT !.number = TRUE, !.radix = radix, !.sign = sign]
  IN  CASE c = "c" -> [m EXCEPT !.out = Append(@, CharAt[word]), !.used = @ + 1]
        [] c = "s" -> [m EXCEPT !.out = @ \o texts[word], !.used = @ + 1]
        [] c = "%" -> [m EXCEPT !.out = Append(@, "%")]
        [] c \in {"d", "i"} -> Number(Decimal, TRUE)
        [] c = "u" -> Number(Decimal, FALSE)
        [] c \in {"x", "X", "p"} -> Number(16, FALSE)
        [] c = "o" -> Number(8, FALSE)
        [] OTHER -> m

(* if (number): a long long is two words, low word first; all else is one. *)
WriteNumber(m, args) ==
  LET words == IF m.length = "ll" THEN 2 ELSE 1
      value == args[m.used + 1] + (IF words = 2 THEN args[m.used + 2] * Power(2, WordBits) ELSE 0)
  IN  IF ~m.number THEN m
      ELSE [m EXCEPT !.used = @ + words,
                     !.out = @ \o (IF m.sign THEN Signed(AsSigned(value, words * WordBits), m.radix)
                                             ELSE Unsigned(value, m.radix))]

(* Mutation of ResetKernel: the length of one directive is left to the next. *)
ResetKernelMutant(m) ==
  IF m.state # "reset" THEN m
  ELSE [m EXCEPT !.state = "normal", !.radix = Decimal, !.sign = FALSE, !.number = FALSE]

(* "reset state": the kernel's copy, the user's, and stage 2's, which leaves *)
(* number set.                                                              *)
ResetKernel(m) ==
  IF m.state # "reset" THEN m
  ELSE [m EXCEPT !.state = "normal", !.length = "default", !.radix = Decimal, !.sign = FALSE, !.number = FALSE]

ResetUser(m) == ResetKernel(m)

ResetStage2(m) == [ResetKernel(m) EXCEPT !.number = m.number]

(* One round of the loop up to the reset: h and l are lengths where one is  *)
(* expected, and specifiers nobody knows everywhere else.                   *)
Step(m, c, args, texts) ==
  CASE m.state = "normal" -> IF c = "%" THEN [m EXCEPT !.state = "length"] ELSE [m EXCEPT !.out = Append(@, c)]
    [] m.state = "length" /\ c \in {"h", "l"} -> [m EXCEPT !.state = c, !.length = c]
    [] m.state = "h" /\ c = "h" -> [m EXCEPT !.state = "spec", !.length = "hh"]
    [] m.state = "l" /\ c = "l" -> [m EXCEPT !.state = "spec", !.length = "ll"]
    [] OTHER -> [WriteNumber(Specifier(m, c, args, texts), args) EXCEPT !.state = "reset"]

Round(copy, m, c, args) ==
  CASE copy = "kernel" -> ResetKernel(Step(m, c, args, KernelPuts))
    [] copy = "user"   -> ResetUser(Step(m, c, args, UserPuts))
    [] copy = "stage2" -> ResetStage2(Step(m, c, args, KernelPuts))

(* The loop over the characters of the format. *)
Loop(copy, fmt, args) ==
  LET m[k \in 0 .. Len(fmt)] == IF k = 0 THEN Fresh ELSE Round(copy, m[k - 1], fmt[k], args)
  IN  m[Len(fmt)]

KernelPrintf(fmt, args) == Loop("kernel", fmt, args)
UserPrintf(fmt, args) == Loop("user", fmt, args)
Stage2Printf(fmt, args) == Loop("stage2", fmt, args)
=============================================================================
