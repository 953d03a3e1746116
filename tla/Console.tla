------------------------------- MODULE Console --------------------------------
(***************************************************************************)
(* Who writes to the screen from power on: stage 2 with its own console and  *)
(* printf, the kernel, whose printf goes through SYS_PUTC to its console,    *)
(* and the shell of the user task.  HAL_Initialize clears the screen.       *)
(***************************************************************************)
EXTENDS Shell, Formats

CONSTANTS
  Calls,           \* calls of printf: records of items and args
  KernelMessages   \* what the kernel says of the module: records of items, args and
                   \* started, whether it made a task of it

ASSUME CallsAssumption == \A c \in Calls : WellFormed(c.items, c.args)

VARIABLE call      \* the call of printf that is under way

consoleVars == <<vars, call>>

NoCall == [items |-> <<>>, args |-> <<>>]

Init ==
  /\ at = "stage2"
  /\ screen = Stage2Clrscr
  /\ call \in Calls
  /\ out = Stage2Printf(Format(call.items), call.args).out
  /\ page = EmptyPage
  /\ ShellInit

(* One putc of stage 2. *)
Stage2Putc ==
  /\ at = "stage2" /\ out # <<>>
  /\ screen' = Stage2PutC(screen, Head(out))
  /\ page' = OnPage(page, Head(out))
  /\ out' = Tail(out)
  /\ UNCHANGED <<at, prompt, buf, i, presses, typed, call>>

(* Stage 2 jumps; HAL_Initialize clears the screen, and the loader of the    *)
(* module, or HAL itself when there is none, says how it went.              *)
EnterKernel(m) ==
  /\ at = "stage2" /\ out = <<>>
  /\ screen' = Clrscr
  /\ page' = EmptyPage
  /\ out' = KernelPrintf(Format(m.items), m.args).out
  /\ at' = IF m.started THEN "kernel" ELSE "idle"
  /\ call' = NoCall
  /\ UNCHANGED <<prompt, buf, i, presses, typed>>

Next ==
  \/ Stage2Putc
  \/ \E m \in KernelMessages : EnterKernel(m)
  \/ ShellNext /\ UNCHANGED call

Spec == Init /\ [][Next]_consoleVars
-----------------------------------------------------------------------------
(* Types and bounds: the cursor is on the screen whoever writes, and        *)
(* readline keeps the last place of its buffer for the NUL.                 *)
TypeOK ==
  /\ at \in {"stage2", "kernel", "idle", "prompt", "key", "line"}
  /\ DOMAIN screen.cell = Cells /\ screen.x \in 0 .. (Width - 1) /\ screen.y \in 0 .. (Height - 1)
  /\ prompt \in 0 .. (Power(2, WordBits) - 1) /\ i \in 0 .. (BufSize - 1)
  /\ DOMAIN buf = 1 .. BufSize /\ presses \in 0 .. MaxKeys

(* printf of the kernel and of the user program write, for every sequence of *)
(* directives, what the manual says, and take the arguments it says: nothing *)
(* of a directive is left to the next, and a long long takes its two words. *)
(* Stage 2's does so as long as numbers come last.  Arguments of h and hh    *)
(* must have a value of their type: no copy converts them to it.             *)
PrintfReads ==
  at = "stage2" /\ ShortsFit(call.items, call.args) =>
    LET fmt == Format(call.items)
    IN  /\ Reads(KernelPrintf(fmt, call.args), call.items, call.args, KernelPuts)
        /\ Reads(UserPrintf(fmt, call.args), call.items, call.args, UserPuts)
        /\ NumbersLast(call.items) =>
             Reads(Stage2Printf(fmt, call.args), call.items, call.args, KernelPuts)
=============================================================================
