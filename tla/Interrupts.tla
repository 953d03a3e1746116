------------------------------ MODULE Interrupts ------------------------------
(***************************************************************************)
(* Interrupts from remap_pic on: the order in which HAL_Initialize sets up   *)
(* controllers, gates and the timer, the entry of the handlers through the  *)
(* gates of idt.c, what they do to the controllers, and the keyboard with    *)
(* the translation of its bytes.                                            *)
(*                                                                         *)
(* This is the side of the interrupts that Sched leaves out.  The tasks are  *)
(* left out here: the code of a task or of a system call runs with IF set    *)
(* or clear, and schedule() goes on with the code of another task.          *)
(***************************************************************************)
EXTENDS Pic, Sequences, SequencesExt

CONSTANTS
  Wired,        \* lines of devices the kernel has no handler for
  Plain,        \* keys with a character in the scancode table
  Outside,      \* keys with a scancode behind the end of the table
  MaxBytes,     \* bound: bytes the keyboard sends
  MaxQueue      \* bound: bytes that wait in the keyboard and its controller

Timer    == 0
Keyboard == 1
Shifts   == {"LSHIFT", "RSHIFT"}
Keys     == Plain \union Outside \union Shifts
(* What the translation gives: a key's character, the shifted one or not. *)
Chars    == Plain \X BOOLEAN
NUL      == <<"NUL", FALSE>>

ASSUME InterruptsAssumption ==
  /\ Wired \subseteq Line \ {Timer, Keyboard, Cascade}
  /\ (Plain \union Outside) \intersect (Shifts \union {"NUL"}) = {} /\ Plain \intersect Outside = {}
  /\ MaxBytes \in Nat /\ MaxQueue \in Nat \ {0}

VARIABLES
  boot,         \* where HAL_Initialize is
  pic,          \* see Pic
  idt,          \* whether IDTR points to idt32
  irqOn,        \* EFLAGS.IF
  frames,       \* the handlers that are running, one on top of the other
  current,      \* whether current_task is set
  rested,       \* whether the last tick was long enough ago for another
  bytes,        \* what the keyboard has sent and nobody has read; the first is at port 0x60
  held,         \* the keys that are down
  shift, key,   \* of key_info
  sent,         \* bound: bytes sent
  stuck,        \* history: a byte was waiting when the controllers were reset
  sure          \* history: key_info->shift has been set by a shift key, and no other
                \* was down when it was cleared

picVars  == <<pic, idt, irqOn, frames>>
keyVars  == <<held, shift, key, sent, sure>>
vars == <<boot, picVars, current, rested, bytes, stuck, keyVars>>

(* As stage 2 jumps, with IF clear since its last call of the BIOS: lines    *)
(* may be masked (a device behind a masked line is as good as not Wired) and *)
(* requests may wait.  key_info is at 0x1600, in memory stage 2 was loaded to *)
(* and nobody clears.                                                       *)
Init ==
  /\ boot = "remap"
  /\ \E masked \in SUBSET {Timer, Keyboard, Cascade}, waiting \in SUBSET {Timer, Keyboard} :
       /\ pic = [irr |-> waiting, isr |-> {}, imr |-> masked, base |-> [master |-> 8, slave |-> 112]]
       /\ bytes = IF Keyboard \in waiting THEN <<[key |-> "LSHIFT", make |-> TRUE, shifted |-> TRUE]>> ELSE <<>>
       /\ held = IF Keyboard \in waiting THEN {"LSHIFT"} ELSE {}
       /\ sent = Len(bytes)
  /\ idt = FALSE
  /\ irqOn = FALSE
  /\ frames = <<>>
  /\ current = FALSE
  /\ rested = TRUE
  /\ shift \in BOOLEAN
  /\ key = NUL
  /\ stuck = FALSE
  /\ sure = FALSE
-----------------------------------------------------------------------------
(* Devices. *)

(* The PIT.  A tick is 10 ms: in between the processor gets to the end of    *)
(* all that was waiting (see Rest).                                         *)
Tick ==
  /\ rested
  /\ pic' = Raise(pic, Timer)
  /\ rested' = FALSE
  /\ UNCHANGED <<boot, idt, irqOn, frames, current, bytes, stuck, keyVars>>

Device(l) ==
  /\ pic' = Raise(pic, l)
  /\ UNCHANGED <<boot, idt, irqOn, frames, current, rested, bytes, stuck, keyVars>>

(* The keyboard controller raises its line as a byte comes to port 0x60. *)
SendByte(k, make) ==
  /\ sent < MaxBytes /\ Len(bytes) < MaxQueue
  /\ sent' = sent + 1
  /\ held' = IF make THEN held \union {k} ELSE held \ {k}
  /\ bytes' = Append(bytes, [key |-> k, make |-> make, shifted |-> held' \intersect Shifts # {}])
  /\ pic' = IF bytes = <<>> THEN Raise(pic, Keyboard) ELSE pic
  /\ UNCHANGED <<boot, idt, irqOn, frames, current, rested, stuck, shift, key, sure>>

(* A key goes down, repeats, or goes up. *)
Press(k)   == SendByte(k, TRUE)
LetGo(k)   == k \in held /\ SendByte(k, FALSE)
-----------------------------------------------------------------------------
(* The processor takes an interrupt before its next instruction. *)
Interrupted == irqOn /\ Intr(pic)
Running == ~Interrupted /\ frames = <<>>

(* HAL_Initialize. *)
Remap ==
  /\ boot = "remap"
  /\ pic' = RemapPic(pic)
  /\ stuck' = (bytes # <<>>)
  /\ boot' = "idt"
  /\ UNCHANGED <<idt, irqOn, frames, current, rested, bytes, keyVars>>

InitIdt ==
  /\ boot = "idt"
  /\ idt' = TRUE
  /\ pic' = ClearIrqMask(ClearIrqMask(ClearIrqMask(pic, Timer), Keyboard), Cascade)
  /\ irqOn' = TRUE
  /\ boot' = "pit"
  /\ UNCHANGED <<frames, current, rested, bytes, stuck, keyVars>>

(* cli, the three bytes for the 8253, sti. *)
SetPit ==
  /\ boot = "pit" /\ Running
  /\ boot' = "init_task"
  /\ UNCHANGED <<picVars, current, rested, bytes, stuck, keyVars>>

InitTask ==
  /\ boot = "init_task" /\ Running
  /\ current' = TRUE
  /\ boot' = "tasks"
  /\ UNCHANGED <<picVars, rested, bytes, stuck, keyVars>>

(* The gates: exceptions below 32, a handler that only writes a message for  *)
(* all else but the timer, the keyboard and the system calls.               *)
Gate(v) ==
  CASE v < 32 -> "exception"
    [] v = NEW_IRQ_0 -> "timer"
    [] v = NEW_IRQ_0 + 1 -> "keyboard"
    [] v = 128 -> "syscall"
    [] OTHER -> "default"

(* Mutation of KeepsIf: the keyboard gets a trap gate. *)
KeepsIfMutant(g) == g \in {"exception", "keyboard"}

(* An interrupt gate clears IF, a trap gate leaves it. *)
KeepsIf(g) == g = "exception"

Accept ==
  /\ Interrupted
  /\ LET l == Source(pic)
         g == IF idt THEN Gate(VectorOf(pic, l)) ELSE "none"
     IN  /\ frames' = Append(frames, [line |-> l, gate |-> g])
         /\ irqOn' = KeepsIf(g)
  /\ pic' = Acknowledge(pic)
  /\ UNCHANGED <<boot, idt, current, rested, bytes, stuck, keyVars>>

In(g) == frames # <<>> /\ Last(frames).gate = g
Iret == frames' = Front(frames) /\ irqOn' = TRUE

(* timer_irq0_handler, when the slice is not over.  Before init_task has set *)
(* current_task the slice is the word at address 26, the segment of a BIOS   *)
(* vector, which is not 0 on any BIOS we know.                              *)
TimerReturn ==
  /\ In("timer")
  /\ pic' = SendPicEoi(pic, Timer)
  /\ Iret
  /\ UNCHANGED <<boot, idt, current, rested, bytes, stuck, keyVars>>

(* Mutation of TimerSwitch: without the return behind schedule(), a second   *)
(* end of interrupt is sent.                                                *)
TimerSwitchMutant ==
  /\ In("timer") /\ current
  /\ pic' = SendPicEoi(SendPicEoi(pic, Timer), Timer)
  /\ frames' = <<>> /\ irqOn' = FALSE
  /\ UNCHANGED <<boot, idt, current, rested, bytes, stuck, keyVars>>

(* Mutation of TimerSwitch: the end of interrupt is left to the task's return. *)
TimerSwitchLateMutant ==
  /\ In("timer") /\ current
  /\ frames' = <<>> /\ irqOn' = FALSE
  /\ UNCHANGED <<boot, pic, idt, current, rested, bytes, stuck, keyVars>>

(* ... and when it is: schedule() goes on with another task, IF clear; what  *)
(* was interrupted only returns when it is its turn again.                  *)
TimerSwitch ==
  /\ In("timer") /\ current
  /\ pic' = SendPicEoi(pic, Timer)
  /\ frames' = <<>> /\ irqOn' = FALSE
  /\ UNCHANGED <<boot, idt, current, rested, bytes, stuck, keyVars>>

(* Mutation of Translated: shift is only looked at for keys that are released. *)
TranslatedMutant(b) == IF b.key \in Outside THEN Chars \union {NUL} ELSE {<<b.key, FALSE>>}

(* What key_info->key may become when a key goes down: a scancode behind the *)
(* end of the table gives whatever the linker has put there.                *)
Translated(b) == IF b.key \in Outside THEN Chars \union {NUL} ELSE {<<b.key, shift>>}

(* keyboard_irq1_handler: reading port 0x60 lets the next byte in, if any. *)
KeyboardHandler ==
  /\ In("keyboard")
  /\ LET b == Head(bytes)
     IN  IF b.key \in Shifts
         THEN shift' = b.make /\ sure' = (b.make \/ ~b.shifted) /\ UNCHANGED key
         ELSE (IF b.make THEN key' \in Translated(b) ELSE UNCHANGED key) /\ UNCHANGED <<shift, sure>>
  /\ bytes' = Tail(bytes)
  /\ pic' = SendPicEoi(IF Tail(bytes) = <<>> THEN pic ELSE Raise(pic, Keyboard), Keyboard)
  /\ Iret
  /\ UNCHANGED <<boot, idt, current, rested, stuck, held, sent>>

(* default_int_handler sends no end of interrupt: the line stays in service. *)
DefaultHandler ==
  /\ In("default")
  /\ Iret
  /\ UNCHANGED <<boot, pic, idt, current, rested, bytes, stuck, keyVars>>

(* An exception of the code that runs, and the end of its handler. *)
Fault ==
  /\ boot = "tasks" /\ irqOn /\ Running
  /\ frames' = <<[line |-> -1, gate |-> "exception"]>>
  /\ UNCHANGED <<boot, pic, idt, irqOn, current, rested, bytes, stuck, keyVars>>

ExceptionHandler ==
  /\ In("exception") /\ ~Interrupted
  /\ Iret
  /\ UNCHANGED <<boot, pic, idt, current, rested, bytes, stuck, keyVars>>
-----------------------------------------------------------------------------
(* Tasks and system calls: IF goes off and on again, get_key empties the     *)
(* mailbox, and time passes.                                                *)
Close ==
  /\ boot = "tasks" /\ irqOn /\ Running
  /\ irqOn' = FALSE
  /\ UNCHANGED <<boot, pic, idt, frames, current, rested, bytes, stuck, keyVars>>

Open ==
  /\ boot = "tasks" /\ ~irqOn /\ Running
  /\ irqOn' = TRUE
  /\ UNCHANGED <<boot, pic, idt, frames, current, rested, bytes, stuck, keyVars>>

GetKey ==
  /\ boot = "tasks" /\ Running
  /\ key' = NUL
  /\ UNCHANGED <<boot, picVars, current, rested, bytes, stuck, held, shift, sent, sure>>

Rest ==
  /\ irqOn /\ Running
  /\ rested' = TRUE
  /\ UNCHANGED <<boot, picVars, current, bytes, stuck, keyVars>>

Processor ==
  \/ Remap \/ InitIdt \/ SetPit \/ InitTask
  \/ Accept \/ TimerReturn \/ TimerSwitch \/ KeyboardHandler \/ DefaultHandler \/ ExceptionHandler
  \/ Open

Next ==
  \/ Processor
  \/ Fault \/ Close \/ GetKey \/ Rest
  \/ Tick \/ (\E l \in Wired : Device(l)) \/ (\E k \in Keys : Press(k) \/ LetGo(k))

Spec == Init /\ [][Next]_vars

(* The processor goes on: what runs ends, and a system call opens IF again   *)
(* (Sched, NeverDeaf).                                                      *)
FairSpec == Spec /\ WF_vars(Processor)
-----------------------------------------------------------------------------
Gates == {"none", "timer", "keyboard", "default", "syscall", "exception"}

TypeOK ==
  /\ boot \in {"remap", "idt", "pit", "init_task", "tasks"}
  /\ pic.irr \subseteq Line /\ pic.isr \subseteq Line /\ pic.imr \subseteq Line
  /\ \A j \in DOMAIN frames : frames[j].line \in Line \union {-1} /\ frames[j].gate \in Gates
  /\ Len(frames) <= 2
  /\ Len(bytes) <= MaxQueue /\ held \subseteq Keys
  /\ key \in Chars \union {NUL}
  /\ In("keyboard") => bytes # <<>>

(* Every interrupt comes through the gate that was made for its line: none    *)
(* before the table is loaded, none as an exception, which it would be at    *)
(* the vectors of the BIOS (pic.c:68).                                      *)
OwnGate ==
  \A j \in DOMAIN frames :
    frames[j].line # -1 =>
      frames[j].gate = CASE frames[j].line = Timer -> "timer"
                         [] frames[j].line = Keyboard -> "keyboard"
                         [] OTHER -> "default"

(* An end of interrupt names no line.  Even so the one that goes out of       *)
(* service is the sender's, though lines nobody acknowledges stay in service *)
(* for good and handlers are left half way for another task.                *)
EoiIsOwn ==
  [][boot # "remap" =>
       \A l \in pic.isr \ pic'.isr : frames # <<>> /\ Last(frames).line = l]_vars

(* A key gives the character it was typed for, a capital with a shift key     *)
(* down and only then, however late its byte is read: from the first time a *)
(* shift key is used, and not behind the release of one while the other is  *)
(* down (pic.c:217-218 keep one flag for both).                             *)
KeysTranslated ==
  [][bytes # <<>> /\ bytes' = Tail(bytes) /\ Head(bytes).make /\ Head(bytes).key \in Plain /\ sure
       => key' = <<Head(bytes).key, Head(bytes).shifted>>]_vars

(* A tick is always taken in the end ...                                     *)
TicksServed == idt /\ Timer \in pic.irr ~> Timer \notin pic.irr
(* ... and so is a key, but where a byte was waiting as the controllers were  *)
(* reset: it is never read, and keeps the keyboard's line up.               *)
KeysServed == idt /\ ~stuck /\ bytes # <<>> ~> bytes = <<>>

(* Ticks and keys are always taken in the end, whatever other lines, which    *)
(* nobody acknowledges, are asked for or in service.                        *)
LinesServed == TicksServed /\ KeysServed
=============================================================================
