-------------------------------- MODULE Sched --------------------------------
(***************************************************************************)
(* Tasks, the round-robin scheduler, the timer and keyboard interrupts and  *)
(* the system calls that block: scheduler/task.c and task.asm, the handlers *)
(* of interrupts/pic.c, interrupts/syscall.c, keyboard/keyboard.c and the   *)
(* boot thread of hal/hal.c, on one processor.                              *)
(*                                                                         *)
(* A thread of control is a kernel stack, a sequence of frames whose last   *)
(* one is executing; `at' is where that frame's code stands.  An interrupt  *)
(* pushes a frame, and is taken only while IF is set.  Code that runs with  *)
(* IF clear can still be followed step by step: the same schedule() runs    *)
(* with IF set when HAL_Initialize calls it.                                *)
(*                                                                         *)
(* Task 0 is what init_task makes.  Its saved context is the boot thread:   *)
(* HAL_Initialize's call of schedule() saves the boot stack in its esp.     *)
(***************************************************************************)
EXTENDS Integers, Sequences, SequencesExt

CONSTANTS
  NTasks,         \* tasks that get on the list, the idle task included
  Priority,       \* timer ticks a task may run: 5 for idle, 15 for a user task
  TickMs,         \* 10
  ClockMod,       \* 2^32: kernel_timer_ms is a uint32_t
  SleepTimes,     \* arguments of SYS_SLEEP
  KeyCodes,       \* what the scancode table can give: NUL and characters
  LoadMayFail,    \* whether the userland module may be missing or rejected
  MaxBootTicks    \* bound: ticks the boot thread may take before it is switched away

Task   == 0 .. (NTasks - 1)
NoTask == -1
NUL    == 0

ASSUME SchedAssumption ==
  /\ NTasks \in Nat \ {0}
  /\ Priority \in [Task -> Nat] /\ \A t \in Task : Priority[t] > 1 /\ Priority[t] > MaxBootTicks
  /\ TickMs \in Nat \ {0} /\ ClockMod \in Nat \ {0} /\ TickMs < ClockMod
  /\ SleepTimes \subseteq 0 .. (ClockMod - 1)
  /\ NUL \in KeyCodes /\ KeyCodes \subseteq Nat
  /\ LoadMayFail \in BOOLEAN
  /\ MaxBootTicks \in Nat

VARIABLES
  listed,       \* how many tasks are on the list headed by `task'
  tstate,       \* Task.state
  slice,        \* Task.time_slice
  wake,         \* Task.wake_tick
  cur,          \* current_task
  tss,          \* the task whose stack top is in g_TSS.esp0
  esp,          \* Task.esp: the saved stack and the flags pushed on it
  stack,        \* the stack the processor runs on
  irqOn,        \* EFLAGS.IF
  clock,        \* kernel_timer_ms
  key,          \* key_info->key
  got,          \* history: what the task's last sys_getkey returned
  typed,        \* history: a key was pressed since the task entered get_key
  left,         \* history: clock time the task still has to sleep
  overflowed,   \* history: the clock or a wake time has passed 2^32
  bootTicks,    \* history: ticks taken by the boot thread
  nullTick      \* history: the timer found current_task NULL

taskVars  == <<listed, tstate, slice, wake>>
cpuVars   == <<cur, tss, esp, stack, irqOn>>
keyVars   == <<key, got, typed>>
ghostVars == <<left, overflowed, bootTicks, nullTick>>
vars == <<taskVars, cpuVars, clock, keyVars, ghostVars>>

Listed == 0 .. (listed - 1)
Asleep == {"BLOCKED", "COMPLETED"}

(* A frame of the base of a stack names its owner; one of schedule() holds *)
(* its locals, and whether a tick has hit its unprotected stretch.         *)
Frame(l)      == [at |-> l, owner |-> NoTask, prev |-> NoTask, start |-> NoTask, hit |-> FALSE]
Base(l, t)    == [Frame(l) EXCEPT !.owner = t]
Top           == Last(stack)
At(l)         == Top.at = l
Owner(s)      == Head(s).owner
Moved(s, l)   == [s EXCEPT ![Len(s)].at = l]
Goto(l)       == stack' = Moved(stack, l)
ScheduleCall  == Frame("sched_enter")
Booting       == Head(stack).at \in {"boot_load", "boot_sched"}
InSchedule    == {"sched_enter", "sched_next", "sched_wrap", "sched_loop", "sched_spin",
                  "sched_cli", "sched_test", "sched_run", "sched_switch"}

(* After init_task: the idle task is alone on the list, setup_stack has     *)
(* given it a context that starts idle_task, and the boot thread goes on to *)
(* load the userland module with interrupts enabled (idt.c:83).             *)
Init ==
  /\ listed = 1
  /\ tstate = [t \in Task |-> "READY"]
  /\ slice = Priority
  /\ wake = [t \in Task |-> 0]
  /\ cur = 0
  /\ tss = NoTask
  /\ esp = [t \in Task |-> [stack |-> <<Base(IF t = 0 THEN "idle" ELSE "trampoline", t)>>,
                            flags |-> TRUE]]
  /\ stack = <<Base("boot_load", 0)>>
  /\ irqOn = TRUE
  /\ clock = 0
  /\ key = NUL
  /\ got = [t \in Task |-> NoTask]
  /\ typed = [t \in Task |-> FALSE]
  /\ left = [t \in Task |-> 0]
  /\ overflowed = FALSE
  /\ bootTicks = 0
  /\ nullTick = FALSE
-----------------------------------------------------------------------------
(* HAL_Initialize. *)

(* create_user_task_from_elf, up to the append; create_task appends alike. *)
CreateUserTask ==
  /\ At("boot_load") /\ listed < NTasks
  /\ listed' = listed + 1
  /\ UNCHANGED <<tstate, slice, wake, cpuVars, clock, keyVars, ghostVars>>

(* The last line of HAL_Initialize, with or without a user task. *)
BootSchedule ==
  /\ At("boot_load") /\ (listed = NTasks \/ LoadMayFail)
  /\ stack' = Append(Moved(stack, "boot_sched"), ScheduleCall)
  /\ UNCHANGED <<taskVars, cur, tss, esp, irqOn, clock, keyVars, ghostVars>>
-----------------------------------------------------------------------------
(* schedule(), line by line. *)

Unrunnable(t) == tstate[t] \in Asleep

(* prev and start are read; the task that is left is PAUSED if it could go on. *)
SchedEnter ==
  /\ At("sched_enter")
  /\ tstate' = [tstate EXCEPT ![cur] = IF Unrunnable(cur) THEN @ ELSE "PAUSED"]
  /\ stack' = Append(Front(stack), [Top EXCEPT !.at = "sched_next", !.prev = cur, !.start = cur])
  /\ UNCHANGED <<listed, slice, wake, cur, tss, esp, irqOn, clock, keyVars, ghostVars>>

(* Mutation of NextOnList: the first task behind the head every time. *)
NextOnListMutant(t) == IF listed > 1 THEN 1 ELSE NoTask

(* The next field; it is null in the last task of the list. *)
NextOnList(t) == IF t + 1 < listed THEN t + 1 ELSE NoTask

(* current_task = current_task->next, stored before it is tested. *)
SchedNext ==
  /\ At("sched_next")
  /\ cur' = NextOnList(cur)
  /\ Goto("sched_wrap")
  /\ UNCHANGED <<taskVars, tss, esp, irqOn, clock, keyVars, ghostVars>>

SchedWrap ==
  /\ At("sched_wrap")
  /\ cur' = IF cur = NoTask THEN 0 ELSE cur
  /\ Goto("sched_loop")
  /\ UNCHANGED <<taskVars, tss, esp, irqOn, clock, keyVars, ghostVars>>

(* Back where the walk began: sti, and on to the loop that halts. *)
SchedLoop ==
  /\ At("sched_loop")
  /\ IF cur = Top.start
     THEN Goto("sched_spin") /\ irqOn' = TRUE
     ELSE Goto("sched_test") /\ UNCHANGED irqOn
  /\ UNCHANGED <<taskVars, cur, tss, esp, clock, keyVars, ghostVars>>

(* The halt loop is left as soon as the task it began with can run. *)
SchedSpin ==
  /\ At("sched_spin") /\ ~Unrunnable(cur)
  /\ Goto("sched_cli")
  /\ UNCHANGED <<taskVars, cur, tss, esp, irqOn, clock, keyVars, ghostVars>>

SchedCli ==
  /\ At("sched_cli")
  /\ irqOn' = FALSE
  /\ Goto("sched_test")
  /\ UNCHANGED <<taskVars, cur, tss, esp, clock, keyVars, ghostVars>>

(* Mutation of SchedTest: sleepers are run. *)
SchedTestMutant ==
  /\ At("sched_test")
  /\ Goto(IF tstate[cur] = "COMPLETED" THEN "sched_next" ELSE "sched_run")
  /\ UNCHANGED <<taskVars, cur, tss, esp, irqOn, clock, keyVars, ghostVars>>

SchedTest ==
  /\ At("sched_test")
  /\ Goto(IF Unrunnable(cur) THEN "sched_next" ELSE "sched_run")
  /\ UNCHANGED <<taskVars, cur, tss, esp, irqOn, clock, keyVars, ghostVars>>

SchedRun ==
  /\ At("sched_run")
  /\ tstate' = [tstate EXCEPT ![cur] = "RUNNING"]
  /\ tss' = cur
  /\ Goto("sched_switch")
  /\ UNCHANGED <<listed, slice, wake, cur, esp, irqOn, clock, keyVars, ghostVars>>

(* Mutation of SwitchTask: prev is read again from current_task. *)
SwitchTaskMutant ==
  /\ At("sched_switch")
  /\ esp' = [esp EXCEPT ![cur] = [stack |-> Moved(stack, "sched_back"), flags |-> irqOn]]
  /\ stack' = esp'[cur].stack
  /\ irqOn' = esp'[cur].flags
  /\ UNCHANGED <<taskVars, cur, tss, clock, keyVars, ghostVars>>

(* Mutation of SwitchTask: the flags are not part of the saved context. *)
SwitchTaskFlagsMutant ==
  /\ At("sched_switch")
  /\ esp' = [esp EXCEPT ![Top.prev] = [stack |-> Moved(stack, "sched_back"), flags |-> irqOn]]
  /\ stack' = esp'[cur].stack
  /\ UNCHANGED <<taskVars, cur, tss, irqOn, clock, keyVars, ghostVars>>

(* switch_task: the flags and registers go on the old stack, whose address  *)
(* goes to prev->esp, and the new stack gives its own back.                 *)
SwitchTask ==
  /\ At("sched_switch")
  /\ esp' = [esp EXCEPT ![Top.prev] = [stack |-> Moved(stack, "sched_back"), flags |-> irqOn]]
  /\ stack' = esp'[cur].stack
  /\ irqOn' = esp'[cur].flags
  /\ UNCHANGED <<taskVars, cur, tss, clock, keyVars, ghostVars>>

(* schedule() returns to whoever called it. *)
SchedReturn ==
  /\ At("sched_back")
  /\ LET below == Front(stack)
         caller == Last(below).at
     IN  CASE caller \in {"timer", "sleep"} ->      \* iret restores IF
                stack' = Front(below) /\ irqOn' = TRUE
           [] caller = "boot_sched" ->              \* HAL returns: no_exit
                stack' = Moved(below, "halt") /\ UNCHANGED irqOn
           [] caller = "exit" ->
                stack' = Moved(below, "exited") /\ UNCHANGED irqOn
  /\ UNCHANGED <<taskVars, cur, tss, esp, clock, keyVars, ghostVars>>

(* task_entry_trampoline, usermode_trampoline, enter_usermode. *)
EnterUsermode ==
  /\ At("trampoline")
  /\ Goto("user")
  /\ irqOn' = TRUE
  /\ UNCHANGED <<taskVars, cur, tss, esp, clock, keyVars, ghostVars>>
-----------------------------------------------------------------------------
(* Interrupts. *)

(* At most one tick falls between the sti of schedule() and its cli, a few  *)
(* instructions apart, unless the processor halts there; the boot thread   *)
(* takes at most MaxBootTicks.                                             *)
TickMayFall ==
  /\ irqOn
  /\ At("sched_spin") => (Unrunnable(cur) \/ ~Top.hit)
  /\ At("sched_cli") => ~Top.hit
  /\ Booting => bootTicks < MaxBootTicks

Expired(t) == tstate[t] = "BLOCKED" /\ clock' >= wake[t]

Charge(t) == IF slice[t] > 0 THEN slice[t] - 1 ELSE 0

TickTime ==
  /\ clock' = (clock + TickMs) % ClockMod
  /\ overflowed' = (overflowed \/ clock + TickMs >= ClockMod)
  /\ left' = [t \in Task |-> IF left[t] > TickMs THEN left[t] - TickMs ELSE 0]
  /\ bootTicks' = IF Booting THEN bootTicks + 1 ELSE bootTicks

(* Mutations of Unblock: the clock of the tick before, only on equality. *)
UnblockMutant == tstate' = [t \in Task |->
  IF t \in Listed /\ tstate[t] = "BLOCKED" /\ clock >= wake[t] THEN "READY" ELSE tstate[t]]
UnblockExactMutant == tstate' = [t \in Task |->
  IF t \in Listed /\ tstate[t] = "BLOCKED" /\ clock' = wake[t] THEN "READY" ELSE tstate[t]]

(* The walk over the list that ends expired sleeps. *)
Unblock == tstate' = [t \in Task |->
  IF t \in Listed /\ Expired(t) THEN "READY" ELSE tstate[t]]

Struck == [Top EXCEPT !.hit = Top.at \in {"sched_spin", "sched_cli"}]

(* The slice is given back, and schedule() runs on top of the interrupt. *)
SliceEnd ==
  /\ slice' = [slice EXCEPT ![cur] = Priority[cur]]
  /\ stack' = Front(stack) \o <<Struck, Frame("timer"), ScheduleCall>>
  /\ irqOn' = FALSE

(* timer_irq0_handler: the gate clears IF, so it runs undisturbed up to the *)
(* iret or into schedule().  Without a current task it charges the word at *)
(* address 26 of the interrupt vector table, which is not 0.               *)
TimerIrq ==
  /\ TickMayFall
  /\ TickTime
  /\ Unblock
  /\ IF cur = NoTask
     THEN nullTick' = TRUE /\ UNCHANGED <<slice, stack, irqOn>>
     ELSE /\ UNCHANGED nullTick
          /\ IF Charge(cur) = 0
             THEN SliceEnd
             ELSE /\ slice' = [slice EXCEPT ![cur] = Charge(cur)]
                  /\ stack' = Append(Front(stack), Struck)
                  /\ UNCHANGED irqOn
  /\ UNCHANGED <<listed, wake, cur, tss, esp, keyVars>>

(* keyboard_irq1_handler for the press of a key: the one-byte mailbox takes *)
(* what the table has for it, NUL for Tab, Alt or a function key.           *)
KeyboardIrq ==
  /\ irqOn
  /\ \E k \in KeyCodes :
       /\ key' = k
       /\ typed' = [t \in Task |-> typed[t] \/ k # NUL]
  /\ UNCHANGED <<taskVars, cpuVars, clock, got, ghostVars>>
-----------------------------------------------------------------------------
(* System calls, through an interrupt gate: IF is clear until they return. *)

(* Mutation of SyscallGate: a trap gate. *)
SyscallGateMutant == irqOn' = irqOn

(* The interrupt gate of idt.c:69 (INT_GATE_USER_FLAGS) clears IF. *)
SyscallGate == irqOn' = FALSE

(* Mutation of WakeTime: the sum is not cut to 32 bits. *)
WakeTimeMutant(ms) == clock + ms

(* The absolute wake time, a uint32_t. *)
WakeTime(ms) == (clock + ms) % ClockMod

(* syscall_sleep; sleep(0) does nothing. *)
SysSleep(ms) ==
  /\ At("user") /\ ms # 0
  /\ wake' = [wake EXCEPT ![cur] = WakeTime(ms)]
  /\ tstate' = [tstate EXCEPT ![cur] = "BLOCKED"]
  /\ left' = [left EXCEPT ![cur] = ms]
  /\ overflowed' = (overflowed \/ clock + ms >= ClockMod)
  /\ stack' = stack \o <<Frame("sleep"), ScheduleCall>>
  /\ SyscallGate
  /\ UNCHANGED <<listed, slice, cur, tss, esp, clock, keyVars, bootTicks, nullTick>>

(* syscall_exit. *)
SysExit ==
  /\ At("user")
  /\ tstate' = [tstate EXCEPT ![cur] = "COMPLETED"]
  /\ stack' = stack \o <<Frame("exit"), ScheduleCall>>
  /\ SyscallGate
  /\ UNCHANGED <<listed, slice, wake, cur, tss, esp, clock, keyVars, ghostVars>>

(* Mutation of SysGetkey: the mailbox is not emptied first. *)
SysGetkeyMutant ==
  /\ At("user")
  /\ typed' = [typed EXCEPT ![cur] = FALSE]
  /\ got' = [got EXCEPT ![cur] = NoTask]
  /\ stack' = Append(stack, Frame("key_wait"))
  /\ UNCHANGED <<taskVars, cur, tss, esp, irqOn, clock, key, ghostVars>>

(* syscall_getkey, get_key: forget what was typed before, sti, and wait. *)
SysGetkey ==
  /\ At("user")
  /\ key' = NUL
  /\ typed' = [typed EXCEPT ![cur] = FALSE]
  /\ got' = [got EXCEPT ![cur] = NoTask]
  /\ stack' = Append(stack, Frame("key_wait"))
  /\ UNCHANGED <<taskVars, cur, tss, esp, irqOn, clock, ghostVars>>

(* while (!key_info->key) hlt: the test that ends the wait. *)
KeySeen ==
  /\ At("key_wait") /\ key # NUL
  /\ Goto("key_seen")
  /\ UNCHANGED <<taskVars, cur, tss, esp, irqOn, clock, keyVars, ghostVars>>

(* cli, then the second read of the mailbox, which is emptied; iretd. *)
KeyTaken ==
  /\ At("key_seen")
  /\ got' = [got EXCEPT ![cur] = key]
  /\ key' = NUL
  /\ stack' = Front(stack)
  /\ UNCHANGED <<taskVars, cur, tss, esp, irqOn, clock, typed, ghostVars>>

Kernel ==
  \/ CreateUserTask \/ BootSchedule
  \/ SchedEnter \/ SchedNext \/ SchedWrap \/ SchedLoop \/ SchedSpin \/ SchedCli
  \/ SchedTest \/ SchedRun \/ SwitchTask \/ SchedReturn
  \/ EnterUsermode
  \/ KeySeen \/ KeyTaken

User == (\E ms \in SleepTimes : SysSleep(ms)) \/ SysExit \/ SysGetkey

Next == Kernel \/ User \/ TimerIrq \/ KeyboardIrq

Spec == Init /\ [][Next]_vars

(* The processor goes on executing kernel code, and the PIT keeps raising   *)
(* IRQ0, which the PIC holds until IF is set.  Nothing is assumed of user   *)
(* code or of the person at the keyboard.                                   *)
FairSpec == Spec /\ WF_vars(Kernel) /\ SF_vars(TimerIrq)
-----------------------------------------------------------------------------
Labels == InSchedule \union
  {"boot_load", "boot_sched", "halt", "idle", "trampoline", "user",
   "sleep", "exit", "exited", "key_wait", "key_seen", "timer", "sched_back"}
Frames == [at : Labels, owner : Task \union {NoTask}, prev : Task \union {NoTask},
           start : Task \union {NoTask}, hit : BOOLEAN]
Stacks == Seq(Frames)

TypeOK ==
  /\ listed \in 1 .. NTasks
  /\ tstate \in [Task -> {"READY", "RUNNING", "PAUSED", "COMPLETED", "BLOCKED"}]
  /\ slice \in [Task -> Nat]
  /\ wake \in [Task -> 0 .. (ClockMod - 1)]
  /\ cur \in Task \union {NoTask}
  /\ tss \in Task \union {NoTask}
  /\ esp \in [Task -> [stack : Stacks, flags : BOOLEAN]]
  /\ stack \in Stacks
  /\ irqOn \in BOOLEAN
  /\ clock \in 0 .. (ClockMod - 1)
  /\ key \in KeyCodes
  /\ got \in [Task -> KeyCodes \union {NoTask}]
  /\ typed \in [Task -> BOOLEAN]
  /\ left \in [Task -> Nat]
  /\ overflowed \in BOOLEAN
  /\ bootTicks \in 0 .. MaxBootTicks
  /\ nullTick \in BOOLEAN

(* schedule() moves current_task ahead of the stack; everywhere else the    *)
(* stack the processor runs on belongs to current_task, and the stack a     *)
(* task's esp points to is the task's own: no task resumes as another.  In  *)
(* ring 3 it is also the one RUNNING task, and an interrupt or system call  *)
(* will find its own kernel stack in esp0 (task.c:141-142).                 *)
StackOwner ==
  /\ \A t \in Task : Owner(esp[t].stack) = t
  /\ Top.at \notin InSchedule => Owner(stack) = cur
  /\ At("user") => tstate[cur] = "RUNNING" /\ tss = cur

(* A sleep ends at the first tick at which the time asked for has passed on *)
(* the kernel's clock, no tick earlier and no tick later (pic.c:114), until *)
(* the clock or a wake time passes 2^32.                                    *)
SleepExact ==
  ~overflowed => \A t \in Task : tstate[t] = "BLOCKED" <=> left[t] > 0

(* The timer handler never runs while schedule() is past the end of the     *)
(* list, where a tick would be charged to a task at address 0: only if there *)
(* is no user task may HAL's own call of schedule() be hit there.           *)
TicksHaveATask == nullTick => listed = 1

(* The halt loop is entered only with a task that can run, as the idle task *)
(* is always found before it.                                               *)
SpinEnds == At("sched_spin") => ~Unrunnable(cur)

(* A kernel stack never holds more than a system call, a timer interrupt of *)
(* its wait and one schedule(): handlers do not pile up on 4 KiB.           *)
StackBounded ==
  /\ Len(stack) <= 4
  /\ \A t \in Task : Len(esp[t].stack) <= 4

(* The walk of schedule() over the list may be interrupted and entered      *)
(* again, and does no harm: no tick is lost on a null task, the halt loop is *)
(* no trap, stacks stay within bounds, and the walk never comes back to a   *)
(* task that has exited (syscall.c:77 "schedule() never returns here").     *)
WalkSound == TicksHaveATask /\ SpinEnds /\ StackBounded /\ ~At("exited")

(* A character that getkey returns was pressed after the call: type-ahead   *)
(* and what another task left in the mailbox are never returned.            *)
KeyFresh == \A t \in Task : got[t] \in KeyCodes \ {NUL} => typed[t]

(* The kernel implements the life of its tasks. *)
TasksOf(s) == {t \in Task : tstate[t] = s}
Abstract == INSTANCE Tasks WITH
  None     <- NoTask,
  running  <- IF TasksOf("RUNNING") = {} THEN NoTask
              ELSE CHOOSE t \in Task : tstate[t] = "RUNNING",
  sleeping <- TasksOf("BLOCKED"),
  ended    <- TasksOf("COMPLETED")
ImplementsTasks == Abstract!TasksSpec

(* A task that can run gets the processor: nobody, by running, waiting for  *)
(* a key or sleeping over and over, keeps it from the others.               *)
NoStarvation ==
  \A t \in Task : (t \in Listed /\ tstate[t] \in {"READY", "PAUSED"})
                    ~> tstate[t] = "RUNNING"

(* What kernel_timer_ms can ever be: it skips values, and 10 does not       *)
(* divide 2^32.                                                            *)
ClockValues == {(n * TickMs) % ClockMod : n \in 0 .. (ClockMod - 1)}

(* A sleeper wakes if its wake time is not past every value of the clock. *)
SleeperWakes ==
  \A t \in Task : (tstate[t] = "BLOCKED" /\ \E c \in ClockValues : c >= wake[t])
                    ~> tstate[t] # "BLOCKED"

(* Once there is a user task the system never goes deaf: IF is set again    *)
(* and again (task.asm:18, "otherwise interrupt flag might missed and cause *)
(* the system freeze").  Without one it does: schedule() returns to the boot *)
(* thread, which is then the idle task of task.c:14 that should "sleep until *)
(* the next interrupt", with IF clear, and no_exit halts for good.          *)
NeverDeaf == <>(listed > 1) => []<>irqOn
=============================================================================
