# ToyKernel: a TLA+ verification project

ToyKernel is a 32-bit x86 hobby kernel with its own two-stage boot loader and
one userland program. This directory holds TLA+ modules that model its control,
TLC configurations that check them on small instances, and TLAPS proofs for all
instances of every invariant that those runs check.

All paths below are relative to the repository; `kernel/` is `src/kernel/`,
`stage1/` and `stage2/` are under `src/bootloader/`.

## 1. Inventory

| Component | State | Operations | What makes it correct |
|---|---|---|---|
| Physical memory manager, `kernel/mm/pmm/pmm.c` | bitmap, count of used frames, limit | boot reservations, allocate one/by frames/by bytes, release one/by size | one owner per frame, no leak, count = bitmap, reserved regions stay reserved |
| Virtual memory, `kernel/mm/vmm/vmm.c` | page directory, tables, CR3 | initial mappings, `map_page`, `map_page_user`, `allocate_page` | fixed mappings survive, ring 3 reaches only its own frames, physical pointers hit their frame |
| Kernel heap, `kernel/mm/handler/malloc.c` | block list, page count | `malloc_init`, `malloc_next_block`, split, merge, free | payloads disjoint, blocks tile the heap, used = live |
| Tasks and scheduler, `kernel/scheduler/` | task list, state, slice, wake time, `current_task`, saved stacks, `esp0` | creation, `schedule()`, `switch_task`, exit | a task resumes on its own stack, no starvation, an exited task never runs |
| Interrupts, `kernel/interrupts/pic.c`, `kernel/keyboard/` | clock, one-byte key mailbox, shift flag | IRQ0, IRQ1, `get_key` | exact sleeps, bounded stacks, fresh keys, a key is the character typed |
| Interrupt controllers and gates, `kernel/interrupts/pic.c`, `idt.c` | requests, service and masks of two 8259s, IDTR | remap, unmask, end of interrupt, the default handlers | every line comes through its own gate, timer and keyboard are always served |
| System calls, `kernel/interrupts/syscall.c` | none of their own | sleep, malloc, free, print, exit, getkey | see the components they call |
| Console, `kernel/drivers/display/screen.c`, `stage2/stdio.c` | video memory, cursor | `put_c`, `scrollback`, `clrscr`, in two copies | the screen is the tail of what was written |
| printf, `kernel/lib/stdio.c`, `stage2/stdio.c`, `userland/lib/stdio.h` | the state of a call | `printf`, in three copies | each directive writes its own argument and leaves nothing behind |
| Userland, `userland/Umain.c`, `userland/lib/stdio.h` | line buffer, prompt number | prompt, `readline`, echo | the line is the keys as edited, and so is what the screen shows of it |
| ELF loader and HAL, `kernel/loader/elf.c`, `kernel/hal/` | none after boot | load segments, map the stack, the boot order | the user task finds the file it was built from |
| Boot sector, `stage1/boot.asm` | cluster, load address | find and load STAGE2.BIN, jump | it jumps only to the whole file |
| Stage 2, `stage2/main.c`, `fat.c`, `disk.c`, `memdetects.c` | FAT, root directory, ten file handles, buffers, memory map | initialise, find, open, read, close, copy, detect memory | both files are copied byte for byte, loading ends, usable memory is counted |
| Stage 2's frame and page managers, `stage2/mm/` | a bitmap and page tables of its own | set up, unmap the kernel low, jump | nothing still in use is overwritten, the jump lands |
| GDT, TSS, the tables of `arch/i686` | written once or never loaded | | see section 8 |

How they interact. Stage 1 loads stage 2; stage 2 leaves the kernel at 1 MiB,
the module at 0x50000 and the boot parameters in its own memory, builds page
tables and jumps. The kernel starts a bitmap of its own on those tables, which
its bitmap has as free frames, and builds its own tables before it reads the
parameters and the module. Both write to the same video memory, each with a
console and a `printf` of its own. `HAL_Initialize` sets up frames, paging, the
PIC and the IDT, makes the idle task (the first `malloc`, and so the heap's
first pages), loads the module and calls `schedule()`. From then on control
moves by interrupts only: IRQ0 charges the slice of `current_task`, wakes
sleepers and may call `schedule()` on top of the interrupted stack; system calls
enter through an interrupt gate with IF clear, and `sys_getkey` opens IF again
while it waits for IRQ1 to fill the mailbox. `malloc` takes frames from the
allocator and maps them.

What is hard: `schedule()` moves `current_task` long before it moves the stack,
and runs with IF set when HAL calls it and in its halt loop; the mailbox is
tested and read in two steps; an end of interrupt names no line, and the
handlers of all lines but two send none; the clock and wake times are 32 bits;
the heap's walks treat the last block specially; memory can run out between any
two calls whose results are not looked at; every disk read can fail and be tried
again. `PROJECT.json` lists these hazards at their lines.

## 2. Plan

Order, by importance:

1. `FrameAlloc`, `Pmm`, `PmmProofs`: frames. Done, proved.
2. `Tasks`, `Sched`, `SchedProofs`: tasks, interrupts, blocking system calls.
   Done, proved but for liveness.
3. `Heap`, `HeapProofs`: the kernel heap. Done, proved.
4. `Vmm`, `Handover`, `Loader`, `LoaderProofs`: paging, the switch from stage 2
   to the kernel and the boot of the kernel. Done, proved.
5. `Fat12`, `Stage1`, `Stage2`, `Boot`, `BootProofs`: the boot loader. Done,
   proved but for liveness.
6. `Screen`, `Printf`, `Formats`, `PrintfProofs`, `Shell`, `Console`,
   `ConsoleProofs`: both consoles, the three copies of `printf`, the user program.
   Done, proved.
7. `Pic`, `Interrupts`, `InterruptsProofs`: the controllers, the gates, the order
   in which they are set up, the translation of keys. Done, proved but for
   liveness.
8. Left: the boot parameters and the memory map between `Stage2` and `Loader`.

The abstract specifications are `FrameAlloc` (a set-based allocator, implemented
by `Pmm`) and `Tasks` (the life of a task on one processor, implemented by
`Sched`). `Loader` continues `Handover`; both work on the memory of `Vmm`,
which carries its own view of frames. `Boot` composes `Stage1` and `Stage2` over
the disk of `Fat12`. `Console` composes stage 2, the kernel and `Shell` on the
screen of `Screen`; `Formats` is the reference the automaton of `Printf` is
checked against. `Interrupts` works on the controllers of `Pic`.

## 3. The modules and the code

### Pmm
`marked` is `BIT_MAP`, `used` is `TOTAL_USED_BLOCKS`, `next` walks through the
calls of `reserve_memory_block` that `INIT_MEMORY` makes, given by the constant
`Regions`. `reserved`, `runs` and `ret` are history. One action per function;
each C function is one step, for the kernel never lets two of them overlap: they
run at boot or behind an interrupt gate. The scan ends at a word boundary and a
run may be tested beyond the last word, so `Frames` goes further than memory and
`Junk` is what lies behind the zeroed bitmap. Callers release what they hold,
once: nothing in the kernel calls the release functions today, so this is a
precondition of the module and not a fact about callers.

### Sched and Tasks
A thread of control is a stack, a sequence of frames, the last executing.
Interrupts push a frame. `schedule()` is cut at every statement, because an
interrupt may fall there whenever IF is set; with IF clear the same steps just
run on. `esp[t]` is the saved stack and flags. Task 0 is the idle task. Its
saved context is soon the boot thread: `HAL_Initialize` calls `schedule()` while
`current_task` is the idle task, so the boot stack goes into its `esp`, and
`idle_task()` itself is never entered; the idle task is `no_exit`.
System calls of a ring-3 task are actions that need `At("user")`.
`left`, `typed`, `got`, `overflowed`, `bootTicks` and `nullTick` are history.

### Heap
The list is a sequence of blocks, addresses are units. `malloc` and `free` run
with IF clear, one action each, with the merge behind them. `FirstMalloc` is
`init_task`'s. From two states on the code works on overlapping blocks, where
what happens depends on the bytes in them: after a used last block was handed
out again, and after a block inside the list was grown. `wild` records that, and
the model stops there. The frames of the pages come from `allocate_page` and
those of their tables from `map_page`, and no caller looks at what either
returns: a page without a frame goes on frame 0 (`noFrame`), one without a table
is not mapped (`Unmapped`). The first pages are one run: `allocate_block` compares
with the limit before the run and not with its end (`pmm.c:143`), so that `frames`
may fall below 0, and where it fails page i goes on frame i. While at most one page
has no frame of its own and all are mapped the heap is `Backed`; otherwise bytes
are shared or a write faults for ever, and the model stops there too. `elsewhere`
is what the loader takes before the second `malloc` (`LoadModule`). `MallocHang` is
the loop of an 8-bit counter that cannot reach 256. `Merged` is the walk of `merge_free_blocks`, as a function of the block
it has come to (`from[i]` is what it makes of the blocks from the i-th on).

### Vmm, Handover and Loader
`Vmm` has no variables: memory is a record that operators map to a new record,
as one C function strings several calls together. `Reach` is the address
translation the CPU does: a pointer made from a physical address is used as a
virtual one, by the tables CR3 points to at that moment (`cr3`): none, those of
stage 2, or the kernel's. `Handover` is the end of stage 2's `main` up to the
jump, on its own bitmap and tables; where its image ends and where in it the
boot parameters lie is up to the linker, so both are chosen freely (`layout`).
`Loader` is `HAL_Initialize` and `elf_load` page by page, then heap growth.
`content` says of every unit of memory which unit was there at boot.
The frame allocator inside `Vmm` is `allocate_block` over the frames of memory;
`Pmm` is its full model. `MapPage` is both `map_page` and, with `user`,
`map_page_user`: the table that is there or a new one (`WithTable`), then the
entry. Two loops are one step each, for nothing happens beside them: that of
`main` over the pages of the kernel (`UnmapFrom`) and that of `malloc_init`
(`HeapMapped`). The assumptions on the constants are the memory map of
`memdefs.h` and the linker scripts; section 7 lists them.

### Fat12, Stage1, Stage2, Boot
A sector is told apart by its LBA. A read is asked, fails up to three times or
is delivered, so a failure can fall on every read. Both conversions between LBA
and cylinder, head, sector are there, and a read brings the sector the BIOS
really reads. A FAT entry is put together from the bytes two clusters share.
`DISK_Initialize` asks for the geometry of `disk->id` before it is set; the
answer is any member of `Geometries`, or a failure. `Volumes` are such as mkfs.fat
and mcopy make (`VolumesAssumption`); `ChainOn` follows a chain on the volume
itself, and is what the properties compare with. An entry of the root
directory is one unit. `loaded` is what `main` has copied, chunk by chunk.
`DetectMemory` asks the BIOS for one block of the map at a time; `memory.bios`
is the map it has. `TotalMemory` is the sum the frame managers make of it.

### Screen, Printf, Formats, Shell and Console
`Screen` has no variables: the screen is a record that `PutC` (the kernel) and
`Stage2PutC` map to a new one, with video memory as one flat array. `Printf` is
the automaton of the three `printf`s, one `Round` per character of the format, and
`Loop` the rounds of a call; the copies differ in what they reset behind a
directive and in the text for a null pointer. `Formats` says what a call should
write, by the manual: `WellFormed` is a call the manual allows, a sequence of
characters and known directives with words enough for them, `Reading` what it
writes and how many words it takes, with no state from one item to the next, the
argument of `h` or `hh` converted to its type. `ShortsFit` are the calls in which
that changes nothing, for no copy of `printf` does it (section 5), and
`NumbersLast` the calls in which stage 2's copy does not show that it forgets to
reset `number`. `Shell` is `_start`: `out` holds the
characters of the `sys_putc` calls ahead, so that every system call is a step;
SYS_PUTC runs behind an interrupt gate and is one. A key is any of `Keys`,
control characters and the NUL of a raced `get_key` included. `Console` puts
stage 2 and the messages of the loader before it. `page` and `typed` are history.
`page` is all text on paper without end; it knows neither wrapping nor scrolling,
which is what makes it a reference for the screen. It takes a tab for what the
loop of `'\t'` comes to, which looks at the column it moves: two blanks, in the
third column of four one, in the fourth three.

### Pic and Interrupts
`Pic` has no variables: the pair of 8259s is a record. What the chips do with a
request, an acknowledgement and an end of interrupt is external; `RemapPic`,
`ClearIrqMask` and `SendPicEoi` are `pic.c`. `Interrupts` is what `Sched` leaves
out: `HAL_Initialize` call by call from `remap_pic` on, devices that may raise
their line at any time, gates that clear IF or do not, and handlers as a stack of
`frames`. Tasks are reduced to code with IF set or clear. When a slice ends the
handler is abandoned for another task (`TimerSwitch`), which is where a missing
or a second end of interrupt would be noticed. A byte of the keyboard waits in
`bytes` with the shift keys that were down when it was sent (`shifted`), which the
driver cannot see; `sure` says that its one flag can be right: a shift key has
set it since boot, and the last release left no other down. `stuck` says that a byte was
waiting when ICW1 cleared the requests. `Rest` says that the processor got back to
ordinary code between two ticks. The RTC has no handler
installed (`idt.c:73`, `idt.c:81`), and its line is masked or comes through the
default gate, like every other member of `Wired`.

## 4. The runs

| Run | What it asks | Bounds |
|---|---|---|
| `pmm` | one owner, exact bitmap and count, regions protected, implements `FrameAlloc` | 28 pages, words and bytes of 2 bits, runs of 0 to 3 frames, 5 regions |
| `pmm_kernel` | *violated*: the frames of the kernel image are handed out | the same |
| `pmm_limit` | *violated*: allocation fails while frames are free | 16 pages, otherwise the same |
| `sched` | stacks, the walk of `schedule()`, sleeps, keys; implements `Tasks` | 3 tasks, priorities of 2 ticks, clock modulo 6 |
| `sched_live` | no starvation, sleepers wake, never deaf once there is a user task | 3 tasks or fewer, a clock step that does not divide its range |
| `heap` | blocks tile the heap and payloads are disjoint, used = live; frames and page tables accounted for, wherever frames run out | up to 5 pages of 8 units, tables of 2 pages, 0 to 8 frames, any of them taken by the loader; header 3, 4 sizes, counter modulo 4 |
| `heap_tail` | *violated*: a used last block is handed out again | 6 pages |
| `loader` | nothing in use overwritten on the way from stage 2, the jump lands, ring 3 confined, fixed mappings, image exact, writes hit | 24 frames, tables of 24, 419 files under each of 9 layouts, limit 17 |
| `loader_heap` | *violated*: heap pages are not open to ring 3 | the same |
| `boot` | stage 2 whole, files exact, found, memory counted, it advances and ends | 180 volumes, 5 memory maps, 3 geometries, 4 failed attempts |
| `console` | the screen is the tail of the text, whoever writes; `printf` does what its manual says, but for the two cases of section 5; the line is as edited, typed characters are in front of the cursor | 3 rows of 4, buffer of 5, 7 keys of 5 kinds, calls of up to 3 items with all directives and lengths, words of 4 bits, 3 for `h` and 2 for `hh`, base 2 for base 10 |
| `interrupts` | own gates, own ends of interrupt, keys translated, timer and keyboard served | lines 6 and 14 unhandled, 3 bytes sent, 2 waiting |

Why the bounds are enough. *Words of 2 bits* give 14 bitmap words for 28 pages,
so runs cross one and two word boundaries and the limit (14 used frames of 28)
is met before memory is full, as it is in the code; regions of 2, 4, 5 and 6
bytes over pages of 4 are short, exact and odd. *Priorities of 2* stand for 5
and 15 ticks: what matters is that a slice can end on any tick and that the one
after it does not; `MaxBootTicks` is 1, below the idle task's slice, as the real
boot takes a few milliseconds of the 50 it has. At most one tick falls in the
few instructions between the `sti` and the `cli` of the halt loop when the loop
does not wait. *A clock modulo 6* wraps many times; `SleepExact` is stated up to
the first wrap. *NTasks = 3* is one more than HAL creates, so that the round has
a middle. *Heap*: sizes below, at and above the payload of the first pages, one
that wants more pages than the bound, one that wants more than the counter. Eight
frames are enough for five pages and their three tables; with fewer, or after the
loader took some, they run out at the first run (which then is not found, or goes
beyond the limit), at any page of a growth, and at a page table whose page has
its frame already.
*Loader*: text and data in either order, alone, empty, with bss over two more
pages, and one file no memory is enough for; 17 frames run out in the middle of
loading, at the stack, and while the heap grows. *Boot*: chains in order,
backwards and interleaved, file sizes around a sector and a chunk, names in the
first and second root sector or missing; 4 failures are one read given up and
one more, or spread over four reads; memory maps whose last block is usable or
not, with more memory than the count holds, and none at all. *Loader*'s layouts:
stage 2 ends before, at and behind a page boundary, with its parameters in
three places. *Console*: seven keys make three lines that scroll the screen more
than once, overfill the buffer, and wrap with and without a newline at the
margin. Three items are a directive, what it leaves behind, and one that suffers
from it; words of 4 bits have both signs, zero and the least number, and a long
long takes two. Of the 24564 calls with an `h` or `hh`, 10890 have arguments that
fit, negative ones among them; the kernel's copy writes these as the manual says
and no other. `%i` and `%p`, which the switch puts with `%d` and `%x`, come in
calls of two items only. Base 2 gives decimals of up to 8 digits; 8 and 16 are as
they are. *Interrupts*: line 6 is on the first controller and behind both
handled lines, 14 on the second, and so before line 3 in priority; three bytes
are a shift key, a key under it, and a release or second shift key. Deadlock is
checked in `sched` and `interrupts`; the other runs end where the program does,
or with the bound that stands for more calls or keys, and `sched_live` also where
the boot thread halts for good without a user task.

Every passing run's property has a mutant in `PROJECT.json`: a plausible slip in
the code, written as an operator beside the one it replaces, that breaks it.

## 5. Where the code and its words differ

* `pmm_kernel`: `reserve_memory` reserves the kernel at its virtual address; its
  frames are free for allocation once the lower ones are used.
* `pmm_limit`: a count of frames is compared with a count of bitmap words.
* `heap_tail`: the walk over the list ends on its last block, free or not.
* `loader_heap`: `map_page` sets no USER bit, so ring 3 cannot touch the block
  SYS_MALLOC returns.

Conditions of properties that hold otherwise: without a user task `schedule()`
returns to HAL with IF clear (`task.c:137`), and the boot thread, which is then
the idle task of `task.c:14` that should sleep until the next interrupt, halts
for good (`NeverDeaf`); stage 2's `printf` does not reset `number` behind a
directive (`stage2/stdio.c:288-292`), so that a `%c`, `%s` or `%%` behind a number
writes the next argument as one more (`NumbersLast`); no copy converts the
argument of `h` or `hh` to short or char (`kernel/lib/stdio.c:162-164`, `178-180`,
`stage2/stdio.c:258-260`, `userland/lib/stdio.h:181-184`), so that (char)0x80 comes as
ffffff80 from `%hhx` where the manual has 80 and `userland/lib/stdio.h:5` says
"printf-compatible" (`ShortsFit`; no call in the repository uses either length);
the shift flag is a byte at
0x1600 nobody clears, one flag serves two shift keys (`pic.c:217-218`), and a key
behind the end of the table (`pic.c:226`) gives whatever follows it there
(`KeysTranslated`); a byte that waits in the keyboard controller as `remap_pic`
clears the requests (`pic.c:79`) keeps its line up, and there are no keys
(`KeysServed`).

Seen while modelling, without a run: the bitmap is zeroed from the page behind
`__kernel__end` on (`pmm.c:64`), which `kernel.ld:42-49` puts in front of the 8
KiB stack the kernel boots on, so that with 256 MiB of memory it covers the
return addresses of `INIT_MEMORY` and its callers, and with 128 MiB it does when
the image ends high in its page; the default handler sends no end of interrupt
(`idt.c:27`), so that lines below the one it ran for are kept back for good,
none of which has a handler today; a default exception handler returns to the
instruction that faulted; `%X` writes lower case; the `puts` of the kernel and
of stage 2 read address 0 for a null pointer, the user's says `(null)`; `put_c`
has no case for a backspace, so that the three characters with which `readline`
means to erase one (`stdio.h:257`, `stdio.h:278-281`) are drawn behind it
instead; the mailbox is read again after the test that ended the wait
(`keyboard.c:14-18`), and a key without a character in between makes
`sys_getkey` return NUL, where `syscall.h:66` promises ASCII; a tab from column
0 draws two blanks, for the loop looks at the column it moves (`screen.c:85`);
the boot parameters lie in the bss of stage 2, in frames the kernel's bitmap has
as free, and the tables and the heap it zeroes there may wipe them before
`hal.c:16` reads them; an image of stage 2 that begins inside a page, as it
does, is reserved up to one page short (`pmm.c:83-89`); the last block of the
BIOS memory map is dropped (`memdetects.c:18`); a wake time that wraps ends a
sleep at once, and one above the last clock value never comes; a boot slow
enough to lose its slice inside `schedule()` saves the boot stack as a user
task's; `memcpy` of stage 2 counts in 16 bits and copies nothing of a full 64
KiB chunk (`main.c:52`); after a read error the next `FAT_Read` delivers the old
buffer (`fat.c:240`); the root buffer is not rewound (`fat.c:257`), so a second
search skips entries before the sector it starts in; without `kernel.bin`,
`FAT_Read` gets NULL (`main.c:50`); stage 1 overwrites itself at 0x7C00 when
stage 2 is longer than 0x7700 bytes; heap growth is never compared with
`KERNEL_HEAP_MAX`; when frames run out during a `malloc`, it returns a block over
pages that share frame 0, lie on frames that are others', or are not mapped
(`malloc.c:24-29`, `malloc.c:110-112`), for it looks at no result; two segments in one page replace each other's frame, and one
that does not begin on a page is loaded shifted (`elf.c:113`).

## 6. Fairness

`sched_live` assumes WF of the kernel's own steps (the processor goes on
executing) and SF of the timer (the PIT raises IRQ0 again and again and the PIC
holds it until IF is set, so a tick that is possible infinitely often is taken).
Nothing is assumed of user code or the keyboard: a task may wait for a key for
ever. `interrupts` assumes WF of the processor: handlers end, and code that has
closed IF opens it again, which is `NeverDeaf`. Devices owe nothing. A tick may
come only after `Rest`: 10 ms are enough to end all that is waiting, and without
it nothing below the timer would ever be served. `boot` assumes WF of its next
step, one processor going on, and nothing of the disk: attempts may fail or not.
`console` checks safety only: nobody has to press a key.

## 7. What is proved

`PmmProofs` proves, for every word size, memory size, list of reservations and
set of request sizes that satisfy `PmmAssumption`:

* `TypeCorrect`: `Spec => []TypeOK`
* `FramesHaveOneOwner`: `Spec => []NoDoubleAllocation`
* `NothingLeaks`: `Spec => []BitmapExact`
* `CountIsExact`: `Spec => []CounterAccurate`
* `PmmImplementsFrameAlloc`: `Spec => FA!AbsSpec`

`PmmAssumption` says that the scanned bits and the runs tested from them lie in
`Frames`, that reserved regions do, that the zeroed bitmap holds no junk, and
that the count cannot reach 2^32, which a 32-bit machine with 2^20 frames cannot.

The inductive invariant is the conjunction of the first four. None is inductive
alone: that an allocation overlaps no live run needs that live runs are marked
(`BitmapExact`); that a release leaves the other runs marked needs that they do
not overlap the released one (`NoDoubleAllocation`); that the count falls by the
right number needs that the released frames were marked and are as many as the
run is long, and that the count does not go below zero needs that it was exact.
The steps are proved action by action; facts about least elements, runs and
their cardinality are lemmas. The refinement maps `Pmm`'s history to the
variables of `FrameAlloc`, step by step, and uses the invariant for the
disjointness `AbsAllocate` asks for.

`InterruptsProofs` proves, for every set of lines without a handler, every set of
keys and every length of the keyboard's queue that satisfy
`InterruptsAssumption` (these lines are not those of the timer, the keyboard and
the cascade; the names of keys are distinct):

* `TypeCorrect`: `Spec => []TypeOK`
* `GatesAreOwn`: `Spec => []OwnGate`
* `EndsAreOwn`: `Spec => EoiIsOwn`
* `KeysAreTranslated`: `Spec => KeysTranslated`

`OwnGate` and `EoiIsOwn` follow from `ServiceInv`: no interrupt is let in before
the gates are loaded and the controllers have their new vectors; a handler
interrupts only ordinary code or the handler of an exception, and nothing
interrupts it; the lines of the timer and the keyboard are in service exactly
while their handlers run. The last needs the priorities: what the handler's end
of interrupt ends is the least line in service on the first controller, and this
is the sender's own since lines left in service for good come after it.
`KeysTranslated` and the last part of `TypeOK` need more, `KeyboardInv`: the
line is requested only with a byte in the queue; along the queue the shift keys
change only at bytes of shift keys; and the flag of the handler, once it is to
be trusted, is what they were as the first byte was sent.

`SchedProofs` proves, for every number of tasks and all priorities, clocks,
sleeping times and keys that satisfy `SchedAssumption`, that is under a tick or a
key at any boundary:

* `TypeCorrect`: `Spec => []TypeOK`
* `StacksAreOwn`: `Spec => []StackOwner`
* `WalkIsSound`: `Spec => []WalkSound`
* `SleepsAreExact`: `Spec => []SleepExact`
* `SchedImplementsTasks`: `Spec => ImplementsTasks`
* `KeysAreFresh`: `Spec => []KeyFresh`

The invariant `Inv` of the first five is a conjunction of eight parts, which need
each other. `Shapes` lists the stacks there can be: who may have been interrupted
by whom, four frames at most, and what a saved stack ends in; `StackOwner` and
the bounds follow. That a stack is never deeper needs that a tick which ends a
slice does not come on top of a `schedule()` (`Ticks`): only the boot thread and
the idle task run it with IF set, and the first has too few ticks for a slice
(`FirstWalk`, the one place where the lengths of slices matter), the second a
fresh one. `Walk` says where `current_task` is while the list is walked: behind
the task that called, or at the head again, so that the halt loop is reached with
the idle task alone. `States` says that one task runs and the others do not;
`Exits` that whoever has called exit has ended, so that its stack is not chosen
again; `Sleeps` that the ticks left are the distance from clock to wake time,
which is what a tick keeps. The refinement maps each action to a step of `Tasks`
or a stutter and takes from `Inv` which task runs and that the one chosen is
allowed to. `KeyFresh` needs only its own `KeyInv`: a key in the mailbox was
typed after the last call of every task, which the clearing of the mailbox at the
start of a call restores.

`PmmProofs` also proves `RegionsStayReserved`: `RegionsFit` implies
`Spec => []RegionsProtected`. `RegionsFit` names what the reservations rest on:
`reserve_memory_block` rounds the base down and the size up, each alone, so a
region that starts inside a page has to end in the last page counted for it; its
bits were zeroed; and the limit, a count of frames against a count of words, is
not reached before it is reserved. `MCPmm` evaluates it for its layout, which has
the proportions of the kernel's. Without it the theorem is false: the image of
stage 2, which stage 2's copy of the allocator reserves one page short (section
5), is a region that does not fit. `Reserving` is the invariant: what the walk has passed is reserved, and
the count is that of what it has passed.

`HeapProofs` proves, for every header, page and request size and every number of
frames that satisfy `HeapAssumption`:

* `TypeCorrect`: `Spec => []TypeOK`
* `HeapIsPartitioned`: `Spec => []HeapPartitioned`
* `UsedBlocksAreLive`: `Spec => []UsedIsLive`
* `FramesAreAccounted`: `Spec => []FramesAccounted`

It holds for any number of frames and of pages to a table, however many frames the
loader takes. The first three speak of a heap that is `Backed`.

First come lemmas about the operations on any list: what a merge, a split, an
exact fit, a growth of the last block and a release do to the tiling and to the
set of used blocks (`MergedTiles`, `SplitUsed`, `GrownFacts`, ...), and that the
page count of a growth is enough for the request and a header (`PagesSuffice`).
The walk of `merge_free_blocks` is followed from the last block to the first:
`Merges` says that what it makes of the blocks from the i-th on lies where they
did, has their used blocks and ends free if they do, and `WalkMerges` that one
round keeps this, whether it joins two blocks or passes one on.
`Inv` adds to `TypeOK` and `FramesAccounted`: nothing is taken before the first
call (`Blank`); blocks tile the pages and what is held is among the used blocks
(`Tiled`); and until the last block is taken whole it is free and exactly what is
used is held (`Held`). `HeapPartitioned` is not inductive: that a payload handed
out meets no other needs that the others are blocks of the list, and a release
that the block found is the one that was handed out. A request for which the
counter of pages would have to wrap, and a list with overlapping blocks, end the
behaviour, as in the model. `Counted(m, n, c)` is `FramesAccounted` in the middle of
a growth, with n pages counted and c of them mapped. `TakePageCounts` and
`MapPageCounts` say that the frame of one more page, and the table of one more, keep
it; `GrowthCounts` and `RunCounts` follow the recursive function of `MapPages` from
page to page; `FramesKept` and `FirstFrames` are the two callers.

`ConsoleProofs` proves, for every width that is a multiple of four, every height,
every length of the line buffer, all keys and all texts:

* `TypeCorrect`: `Spec => []TypeOK`
* `ScreenShowsTail`: `Spec => []ScreenIsTail`
* `LineIsWhatWasTyped`: `Spec => []LineIsEdited`
* `EchoIsTheLine`: `Spec => []EchoShowsLine`
* `PrintfWritesWhatItReads`: `Spec => []PrintfReads`

The screen comes first, with no regard to who writes. `Shows` relates a screen
that is still to be settled, with the cursor one column past the margin or one
row past the bottom, to a page from some row on; `Settles` says that the end of
`put_c` turns it into one that shows the same page, from the same row or the
next, and that both consoles do the same; then newline, return, glyph and tab
each turn what shows a page into what shows the page after that character
(`PutCShows`). That nothing of the page is below the row of the cursor is what
makes the blank row of `scrollback` right. `ScreenIsTail` is not inductive: it
follows, for the row that is at the top is `TopRow` (`TopIsTopRow`). `LineInv`
says that the first `i` characters of the buffer are what the keys come to and
hold no NUL; `Edited` is a recursive function over the keys, and that one more
key is one more `Edit` (`EditedAppend`) is shown from a least counterexample.
`EchoInv` says that these characters are the last ones in front of the cursor of
the page, but for the one that is being written; `EchoShowsLine` follows with
`ScreenIsTail`. `PrintfReads` is `PrintfProofs` applied to the call under way,
which is one of `Calls` as long as stage 2 has the processor (`CallInv`); that
these are calls the manual allows is `CallsAssumption`.

`PrintfProofs` proves, for every word size, every decimal base up to ten, all
characters and all texts that satisfy `PrintfAssumption`, and every width of char and
short up to a word (`FormatsAssumption`):

* `UnsignedIsNumeral`: the digits that `printf_unsigned` finds last to first and
  writes backwards are the numeral, the fewest digits that hold the number.
* `PrintfReadsItsFormat`: every call that is `WellFormed`, of any length, writes
  in each copy what the manual says and takes the words it says, and leaves the
  automaton between two directives, if `ShortsFit`; for stage 2's copy as long as
  `NumbersLast`.

`WellFormed` is the contract of a `printf`: known directives, a `%%` for every `%`
to be written, and no fewer words than the directives take. Nothing is asked of
the words or of how many more of them there are, but for what `h` and `hh` are
given: a value of their type (`ShortsFit`). That such a word is the same before and
after the conversion, or the negative number it stands for is, is `Converted`.

The provers know neither powers nor digits, and data of any length needs an
induction that they cannot take from the library. Every such step is an induction
over a set of numbers (`AllNumbers`, from a least counterexample), over the
recursive functions of the model, each of which is first shown to exist
(`PowerStepsExist`, `LoopStepsExist`, ...). So a number of one more digit has the
figures of its quotient and one more (`FiguresNext`), and `NumeralNext` is what
one round of `printf_unsigned` adds. `FlattenIs` says that a sequence of sequences
is put together from the front, and `PartsArePrefixes` where in the format an item
stands. Then the automaton: `RoundOfChar`, `RoundOfPercent`, `RoundOfLength` and
`RoundOfSpec` are its rounds; `DirectiveRounds` takes them together up to a
specifier, and `ItemIsRead` says that an item in between of others, from a record
as a directive should find it, is written as the manual says and leaves such a
record behind. For stage 2's copy that record may have `number` set, and what may
follow is then what does not look at it. That every number has the digits
`Formats` gives it room for, two words at most, is `DigitsEnough`.

`LoaderProofs` proves, for every size of pages, tables, memory and heap, every
file and every place the linker gives the image of stage 2 and the boot
parameters, and wherever memory runs out:

* `TypeCorrect`: `Spec => []TypeOK`
* `MappingsStaySafe`: `Spec => []MappingsSafe`
* `WritesStayPut`: `Spec => []WritesHitTheirFrame`
* `HandoverIsComplete`: `Spec => []HandoverComplete`
* `ImageIsLoaded`: `Spec => []LoadedImage`

The assumptions, which every run of `Loader` evaluates on its constants:

* `VmmAssumption`: sizes are positive, and the kernel has a directory entry of
  its own above the first.
* `HandoverAssumption`: the order of `memdefs.h`, that is stage 2, its stack, the
  module and the kernel, in this order under the first table; stage 2 begins
  inside the first page; and with everything it reserves there are three free
  frames below its stack, which its page tables will take.
* `LoaderAssumption`: the limit of the allocator is no higher than memory and no
  higher than the 1024 frames of the identity mapping. The limit is a count of
  bitmap words, so the second says that there are at most 128 MiB; with more,
  frames that the kernel cannot write to by their addresses are handed out once
  the others are used. Three frames of the image of stage 2 are not reserved by
  the kernel, so that its page tables go there and not over those it runs on;
  there is a run for the first heap; heap, stack and kernel are under different
  directory entries.
* `ImagesAssumption`: a file with a valid header is one the userland linker
  script makes: segments begin on a page, share none, and do not lie where the
  stack or the kernel is. `elf_load` tests nothing of this, and without it
  `ImageIsLoaded` is false (section 5).

The invariant `Inv` has a part for each stretch of the way. `Stage2Inv` and
`EntryInv` say which frames the two generations of page tables are in: those of
stage 2 in free frames below its stack, those of the kernel in the image of stage
2, so that neither overwrites the other; `RoomInv` that the first heap will find
its run. `ModuleInv` says that the module is as it was, and the parameters as
long as they are reserved. From then on memory is `Sound`, which is three
conditions that need each other: page tables are in frames of their own in use,
and what ring 3 may reach lies under directory entries the kernel does not use
(`Placed`); the two tables of `INITIALIZE_VMEMORY` are as it left them (`Fixed`);
a frame is mapped for one page of the program, or for the heap, and is no page
table (`Apart`). `MappingsSafe` is not inductive: that a new frame is nobody's
needs that all of these are marked, and that a write to it goes nowhere else
needs the identity mapping, which the write must not have changed. `LoadedInv`
follows `elf_load`: the pages it is through with are mapped and hold their part
of the file.

The lemmas say of each operator of `Vmm` that it keeps memory sound and what else
it leaves as it was. `Kept(m, n, P)` is the second: what was in use has its
content, and what was mapped, but for the pages `P`, is mapped the same.
`WithTableSound` and `MapPageSound` cover the failures as well: a call that finds
no frame changes nothing. `HeapMapped` is a function over the pages of the first
heap, and that each of its values is sound is shown from a least counterexample.
Then there is a lemma for each action.

`BootProofs` proves, for every volume, drive, geometry the BIOS may answer, memory
map and size of sector, root directory and load buffer, and whatever attempts
fail:

* `TypeCorrect`: `Spec => []TypeOK`
* `FilesAreLoaded`: `Spec => []FilesLoaded`
* `FindsFiles`: `Spec => []FindsWhatIsThere`
* `MemoryIsCounted`: `Spec => []MemoryCounted`
* `BootComesNearer`: `Spec => BootAdvances`

The assumptions, which the run `boot` evaluates on its constants:

* `FatAssumption`: sizes and the drive's numbers of heads and sectors are positive.
* `VolumesAssumption`: the root directory is as long as its sectors, entries of the
  FAT have twelve bits, and the chain of every file in the root directory is as
  long as its size needs and ends there. Neither stage compares the chain with the
  size in every place, so this is what the loader trusts the volume for; the
  Makefile makes it so.
* `Stage2Assumption`: the same of what the BIOS may answer, with blocks of the
  memory map of some length.

Nothing is assumed about where clusters lie, nor that chains of different files
are apart, nor that names in the root directory are distinct.

`FilesLoaded` is not inductive: it speaks of the end only. The parts of the
invariant `Inv` say what stands at each moment of the way. `Stage1Inv`: what the
boot sector has loaded is the beginning of the chain, and its cluster is the next
one. `SearchInv`: the entries before the position are not the name looked for,
and the buffer holds the sector the position is in. `HandleInv`: one handle at
most is open, so that there is always a free one, and what is asked for does not
reach behind the end of the file. `PositionInv`: the cluster and the buffer are
those of the position, also as it passes from one sector to the next, where the
position is ahead of the buffer until the read is delivered. `CopyInv`: the chunk
and what has been copied are, piece by piece, the file up to the position, so
that the file is whole when nothing is left. `DoneInv` keeps this for the kernel
while the module is read. `MemoryInv`: the blocks before the one fetched last are
those recorded. The parts about content are claimed for runs that are `Plain`: no
read was given up after three attempts, and the geometry is that of the drive. In
others the code does go on with the wrong sector (section 5).

The lemmas below it: that a read brings the sector asked for, which is that the
conversion to cylinder, head and sector and back is the identity where the
geometries agree (`ReadsWhatIsAsked`); that the twelve bits taken from three bytes
are the entry of the cluster, for odd and even ones (`NextClusterIs`); that a chain
is what its recursive definition says (`ChainIs`), and that the sum over a memory
map does not depend on blocks that are not usable (`UsablePrefix`), both from a
least counterexample. The module then has a lemma for each action, with one step
for each part of `Inv`.

`BootAdvances` says that no part of loading goes on for ever: every step lowers
`Distance`, a number that is never below 0. It counts the clusters of stage 2 not
yet loaded (`Stage1Left`), the entries of the root directory not yet compared
(`SearchLeft`), the bytes of the open file not yet read (`FileLeft`), for the
kernel together with the search and the file that follow it (`Behind`), and the
blocks of the memory map (`BlocksLeft`), each with a weight that pays for the
steps it may take, and below them the attempts the read under way has left
(`AttemptsLeft`). It rests on `Inv` where a number might go below 0 or stand
still: a chain no longer than the file's size says (`Stage1Inv`), a position inside
the file (`HandleInv`), and a round of `FAT_Read` that copies at least one byte,
because the buffer is never used up when it begins. What remains of `BootEnds` is
that a step can be taken until loading has ended, which speaks of `ENABLED`.

## 8. Only checked, and not modelled

Only model-checked: liveness under fairness, which is beyond the prover used
(`NoStarvation`, `SleeperWakes` and `NeverDeaf` of `Sched`, `LinesServed` of
`Interrupts`, `BootEnds` of `Boot`; of the last, that nothing goes on for ever is
proved). Every invariant, action
property and refinement that a passing run checks is a theorem.

`SchedAssumption` asks that every slice is longer than the ticks the boot thread
takes and longer than one tick, as 5 and 15 are.

Not modelled: segments and the TSS, written once (what they decide, `esp0`, is in
`Sched`); the tables and handlers of `arch/i686` (`isrs_gen.c`, `isr.c`, `idt.c`)
and those of stage 2, which are linked and never loaded; the RTC, whose handler
is not installed; the time-keeping of the 8253, which is `TickMs`; colours of the
consoles and the cursor of the CRTC. In place of the user program `Sched` and
`Heap` take any order of system calls, and `Shell` one key after the other,
whatever time passes in between. Functions without a caller are left out where
nothing would exercise them: `get`, `set_irq_mask`, `disable_pic`, `heap_dump`,
`free_page`, the kernel's copy of `unmap_page`, `print_buffer`, `print_uint`,
`print_int`, `print_hex`, `FAT_ListDirectory`. Directories below the root and
clusters of more than one sector do not occur on the volume the Makefile builds.
The check of the FAT's size against the memory reserved for it (`stage2/fat.c:34-39`)
is left out, for the FAT of a floppy always fits. The low frames that are not memory (video, BIOS), which the allocator hands out
like any other, and where in memory the bitmap lies are outside the models.
`size + 12` of `malloc` does not wrap for the sizes in `Requests`.
