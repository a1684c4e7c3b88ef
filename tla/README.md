# A model of the GameOfThreads kernel

GameOfThreads is a small x86 kernel in C: three text terminals, up to six
programs, a round-robin scheduler driven by the PIT, a keyboard driver with line
editing and history, a read-only file system and a driver for the real-time
clock. This directory holds TLA+ modules translated from its source (`src/`), the
TLC configurations that check them on small instances, and theorems about them
that TLAPS proves for every value of the constants.

## 1. The system

| Component | Source | State it keeps | Operations |
|---|---|---|---|
| Processes | `syscall.c`, `syscall.h` | `PCB_in_use`, one PCB per process (`parent_PID_num`, `halt_stat`, `this_esp`, `par_esp`, ...), `total_progs`, `process_cnt` | `execute`, `halt`, `pid_available` |
| Scheduler | `PIT.c` | `current_term` | `PIT_handler`, `get_scheduled_term` |
| Exceptions | `IDT.c` | `halt_stat` | `PF`, `GPE`, `squash_exception`, the handlers that stop the machine |
| Terminals | `keyboard.c`, `keyboard.h` | `viewing_term`, `terminal[t].process` | `terminal_switch`, `terminal_init` |
| Memory | `paging.c`, `x86_desc` | `page_dir`, `page_tab_array_video`, `tss.esp0` | `set_page_execute`, `map_term_to_buf`, `map_term_to_vid` |
| Line editor | `keyboard.c`, `lib.c` | `keyboard_buffer`, `keyboard_buf_idx`, `Enter_flag`, `read_wanted`, the `hist_*` fields | `keyboard_handler`, `key_press`, `Enter`, `Backspace`, `terminal_history`, `terminal_read` |
| Screens | `keyboard.c`, `lib.c` | a page per terminal, `screen_x`, `screen_y`, the cursor registers of the VGA | `terminal_write`, `term_putc`, `scroll_screen`, `term_clear`, `move_cursor`, `printf`, `terminal_switch` |
| Files | `filesystem.c`, `syscall.c` | the image (constant), `file_des_array` of each PCB | `open`, `read`, `write`, `close`, `file_read`, `directory_read`, `read_data` |
| Real-time clock | `rtc.c` | `rtc_flag` per terminal, register A of the chip | `rtc_interrupt`, `read_rtc`, `write_rtc`, `open_rtc` |
| Arguments | `syscall.c` | `PCB.args` | `execute`, `parse_args`, `getargs` |
| Boot, interrupt controller | `kernel.c`, `i8259.c`, `boot.S` | PIC masks | `entry`, `i8259_init`, `enable_irq`, `send_eoi` |
| Interrupt linkage | `Wrappers.S`, `IDT.c` | the interrupt flag, handler frames on the kernel stacks | gates, `HANDLER`, `sys_call_handler` |

**How they interact.** Programs enter the kernel through `int 0x80`, a trap gate:
system calls run with interrupts *enabled*. The PIT, keyboard and RTC handlers
sit behind interrupt gates; their bodies run with interrupts disabled and end with
`sti()`, so that further interrupts may nest before their `iret`.
The PIT handler suspends whatever runs, at any instruction of a system call that
is not behind a `cli()`, and resumes a thread of another terminal. The keyboard
handler edits the line of the *viewed* terminal while the *scheduled* terminal
may be another one; on Alt+F1..F3 it switches the view and, the first time,
calls `execute("shell")` from inside the interrupt. An exception calls `halt` from
inside its handler. The components share `current_term`, `viewing_term` and
`terminal[]` without any lock.

**What is hard here.** The order in which one CPU interleaves three terminals'
programs, their system calls and two interrupt handlers; a check and a store with
an interrupt between (`pid_available`, `term_putc`, `terminal_read`); error
returns that must undo what was claimed; a return from `halt` into a stack frame
left long before; round robin; ring buffers at their ends; reads across block
boundaries. Nothing is persisted and nothing is sent over a network: there is no
crash recovery and there are no lost messages. Section "hazards" of
`PROJECT.json` lists each of these at its line.

**What makes each component correct.**

* Processes and scheduler: CPU, page, TSS and `terminal[].process` always name the
  same program; a suspended program can be resumed; `halt` returns to the program
  that called `execute`; counters equal what they count; every PCB in use has one
  owner, and it is known where PCBs get lost; no terminal starves, and no call of
  `execute` hangs.
* Line editor: a reader gets the line that was entered, whatever was typed,
  erased, recalled and discarded before and whatever is typed meanwhile; Up and Down walk through the lines newest
  first; Enter wakes the reader.
* Screens: a terminal's page holds its own text, wrapped and scrolled, whichever
  terminal is viewed; only the viewed one is in video memory; the hardware cursor
  stands where the viewed one will write.
* Files: the reads of a file join to its contents; listing a directory gives each
  name once; descriptors 0 and 1 stay the terminal's.
* Arguments: a program gets the arguments of the command that started it, split at
  its first word.
* RTC: one tick serves a terminal at most once, and every read ends; the rate
  programmed is the frequency asked for.
* Interrupts: every request is served; whoever goes on after a switch of stacks
  leaves no EOI behind; programs run with interrupts enabled.

## 2. The modules

| Module | What it is |
|---|---|
| `Kernel` | processes, exceptions, scheduler and terminal switch, composed (they share nearly all their state) |
| `ProcStacks` | the abstract specification: a stack of programs per terminal |
| `KernelRefinement` | the refinement mapping; `ImplementsStacks` |
| `KernelInv` | the inductive invariants `FaultInv` and `TimelyInv` |
| `KernelProofs` | type correctness and the safety theorems of `Kernel` |
| `KernelRefinementProofs` | `Kernel` implements `ProcStacks` |
| `LineDiscipline`, `LineDisciplineProofs` | the line editor, the history and `terminal_read`; theorems about all three |
| `Screen`, `ScreenProofs` | screens, page tables of the video memory, the hardware cursor; theorems about them |
| `SyscallArgs`, `SyscallArgsProofs`, `MCSyscallArgs` | command lines and arguments, on top of `ProcStacks`; theorems about them; small commands for TLC |
| `Files`, `FilesProofs`, `MCFiles` | file system and descriptor table; theorems about them; a small image for TLC |
| `Rtc`, `RtcProofs` | the clock as programs rely on it; a theorem about it |
| `Interrupts`, `InterruptsProofs` | interrupt controllers, gates, wrappers, handlers and boot sequence under programs that use the clock; implements `Rtc`, with the proof of that and of its invariants |

### Kernel

A thread of control is named by the process on whose kernel stack it runs. `cpu`
is the thread that executes, `pc[p]` where thread `p` stands, and a saved stack
pointer (`this_esp`, `par_esp`) is the name of the thread that it resumes.
`NoPid` (10 in the source, `MAX_NUM_PROC + 4` here) is the value `process` has
before a terminal runs anything; it also stands for a stack pointer that names no
live frame.

| Action | Code |
|---|---|
| `ExecSyscall`, `PidScan`, `PidClaim` | `execute` up to the return of `pid_available`: one step per array element, test and store apart |
| `ExecBad` | the error returns that free the PID |
| `ExecNull`, `ExecWild`, `ExecCorrupt` | a NULL command, a command pointer that faults, a load that fails after `set_page_execute` |
| `ExecLaunch` | `execute` from the load to `iret`, after its `cli()` |
| `Fault`, `Spin` | page and protection faults (marked, then `halt`); every other exception (stops the machine) |
| `HaltReturn`, `HaltRestart` | `halt`: back to the parent; a new shell in place of a terminal's last program |
| `PIT` | `PIT_handler`; `ScheduledTerm` is `get_scheduled_term` |
| `SwitchView`, `OpenTerminal`, `WeirdError` | `terminal_switch`: to a terminal with programs; to a new one; to a new one when no PCB is free |

System calls that do not touch this state are stutters of `"user"`. `PIT`,
`SwitchView`, `OpenTerminal` and `WeirdError` have the guards of the code and no others:
they are enabled in every `pc` in which the thread has interrupts enabled
(`Interruptible`). When a tick or a key comes is not up to the code; that is said by
`Timer` and `User` in `Next`, with the constant `Timing`.

*The initial state* is the one after the boot code's `execute("shell")`: one
program on terminal 0. The PCBs lie in memory that the boot code does not clear;
`halt_stat` is taken to be 0 there, as it is in freshly started RAM. The frame
of that first `execute` belongs to the boot stack; a first program is never
returned to, and `par_esp` of it is `NoPid`.

*Exit statuses* are abstracted: 0 stands for every status 0..255, 256 is kept
apart because it is what `execute` promises for an exception.

`home`, `depth` and `lost` are history variables: the terminal and the level a program
was started on, and the PIDs that a call of `execute` has left claimed for nobody.

Three constants choose what the environment does. `Commands` and `Exceptions` are
the kinds of command and exception; `Timing` names three times at which an interrupt
may come, each with a consequence:

| In `Timing` | It allows | What TLC finds then |
|---|---|---|
| `"claim"` | an interrupt between `pid_available`'s test and its store | `NoDoubleOwner` fails (run `kernel_claim`) |
| `"foreign"` | opening a terminal while another than the viewed one has the CPU | `SuspendedHeadsSaved` fails (run `kernel_foreign`) |
| `"inflight"` | opening a terminal while a call of `execute` holds a PID | the "weird error" at `keyboard.c:691` is reachable, and the CPU goes adrift; the run `kernel_faults` has it, and `ShellFitsUnlessHeld` says when |

Two kinds of command, `"null"` and `"wild"`, lose a PCB: `execute(NULL)` returns, and the
fault handler leaves `execute`, without freeing the PID. The run `kernel_faults` has
both, and `PcbsAccounted` says that PCBs are lost there and nowhere else.

What is true of the kernel therefore depends on what comes, and each theorem
assumes no more than it needs (the assumptions are defined in `KernelProofs`):

| Assumption | It excludes | Theorems |
|---|---|---|
| none | | `TypeCorrect` |
| `Orderly` | `"claim"`, `"foreign"` | `FaultsSurvived`, `StacksSurvive`, `HaltReturnsToCaller`, `CountersRight`, `PcbsKept`, `WeirdErrorExplained`, `ExceptionStatus` |
| `Timely` | all three timings, `"null"` and `"wild"` | `ContextsSaved`, `StacksImplemented` |
| `Timely`, no `"corrupt"` | also a load that fails after `set_page_execute` | `CpuRunsHead` |

The run `kernel_timely` excludes what the last row does, and exceptions of first
programs (run `kernel_status`) and those that stop the machine; `kernel_faults` only what
`Orderly` does. `Orderly` cannot be dropped: after the interrupt of `"claim"` two programs
share a PCB, a page and a kernel stack, and nothing of the above is true any longer.
`NoDoubleOwner` is therefore not listed as a theorem or by a passing run, although it is
a part of `FaultInv`: of the kernel as it is, it is false.

### ProcStacks and KernelRefinement

`ProcStacks` knows only a sequence of programs per terminal, who has the CPU and
who is on the screen. The refinement mapping reads a terminal's stack off the
kernel's own data: `terminal[t].process` is the top, `parent_PID_num` leads down,
`total_progs[t]` programs in all. `home` and `depth`, the history variables of
`Kernel`, are not used by it.

### LineDiscipline

One terminal. A key is one step (the handler is not interruptible); `terminal_read`
is one step per statement that touches shared state, including
`if (limit > idx) limit = idx`, which reads `idx` twice, the copy loop and
`clear_key_buf` slot by slot. The store of the newline behind a full buffer is
modelled by what lies there: `keyboard_buf_idx` itself. `recent`, `ahead` and `undone` are
history variables: the lines entered, how many keys came between an Enter and the
end of the read that takes it (at most `MaxAhead`), and whether one of these was
something else than a character.

`ReadGetsLine` says what a read returns when nothing or only characters are
typed ahead: it begins with the line entered. Two characters between the
comparison and the assignment of `limit` make it return more bytes than the program
asked for; that is in the model, and no property claims otherwise. Backspace, an arrow
or a second Enter typed ahead may change the line under the reader's hands, or
not; no document says which it should be. `ReadEnds` and the types cover these too.

The scroll that Enter and Backspace cause is in `Screen`; the modifier keys and the
scancode tables only choose which key it is.

### Screen

The page frames (`mem`), which frame each terminal's page table names, the
cursors, and the cursor registers of the VGA (`vga`) with the one that is selected.
A program's `terminal_write` is preempted between all statements of `term_putc`,
between the rows of `scroll_screen` and between the port writes of `move_cursor`; a
key is one step, and so is a line that `printf` writes out of a handler, which goes
to the *scheduled* terminal (any of `running` here). `overtaken` notes that a switch
of the view came into a `move_cursor`: then, and only then, the hardware cursor may
be wrong, until the next switch or character. `rows` is
a history variable: the text of each screen as rows, against which the page is
compared. `plain` is false while a program that called `vidmap` has drawn on the
page. `Timing` allows an echo in the middle of a write (`"echo"`) and Ctrl+L on an
unfinished line (`"clear"`); with either the cursor can leave the screen (run
`screen_race` for the first; with `"clear"` a Backspace at the top left makes
`screen_y` 255).

### Files

One PCB's descriptor table over a read-only image. No other process touches the
table, so a system call is one step; `NewProgram` hands the PCB to the next
program, as `halt` and `execute` do. A byte is named by the block and offset it is
stored at, so that a wrong block or a wrong offset cannot go unnoticed. Descriptors
0 and 1 share the table (`Fresh` is what `execute` makes of it); reads and writes of
the terminal and the clock change nothing in it. A failed
`read_data` returns -1 and `file_read` adds that to the position: it goes down by
one per failure, as in the code; `MinPosition` bounds how far. `directory_read`
also passes the entry behind the last one, which the image leaves empty; it needs
an image with more inodes than directory entries, which `MCFiles` has, as the
image of the repository does.

### SyscallArgs

`parse_args`, the copy of the arguments into the PCB and `getargs`. It EXTENDS
`ProcStacks`: programs come and go as the abstract specification says, which
`Kernel` is shown to implement, and each start also fills the PCB's buffer, whose
old contents stay behind the new 0. `getargs` gives the characters and the 0 that
`strcpy` writes behind them, which may be one byte past `nbytes`. The loops of `parse_args` are one operator,
`Scan`: the first place from here whose character is in the stop set. The
reference, `Splits`, says declaratively what blanks, name and arguments of a line
are. Commands that are longer than the buffers are left out (`ArgsAssumption`):
the code does not count.

### Rtc

`read_rtc` is three steps (call, loop exit, store); `write_rtc` runs behind `cli()`
and is one. The chip's divider is checked by what register A means: 32768 Hz
divided by 2^(rate-1). No run checks `Rtc` alone: it is what `Interrupts` implements.

### Interrupts

`Rtc` with its interrupt, its scheduler and its `cli()` taken apart, over the
controllers and the CPU that they need. A device requests (`Raise`); a request that
passes masks and priorities is `Granted`; the CPU takes it before the next
instruction if `eflags_IF` is set (`Enter`). The body of a handler is one step, since
nothing comes between its instructions; what is left of it after its `sti()` is a
frame on the kernel stack of the terminal, where further interrupts nest. `KeyOpens` saves
the interrupted stack under the *viewed* terminal, as `terminal_switch` does; the
environment opens a terminal only while that one is scheduled (`OpenTimely`, in `Next`;
run `kernel_foreign` shows why). A frame is
in its `"body"`, in its `"tail"` (from `sti()` to `iret`), `"saved"` by `PIT_handler`, or
waits to be resumed behind the `terminal_switch` that opened another terminal
(`"resume"`).

| Action | Code |
|---|---|
| `ClearFlags`, `InitPit`, `FirstShell` | `entry` after the first `sti()`, which the `write_rtc` inside `enable_rtc` executes |
| `Enter`, `Return` | an interrupt gate; the end of `HANDLER`, with `popfl` and `iret` |
| `RtcInterrupt`, `Pit` | `rtc_interrupt`, `PIT_handler` |
| `Key`, `KeyOpens`, `KeyResumed` | `keyboard_handler`: for a key that starts nothing; for one that opens a terminal; its end, when the timer comes back to that thread |
| `ReadCall`, `ReadSpins`, `ReadSees`, `ReadLowers` | `read_rtc`, the rounds of its loop included |
| `WriteCall`, `WriteRefuses`, `WriteSelects`, `WriteStores`, `SyscallReturns` | `write_rtc` and the way back to the program |

`ImplementsRtc` reads an `Rtc` off this: between `cli()` and `sti()` the program has
not written yet, and ticks that come before `enable_rtc` has lowered the flags never
happened.

## 3. The runs

Every run finishes within two minutes with two workers.

| Run | Instance | What it shows |
|---|---|---|
| `kernel_timely` | 3 terminals, 3 PCBs, good and bad commands, faults in child programs, fair | `RunningIsHead`, `SuspendedHeadsSaved`, `ReturnPathIntact`, `CountsAgree`, `ExceptionReturns256`, `ImplementsStacks`, `EveryTerminalScheduled`, `KernelCallsEnd` (56 thousand states) |
| `kernel_faults` | 2 terminals, 3 PCBs, all commands and exceptions, `"inflight"` | what survives every failure: `CountsAgree`, `ReturnPathIntact`, `PcbsAccounted`, `ShellFitsUnlessHeld`, and `FaultInv` of `KernelInv` (104 thousand). Deadlock is not checked: `Spin` stops the machine |
| `line` | buffer of 4, history of 2, Tab of 2, reads of 3 bytes, two keys ahead, fair | `ReadGetsLine`, `HistoryKthNewest`, `ReadEnds` (650 thousand) |
| `screen` | 3 terminals, 2 by 2, 3 characters or lines, registers of one bit | `ScreensHoldText`, `OnlyViewedOnVideo`, `CursorFollows` (1 million) |
| `files` | 3 images, 2-byte blocks, 2 descriptors and stdin, stdout | `ReadsAreContents`, `ReadsAreFull`, `DirectoryListed`, `StandardStreams` |
| `rtc` | 2 terminals, frequencies 2, 3, 1024, handlers nested twice, fair | `ServedByRunningHandler`, `ProgramsInterruptible`, `RequestsServed`, `ReadsEnd`, `OneReadPerTick`, `RateIsFrequency`, `ImplementsRtc` (209 thousand) |
| `args` | 2 terminals, 3 PCBs, 10 commands | `FirstWordStarts`, `GetargsGivesOwn` (23 thousand) |
| `kernel_foreign` | 3 terminals, good commands, `"foreign"` | violated: `terminal_switch` saves the running thread in the PCB of another |
| `kernel_status` | 2 terminals, faults in first programs | violated: `halt_stat` survives into the PCB's next program, which exits normally and is reported as 256 |
| `kernel_claim` | 2 terminals, good commands, `"claim"` | violated: a shell is opened with the PID that the interrupted `pid_available` is about to store |
| `line_overflow` | buffer of 3, reads of 4, one key ahead | violated: the second Enter on a full line that is still to be read writes behind the buffer |
| `screen_race` | as `screen`, with `"echo"` | violated: the cursor passes `NUM_COLS` between increment and comparison |

**Why the bounds are enough.** Three terminals are the real number, and the least
with a choice in round robin; three PCBs give a terminal with three nested
programs, three terminals with one, the limit in the middle of both, and PIDs that
are reused on other terminals. The proofs cover the other numbers.
Two terminals are enough for `rtc`, whose third would do what the second does:
priorities, masks and EOIs know no terminals. A frequency of 3 is refused, 2 and 1024 are
the ends of the range that is accepted. `MaxNest = 2` has an interrupt in the tail of
a handler and the timer leaving from there; the code bounds the nesting by nothing but
the speed of the devices, and the model says of that speed only that a device
that was served does not request again before the interrupted code has executed an
instruction (`Settle`). Without it, handlers could fill all time. A line buffer
of four is full after three characters and the newline, and the Tab of two fits
into it in two positions; a read of three bytes gets shorter lines whole and cuts off the
newline of the longest. A history of two wraps, and the run sees it empty, partly
full, full and wrapped. A screen of two by two wraps and scrolls with every second
character, also while a prompt is in it: two characters scroll it, and the third is
written into the scrolled screen or to another one. Registers of one bit make both
halves of the cursor position change. Blocks of two bytes give files that end in, at and behind a block boundary,
and reads of 1 and 3 cross it from both sides. The commands of `args` have blanks and
line ends in each place where a loop of `parse_args` can stop; arguments of length
0 to 3 over PCBs that are reused leave old characters behind the new ones.
`MaxAhead = 2` has keys at two different places of `terminal_read`, or both
between its two reads of the index; more keys ahead only lengthen what is read.

**Fairness and why the code justifies it.** `Kernel`: strong fairness of `Timer`,
since the timer ticks for ever and the PIC keeps a tick that comes while interrupts are
off; strong fairness of `KernelStep(p)`, since a scheduled thread executes many
instructions of the kernel before it loses the CPU again. Programs in user mode
owe nothing. `LineDiscipline`: weak fairness of the reader, whose terminal is
scheduled again and again by `EveryTerminalScheduled`; that the user goes on pressing
Enter is the hypothesis of `ReadEnds`. `Interrupts`: weak fairness of the CPU, which
executes one instruction after the other (handlers and `iret` included), and of the
requests of timer and clock; keys need not come.

## 4. The proofs

`KernelProofs!TypeCorrect` needs no assumption beyond the constants' types (up to
200 PCBs, so that `uint8_t` does not wrap) and holds for all commands, exceptions
and timings.

The safety theorems follow from two inductive invariants. The properties
themselves are not inductive: that `halt` finds its parent needs to know where in
its terminal's stack a program is. `KernelInv!FaultInv`, which the run `kernel_faults`
checks and `FaultsSurvived` proves under `Orderly`, has

* `HeadsOnTop`: `terminal[t].process` is the program at depth `total_progs[t]`;
* `ProgramsInStacks`: a running program owns its PCB and is not above the front
  one, and a first program is its own parent (so `halt` cannot confuse it with a
  child);
* `OnePerLevel`: no two programs of a terminal are at the same depth, hence the
  parent of the front program is the new front one when it ends;
* `FoundIsFree`: only the executing thread is between test and store, hence the
  PID is still free when it is claimed (this is where `"claim"` would break it);
* `DeadIdle`: a PCB without a program has no thread;
* `CpuInFront`, `FrontsSaved`, `EmptyHeadless`: where the CPU is when things went wrong.
  After a "weird error" the scheduled terminal has no programs, and the CPU goes on in a
  front program of *another* terminal whose saved context is gone (`Adrift`). Nothing
  will resume that thread, it cannot end (the scheduled terminal has no program that
  `halt` could take), and so no stack is harmed until the timer takes the CPU away;
* `DyingMarked`: a thread on its way from an exception to `halt` is marked, unless it
  was adrift, when the mark went elsewhere and it never gets to `halt`;
* `ReturnPathIntact`, `CountsAgree` and `PcbsAccounted`, which the runs check, and
  `NoDoubleOwner`. `ExceptionReturns256` follows from `DyingMarked`.

`TimelyInv` adds `SuspendedHeadsSaved`, `CpuIsHead` (the CPU is in the front
program of the scheduled terminal), and that no PCB is lost.

Each action has its own lemma, which proves `FaultInv'` and says what the step does to
the rest: `StaysOnTime` (the CPU does not go adrift) and `StaysHead` (page and TSS
follow); `LostStep` says that only `ExecNull` and `ExecWild` lose a PCB. Two actions lack a
clause: `WeirdError` may set the CPU adrift, `ExecCorrupt` leaves the page of a program
that does not run. These four are what the assumptions of the table in §2
exclude, and `WeirdError` is excluded by proof: under `Timely` no PID is held or lost
when a terminal is opened. Steps inside `execute` change one `pc` and at most
one element of `PCB_in_use`; `PIT` and `SwitchView` change no stack; `ExecLaunch`,
`OpenTerminal`, `HaltReturn` and `HaltRestart` push, start, pop and replace one
element, and the cardinality facts for `CountsAgree` are lemmas of their own.
`ShellFitsUnlessHeld` is a sum: the PCBs in use are the running programs, which
`process_cnt` counts, and those held and lost, which it does not, and no PCB is two of
these (`AccountSum`). If all are in use and `process_cnt` is below the limit, the
rest are held or lost.

**The refinement of `ProcStacks`** (`StacksImplemented`, under `Timely`; `StacksSurvive`,
under `Orderly`). The mapping
goes down `parent_PID_num`, as `halt` does; that the chain is the whole stack is
not a matter of one step. `Towers` says that its entry number `d` is the program
with `home` and `depth` `d`; it follows from `FaultInv` by descent: were a level
below the front one empty, or the chain's entry another program, there would be a
first such level, and the program one level above has its parent there.
(Library induction theorems take an operator as a parameter, which no installed prover
instantiates. A set of naturals that has a least member is the form in which this and
the other proofs use induction: `Least`, from `NatLessThanWellFounded` and `WFMin`.)
With `Towers` before and after, a step need only say what becomes of `home`, `depth` and
`total_progs`, and the stacks follow by `SeqEqual`. A "weird error" leaves the scheduled
and the viewed terminal without programs, which the abstract specification does not have;
the stacks themselves change only by its steps even then, and that is `StacksSurvive`.

**The line editor.** `LineDisciplineProofs!LInv` adds to the types

* `LinesEnd`, `NoGap`, `Room`: the recalled line leaves room for its newline;
  characters fill the buffer from its start, so `strlen` is the length;
* `Ring`: slot `hist_fill - k`, wrapped, holds the `k`-th newest line, and
  `hist_ptr` is `hist_chk` steps back. This is what makes `HistoryKthNewest` inductive;
* `Flags`, `Kept`, `Locals`: while only characters are typed ahead the buffer begins
  with the line last entered and its newline, at every statement of `terminal_read` up to
  the end of the copy loop; `limit` is at least what is owed (`Owed`), and just that if
  nothing is typed; what the loop has copied is the buffer's beginning. `ReadGetsLine`
  follows at its end.

`LineAssumption` says that neither 0 nor the newline is a letter.

**Files.** `FilesInv` is one predicate, `EntryOK`, for each descriptor with what was
read through it: an open file's position is the number of bytes read, and these are
the beginning of the file; a directory's position is the number of names read, up to
its end. It is inductive since one call touches one descriptor. `ContentsAre`
says which byte the reference contents of a file, its blocks joined one by one, have
at each offset (through the list of blocks, from the first), and `ReadFacts` that
`read_data` returns those from `offset` on, all that were asked for or are left. `ImageAssumption`
says that the image is well formed, which the code does not check: an inode's
length fits its blocks, and files of the directory exist.

**Arguments.** Each loop of `parse_args` stops at the first place where it may
(`ScanIs`, a least member again). `ParseIs` puts the four loops together;
`ParseSplits` and `SplitIsParse` say that what they find splits the line as
the reference `Splits` asks and that no other split does. So the name is that of an
executable file just for the commands in `Startable` (`FirstWordFound`). For
`GetargsIsOwn` the invariant `ArgsInv` says that no program occurs twice in the stacks,
so that one that returns is not running elsewhere, and that the PCB of each program
on a stack holds the arguments `parse_args` found. `ArgsAssumption` says that commands
fit the buffers, that "shell" is a word and an executable file, and that names of
files are not empty and fit their entry.

**Screens.** `ViewedIsMapped` is inductive for any number of terminals and with echoes
inside writes. The other theorems are about keys that are not echoed into a write of
their terminal (`"echo"` not in `Timing`; what happens otherwise is run
`screen_race`). `CursorInv` says how far the viewed terminal's writer has come with
the registers (`Registers`), and that unless a switch overtook one no other writer is
at the ports.

`TextIsOnScreen` is about every state of every preempted writer, in which the page and
the text need not agree yet. `TextInv` says of each terminal

* `WillShow`: what is left of the write under way (`Finished`: the rest of the wrap, of
  the line break, of the scroll from the row it has reached) makes of the present page
  and cursor one that `Shows` the text; for an idle writer that is the property;
* `Bounds`: how far `screen_x` and `screen_y` may be ahead of the correction that is
  still to come, which is also the least trivial part of `ScreenTypes`;
* in `Shows`, that the line of `n` characters being typed is no longer than the text
  before the cursor (`n <= Linear(x, y)`), so that Backspace never passes the top left.
  Ctrl+L on an unfinished line (`"clear"`) breaks this, and is excluded;
* `OthersIdle`, and the frames of two terminals differ (`FramesApart`), so a writer
  leaves the other pages alone, and a switch, which copies two of them, loses none.

Each statement of `term_putc` and `scroll_screen` keeps what the write will finish as;
its first stores turn the text before into the text after, by the lemmas `PaintPut`,
`PaintCut`, `PaintBack` and `PaintScroll` about one cell, one erasure or one scroll of
a page that shows rows of text.

**The clock.** A read may be answered by a tick from before the call (`read_rtc`
does not lower the flag first), but no tick answers two: that is
`OneTickForEachRead`, of `RtcProofs` for the clock alone and of `InterruptsProofs`
for the clock under its interrupts. `RateFollowsFrequency` unwinds the loop of
`write_rtc` for each frequency it accepts.

The theorems of `InterruptsProofs` hold for any number of terminals, any depth of
nested handlers and any frequencies. `InterruptsProofs!IInv` adds to
`ServedByRunningHandler`

* `BootAlone`, `OthersResumable`: no program runs before the first shell; every
  terminal that was left has a frame on its stack in which it is resumed (so `Pit` and
  the end of `keyboard_handler` find one);
* `WritesAlone`: a program between `cli()` and `sti()` is the current one, with no
  handler above it and interrupts disabled, hence no handler runs during `write_rtc`
  and no other terminal is in the middle of one;
* `StoresToA`: the register selected and the frequency checked are still those when
  `write_rtc` stores;
* `OnlyWritesDisable`, from which `ProgramsInterruptible` follows;
* `FlagIsUnread`: a raised flag, or one that was seen, stands for a tick not used up.

What a handler owes the controllers it pays in its body, alone: `EoiPaysAll` (the
paths of two devices through the controllers are disjoint) is the step of
`ServedByRunningHandler`. `ClockRefined` is the refinement: interrupts that come and
go, the keyboard, the boot sequence and the first steps of `write_rtc` change nothing
that `Rtc` has; the body of the clock's handler is `Tick`, every switch is `Schedule`
and the store of `write_rtc` is `Write`, which is where `StoresToA` is needed.

Only model-checked:

* the liveness properties (`EveryTerminalScheduled`, `KernelCallsEnd`, `ReadEnds`,
  `RequestsServed`, `ReadsEnd`), which need fairness;
* `FirstWordStarts`, which needs `ENABLED`: its part about strings is the theorem
  `FirstWordFound`, what is left is that a free PCB is all that `Start` asks for.

## 5. Not modelled

* *Boot.* The multiboot checks, the descriptor tables and `init_paging` run once and
  before anything can be observed. A key between the `sti()` of `enable_rtc` and
  `terminal_init` is left out: its handler writes through pointers that are not set
  yet, into memory that the model does not have. (`kernel.c:180` expects interrupts
  to be off until `execute`.) `disable_irq` is never called.
* *Modifier keys and scancode tables.* They choose which of the modelled keys a code
  is, inside one uninterrupted step; a model would restate the `switch` and the
  tables. Both Shift keys share one flag, and Caps Lock toggles under auto-repeat:
  no document says what should happen then.
* *Registers* that `Wrappers.S` saves and restores; which thread is resumed is in
  `Kernel`, with which interrupt flag in `Interrupts`.
* *Colours*, a constant per terminal; the console before `terminal_init`, which clears it.
* `printf`, `itoa` and the memory routines of `lib.c`, pure helpers; `tests.c`.
* Open files of parents and children: each process has its own table in its PCB
  as long as no PCB has two owners (run `kernel_claim`), so `Files` models one.

## 6. Plan

Done, in this order: `Kernel` with its invariants and runs, `ProcStacks` and the
refinement, the proofs about `Kernel`, `LineDiscipline`, `Screen`, `Files`, `Rtc`,
`SyscallArgs` and the first theorems about the last ones; `Interrupts` with its
refinement of `Rtc` and their proofs, the hardware cursor, stdin and stdout;
then the proofs about each component: `ImplementsStacks`, the line editor, the files,
the arguments, the types and the rate of the clock, the hardware cursor, the text on
the screens. Last, the theorems about `Kernel` were carried from commands that are
started or cleanly rejected to all commands and exceptions, and to terminals that are
opened while `execute` is under way; the line editor's to characters typed during a read.

Every safety property that a run checks is now a theorem, `FirstWordStarts` (see §4)
excepted. What the plan has left is to reach the hazards without a property.
The exceptions that stop the machine do so by design of their handlers; of a line
entered while `terminal_read` clears the one before no document promises anything. Ctrl+L on an
unfinished line is in `Screen` (`"clear"`), but no run is about it. Commands longer than the
buffers of `parse_args` would need a model of the memory behind them.
