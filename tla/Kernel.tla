------------------------------- MODULE Kernel -------------------------------
(***************************************************************************)
(* Processes, terminals and the scheduler of the kernel: the system calls  *)
(* execute and halt (syscall.c), the exception path into halt (IDT.c), the *)
(* timer interrupt (PIT.c) and the switch between terminals that the       *)
(* keyboard interrupt makes on Alt+F1..F3 (keyboard.c).                    *)
(*                                                                         *)
(* There is one CPU.  A thread of control is named by the process whose    *)
(* kernel stack it runs on: cpu is the thread that executes now, pc[p] is  *)
(* where thread p stands.  A saved stack pointer (this_esp, par_esp) is    *)
(* the name of the thread it resumes.  System calls run with interrupts    *)
(* enabled, so an interrupt may come between any two steps of execute      *)
(* before its cli(); what runs after cli() is one step here.               *)
(*                                                                         *)
(* The initial state is the one the boot code reaches when its first       *)
(* execute("shell") enters user mode: one shell, on terminal 0.            *)
(***************************************************************************)
EXTENDS Integers, FiniteSets

CONSTANTS
  NUM_TERM,      \* number of terminals; 3 in keyboard.h
  MAX_NUM_PROC,  \* number of PCBs; 6 in syscall.h
  Commands,      \* kinds of command that programs give to execute
  Exceptions,    \* kinds of exception that programs raise
  Timing         \* interrupt timings that the environment brings, see below

AllCommands ==
  {"good",      \* names an executable file
   "bad",       \* rejected by one of execute's checks, which free the PID
   "null",      \* the NULL pointer
   "wild",      \* a pointer to memory that is not mapped
   "corrupt"}   \* passes the checks; its blocks cannot be read

AllExceptions ==
  {"child",     \* page or protection fault in a program another one started
   "base",      \* page or protection fault in the first program of a terminal
   "spin"}      \* any other exception

AllTiming ==
  {"claim",     \* an interrupt between pid_available's test and its store
   "foreign",   \* opening a terminal while another one than the viewed one runs
   "inflight"}  \* opening a terminal while a call of execute holds a PID

ASSUME KernelAssumption ==
  /\ NUM_TERM \in Nat \ {0}
  /\ MAX_NUM_PROC \in 1..200
  /\ Commands \subseteq AllCommands
  /\ Exceptions \subseteq AllExceptions
  /\ Timing \subseteq AllTiming

VARIABLES
  PCB_in_use,      \* the array pid_available searches
  total_progs,     \* number of programs of each terminal
  process_cnt,     \* number of programs of all terminals
  process,         \* terminal[t].process: the program in front on terminal t
  current_term,    \* the terminal that is scheduled
  viewing_term,    \* the terminal that is on the screen
  parent_PID_num,  \* PCB field
  halt_stat,       \* PCB field: halted by an exception
  this_esp,        \* PCB field: thread to resume when it is scheduled again
  par_esp,         \* PCB field: thread to resume when it halts
  page_user,       \* process whose memory page_dir[USER_ENT] maps
  tss_esp0,        \* process whose kernel stack the TSS names
  cpu,             \* the thread that executes
  pc,              \* where each thread stands
  idx,             \* pid_available's i: the PID looked at, then the PID claimed
  home,            \* history: terminal each program was started on
  depth,           \* history: position in its terminal's stack, 0 if not running
  lost             \* history: PIDs that a call of execute left claimed for nobody

tables == <<PCB_in_use, total_progs, process_cnt>>
terms  == <<process, current_term, viewing_term>>
pcbs   == <<parent_PID_num, halt_stat, this_esp, par_esp>>
hw     == <<page_user, tss_esp0, cpu>>
hist   == <<home, depth, lost>>
vars   == <<tables, terms, pcbs, hw, pc, idx, hist>>

Terms == 0..(NUM_TERM - 1)
Pids  == 0..(MAX_NUM_PROC - 1)

\* terminal_init's value of process before any program runs (10), also used
\* for a stack pointer that names no live frame.
NoPid == MAX_NUM_PROC + 4
Slots == Pids \cup {NoPid}

PCs == {"user",     \* in user mode
        "scan",     \* in pid_available, about to test PCB_in_use[idx]
        "claim",    \* has found PCB_in_use[idx] = 0, not yet stored 1
        "claimed",  \* owns PID idx, checking the command
        "child",    \* in execute, waiting for the program it started
        "dying",    \* in the fault handler, about to call halt
        "spin"}     \* in a handler that loops forever

\* uint8_t arithmetic of the counters
Inc8(n) == (n + 1) % 256
Dec8(n) == (n + 255) % 256

head == process[current_term]

TypeOK ==
  /\ PCB_in_use \in [Pids -> {0, 1}]
  /\ total_progs \in [Terms -> 0..255]
  /\ process_cnt \in 0..255
  /\ process \in [Terms -> Slots]
  /\ current_term \in Terms /\ viewing_term \in Terms
  /\ parent_PID_num \in [Slots -> Slots]
  /\ halt_stat \in [Slots -> {0, 1}]
  /\ this_esp \in [Slots -> Slots]
  /\ par_esp \in [Slots -> Slots]
  /\ page_user \in Slots /\ tss_esp0 \in Slots /\ cpu \in Slots
  /\ pc \in [Slots -> PCs]
  /\ idx \in [Slots -> 0..MAX_NUM_PROC]
  /\ home \in [Slots -> Terms]
  /\ depth \in [Slots -> 0..255]
  /\ lost \subseteq Pids

Init ==
  /\ PCB_in_use = [p \in Pids |-> IF p = 0 THEN 1 ELSE 0]
  /\ total_progs = [t \in Terms |-> IF t = 0 THEN 1 ELSE 0]
  /\ process_cnt = 1
  /\ process = [t \in Terms |-> IF t = 0 THEN 0 ELSE NoPid]
  /\ current_term = 0 /\ viewing_term = 0
  /\ parent_PID_num = [p \in Slots |-> IF p = 0 THEN 0 ELSE NoPid]
  /\ halt_stat = [p \in Slots |-> 0]
  /\ this_esp = [p \in Slots |-> NoPid]
  /\ par_esp = [p \in Slots |-> NoPid]
  /\ page_user = 0 /\ tss_esp0 = 0 /\ cpu = 0
  /\ pc = [p \in Slots |-> "user"]
  /\ idx = [p \in Slots |-> 0]
  /\ home = [p \in Slots |-> 0]
  /\ depth = [p \in Slots |-> IF p = 0 THEN 1 ELSE 0]
  /\ lost = {}

-----------------------------------------------------------------------------
(* Shared pieces.                                                          *)

\* Mutants of Marked: the status is stored instead of a flag; the program on the
\* screen is marked.
MarkedByStatus == [halt_stat EXCEPT ![head] = 256]
MarkedOnScreen == [halt_stat EXCEPT ![process[viewing_term]] = 1]

\* squash_exception marks the PCB of the scheduled terminal's program.
Marked == [halt_stat EXCEPT ![head] = 1]

\* The thread that executes is at label l.
Running(l) == cpu \in Pids /\ pc[cpu] = l

Goto(l) == pc' = [pc EXCEPT ![cpu] = l]

\* pid and i are dead once execute has returned or has entered the program.
DropIdx == idx' = [idx EXCEPT ![cpu] = 0]

\* The PID that a run of pid_available which nothing interrupts returns, when
\* the array is inUse.
FirstFree(inUse, p) ==
  /\ p \in Pids /\ inUse[p] = 0
  /\ \A q \in Pids : q < p => inUse[q] = 1

\* Mutant of UseMemoryOf: the TSS keeps the stack of the program that ran before.
UseMemoryOnlyMapped(p) == page_user' = p /\ UNCHANGED tss_esp0

\* set_page_execute(p) and tss.esp0 = get_esp0(p).
UseMemoryOf(p) == page_user' = p /\ tss_esp0' = p

\* Mutant of ParentOf: the parent is looked up on the viewed terminal.
ParentOnScreen(p, tot) == IF tot = 0 THEN p ELSE process[viewing_term]

\* The parent that execute gives to PID p: the first program of a terminal is
\* its own parent; tot is total_progs of terminal current_term'.
ParentOf(p, tot) == IF tot = 0 THEN p ELSE process[current_term']

\* execute from set_page_execute to iret, for PID p on terminal current_term';
\* tot and cnt are total_progs of that terminal and process_cnt before it.
Launch(p, tot, cnt) ==
  /\ parent_PID_num' = [parent_PID_num EXCEPT ![p] = ParentOf(p, tot)]
  /\ process' = [process EXCEPT ![current_term'] = p]
  /\ par_esp' = [par_esp EXCEPT ![p] = cpu]
  /\ UseMemoryOf(p) /\ cpu' = p
  /\ total_progs' = [total_progs EXCEPT ![current_term'] = Inc8(tot)]
  /\ process_cnt' = Inc8(cnt)
  /\ home' = [home EXCEPT ![p] = current_term']

\* Interrupts are taken wherever the thread has not executed cli().
Interruptible == cpu \in Pids /\ pc[cpu] \in {"user", "scan", "claim", "claimed", "dying"}

\* Some call of execute owns a PID that process_cnt does not count yet.
ClaimInFlight == \E p \in Pids : pc[p] = "claimed"

-----------------------------------------------------------------------------
(* execute.                                                                *)

\* A program enters execute, which calls pid_available.
ExecSyscall ==
  /\ Running("user")
  /\ Goto("scan")
  /\ idx' = [idx EXCEPT ![cpu] = 0]
  /\ UNCHANGED <<tables, terms, pcbs, hw, hist>>

\* One round of pid_available's loop up to its test; at the end of the array
\* execute prints "Max processes reached" and returns -1.
PidScan ==
  /\ Running("scan")
  /\ \/ /\ idx[cpu] = MAX_NUM_PROC
        /\ Goto("user") /\ DropIdx
     \/ /\ idx[cpu] \in Pids /\ PCB_in_use[idx[cpu]] = 1
        /\ idx' = [idx EXCEPT ![cpu] = @ + 1]
        /\ UNCHANGED pc
     \/ /\ idx[cpu] \in Pids /\ PCB_in_use[idx[cpu]] = 0
        /\ Goto("claim")
        /\ UNCHANGED idx
  /\ UNCHANGED <<tables, terms, pcbs, hw, hist>>

\* pid_available's store.
PidClaim ==
  /\ Running("claim")
  /\ PCB_in_use' = [PCB_in_use EXCEPT ![idx[cpu]] = 1]
  /\ Goto("claimed")
  /\ UNCHANGED <<total_progs, process_cnt, terms, pcbs, hw, idx, hist>>

\* Mutant of ExecBad: an error return that forgets the PID.
ExecBadKeepsPid ==
  /\ "bad" \in Commands /\ Running("claimed")
  /\ Goto("user") /\ DropIdx
  /\ UNCHANGED <<tables, terms, pcbs, hw, hist>>

\* A check of execute fails: the PID is freed and execute returns -1.
ExecBad ==
  /\ "bad" \in Commands /\ Running("claimed")
  /\ PCB_in_use' = [PCB_in_use EXCEPT ![idx[cpu]] = 0]
  /\ Goto("user") /\ DropIdx
  /\ UNCHANGED <<total_progs, process_cnt, terms, pcbs, hw, hist>>

\* The PID that a call of execute has claimed is kept for nobody.
Lose == lost' = lost \cup {idx[cpu]} /\ UNCHANGED <<home, depth>>

\* execute(NULL) returns -1 after pid_available has claimed a PID.
ExecNull ==
  /\ "null" \in Commands /\ Running("claimed")
  /\ Goto("user") /\ DropIdx /\ Lose
  /\ UNCHANGED <<tables, terms, pcbs, hw>>

\* parse_args reads an unmapped address: the page fault handler is entered
\* from inside execute.
ExecWild ==
  /\ "wild" \in Commands /\ Running("claimed")
  /\ halt_stat' = Marked
  /\ Goto("dying") /\ DropIdx /\ Lose
  /\ UNCHANGED <<tables, terms, parent_PID_num, this_esp, par_esp, hw>>

\* The header can be read but not the whole file: execute gives up after it
\* has already mapped the new process's page.
ExecCorrupt ==
  /\ "corrupt" \in Commands /\ Running("claimed")
  /\ page_user' = idx[cpu]
  /\ PCB_in_use' = [PCB_in_use EXCEPT ![idx[cpu]] = 0]
  /\ Goto("user") /\ DropIdx
  /\ UNCHANGED <<total_progs, process_cnt, terms, pcbs, tss_esp0, cpu, hist>>

\* execute succeeds and enters the new program.
ExecLaunch ==
  /\ "good" \in Commands /\ Running("claimed")
  /\ current_term' = current_term
  /\ Launch(idx[cpu], total_progs[current_term], process_cnt)
  /\ depth' = [depth EXCEPT ![idx[cpu]] = Inc8(total_progs[current_term])]
  /\ pc' = [pc EXCEPT ![cpu] = "child", ![idx[cpu]] = "user"]
  /\ DropIdx
  /\ UNCHANGED <<PCB_in_use, viewing_term, halt_stat, this_esp, lost>>

-----------------------------------------------------------------------------
(* Exceptions and halt.                                                    *)

\* A page or protection fault in user mode: squash_exception marks the program and
\* calls halt.
Fault ==
  /\ Running("user")
  /\ (IF parent_PID_num[head] = head THEN "base" ELSE "child") \in Exceptions
  /\ halt_stat' = Marked
  /\ Goto("dying")
  /\ UNCHANGED <<tables, terms, parent_PID_num, this_esp, par_esp, hw, idx, hist>>

\* Any other exception: cli(); printf; while(1).
Spin ==
  /\ "spin" \in Exceptions /\ Running("user")
  /\ Goto("spin")
  /\ UNCHANGED <<tables, terms, pcbs, hw, idx, hist>>

\* Mutant of ExitValue: the flag is ignored.
ExitStatusOnly(p) == 0

\* What halt gives back to the parent's execute; 0 stands for any status 0..255.
ExitValue(p) == IF halt_stat[p] = 1 THEN 256 ELSE 0

\* Mutant of CountAfterHalt: only total_progs is decremented.
CountUnchanged == process_cnt

\* process_cnt after halt.
CountAfterHalt == Dec8(process_cnt)

\* total_progs of the terminal after halt.
ProgsAfterHalt == Dec8(total_progs[current_term])

\* halt is entered by a program or by squash_exception; it ends the program in
\* front on the scheduled terminal.
Halting == cpu \in Pids /\ pc[cpu] \in {"user", "dying"} /\ head \in Pids

\* halt of the last program of a terminal executes a new shell in its place.
HaltRestart ==
  /\ Halting /\ ProgsAfterHalt = 0
  /\ current_term' = current_term
  /\ LET freed == [PCB_in_use EXCEPT ![head] = 0]
     IN \E p \in Pids :
          /\ FirstFree(freed, p)
          /\ PCB_in_use' = [freed EXCEPT ![p] = 1]
          /\ Launch(p, 0, CountAfterHalt)
          /\ depth' = [depth EXCEPT ![head] = 0, ![p] = 1]
          /\ pc' = [pc EXCEPT ![cpu] = "user", ![p] = "user"]
  /\ UNCHANGED <<viewing_term, halt_stat, this_esp, idx, lost>>

\* halt of any other program returns into its parent's call of execute, which
\* returns ExitValue(head) to the parent.
HaltReturn ==
  /\ Halting /\ ProgsAfterHalt # 0
  /\ PCB_in_use' = [PCB_in_use EXCEPT ![head] = 0]
  /\ total_progs' = [total_progs EXCEPT ![current_term] = ProgsAfterHalt]
  /\ process_cnt' = CountAfterHalt
  /\ process' = [process EXCEPT ![current_term] = parent_PID_num[head]]
  /\ UseMemoryOf(parent_PID_num[head])
  /\ halt_stat' = [halt_stat EXCEPT ![head] = 0]
  /\ cpu' = par_esp[head]
  /\ pc' = [pc EXCEPT ![cpu] = "user", ![par_esp[head]] = "user"]
  /\ depth' = [depth EXCEPT ![head] = 0]
  /\ UNCHANGED <<current_term, viewing_term, parent_PID_num, par_esp, home, lost,
                 this_esp, idx>>

-----------------------------------------------------------------------------
(* Interrupts.                                                             *)

\* How far terminal t is after the current one in the scheduler's order.
Distance(t) == (t + NUM_TERM - current_term) % NUM_TERM

\* Mutant of ScheduledTerm: the search starts at terminal 0.
ScheduledFromZero(t) ==
  /\ t \in Terms /\ total_progs[t] > 0
  /\ \A u \in Terms : u < t => total_progs[u] = 0

\* get_scheduled_term returns t: the first terminal after the current one that
\* has programs, or the current one.
ScheduledTerm(t) ==
  /\ t \in Terms
  /\ total_progs[t] > 0 \/ t = current_term
  /\ \A u \in Terms \ {t, current_term} :
       (t = current_term \/ Distance(u) < Distance(t)) => total_progs[u] = 0

\* Mutant of SaveContext: nothing is saved.
SaveNothing == this_esp

\* PIT_handler stores its stack pointer in the PCB of the program it suspends.
SaveContext == [this_esp EXCEPT ![head] = cpu]

\* PIT_handler when another terminal is to run; when none is it changes nothing.
PIT ==
  /\ Interruptible
  /\ \E t \in Terms \ {current_term} :
       /\ ScheduledTerm(t)
       /\ UseMemoryOf(process[t])
       /\ this_esp' = [SaveContext EXCEPT ![process[t]] = NoPid]
       /\ cpu' = SaveContext[process[t]]
       /\ current_term' = t
  /\ UNCHANGED <<tables, process, viewing_term, parent_PID_num, halt_stat,
                 par_esp, pc, idx, hist>>

\* Mutant of AtLimit: off by one.
AtLimitOffByOne(dest) == total_progs[dest] = 0 /\ process_cnt > MAX_NUM_PROC

\* terminal_switch answers "At process limit".
AtLimit(dest) == total_progs[dest] = 0 /\ process_cnt + 1 > MAX_NUM_PROC

\* terminal_switch lets the user look at dest.
MaySwitch(dest) == Interruptible /\ dest # viewing_term /\ ~AtLimit(dest)

\* Alt+F1..F3 to a terminal that runs programs: only the view changes.
SwitchView(dest) ==
  /\ MaySwitch(dest) /\ total_progs[dest] # 0
  /\ viewing_term' = dest
  /\ UNCHANGED <<tables, process, current_term, pcbs, hw, pc, idx, hist>>

\* Alt+F1..F3 to a terminal without programs: the thread is saved in the PCB of
\* the viewed terminal's program and a shell is executed on dest.
OpenTerminal(dest) ==
  /\ MaySwitch(dest) /\ total_progs[dest] = 0
  /\ viewing_term' = dest /\ current_term' = dest
  /\ \E p \in Pids :
       /\ FirstFree(PCB_in_use, p)
       /\ PCB_in_use' = [PCB_in_use EXCEPT ![p] = 1]
       /\ Launch(p, 0, process_cnt)
       /\ depth' = [depth EXCEPT ![p] = 1]
       /\ pc' = [pc EXCEPT ![p] = "user"]
  /\ this_esp' = [this_esp EXCEPT ![process[viewing_term]] = cpu]
  /\ UNCHANGED <<halt_stat, idx, lost>>

\* The same when no PCB is free: execute returns -1, "weird error" is printed
\* and the interrupted thread goes on with another terminal as the current one
\* (its saved frame dies when the handler returns).
WeirdError(dest) ==
  /\ MaySwitch(dest) /\ total_progs[dest] = 0
  /\ \A p \in Pids : PCB_in_use[p] = 1
  /\ viewing_term' = dest /\ current_term' = dest
  /\ this_esp' = [this_esp EXCEPT ![process[viewing_term]] = NoPid]
  /\ UNCHANGED <<tables, process, parent_PID_num, halt_stat, par_esp, hw, pc,
                 idx, hist>>

-----------------------------------------------------------------------------
(* The environment decides when the timer and the user interrupt; Timing    *)
(* says how untimely it may be.  Programs are not restricted.              *)

\* No interrupt comes between pid_available's test and its store.
InterruptTimely == pc[cpu] = "claim" => "claim" \in Timing

\* A terminal is opened while the viewed one has the CPU and no call of execute
\* holds a PID.
OpenTimely ==
  /\ viewing_term # current_term => "foreign" \in Timing
  /\ ClaimInFlight => "inflight" \in Timing

Program ==
  \/ ExecSyscall \/ PidScan \/ PidClaim
  \/ ExecBad \/ ExecNull \/ ExecWild \/ ExecCorrupt \/ ExecLaunch
  \/ Fault \/ Spin \/ HaltRestart \/ HaltReturn

Timer == InterruptTimely /\ PIT

User(dest) ==
  /\ InterruptTimely
  /\ SwitchView(dest) \/ (OpenTimely /\ (OpenTerminal(dest) \/ WeirdError(dest)))

Next == Program \/ Timer \/ \E dest \in Terms : User(dest)

Spec == Init /\ [][Next]_vars

\* A step of thread p inside the kernel, which ends without waiting for anybody.
KernelStep(p) ==
  /\ cpu = p
  /\ \/ PidScan \/ PidClaim \/ ExecBad \/ ExecLaunch
     \/ pc[p] = "dying" /\ (HaltRestart \/ HaltReturn)

\* The timer ticks for ever and the PIC keeps a tick that comes while interrupts
\* are off; a thread in the kernel advances whenever it has the CPU.  Programs
\* owe nothing: they may run for ever in user mode.
FairSpec ==
  /\ Spec
  /\ SF_vars(Timer)
  /\ \A p \in Pids : SF_vars(KernelStep(p))

-----------------------------------------------------------------------------
(* Safety.                                                                 *)

Alive(p) == depth[p] > 0
Programs == {p \in Pids : Alive(p)}
ProgramsOf(t) == {p \in Programs : home[p] = t}
Claims(p, q) == pc[p] = "claimed" /\ idx[p] = q
Held == {q \in Pids : \E p \in Pids : Claims(p, q)}

\* The CPU always executes on the kernel stack of the program in front on the
\* scheduled terminal, with that program's memory mapped and its stack in the
\* TSS: PIT_handler, execute and halt keep the four in step.
RunningIsHead ==
  /\ cpu \in Pids
  /\ cpu = head /\ page_user = head /\ tss_esp0 = head
  /\ total_progs[current_term] > 0

\* The front program of every terminal that waits for the timer can be resumed:
\* its PCB holds its own, not yet consumed, stack pointer ("esp for current
\* process, use on term switch", syscall.h:57).
SuspendedHeadsSaved ==
  \A t \in Terms \ {current_term} :
    total_progs[t] > 0 => this_esp[process[t]] = process[t]

\* When a program halts, control goes back into the call of execute that
\* started it: its parent is alive, on the same terminal, directly below it,
\* waiting in execute, and par_esp is the parent's own stack.
ReturnPathIntact ==
  \A p \in Pids : depth[p] > 1 =>
    LET q == parent_PID_num[p]
    IN /\ q \in Pids /\ par_esp[p] = q /\ pc[q] = "child"
       /\ home[q] = home[p] /\ depth[p] = depth[q] + 1

\* The counters that the at-limit check of terminal_switch and the scheduler
\* read are the numbers of programs that really run.
CountsAgree ==
  /\ process_cnt = Cardinality(Programs)
  /\ \A t \in Terms : total_progs[t] = Cardinality(ProgramsOf(t))

\* A PCB has at most one owner, a running program or a call of execute that has
\* claimed it, and pid_available sees that it is taken ("array that tells us what
\* PCB's are available", syscall.h:67).
NoDoubleOwner ==
  \A p, q \in Pids : Claims(p, q) =>
    /\ PCB_in_use[q] = 1 /\ ~Alive(q)
    /\ \A r \in Pids : Claims(r, q) => r = p

\* A PCB in use is a program's, or held by a call of execute, or was lost to a NULL
\* or wild command, and only one of these: on no other way through execute, halt and
\* terminal_switch does a PCB get lost or freed under its owner.
PcbsAccounted ==
  /\ {q \in Pids : PCB_in_use[q] = 1} = Programs \cup Held \cup lost
  /\ Programs \cap Held = {} /\ Programs \cap lost = {} /\ Held \cap lost = {}

\* When the limit check of terminal_switch lets the user open a terminal and yet no
\* PCB is left for its shell ("weird error", keyboard.c:691), the PIDs that calls of
\* execute hold and those they have lost are what process_cnt is short of.
ShellFitsUnlessHeld ==
  \A dest \in Terms :
    (/\ MaySwitch(dest) /\ total_progs[dest] = 0
     /\ \A p \in Pids : PCB_in_use[p] = 1)
    => /\ Held \cup lost # {}
       /\ process_cnt + Cardinality(Held) + Cardinality(lost) = MAX_NUM_PROC

\* A program that is halted by an exception makes its parent's execute return 256
\* ("256 -- failed on exception", syscall.c:93), however long its thread was
\* suspended between the exception and halt.
ExceptionReturns256 == Halting /\ pc[cpu] = "dying" => ExitValue(head) = 256

\* And only such a program does: one that could call halt now, and has a parent,
\* would return its status.
ExitKeepsStatus ==
  Halting /\ pc[cpu] = "user" /\ ProgsAfterHalt # 0 => ExitValue(head) = 0

-----------------------------------------------------------------------------
(* Liveness.                                                               *)

\* Round robin: no terminal with programs waits for ever, whatever the others
\* do (get_scheduled_term).
EveryTerminalScheduled ==
  \A t \in Terms : total_progs[t] > 0 ~> current_term = t

\* Nobody stays inside the kernel for ever: a call of execute returns or enters
\* its program, and a program that raised a page or protection fault is halted.
KernelCallsEnd ==
  \A p \in Pids : pc[p] \in {"scan", "claim", "claimed", "dying"} ~> pc[p] \in {"user", "child"}
=============================================================================
