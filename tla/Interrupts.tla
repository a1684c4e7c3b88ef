----------------------------- MODULE Interrupts -----------------------------
(***************************************************************************)
(* How interrupts reach the kernel and how it gets back: the two 8259      *)
(* controllers and their masks (i8259.c), the gates of the IDT (IDT.c),    *)
(* the wrappers of the handlers and of system calls (Wrappers.S), what the *)
(* handlers of timer, keyboard and clock do to the interrupt flag and the  *)
(* controllers (PIT.c, keyboard.c, rtc.c), and the end of the boot         *)
(* sequence (kernel.c).  The programs use the clock, so this is module Rtc *)
(* with its interrupt, its scheduler and its cli() taken apart.            *)
(*                                                                         *)
(* The CPU takes a request before the next instruction whenever IF is set, *)
(* so an instruction is a step only when no request is granted.  With IF   *)
(* clear nothing comes between two instructions: the body of a handler is  *)
(* one step.  Handlers execute sti() before their last popfl and iret,     *)
(* where further interrupts may nest.                                      *)
(***************************************************************************)
EXTENDS Integers, Sequences

CONSTANTS
  NUM_TERM,     \* 3 in keyboard.h
  Frequencies,  \* frequencies that programs write
  MaxNest       \* bound: handlers nested on one kernel stack

ASSUME InterruptsAssumption ==
  /\ NUM_TERM \in Nat \ {0} /\ Frequencies \subseteq Int /\ MaxNest \in Nat \ {0}

PIT_IRQ == 0
KEYBOARD_IRQ_NUM == 1
SLAVE_IRQ == 2
RTC_IRQ == 8

VARIABLES
  boot,          \* how far entry() has come
  eflags_IF,     \* the interrupt flag of the CPU
  master_mask,   \* lines of the master that are masked
  slave_mask,    \* the same for the slave; RTC_IRQ is its first line
  in_service,    \* lines for which the controllers wait for an EOI
  line,          \* what each device has requested
  kstack,        \* per terminal: interrupted handlers, newest first
  started,       \* terminals with total_progs > 0
  current_term,  \* the terminal that is scheduled
  viewing_term,  \* the terminal that is on the screen
  rtc_flag, register_A, rpc, frequency, unread,  \* as in module Rtc
  rtc_index,     \* the register that port 0x70 has selected
  asked          \* per terminal: local variable frequency of write_rtc

cpu == <<boot, eflags_IF, kstack, started, current_term, viewing_term>>
pic == <<master_mask, slave_mask, in_service, line>>
clock == <<rtc_flag, register_A, frequency, unread, rtc_index>>
programs == <<rpc, asked>>
vars == <<cpu, pic, clock, programs>>

Terms == 0..(NUM_TERM - 1)
Devices == {PIT_IRQ, KEYBOARD_IRQ_NUM, RTC_IRQ}
Frames == [irq : Devices, at : {"body", "saved", "resume", "tail"}]

\* During write_rtc the abstract program is still about to write; ticks before
\* enable_rtc has lowered the flags are thrown away.
Clock == INSTANCE Rtc WITH
  rpc <- [t \in Terms |-> IF rpc[t] \in {"wait", "lower"} THEN rpc[t] ELSE "idle"],
  rtc_flag <- [t \in Terms |-> IF boot = "clear" THEN 0 ELSE rtc_flag[t]],
  unread <- [t \in Terms |-> IF boot = "clear" THEN FALSE ELSE unread[t]]

TypeOK ==
  /\ boot \in {"clear", "pit", "shell", "done"} /\ eflags_IF \in BOOLEAN
  /\ master_mask \subseteq 0..7 /\ slave_mask \subseteq 8..15
  /\ in_service \subseteq Devices \cup {SLAVE_IRQ}
  /\ line \in [Devices -> {"quiet", "raised", "served", "acked"}]
  /\ \A t \in Terms : kstack[t] \in Seq(Frames) /\ Len(kstack[t]) <= MaxNest
  /\ started \subseteq Terms /\ current_term \in Terms /\ viewing_term \in Terms
  /\ rtc_flag \in [Terms -> {0, 1}] /\ register_A \in 0..15
  /\ rpc \in [Terms -> {"idle", "wait", "lower", "check", "store", "return"}]
  /\ frequency \in Frequencies \cup {2} /\ asked \in [Terms -> Frequencies \cup {2}]
  /\ unread \in [Terms -> BOOLEAN] /\ rtc_index \in {"A", "C"}

\* entry() up to the sti() of the write_rtc that enable_rtc calls through
\* open_rtc: IDT, i8259_init, init_board and most of enable_rtc run with
\* interrupts disabled.  enable_irq has been called for these lines.
Init ==
  /\ boot = "clear" /\ eflags_IF = TRUE
  /\ master_mask = (0..7) \ {KEYBOARD_IRQ_NUM, SLAVE_IRQ}
  /\ slave_mask = (8..15) \ {RTC_IRQ}
  /\ in_service = {} /\ line = [i \in Devices |-> "quiet"]
  /\ kstack = [t \in Terms |-> <<>>] /\ started = {}
  /\ current_term = 0 /\ viewing_term = 0
  /\ rtc_flag = [t \in Terms |-> 0] /\ register_A = Clock!RateOf(2)
  /\ rpc = [t \in Terms |-> "idle"] /\ asked = [t \in Terms |-> 2]
  /\ frequency = 2 /\ unread = [t \in Terms |-> FALSE] /\ rtc_index = "A"

-----------------------------------------------------------------------------
(* The 8259 controllers (hardware; programmed by i8259_init).              *)

\* The slave's requests come through line SLAVE_IRQ of the master.
Path(i) == IF i > 7 THEN {SLAVE_IRQ, i} ELSE {i}
Rank(i) == IF i > 7 THEN SLAVE_IRQ ELSE i

Requesting(i) == line[i] = "raised" /\ Path(i) \cap (master_mask \cup slave_mask) = {}

\* A request passes when no line of its rank or above waits for an EOI.
Granted(i) ==
  /\ Requesting(i)
  /\ \A j \in in_service : Rank(i) < Rank(j)
  /\ \A j \in Devices : Requesting(j) => Rank(i) <= Rank(j)

\* A device that the last handler has served and that programs have run since.
Raise(i) ==
  /\ line[i] = "quiet" /\ line' = [line EXCEPT ![i] = "raised"]
  /\ UNCHANGED <<cpu, master_mask, slave_mask, in_service, clock, programs>>

\* Devices are slow: one that was served does not request again before the
\* interrupted program has executed an instruction.
Settle == line' = [i \in Devices |-> IF line[i] = "acked" THEN "quiet" ELSE line[i]]

\* Mutant of Acknowledged: the EOI goes to the slave alone.
AcknowledgedSlaveOnly(i) == in_service \ {i}

\* send_eoi(i)
Acknowledged(i) == in_service \ Path(i)

-----------------------------------------------------------------------------
(* Entry and exit of handlers, on the kernel stack of the current process. *)

Interrupted(i) == eflags_IF /\ Len(kstack[current_term]) < MaxNest /\ Granted(i)
Undisturbed == \A i \in Devices : ~Interrupted(i)

InBody(i) ==
  /\ kstack[current_term] # <<>>
  /\ Head(kstack[current_term]) = [irq |-> i, at |-> "body"]
Stack(t, s) == [kstack EXCEPT ![t] = s]
\* The newest frame of t is at a.
Moved(t, a) == <<[Head(kstack[t]) EXCEPT !.at = a]>> \o Tail(kstack[t])

\* The CPU goes through an interrupt gate, which clears IF.
Enter(i) ==
  /\ Interrupted(i)
  /\ eflags_IF' = FALSE
  /\ line' = [line EXCEPT ![i] = "served"]
  /\ in_service' = in_service \cup Path(i)
  /\ kstack' = Stack(current_term, <<[irq |-> i, at |-> "body"]>> \o kstack[current_term])
  /\ UNCHANGED <<boot, started, current_term, viewing_term, master_mask, slave_mask,
                 clock, programs>>

\* The handler has dealt with its device; EOI.
Served(i) ==
  /\ line' = [line EXCEPT ![i] = "acked"]
  /\ in_service' = Acknowledged(i)
  /\ UNCHANGED <<master_mask, slave_mask>>

\* HANDLER after the call: popfl restores a clear flag, iret the flag of the
\* code that was interrupted, which was set.
Return ==
  /\ Undisturbed
  /\ kstack[current_term] # <<>> /\ Head(kstack[current_term]).at = "tail"
  /\ eflags_IF' = TRUE /\ kstack' = Stack(current_term, Tail(kstack[current_term]))
  /\ UNCHANGED <<boot, started, current_term, viewing_term, pic, clock, programs>>

-----------------------------------------------------------------------------
(* The handlers.                                                           *)

\* Mutant of Flagged: only the terminal that is scheduled learns of the tick.
FlaggedCurrent == [rtc_flag EXCEPT ![current_term] = 1]

Flagged == [t \in Terms |-> 1]

\* rtc_interrupt: register C is read and every flag raised.
RtcInterrupt ==
  /\ InBody(RTC_IRQ) /\ Served(RTC_IRQ)
  /\ rtc_index' = "C" /\ rtc_flag' = Flagged
  /\ unread' = [t \in Terms |-> TRUE]
  /\ eflags_IF' = TRUE /\ kstack' = Stack(current_term, Moved(current_term, "tail"))
  /\ UNCHANGED <<boot, started, current_term, viewing_term, register_A, frequency,
                 programs>>

\* keyboard_handler for a key that starts no shell (modules LineDiscipline, Screen);
\* it may show another terminal.
Key ==
  /\ InBody(KEYBOARD_IRQ_NUM) /\ Served(KEYBOARD_IRQ_NUM)
  /\ viewing_term' \in started \cup {viewing_term}
  /\ eflags_IF' = TRUE /\ kstack' = Stack(current_term, Moved(current_term, "tail"))
  /\ UNCHANGED <<boot, started, current_term, clock, programs>>

\* Mutant of IfAfterIret: execute pushes the flags as they are.
IfAfterIretAsIs == eflags_IF

\* execute sets IF in the flags that its iret takes.
IfAfterIret == TRUE

\* Mutant of OpensEoi: terminal_switch leaves the EOI to keyboard_handler.
OpensEoiNot == UNCHANGED <<in_service, master_mask, slave_mask, line>>

OpensEoi == Served(KEYBOARD_IRQ_NUM)

\* A terminal is opened while the viewed one has the CPU.  This is the environment's,
\* not the code's: the other case is the finding of run kernel_foreign.
OpenTimely == viewing_term = current_term

\* keyboard_handler for the key that opens terminal t: terminal_switch saves the
\* stack in the PCB of the viewed terminal's program, which OpenTimely makes the one
\* that is interrupted, sends the EOI and executes a shell.
KeyOpens(t) ==
  /\ InBody(KEYBOARD_IRQ_NUM) /\ boot = "done" /\ t \notin started
  /\ OpensEoi /\ eflags_IF' = IfAfterIret
  /\ kstack' = Stack(viewing_term, Moved(viewing_term, "resume"))
  /\ started' = started \cup {t} /\ current_term' = t /\ viewing_term' = t
  /\ UNCHANGED <<boot, clock, programs>>

\* get_scheduled_term returns t: the first terminal behind the current one that has
\* programs, or the current one.
Distance(t) == (t + NUM_TERM - current_term) % NUM_TERM
ScheduledTerm(t) ==
  /\ t \in started \/ t = current_term
  /\ \A u \in started \ {t, current_term} : t # current_term /\ Distance(t) < Distance(u)

\* PIT_handler goes on behind the saved stack of next: its own call there, or
\* the call of terminal_switch in keyboard_handler.
Resumed(next) ==
  IF Head(kstack[next]).at = "saved" THEN Moved(next, "tail") ELSE kstack[next]

\* PIT_handler
Pit ==
  /\ InBody(PIT_IRQ) /\ Served(PIT_IRQ)
  /\ eflags_IF' = TRUE
  /\ \E next \in Terms :
       /\ ScheduledTerm(next)
       /\ current_term' = next
       /\ kstack' = IF next = current_term
                    THEN Stack(current_term, Moved(current_term, "tail"))
                    ELSE [Stack(current_term, Moved(current_term, "saved"))
                            EXCEPT ![next] = Resumed(next)]
  /\ UNCHANGED <<boot, started, viewing_term, clock, programs>>

\* The end of keyboard_handler after terminal_switch: a second EOI.
KeyResumed ==
  /\ Undisturbed
  /\ kstack[current_term] # <<>> /\ Head(kstack[current_term]).at = "resume"
  /\ in_service' = Acknowledged(KEYBOARD_IRQ_NUM)
  /\ eflags_IF' = TRUE /\ kstack' = Stack(current_term, Moved(current_term, "tail"))
  /\ UNCHANGED <<boot, started, current_term, viewing_term, master_mask, slave_mask,
                 line, clock, programs>>

Handler ==
  \/ RtcInterrupt \/ Key \/ Pit \/ KeyResumed
  \/ \E t \in Terms : OpenTimely /\ KeyOpens(t)

-----------------------------------------------------------------------------
(* Code that is interrupted: the boot sequence, programs, and their calls  *)
(* of read_rtc and write_rtc.                                              *)

Executes == Undisturbed /\ kstack[current_term] = <<>> /\ Settle

\* The end of enable_rtc; its loop over the terminals is one step.
ClearFlags ==
  /\ Executes /\ boot = "clear" /\ boot' = "pit"
  /\ rtc_flag' = [t \in Terms |-> 0] /\ unread' = [t \in Terms |-> FALSE]
  /\ UNCHANGED <<eflags_IF, kstack, started, current_term, viewing_term, master_mask,
                 slave_mask, in_service, register_A, frequency, rtc_index, programs>>

\* init_PIT
InitPit ==
  /\ Executes /\ boot = "pit" /\ boot' = "shell"
  /\ master_mask' = master_mask \ {PIT_IRQ}
  /\ UNCHANGED <<eflags_IF, kstack, started, current_term, viewing_term, slave_mask,
                 in_service, clock, programs>>

\* init_paging, file_init_mod, terminal_init and execute of the first shell.
FirstShell ==
  /\ Executes /\ boot = "shell" /\ boot' = "done"
  /\ started' = {0} /\ current_term' = 0 /\ eflags_IF' = IfAfterIret
  /\ UNCHANGED <<kstack, viewing_term, master_mask, slave_mask, in_service, clock,
                 programs>>

\* The program of the scheduled terminal executes from one label to another.
Goes(from, to) ==
  /\ Executes /\ boot = "done" /\ rpc[current_term] = from
  /\ rpc' = [rpc EXCEPT ![current_term] = to]
  /\ UNCHANGED <<boot, kstack, started, current_term, viewing_term, master_mask,
                 slave_mask, in_service>>

Computes == Goes("idle", "idle") /\ UNCHANGED <<eflags_IF, clock, asked>>

ReadCall == Goes("idle", "wait") /\ UNCHANGED <<eflags_IF, clock, asked>>

\* One round of read_rtc's loop.
ReadSpins ==
  /\ rtc_flag[current_term] = 0 /\ Goes("wait", "wait")
  /\ UNCHANGED <<eflags_IF, clock, asked>>

ReadSees ==
  /\ rtc_flag[current_term] # 0 /\ Goes("wait", "lower")
  /\ UNCHANGED <<eflags_IF, clock, asked>>

\* Mutants of Lowered: one flag for all terminals; the flag stays up.
LoweredForAll == [t \in Terms |-> 0]
LoweredNever == rtc_flag

\* Each terminal has a flag of its own.
Lowered == [rtc_flag EXCEPT ![current_term] = 0]

ReadLowers ==
  /\ Goes("lower", "idle")
  /\ rtc_flag' = Lowered /\ unread' = [unread EXCEPT ![current_term] = FALSE]
  /\ UNCHANGED <<eflags_IF, register_A, frequency, rtc_index, asked>>

\* Mutant of IfAfterCli: write_rtc does not disable interrupts.
IfAfterCliNot == eflags_IF

IfAfterCli == FALSE

\* write_rtc, and open_rtc, which writes 2.
WriteCall(f) ==
  /\ Goes("idle", "check") /\ eflags_IF' = IfAfterCli
  /\ asked' = [asked EXCEPT ![current_term] = f]
  /\ UNCHANGED clock

\* A frequency that is refused: write_rtc returns without sti().
WriteRefuses ==
  /\ ~Clock!Accepted(asked[current_term]) /\ Goes("check", "return")
  /\ asked' = [asked EXCEPT ![current_term] = 2]
  /\ UNCHANGED <<eflags_IF, clock>>

WriteSelects ==
  /\ Clock!Accepted(asked[current_term]) /\ Goes("check", "store")
  /\ rtc_index' = "A"
  /\ UNCHANGED <<eflags_IF, rtc_flag, register_A, frequency, unread, asked>>

\* The store to the register that is selected, and sti().
WriteStores ==
  /\ Goes("store", "return") /\ eflags_IF' = TRUE
  /\ register_A' = IF rtc_index = "A" THEN Clock!RateOf(asked[current_term]) ELSE register_A
  /\ frequency' = asked[current_term]
  /\ asked' = [asked EXCEPT ![current_term] = 2]
  /\ UNCHANGED <<rtc_flag, unread, rtc_index>>

\* sys_call_handler: its iret restores the flags of the program, which has IF set.
SyscallReturns == Goes("return", "idle") /\ eflags_IF' = TRUE /\ UNCHANGED <<clock, asked>>

Program ==
  \/ Computes \/ ReadCall \/ ReadSpins \/ ReadSees \/ ReadLowers
  \/ WriteRefuses \/ WriteSelects \/ WriteStores \/ SyscallReturns
  \/ \E f \in Frequencies \cup {2} : WriteCall(f)

-----------------------------------------------------------------------------
Instruction ==
  \/ \E i \in Devices : Enter(i)
  \/ Handler \/ Return \/ ClearFlags \/ InitPit \/ FirstShell \/ Program

Next == Instruction \/ \E i \in Devices : Raise(i)

Spec == Init /\ [][Next]_vars

\* The CPU executes, the timer and the clock tick for ever; keys need not come.
FairSpec ==
  /\ Spec
  /\ WF_vars(Instruction) /\ WF_vars(Raise(PIT_IRQ)) /\ WF_vars(Raise(RTC_IRQ))

-----------------------------------------------------------------------------
\* The controllers wait for an EOI only while the body of the handler that will
\* send it is being executed: nothing that is suspended, abandoned or resumed
\* elsewhere owes one (send_eoi in PIT_handler after the stacks are switched, in
\* terminal_switch before a shell that never returns).
ServedByRunningHandler ==
  \A i \in Devices : Path(i) \cap in_service # {} => InBody(i) /\ ~eflags_IF

\* Programs run with interrupts enabled, also the ones started out of a handler,
\* and after calls of write_rtc that return between its cli() and its sti().
ProgramsInterruptible ==
  boot = "done" /\ kstack[current_term] = <<>> /\ rpc[current_term] = "idle" => eflags_IF

\* Every request of every device is served, through masks, priorities and the
\* cascade ("We were not sending an EOI for the port on the master that the slave
\* was connected to", Bug_Log.txt).
RequestsServed == \A i \in Devices : line[i] = "raised" ~> line[i] = "served"

\* The properties of module Rtc, under interrupts and the scheduler as they are.
OneReadPerTick == Clock!OneReadPerTick
RateIsFrequency == Clock!RateIsFrequency

\* Every read of the clock ends, whatever the other programs read and write
\* ("adding individual flags for each terminal to clear independently", Bug_Log.txt).
ReadsEnd == \A t \in Terms : rpc[t] = "wait" ~> rpc[t] = "idle"

\* With its interrupt, its scheduler and its cli() taken apart this is still the
\* clock of module Rtc: a write is one step, a tick reaches all terminals at once.
ImplementsRtc == Clock!Spec
=============================================================================
