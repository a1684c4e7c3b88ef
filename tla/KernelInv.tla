------------------------------ MODULE KernelInv ------------------------------
(***************************************************************************)
(* The inductive invariants behind Kernel's safety properties.  The        *)
(* properties say nothing of where in its terminal's stack a program is,   *)
(* which is what makes halt and execute come out right; home and depth do. *)
(*                                                                         *)
(* FaultInv survives every command and exception, also after PCBs were     *)
(* lost and terminal_switch has failed with "weird error", which leaves    *)
(* the CPU on a terminal without programs.  TimelyInv adds what holds as   *)
(* long as that has not happened.                                          *)
(***************************************************************************)
EXTENDS Kernel

\* The program in front on terminal t is the last of total_progs[t] programs.
HeadsOnTop ==
  \A t \in Terms : total_progs[t] > 0 =>
    process[t] \in Pids /\ home[process[t]] = t /\ depth[process[t]] = total_progs[t]

\* Without programs there is no program in front, so nothing can halt it.
EmptyHeadless == \A t \in Terms : total_progs[t] = 0 => process[t] = NoPid

\* A running program owns its PCB, is not above the one in front, and is its
\* own parent when it is the first.
ProgramsInStacks ==
  \A p \in Pids : Alive(p) =>
    /\ PCB_in_use[p] = 1
    /\ depth[p] <= total_progs[home[p]]
    /\ depth[p] = 1 => parent_PID_num[p] = p

\* Two programs of one terminal are at different depths.
OnePerLevel ==
  \A p, q \in Pids : Alive(p) /\ home[p] = home[q] /\ depth[p] = depth[q] => p = q

\* Only the thread that executes is between pid_available's test and store, and
\* the PCB it found is still free.
FoundIsFree ==
  \A p \in Pids : pc[p] = "claim" => p = cpu /\ PCB_in_use[idx[p]] = 0

\* No thread exists for a PID without a program.
DeadIdle == \A p \in Pids : ~Alive(p) => pc[p] = "user"

\* The CPU is on a terminal without programs, in a thread nothing will resume.
Adrift == total_progs[current_term] = 0 /\ this_esp[cpu] = NoPid

\* The CPU executes a program in front, that of the scheduled terminal if it is
\* not adrift.
CpuInFront ==
  cpu # NoPid =>
    /\ cpu \in Pids /\ Alive(cpu) /\ process[home[cpu]] = cpu
    /\ home[cpu] = current_term \/ Adrift

\* What the timer resumes is the program in front itself, or nothing.
FrontsSaved ==
  \A t \in Terms \ {current_term} :
    total_progs[t] > 0 => this_esp[process[t]] \in {process[t], NoPid}

\* A program on its way from an exception to halt is marked, unless the mark went
\* to another PCB because the CPU was adrift: then it never gets to halt.
DyingMarked ==
  \A p \in Pids : pc[p] = "dying" =>
    \/ halt_stat[p] = 1
    \/ this_esp[p] = NoPid /\ (p = cpu => total_progs[current_term] = 0)

\* Whatever is executed and whatever fails, the PCBs of each terminal stay one
\* stack with the program in front on top, and the CPU is in the program in front
\* of the scheduled terminal, or adrift in a thread that nothing else resumes and
\* that finds no program to halt (execute, halt, PIT_handler, terminal_switch).
FaultInv ==
  /\ HeadsOnTop
  /\ EmptyHeadless
  /\ ProgramsInStacks
  /\ OnePerLevel
  /\ FoundIsFree
  /\ DeadIdle
  /\ CpuInFront
  /\ FrontsSaved
  /\ DyingMarked
  /\ ReturnPathIntact
  /\ CountsAgree
  /\ NoDoubleOwner
  /\ PcbsAccounted

\* The CPU executes the program in front of the scheduled terminal.
CpuIsHead == cpu \in Pids /\ cpu = head /\ total_progs[current_term] > 0

\* What holds besides as long as no PCB is lost and the CPU is never adrift.
TimelyInv == FaultInv /\ lost = {} /\ CpuIsHead /\ SuspendedHeadsSaved
=============================================================================
