-------------------------- MODULE KernelRefinement --------------------------
(***************************************************************************)
(* The kernel implements ProcStacks.  A terminal's stack is read off the   *)
(* kernel's own data: terminal[t].process is its top, and parent_PID_num   *)
(* leads down from there, total_progs[t] programs in all.                  *)
(***************************************************************************)
EXTENDS Kernel, Sequences

StackOf(t) ==
  LET n == total_progs[t]
      up[k \in 0..n] == IF k = 0 THEN process[t] ELSE parent_PID_num[up[k - 1]]
  IN [i \in 1..n |-> up[n - i]]

Abstract == INSTANCE ProcStacks WITH
  Terminals <- Terms, Programs <- Pids,
  stacks <- [t \in Terms |-> StackOf(t)],
  running <- current_term, shown <- viewing_term

\* Every step of execute, halt, the timer and terminal_switch is a step of the
\* stacks of programs, or leaves them alone.
ImplementsStacks == Abstract!StacksSpec
=============================================================================
