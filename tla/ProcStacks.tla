----------------------------- MODULE ProcStacks -----------------------------
(***************************************************************************)
(* What the process part of the kernel promises, without PCBs, counters or *)
(* saved contexts: every terminal has a stack of programs, the one on top  *)
(* is in front; a program starts one above itself and goes back to the one *)
(* below when it ends; a stack that has programs never becomes empty,      *)
(* because its last program is replaced by a new shell.                    *)
(***************************************************************************)
EXTENDS Naturals, Sequences

CONSTANTS Terminals, Programs

VARIABLES stacks,   \* the programs of each terminal, the one in front last
          running,  \* terminal whose front program has the CPU
          shown     \* terminal on the screen

svars == <<stacks, running, shown>>

InStack(t) == {stacks[t][i] : i \in 1..Len(stacks[t])}
Idle == {p \in Programs : \A t \in Terminals : p \notin InStack(t)}

StacksInit ==
  \E t \in Terminals, p \in Programs :
    /\ stacks = [u \in Terminals |-> IF u = t THEN <<p>> ELSE <<>>]
    /\ running = t /\ shown = t

\* The running program starts program p.
Start(p) ==
  /\ p \in Idle
  /\ stacks' = [stacks EXCEPT ![running] = Append(@, p)]
  /\ UNCHANGED <<running, shown>>

\* The running program ends; the one that started it goes on.
Return ==
  /\ Len(stacks[running]) > 1
  /\ stacks' = [stacks EXCEPT ![running] = SubSeq(@, 1, Len(@) - 1)]
  /\ UNCHANGED <<running, shown>>

\* The last program of a terminal ends; a shell, which may get the same PCB,
\* takes its place.
Restart(p) ==
  /\ Len(stacks[running]) = 1
  /\ p \in Idle \cup InStack(running)
  /\ stacks' = [stacks EXCEPT ![running] = <<p>>]
  /\ UNCHANGED <<running, shown>>

\* Another terminal that has programs gets the CPU.
Schedule(t) ==
  /\ stacks[t] # <<>> /\ running' = t
  /\ UNCHANGED <<stacks, shown>>

\* The user looks at a terminal that has programs.
Show(t) ==
  /\ stacks[t] # <<>> /\ shown' = t
  /\ UNCHANGED <<stacks, running>>

\* The user looks at a terminal for the first time; a shell is started there.
Open(t, p) ==
  /\ stacks[t] = <<>> /\ p \in Idle
  /\ stacks' = [stacks EXCEPT ![t] = <<p>>]
  /\ running' = t /\ shown' = t

StacksNext ==
  \/ Return
  \/ \E p \in Programs : Start(p) \/ Restart(p) \/ \E t \in Terminals : Open(t, p)
  \/ \E t \in Terminals : Schedule(t) \/ Show(t)

StacksSpec == StacksInit /\ [][StacksNext]_svars
=============================================================================
