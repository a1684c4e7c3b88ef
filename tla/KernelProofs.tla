---------------------------- MODULE KernelProofs ----------------------------
(***************************************************************************)
(* Theorems about Kernel, for every number of terminals and PCBs, any      *)
(* behaviour of programs and any exception.  The types hold always.  The   *)
(* stacks of programs and the counters survive every command, provided     *)
(* that no interrupt comes between pid_available's test and store and      *)
(* terminals are opened while the viewed one runs (Orderly).  That the     *)
(* scheduler always resumes the right thread needs, besides, commands      *)
(* whose rejection frees the PID (Freeing), and that no terminal is opened *)
(* during a call of execute (Timely).                                      *)
(***************************************************************************)
EXTENDS KernelInv, FiniteSetTheorems, TLAPS

-----------------------------------------------------------------------------
(* Type correctness, under every choice of Commands, Exceptions, Timing.   *)

\* execute only uses a PID that pid_available found in the array.
IdxOK == \A p \in Slots : pc[p] \in {"claim", "claimed"} => idx[p] \in Pids

TypeInv == TypeOK /\ IdxOK

\* The sets of terminals and PIDs contain what the initial state needs.
LEMMA ConstantFacts ==
  /\ 0 \in Terms /\ 0 \in Pids
  /\ NoPid \notin Pids /\ NoPid \in Slots /\ Pids \subseteq Slots
  /\ Pids \subseteq 0..MAX_NUM_PROC /\ MAX_NUM_PROC \in 1..200
  BY KernelAssumption DEF Terms, Pids, Slots, NoPid

\* uint8_t arithmetic stays in range, and is exact away from its ends.
LEMMA Width ==
  ASSUME NEW n \in 0..255
  PROVE  /\ Inc8(n) \in 0..255 /\ Dec8(n) \in 0..255
         /\ n < 255 => Inc8(n) = n + 1
         /\ n > 0 => Dec8(n) = n - 1
<1>1. Inc8(n) \in 0..255 /\ Dec8(n) \in 0..255
  BY DEF Inc8, Dec8
<1>2. n < 255 => Inc8(n) = n + 1
  BY DEF Inc8
<1>3. n > 0 => Dec8(n) = n - 1
  BY DEF Dec8
<1> QED
  BY <1>1, <1>2, <1>3

\* The initial state has the right types.
LEMMA TypeInit == Init => TypeInv
  BY ConstantFacts DEF Init, TypeInv, TypeOK, IdxOK, PCs

\* What Launch gives the variables it changes.
LaunchTyped ==
  /\ total_progs' \in [Terms -> 0..255]
  /\ process_cnt' \in 0..255
  /\ process' \in [Terms -> Slots]
  /\ parent_PID_num' \in [Slots -> Slots]
  /\ par_esp' \in [Slots -> Slots]
  /\ page_user' \in Slots /\ tss_esp0' \in Slots /\ cpu' \in Slots
  /\ home' \in [Slots -> Terms]

\* execute from set_page_execute to iret keeps the types.
LEMMA LaunchType ==
  ASSUME TypeInv, NEW p \in Pids, NEW tot \in 0..255, NEW cnt \in 0..255,
         current_term' \in Terms, Launch(p, tot, cnt)
  PROVE  LaunchTyped
<1>1. p \in Slots /\ cpu \in Slots /\ home \in [Slots -> Terms]
  BY ConstantFacts DEF TypeInv, TypeOK
<1>2. total_progs' \in [Terms -> 0..255] /\ process_cnt' \in 0..255
  BY ZenonT(30), Width DEF TypeInv, TypeOK, Launch
<1>3. process' \in [Terms -> Slots] /\ ParentOf(p, tot) \in Slots
  BY <1>1 DEF TypeInv, TypeOK, Launch, ParentOf
<1>4. parent_PID_num' \in [Slots -> Slots] /\ par_esp' \in [Slots -> Slots]
  BY <1>1, <1>3 DEF TypeInv, TypeOK, Launch
<1>5. home' \in [Slots -> Terms]
  BY <1>1 DEF Launch
<1> QED
  BY <1>1, <1>2, <1>3, <1>4, <1>5 DEF Launch, UseMemoryOf, LaunchTyped

\* Every step keeps the types.
LEMMA TypeStep == TypeInv /\ [Next]_vars => TypeInv'
<1> SUFFICES ASSUME TypeInv, [Next]_vars PROVE TypeInv'
  OBVIOUS
<1> USE ConstantFacts
<1>1. CASE ExecSyscall
  BY <1>1 DEF TypeInv, TypeOK, IdxOK, PCs, ExecSyscall, Running, Goto, tables, terms, pcbs, hw, hist
<1>2. CASE PidScan
  <2>1. cpu \in Pids /\ cpu \in Slots /\ pc[cpu] = "scan"
    BY <1>2 DEF PidScan, Running
  <2>2. idx[cpu] \in Pids => idx[cpu] + 1 \in 0..MAX_NUM_PROC
    BY DEF Pids
  <2>3. idx' \in [Slots -> 0..MAX_NUM_PROC] /\ pc' \in [Slots -> PCs]
    BY <1>2, <2>1, <2>2 DEF TypeInv, TypeOK, PCs, PidScan, Goto, DropIdx
  <2>4. IdxOK'
    BY <1>2, <2>1 DEF TypeInv, TypeOK, IdxOK, PidScan, Goto, DropIdx
  <2> QED
    BY <1>2, <2>3, <2>4 DEF TypeInv, TypeOK, PidScan, tables, terms, pcbs, hw, hist
<1>3. CASE PidClaim
  BY <1>3 DEF TypeInv, TypeOK, IdxOK, PCs, PidClaim, Running, Goto, terms, pcbs, hw, hist
<1>4. CASE ExecBad
  BY <1>4 DEF TypeInv, TypeOK, IdxOK, PCs, ExecBad, Running, Goto, DropIdx, terms, pcbs, hw, hist
<1>5. CASE ExecNull
  <2>1. lost' \subseteq Pids
    <3>1. cpu \in Slots /\ pc[cpu] = "claimed" /\ lost' = lost \cup {idx[cpu]}
      BY <1>5 DEF ExecNull, Running, Lose
    <3>2. idx[cpu] \in Pids /\ lost \subseteq Pids
      BY <3>1 DEF TypeInv, TypeOK, IdxOK
    <3> QED
      BY <3>1, <3>2
  <2> QED
    BY <1>5, <2>1 DEF TypeInv, TypeOK, IdxOK, PCs, ExecNull, Running, Goto, DropIdx, Lose,
                      tables, terms, pcbs, hw
<1>6. CASE ExecWild
  <2>1. lost' \subseteq Pids
    <3>1. cpu \in Slots /\ pc[cpu] = "claimed" /\ lost' = lost \cup {idx[cpu]}
      BY <1>6 DEF ExecWild, Running, Lose
    <3>2. idx[cpu] \in Pids /\ lost \subseteq Pids
      BY <3>1 DEF TypeInv, TypeOK, IdxOK
    <3> QED
      BY <3>1, <3>2
  <2> QED
    BY <1>6, <2>1 DEF TypeInv, TypeOK, IdxOK, PCs, ExecWild, Running, Goto, DropIdx, Lose,
                      Marked, head, tables, terms, hw
<1>7. CASE ExecCorrupt
  BY <1>7 DEF TypeInv, TypeOK, IdxOK, PCs, ExecCorrupt, Running, Goto, DropIdx, terms, pcbs, hist
<1>8. CASE ExecLaunch
  <2>1. idx[cpu] \in Pids /\ cpu \in Pids
    BY <1>8 DEF ExecLaunch, Running, TypeInv, IdxOK
  <2>2. total_progs[current_term] \in 0..255 /\ process_cnt \in 0..255
        /\ current_term' \in Terms
    BY <1>8 DEF ExecLaunch, TypeInv, TypeOK
  <2>3. Launch(idx[cpu], total_progs[current_term], process_cnt)
    BY <1>8 DEF ExecLaunch
  <2> DEFINE p == idx[cpu]
  <2>4. /\ depth' \in [Slots -> 0..255]
        /\ pc' \in [Slots -> PCs] /\ idx' \in [Slots -> 0..MAX_NUM_PROC]
    <3>1. Inc8(total_progs[current_term]) \in 0..255
      BY <2>2, Width
    <3>2. depth' \in [Slots -> 0..255]
      BY <1>8, <2>1, <3>1 DEF ExecLaunch, TypeInv, TypeOK
    <3>3. pc' \in [Slots -> PCs] /\ idx' \in [Slots -> 0..MAX_NUM_PROC]
      BY <1>8, <2>1 DEF ExecLaunch, DropIdx, TypeInv, TypeOK, PCs
    <3> QED
      BY <3>2, <3>3
  <2>5. IdxOK'
    BY <1>8, <2>1 DEF ExecLaunch, DropIdx, TypeInv, TypeOK, IdxOK
  <2> QED
    <3> HIDE DEF p
    <3>1. LaunchTyped
      BY <2>1, <2>2, <2>3, LaunchType DEF p
    <3> QED
      BY <1>8, <2>2, <2>4, <2>5, <3>1 DEF ExecLaunch, LaunchTyped, TypeInv, TypeOK
<1>9. CASE Fault
  BY <1>9 DEF TypeInv, TypeOK, IdxOK, PCs, Fault, Running, Goto, Marked, head, tables, terms, hw, hist
<1>10. CASE Spin
  BY <1>10 DEF TypeInv, TypeOK, IdxOK, PCs, Spin, Running, Goto, tables, terms, pcbs, hw, hist
<1>11. CASE HaltRestart
  <2> PICK p \in Pids :
        /\ PCB_in_use' = [[PCB_in_use EXCEPT ![head] = 0] EXCEPT ![p] = 1]
        /\ Launch(p, 0, CountAfterHalt)
        /\ depth' = [depth EXCEPT ![head] = 0, ![p] = 1]
        /\ pc' = [pc EXCEPT ![cpu] = "user", ![p] = "user"]
    BY <1>11 DEF HaltRestart
  <2>1. /\ current_term' = current_term
        /\ UNCHANGED <<viewing_term, halt_stat, this_esp, idx, lost>>
    BY <1>11 DEF HaltRestart
  <2>2. PCB_in_use' \in [Pids -> {0, 1}] /\ current_term' \in Terms
    BY <2>1 DEF TypeInv, TypeOK
  <2>3. depth' \in [Slots -> 0..255] /\ pc' \in [Slots -> PCs] /\ IdxOK'
    <3>1. depth' \in [Slots -> 0..255]
      BY DEF TypeInv, TypeOK
    <3>2. pc' \in [Slots -> PCs]
      BY DEF TypeInv, TypeOK, PCs
    <3>3. \A q \in Slots : pc'[q] \in {pc[q], "user"} /\ idx'[q] = idx[q]
      BY <2>1 DEF TypeInv, TypeOK
    <3> QED
      BY <3>1, <3>2, <3>3 DEF TypeInv, IdxOK
  <2>4. LaunchTyped
    <3>1. Launch(p, 0, CountAfterHalt) /\ 0 \in 0..255
      OBVIOUS
    <3>2. process_cnt \in 0..255
      BY DEF TypeInv, TypeOK
    <3>3. CountAfterHalt \in 0..255
      BY <3>2, Width DEF CountAfterHalt
    <3> QED
      BY <2>2, <3>1, <3>3, LaunchType
  <2> QED
    BY <2>1, <2>2, <2>3, <2>4 DEF LaunchTyped, TypeInv, TypeOK
<1>17. CASE HaltReturn
  <2>1. cpu \in Pids /\ head \in Pids
    BY <1>17 DEF HaltReturn, Halting
  <2>2. par_esp[head] \in Slots /\ parent_PID_num[head] \in Slots
    BY <2>1 DEF TypeInv, TypeOK
  <2>3. ProgsAfterHalt \in 0..255 /\ CountAfterHalt \in 0..255
    <3>1. total_progs[current_term] \in 0..255 /\ process_cnt \in 0..255
      BY DEF TypeInv, TypeOK
    <3> QED
      BY <3>1, Width DEF ProgsAfterHalt, CountAfterHalt
  <2>5. pc' \in [Slots -> PCs] /\ depth' \in [Slots -> 0..255] /\ IdxOK'
    BY <1>17, <2>1, <2>2 DEF HaltReturn, TypeInv, TypeOK, IdxOK, PCs
  <2> QED
    BY <1>17, <2>1, <2>2, <2>3, <2>5 DEF HaltReturn, UseMemoryOf, TypeInv, TypeOK
<1>12. CASE PIT
  BY <1>12 DEF TypeInv, TypeOK, IdxOK, PIT, Interruptible, UseMemoryOf, SaveContext,
               head, tables, hist
<1>13. ASSUME NEW dest \in Terms, SwitchView(dest) PROVE TypeInv'
  BY <1>13 DEF TypeInv, TypeOK, IdxOK, SwitchView, tables, pcbs, hw, hist
<1>14. ASSUME NEW dest \in Terms, OpenTerminal(dest) PROVE TypeInv'
  <2> PICK p \in Pids :
        /\ PCB_in_use' = [PCB_in_use EXCEPT ![p] = 1]
        /\ Launch(p, 0, process_cnt)
        /\ depth' = [depth EXCEPT ![p] = 1]
        /\ pc' = [pc EXCEPT ![p] = "user"]
    BY <1>14 DEF OpenTerminal
  <2>1. process_cnt \in 0..255 /\ current_term' \in Terms /\ cpu \in Slots
    BY <1>14 DEF OpenTerminal, TypeInv, TypeOK
  <2>2. /\ PCB_in_use' \in [Pids -> {0, 1}] /\ depth' \in [Slots -> 0..255]
        /\ pc' \in [Slots -> PCs] /\ this_esp' \in [Slots -> Slots]
    BY <1>14, <2>1 DEF OpenTerminal, TypeInv, TypeOK, PCs
  <2>3. IdxOK'
    <3>1. idx' = idx /\ pc' = [pc EXCEPT ![p] = "user"]
      BY <1>14 DEF OpenTerminal
    <3> QED
      BY <3>1 DEF TypeInv, TypeOK, IdxOK
  <2>4. LaunchTyped
    <3>1. Launch(p, 0, process_cnt) /\ 0 \in 0..255
      OBVIOUS
    <3> QED
      BY <2>1, <3>1, LaunchType
  <2>5. UNCHANGED <<halt_stat, idx, lost>> /\ viewing_term' = dest
    BY <1>14 DEF OpenTerminal
  <2> QED
    BY <2>1, <2>2, <2>3, <2>4, <2>5 DEF LaunchTyped, TypeInv, TypeOK
<1>15. ASSUME NEW dest \in Terms, WeirdError(dest) PROVE TypeInv'
  BY <1>15 DEF TypeInv, TypeOK, IdxOK, WeirdError, tables, hw, hist
<1>16. CASE UNCHANGED vars
  BY <1>16 DEF TypeInv, TypeOK, IdxOK, vars, tables, terms, pcbs, hw, hist
<1> QED
  BY <1>1, <1>2, <1>3, <1>4, <1>5, <1>6, <1>7, <1>8, <1>9, <1>10, <1>11, <1>12,
     <1>13, <1>14, <1>15, <1>16, <1>17 DEF Next, Program, Timer, User

\* Every variable keeps its type, and execute never uses a PID outside the
\* array of PCBs (pid_available, execute, halt, PIT_handler, terminal_switch).
THEOREM TypeCorrect == Spec => []TypeOK
<1>1. Init => TypeInv
  BY TypeInit
<1>2. TypeInv /\ [Next]_vars => TypeInv'
  BY TypeStep
<1>3. TypeInv => TypeOK
  BY DEF TypeInv
<1> QED
  BY <1>1, <1>2, <1>3, PTL DEF Spec

-----------------------------------------------------------------------------
(* What is assumed of interrupts and commands.                             *)

\* No interrupt between pid_available's test and store, and terminals are opened
\* while the viewed one is scheduled.
Orderly == Timing \subseteq {"inflight"}

\* execute frees the PID of every command that it rejects.
Freeing == Commands \cap {"null", "wild"} = {}

\* No terminal is opened while a call of execute holds a PID either.
Timely == Timing = {} /\ Freeing

-----------------------------------------------------------------------------
(* Counting programs.                                                      *)

\* There are at most MAX_NUM_PROC programs, on all terminals and on each.
LEMMA ProgramsFinite ==
  /\ IsFiniteSet(Programs) /\ Cardinality(Programs) \in 0..MAX_NUM_PROC
  /\ \A t \in Terms : /\ IsFiniteSet(ProgramsOf(t))
                      /\ Cardinality(ProgramsOf(t)) \in 0..MAX_NUM_PROC
<1>1. IsFiniteSet(Pids) /\ Cardinality(Pids) = MAX_NUM_PROC
  BY FS_Interval, KernelAssumption DEF Pids
<1>2. ASSUME NEW S, S \subseteq Pids
      PROVE  IsFiniteSet(S) /\ Cardinality(S) \in 0..MAX_NUM_PROC
  <2>1. IsFiniteSet(S) /\ Cardinality(S) <= Cardinality(Pids)
    BY <1>1, <1>2, FS_Subset
  <2>2. Cardinality(S) \in Nat
    BY <2>1, FS_CardinalityType
  <2> QED
    BY <1>1, <2>1, <2>2, KernelAssumption
<1>3. Programs \subseteq Pids /\ \A t \in Terms : ProgramsOf(t) \subseteq Pids
  BY DEF Programs, ProgramsOf
<1> QED
  BY <1>2, <1>3

\* Starting a program keeps the counters right.
LEMMA CountStart ==
  ASSUME TypeInv, CountsAgree, NEW t \in Terms, NEW p \in Pids, ~Alive(p),
         Programs' = Programs \cup {p}, home' = [home EXCEPT ![p] = t],
         process_cnt' = Inc8(process_cnt),
         total_progs' = [total_progs EXCEPT ![t] = Inc8(total_progs[t])]
  PROVE  CountsAgree'
<1>1. p \notin Programs /\ p \notin ProgramsOf(t)
  BY DEF Programs, ProgramsOf
<1>2. ProgramsOf(t)' = ProgramsOf(t) \cup {p}
  BY ConstantFacts DEF ProgramsOf, Programs, TypeInv, TypeOK
<1>3. \A u \in Terms \ {t} : ProgramsOf(u)' = ProgramsOf(u)
  BY <1>1, ConstantFacts DEF ProgramsOf, Programs, TypeInv, TypeOK
<1>4. /\ Cardinality(Programs') = Cardinality(Programs) + 1
      /\ Cardinality(ProgramsOf(t)') = Cardinality(ProgramsOf(t)) + 1
  BY <1>1, <1>2, ProgramsFinite, FS_AddElement
<1>5. process_cnt' = process_cnt + 1 /\ total_progs'[t] = total_progs[t] + 1
  <2>1. process_cnt \in 0..200 /\ total_progs[t] \in 0..200
    BY ProgramsFinite, ConstantFacts DEF CountsAgree
  <2> QED
    <3>1. process_cnt < 255 /\ process_cnt \in 0..255
          /\ total_progs[t] < 255 /\ total_progs[t] \in 0..255
      BY <2>1
    <3>2. Inc8(process_cnt) = process_cnt + 1 /\ Inc8(total_progs[t]) = total_progs[t] + 1
      BY <3>1, Width
    <3>3. total_progs'[t] = Inc8(total_progs[t])
      BY DEF TypeInv, TypeOK
    <3> QED
      BY <3>2, <3>3
<1>6. \A u \in Terms \ {t} : total_progs'[u] = total_progs[u]
  BY DEF TypeInv, TypeOK
<1> QED
  BY <1>3, <1>4, <1>5, <1>6 DEF CountsAgree

\* Ending a program keeps the counters right.
LEMMA CountEnd ==
  ASSUME TypeInv, CountsAgree, NEW t \in Terms, NEW p \in Programs, home[p] = t,
         Programs' = Programs \ {p}, home' = home,
         process_cnt' = Dec8(process_cnt),
         total_progs' = [total_progs EXCEPT ![t] = Dec8(total_progs[t])]
  PROVE  CountsAgree'
<1>1. p \in ProgramsOf(t)
  BY DEF ProgramsOf
<1>2. ProgramsOf(t)' = ProgramsOf(t) \ {p}
  BY DEF ProgramsOf
<1>3. \A u \in Terms \ {t} : ProgramsOf(u)' = ProgramsOf(u)
  BY DEF ProgramsOf
<1>4. /\ Cardinality(Programs') = Cardinality(Programs) - 1
      /\ Cardinality(ProgramsOf(t)') = Cardinality(ProgramsOf(t)) - 1
  BY <1>1, <1>2, ProgramsFinite, FS_RemoveElement
<1>5. Cardinality(Programs) > 0 /\ Cardinality(ProgramsOf(t)) > 0
  BY <1>1, ProgramsFinite, FS_EmptySet
<1>6. process_cnt' = process_cnt - 1 /\ total_progs'[t] = total_progs[t] - 1
  <2>1. process_cnt > 0 /\ total_progs[t] > 0
    BY <1>5 DEF CountsAgree
  <2>2. process_cnt \in 0..255 /\ total_progs[t] \in 0..255
    BY DEF TypeInv, TypeOK
  <2> QED
    BY ZenonT(30), <2>1, <2>2, Width DEF TypeInv, TypeOK
<1>7. \A u \in Terms \ {t} : total_progs'[u] = total_progs[u]
  BY DEF TypeInv, TypeOK
<1> QED
  BY <1>3, <1>4, <1>6, <1>7 DEF CountsAgree

\* Replacing the last program of a terminal by a new shell keeps them right.
LEMMA CountReplace ==
  ASSUME TypeInv, CountsAgree, NEW t \in Terms, NEW h \in Programs, home[h] = t,
         NEW p \in Pids, p = h \/ ~Alive(p), total_progs[t] = 1,
         Programs' = (Programs \ {h}) \cup {p}, home' = [home EXCEPT ![p] = t],
         process_cnt' = Inc8(Dec8(process_cnt)),
         total_progs' = [total_progs EXCEPT ![t] = 1]
  PROVE  CountsAgree'
<1>1. h \in ProgramsOf(t) /\ p \notin Programs \ {h} /\ p \notin ProgramsOf(t) \ {h}
  BY DEF ProgramsOf, Programs
<1>2. ProgramsOf(t)' = (ProgramsOf(t) \ {h}) \cup {p}
  BY ConstantFacts DEF ProgramsOf, Programs, TypeInv, TypeOK
<1>3. \A u \in Terms \ {t} : ProgramsOf(u)' = ProgramsOf(u)
  BY <1>1, ConstantFacts DEF ProgramsOf, Programs, TypeInv, TypeOK
<1>4. ASSUME NEW S, IsFiniteSet(S), h \in S, p \notin S \ {h}
      PROVE  Cardinality((S \ {h}) \cup {p}) = Cardinality(S)
  <2>1. IsFiniteSet(S \ {h}) /\ Cardinality(S \ {h}) = Cardinality(S) - 1
    BY <1>4, FS_RemoveElement
  <2>2. Cardinality((S \ {h}) \cup {p}) = Cardinality(S \ {h}) + 1
    BY <1>4, <2>1, FS_AddElement
  <2> QED
    BY <1>4, <2>1, <2>2, FS_CardinalityType
<1>5. /\ Cardinality(Programs') = Cardinality(Programs)
      /\ Cardinality(ProgramsOf(t)') = Cardinality(ProgramsOf(t))
  BY <1>1, <1>2, <1>4, ProgramsFinite
<1>6. process_cnt' = process_cnt
  <2>1. process_cnt > 0
    BY ProgramsFinite, FS_EmptySet DEF CountsAgree
  <2>2. process_cnt \in 0..255
    BY DEF TypeInv, TypeOK
  <2>3. Dec8(process_cnt) = process_cnt - 1
    BY <2>1, <2>2, Width
  <2>4. process_cnt - 1 \in 0..255 /\ process_cnt - 1 < 255
    BY <2>1, <2>2
  <2>5. Inc8(process_cnt - 1) = (process_cnt - 1) + 1
    BY <2>4, Width
  <2> QED
    BY <2>2, <2>3, <2>5
<1>7. total_progs'[t] = total_progs[t] /\ \A u \in Terms \ {t} : total_progs'[u] = total_progs[u]
  BY DEF TypeInv, TypeOK
<1> QED
  BY <1>3, <1>5, <1>6, <1>7 DEF CountsAgree

-----------------------------------------------------------------------------
(* The invariant holds initially.                                          *)

LEMMA SafeInit == Init => TimelyInv /\ RunningIsHead
<1> SUFFICES ASSUME Init PROVE TimelyInv /\ RunningIsHead
  OBVIOUS
<1> USE ConstantFacts
<1>1. TypeInv
  BY TypeInit
<1>2. Programs = {0} /\ ProgramsOf(0) = {0}
      /\ \A t \in Terms \ {0} : ProgramsOf(t) = {}
  <2>1. \A p \in Pids : (Alive(p) <=> p = 0) /\ home[p] = 0
    BY DEF Init, Alive
  <2>2. Programs = {0}
    BY <2>1 DEF Programs
  <2> QED
    BY <2>1, <2>2 DEF ProgramsOf
<1>3. CountsAgree
  BY ZenonT(30), <1>2, FS_EmptySet, FS_Singleton DEF Init, CountsAgree
<1>4. HeadsOnTop /\ EmptyHeadless /\ ProgramsInStacks /\ OnePerLevel
  BY DEF Init, HeadsOnTop, EmptyHeadless, ProgramsInStacks, OnePerLevel, Alive
<1>5. FoundIsFree /\ DeadIdle /\ DyingMarked
  BY DEF Init, FoundIsFree, DeadIdle, DyingMarked
<1>6. RunningIsHead /\ CpuIsHead /\ SuspendedHeadsSaved /\ CpuInFront /\ FrontsSaved
  BY DEF Init, RunningIsHead, CpuIsHead, SuspendedHeadsSaved, CpuInFront, FrontsSaved,
         Adrift, Alive, head
<1>7. ReturnPathIntact
  BY DEF Init, ReturnPathIntact
<1>8. NoDoubleOwner /\ PcbsAccounted /\ lost = {}
  BY <1>2 DEF Init, NoDoubleOwner, PcbsAccounted, Held, Claims
<1> QED
  BY <1>3, <1>4, <1>5, <1>6, <1>7, <1>8 DEF TimelyInv, FaultInv

-----------------------------------------------------------------------------
(* Steps of one thread that leave every stack of programs alone.           *)

\* The thread that executes is a running program, the last of its terminal.
LEMMA CpuAlive ==
  ASSUME TypeInv, FaultInv, cpu \in Pids
  PROVE  /\ cpu \in Slots /\ Alive(cpu) /\ cpu = process[home[cpu]] /\ home[cpu] \in Terms
         /\ home[cpu] = current_term \/ Adrift
BY ConstantFacts DEF FaultInv, CpuInFront, TypeInv, TypeOK

\* A scheduled terminal that has programs has its front one executed.
LEMMA CpuHere ==
  ASSUME TypeInv, FaultInv, cpu \in Pids, total_progs[current_term] > 0
  PROVE  /\ cpu = head /\ cpu = process[current_term] /\ home[cpu] = current_term
         /\ depth[cpu] = total_progs[current_term] /\ cpu \in Slots /\ Alive(cpu)
<1>0. current_term \in Terms /\ total_progs[current_term] \in 0..255
  BY DEF TypeInv, TypeOK
<1>1. current_term \in Terms /\ total_progs[current_term] # 0
  BY <1>0
<1>2. home[cpu] = current_term
  BY <1>1, CpuAlive DEF Adrift
<1>3. cpu = process[current_term]
  BY <1>2, CpuAlive
<1>4. depth[process[current_term]] = total_progs[current_term]
  BY <1>1 DEF FaultInv, HeadsOnTop
<1> QED
  BY <1>2, <1>3, <1>4, CpuAlive DEF head

\* A scheduled terminal without programs has no program in front, and the thread
\* that executes is one that nothing resumes.
LEMMA CpuAdrift ==
  ASSUME TypeInv, FaultInv, cpu \in Pids, ~(total_progs[current_term] > 0)
  PROVE  /\ total_progs[current_term] = 0 /\ head = NoPid /\ this_esp[cpu] = NoPid
         /\ home[cpu] # current_term
<1>0. current_term \in Terms /\ total_progs[current_term] \in 0..255
  BY DEF TypeInv, TypeOK
<1>1. current_term \in Terms /\ total_progs[current_term] = 0
  BY <1>0
<1>2. head = NoPid
  BY <1>1 DEF FaultInv, EmptyHeadless, head
<1>3. home[cpu] # current_term
  <2>1. cpu = process[home[cpu]] /\ cpu # NoPid
    BY CpuAlive, ConstantFacts
  <2> QED
    BY <1>2, <2>1 DEF head
<1> QED
  BY <1>1, <1>2, <1>3, CpuAlive DEF Adrift

\* What a step does to the invariants that hold on condition.
OnTime == CpuIsHead /\ SuspendedHeadsSaved
StaysOnTime == OnTime => OnTime'
StaysHead == OnTime /\ RunningIsHead => RunningIsHead'

\* Moving the thread that executes between labels other than "child" disturbs
\* nothing that the stacks of programs rest on.
Stacked ==
  /\ HeadsOnTop /\ EmptyHeadless /\ OnePerLevel /\ DeadIdle /\ CpuInFront /\ FrontsSaved
  /\ ReturnPathIntact /\ CountsAgree

LEMMA LocalStep ==
  ASSUME TypeInv, FaultInv, cpu \in Pids, NEW l \in PCs \ {"child"}, pc[cpu] # "child",
         pc' = [pc EXCEPT ![cpu] = l],
         UNCHANGED <<total_progs, process_cnt, terms, parent_PID_num, this_esp,
                     par_esp, cpu, home, depth>>
  PROVE  Stacked' /\ StaysOnTime
<1>1. HeadsOnTop' /\ EmptyHeadless' /\ OnePerLevel'
  BY DEF FaultInv, HeadsOnTop, EmptyHeadless, OnePerLevel, Alive, terms
<1>2. DeadIdle'
  BY CpuAlive, ConstantFacts DEF FaultInv, DeadIdle, Alive, TypeInv, TypeOK
<1>3. CpuInFront' /\ FrontsSaved'
  BY DEF FaultInv, CpuInFront, FrontsSaved, Adrift, Alive, terms
<1>4. ReturnPathIntact'
  BY ConstantFacts DEF FaultInv, ReturnPathIntact, TypeInv, TypeOK
<1>5. CountsAgree'
  BY DEF FaultInv, CountsAgree, Programs, ProgramsOf, Alive
<1>6. StaysOnTime
  BY DEF StaysOnTime, OnTime, CpuIsHead, SuspendedHeadsSaved, head, terms
<1> QED
  BY <1>1, <1>2, <1>3, <1>4, <1>5, <1>6 DEF Stacked

\* So does its label: a thread that is not dying stays so.
LEMMA LocalDying ==
  ASSUME TypeInv, FaultInv, cpu \in Pids, NEW l \in PCs \ {"dying"},
         pc' = [pc EXCEPT ![cpu] = l],
         UNCHANGED <<total_progs, current_term, halt_stat, this_esp, cpu>>
  PROVE  DyingMarked'
BY DEF FaultInv, DyingMarked, TypeInv, TypeOK

\* A thread that raises an exception marks the program in front, which is its own
\* unless it is adrift.
LEMMA LocalMark ==
  ASSUME TypeInv, FaultInv, cpu \in Pids,
         pc' = [pc EXCEPT ![cpu] = "dying"], halt_stat' = [halt_stat EXCEPT ![head] = 1],
         UNCHANGED <<total_progs, current_term, this_esp, cpu>>
  PROVE  DyingMarked'
<1>1. ASSUME NEW p \in Pids, pc'[p] = "dying", p # cpu
      PROVE  halt_stat'[p] = 1 \/ this_esp[p] = NoPid
  <2>1. pc[p] = "dying"
    BY <1>1, ConstantFacts DEF TypeInv, TypeOK
  <2>2. halt_stat'[p] = 1 \/ halt_stat'[p] = halt_stat[p]
    BY <1>1, ConstantFacts DEF TypeInv, TypeOK
  <2> QED
    BY <1>1, <2>1, <2>2 DEF FaultInv, DyingMarked
<1>2. CASE total_progs[current_term] > 0
  <2>1. halt_stat'[cpu] = 1
    BY <1>2, CpuHere DEF TypeInv, TypeOK
  <2> QED
    BY <1>1, <2>1 DEF DyingMarked
<1>3. CASE ~(total_progs[current_term] > 0)
  BY <1>1, <1>3, CpuAdrift DEF DyingMarked
<1> QED
  BY <1>2, <1>3

\* Memory, kernel stack and scheduled terminal are those of before.
LEMMA LocalHead ==
  ASSUME UNCHANGED <<total_progs, process, current_term, page_user, tss_esp0, cpu>>
  PROVE  StaysHead
BY DEF StaysHead, RunningIsHead, head

\* What a PCB in use is for, PCB by PCB.
Accounted(q) ==
  LET held == \E p \in Pids : Claims(p, q)
  IN /\ PCB_in_use[q] = 1 <=> Alive(q) \/ held \/ q \in lost
     /\ ~(Alive(q) /\ held) /\ ~(Alive(q) /\ q \in lost) /\ ~(held /\ q \in lost)

LEMMA EachAccounted == PcbsAccounted => \A q \in Pids : Accounted(q)
BY DEF PcbsAccounted, Accounted, Programs, Held

LEMMA AllAccounted ==
  ASSUME lost' \subseteq Pids, \A q \in Pids : Accounted(q)'
  PROVE  PcbsAccounted'
<1>1. \A q \in Pids : /\ q \in Programs' <=> Alive(q)'
                      /\ q \in Held' <=> (\E p \in Pids : Claims(p, q))'
  BY DEF Programs, Held
<1>2. Programs' \subseteq Pids /\ Held' \subseteq Pids
  BY DEF Programs, Held
<1> HIDE DEF Programs, Held
<1>3. \A q \in Pids : /\ PCB_in_use'[q] = 1 <=> q \in Programs' \cup Held' \cup lost'
                      /\ ~(q \in Programs' /\ q \in Held')
                      /\ ~(q \in Programs' /\ q \in lost')
                      /\ ~(q \in Held' /\ q \in lost')
  BY <1>1 DEF Accounted
<1> QED
  BY <1>2, <1>3 DEF PcbsAccounted

\* A step that takes no PCB and starts no claim gives none to two owners.
LEMMA LocalOwners ==
  ASSUME TypeInv, FaultInv, cpu \in Pids, NEW l \in PCs \ {"claim", "claimed"},
         pc' = [pc EXCEPT ![cpu] = l], \E i : idx' = [idx EXCEPT ![cpu] = i],
         UNCHANGED <<tables, parent_PID_num, cpu, home, depth>>
  PROVE  /\ ProgramsInStacks' /\ FoundIsFree' /\ NoDoubleOwner'
         /\ pc[cpu] # "claimed" /\ lost' = lost => PcbsAccounted'
         /\ pc[cpu] = "claimed" /\ lost' = lost \cup {idx[cpu]} => PcbsAccounted'
<1>1. ProgramsInStacks'
  BY DEF FaultInv, ProgramsInStacks, Alive, tables
<1>2. FoundIsFree'
  BY ConstantFacts DEF FaultInv, FoundIsFree, tables, TypeInv, TypeOK
<1>3. \A p, q \in Pids : Claims(p, q)' <=> Claims(p, q) /\ p # cpu
  BY ConstantFacts DEF Claims, TypeInv, TypeOK
<1>4. NoDoubleOwner'
  BY <1>3 DEF FaultInv, NoDoubleOwner, Alive, tables
<1>5. /\ \A q \in Pids : (Alive(q)' <=> Alive(q)) /\ PCB_in_use'[q] = PCB_in_use[q]
      /\ \A q \in Pids : Accounted(q)
  BY EachAccounted DEF FaultInv, Alive, tables
<1>6. ASSUME pc[cpu] # "claimed", lost' = lost PROVE PcbsAccounted'
  <2>1. \A p, q \in Pids : Claims(p, q)' <=> Claims(p, q)
    BY <1>3, <1>6 DEF Claims
  <2>2. \A q \in Pids : Accounted(q)'
    BY <1>5, <1>6, <2>1 DEF Accounted
  <2> QED
    BY <1>6, <2>2, AllAccounted DEF TypeInv, TypeOK
<1>7. ASSUME pc[cpu] = "claimed", lost' = lost \cup {idx[cpu]} PROVE PcbsAccounted'
  <2>1. idx[cpu] \in Pids /\ Claims(cpu, idx[cpu])
    BY <1>7, ConstantFacts DEF TypeInv, IdxOK, Claims
  <2>2. \A r \in Pids : Claims(r, idx[cpu]) => r = cpu
    BY <2>1 DEF FaultInv, NoDoubleOwner
  <2>3. \A q \in Pids : Claims(cpu, q) <=> q = idx[cpu]
    BY <1>7 DEF Claims
  <2>4. ASSUME NEW q \in Pids PROVE Accounted(q)'
    <3>1. CASE q = idx[cpu]
      BY <1>3, <1>5, <1>7, <2>1, <2>2, <3>1 DEF Accounted
    <3>2. CASE q # idx[cpu]
      <4>1. \A p \in Pids : Claims(p, q)' <=> Claims(p, q)
        BY <1>3, <2>3, <3>2
      <4> QED
        BY <1>5, <1>7, <3>2, <4>1 DEF Accounted
    <3> QED
      BY <3>1, <3>2
  <2> QED
    BY <1>7, <2>1, <2>4, AllAccounted DEF TypeInv, TypeOK
<1> QED
  BY <1>1, <1>2, <1>4, <1>6, <1>7

LEMMA StepExecSyscall ==
  ASSUME TypeInv, FaultInv, ExecSyscall
  PROVE  FaultInv' /\ StaysOnTime /\ StaysHead
<1>1. /\ cpu \in Pids /\ pc[cpu] = "user" /\ pc' = [pc EXCEPT ![cpu] = "scan"]
      /\ idx' = [idx EXCEPT ![cpu] = 0]
      /\ UNCHANGED <<tables, terms, pcbs, hw, hist>>
  BY DEF ExecSyscall, Running, Goto
<1>2. Stacked' /\ StaysOnTime
  BY <1>1, LocalStep DEF tables, pcbs, hw, hist, PCs
<1>3. ProgramsInStacks' /\ FoundIsFree' /\ NoDoubleOwner' /\ PcbsAccounted'
  BY <1>1, LocalOwners DEF pcbs, hw, hist, PCs
<1>4. DyingMarked'
  BY <1>1, LocalDying DEF tables, terms, pcbs, hw, PCs
<1>5. StaysHead
  BY <1>1, LocalHead DEF tables, terms, hw
<1> QED
  BY <1>2, <1>3, <1>4, <1>5 DEF FaultInv, Stacked

LEMMA StepPidScan ==
  ASSUME TypeInv, FaultInv, PidScan
  PROVE  FaultInv' /\ StaysOnTime /\ StaysHead
<1>1. PICK l \in {"user", "scan", "claim"} :
        /\ cpu \in Pids /\ pc[cpu] = "scan" /\ pc' = [pc EXCEPT ![cpu] = l]
        /\ \E i : idx' = [idx EXCEPT ![cpu] = i]
        /\ l = "claim" => PCB_in_use[idx[cpu]] = 0 /\ idx' = idx
        /\ UNCHANGED <<tables, terms, pcbs, hw, hist>>
  <2> USE DEF TypeInv, TypeOK, PCs
  <2>0. /\ cpu \in Pids /\ cpu \in Slots /\ pc[cpu] = "scan"
        /\ UNCHANGED <<tables, terms, pcbs, hw, hist>>
    BY ConstantFacts DEF PidScan, Running
  <2>1. CASE idx[cpu] = MAX_NUM_PROC /\ Goto("user") /\ DropIdx
    BY <2>0, <2>1 DEF Goto, DropIdx
  <2>2. CASE idx' = [idx EXCEPT ![cpu] = @ + 1] /\ UNCHANGED pc
    <3>1. pc' = [pc EXCEPT ![cpu] = "scan"]
      BY <2>0, <2>2
    <3> QED
      BY <2>0, <2>2, <3>1
  <2>3. CASE PCB_in_use[idx[cpu]] = 0 /\ Goto("claim") /\ UNCHANGED idx
    <3>1. idx' = [idx EXCEPT ![cpu] = idx[cpu]]
      BY <2>0, <2>3
    <3> QED
      BY ZenonT(30), <2>0, <2>3, <3>1 DEF Goto
  <2> QED
    BY <2>1, <2>2, <2>3 DEF PidScan
<1>2. Stacked' /\ StaysOnTime
  BY <1>1, LocalStep DEF tables, pcbs, hw, hist, PCs
<1>3. ProgramsInStacks'
  BY <1>1 DEF FaultInv, ProgramsInStacks, Alive, tables, pcbs, hist
<1>4. FoundIsFree'
  BY <1>1, ConstantFacts DEF FaultInv, FoundIsFree, tables, hw, TypeInv, TypeOK
<1>5. NoDoubleOwner' /\ PcbsAccounted'
  <2>1. \A p, q \in Pids : Claims(p, q)' <=> Claims(p, q)
    BY <1>1, ConstantFacts DEF Claims, TypeInv, TypeOK
  <2>2. Held' = Held
    BY <2>1 DEF Held
  <2> QED
    BY <1>1, <2>1, <2>2 DEF FaultInv, NoDoubleOwner, PcbsAccounted, Programs, Alive, tables, hist
<1>6. DyingMarked'
  BY <1>1, LocalDying DEF tables, terms, pcbs, hw, PCs
<1>7. StaysHead
  BY <1>1, LocalHead DEF tables, terms, hw
<1> QED
  BY <1>2, <1>3, <1>4, <1>5, <1>6, <1>7 DEF FaultInv, Stacked

LEMMA StepSpin ==
  ASSUME TypeInv, FaultInv, Spin
  PROVE  FaultInv' /\ StaysOnTime /\ StaysHead
<1>1. /\ cpu \in Pids /\ cpu \in Slots /\ pc[cpu] = "user"
      /\ pc' = [pc EXCEPT ![cpu] = "spin"]
      /\ UNCHANGED <<tables, terms, pcbs, hw, idx, hist>>
  BY ConstantFacts DEF Spin, Running, Goto
<1>2. Stacked' /\ StaysOnTime
  BY <1>1, LocalStep DEF tables, pcbs, hw, hist, PCs
<1>3. ProgramsInStacks' /\ FoundIsFree' /\ NoDoubleOwner' /\ PcbsAccounted'
  <2>1. idx' = [idx EXCEPT ![cpu] = idx[cpu]]
    BY <1>1 DEF TypeInv, TypeOK
  <2> QED
    BY <1>1, <2>1, LocalOwners DEF pcbs, hw, hist, PCs
<1>4. DyingMarked'
  BY <1>1, LocalDying DEF tables, terms, pcbs, hw, PCs
<1>5. StaysHead
  BY <1>1, LocalHead DEF tables, terms, hw
<1> QED
  BY <1>2, <1>3, <1>4, <1>5 DEF FaultInv, Stacked

LEMMA StepFault ==
  ASSUME TypeInv, FaultInv, Fault
  PROVE  FaultInv' /\ StaysOnTime /\ StaysHead
<1>1. /\ cpu \in Pids /\ cpu \in Slots /\ pc[cpu] = "user"
      /\ pc' = [pc EXCEPT ![cpu] = "dying"]
      /\ halt_stat' = [halt_stat EXCEPT ![head] = 1]
      /\ UNCHANGED <<tables, terms, parent_PID_num, this_esp, par_esp, hw, idx, hist>>
  BY ConstantFacts DEF Fault, Running, Goto, Marked
<1>2. Stacked' /\ StaysOnTime
  BY <1>1, LocalStep DEF tables, hw, hist, PCs
<1>3. ProgramsInStacks' /\ FoundIsFree' /\ NoDoubleOwner' /\ PcbsAccounted'
  <2>1. idx' = [idx EXCEPT ![cpu] = idx[cpu]]
    BY <1>1 DEF TypeInv, TypeOK
  <2> QED
    BY <1>1, <2>1, LocalOwners DEF hw, hist, PCs
<1>4. DyingMarked'
  BY <1>1, LocalMark DEF tables, terms, hw
<1>5. StaysHead
  BY <1>1, LocalHead DEF tables, terms, hw
<1> QED
  BY <1>2, <1>3, <1>4, <1>5 DEF FaultInv, Stacked

\* execute(NULL) forgets its PID: the PCB is lost and nothing else disturbed.
LEMMA StepExecNull ==
  ASSUME TypeInv, FaultInv, ExecNull
  PROVE  FaultInv' /\ StaysOnTime /\ StaysHead
<1>1. /\ cpu \in Pids /\ pc[cpu] = "claimed" /\ pc' = [pc EXCEPT ![cpu] = "user"]
      /\ idx' = [idx EXCEPT ![cpu] = 0]
      /\ lost' = lost \cup {idx[cpu]}
      /\ UNCHANGED <<tables, terms, pcbs, hw, home, depth>>
  BY DEF ExecNull, Running, Goto, DropIdx, Lose
<1>2. Stacked' /\ StaysOnTime
  BY <1>1, LocalStep DEF tables, pcbs, hw, hist, PCs
<1>3. ProgramsInStacks' /\ FoundIsFree' /\ NoDoubleOwner' /\ PcbsAccounted'
  BY <1>1, LocalOwners DEF pcbs, hw, hist, PCs
<1>4. DyingMarked'
  BY <1>1, LocalDying DEF tables, terms, pcbs, hw, PCs
<1>5. StaysHead
  BY <1>1, LocalHead DEF tables, terms, hw
<1> QED
  BY <1>2, <1>3, <1>4, <1>5 DEF FaultInv, Stacked

\* So does execute of a pointer that faults.
LEMMA StepExecWild ==
  ASSUME TypeInv, FaultInv, ExecWild
  PROVE  FaultInv' /\ StaysOnTime /\ StaysHead
<1>1. /\ cpu \in Pids /\ pc[cpu] = "claimed" /\ pc' = [pc EXCEPT ![cpu] = "dying"]
      /\ idx' = [idx EXCEPT ![cpu] = 0] /\ halt_stat' = [halt_stat EXCEPT ![head] = 1]
      /\ lost' = lost \cup {idx[cpu]}
      /\ UNCHANGED <<tables, terms, parent_PID_num, this_esp, par_esp, hw, home, depth>>
  BY DEF ExecWild, Running, Goto, DropIdx, Lose, Marked
<1>2. Stacked' /\ StaysOnTime
  BY <1>1, LocalStep DEF tables, hw, hist, PCs
<1>3. ProgramsInStacks' /\ FoundIsFree' /\ NoDoubleOwner' /\ PcbsAccounted'
  BY <1>1, LocalOwners DEF hw, hist, PCs
<1>4. DyingMarked'
  BY <1>1, LocalMark DEF tables, terms, hw
<1>5. StaysHead
  BY <1>1, LocalHead DEF tables, terms, hw
<1> QED
  BY <1>2, <1>3, <1>4, <1>5 DEF FaultInv, Stacked

LEMMA StepPidClaim ==
  ASSUME TypeInv, FaultInv, PidClaim
  PROVE  FaultInv' /\ StaysOnTime /\ StaysHead
<1> DEFINE q == idx[cpu]
<1> USE ConstantFacts
<1>1. /\ cpu \in Pids /\ pc[cpu] = "claim" /\ pc' = [pc EXCEPT ![cpu] = "claimed"]
      /\ PCB_in_use' = [PCB_in_use EXCEPT ![q] = 1] /\ idx' = idx
      /\ UNCHANGED <<total_progs, process_cnt, terms, pcbs, hw, hist>>
  BY DEF PidClaim, Running, Goto
<1>2. q \in Pids /\ PCB_in_use[q] = 0
  BY <1>1 DEF FaultInv, FoundIsFree, TypeInv, IdxOK
<1>3. ~Alive(q) /\ \A r \in Pids : ~Claims(r, q)
  <2>1. NoDoubleOwner /\ ProgramsInStacks
    BY DEF FaultInv
  <2> HIDE DEF q
  <2>2. ~Alive(q)
    <3>1. Alive(q) => PCB_in_use[q] = 1
      BY ONLY <1>2, <2>1 DEF ProgramsInStacks
    <3> QED
      BY ONLY <1>2, <3>1
  <2>3. ASSUME NEW r \in Pids PROVE ~Claims(r, q)
    <3>1. Claims(r, q) => PCB_in_use[q] = 1
      BY ONLY <1>2, <2>1, <2>3 DEF NoDoubleOwner
    <3> QED
      BY ONLY <1>2, <3>1
  <2> QED
    BY ONLY <2>2, <2>3
<1>4. Stacked' /\ StaysOnTime
  BY <1>1, LocalStep DEF pcbs, hw, hist, PCs
<1>5. ProgramsInStacks' /\ FoundIsFree'
  BY <1>1, CpuAlive DEF FaultInv, ProgramsInStacks, FoundIsFree, Alive, pcbs, hw, hist, TypeInv, TypeOK
<1>6. \A p, r \in Pids : Claims(p, r)' <=> Claims(p, r) \/ (p = cpu /\ r = q)
  BY <1>1 DEF Claims, TypeInv, TypeOK
<1>7. \A p \in Pids : Alive(p)' <=> Alive(p)
  BY <1>1 DEF Alive, hist
<1>8. NoDoubleOwner'
  BY <1>1, <1>2, <1>3, <1>6, <1>7 DEF FaultInv, NoDoubleOwner, TypeInv, TypeOK
<1>9. PcbsAccounted'
  <2>1. \A r \in Pids : Accounted(r)
    BY EachAccounted DEF FaultInv
  <2>2. /\ lost' = lost /\ lost \subseteq Pids
        /\ \A r \in Pids : PCB_in_use'[r] = IF r = q THEN 1 ELSE PCB_in_use[r]
    BY <1>1, <1>2 DEF hist, TypeInv, TypeOK
  <2> HIDE DEF q
  <2>3. ASSUME NEW r \in Pids PROVE Accounted(r)'
    <3>1. CASE r = q
      BY <1>1, <1>2, <1>3, <1>6, <1>7, <2>1, <2>2, <3>1 DEF Accounted
    <3>2. CASE r # q
      <4>1. \A p \in Pids : Claims(p, r)' <=> Claims(p, r)
        BY <1>6, <3>2
      <4> QED
        BY <1>7, <2>1, <2>2, <3>2, <4>1 DEF Accounted
    <3> QED
      BY <3>1, <3>2
  <2> QED
    BY <2>2, <2>3, AllAccounted
<1>10. DyingMarked'
  BY <1>1, LocalDying DEF terms, pcbs, hw, PCs
<1>11. StaysHead
  BY <1>1, LocalHead DEF terms, hw
<1> QED
  BY <1>4, <1>5, <1>8, <1>9, <1>10, <1>11 DEF FaultInv, Stacked

\* A rejected command frees the PID it held, which nobody else owns.
LEMMA FreesClaim ==
  ASSUME TypeInv, FaultInv, cpu \in Pids, pc[cpu] = "claimed",
         pc' = [pc EXCEPT ![cpu] = "user"], idx' = [idx EXCEPT ![cpu] = 0],
         PCB_in_use' = [PCB_in_use EXCEPT ![idx[cpu]] = 0],
         UNCHANGED <<total_progs, process_cnt, terms, pcbs, cpu, hist>>
  PROVE  FaultInv' /\ StaysOnTime
<1> DEFINE q == idx[cpu]
<1> USE ConstantFacts
<1>2. q \in Pids /\ Claims(cpu, q)
  BY DEF TypeInv, IdxOK, Claims
<1>3. ~Alive(q) /\ \A r \in Pids : Claims(r, q) => r = cpu
  BY <1>2 DEF FaultInv, NoDoubleOwner
<1>4. Stacked' /\ StaysOnTime
  BY LocalStep DEF pcbs, hist, PCs
<1>5. ProgramsInStacks'
  BY <1>3 DEF FaultInv, ProgramsInStacks, Alive, pcbs, hist, TypeInv, TypeOK
<1>6. FoundIsFree'
  BY DEF FaultInv, FoundIsFree, TypeInv, TypeOK
<1>7. DyingMarked'
  BY LocalDying DEF terms, pcbs, PCs
<1>8. \A p, r \in Pids : Claims(p, r)' <=> Claims(p, r) /\ p # cpu
  BY DEF Claims, TypeInv, TypeOK
<1>9. \A p \in Pids : Alive(p)' <=> Alive(p)
  BY DEF Alive, hist
<1>10. NoDoubleOwner'
  BY <1>2, <1>3, <1>8, <1>9 DEF FaultInv, NoDoubleOwner, TypeInv, TypeOK
<1>11. PcbsAccounted'
  <2>1. \A r \in Pids : Accounted(r)
    BY EachAccounted DEF FaultInv
  <2>2. /\ lost' = lost /\ lost \subseteq Pids
        /\ \A r \in Pids : PCB_in_use'[r] = IF r = q THEN 0 ELSE PCB_in_use[r]
    BY <1>2 DEF hist, TypeInv, TypeOK
  <2>3. \A r \in Pids : Claims(cpu, r) => r = q
    BY DEF Claims
  <2> HIDE DEF q
  <2>4. ASSUME NEW r \in Pids PROVE Accounted(r)'
    <3>1. CASE r = q
      BY <1>2, <1>3, <1>8, <1>9, <2>1, <2>2, <3>1 DEF Accounted
    <3>2. CASE r # q
      <4>1. \A p \in Pids : Claims(p, r)' <=> Claims(p, r)
        BY <1>8, <2>3, <3>2
      <4> QED
        BY <1>9, <2>1, <2>2, <3>2, <4>1 DEF Accounted
    <3> QED
      BY <3>1, <3>2
  <2> QED
    BY <2>2, <2>4, AllAccounted
<1> QED
  BY <1>4, <1>5, <1>6, <1>7, <1>10, <1>11 DEF FaultInv, Stacked

LEMMA StepExecBad ==
  ASSUME TypeInv, FaultInv, ExecBad
  PROVE  FaultInv' /\ StaysOnTime /\ StaysHead
<1>1. /\ cpu \in Pids /\ pc[cpu] = "claimed" /\ pc' = [pc EXCEPT ![cpu] = "user"]
      /\ PCB_in_use' = [PCB_in_use EXCEPT ![idx[cpu]] = 0]
      /\ idx' = [idx EXCEPT ![cpu] = 0]
      /\ UNCHANGED <<total_progs, process_cnt, terms, pcbs, hw, hist>>
  BY DEF ExecBad, Running, Goto, DropIdx
<1>2. FaultInv' /\ StaysOnTime
  BY <1>1, FreesClaim DEF hw
<1>3. StaysHead
  BY <1>1, LocalHead DEF terms, hw
<1> QED
  BY <1>2, <1>3

\* execute of a file that cannot be read leaves another process's memory mapped.
LEMMA StepExecCorrupt ==
  ASSUME TypeInv, FaultInv, ExecCorrupt
  PROVE  FaultInv' /\ StaysOnTime
<1>1. /\ cpu \in Pids /\ pc[cpu] = "claimed" /\ pc' = [pc EXCEPT ![cpu] = "user"]
      /\ PCB_in_use' = [PCB_in_use EXCEPT ![idx[cpu]] = 0]
      /\ idx' = [idx EXCEPT ![cpu] = 0]
      /\ UNCHANGED <<total_progs, process_cnt, terms, pcbs, cpu, hist>>
  BY DEF ExecCorrupt, Running, Goto, DropIdx
<1> QED
  BY <1>1, FreesClaim

-----------------------------------------------------------------------------
(* Steps that change the stacks of programs.                               *)

\* execute puts a program on top of the one that called it, or at the bottom of
\* an empty terminal when the CPU is adrift.
LEMMA StepExecLaunch ==
  ASSUME TypeInv, FaultInv, ExecLaunch
  PROVE  FaultInv' /\ StaysOnTime /\ StaysHead
<1> DEFINE p == idx[cpu]
           ct == current_term
           n == total_progs[ct]
<1> USE ConstantFacts
<1>1. /\ cpu \in Pids /\ cpu \in Slots /\ Alive(cpu) /\ ct \in Terms /\ n \in 0..255
      /\ n > 0 => cpu = process[ct] /\ home[cpu] = ct /\ depth[cpu] = n
  <2>1. cpu \in Pids
    BY DEF ExecLaunch, Running
  <2>2. ct \in Terms /\ n \in 0..255
    BY DEF TypeInv, TypeOK
  <2> QED
    BY <2>1, <2>2, CpuAlive, CpuHere
<1>2. pc[cpu] = "claimed" /\ p \in Pids /\ Claims(cpu, p)
  BY <1>1 DEF ExecLaunch, Running, TypeInv, IdxOK, Claims
<1> HIDE DEF p
<1>3. PCB_in_use[p] = 1 /\ ~Alive(p) /\ p # cpu /\ \A r \in Pids : Claims(r, p) => r = cpu
  BY <1>1, <1>2 DEF FaultInv, NoDoubleOwner
<1>4. Inc8(n) = n + 1
  <2>1. n < 255
    <3>1. n = Cardinality(ProgramsOf(ct)) /\ Cardinality(ProgramsOf(ct)) \in 0..MAX_NUM_PROC
      BY <1>1, ProgramsFinite DEF FaultInv, CountsAgree
    <3> HIDE DEF n
    <3> QED
      BY <3>1
  <2> HIDE DEF n
  <2> QED
    BY <1>1, <2>1, Width
<1>5. /\ parent_PID_num' = [parent_PID_num EXCEPT ![p] = IF n = 0 THEN p ELSE cpu]
      /\ process' = [process EXCEPT ![ct] = p]
      /\ par_esp' = [par_esp EXCEPT ![p] = cpu]
      /\ page_user' = p /\ tss_esp0' = p /\ cpu' = p
      /\ total_progs' = [total_progs EXCEPT ![ct] = n + 1]
      /\ process_cnt' = Inc8(process_cnt)
      /\ home' = [home EXCEPT ![p] = ct]
      /\ depth' = [depth EXCEPT ![p] = n + 1]
      /\ pc' = [pc EXCEPT ![cpu] = "child", ![p] = "user"]
      /\ idx' = [idx EXCEPT ![cpu] = 0]
      /\ UNCHANGED <<PCB_in_use, current_term, viewing_term, halt_stat, this_esp, lost>>
  <2>1. /\ Launch(p, n, process_cnt) /\ ct' = ct
        /\ depth' = [depth EXCEPT ![p] = Inc8(n)]
        /\ pc' = [pc EXCEPT ![cpu] = "child", ![p] = "user"]
        /\ idx' = [idx EXCEPT ![cpu] = 0]
        /\ UNCHANGED <<PCB_in_use, current_term, viewing_term, halt_stat, this_esp, lost>>
    BY DEF ExecLaunch, DropIdx, p
  <2>2. ParentOf(p, n) = IF n = 0 THEN p ELSE cpu
    BY <1>1, <2>1 DEF ParentOf
  <2> HIDE DEF n
  <2> QED
    BY <1>4, <2>1, <2>2 DEF Launch, UseMemoryOf
<1> HIDE DEF n, ct
<1>6. /\ \A r \in Pids : depth'[r] = IF r = p THEN n + 1 ELSE depth[r]
      /\ \A r \in Pids : home'[r] = IF r = p THEN ct ELSE home[r]
      /\ \A r \in Pids : r # p => parent_PID_num'[r] = parent_PID_num[r]
      /\ parent_PID_num'[p] = IF n = 0 THEN p ELSE cpu
      /\ \A r \in Pids : par_esp'[r] = IF r = p THEN cpu ELSE par_esp[r]
      /\ \A r \in Pids : pc'[r] = IF r = p THEN "user" ELSE IF r = cpu THEN "child" ELSE pc[r]
      /\ \A t \in Terms : process'[t] = IF t = ct THEN p ELSE process[t]
      /\ \A t \in Terms : total_progs'[t] = IF t = ct THEN n + 1 ELSE total_progs[t]
  BY <1>1, <1>2, <1>5 DEF TypeInv, TypeOK
<1>7. \A r \in Pids : /\ Alive(r)' <=> Alive(r) \/ r = p
                      /\ depth[r] \in 0..255 /\ home[r] \in Terms
  BY <1>1, <1>6 DEF Alive, TypeInv, TypeOK
<1>8. \A t \in Terms : total_progs[t] \in 0..255
  BY DEF TypeInv, TypeOK
<1>22. EmptyHeadless'
  BY <1>1, <1>6 DEF FaultInv, EmptyHeadless
<1>9. HeadsOnTop'
  <2>1. ASSUME NEW t \in Terms, t # ct, total_progs[t] > 0
        PROVE  /\ process[t] \in Pids /\ process[t] # p
               /\ home[process[t]] = t /\ depth[process[t]] = total_progs[t]
    BY <1>3, <2>1 DEF FaultInv, HeadsOnTop, Alive
  <2>2. ASSUME NEW t \in Terms, t # ct, total_progs'[t] > 0
        PROVE  process'[t] \in Pids /\ home'[process'[t]] = t /\ depth'[process'[t]] = total_progs'[t]
    <3>1. process'[t] = process[t] /\ total_progs'[t] = total_progs[t]
      BY <1>6, <2>2
    <3>2. /\ process[t] \in Pids /\ process[t] # p
          /\ home[process[t]] = t /\ depth[process[t]] = total_progs[t]
      BY <2>1, <2>2, <3>1
    <3>3. home'[process[t]] = home[process[t]] /\ depth'[process[t]] = depth[process[t]]
      BY <1>6, <3>2
    <3> QED
      BY <3>1, <3>2, <3>3
  <2>3. process'[ct] = p /\ home'[p] = ct /\ depth'[p] = total_progs'[ct]
    BY <1>1, <1>2, <1>6
  <2> QED
    BY <1>2, <2>2, <2>3 DEF HeadsOnTop
<1>10. ProgramsInStacks'
  <2>1. \A r \in Pids : Alive(r) => /\ PCB_in_use[r] = 1
                                    /\ depth[r] <= total_progs[home[r]]
                                    /\ depth[r] = 1 => parent_PID_num[r] = r
    BY DEF FaultInv, ProgramsInStacks
  <2>2. PCB_in_use' = PCB_in_use
    BY <1>5
  <2>3. ASSUME NEW r \in Pids, Alive(r)' PROVE depth'[r] <= total_progs'[home'[r]]
    <3>1. CASE r = p
      BY <1>1, <1>6, <3>1
    <3>2. CASE r # p /\ home[r] = ct
      <4>1. depth[r] <= n /\ depth[r] \in 0..255
        BY <1>7, <2>1, <2>3, <3>2 DEF n
      <4> QED
        BY SMTT(20), ZenonT(30), <1>1, <1>6, <3>2, <4>1
    <3>3. CASE r # p /\ home[r] # ct
      BY <1>6, <1>7, <2>1, <2>3, <3>3
    <3> QED
      BY <3>1, <3>2, <3>3
  <2>4. ASSUME NEW r \in Pids, Alive(r)'
        PROVE  PCB_in_use'[r] = 1 /\ (depth'[r] = 1 => parent_PID_num'[r] = r)
    <3>1. CASE r = p
      <4>1. PCB_in_use'[p] = 1 /\ depth'[p] = n + 1 /\ parent_PID_num'[p] = IF n = 0 THEN p ELSE cpu
        BY <1>2, <1>3, <1>6, <2>2
      <4>2. n + 1 = 1 => n = 0
        BY <1>1
      <4> QED
        BY <3>1, <4>1, <4>2
    <3>2. CASE r # p
      BY <1>6, <1>7, <2>1, <2>2, <2>4, <3>2
    <3> QED
      BY <3>1, <3>2
  <2> QED
    BY <2>3, <2>4 DEF ProgramsInStacks
<1>11. OnePerLevel'
  <2>1. \A r \in Pids : Alive(r) /\ home[r] = ct => depth[r] <= n
    BY DEF FaultInv, ProgramsInStacks, n
  <2>2. \A r, q \in Pids : Alive(r) /\ home[r] = home[q] /\ depth[r] = depth[q] => r = q
    BY DEF FaultInv, OnePerLevel
  <2> QED
    BY <1>1, <1>6, <1>7, <2>1, <2>2 DEF OnePerLevel, Alive
<1>12. FoundIsFree' /\ DeadIdle'
  <2>1. \A r \in Pids : pc[r] # "claim"
    BY <1>2 DEF FaultInv, FoundIsFree
  <2>2. FoundIsFree'
    BY <1>6, <2>1 DEF FoundIsFree
  <2>3. DeadIdle'
    BY <1>1, <1>6, <1>7 DEF FaultInv, DeadIdle
  <2> QED
    BY <2>2, <2>3
<1>13. DyingMarked'
  BY <1>5, <1>6 DEF FaultInv, DyingMarked
<1>14. CpuInFront' /\ FrontsSaved'
  <2>1. CpuInFront'
    <3>1. /\ cpu' = p /\ home'[p] = ct /\ process'[ct] = p /\ depth'[p] > 0
          /\ current_term' = ct
      BY <1>1, <1>2, <1>5, <1>6 DEF ct
    <3> QED
      BY <1>2, <3>1 DEF CpuInFront, Alive
  <2>2. FrontsSaved'
    BY <1>5, <1>6 DEF FaultInv, FrontsSaved, ct
  <2> QED
    BY <2>1, <2>2
<1>15. StaysOnTime /\ StaysHead
  <2>1. CpuIsHead'
    BY <1>1, <1>2, <1>5, <1>6 DEF CpuIsHead, head, ct
  <2>2. SuspendedHeadsSaved => SuspendedHeadsSaved'
    BY <1>5, <1>6 DEF SuspendedHeadsSaved, ct
  <2>3. RunningIsHead'
    BY <1>5, <2>1 DEF CpuIsHead, RunningIsHead
  <2> QED
    BY <2>1, <2>2, <2>3 DEF StaysOnTime, StaysHead, OnTime
<1>16. ReturnPathIntact'
  <2>1. ASSUME NEW r \in Pids, depth'[r] > 1, r # p
        PROVE  LET q == parent_PID_num'[r]
               IN  /\ q \in Pids /\ par_esp'[r] = q /\ pc'[q] = "child"
                   /\ home'[q] = home'[r] /\ depth'[r] = depth'[q] + 1
    <3> DEFINE q == parent_PID_num[r]
    <3>1. depth[r] > 1 /\ parent_PID_num'[r] = q /\ par_esp'[r] = par_esp[r]
      BY <1>6, <2>1
    <3>2. /\ q \in Pids /\ par_esp[r] = q /\ pc[q] = "child"
          /\ home[q] = home[r] /\ depth[r] = depth[q] + 1
      BY <3>1 DEF FaultInv, ReturnPathIntact
    <3>3. q # p
      BY <1>3, <3>2 DEF FaultInv, DeadIdle
    <3> HIDE DEF q
    <3> QED
      BY <1>6, <2>1, <3>1, <3>2, <3>3
  <2>2. ASSUME depth'[p] > 1
        PROVE  /\ parent_PID_num'[p] = cpu /\ par_esp'[p] = cpu /\ pc'[cpu] = "child"
               /\ home'[cpu] = home'[p] /\ depth'[p] = depth'[cpu] + 1
    <3>1. n > 0
      BY <1>1, <1>2, <1>6, <2>2
    <3> QED
      BY <1>1, <1>2, <1>3, <1>6, <3>1
  <2> QED
    BY <1>1, <2>1, <2>2 DEF ReturnPathIntact
<1>17. CountsAgree'
  <2>1. Programs' = Programs \cup {p}
    BY <1>2, <1>7 DEF Programs
  <2> QED
    BY <1>1, <1>2, <1>3, <1>4, <1>5, <2>1, CountStart DEF FaultInv, n
<1>19. \A r, q \in Pids : Claims(r, q)' <=> Claims(r, q) /\ r # cpu /\ r # p
  BY <1>1, <1>2, <1>5, <1>6 DEF Claims, TypeInv, TypeOK
<1>20. NoDoubleOwner'
  BY <1>3, <1>5, <1>7, <1>19 DEF FaultInv, NoDoubleOwner
<1>21. PcbsAccounted'
  <2>1. /\ \A r \in Pids : Accounted(r)
        /\ lost' = lost /\ lost \subseteq Pids /\ PCB_in_use' = PCB_in_use
    BY <1>5, EachAccounted DEF FaultInv, TypeInv, TypeOK
  <2>2. /\ \A r \in Pids : Claims(cpu, r) => r = p
        /\ \A r \in Pids : ~Claims(p, r)
    BY <1>2, <1>3 DEF FaultInv, DeadIdle, Claims
  <2>3. ASSUME NEW r \in Pids PROVE Accounted(r)'
    <3>1. CASE r = p
      BY <1>1, <1>2, <1>3, <1>7, <1>19, <2>1, <3>1 DEF Accounted
    <3>2. CASE r # p
      <4>1. \A u \in Pids : Claims(u, r)' <=> Claims(u, r)
        BY <1>19, <2>2, <3>2
      <4> QED
        BY <1>7, <2>1, <3>2, <4>1 DEF Accounted
    <3> QED
      BY <3>1, <3>2
  <2> QED
    BY <2>1, <2>3, AllAccounted
<1> QED
  BY <1>9, <1>10, <1>11, <1>12, <1>13, <1>14, <1>15, <1>16, <1>17, <1>20, <1>21, <1>22
     DEF FaultInv

\* Only the program in front of the scheduled terminal can halt: a stray CPU finds
\* no program there to end.
LEMMA HaltingHere ==
  ASSUME TypeInv, FaultInv, Halting
  PROVE  /\ cpu \in Pids /\ cpu = head /\ cpu = process[current_term]
         /\ home[cpu] = current_term /\ depth[cpu] = total_progs[current_term]
         /\ current_term \in Terms /\ total_progs[current_term] \in 0..255
         /\ total_progs[current_term] > 0 /\ Alive(cpu)
<1>1. /\ cpu \in Pids /\ head \in Pids /\ current_term \in Terms
      /\ total_progs[current_term] \in 0..255
  BY DEF Halting, TypeInv, TypeOK
<1>2. total_progs[current_term] # 0
  BY <1>1, ConstantFacts DEF FaultInv, EmptyHeadless, head
<1>3. total_progs[current_term] > 0
  BY <1>1, <1>2
<1> QED
  BY <1>1, <1>3, CpuHere

\* halt of a program that another one started goes back into that one.
LEMMA StepHaltReturn ==
  ASSUME TypeInv, FaultInv, HaltReturn
  PROVE  FaultInv' /\ StaysOnTime /\ StaysHead
<1> DEFINE h == cpu
           ct == current_term
           q == parent_PID_num[h]
           n == total_progs[ct]
<1> USE ConstantFacts
<1>1. /\ h \in Pids /\ h = process[ct] /\ h = head /\ Alive(h)
      /\ home[h] = ct /\ depth[h] = n /\ n > 1 /\ ct \in Terms /\ n \in 0..255
  <2>1. /\ h \in Pids /\ h = process[ct] /\ h = head /\ Alive(h)
        /\ home[h] = ct /\ depth[h] = n /\ ct \in Terms /\ n \in 0..255
    BY HaltingHere DEF HaltReturn
  <2>2. n > 0 /\ Dec8(n) # 0
    BY HaltingHere DEF HaltReturn, ProgsAfterHalt
  <2> HIDE DEF n
  <2>3. Dec8(n) = n - 1
    BY <2>1, <2>2, Width
  <2> QED
    BY <2>1, <2>2, <2>3
<1>2. /\ q \in Pids /\ par_esp[h] = q /\ pc[q] = "child" /\ home[q] = ct /\ depth[q] = n - 1
  <2>1. depth[h] > 1 /\ ReturnPathIntact
    BY <1>1 DEF FaultInv
  <2>2. /\ q \in Pids /\ par_esp[h] = q /\ pc[q] = "child" /\ home[q] = home[h]
        /\ depth[h] = depth[q] + 1
    BY <1>1, <2>1 DEF ReturnPathIntact
  <2>3. depth[q] \in 0..255
    <3> HIDE DEF q
    <3> QED
      BY <2>2 DEF TypeInv, TypeOK
  <2> QED
    BY <1>1, <2>2, <2>3
<1>3. q # h
  BY <1>1, <1>2
<1>4. Dec8(n) = n - 1
  <2>1. n \in 0..255 /\ n > 0
    BY <1>1
  <2> HIDE DEF n
  <2> QED
    BY <2>1, Width
<1>5. /\ PCB_in_use' = [PCB_in_use EXCEPT ![h] = 0]
      /\ cpu' = q /\ page_user' = q /\ tss_esp0' = q
      /\ process_cnt' = Dec8(process_cnt)
      /\ total_progs' = [total_progs EXCEPT ![ct] = n - 1]
      /\ process' = [process EXCEPT ![ct] = q]
      /\ halt_stat' = [halt_stat EXCEPT ![h] = 0]
      /\ pc' = [pc EXCEPT ![h] = "user", ![q] = "user"]
      /\ depth' = [depth EXCEPT ![h] = 0]
      /\ UNCHANGED <<current_term, parent_PID_num, par_esp, this_esp, idx, home, lost>>
  BY <1>1, <1>2, <1>4 DEF HaltReturn, UseMemoryOf, ProgsAfterHalt, CountAfterHalt
<1>24. pc[h] \in {"user", "dying"}
  BY DEF HaltReturn, Halting
<1> HIDE DEF h, q, n, ct
<1>7. /\ \A r \in Pids : depth'[r] = IF r = h THEN 0 ELSE depth[r]
      /\ \A r \in Pids : parent_PID_num'[r] = parent_PID_num[r] /\ par_esp'[r] = par_esp[r]
      /\ \A r \in Pids : pc'[r] = IF r = h \/ r = q THEN "user" ELSE pc[r]
      /\ \A r \in Pids : halt_stat'[r] = IF r = h THEN 0 ELSE halt_stat[r]
      /\ \A r \in Pids : PCB_in_use'[r] = IF r = h THEN 0 ELSE PCB_in_use[r]
      /\ \A t \in Terms : process'[t] = IF t = ct THEN q ELSE process[t]
      /\ \A t \in Terms : total_progs'[t] = IF t = ct THEN n - 1 ELSE total_progs[t]
  BY <1>1, <1>2, <1>5 DEF TypeInv, TypeOK
<1>8. \A r \in Pids : /\ Alive(r)' <=> Alive(r) /\ r # h
                      /\ depth[r] \in 0..255 /\ home[r] \in Terms
  BY <1>7 DEF Alive, TypeInv, TypeOK
<1>9. \A r \in Pids : Alive(r) /\ home[r] = ct /\ depth[r] = n => r = h
  BY <1>1 DEF FaultInv, OnePerLevel
<1>10. \A r \in Pids : Alive(r) => /\ PCB_in_use[r] = 1
                                   /\ depth[r] <= total_progs[home[r]]
                                   /\ depth[r] = 1 => parent_PID_num[r] = r
  BY DEF FaultInv, ProgramsInStacks
<1>11. HeadsOnTop'
  <2>1. ASSUME NEW t \in Terms, t # ct, total_progs'[t] > 0
        PROVE  process'[t] \in Pids /\ home'[process'[t]] = t /\ depth'[process'[t]] = total_progs'[t]
    <3>1. process'[t] = process[t] /\ total_progs'[t] = total_progs[t] /\ home' = home
      BY <1>5, <1>7, <2>1
    <3>2. process[t] \in Pids /\ home[process[t]] = t /\ depth[process[t]] = total_progs[t]
      BY <2>1, <3>1 DEF FaultInv, HeadsOnTop
    <3>3. process[t] # h
      BY <1>1, <2>1, <3>2
    <3>4. depth'[process[t]] = depth[process[t]]
      BY <1>7, <3>2, <3>3
    <3> QED
      BY <3>1, <3>2, <3>4
  <2>2. process'[ct] = q /\ home'[q] = ct /\ depth'[q] = total_progs'[ct]
    BY <1>1, <1>2, <1>3, <1>5, <1>7
  <2> QED
    BY <1>2, <2>1, <2>2 DEF HeadsOnTop
<1>12. ProgramsInStacks'
  <2>1. ASSUME NEW r \in Pids, Alive(r)'
        PROVE  depth'[r] <= total_progs'[home'[r]]
    <3>1. r # h /\ Alive(r) /\ depth'[r] = depth[r] /\ home'[r] = home[r]
      BY <1>5, <1>7, <1>8, <2>1
    <3>2. CASE home[r] = ct
      <4>1. depth[r] <= n /\ depth[r] # n /\ depth[r] \in 0..255
        BY <1>8, <1>9, <1>10, <3>1, <3>2 DEF n
      <4> QED
        BY SMTT(20), ZenonT(30), <1>1, <1>7, <3>1, <3>2, <4>1
    <3>3. CASE home[r] # ct
      <4>1. home[r] \in Terms /\ depth[r] <= total_progs[home[r]]
        BY <1>8, <1>10, <3>1
      <4>2. total_progs'[home[r]] = total_progs[home[r]]
        BY <1>7, <3>3, <4>1
      <4> QED
        BY <3>1, <4>1, <4>2
    <3> QED
      BY <3>2, <3>3
  <2>2. ASSUME NEW r \in Pids, Alive(r)'
        PROVE  PCB_in_use'[r] = 1 /\ (depth'[r] = 1 => parent_PID_num'[r] = r)
    BY <1>7, <1>8, <1>10, <2>2
  <2> QED
    BY <2>1, <2>2 DEF ProgramsInStacks
<1>13. OnePerLevel'
  <2>1. \A r, u \in Pids : Alive(r) /\ home[r] = home[u] /\ depth[r] = depth[u] => r = u
    BY DEF FaultInv, OnePerLevel
  <2>2. ASSUME NEW r \in Pids, NEW u \in Pids, Alive(r)', home'[r] = home'[u], depth'[r] = depth'[u]
        PROVE  r = u
    <3>1. Alive(r) /\ r # h /\ u # h
      BY <1>7, <1>8, <2>2 DEF Alive
    <3> QED
      BY <1>5, <1>7, <2>1, <2>2, <3>1
  <2> QED
    BY <2>2 DEF OnePerLevel
<1>14. FoundIsFree' /\ DeadIdle'
  <2>1. \A r \in Pids : pc[r] # "claim"
    BY <1>24 DEF FaultInv, FoundIsFree, h
  <2>2. FoundIsFree'
    BY <1>7, <2>1 DEF FoundIsFree
  <2>3. \A r \in Pids : ~Alive(r) => pc[r] = "user"
    BY DEF FaultInv, DeadIdle
  <2>4. ASSUME NEW r \in Pids, ~Alive(r)' PROVE pc'[r] = "user"
    <3>1. r = h \/ ~Alive(r)
      BY <1>8, <2>4
    <3> QED
      BY <1>7, <2>3, <3>1
  <2>5. DeadIdle'
    BY <2>4 DEF DeadIdle
  <2> QED
    BY <2>2, <2>5
<1>15. DyingMarked'
  BY <1>5, <1>7 DEF FaultInv, DyingMarked, h
<1>25. EmptyHeadless'
  BY <1>1, <1>7 DEF FaultInv, EmptyHeadless
<1>16. CpuInFront' /\ FrontsSaved'
  <2>1. CpuInFront'
    <3>1. /\ cpu' = q /\ home'[q] = ct /\ process'[ct] = q /\ depth'[q] > 0
          /\ current_term' = ct
      BY <1>1, <1>2, <1>3, <1>5, <1>7 DEF ct
    <3> QED
      BY <1>2, <3>1 DEF CpuInFront, Alive
  <2>2. FrontsSaved'
    BY <1>5, <1>7 DEF FaultInv, FrontsSaved, ct
  <2> QED
    BY <2>1, <2>2
<1>17. StaysOnTime /\ StaysHead
  <2>1. CpuIsHead'
    BY <1>1, <1>2, <1>5, <1>7 DEF CpuIsHead, head, ct
  <2>2. SuspendedHeadsSaved => SuspendedHeadsSaved'
    BY <1>5, <1>7 DEF SuspendedHeadsSaved, ct
  <2>3. RunningIsHead'
    BY <1>5, <2>1 DEF CpuIsHead, RunningIsHead
  <2> QED
    BY <2>1, <2>2, <2>3 DEF StaysOnTime, StaysHead, OnTime
<1>18. ReturnPathIntact'
  <2>1. ASSUME NEW r \in Pids, depth'[r] > 1
        PROVE  LET u == parent_PID_num'[r]
               IN  /\ u \in Pids /\ par_esp'[r] = u /\ pc'[u] = "child"
                   /\ home'[u] = home'[r] /\ depth'[r] = depth'[u] + 1
    <3> DEFINE u == parent_PID_num[r]
    <3>1. r # h /\ depth[r] > 1 /\ depth'[r] = depth[r] /\ Alive(r)
      BY SMTT(20), ZenonT(30), <1>7, <1>8, <2>1 DEF Alive
    <3>2. /\ u \in Pids /\ par_esp[r] = u /\ pc[u] = "child"
          /\ home[u] = home[r] /\ depth[r] = depth[u] + 1
      BY <3>1 DEF FaultInv, ReturnPathIntact
    <3>3. u # h
      BY <1>24, <3>2
    <3>4. u # q
      BY <1>1, <1>2, <1>9, <3>1, <3>2
    <3> HIDE DEF u
    <3>5. parent_PID_num'[r] = u /\ par_esp'[r] = u
      BY <1>7, <3>2 DEF u
    <3>6. pc'[u] = "child" /\ depth'[u] = depth[u]
      BY <1>7, <3>2, <3>3, <3>4
    <3>7. home'[u] = home'[r]
      BY <1>5, <3>2
    <3> QED
      BY <3>1, <3>2, <3>5, <3>6, <3>7
  <2> QED
    BY <2>1 DEF ReturnPathIntact
<1>19. CountsAgree'
  <2>1. Programs' = Programs \ {h} /\ h \in Programs
    BY <1>1, <1>8 DEF Programs
  <2>2. total_progs' = [total_progs EXCEPT ![ct] = Dec8(total_progs[ct])]
    BY <1>4, <1>5 DEF n
  <2> QED
    BY <1>1, <1>5, <2>1, <2>2, CountEnd DEF FaultInv
<1>21. \A r, u \in Pids : Claims(r, u)' <=> Claims(r, u)
  <2>1. pc[h] # "claimed" /\ pc[q] # "claimed" /\ idx' = idx
    BY <1>2, <1>5, <1>24
  <2> QED
    BY <1>7, <2>1 DEF Claims
<1>22. NoDoubleOwner'
  <2>1. ASSUME NEW r \in Pids, NEW u \in Pids, Claims(r, u)
        PROVE  u # h
    BY <1>1, <2>1 DEF FaultInv, NoDoubleOwner
  <2> QED
    BY <1>7, <1>8, <1>21, <2>1 DEF FaultInv, NoDoubleOwner
<1>23. PcbsAccounted'
  <2>1. /\ \A r \in Pids : Accounted(r)
        /\ lost' = lost /\ lost \subseteq Pids
    BY <1>5, EachAccounted DEF FaultInv, TypeInv, TypeOK
  <2>2. ASSUME NEW r \in Pids PROVE Accounted(r)'
    <3>1. CASE r = h
      <4>1. h \notin lost /\ \A u \in Pids : ~Claims(u, h)
        BY <1>1, <2>1 DEF Accounted
      <4>2. ~(Alive(r)') /\ PCB_in_use'[r] = 0 /\ \A u \in Pids : ~(Claims(u, r)')
        BY <1>7, <1>8, <1>21, <3>1, <4>1
      <4> QED
        BY <2>1, <3>1, <4>1, <4>2 DEF Accounted
    <3>2. CASE r # h
      BY <1>7, <1>8, <1>21, <2>1, <3>2 DEF Accounted
    <3> QED
      BY <3>1, <3>2
  <2> QED
    BY <2>1, <2>2, AllAccounted
<1> QED
  BY <1>11, <1>12, <1>13, <1>14, <1>15, <1>16, <1>17, <1>18, <1>19, <1>22, <1>23, <1>25
     DEF FaultInv

\* halt of the last program of a terminal puts a new shell in its place, which
\* may get the same PCB.
LEMMA StepHaltRestart ==
  ASSUME TypeInv, FaultInv, HaltRestart
  PROVE  FaultInv' /\ StaysOnTime /\ StaysHead
<1> DEFINE h == cpu
           ct == current_term
           n == total_progs[ct]
<1> USE ConstantFacts
<1>1. /\ h \in Pids /\ h = process[ct] /\ h = head /\ Alive(h)
      /\ home[h] = ct /\ depth[h] = 1 /\ ct \in Terms /\ total_progs[ct] = 1
  <2>1. /\ h \in Pids /\ h = process[ct] /\ h = head /\ Alive(h)
        /\ home[h] = ct /\ depth[h] = n /\ ct \in Terms /\ n \in 0..255
    BY HaltingHere DEF HaltRestart
  <2>2. n > 0 /\ Dec8(n) = 0
    BY HaltingHere DEF HaltRestart, ProgsAfterHalt
  <2>3. n = 1
    <3> HIDE DEF n
    <3>1. Dec8(n) = n - 1
      BY ZenonT(30), <2>1, <2>2, Width
    <3> QED
      BY <2>1, <2>2, <3>1
  <2> QED
    BY <2>1, <2>3
<1>24. PICK p \in Pids :
      /\ FirstFree([PCB_in_use EXCEPT ![h] = 0], p)
      /\ PCB_in_use' = [[PCB_in_use EXCEPT ![h] = 0] EXCEPT ![p] = 1]
      /\ Launch(p, 0, Dec8(process_cnt))
      /\ depth' = [depth EXCEPT ![h] = 0, ![p] = 1]
      /\ pc' = [pc EXCEPT ![h] = "user", ![p] = "user"]
  BY <1>1 DEF HaltRestart, CountAfterHalt
<1>23. /\ ct' = ct /\ UNCHANGED <<halt_stat, this_esp, idx, lost>>
       /\ pc[h] \in {"user", "dying"}
  BY DEF HaltRestart, Halting
<1>2. /\ parent_PID_num' = [parent_PID_num EXCEPT ![p] = p]
      /\ process' = [process EXCEPT ![ct] = p]
      /\ page_user' = p /\ tss_esp0' = p /\ cpu' = p
      /\ total_progs' = [total_progs EXCEPT ![ct] = 1]
      /\ process_cnt' = Inc8(Dec8(process_cnt))
      /\ home' = [home EXCEPT ![p] = ct]
  <2>1. Inc8(0) = 1
    BY DEF Inc8
  <2> QED
    BY <1>23, <1>24, <2>1 DEF Launch, ParentOf, UseMemoryOf
<1>3. p = h \/ PCB_in_use[p] = 0
  BY <1>1, <1>24 DEF FirstFree, TypeInv, TypeOK
<1>4. par_esp' = [par_esp EXCEPT ![p] = h]
  BY <1>24 DEF Launch
<1> HIDE DEF h, ct, n
<1>5. /\ \A r \in Pids : depth'[r] = IF r = p THEN 1 ELSE IF r = h THEN 0 ELSE depth[r]
      /\ \A r \in Pids : home'[r] = IF r = p THEN ct ELSE home[r]
      /\ \A r \in Pids : parent_PID_num'[r] = IF r = p THEN p ELSE parent_PID_num[r]
      /\ \A r \in Pids : r # p => par_esp'[r] = par_esp[r]
      /\ \A r \in Pids : pc'[r] = IF r = h \/ r = p THEN "user" ELSE pc[r]
      /\ \A r \in Pids : PCB_in_use'[r] = IF r = p THEN 1 ELSE IF r = h THEN 0 ELSE PCB_in_use[r]
      /\ \A t \in Terms : process'[t] = IF t = ct THEN p ELSE process[t]
      /\ \A t \in Terms : total_progs'[t] = total_progs[t]
  BY <1>1, <1>2, <1>4, <1>24 DEF TypeInv, TypeOK
<1>6. p # h => ~Alive(p) /\ \A r \in Pids : ~Claims(r, p)
  <2>1. ProgramsInStacks /\ NoDoubleOwner
    BY DEF FaultInv
  <2>2. ASSUME p # h PROVE ~Alive(p)
    BY <1>3, <2>1, <2>2 DEF ProgramsInStacks
  <2>3. ASSUME p # h, NEW r \in Pids PROVE ~Claims(r, p)
    BY <1>3, <2>1, <2>3 DEF NoDoubleOwner
  <2> QED
    BY <2>2, <2>3
<1>7. \A r \in Pids : /\ Alive(r)' <=> r = p \/ (Alive(r) /\ r # h)
                      /\ depth[r] \in 0..255 /\ home[r] \in Terms
  BY <1>5 DEF Alive, TypeInv, TypeOK
<1>8. \A r \in Pids : Alive(r) => /\ PCB_in_use[r] = 1
                                  /\ depth[r] <= total_progs[home[r]]
                                  /\ depth[r] = 1 => parent_PID_num[r] = r
  BY DEF FaultInv, ProgramsInStacks
<1>9. \A r \in Pids : Alive(r) /\ home[r] = ct => r = h
  <2>1. ASSUME NEW r \in Pids, Alive(r), home[r] = ct PROVE r = h
    <3>1. depth[r] <= 1 /\ depth[r] > 0 /\ depth[r] \in 0..255
      BY <1>1, <1>7, <1>8, <2>1 DEF Alive
    <3>2. depth[r] = depth[h] /\ home[r] = home[h]
      BY <1>1, <2>1, <3>1
    <3> QED
      BY <1>1, <2>1, <3>2 DEF FaultInv, OnePerLevel
  <2> QED
    BY <2>1
<1>10. HeadsOnTop'
  <2>1. ASSUME NEW t \in Terms, t # ct, total_progs'[t] > 0
        PROVE  process'[t] \in Pids /\ home'[process'[t]] = t /\ depth'[process'[t]] = total_progs'[t]
    <3>1. process'[t] = process[t] /\ total_progs'[t] = total_progs[t]
      BY <1>5, <2>1
    <3>2. process[t] \in Pids /\ home[process[t]] = t /\ depth[process[t]] = total_progs[t]
      BY <2>1, <3>1 DEF FaultInv, HeadsOnTop
    <3>3. Alive(process[t])
      BY <2>1, <3>1, <3>2 DEF Alive
    <3>4. process[t] # h /\ process[t] # p
      BY <1>1, <1>6, <2>1, <3>2, <3>3
    <3>5. home'[process[t]] = t /\ depth'[process[t]] = depth[process[t]]
      BY <1>5, <3>2, <3>4
    <3> QED
      BY <3>1, <3>2, <3>5
  <2>2. process'[ct] = p /\ home'[p] = ct /\ depth'[p] = total_progs'[ct]
    BY <1>1, <1>5
  <2> QED
    BY <2>1, <2>2 DEF HeadsOnTop
<1>11. ProgramsInStacks'
  <2>1. ASSUME NEW r \in Pids, Alive(r)'
        PROVE  /\ PCB_in_use'[r] = 1 /\ depth'[r] <= total_progs'[home'[r]]
               /\ depth'[r] = 1 => parent_PID_num'[r] = r
    <3>1. CASE r = p
      <4>1. PCB_in_use'[p] = 1 /\ depth'[p] = 1 /\ home'[p] = ct /\ parent_PID_num'[p] = p
        BY <1>5
      <4>2. total_progs'[ct] = 1
        BY <1>1, <1>5
      <4> QED
        BY <3>1, <4>1, <4>2
    <3>2. CASE r # p
      <4>1. Alive(r) /\ r # h
        BY <1>7, <2>1, <3>2
      <4>2. /\ PCB_in_use'[r] = PCB_in_use[r] /\ depth'[r] = depth[r] /\ home'[r] = home[r]
            /\ parent_PID_num'[r] = parent_PID_num[r]
            /\ total_progs'[home[r]] = total_progs[home[r]]
        BY <1>5, <1>7, <3>2, <4>1
      <4> QED
        BY <1>8, <4>1, <4>2
    <3> QED
      BY <3>1, <3>2
  <2> QED
    BY <2>1 DEF ProgramsInStacks
<1>12. OnePerLevel'
  <2>1. ASSUME NEW r \in Pids, NEW u \in Pids, Alive(r)', home'[r] = home'[u], depth'[r] = depth'[u]
        PROVE  r = u
    <3>1. Alive(u)'
      BY <2>1 DEF Alive
    <3>2. \A v \in Pids : Alive(v)' /\ v # p => Alive(v) /\ home'[v] = home[v] /\ home[v] # ct
                                               /\ depth'[v] = depth[v]
      BY SMTT(20), ZenonT(30), <1>5, <1>7, <1>9
    <3>3. CASE r = p \/ u = p
      BY <1>5, <2>1, <3>1, <3>2, <3>3
    <3>4. CASE r # p /\ u # p
      BY <2>1, <3>1, <3>2, <3>4 DEF FaultInv, OnePerLevel
    <3> QED
      BY <3>3, <3>4
  <2> QED
    BY <2>1 DEF OnePerLevel
<1>13. FoundIsFree' /\ DeadIdle'
  <2>1. \A r \in Pids : pc[r] # "claim"
    BY <1>23 DEF FaultInv, FoundIsFree, h
  <2>2. FoundIsFree'
    BY <1>5, <2>1 DEF FoundIsFree
  <2>3. \A r \in Pids : ~Alive(r) => pc[r] = "user"
    BY DEF FaultInv, DeadIdle
  <2>4. ASSUME NEW r \in Pids, ~Alive(r)' PROVE pc'[r] = "user"
    <3>1. r = h \/ ~Alive(r)
      BY <1>7, <2>4
    <3> QED
      BY <1>5, <2>3, <3>1
  <2> QED
    BY <2>2, <2>4 DEF DeadIdle
<1>14. DyingMarked'
  BY <1>2, <1>5, <1>23 DEF FaultInv, DyingMarked, h
<1>25. EmptyHeadless'
  BY <1>1, <1>5 DEF FaultInv, EmptyHeadless
<1>15. CpuInFront' /\ FrontsSaved'
  <2>1. CpuInFront'
    <3>1. /\ cpu' = p /\ home'[p] = ct /\ process'[ct] = p /\ depth'[p] > 0
          /\ current_term' = ct
      BY <1>1, <1>2, <1>5, <1>23 DEF ct
    <3> QED
      BY <3>1 DEF CpuInFront, Alive
  <2>2. FrontsSaved'
    BY <1>5, <1>23 DEF FaultInv, FrontsSaved, ct
  <2> QED
    BY <2>1, <2>2
<1>16. StaysOnTime /\ StaysHead
  <2>1. CpuIsHead'
    BY <1>1, <1>2, <1>5, <1>23 DEF CpuIsHead, head, ct
  <2>2. SuspendedHeadsSaved => SuspendedHeadsSaved'
    BY <1>5, <1>23 DEF SuspendedHeadsSaved, ct
  <2>3. RunningIsHead'
    BY <1>2, <2>1 DEF CpuIsHead, RunningIsHead
  <2> QED
    BY <2>1, <2>2, <2>3 DEF StaysOnTime, StaysHead, OnTime
<1>17. ReturnPathIntact'
  <2>1. ASSUME NEW r \in Pids, depth'[r] > 1
        PROVE  LET u == parent_PID_num'[r]
               IN  /\ u \in Pids /\ par_esp'[r] = u /\ pc'[u] = "child"
                   /\ home'[u] = home'[r] /\ depth'[r] = depth'[u] + 1
    <3> DEFINE u == parent_PID_num[r]
    <3>1. r # p /\ r # h /\ depth[r] > 1 /\ depth'[r] = depth[r]
      <4>1. depth'[p] = 1 /\ (h # p => depth'[h] = 0)
        BY <1>1, <1>5
      <4>2. r # p /\ r # h
        BY <2>1, <4>1
      <4> QED
        BY <1>5, <2>1, <4>2
    <3>2. /\ u \in Pids /\ par_esp[r] = u /\ pc[u] = "child"
          /\ home[u] = home[r] /\ depth[r] = depth[u] + 1
      BY <3>1 DEF FaultInv, ReturnPathIntact
    <3>3. u # h
      BY <1>23, <3>2
    <3>4. u # p
      BY <1>6, <3>2, <3>3 DEF FaultInv, DeadIdle
    <3> HIDE DEF u
    <3>5. parent_PID_num'[r] = u /\ par_esp'[r] = u
      BY <1>5, <3>1, <3>2 DEF u
    <3>6. pc'[u] = "child" /\ depth'[u] = depth[u]
      BY <1>5, <3>2, <3>3, <3>4
    <3>7. home'[u] = home'[r]
      BY <1>5, <3>1, <3>2, <3>4
    <3> QED
      BY <3>1, <3>2, <3>5, <3>6, <3>7
  <2> QED
    BY <2>1 DEF ReturnPathIntact
<1>18. CountsAgree'
  <2>1. Programs' = (Programs \ {h}) \cup {p} /\ h \in Programs /\ (p = h \/ ~Alive(p))
    BY ZenonT(30), <1>1, <1>6, <1>7 DEF Programs
  <2> QED
    BY <1>1, <1>2, <2>1, CountReplace DEF FaultInv
<1>20. \A r, u \in Pids : Claims(r, u)' <=> Claims(r, u)
  <2>1. pc[h] # "claimed" /\ idx' = idx
    BY <1>23
  <2>2. pc[p] # "claimed"
    BY <1>6, <2>1 DEF FaultInv, DeadIdle
  <2> QED
    BY <1>5, <2>1, <2>2 DEF Claims
<1>21. NoDoubleOwner'
  <2>1. ASSUME NEW r \in Pids, NEW u \in Pids, Claims(r, u)
        PROVE  u # h /\ u # p
    BY <1>1, <1>6, <2>1 DEF FaultInv, NoDoubleOwner
  <2> QED
    BY <1>5, <1>7, <1>20, <2>1 DEF FaultInv, NoDoubleOwner
<1>22. PcbsAccounted'
  <2>1. /\ \A r \in Pids : Accounted(r)
        /\ lost' = lost /\ lost \subseteq Pids
    BY <1>23, EachAccounted DEF FaultInv, TypeInv, TypeOK
  <2>2. \A r \in Pids : ~Claims(r, p)
    <3>1. \A r \in Pids : ~Claims(r, h)
      BY <1>1 DEF FaultInv, NoDoubleOwner
    <3> QED
      BY <1>6, <3>1
  <2>3. p \notin lost
    BY <1>1, <1>3, <2>1 DEF Accounted
  <2>4. ASSUME NEW r \in Pids PROVE Accounted(r)'
    <3>1. CASE r = p
      BY <1>5, <1>7, <1>20, <2>1, <2>2, <2>3, <3>1 DEF Accounted
    <3>2. CASE r = h /\ r # p
      BY <1>1, <1>5, <1>7, <1>20, <2>1, <3>2 DEF Accounted
    <3>3. CASE r # h /\ r # p
      BY <1>5, <1>7, <1>20, <2>1, <3>3 DEF Accounted
    <3> QED
      BY <3>1, <3>2, <3>3
  <2> QED
    BY <2>1, <2>4, AllAccounted
<1> QED
  BY <1>10, <1>11, <1>12, <1>13, <1>14, <1>15, <1>16, <1>17, <1>18, <1>21, <1>22, <1>25
     DEF FaultInv

-----------------------------------------------------------------------------
(* Interrupts.                                                             *)

\* With no interrupt allowed there, none comes between test and store.
LEMMA NoneInClaim ==
  ASSUME TypeInv, FaultInv, Orderly, InterruptTimely
  PROVE  \A r \in Pids : pc[r] # "claim"
BY DEF Orderly, InterruptTimely, FaultInv, FoundIsFree

\* The timer suspends the program in front of one terminal and resumes the one
\* in front of another; when it comes to a stray CPU it abandons that thread.
LEMMA StepPIT ==
  ASSUME Orderly, TypeInv, FaultInv, InterruptTimely, PIT
  PROVE  FaultInv' /\ StaysOnTime /\ StaysHead
<1> DEFINE ct == current_term
<1> USE ConstantFacts
<1>1. PICK t \in Terms :
        /\ t # ct /\ total_progs[t] > 0
        /\ UseMemoryOf(process[t])
        /\ this_esp' = [SaveContext EXCEPT ![process[t]] = NoPid]
        /\ cpu' = SaveContext[process[t]]
        /\ current_term' = t
  BY DEF PIT, ScheduledTerm
<1>2. /\ UNCHANGED <<tables, process, parent_PID_num, par_esp, pc, idx, hist, halt_stat>>
      /\ Interruptible
  BY DEF PIT
<1> DEFINE n == process[t]
<1>3. /\ cpu \in Pids /\ ct \in Terms
      /\ head = NoPid \/ (head = cpu /\ home[cpu] = ct /\ total_progs[ct] > 0)
      /\ head = NoPid => this_esp[cpu] = NoPid
  <2>1. cpu \in Pids /\ ct \in Terms
    BY <1>2 DEF Interruptible, TypeInv, TypeOK
  <2>2. CASE total_progs[ct] > 0
    BY <2>1, <2>2, CpuHere
  <2>3. CASE ~(total_progs[ct] > 0)
    <3>1. head = NoPid /\ this_esp[cpu] = NoPid
      BY <2>1, <2>3, CpuAdrift
    <3> QED
      BY <2>1, <3>1
  <2> QED
    BY <2>1, <2>2, <2>3
<1>4. \A u \in Terms : total_progs[u] > 0 =>
        process[u] \in Pids /\ home[process[u]] = u /\ depth[process[u]] = total_progs[u]
  BY DEF FaultInv, HeadsOnTop
<1>5. /\ n \in Pids /\ home[n] = t /\ depth[n] > 0 /\ n # head
      /\ this_esp[n] \in {n, NoPid}
      /\ SuspendedHeadsSaved => this_esp[n] = n
  <2>1. n \in Pids /\ home[n] = t /\ depth[n] > 0
    BY <1>1, <1>4
  <2>2. n # head
    BY <1>1, <1>3, <2>1
  <2>3. /\ this_esp[n] \in {n, NoPid}
        /\ SuspendedHeadsSaved => this_esp[n] = n
    BY <1>1 DEF FaultInv, FrontsSaved, SuspendedHeadsSaved
  <2> QED
    BY <2>1, <2>2, <2>3
<1>6. /\ cpu' = this_esp[n] /\ page_user' = n /\ tss_esp0' = n
      /\ this_esp' = [[this_esp EXCEPT ![head] = cpu] EXCEPT ![n] = NoPid]
  BY <1>1, <1>5 DEF SaveContext, UseMemoryOf, TypeInv, TypeOK
<1>7. \A r \in Pids : this_esp'[r] = IF r = n THEN NoPid
                                     ELSE IF r = head THEN cpu ELSE this_esp[r]
  <2>1. this_esp \in [Slots -> Slots]
    BY DEF TypeInv, TypeOK
  <2> HIDE DEF n
  <2> QED
    BY <1>5, <1>6, <2>1
<1>8. total_progs' = total_progs /\ process' = process /\ current_term' = t /\ home' = home
  BY <1>1, <1>2 DEF tables, hist
<1>9. HeadsOnTop' /\ EmptyHeadless' /\ ProgramsInStacks' /\ OnePerLevel' /\ DeadIdle'
  BY <1>2 DEF FaultInv, HeadsOnTop, EmptyHeadless, ProgramsInStacks, OnePerLevel, DeadIdle,
              Alive, tables, hist
<1>10. FoundIsFree'
  BY <1>2, NoneInClaim DEF FoundIsFree
<1>11. ReturnPathIntact' /\ CountsAgree'
  BY <1>2 DEF FaultInv, ReturnPathIntact, CountsAgree,
              Programs, ProgramsOf, Alive, tables, hist
<1>12. NoDoubleOwner' /\ PcbsAccounted'
  BY <1>2 DEF FaultInv, NoDoubleOwner, PcbsAccounted, Held, Programs, Claims, Alive, tables, hist
<1>13. CpuInFront'
  <2>1. cpu' # NoPid => cpu' = n
    BY <1>5, <1>6
  <2>2. depth'[n] > 0 /\ process'[home'[n]] = n /\ home'[n] = current_term'
    BY <1>2, <1>5, <1>8 DEF hist
  <2> HIDE DEF n
  <2> QED
    BY <1>5, <2>1, <2>2 DEF CpuInFront, Alive
<1>14. \A u \in Terms \ {t} : total_progs[u] > 0 => process[u] # n
  BY <1>4, <1>5
<1>15. FrontsSaved'
  <2>1. ASSUME NEW u \in Terms \ {t}, total_progs[u] > 0
        PROVE  this_esp'[process[u]] \in {process[u], NoPid}
    <3>1. process[u] \in Pids /\ process[u] # n
      BY <1>4, <1>14, <2>1
    <3>2. this_esp'[process[u]] = IF process[u] = head THEN cpu ELSE this_esp[process[u]]
      BY <1>7, <3>1
    <3>3. u # ct => this_esp[process[u]] \in {process[u], NoPid}
      BY <2>1 DEF FaultInv, FrontsSaved
    <3>4. u = ct => process[u] = head
      BY DEF head
    <3> QED
      BY <1>3, <3>1, <3>2, <3>3, <3>4
  <2> QED
    BY <1>8, <2>1 DEF FrontsSaved
<1>16. DyingMarked'
  <2>1. ASSUME NEW r \in Pids, pc[r] = "dying", halt_stat[r] # 1
        PROVE  this_esp'[r] = NoPid /\ r # cpu'
    <3>1. this_esp[r] = NoPid /\ ~(r = cpu /\ total_progs[ct] > 0)
      BY <2>1 DEF FaultInv, DyingMarked
    <3>2. r # head
      BY <1>3, <3>1
    <3>3. this_esp'[r] = NoPid
      BY <1>7, <3>1, <3>2
    <3>4. r # cpu'
      BY <1>5, <1>6, <3>1
    <3> QED
      BY <3>3, <3>4
  <2> QED
    BY <1>2, <2>1 DEF DyingMarked
<1>17. StaysOnTime /\ StaysHead
  <2> SUFFICES ASSUME OnTime PROVE OnTime' /\ RunningIsHead'
    BY DEF StaysOnTime, StaysHead
  <2>1. this_esp[n] = n
    BY <1>5 DEF OnTime
  <2>2. CpuIsHead' /\ RunningIsHead'
    BY <1>1, <1>5, <1>6, <1>8, <2>1 DEF CpuIsHead, RunningIsHead, head
  <2>3. cpu = head
    BY DEF OnTime, CpuIsHead
  <2>4. ASSUME NEW u \in Terms \ {t}, total_progs[u] > 0
        PROVE  this_esp'[process[u]] = process[u]
    <3>1. process[u] \in Pids /\ process[u] # n
      BY <1>4, <1>14, <2>4
    <3>2. this_esp'[process[u]] = IF process[u] = head THEN cpu ELSE this_esp[process[u]]
      BY <1>7, <3>1
    <3>3. u # ct => this_esp[process[u]] = process[u]
      BY <2>4 DEF OnTime, SuspendedHeadsSaved
    <3>4. u = ct => process[u] = head
      BY DEF head
    <3> QED
      BY <2>3, <3>2, <3>3, <3>4
  <2>5. SuspendedHeadsSaved'
    BY <1>8, <2>4 DEF SuspendedHeadsSaved
  <2> QED
    BY <2>2, <2>5 DEF OnTime
<1> QED
  BY <1>9, <1>10, <1>11, <1>12, <1>13, <1>15, <1>16, <1>17 DEF FaultInv

\* A change of view touches nothing but the view.
LEMMA StepSwitchView ==
  ASSUME FaultInv, NEW dest \in Terms, SwitchView(dest)
  PROVE  FaultInv' /\ StaysOnTime /\ StaysHead
<1>1. UNCHANGED <<tables, process, current_term, pcbs, hw, pc, idx, hist>>
  BY DEF SwitchView
<1>2. FaultInv'
  BY <1>1 DEF FaultInv, HeadsOnTop, EmptyHeadless, ProgramsInStacks, OnePerLevel, FoundIsFree,
     DeadIdle, CpuInFront, FrontsSaved, Adrift, DyingMarked, ReturnPathIntact, CountsAgree,
     NoDoubleOwner, PcbsAccounted, Held, Programs, ProgramsOf, Claims, Alive,
     tables, pcbs, hw, hist
<1>3. StaysOnTime /\ StaysHead
  BY <1>1 DEF StaysOnTime, StaysHead, OnTime, RunningIsHead, CpuIsHead, SuspendedHeadsSaved,
     head, tables, pcbs, hw
<1> QED
  BY <1>2, <1>3

\* When terminal_switch may open a terminal process_cnt leaves room for its shell.
LEMMA BelowLimit ==
  ASSUME TypeInv, NEW dest \in Terms, MaySwitch(dest), total_progs[dest] = 0
  PROVE  process_cnt < MAX_NUM_PROC
<1>1. process_cnt + 1 <= MAX_NUM_PROC
  BY ConstantFacts DEF MaySwitch, AtLimit, TypeInv, TypeOK
<1> QED
  BY <1>1, ConstantFacts DEF TypeInv, TypeOK

\* Programs, held and lost PIDs are disjoint finite sets: their numbers add up.
LEMMA AccountSum ==
  ASSUME TypeInv, FaultInv
  PROVE  /\ Cardinality(Programs \cup Held \cup lost)
              = process_cnt + Cardinality(Held) + Cardinality(lost)
         /\ Cardinality(Pids) = MAX_NUM_PROC
<1>1. IsFiniteSet(Pids) /\ Cardinality(Pids) = MAX_NUM_PROC
  BY FS_Interval, KernelAssumption DEF Pids
<1>2. Programs \subseteq Pids /\ Held \subseteq Pids /\ lost \subseteq Pids
  BY DEF Programs, Held, TypeInv, TypeOK
<1>3. IsFiniteSet(Programs) /\ IsFiniteSet(Held) /\ IsFiniteSet(lost)
  BY <1>1, <1>2, FS_Subset
<1>4. /\ Programs \cap Held = {} /\ (Programs \cup Held) \cap lost = {}
  BY DEF FaultInv, PcbsAccounted
<1>5. Cardinality({}) = 0
  BY FS_EmptySet
<1>6. /\ Cardinality(Programs) \in Nat /\ Cardinality(Held) \in Nat /\ Cardinality(lost) \in Nat
  BY <1>3, FS_CardinalityType
<1> DEFINE S == Programs \cup Held
<1>7. IsFiniteSet(S) /\ Cardinality(S) = Cardinality(Programs) + Cardinality(Held)
  <2>1. /\ IsFiniteSet(S)
        /\ Cardinality(S) = Cardinality(Programs) + Cardinality(Held)
                            - Cardinality(Programs \cap Held)
    BY <1>3, FS_Union
  <2>2. Cardinality(Programs \cap Held) = 0
    BY <1>4, <1>5
  <2> HIDE DEF S
  <2> QED
    BY <1>6, <2>1, <2>2
<1>8. Cardinality(S \cup lost) = Cardinality(S) + Cardinality(lost)
  <2>1. S \cap lost = {}
    BY <1>4
  <2>2. Cardinality(S \cup lost) = Cardinality(S) + Cardinality(lost) - Cardinality(S \cap lost)
    <3> HIDE DEF S
    <3> QED
      BY <1>3, <1>7, FS_Union
  <2>3. Cardinality(S) \in Nat
    BY <1>7, FS_CardinalityType
  <2>4. Cardinality(S \cap lost) = 0
    BY <1>5, <2>1
  <2> HIDE DEF S
  <2> QED
    BY <1>6, <2>2, <2>3, <2>4
<1>9. process_cnt = Cardinality(Programs)
  BY DEF FaultInv, CountsAgree
<1> QED
  BY <1>1, <1>7, <1>8, <1>9

\* What process_cnt is short of when no PCB is left for the shell of a terminal
\* that terminal_switch may open.
LEMMA ShortByHeld == ASSUME TypeInv, FaultInv PROVE ShellFitsUnlessHeld
<1> SUFFICES ASSUME NEW dest \in Terms, MaySwitch(dest), total_progs[dest] = 0,
                    \A p \in Pids : PCB_in_use[p] = 1
             PROVE  /\ Held \cup lost # {}
                    /\ process_cnt + Cardinality(Held) + Cardinality(lost) = MAX_NUM_PROC
  BY DEF ShellFitsUnlessHeld
<1>1. Pids = Programs \cup Held \cup lost
  BY DEF FaultInv, PcbsAccounted
<1>2. process_cnt + Cardinality(Held) + Cardinality(lost) = MAX_NUM_PROC
  BY <1>1, AccountSum
<1>3. ASSUME Held \cup lost = {} PROVE FALSE
  <2>1. Held = {} /\ lost = {} /\ Cardinality({}) = 0
    BY <1>3, FS_EmptySet
  <2>2. process_cnt + 0 + 0 = MAX_NUM_PROC
    BY <1>2, <2>1
  <2>3. process_cnt < MAX_NUM_PROC /\ process_cnt \in 0..255
    BY BelowLimit DEF TypeInv, TypeOK
  <2> QED
    BY <2>2, <2>3
<1> QED
  BY <1>2, <1>3

\* Opening a terminal starts the stack of its programs with a shell and suspends
\* the one that runs, or abandons a stray thread.
LEMMA StepOpenTerminal ==
  ASSUME Orderly, TypeInv, FaultInv, InterruptTimely, OpenTimely,
         NEW dest \in Terms, OpenTerminal(dest)
  PROVE  FaultInv' /\ StaysOnTime /\ StaysHead
<1> DEFINE ct == current_term
<1> USE ConstantFacts
<1>1. PICK p \in Pids :
        /\ FirstFree(PCB_in_use, p)
        /\ PCB_in_use' = [PCB_in_use EXCEPT ![p] = 1]
        /\ Launch(p, 0, process_cnt)
        /\ depth' = [depth EXCEPT ![p] = 1]
        /\ pc' = [pc EXCEPT ![p] = "user"]
  BY DEF OpenTerminal
<1>2. /\ current_term' = dest /\ UNCHANGED <<halt_stat, idx, lost>>
      /\ total_progs[dest] = 0 /\ Interruptible /\ viewing_term = ct /\ ct # dest
      /\ this_esp' = [this_esp EXCEPT ![head] = cpu]
  BY DEF OpenTerminal, OpenTimely, MaySwitch, Orderly, head
<1>3. /\ cpu \in Pids /\ ct \in Terms /\ Alive(cpu)
      /\ head = NoPid \/ (head = cpu /\ home[cpu] = ct /\ total_progs[ct] > 0)
      /\ head = NoPid => this_esp[cpu] = NoPid
  <2>1. cpu \in Pids /\ ct \in Terms /\ Alive(cpu)
    BY <1>2, CpuAlive DEF Interruptible, TypeInv, TypeOK
  <2>2. CASE total_progs[ct] > 0
    BY <2>1, <2>2, CpuHere
  <2>3. CASE ~(total_progs[ct] > 0)
    <3>1. head = NoPid /\ this_esp[cpu] = NoPid
      BY <2>1, <2>3, CpuAdrift
    <3> QED
      BY <2>1, <3>1
  <2> QED
    BY <2>1, <2>2, <2>3
<1>5. /\ parent_PID_num' = [parent_PID_num EXCEPT ![p] = p]
      /\ process' = [process EXCEPT ![dest] = p]
      /\ par_esp' = [par_esp EXCEPT ![p] = cpu]
      /\ page_user' = p /\ tss_esp0' = p /\ cpu' = p
      /\ total_progs' = [total_progs EXCEPT ![dest] = 1]
      /\ process_cnt' = Inc8(process_cnt)
      /\ home' = [home EXCEPT ![p] = dest]
  <2>1. Inc8(0) = 1
    BY DEF Inc8
  <2> QED
    BY <1>1, <1>2, <2>1 DEF Launch, ParentOf, UseMemoryOf
<1>6. PCB_in_use[p] = 0
  BY <1>1 DEF FirstFree
<1>7. ~Alive(p) /\ p # cpu
  BY <1>3, <1>6 DEF FaultInv, ProgramsInStacks
<1> HIDE DEF ct
<1>8. /\ \A r \in Pids : depth'[r] = IF r = p THEN 1 ELSE depth[r]
      /\ \A r \in Pids : home'[r] = IF r = p THEN dest ELSE home[r]
      /\ \A r \in Pids : parent_PID_num'[r] = IF r = p THEN p ELSE parent_PID_num[r]
      /\ \A r \in Pids : r # p => par_esp'[r] = par_esp[r]
      /\ \A r \in Pids : pc'[r] = IF r = p THEN "user" ELSE pc[r]
      /\ \A r \in Pids : PCB_in_use'[r] = IF r = p THEN 1 ELSE PCB_in_use[r]
      /\ \A r \in Pids : this_esp'[r] = IF r = head THEN cpu ELSE this_esp[r]
      /\ \A t \in Terms : process'[t] = IF t = dest THEN p ELSE process[t]
      /\ \A t \in Terms : total_progs'[t] = IF t = dest THEN 1 ELSE total_progs[t]
  BY <1>1, <1>2, <1>5 DEF TypeInv, TypeOK
<1>9. \A r \in Pids : /\ Alive(r)' <=> r = p \/ Alive(r)
                      /\ depth[r] \in 0..255 /\ home[r] \in Terms
  BY <1>8 DEF Alive, TypeInv, TypeOK
<1>10. \A r \in Pids : Alive(r) => /\ PCB_in_use[r] = 1
                                   /\ depth[r] <= total_progs[home[r]]
                                   /\ depth[r] = 1 => parent_PID_num[r] = r
  BY DEF FaultInv, ProgramsInStacks
<1>11. ASSUME NEW r \in Pids, Alive(r) PROVE home[r] # dest
  <2>1. depth[r] > 0 /\ depth[r] \in 0..255 /\ depth[r] <= total_progs[home[r]]
    BY <1>9, <1>10, <1>11 DEF Alive
  <2>2. total_progs[home[r]] = 0 => FALSE
    <3> HIDE DEF Alive
    <3> QED
      BY <2>1
  <2> QED
    BY <1>2, <2>2
<1>12. \A t \in Terms : total_progs[t] > 0 =>
         process[t] \in Pids /\ home[process[t]] = t /\ depth[process[t]] = total_progs[t]
  BY DEF FaultInv, HeadsOnTop
<1>13. HeadsOnTop'
  <2>1. ASSUME NEW t \in Terms, t # dest, total_progs'[t] > 0
        PROVE  process'[t] \in Pids /\ home'[process'[t]] = t /\ depth'[process'[t]] = total_progs'[t]
    <3>1. process'[t] = process[t] /\ total_progs'[t] = total_progs[t]
      BY <1>8, <2>1
    <3>2. process[t] \in Pids /\ home[process[t]] = t /\ depth[process[t]] = total_progs[t]
      BY <1>12, <2>1, <3>1
    <3>3. process[t] # p
      BY <1>7, <2>1, <3>1, <3>2 DEF Alive
    <3>4. home'[process[t]] = t /\ depth'[process[t]] = depth[process[t]]
      BY <1>8, <3>2, <3>3
    <3> QED
      BY <3>1, <3>2, <3>4
  <2>2. process'[dest] = p /\ home'[p] = dest /\ depth'[p] = total_progs'[dest]
    BY <1>8
  <2> QED
    BY <2>1, <2>2 DEF HeadsOnTop
<1>14. ProgramsInStacks'
  <2>1. ASSUME NEW r \in Pids, Alive(r)'
        PROVE  /\ PCB_in_use'[r] = 1 /\ depth'[r] <= total_progs'[home'[r]]
               /\ depth'[r] = 1 => parent_PID_num'[r] = r
    <3>1. CASE r = p
      <4>1. PCB_in_use'[p] = 1 /\ depth'[p] = 1 /\ home'[p] = dest /\ parent_PID_num'[p] = p
        BY <1>8
      <4>2. total_progs'[dest] = 1
        BY <1>8
      <4> QED
        BY <3>1, <4>1, <4>2
    <3>2. CASE r # p
      <4>1. Alive(r) /\ home[r] # dest /\ home[r] \in Terms
        BY <1>9, <1>11, <2>1, <3>2
      <4>2. total_progs'[home[r]] = total_progs[home[r]]
        BY <1>8, <4>1
      <4>3. /\ PCB_in_use'[r] = PCB_in_use[r] /\ depth'[r] = depth[r] /\ home'[r] = home[r]
            /\ parent_PID_num'[r] = parent_PID_num[r]
        BY <1>8, <3>2
      <4> QED
        BY <1>10, <4>1, <4>2, <4>3
    <3> QED
      BY <3>1, <3>2
  <2> QED
    BY <2>1 DEF ProgramsInStacks
<1>15. OnePerLevel'
  <2>1. ASSUME NEW r \in Pids, NEW u \in Pids, Alive(r)', home'[r] = home'[u], depth'[r] = depth'[u]
        PROVE  r = u
    <3>1. Alive(u)'
      BY <2>1 DEF Alive
    <3>2. \A v \in Pids : Alive(v)' /\ v # p => Alive(v) /\ home'[v] = home[v] /\ home[v] # dest
                                               /\ depth'[v] = depth[v]
      BY <1>8, <1>9, <1>11
    <3>3. CASE r = p \/ u = p
      BY <1>8, <2>1, <3>1, <3>2, <3>3
    <3>4. CASE r # p /\ u # p
      BY <2>1, <3>1, <3>2, <3>4 DEF FaultInv, OnePerLevel
    <3> QED
      BY <3>3, <3>4
  <2> QED
    BY <2>1 DEF OnePerLevel
<1>4. EmptyHeadless'
  BY <1>8 DEF FaultInv, EmptyHeadless
<1>16. FoundIsFree' /\ DeadIdle' /\ DyingMarked'
  <2>1. \A r \in Pids : pc[r] # "claim"
    BY <1>2, NoneInClaim
  <2>2. FoundIsFree'
    BY <1>8, <2>1 DEF FoundIsFree
  <2>3. DeadIdle'
    BY SMTT(20), ZenonT(30), <1>8, <1>9 DEF FaultInv, DeadIdle
  <2>4. ASSUME NEW r \in Pids, pc[r] = "dying", halt_stat[r] # 1
        PROVE  this_esp'[r] = NoPid
    <3>1. this_esp[r] = NoPid /\ ~(r = cpu /\ total_progs[ct] > 0)
      BY <2>4 DEF FaultInv, DyingMarked, ct
    <3>2. r # head
      BY <1>3, <3>1
    <3> QED
      BY <1>8, <3>1, <3>2
  <2>5. DyingMarked'
    BY <1>2, <1>5, <1>8, <2>4 DEF DyingMarked
  <2> QED
    BY <2>2, <2>3, <2>5
<1>17. CpuInFront' /\ FrontsSaved'
  <2>1. CpuInFront'
    <3>1. cpu' = p /\ home'[p] = dest /\ process'[dest] = p /\ depth'[p] > 0
      BY <1>5, <1>8
    <3> QED
      BY <1>2, <3>1 DEF CpuInFront, Alive
  <2>2. ASSUME NEW t \in Terms, t # dest, total_progs'[t] > 0
        PROVE  this_esp'[process'[t]] \in {process'[t], NoPid}
    <3>1. process'[t] = process[t] /\ total_progs[t] > 0 /\ process[t] \in Pids
      BY <1>8, <1>12, <2>2
    <3>2. this_esp'[process[t]] = IF process[t] = head THEN cpu ELSE this_esp[process[t]]
      BY <1>8, <3>1
    <3>3. t # ct => this_esp[process[t]] \in {process[t], NoPid}
      BY <3>1 DEF FaultInv, FrontsSaved, ct
    <3>4. t = ct => process[t] = head
      BY DEF head, ct
    <3> QED
      BY <1>3, <3>1, <3>2, <3>3, <3>4
  <2>3. FrontsSaved'
    BY <1>2, <2>2 DEF FrontsSaved
  <2> QED
    BY <2>1, <2>3
<1>18. StaysOnTime /\ StaysHead
  <2>1. CpuIsHead' /\ RunningIsHead'
    BY <1>2, <1>5, <1>8 DEF CpuIsHead, RunningIsHead, head
  <2>2. ASSUME OnTime, NEW t \in Terms, t # dest, total_progs'[t] > 0
        PROVE  this_esp'[process'[t]] = process'[t]
    <3>1. process'[t] = process[t] /\ total_progs[t] > 0 /\ process[t] \in Pids
      BY <1>8, <1>12, <2>2
    <3>2. this_esp'[process[t]] = IF process[t] = head THEN cpu ELSE this_esp[process[t]]
      BY <1>8, <3>1
    <3>3. t # ct => this_esp[process[t]] = process[t]
      BY <2>2, <3>1 DEF OnTime, SuspendedHeadsSaved, ct
    <3>4. t = ct => process[t] = head
      BY DEF head, ct
    <3>5. cpu = head
      BY <2>2 DEF OnTime, CpuIsHead
    <3> QED
      BY <3>1, <3>2, <3>3, <3>4, <3>5
  <2>3. OnTime => SuspendedHeadsSaved'
    BY <1>2, <2>2 DEF SuspendedHeadsSaved
  <2> QED
    BY <2>1, <2>3 DEF StaysOnTime, StaysHead, OnTime
<1>19. ReturnPathIntact'
  <2>1. ASSUME NEW r \in Pids, depth'[r] > 1
        PROVE  LET u == parent_PID_num'[r]
               IN  /\ u \in Pids /\ par_esp'[r] = u /\ pc'[u] = "child"
                   /\ home'[u] = home'[r] /\ depth'[r] = depth'[u] + 1
    <3> DEFINE u == parent_PID_num[r]
    <3>0. depth'[p] = 1
      BY <1>8
    <3>1. r # p /\ depth[r] > 1 /\ depth'[r] = depth[r]
      <4>1. r # p
        BY <2>1, <3>0
      <4>2. depth'[r] = depth[r]
        BY <1>8, <4>1
      <4> QED
        BY <2>1, <4>1, <4>2
    <3>2. /\ u \in Pids /\ par_esp[r] = u /\ pc[u] = "child"
          /\ home[u] = home[r] /\ depth[r] = depth[u] + 1
      BY <3>1 DEF FaultInv, ReturnPathIntact
    <3>3. u # p
      BY <1>7, <3>2 DEF FaultInv, DeadIdle
    <3> HIDE DEF u
    <3>4. parent_PID_num'[r] = u /\ par_esp'[r] = u
      BY <1>8, <3>1, <3>2 DEF u
    <3>5. pc'[u] = "child" /\ depth'[u] = depth[u] /\ home'[u] = home'[r]
      BY <1>8, <3>1, <3>2, <3>3
    <3> QED
      BY <3>1, <3>2, <3>4, <3>5
  <2> QED
    BY <2>1 DEF ReturnPathIntact
<1>20. CountsAgree'
  <2>1. Programs' = Programs \cup {p}
    BY <1>9 DEF Programs
  <2>2. total_progs' = [total_progs EXCEPT ![dest] = Inc8(total_progs[dest])]
    BY <1>2, <1>5 DEF Inc8
  <2> QED
    BY <1>5, <1>7, <2>1, <2>2, CountStart DEF FaultInv
<1>22. \A r, u \in Pids : /\ Claims(r, u)' <=> Claims(r, u)
                          /\ Claims(r, u) => u # p
  <2>1. pc[p] = "user"
    BY <1>7 DEF FaultInv, DeadIdle
  <2>2. \A r, u \in Pids : Claims(r, u)' <=> Claims(r, u)
    BY <1>2, <1>8, <2>1 DEF Claims
  <2>3. \A r, u \in Pids : Claims(r, u) => PCB_in_use[u] = 1
    BY DEF FaultInv, NoDoubleOwner
  <2> QED
    BY <1>6, <2>2, <2>3
<1>23. NoDoubleOwner'
  BY <1>8, <1>9, <1>22 DEF FaultInv, NoDoubleOwner
<1>24. PcbsAccounted'
  <2>1. /\ \A r \in Pids : Accounted(r)
        /\ lost' = lost /\ lost \subseteq Pids
    BY <1>2, EachAccounted DEF FaultInv, TypeInv, TypeOK
  <2>2. ASSUME NEW r \in Pids PROVE Accounted(r)'
    <3>1. CASE r = p
      <4>1. p \notin lost /\ \A u \in Pids : ~Claims(u, p)
        BY <1>6, <2>1 DEF Accounted
      <4>2. Alive(p)' /\ PCB_in_use'[p] = 1 /\ \A u \in Pids : ~(Claims(u, p)')
        BY <1>8, <1>9, <1>22, <4>1
      <4> QED
        BY <2>1, <3>1, <4>1, <4>2 DEF Accounted
    <3>2. CASE r # p
      <4>1. (Alive(r)' <=> Alive(r)) /\ PCB_in_use'[r] = PCB_in_use[r]
            /\ \A u \in Pids : Claims(u, r)' <=> Claims(u, r)
        BY <1>8, <1>9, <1>22, <3>2
      <4> QED
        BY <2>1, <4>1 DEF Accounted
    <3> QED
      BY <3>1, <3>2
  <2> QED
    BY <2>1, <2>2, AllAccounted
<1> QED
  BY <1>4, <1>13, <1>14, <1>15, <1>16, <1>17, <1>18, <1>19, <1>20, <1>23, <1>24
     DEF FaultInv

\* "weird error" leaves the CPU adrift: its thread goes on, but it is no longer
\* the one that anything resumes.
LEMMA StepWeirdError ==
  ASSUME Orderly, TypeInv, FaultInv, OpenTimely, NEW dest \in Terms, WeirdError(dest)
  PROVE  FaultInv'
<1> DEFINE ct == current_term
<1> USE ConstantFacts
<1>1. /\ current_term' = dest /\ total_progs[dest] = 0 /\ Interruptible
      /\ this_esp' = [this_esp EXCEPT ![head] = NoPid]
      /\ UNCHANGED <<tables, process, parent_PID_num, halt_stat, par_esp, hw, pc, idx, hist>>
  BY DEF WeirdError, MaySwitch, OpenTimely, Orderly, head
<1>2. cpu \in Pids /\ (head = cpu \/ this_esp[cpu] = NoPid)
  <2>1. cpu \in Pids
    BY <1>1 DEF Interruptible
  <2> QED
    BY <2>1, CpuHere, CpuAdrift
<1>3. \A r \in Pids : this_esp'[r] = IF r = head THEN NoPid ELSE this_esp[r]
  BY <1>1 DEF TypeInv, TypeOK
<1>4. HeadsOnTop' /\ EmptyHeadless' /\ ProgramsInStacks' /\ OnePerLevel' /\ DeadIdle'
      /\ FoundIsFree'
  BY <1>1 DEF FaultInv, HeadsOnTop, EmptyHeadless, ProgramsInStacks, OnePerLevel, DeadIdle,
              FoundIsFree, Alive, tables, hw, hist
<1>5. ReturnPathIntact' /\ CountsAgree'
  BY <1>1 DEF FaultInv, ReturnPathIntact, CountsAgree,
              Programs, ProgramsOf, Alive, tables, hist
<1>6. NoDoubleOwner' /\ PcbsAccounted'
  BY <1>1 DEF FaultInv, NoDoubleOwner, PcbsAccounted, Held, Programs, Claims, Alive, tables, hist
<1>7. total_progs' = total_progs /\ process' = process /\ cpu' = cpu /\ pc' = pc
      /\ halt_stat' = halt_stat /\ home' = home /\ depth' = depth
  BY <1>1 DEF tables, hw, hist
<1>8. Adrift'
  <2>1. this_esp'[cpu] = NoPid
    BY <1>2, <1>3
  <2> QED
    BY <1>1, <1>7, <2>1 DEF Adrift
<1>9. CpuInFront'
  BY <1>2, <1>7, <1>8 DEF FaultInv, CpuInFront, Alive
<1>10. FrontsSaved'
  <2>1. ASSUME NEW t \in Terms, t # dest, total_progs[t] > 0
        PROVE  this_esp'[process[t]] \in {process[t], NoPid}
    <3>1. process[t] \in Pids
      BY <2>1 DEF FaultInv, HeadsOnTop
    <3>2. t = ct => process[t] = head
      BY DEF head
    <3>3. t # ct => this_esp[process[t]] \in {process[t], NoPid}
      BY <2>1 DEF FaultInv, FrontsSaved
    <3> QED
      BY <1>3, <3>1, <3>2, <3>3
  <2> QED
    BY <1>1, <1>7, <2>1 DEF FrontsSaved
<1>11. DyingMarked'
  <2>1. ASSUME NEW r \in Pids, pc[r] = "dying", halt_stat[r] # 1
        PROVE  this_esp'[r] = NoPid
    BY <1>3, <2>1 DEF FaultInv, DyingMarked
  <2> QED
    BY <1>1, <1>7, <2>1 DEF DyingMarked
<1> QED
  BY <1>4, <1>5, <1>6, <1>9, <1>10, <1>11 DEF FaultInv

-----------------------------------------------------------------------------
(* The theorems.                                                           *)

\* Every step of an orderly kernel keeps the stacks of programs.
LEMMA FaultStep == ASSUME Orderly PROVE TypeInv /\ FaultInv /\ [Next]_vars => FaultInv'
<1> SUFFICES ASSUME TypeInv, FaultInv, [Next]_vars PROVE FaultInv'
  OBVIOUS
<1>1. CASE UNCHANGED vars
  BY <1>1 DEF FaultInv, HeadsOnTop, EmptyHeadless, ProgramsInStacks, OnePerLevel, FoundIsFree,
     DeadIdle, CpuInFront, FrontsSaved, Adrift, DyingMarked, ReturnPathIntact, CountsAgree,
     NoDoubleOwner, PcbsAccounted, Held, Programs, ProgramsOf, Claims, Alive,
     vars, tables, terms, pcbs, hw, hist
<1> QED
  BY <1>1, StepExecSyscall, StepPidScan, StepPidClaim, StepExecBad, StepExecNull, StepExecWild,
     StepExecCorrupt, StepExecLaunch, StepFault, StepSpin, StepHaltRestart, StepHaltReturn,
     StepPIT, StepSwitchView, StepOpenTerminal, StepWeirdError DEF Next, Program, Timer, User

\* When rejected commands free their PIDs no step loses one.
LEMMA LostStep ==
  ASSUME Freeing
  PROVE  [Next]_vars => lost' = lost
<1> SUFFICES ASSUME [Next]_vars PROVE lost' = lost
  OBVIOUS
<1>1. ~ExecNull /\ ~ExecWild
  BY DEF Freeing, ExecNull, ExecWild
<1>2. CASE Program
  BY <1>1, <1>2 DEF Program, ExecSyscall, PidScan, PidClaim, ExecBad, ExecCorrupt, ExecLaunch,
     Fault, Spin, HaltRestart, HaltReturn, hist
<1>3. CASE Timer
  BY <1>3 DEF Timer, PIT, hist
<1>4. ASSUME NEW dest \in Terms, User(dest) PROVE lost' = lost
  BY <1>4 DEF User, SwitchView, OpenTerminal, WeirdError, hist
<1>5. CASE UNCHANGED vars
  BY <1>5 DEF vars, hist
<1> QED
  BY <1>2, <1>3, <1>4, <1>5 DEF Next

\* A timely kernel never prints "weird error", the only step that sets the CPU
\* adrift: no PID is held or lost when a terminal is opened.
LEMMA NotWeird ==
  ASSUME Timely, TypeInv, FaultInv, lost = {}, OpenTimely, NEW dest \in Terms
  PROVE  ~WeirdError(dest)
<1> SUFFICES ASSUME WeirdError(dest) PROVE FALSE
  OBVIOUS
<1>1. Held \cup lost # {}
  BY ShortByHeld DEF ShellFitsUnlessHeld, WeirdError
<1>2. Held = {}
  BY DEF Timely, OpenTimely, ClaimInFlight, Held, Claims
<1> QED
  BY <1>1, <1>2

LEMMA TimelyOrderly == Timely => Orderly /\ Freeing
BY DEF Timely, Orderly

LEMMA OnTimeStep ==
  ASSUME Timely
  PROVE  TypeInv /\ FaultInv /\ lost = {} /\ [Next]_vars => StaysOnTime
<1> SUFFICES ASSUME TypeInv, FaultInv, lost = {}, [Next]_vars PROVE StaysOnTime
  OBVIOUS
<1>1. CASE UNCHANGED vars
  BY <1>1 DEF StaysOnTime, OnTime, CpuIsHead, SuspendedHeadsSaved, head,
     vars, tables, terms, pcbs, hw
<1> QED
  BY <1>1, TimelyOrderly, NotWeird, StepExecSyscall, StepPidScan, StepPidClaim, StepExecBad,
     StepExecNull, StepExecWild, StepExecCorrupt, StepExecLaunch, StepFault, StepSpin,
     StepHaltRestart, StepHaltReturn, StepPIT, StepSwitchView, StepOpenTerminal DEF Next, Program, Timer, User

\* Only the command whose file cannot be read leaves the memory of another
\* process mapped.
LEMMA HeadStep ==
  ASSUME Timely, "corrupt" \notin Commands
  PROVE  TypeInv /\ FaultInv /\ lost = {} /\ [Next]_vars => StaysHead
<1> SUFFICES ASSUME TypeInv, FaultInv, lost = {}, [Next]_vars PROVE StaysHead
  OBVIOUS
<1>1. CASE UNCHANGED vars
  BY <1>1, LocalHead DEF vars, tables, terms, hw
<1>2. ~ExecCorrupt
  BY DEF ExecCorrupt
<1> QED
  BY <1>1, <1>2, TimelyOrderly, NotWeird, StepExecSyscall, StepPidScan, StepPidClaim,
     StepExecBad, StepExecNull, StepExecWild, StepExecLaunch, StepFault, StepSpin,
     StepHaltRestart, StepHaltReturn, StepPIT, StepSwitchView, StepOpenTerminal DEF Next, Program, Timer, User

\* The invariants hold in every reachable state, each under its assumption.
LEMMA FaultInvariance == ASSUME Orderly PROVE Spec => [](TypeInv /\ FaultInv)
<1>1. Init => TypeInv /\ FaultInv
  BY TypeInit, SafeInit DEF TimelyInv
<1>2. TypeInv /\ FaultInv /\ [Next]_vars => (TypeInv /\ FaultInv)'
  BY TypeStep, FaultStep
<1> QED
  BY <1>1, <1>2, PTL DEF Spec

LEMMA NoneLostInvariance ==
  ASSUME Orderly, Freeing
  PROVE  Spec => [](TypeInv /\ FaultInv /\ lost = {})
<1>1. Init => lost = {}
  BY SafeInit DEF TimelyInv
<1>2. lost = {} /\ [Next]_vars => (lost = {})'
  BY LostStep
<1> QED
  BY <1>1, <1>2, FaultInvariance, PTL DEF Spec

LEMMA TimelyInvariance == ASSUME Timely PROVE Spec => [](TypeInv /\ TimelyInv)
<1>1. Init => OnTime
  BY SafeInit DEF TimelyInv, OnTime
<1>2. TypeInv /\ FaultInv /\ lost = {} /\ OnTime /\ [Next]_vars => OnTime'
  BY OnTimeStep DEF StaysOnTime
<1>3. FaultInv /\ lost = {} /\ OnTime => TimelyInv
  BY DEF TimelyInv, OnTime
<1>4. Spec => [](TypeInv /\ FaultInv /\ lost = {})
  BY TimelyOrderly, NoneLostInvariance
<1> QED
  BY <1>1, <1>2, <1>3, <1>4, PTL DEF Spec

\* The CPU always runs the front program of the scheduled terminal, on that
\* program's kernel stack and in its memory (PIT_handler, execute, halt).
THEOREM CpuRunsHead ==
  ASSUME Timely, "corrupt" \notin Commands PROVE Spec => []RunningIsHead
<1>1. Init => RunningIsHead
  BY SafeInit
<1>2. TypeInv /\ TimelyInv /\ RunningIsHead /\ [Next]_vars => RunningIsHead'
  BY HeadStep DEF TimelyInv, OnTime, StaysHead
<1> QED
  BY <1>1, <1>2, TimelyInvariance, PTL DEF Spec

\* The scheduler always has a valid context to resume (PIT_handler,
\* terminal_switch).
THEOREM ContextsSaved == ASSUME Timely PROVE Spec => []SuspendedHeadsSaved
<1>1. TimelyInv => SuspendedHeadsSaved
  BY DEF TimelyInv
<1> QED
  BY <1>1, TimelyInvariance, PTL

\* The stacks of programs, the PCBs and the saved contexts survive every command,
\* exception and "weird error" (execute, halt, PIT_handler, terminal_switch).
THEOREM FaultsSurvived == ASSUME Orderly PROVE Spec => []FaultInv
BY FaultInvariance, PTL

\* halt always returns into the live call of execute that started the program,
\* whatever commands and exceptions came before.
THEOREM HaltReturnsToCaller == ASSUME Orderly PROVE Spec => []ReturnPathIntact
<1>1. FaultInv => ReturnPathIntact
  BY DEF FaultInv
<1> QED
  BY <1>1, FaultInvariance, PTL

\* The counters count the running programs, on all terminals and on each.
THEOREM CountersRight == ASSUME Orderly PROVE Spec => []CountsAgree
<1>1. FaultInv => CountsAgree
  BY DEF FaultInv
<1> QED
  BY <1>1, FaultInvariance, PTL

\* No PCB is lost or freed under its owner but by the two commands that lose one
\* (execute's error paths, halt, terminal_switch).
THEOREM PcbsKept == ASSUME Orderly PROVE Spec => []PcbsAccounted
<1>1. FaultInv => PcbsAccounted
  BY DEF FaultInv
<1> QED
  BY <1>1, FaultInvariance, PTL

\* "weird error" is printed only on account of PIDs that process_cnt does not count
\* (terminal_switch's limit check).
THEOREM WeirdErrorExplained == ASSUME Orderly PROVE Spec => []ShellFitsUnlessHeld
<1>1. TypeInv /\ FaultInv => ShellFitsUnlessHeld
  BY ShortByHeld
<1> QED
  BY <1>1, FaultInvariance, PTL

\* A program that dies by an exception makes its parent's execute return 256: the one
\* that halt ends is the one that executes, and that is marked.
THEOREM ExceptionStatus == ASSUME Orderly PROVE Spec => []ExceptionReturns256
<1>1. TypeInv /\ FaultInv => ExceptionReturns256
  <2> SUFFICES ASSUME TypeInv, FaultInv, Halting, pc[cpu] = "dying"
               PROVE  ExitValue(head) = 256
    BY DEF ExceptionReturns256
  <2>1. cpu \in Pids /\ cpu = head /\ total_progs[current_term] # 0
    BY HaltingHere
  <2>2. halt_stat[cpu] = 1
    BY <2>1 DEF FaultInv, DyingMarked
  <2> QED
    BY <2>1, <2>2 DEF ExitValue
<1> QED
  BY <1>1, FaultInvariance, PTL
=============================================================================
