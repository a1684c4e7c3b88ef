-------------------------------- MODULE Rtc --------------------------------
(***************************************************************************)
(* The real-time clock (rtc.c): its interrupt raises a flag for every      *)
(* terminal, read_rtc waits for the flag of its own terminal and lowers    *)
(* it, write_rtc and open_rtc program the one frequency there is.          *)
(*                                                                         *)
(* read_rtc runs with interrupts enabled: ticks and the scheduler may come *)
(* between its test of the flag and its store.  Nothing interrupts         *)
(* write_rtc after its cli(), so a call of it is one step.  This is what   *)
(* the programs rely on; module Interrupts takes the steps apart and is    *)
(* shown to implement it.                                                  *)
(***************************************************************************)
EXTENDS Integers

CONSTANTS
  NUM_TERM,     \* 3 in keyboard.h
  Frequencies   \* frequencies that programs write

VARIABLES
  rtc_flag,      \* a flag per terminal
  register_A,    \* the rate in the low bits of the clock's register A
  current_term,  \* the terminal that is scheduled
  rpc,           \* where the program of each terminal stands in read_rtc
  frequency,     \* history: the frequency that was set last
  unread         \* history: a tick came since the terminal's last read ended

vars == <<rtc_flag, register_A, current_term, rpc, frequency, unread>>

Terms == 0..(NUM_TERM - 1)

TypeOK ==
  /\ rtc_flag \in [Terms -> {0, 1}]
  /\ register_A \in 0..15
  /\ current_term \in Terms
  /\ rpc \in [Terms -> {"idle", "wait", "lower"}]
  /\ frequency \in Frequencies \cup {2}
  /\ unread \in [Terms -> BOOLEAN]

PowersOfTwo == {2^k : k \in 0..15}

\* write_rtc accepts the powers of two from 2 to 1024.
Accepted(f) == 2 <= f /\ f <= 1024 /\ f \in PowersOfTwo

\* Mutant of RateOf: counted from 2.
RateFromTwo(f) ==
  LET rate[g \in PowersOfTwo] == IF g = 32768 THEN 2 ELSE rate[g * 2] + 1
  IN rate[f]

\* write_rtc's loop: how often f must be doubled to be 32768, counted from 1.
RateOf(f) ==
  LET rate[g \in PowersOfTwo] == IF g = 32768 THEN 1 ELSE rate[g * 2] + 1
  IN rate[f]

\* After enable_rtc, which calls open_rtc.
Init ==
  /\ rtc_flag = [t \in Terms |-> 0]
  /\ register_A = RateOf(2)
  /\ current_term = 0
  /\ rpc = [t \in Terms |-> "idle"]
  /\ frequency = 2
  /\ unread = [t \in Terms |-> FALSE]

-----------------------------------------------------------------------------
\* rtc_interrupt
Tick ==
  /\ rtc_flag' = [t \in Terms |-> 1]
  /\ unread' = [t \in Terms |-> TRUE]
  /\ UNCHANGED <<register_A, current_term, rpc, frequency>>

\* The timer gives the CPU to another terminal (module Kernel).
Schedule(t) ==
  /\ t # current_term /\ current_term' = t
  /\ UNCHANGED <<rtc_flag, register_A, rpc, frequency, unread>>

\* The program of the scheduled terminal is at label l of read_rtc.
At(t, l) == t = current_term /\ rpc[t] = l
Goto(t, l) == rpc' = [rpc EXCEPT ![t] = l]

ReadCall(t) ==
  /\ At(t, "idle") /\ Goto(t, "wait")
  /\ UNCHANGED <<rtc_flag, register_A, current_term, frequency, unread>>

\* The loop ends.
ReadSees(t) ==
  /\ At(t, "wait") /\ rtc_flag[t] # 0 /\ Goto(t, "lower")
  /\ UNCHANGED <<rtc_flag, register_A, current_term, frequency, unread>>

\* Each terminal has a flag of its own.
Lowered(t) == [rtc_flag EXCEPT ![t] = 0]

ReadLowers(t) ==
  /\ At(t, "lower") /\ Goto(t, "idle")
  /\ rtc_flag' = Lowered(t)
  /\ unread' = [unread EXCEPT ![t] = FALSE]
  /\ UNCHANGED <<register_A, current_term, frequency>>

\* write_rtc of an accepted frequency, and open_rtc, which writes 2.  Every other
\* call of write_rtc returns -1 and changes nothing.
Write(t, f) ==
  /\ At(t, "idle") /\ Accepted(f)
  /\ register_A' = RateOf(f) /\ frequency' = f
  /\ UNCHANGED <<rtc_flag, current_term, rpc, unread>>

Next ==
  \/ Tick
  \/ \E t \in Terms :
       \/ Schedule(t) \/ ReadCall(t) \/ ReadSees(t) \/ ReadLowers(t)
       \/ \E f \in Frequencies \cup {2} : Write(t, f)

Spec == Init /\ [][Next]_vars

-----------------------------------------------------------------------------
\* No tick lets a terminal read twice: a program that reads n times has waited
\* for n ticks, also if one comes between the test and the store.
OneReadPerTick == \A t \in Terms : rpc[t] = "lower" => unread[t]

\* The clock divides its 32768 Hz down to the frequency that was asked for.
RateIsFrequency == 32768 \div 2^(register_A - 1) = frequency
=============================================================================
