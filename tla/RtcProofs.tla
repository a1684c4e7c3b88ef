----------------------------- MODULE RtcProofs -----------------------------
(***************************************************************************)
(* For any number of terminals: a read of the clock is never answered by a *)
(* tick that has answered an earlier read of the same terminal.            *)
(***************************************************************************)
EXTENDS Rtc, TLAPS

\* What the proof needs of the types.
Shapes ==
  /\ rtc_flag \in [Terms -> {0, 1}]
  /\ rpc \in [Terms -> {"idle", "wait", "lower"}]
  /\ unread \in [Terms -> BOOLEAN]

\* A raised flag stands for a tick that no read has used up, and so does a
\* program that has seen the flag and not lowered it yet.
FlagIsUnread == \A t \in Terms : rtc_flag[t] = 1 => unread[t]

TickInv == Shapes /\ FlagIsUnread /\ OneReadPerTick

LEMMA TickInit == Init => TickInv
  BY DEF Init, TickInv, Shapes, FlagIsUnread, OneReadPerTick

\* Every step keeps it.
LEMMA TickStep == TickInv /\ [Next]_vars => TickInv'
<1> SUFFICES ASSUME TickInv, [Next]_vars PROVE TickInv'
  OBVIOUS
<1> USE DEF TickInv, Shapes, FlagIsUnread, OneReadPerTick
<1>1. CASE Tick
  BY <1>1 DEF Tick
<1>2. ASSUME NEW t \in Terms, Schedule(t) PROVE TickInv'
  BY <1>2 DEF Schedule
<1>3. ASSUME NEW t \in Terms, ReadCall(t) PROVE TickInv'
  BY <1>3 DEF ReadCall, At, Goto
<1>4. ASSUME NEW t \in Terms, ReadSees(t) PROVE TickInv'
  <2>1. unread[t]
    BY <1>4 DEF ReadSees
  <2> QED
    BY <1>4, <2>1 DEF ReadSees, At, Goto
<1>5. ASSUME NEW t \in Terms, ReadLowers(t) PROVE TickInv'
  BY <1>5 DEF ReadLowers, Lowered, At, Goto
<1>6. ASSUME NEW t \in Terms, NEW f, Write(t, f) PROVE TickInv'
  BY <1>6 DEF Write
<1>7. CASE UNCHANGED vars
  BY <1>7 DEF vars
<1> QED
  BY <1>1, <1>2, <1>3, <1>4, <1>5, <1>6, <1>7 DEF Next

\* n reads of the clock by one terminal take n ticks (read_rtc, rtc_interrupt).
THEOREM OneTickForEachRead == Spec => []OneReadPerTick
<1>1. TickInv => OneReadPerTick
  BY DEF TickInv
<1> QED
  BY TickInit, TickStep, <1>1, PTL DEF Spec
=============================================================================
