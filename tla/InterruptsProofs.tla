-------------------------- MODULE InterruptsProofs --------------------------
(***************************************************************************)
(* For any number of terminals, any nesting of handlers and any            *)
(* frequencies: what a handler owes the controllers it pays before it is   *)
(* left, programs run with interrupts enabled, and the clock under these   *)
(* interrupts is the clock of module Rtc.                                  *)
(***************************************************************************)
EXTENDS Interrupts, TLAPS

-----------------------------------------------------------------------------
(* The inductive invariant.                                                *)

Labels == {"idle", "wait", "lower", "check", "store", "return"}

\* What the proofs need of the types.
Shapes ==
  /\ eflags_IF \in BOOLEAN /\ current_term \in Terms /\ started \subseteq Terms
  /\ kstack \in [Terms -> Seq(Frames)]
  /\ rtc_flag \in [Terms -> {0, 1}] /\ unread \in [Terms -> BOOLEAN]
  /\ rpc \in [Terms -> Labels] /\ asked \in [Terms -> Frequencies \cup {2}]

\* No program runs before the first shell is started.
BootAlone == boot # "done" => started = {} /\ \A t \in Terms : rpc[t] = "idle"

\* Whoever is suspended has a frame to be resumed in.
OthersResumable == \A t \in started \ {current_term} : kstack[t] # <<>>

\* A program between cli() and sti() has the CPU for itself.
WritesAlone ==
  \A t \in Terms : rpc[t] \in {"check", "store"} =>
    t = current_term /\ kstack[t] = <<>> /\ ~eflags_IF

\* The register is still selected and the frequency has been accepted when
\* write_rtc stores.
StoresToA ==
  \A t \in Terms : rpc[t] = "store" => rtc_index = "A" /\ Clock!Accepted(asked[t])

\* Only a call of write_rtc leaves a program with interrupts disabled.
OnlyWritesDisable ==
  kstack[current_term] = <<>> /\ rpc[current_term] \notin {"check", "store", "return"} =>
    eflags_IF

\* A tick that no read has used up is behind every flag that is seen or raised.
FlagIsUnread ==
  \A t \in Terms : rtc_flag[t] = 1 \/ rpc[t] = "lower" => unread[t]

IInv ==
  /\ Shapes /\ BootAlone /\ OthersResumable /\ WritesAlone /\ StoresToA
  /\ OnlyWritesDisable /\ FlagIsUnread /\ ServedByRunningHandler

-----------------------------------------------------------------------------
(* Lemmas about the controllers and the stacks.                            *)

LEMMA ZeroIsTerm == 0 \in Terms
  BY InterruptsAssumption DEF Terms

LEMMA PathsDisjoint ==
  ASSUME NEW i \in Devices, NEW j \in Devices, i # j
  PROVE  Path(i) \cap Path(j) = {}
  BY DEF Devices, Path, PIT_IRQ, KEYBOARD_IRQ_NUM, SLAVE_IRQ, RTC_IRQ

\* With no handler in its body no device waits for an EOI.
LEMMA NothingOwed ==
  ASSUME ServedByRunningHandler, eflags_IF \/ \A i \in Devices : ~InBody(i)
  PROVE  \A i \in Devices : Path(i) \cap in_service = {}
  BY DEF ServedByRunningHandler

\* The EOI of the handler that runs is the only one that is owed.
LEMMA EoiPaysAll ==
  ASSUME ServedByRunningHandler, NEW i \in Devices, InBody(i),
         in_service' = Acknowledged(i)
  PROVE  \A j \in Devices : Path(j) \cap in_service' = {}
<1> TAKE j \in Devices
<1>1. CASE j = i
  BY <1>1 DEF Acknowledged
<1>2. CASE j # i
  <2>1. ~InBody(j)
    BY <1>2 DEF InBody
  <2>2. Path(j) \cap in_service = {}
    BY <2>1 DEF ServedByRunningHandler
  <2> QED
    BY <2>2 DEF Acknowledged
<1> QED
  BY <1>1, <1>2

\* Moving the newest frame of a terminal keeps its stack a stack.
LEMMA MovedIsStack ==
  ASSUME Shapes, NEW t \in Terms, kstack[t] # <<>>,
         NEW a \in {"body", "saved", "resume", "tail"}
  PROVE  Moved(t, a) \in Seq(Frames) /\ Moved(t, a) # <<>>
<1>1. kstack[t] \in Seq(Frames)
  BY DEF Shapes
<1>2. Head(kstack[t]) \in Frames /\ Tail(kstack[t]) \in Seq(Frames)
  BY <1>1
<1>3. [Head(kstack[t]) EXCEPT !.at = a] \in Frames
  BY <1>2 DEF Frames
<1>4. <<[Head(kstack[t]) EXCEPT !.at = a]>> \in Seq(Frames)
  BY <1>3
<1> QED
  BY <1>2, <1>4 DEF Moved

LEMMA TailIsStack ==
  ASSUME Shapes, NEW t \in Terms, kstack[t] # <<>>
  PROVE  Tail(kstack[t]) \in Seq(Frames)
  BY DEF Shapes

\* The stack that Enter pushes on.
LEMMA PushedIsStack ==
  ASSUME Shapes, NEW t \in Terms, NEW i \in Devices
  PROVE  LET s == <<[irq |-> i, at |-> "body"]>> \o kstack[t]
         IN s \in Seq(Frames) /\ s # <<>> /\ Head(s) = [irq |-> i, at |-> "body"]
<1>1. kstack[t] \in Seq(Frames) /\ [irq |-> i, at |-> "body"] \in Frames
  BY DEF Shapes, Frames
<1> QED
  BY <1>1

-----------------------------------------------------------------------------
LEMMA InvInit == Init => IInv
<1> SUFFICES ASSUME Init PROVE IInv
  OBVIOUS
<1>1. Shapes
  BY ZeroIsTerm DEF Init, Shapes, Labels
<1> QED
  BY <1>1 DEF Init, IInv, BootAlone, OthersResumable, WritesAlone, StoresToA,
              OnlyWritesDisable, FlagIsUnread, ServedByRunningHandler

-----------------------------------------------------------------------------
(* Interrupts come and go.                                                 *)

LEMMA RaiseStep ==
  ASSUME IInv, NEW i \in Devices, Raise(i)
  PROVE  IInv'
<1> USE DEF IInv, Raise, cpu, clock, programs
<1>1. Shapes' /\ BootAlone' /\ OthersResumable' /\ WritesAlone' /\ StoresToA'
  BY DEF Shapes, BootAlone, OthersResumable, WritesAlone, StoresToA
<1>2. OnlyWritesDisable' /\ FlagIsUnread' /\ ServedByRunningHandler'
  BY DEF OnlyWritesDisable, FlagIsUnread, ServedByRunningHandler, InBody
<1> QED
  BY <1>1, <1>2

LEMMA EnterStep ==
  ASSUME IInv, NEW i \in Devices, Enter(i)
  PROVE  IInv'
<1> DEFINE t == current_term
<1> DEFINE s == <<[irq |-> i, at |-> "body"]>> \o kstack[t]
<1>1. /\ eflags_IF /\ eflags_IF' = FALSE /\ in_service' = in_service \cup Path(i)
      /\ kstack' = [kstack EXCEPT ![t] = s]
      /\ UNCHANGED <<boot, started, current_term, rpc, asked>> /\ UNCHANGED clock
  BY DEF Enter, Interrupted, Stack, programs
<1>2. t \in Terms /\ s \in Seq(Frames) /\ s # <<>> /\ Head(s) = [irq |-> i, at |-> "body"]
  BY PushedIsStack DEF IInv, Shapes
<1>3. kstack'[t] = s
  BY <1>1, <1>2 DEF IInv, Shapes
<1> HIDE DEF s
<1>4. Shapes'
  BY <1>1, <1>2 DEF IInv, Shapes, clock
<1>5. BootAlone' /\ OthersResumable' /\ StoresToA' /\ FlagIsUnread'
  BY <1>1, <1>2 DEF IInv, Shapes, BootAlone, OthersResumable, StoresToA, FlagIsUnread, clock
<1>6. WritesAlone'
  BY <1>1 DEF IInv, WritesAlone
<1>7. OnlyWritesDisable'
  BY <1>1, <1>2, <1>3 DEF OnlyWritesDisable
<1>8. ServedByRunningHandler'
  <2>1. InBody(i)'
    BY <1>1, <1>2, <1>3 DEF InBody
  <2>2. ASSUME NEW j \in Devices, j # i PROVE Path(j) \cap in_service' = {}
    BY <1>1, <2>2, NothingOwed, PathsDisjoint DEF IInv
  <2> QED
    BY <1>1, <2>1, <2>2 DEF ServedByRunningHandler
<1> QED
  BY <1>4, <1>5, <1>6, <1>7, <1>8 DEF IInv

\* The end of a handler: nothing is owed any more.
LEMMA ReturnStep ==
  ASSUME IInv, Return
  PROVE  IInv'
<1> DEFINE t == current_term
<1>1. /\ kstack[t] # <<>> /\ Head(kstack[t]).at = "tail" /\ eflags_IF' = TRUE
      /\ kstack' = [kstack EXCEPT ![t] = Tail(kstack[t])]
      /\ UNCHANGED <<boot, started, current_term, rpc, asked, in_service>>
      /\ UNCHANGED clock
  BY DEF Return, Stack, programs, pic
<1>2. t \in Terms /\ Tail(kstack[t]) \in Seq(Frames)
  BY <1>1, TailIsStack DEF IInv, Shapes
<1>3. Shapes'
  BY <1>1, <1>2 DEF IInv, Shapes, clock
<1>4. BootAlone' /\ OthersResumable' /\ StoresToA' /\ FlagIsUnread' /\ OnlyWritesDisable'
  BY <1>1, <1>2 DEF IInv, Shapes, BootAlone, OthersResumable, StoresToA, FlagIsUnread,
                    OnlyWritesDisable, clock
<1>5. WritesAlone'
  BY <1>1 DEF IInv, WritesAlone
<1>6. ServedByRunningHandler'
  <2>1. \A i \in Devices : ~InBody(i)
    BY <1>1 DEF InBody
  <2> QED
    BY <1>1, <2>1, NothingOwed DEF IInv, ServedByRunningHandler
<1> QED
  BY <1>3, <1>4, <1>5, <1>6 DEF IInv

-----------------------------------------------------------------------------
(* The handlers.  Each body ends with interrupts enabled and nothing owed; *)
(* only the stacks of the terminals that it leaves and goes on with change.*)

\* What all of them keep.
LEMMA HandlerKeeps ==
  ASSUME IInv, NEW i \in Devices, kstack[current_term] # <<>>,
         in_service' = Acknowledged(i),
         InBody(i) \/ \A j \in Devices : ~InBody(j),
         eflags_IF', UNCHANGED <<boot, rpc, asked>>
  PROVE  WritesAlone' /\ OnlyWritesDisable' /\ ServedByRunningHandler'
<1>1. \A t \in Terms : rpc[t] \notin {"check", "store"}
  BY DEF IInv, WritesAlone
<1>2. WritesAlone' /\ OnlyWritesDisable'
  BY <1>1 DEF WritesAlone, OnlyWritesDisable
<1>3. \A j \in Devices : Path(j) \cap in_service' = {}
  <2>1. CASE InBody(i)
    BY <2>1, EoiPaysAll DEF IInv
  <2>2. CASE \A j \in Devices : ~InBody(j)
    BY <2>2, NothingOwed DEF IInv, Acknowledged
  <2> QED
    BY <2>1, <2>2
<1> QED
  BY <1>2, <1>3 DEF ServedByRunningHandler

\* A handler that goes on with its own tail: the clock's, the keyboard's, the
\* timer's when nothing else can be scheduled, and a keyboard handler resumed.
LEMMA TailStep ==
  ASSUME IInv, NEW i \in Devices, kstack[current_term] # <<>>,
         in_service' = Acknowledged(i),
         InBody(i) \/ \A j \in Devices : ~InBody(j),
         eflags_IF' = TRUE, kstack' = Stack(current_term, Moved(current_term, "tail")),
         UNCHANGED <<boot, started, current_term, rpc, asked>>,
         rtc_flag' \in [Terms -> {0, 1}], unread' \in [Terms -> BOOLEAN],
         FlagIsUnread'
  PROVE  IInv'
<1> DEFINE t == current_term
<1>1. t \in Terms /\ Moved(t, "tail") \in Seq(Frames) /\ Moved(t, "tail") # <<>>
  BY MovedIsStack DEF IInv, Shapes
<1>2. kstack' = [kstack EXCEPT ![t] = Moved(t, "tail")]
  BY DEF Stack
<1>3. Shapes' /\ BootAlone' /\ OthersResumable'
  BY <1>1, <1>2 DEF IInv, Shapes, BootAlone, OthersResumable
<1>4. StoresToA'
  BY DEF IInv, WritesAlone, StoresToA
<1> QED
  BY <1>3, <1>4, HandlerKeeps DEF IInv

LEMMA RtcInterruptStep ==
  ASSUME IInv, RtcInterrupt
  PROVE  IInv'
<1>1. RTC_IRQ \in Devices /\ kstack[current_term] # <<>>
  BY DEF Devices, RtcInterrupt, InBody
<1>2. /\ rtc_flag' = [t \in Terms |-> 1] /\ unread' = [t \in Terms |-> TRUE]
      /\ UNCHANGED <<boot, started, current_term, rpc, asked>>
      /\ in_service' = Acknowledged(RTC_IRQ)
  BY DEF RtcInterrupt, Flagged, Served, programs
<1>3. FlagIsUnread'
  BY <1>2 DEF FlagIsUnread
<1> QED
  BY <1>1, <1>2, <1>3, TailStep DEF RtcInterrupt

LEMMA KeyStep ==
  ASSUME IInv, Key \/ KeyResumed
  PROVE  IInv'
<1>1. KEYBOARD_IRQ_NUM \in Devices /\ kstack[current_term] # <<>>
  BY DEF Devices, Key, KeyResumed, InBody
<1>2. InBody(KEYBOARD_IRQ_NUM) \/ \A j \in Devices : ~InBody(j)
  BY DEF Key, KeyResumed, InBody
<1>3. /\ UNCHANGED <<boot, started, current_term, rpc, asked, rtc_flag, unread>>
      /\ in_service' = Acknowledged(KEYBOARD_IRQ_NUM) /\ eflags_IF' = TRUE
      /\ kstack' = Stack(current_term, Moved(current_term, "tail"))
  BY DEF Key, KeyResumed, Served, programs, clock
<1>4. FlagIsUnread' /\ rtc_flag' \in [Terms -> {0, 1}] /\ unread' \in [Terms -> BOOLEAN]
  BY <1>3 DEF IInv, FlagIsUnread, Shapes
<1> QED
  BY <1>1, <1>2, <1>3, <1>4, TailStep

\* terminal_switch to a terminal that is opened: the old terminal's stack keeps the
\* suspended handler.
LEMMA KeyOpensStep ==
  ASSUME IInv, NEW d \in Terms, OpenTimely, KeyOpens(d)
  PROVE  IInv'
<1> DEFINE t == current_term
<1>1. KEYBOARD_IRQ_NUM \in Devices /\ kstack[t] # <<>>
  BY DEF Devices, KeyOpens, InBody
<1>2. /\ boot = "done" /\ started' = started \cup {d} /\ current_term' = d
      /\ in_service' = Acknowledged(KEYBOARD_IRQ_NUM) /\ eflags_IF' = TRUE
      /\ kstack' = [kstack EXCEPT ![t] = Moved(t, "resume")]
      /\ UNCHANGED <<boot, rpc, asked>> /\ UNCHANGED clock
  BY DEF OpenTimely, KeyOpens, OpensEoi, Served, IfAfterIret, Stack, programs
<1>3. t \in Terms /\ Moved(t, "resume") \in Seq(Frames) /\ Moved(t, "resume") # <<>>
  BY <1>1, MovedIsStack DEF IInv, Shapes
<1>4. Shapes' /\ BootAlone' /\ OthersResumable' /\ FlagIsUnread'
  BY <1>2, <1>3 DEF IInv, Shapes, BootAlone, OthersResumable, FlagIsUnread, clock
<1>5. StoresToA'
  BY <1>2 DEF IInv, StoresToA, clock
<1>6. WritesAlone' /\ OnlyWritesDisable' /\ ServedByRunningHandler'
  BY <1>1, <1>2, HandlerKeeps DEF KeyOpens
<1> QED
  BY <1>4, <1>5, <1>6 DEF IInv

LEMMA PitStep ==
  ASSUME IInv, Pit
  PROVE  IInv'
<1> DEFINE t == current_term
<1>1. PIT_IRQ \in Devices /\ kstack[t] # <<>> /\ t \in Terms
  BY DEF Devices, Pit, InBody, IInv, Shapes
<1>2. /\ in_service' = Acknowledged(PIT_IRQ) /\ eflags_IF' = TRUE /\ InBody(PIT_IRQ)
      /\ UNCHANGED <<boot, started, rpc, asked>> /\ UNCHANGED clock
  BY DEF Pit, Served, programs
<1>3. PICK next \in Terms :
        /\ next \in started \/ next = t
        /\ current_term' = next
        /\ kstack' = IF next = t THEN Stack(t, Moved(t, "tail"))
                     ELSE [Stack(t, Moved(t, "saved")) EXCEPT ![next] = Resumed(next)]
  BY DEF Pit, ScheduledTerm
<1>4. FlagIsUnread' /\ rtc_flag' \in [Terms -> {0, 1}] /\ unread' \in [Terms -> BOOLEAN]
  BY <1>2 DEF IInv, FlagIsUnread, Shapes, clock
<1>5. CASE next = t
  BY <1>1, <1>2, <1>3, <1>4, <1>5, TailStep
<1>6. CASE next # t
  <2>1. Moved(t, "saved") \in Seq(Frames) /\ Moved(t, "saved") # <<>>
    BY <1>1, MovedIsStack DEF IInv
  <2>2. kstack[next] # <<>> /\ kstack[next] \in Seq(Frames)
    BY <1>3, <1>6 DEF IInv, OthersResumable, Shapes
  <2>3. Resumed(next) \in Seq(Frames) /\ Resumed(next) # <<>>
    BY <2>2, MovedIsStack DEF IInv, Resumed
  <2>4. kstack' = [[kstack EXCEPT ![t] = Moved(t, "saved")] EXCEPT ![next] = Resumed(next)]
    BY <1>3, <1>6 DEF Stack
  <2>5. Shapes' /\ BootAlone'
    <3>1. kstack' \in [Terms -> Seq(Frames)]
      BY <2>1, <2>3, <2>4 DEF IInv, Shapes
    <3>2. /\ eflags_IF' \in BOOLEAN /\ current_term' \in Terms /\ started' \subseteq Terms
          /\ rpc' \in [Terms -> Labels] /\ asked' \in [Terms -> Frequencies \cup {2}]
      BY <1>2, <1>3 DEF IInv, Shapes
    <3>3. BootAlone'
      BY <1>2 DEF IInv, BootAlone
    <3> QED
      BY <1>4, <3>1, <3>2, <3>3 DEF Shapes
  <2>6. OthersResumable'
    BY <1>1, <1>2, <1>3, <1>6, <2>1, <2>3, <2>4 DEF IInv, Shapes, OthersResumable
  <2>7. StoresToA'
    BY <1>2 DEF IInv, StoresToA, clock
  <2>8. WritesAlone' /\ OnlyWritesDisable' /\ ServedByRunningHandler'
    BY <1>1, <1>2, HandlerKeeps
  <2> QED
    BY <1>4, <2>5, <2>6, <2>7, <2>8 DEF IInv
<1> QED
  BY <1>5, <1>6

-----------------------------------------------------------------------------
(* The boot sequence.                                                      *)

LEMMA ClearFlagsStep ==
  ASSUME IInv, ClearFlags
  PROVE  IInv'
<1>1. /\ boot = "clear" /\ boot' = "pit" /\ rtc_flag' = [t \in Terms |-> 0]
      /\ unread' = [t \in Terms |-> FALSE]
      /\ UNCHANGED <<eflags_IF, kstack, started, current_term, in_service, rpc, asked,
                     rtc_index>>
  BY DEF ClearFlags, programs
<1>2. Shapes' /\ BootAlone' /\ OthersResumable'
  BY <1>1 DEF IInv, Shapes, BootAlone, OthersResumable
<1>3. WritesAlone' /\ StoresToA' /\ OnlyWritesDisable' /\ FlagIsUnread'
  BY <1>1 DEF IInv, BootAlone, WritesAlone, StoresToA, OnlyWritesDisable, FlagIsUnread
<1>4. ServedByRunningHandler'
  BY <1>1 DEF IInv, ServedByRunningHandler, InBody
<1> QED
  BY <1>2, <1>3, <1>4 DEF IInv

LEMMA InitPitStep ==
  ASSUME IInv, InitPit
  PROVE  IInv'
<1>1. /\ boot = "pit" /\ boot' = "shell"
      /\ UNCHANGED <<eflags_IF, kstack, started, current_term, in_service, rpc, asked,
                     rtc_index, rtc_flag, unread>>
  BY DEF InitPit, programs, clock
<1>2. Shapes' /\ BootAlone' /\ OthersResumable'
  BY <1>1 DEF IInv, Shapes, BootAlone, OthersResumable
<1>3. WritesAlone' /\ StoresToA' /\ OnlyWritesDisable' /\ FlagIsUnread'
  BY <1>1 DEF IInv, WritesAlone, StoresToA, OnlyWritesDisable, FlagIsUnread
<1>4. ServedByRunningHandler'
  BY <1>1 DEF IInv, ServedByRunningHandler, InBody
<1> QED
  BY <1>2, <1>3, <1>4 DEF IInv

LEMMA FirstShellStep ==
  ASSUME IInv, FirstShell
  PROVE  IInv'
<1>1. /\ boot = "shell" /\ boot' = "done" /\ started' = {0} /\ current_term' = 0
      /\ eflags_IF' = TRUE /\ kstack[current_term] = <<>>
      /\ UNCHANGED <<kstack, in_service, rpc, asked, rtc_index, rtc_flag, unread>>
  BY DEF FirstShell, Executes, IfAfterIret, programs, clock
<1>2. Shapes' /\ BootAlone' /\ OthersResumable'
  BY <1>1, ZeroIsTerm DEF IInv, Shapes, BootAlone, OthersResumable
<1>3. WritesAlone' /\ StoresToA' /\ OnlyWritesDisable' /\ FlagIsUnread'
  BY <1>1 DEF IInv, BootAlone, WritesAlone, StoresToA, OnlyWritesDisable, FlagIsUnread
<1>4. ServedByRunningHandler'
  <2>1. \A i \in Devices : ~InBody(i)
    BY <1>1 DEF InBody
  <2> QED
    BY <1>1, <2>1, NothingOwed DEF IInv, ServedByRunningHandler
<1> QED
  BY <1>2, <1>3, <1>4 DEF IInv

-----------------------------------------------------------------------------
(* The programs.  They run with no handler on their kernel stack, so what  *)
(* is said of handlers stays as it is.                                     *)

\* What every step of a program keeps.
LEMMA GoesKeeps ==
  ASSUME IInv, NEW from \in Labels, NEW to \in Labels, Goes(from, to),
         eflags_IF' \in BOOLEAN
  PROVE  /\ boot = "done" /\ current_term \in Terms
         /\ kstack[current_term] = <<>> /\ rpc[current_term] = from
         /\ rpc' = [rpc EXCEPT ![current_term] = to]
         /\ UNCHANGED <<boot, kstack, started, current_term, in_service>>
         /\ BootAlone' /\ OthersResumable' /\ ServedByRunningHandler'
         /\ \A t \in Terms : t # current_term => rpc[t] \notin {"check", "store"}
<1>1. /\ boot = "done" /\ current_term \in Terms
      /\ kstack[current_term] = <<>> /\ rpc[current_term] = from
      /\ rpc' = [rpc EXCEPT ![current_term] = to]
      /\ UNCHANGED <<boot, kstack, started, current_term, in_service>>
  BY DEF Goes, Executes, IInv, Shapes
<1>2. BootAlone' /\ OthersResumable'
  BY <1>1 DEF IInv, BootAlone, OthersResumable
<1>3. ServedByRunningHandler'
  <2>1. \A i \in Devices : ~InBody(i)
    BY <1>1 DEF InBody
  <2> QED
    BY <1>1, <2>1, NothingOwed DEF IInv, ServedByRunningHandler
<1>4. \A t \in Terms : t # current_term => rpc[t] \notin {"check", "store"}
  BY DEF IInv, WritesAlone
<1> QED
  BY <1>1, <1>2, <1>3, <1>4

\* Steps outside write_rtc: computing, and read_rtc.
LEMMA ReadStep ==
  ASSUME IInv, Computes \/ ReadCall \/ ReadSpins \/ ReadSees \/ ReadLowers
  PROVE  IInv'
<1> DEFINE t == current_term
<1>1. PICK from \in {"idle", "wait", "lower"}, to \in {"idle", "wait", "lower"} :
        /\ Goes(from, to)
        /\ to = "lower" => rtc_flag[t] # 0 /\ UNCHANGED <<rtc_flag, unread>>
        /\ \/ UNCHANGED <<rtc_flag, unread>>
           \/ /\ to = "idle" /\ rtc_flag' = [rtc_flag EXCEPT ![t] = 0]
              /\ unread' = [unread EXCEPT ![t] = FALSE]
  BY DEF Computes, ReadCall, ReadSpins, ReadSees, ReadLowers, Lowered, clock
<1>2. UNCHANGED <<eflags_IF, rtc_index, asked>>
  BY DEF Computes, ReadCall, ReadSpins, ReadSees, ReadLowers, clock
<1>3. /\ t \in Terms /\ kstack[t] = <<>> /\ rpc[t] = from
      /\ rpc' = [rpc EXCEPT ![t] = to]
      /\ UNCHANGED <<boot, kstack, started, current_term, in_service>>
      /\ BootAlone' /\ OthersResumable' /\ ServedByRunningHandler'
      /\ \A u \in Terms : u # t => rpc[u] \notin {"check", "store"}
  BY <1>1, <1>2, GoesKeeps DEF IInv, Shapes, Labels
<1>4. Shapes'
  BY <1>1, <1>2, <1>3 DEF IInv, Shapes, Labels
<1>5. WritesAlone' /\ StoresToA' /\ OnlyWritesDisable'
  BY <1>1, <1>2, <1>3 DEF IInv, Shapes, WritesAlone, StoresToA, OnlyWritesDisable
<1>6. FlagIsUnread'
  BY <1>1, <1>3 DEF IInv, Shapes, FlagIsUnread
<1> QED
  BY <1>3, <1>4, <1>5, <1>6 DEF IInv

\* Steps of write_rtc and the return from it.
LEMMA WriteStep ==
  ASSUME IInv,
         \/ WriteRefuses \/ WriteSelects \/ WriteStores \/ SyscallReturns
         \/ \E f \in Frequencies \cup {2} : WriteCall(f)
  PROVE  IInv'
<1> DEFINE t == current_term
<1>1. PICK from \in {"idle", "check", "store", "return"},
           to \in {"idle", "check", "store", "return"} :
        /\ Goes(from, to)
        /\ to \in {"check", "store"} => eflags_IF' = FALSE \/ UNCHANGED eflags_IF
        /\ to = "check" => eflags_IF' = FALSE
        /\ to = "idle" => eflags_IF' = TRUE
        /\ to = "store" => /\ from = "check" /\ UNCHANGED <<eflags_IF, asked>>
                           /\ rtc_index' = "A" /\ Clock!Accepted(asked[t])
        /\ asked' = asked \/ \E f \in Frequencies \cup {2} : asked' = [asked EXCEPT ![t] = f]
        /\ eflags_IF' \in BOOLEAN
  BY DEF WriteRefuses, WriteSelects, WriteStores, SyscallReturns, WriteCall, IfAfterCli,
         clock, IInv, Shapes
<1>2. UNCHANGED <<rtc_flag, unread>>
  BY DEF WriteRefuses, WriteSelects, WriteStores, SyscallReturns, WriteCall, clock
<1>3. /\ t \in Terms /\ kstack[t] = <<>> /\ rpc[t] = from
      /\ rpc' = [rpc EXCEPT ![t] = to]
      /\ UNCHANGED <<boot, kstack, started, current_term, in_service>>
      /\ BootAlone' /\ OthersResumable' /\ ServedByRunningHandler'
      /\ \A u \in Terms : u # t => rpc[u] \notin {"check", "store"}
  BY <1>1, GoesKeeps DEF Labels
<1>4. Shapes'
  BY <1>1, <1>2, <1>3 DEF IInv, Shapes, Labels
<1>5. WritesAlone'
  BY <1>1, <1>3 DEF IInv, Shapes, WritesAlone
<1>6. StoresToA'
  BY <1>1, <1>3 DEF IInv, Shapes, StoresToA
<1>7. OnlyWritesDisable'
  BY <1>1, <1>3 DEF IInv, Shapes, OnlyWritesDisable
<1>8. FlagIsUnread'
  BY <1>1, <1>2, <1>3 DEF IInv, Shapes, FlagIsUnread
<1> QED
  BY <1>3, <1>4, <1>5, <1>6, <1>7, <1>8 DEF IInv

-----------------------------------------------------------------------------
LEMMA InvStep == IInv /\ [Next]_vars => IInv'
<1> SUFFICES ASSUME IInv, [Next]_vars PROVE IInv'
  OBVIOUS
<1>1. ASSUME NEW i \in Devices, Raise(i) PROVE IInv'
  BY <1>1, RaiseStep
<1>2. ASSUME NEW i \in Devices, Enter(i) PROVE IInv'
  BY <1>2, EnterStep
<1>3. CASE Handler
  BY <1>3, RtcInterruptStep, KeyStep, PitStep, KeyOpensStep DEF Handler
<1>4. CASE Return
  BY <1>4, ReturnStep
<1>5. CASE ClearFlags \/ InitPit \/ FirstShell
  BY <1>5, ClearFlagsStep, InitPitStep, FirstShellStep
<1>6. CASE Program
  BY <1>6, ReadStep, WriteStep DEF Program
<1>7. CASE UNCHANGED vars
  BY <1>7 DEF vars, cpu, pic, clock, programs, IInv, Shapes, BootAlone, OthersResumable,
              WritesAlone, StoresToA, OnlyWritesDisable, FlagIsUnread,
              ServedByRunningHandler, InBody
<1> QED
  BY <1>1, <1>2, <1>3, <1>4, <1>5, <1>6, <1>7 DEF Next, Instruction

LEMMA InvHolds == Spec => []IInv
  BY InvInit, InvStep, PTL DEF Spec

-----------------------------------------------------------------------------
\* However handlers nest and whatever stack they go on with, an EOI is owed only by
\* the handler that is in its body, with interrupts disabled: whoever runs instead
\* can be interrupted by every device (send_eoi in PIT_handler, in terminal_switch).
THEOREM EoiBeforeLeaving == Spec => []ServedByRunningHandler
<1>1. IInv => ServedByRunningHandler
  BY DEF IInv
<1> QED
  BY InvHolds, <1>1, PTL

\* No program is left running with interrupts disabled: not the shell that a
\* keyboard handler starts, not the caller of a write_rtc that was refused.
THEOREM NeverLeftDisabled == Spec => []ProgramsInterruptible
<1>1. IInv => ProgramsInterruptible
  BY DEF IInv, OnlyWritesDisable, ProgramsInterruptible
<1> QED
  BY InvHolds, <1>1, PTL

\* n reads of the clock by one terminal take n ticks, wherever interrupts come
\* between the instructions of read_rtc.
THEOREM OneTickForEachRead == Spec => []OneReadPerTick
<1>1. IInv => OneReadPerTick
  BY DEF IInv, Shapes, BootAlone, FlagIsUnread, OneReadPerTick, Clock!OneReadPerTick,
         Clock!Terms, Terms
<1> QED
  BY InvHolds, <1>1, PTL

-----------------------------------------------------------------------------
(* The rate of the clock.                                                  *)

\* write_rtc's loop gives each frequency the rate that the clock divides by.
LEMMA RateOfFrequency ==
  ASSUME NEW f, Clock!Accepted(f)
  PROVE  Clock!RateOf(f) \in 0..15 /\ 32768 \div 2^(Clock!RateOf(f) - 1) = f
<1> DEFINE P == Clock!PowersOfTwo
           Doubles(g) == g = [x \in P |-> IF x = 32768 THEN 1 ELSE g[x * 2] + 1]
           rate == CHOOSE g : Doubles(g)
           w == [x \in P |-> IF x = 32768 THEN 1 ELSE IF x = 16384 THEN 2
                  ELSE IF x = 8192 THEN 3 ELSE IF x = 4096 THEN 4 ELSE IF x = 2048 THEN 5
                  ELSE IF x = 1024 THEN 6 ELSE IF x = 512 THEN 7 ELSE IF x = 256 THEN 8
                  ELSE IF x = 128 THEN 9 ELSE IF x = 64 THEN 10 ELSE IF x = 32 THEN 11
                  ELSE IF x = 16 THEN 12 ELSE IF x = 8 THEN 13 ELSE IF x = 4 THEN 14
                  ELSE IF x = 2 THEN 15 ELSE 16]
<1>1. P = {1, 2, 4, 8, 16, 32, 64, 128, 256, 512, 1024, 2048, 4096, 8192, 16384, 32768}
  <2>1. 0..15 = {0, 1, 2, 3, 4, 5, 6, 7, 8, 9, 10, 11, 12, 13, 14, 15}
    OBVIOUS
  <2>2. /\ 2^0 = 1 /\ 2^1 = 2 /\ 2^2 = 4 /\ 2^3 = 8 /\ 2^4 = 16 /\ 2^5 = 32 /\ 2^6 = 64
        /\ 2^7 = 128 /\ 2^8 = 256 /\ 2^9 = 512 /\ 2^10 = 1024 /\ 2^11 = 2048
        /\ 2^12 = 4096 /\ 2^13 = 8192 /\ 2^14 = 16384 /\ 2^15 = 32768
    OBVIOUS
  <2>3. P = {2^0, 2^1, 2^2, 2^3, 2^4, 2^5, 2^6, 2^7, 2^8, 2^9, 2^10, 2^11, 2^12, 2^13,
             2^14, 2^15}
    BY <2>1, ZenonT(30) DEF Clock!PowersOfTwo
  <2> QED
    BY <2>2, <2>3
<1>2. Clock!RateOf(f) = rate[f] /\ f \in P /\ 2 <= f /\ f <= 1024
  BY DEF Clock!RateOf, Clock!Accepted
<1> HIDE DEF P
<1>3. Doubles(w)
  <2>1. \A x \in P : w[x] = IF x = 32768 THEN 1 ELSE w[x * 2] + 1
    BY <1>1
  <2>2. w = [x \in P |-> w[x]]
    OBVIOUS
  <2> HIDE DEF w
  <2> QED
    BY <2>1, <2>2
<1> HIDE DEF Doubles
<1>4. Doubles(rate)
  BY <1>3
<1> HIDE DEF rate
<1>5. \A x \in P : rate[x] = IF x = 32768 THEN 1 ELSE rate[x * 2] + 1
  BY <1>4 DEF Doubles
<1>6. /\ rate[32768] = 1 /\ rate[16384] = 2 /\ rate[8192] = 3 /\ rate[4096] = 4
      /\ rate[2048] = 5 /\ rate[1024] = 6
  BY <1>1, <1>5
<1>7. /\ rate[512] = 7 /\ rate[256] = 8 /\ rate[128] = 9 /\ rate[64] = 10
      /\ rate[32] = 11
  BY <1>1, <1>5, <1>6
<1>8. rate[16] = 12 /\ rate[8] = 13 /\ rate[4] = 14 /\ rate[2] = 15
  BY <1>1, <1>5, <1>7
<1>9. f \in {2, 4, 8, 16, 32, 64, 128, 256, 512, 1024}
  BY <1>1, <1>2
<1> DEFINE Hz(n) == 32768 \div 2^(n - 1)
<1>10. /\ Hz(15) = 2 /\ Hz(14) = 4 /\ Hz(13) = 8 /\ Hz(12) = 16 /\ Hz(11) = 32
       /\ Hz(10) = 64 /\ Hz(9) = 128 /\ Hz(8) = 256 /\ Hz(7) = 512 /\ Hz(6) = 1024
  OBVIOUS
<1> HIDE DEF Hz
<1>11. CASE f \in {2, 4, 8, 16, 32}
  <2>1. rate[f] \in {11, 12, 13, 14, 15} /\ Hz(rate[f]) = f
    BY <1>7, <1>8, <1>10, <1>11
  <2> QED
    BY <1>2, <2>1 DEF Hz
<1>12. CASE f \in {64, 128, 256, 512, 1024}
  <2>1. rate[f] \in {6, 7, 8, 9, 10} /\ Hz(rate[f]) = f
    BY <1>6, <1>7, <1>10, <1>12
  <2> QED
    BY <1>2, <2>1 DEF Hz
<1> QED
  BY <1>9, <1>11, <1>12

\* The words of the clock are what the last accepted write has made them.
ClockWords ==
  /\ register_A \in 0..15 /\ frequency \in Frequencies \cup {2} /\ rtc_index \in {"A", "C"}
  /\ RateIsFrequency

\* The words of the controllers, the devices and the boot sequence.
Words ==
  /\ boot \in {"clear", "pit", "shell", "done"}
  /\ master_mask \subseteq 0..7 /\ slave_mask \subseteq 8..15
  /\ in_service \subseteq Devices \cup {SLAVE_IRQ}
  /\ line \in [Devices -> {"quiet", "raised", "served", "acked"}]

\* No stack is deeper than handlers may nest.
Depth == \A t \in Terms : Len(kstack[t]) <= MaxNest

LEMMA WordsInit == Init => ClockWords /\ Words /\ Depth
<1>1. Clock!Accepted(2)
  <2>1. 2^1 = 2 /\ 1 \in 0..15
    OBVIOUS
  <2> QED
    BY <2>1 DEF Clock!Accepted, Clock!PowersOfTwo
<1>2. /\ Clock!RateOf(2) \in 0..15 /\ 32768 \div 2^(Clock!RateOf(2) - 1) = 2
  BY <1>1, RateOfFrequency
<1>3. Init => ClockWords
  BY <1>2 DEF Init, ClockWords, RateIsFrequency, Clock!RateIsFrequency
<1>4. Init => Words
  BY DEF Init, Words, Devices, KEYBOARD_IRQ_NUM, SLAVE_IRQ, RTC_IRQ
<1>5. Init => Depth
  BY InterruptsAssumption DEF Init, Depth
<1> QED
  BY <1>3, <1>4, <1>5

\* Every step but the store of write_rtc keeps the rate and the frequency, and
\* that one sets both.
LEMMA ClockWordsStep == IInv /\ ClockWords /\ [Next]_vars => ClockWords'
<1> SUFFICES ASSUME IInv, ClockWords, [Next]_vars PROVE ClockWords'
  OBVIOUS
<1>1. CASE WriteStores
  <2>1. /\ Goes("store", "return") /\ rtc_index' = rtc_index
        /\ register_A' = IF rtc_index = "A" THEN Clock!RateOf(asked[current_term])
                         ELSE register_A
        /\ frequency' = asked[current_term]
    BY <1>1 DEF WriteStores
  <2>2. /\ current_term \in Terms /\ rpc[current_term] = "store"
    BY <2>1 DEF IInv, Shapes, Goes
  <2>3. /\ asked[current_term] \in Frequencies \cup {2}
        /\ rtc_index = "A" /\ Clock!Accepted(asked[current_term])
    BY <2>2 DEF IInv, Shapes, StoresToA
  <2>4. PICK f : f = asked[current_term]
    OBVIOUS
  <2>5. Clock!RateOf(f) \in 0..15 /\ 32768 \div 2^(Clock!RateOf(f) - 1) = f
    BY <2>3, <2>4, RateOfFrequency
  <2>6. register_A' = Clock!RateOf(f) /\ frequency' = f
    BY <2>1, <2>3, <2>4
  <2> QED
    BY <2>1, <2>3, <2>4, <2>5, <2>6
       DEF ClockWords, RateIsFrequency, Clock!RateIsFrequency
<1>2. CASE ~WriteStores
  <2>1. UNCHANGED <<register_A, frequency>> /\ rtc_index' \in {rtc_index, "A", "C"}
    <3>1. CASE Handler
      BY <3>1 DEF Handler, RtcInterrupt, Key, Pit, KeyResumed, KeyOpens, clock
    <3>2. CASE Program
      BY <1>2, <3>2 DEF Program, Computes, ReadCall, ReadSpins, ReadSees, ReadLowers,
         WriteRefuses, WriteSelects, SyscallReturns, WriteCall, clock
    <3>3. CASE Return \/ ClearFlags \/ InitPit \/ FirstShell
               \/ \E i \in Devices : Enter(i) \/ Raise(i)
      BY <3>3 DEF Return, ClearFlags, InitPit, FirstShell, Enter, Raise, clock
    <3>4. CASE UNCHANGED vars
      BY <3>4 DEF vars, clock
    <3> QED
      BY <3>1, <3>2, <3>3, <3>4 DEF Next, Instruction
  <2> QED
    BY <2>1 DEF ClockWords, RateIsFrequency, Clock!RateIsFrequency
<1> QED
  BY <1>1, <1>2

\* The words of the controllers and devices stay what they are.
LEMMA WordsStep == IInv /\ Words /\ [Next]_vars => Words'
<1> SUFFICES ASSUME IInv, Words, [Next]_vars PROVE Words'
  OBVIOUS
<1>1. PIT_IRQ \in Devices /\ KEYBOARD_IRQ_NUM \in Devices /\ RTC_IRQ \in Devices
  BY DEF Devices
<1>2. \A i \in Devices : Path(i) \subseteq Devices \cup {SLAVE_IRQ}
  BY DEF Path
<1>3. ASSUME NEW i \in Devices, Served(i), UNCHANGED boot PROVE Words'
  BY <1>3 DEF Served, Acknowledged, Words
<1>4. CASE Handler
  <2>1. CASE RtcInterrupt \/ Key \/ Pit
    BY <1>1, <1>3, <2>1 DEF RtcInterrupt, Key, Pit
  <2>2. CASE \E t \in Terms : KeyOpens(t)
    BY <1>1, <1>3, <2>2 DEF KeyOpens, OpensEoi
  <2>3. CASE KeyResumed
    BY <2>3 DEF KeyResumed, Acknowledged, Words
  <2> QED
    BY <1>4, <2>1, <2>2, <2>3 DEF Handler
<1>5. ASSUME Settle, boot' \in {"clear", "pit", "shell", "done"},
             master_mask' \subseteq master_mask, UNCHANGED <<slave_mask, in_service>>
      PROVE  Words'
  BY <1>5 DEF Settle, Words
<1>6. CASE Program
  <2>1. \E from, to \in Labels : Goes(from, to)
    BY <1>6 DEF Program, Computes, ReadCall, ReadSpins, ReadSees, ReadLowers, WriteRefuses,
       WriteSelects, WriteStores, SyscallReturns, WriteCall, Labels
  <2> QED
    BY <1>5, <2>1 DEF Goes, Executes, Words
<1>7. CASE ClearFlags \/ InitPit \/ FirstShell
  BY <1>5, <1>7 DEF ClearFlags, InitPit, FirstShell, Executes
<1>8. CASE Return
  BY <1>8 DEF Return, pic, Words
<1>9. ASSUME NEW i \in Devices, Enter(i) \/ Raise(i) PROVE Words'
  BY <1>2, <1>9 DEF Enter, Raise, cpu, Words
<1>10. CASE UNCHANGED vars
  BY <1>10 DEF vars, cpu, pic, Words
<1> QED
  BY <1>4, <1>6, <1>7, <1>8, <1>9, <1>10 DEF Next, Instruction

\* A frame that moves leaves its stack as deep as it was.
LEMMA MovedDepth ==
  ASSUME Shapes, NEW t \in Terms, kstack[t] # <<>>, NEW a
  PROVE  Len(Moved(t, a)) = Len(kstack[t])
<1>1. kstack[t] \in Seq(Frames)
  BY DEF Shapes
<1>2. PICK frame : frame = [Head(kstack[t]) EXCEPT !.at = a]
  OBVIOUS
<1>3. Tail(kstack[t]) \in Seq(Frames) /\ Len(Tail(kstack[t])) = Len(kstack[t]) - 1
  BY <1>1
<1>4. Len(<<frame>> \o Tail(kstack[t])) = 1 + Len(Tail(kstack[t]))
  BY <1>3
<1> QED
  BY <1>1, <1>2, <1>3, <1>4 DEF Moved

\* Only an interrupt makes a stack deeper, and it comes only where one may.
LEMMA DepthStep == IInv /\ Depth /\ [Next]_vars => Depth'
<1> SUFFICES ASSUME IInv, Depth, [Next]_vars PROVE Depth'
  OBVIOUS
<1> DEFINE t == current_term
<1>1. t \in Terms /\ kstack \in [Terms -> Seq(Frames)] /\ MaxNest \in Nat
      /\ \A u \in Terms : Len(kstack[u]) \in Nat
  BY InterruptsAssumption DEF IInv, Shapes
<1>2. ASSUME NEW s, Len(s) <= MaxNest, kstack' = [kstack EXCEPT ![t] = s] PROVE Depth'
  BY <1>1, <1>2 DEF Depth
<1>3. ASSUME NEW a, kstack[t] # <<>>, kstack' = Stack(t, Moved(t, a)) PROVE Depth'
  <2>1. Len(Moved(t, a)) <= MaxNest
    BY <1>1, <1>3, MovedDepth DEF IInv, Depth
  <2> QED
    BY <1>2, <1>3, <2>1 DEF Stack
<1>4. CASE Handler
  <2>1. kstack[t] # <<>>
    BY <1>4 DEF Handler, RtcInterrupt, Key, Pit, KeyResumed, KeyOpens, InBody
  <2>2. CASE RtcInterrupt \/ Key \/ KeyResumed \/ \E u \in Terms : OpenTimely /\ KeyOpens(u)
    BY <1>3, <2>1, <2>2 DEF RtcInterrupt, Key, KeyResumed, OpenTimely, KeyOpens
  <2>3. CASE Pit
    <3>1. PICK next \in Terms :
            /\ next \in started \/ next = t
            /\ kstack' = IF next = t THEN Stack(t, Moved(t, "tail"))
                         ELSE [Stack(t, Moved(t, "saved")) EXCEPT ![next] = Resumed(next)]
      BY <2>3 DEF Pit, ScheduledTerm
    <3>2. CASE next = t
      BY <1>3, <2>1, <3>1, <3>2
    <3>3. CASE next # t
      <4>1. kstack[next] # <<>>
        BY <3>1, <3>3 DEF IInv, OthersResumable
      <4>2. Len(Resumed(next)) = Len(kstack[next]) /\ Len(Moved(t, "saved")) = Len(kstack[t])
        BY <1>1, <2>1, <4>1, MovedDepth DEF IInv, Resumed
      <4>3. kstack' = [[kstack EXCEPT ![t] = Moved(t, "saved")] EXCEPT ![next] = Resumed(next)]
        BY <3>1, <3>3 DEF Stack
      <4> QED
        BY <1>1, <4>2, <4>3 DEF Depth
    <3> QED
      BY <3>2, <3>3
  <2> QED
    BY <1>4, <2>2, <2>3 DEF Handler
<1>5. ASSUME NEW i \in Devices, Enter(i) PROVE Depth'
  <2>1. PICK frame : frame = [irq |-> i, at |-> "body"]
    OBVIOUS
  <2>2. /\ Len(kstack[t]) < MaxNest /\ kstack' = [kstack EXCEPT ![t] = <<frame>> \o kstack[t]]
    BY <1>5, <2>1 DEF Enter, Interrupted, Stack
  <2>3. PICK s : s = <<frame>> \o kstack[t]
    OBVIOUS
  <2>4. Len(s) = 1 + Len(kstack[t])
    BY <1>1, <2>3
  <2>5. Len(s) <= MaxNest
    BY <1>1, <2>2, <2>4
  <2> QED
    BY <1>2, <2>2, <2>3, <2>5
<1>6. CASE Return
  <2>1. kstack[t] # <<>> /\ kstack' = [kstack EXCEPT ![t] = Tail(kstack[t])]
    BY <1>6 DEF Return, Stack
  <2>2. PICK s : s = Tail(kstack[t])
    OBVIOUS
  <2>3. Len(s) = Len(kstack[t]) - 1
    BY <1>1, <2>1, <2>2
  <2>4. Len(s) <= MaxNest
    BY <1>1, <2>3 DEF Depth
  <2> QED
    BY <1>2, <2>1, <2>2, <2>4
<1>7. CASE UNCHANGED kstack
  BY <1>7 DEF Depth
<1>8. CASE Program \/ ClearFlags \/ InitPit \/ FirstShell \/ (\E i \in Devices : Raise(i))
           \/ UNCHANGED vars
  BY <1>7, <1>8 DEF Program, Computes, ReadCall, ReadSpins, ReadSees, ReadLowers,
     WriteRefuses, WriteSelects, WriteStores, SyscallReturns, WriteCall, Goes, ClearFlags,
     InitPit, FirstShell, Raise, vars, cpu
<1> QED
  BY <1>4, <1>5, <1>6, <1>8 DEF Next, Instruction

\* Only a terminal that has programs is shown.
LEMMA ViewStep == IInv /\ viewing_term \in Terms /\ [Next]_vars => (viewing_term \in Terms)'
<1> SUFFICES ASSUME IInv, viewing_term \in Terms, [Next]_vars PROVE viewing_term' \in Terms
  OBVIOUS
<1>1. CASE Key
  BY <1>1 DEF Key, IInv, Shapes
<1>2. CASE \E t \in Terms : KeyOpens(t)
  BY <1>2 DEF KeyOpens
<1>3. CASE \/ RtcInterrupt \/ Pit \/ KeyResumed \/ Return \/ ClearFlags \/ InitPit
           \/ FirstShell \/ (\E i \in Devices : Enter(i) \/ Raise(i)) \/ UNCHANGED vars
  BY <1>3 DEF RtcInterrupt, Pit, KeyResumed, Return, ClearFlags, InitPit, FirstShell, Enter,
     Raise, vars, cpu
<1>4. CASE Program
  BY <1>4 DEF Program, Computes, ReadCall, ReadSpins, ReadSees, ReadLowers, WriteRefuses,
     WriteSelects, WriteStores, SyscallReturns, WriteCall, Goes
<1> QED
  BY <1>1, <1>2, <1>3, <1>4 DEF Next, Instruction, Handler

\* Masks, in-service bits, requests, stacks and the registers of the clock stay
\* what the hardware and the handlers take them for, however deep handlers nest.
THEOREM InterruptsTypes == Spec => []TypeOK
<1>1. IInv /\ ClockWords /\ Words /\ Depth /\ viewing_term \in Terms => TypeOK
  BY DEF IInv, Shapes, Labels, ClockWords, Words, Depth, TypeOK
<1>2. Init => viewing_term \in Terms
  BY ZeroIsTerm DEF Init
<1>3. Spec => [](ClockWords /\ Words /\ Depth /\ viewing_term \in Terms)
  BY <1>2, WordsInit, ClockWordsStep, WordsStep, DepthStep, ViewStep, InvHolds, PTL DEF Spec
<1> QED
  BY <1>1, <1>3, InvHolds, PTL

\* The clock ticks at the frequency that was last accepted: no interrupt, no other
\* program and no refused call comes between the rate and the register it is
\* stored in (write_rtc, rtc.c:115).
THEOREM RateFollowsFrequency == Spec => []RateIsFrequency
<1>1. Spec => []ClockWords
  BY WordsInit, ClockWordsStep, InvHolds, PTL DEF Spec
<1>2. ClockWords => RateIsFrequency
  BY DEF ClockWords
<1> QED
  BY <1>1, <1>2, PTL

-----------------------------------------------------------------------------
(* Refinement: the clock, the scheduler and write_rtc of module Rtc.       *)

\* The variables of module Rtc.
Flag == [t \in Terms |-> IF boot = "clear" THEN 0 ELSE rtc_flag[t]]
Unread == [t \in Terms |-> IF boot = "clear" THEN FALSE ELSE unread[t]]
Place == [t \in Terms |-> IF rpc[t] \in {"wait", "lower"} THEN rpc[t] ELSE "idle"]

LEMMA ClockVars ==
  ASSUME UNCHANGED <<Flag, register_A, current_term, Place, frequency, Unread>>
  PROVE  UNCHANGED Clock!vars
  BY DEF Clock!vars, Flag, Unread, Place

LEMMA RefineInit == Init => Clock!Init
  BY DEF Init, Clock!Init, Clock!Terms, Terms

\* Interrupts that come and go are nothing to the programs, nor are the bodies of
\* the keyboard's handler and the boot sequence.
LEMMA RefineQuiet ==
  ASSUME IInv,
         \/ \E i \in Devices : Raise(i) \/ Enter(i)
         \/ Return \/ Key \/ KeyResumed \/ ClearFlags \/ InitPit
  PROVE  UNCHANGED Clock!vars
<1>1. UNCHANGED <<register_A, current_term, rpc, frequency>>
  BY DEF Raise, Enter, Return, Key, KeyResumed, ClearFlags, InitPit, cpu, clock, programs
<1>2. CASE ClearFlags
  <2>1. /\ boot = "clear" /\ boot' = "pit" /\ rtc_flag' = [t \in Terms |-> 0]
        /\ unread' = [t \in Terms |-> FALSE]
    BY <1>2 DEF ClearFlags
  <2>2. Flag' = Flag /\ Unread' = Unread /\ Place' = Place
    BY <1>1, <2>1 DEF Flag, Unread, Place
  <2> QED
    BY <1>1, <2>2, ClockVars
<1>3. CASE ~ClearFlags
  <2>1. UNCHANGED <<rtc_flag, unread>>
    BY <1>3 DEF Raise, Enter, Return, Key, KeyResumed, InitPit, clock
  <2>2. UNCHANGED boot \/ (boot = "pit" /\ boot' = "shell")
    <3>1. InitPit => boot = "pit" /\ boot' = "shell"
      BY DEF InitPit
    <3>2. (\E i \in Devices : Raise(i) \/ Enter(i)) => UNCHANGED boot
      BY DEF Raise, Enter, cpu
    <3>3. Return \/ Key \/ KeyResumed => UNCHANGED boot
      BY DEF Return, Key, KeyResumed
    <3> QED
      BY <1>3, <3>1, <3>2, <3>3
  <2>3. Flag' = Flag /\ Unread' = Unread /\ Place' = Place
    BY <1>1, <2>1, <2>2 DEF Flag, Unread, Place
  <2> QED
    BY <1>1, <2>3, ClockVars
<1> QED
  BY <1>2, <1>3

\* The body of the clock's handler is a tick, once the clock is in use.
LEMMA RefineTick ==
  ASSUME IInv, RtcInterrupt
  PROVE  Clock!Tick \/ UNCHANGED Clock!vars
<1>1. /\ rtc_flag' = [t \in Terms |-> 1] /\ unread' = [t \in Terms |-> TRUE]
      /\ UNCHANGED <<boot, current_term, register_A, frequency, rpc>>
  BY DEF RtcInterrupt, Flagged, programs
<1>2. CASE boot = "clear"
  <2>1. Flag' = Flag /\ Unread' = Unread /\ Place' = Place
    BY <1>1, <1>2 DEF Flag, Unread, Place
  <2> QED
    BY <1>1, <2>1, ClockVars
<1>3. CASE boot # "clear"
  BY <1>1, <1>3 DEF Clock!Tick, Clock!Terms, Terms
<1> QED
  BY <1>2, <1>3

\* Whatever gives the CPU to another terminal: the timer, the key that opens one,
\* the start of the first shell.
LEMMA RefineSchedule ==
  ASSUME IInv, Pit \/ FirstShell \/ \E t \in Terms : KeyOpens(t)
  PROVE  (\E t \in Terms : Clock!Schedule(t)) \/ UNCHANGED Clock!vars
<1>1. UNCHANGED <<rtc_flag, register_A, rpc, frequency, unread>>
  BY DEF Pit, FirstShell, KeyOpens, clock, programs
<1>2. UNCHANGED boot \/ (boot = "shell" /\ boot' = "done")
  <2>1. FirstShell => boot = "shell" /\ boot' = "done"
    BY DEF FirstShell
  <2>2. Pit => UNCHANGED boot
    BY DEF Pit
  <2>3. (\E t \in Terms : KeyOpens(t)) => UNCHANGED boot
    BY DEF KeyOpens
  <2> QED
    BY <2>1, <2>2, <2>3
<1>3. current_term' \in Terms
  BY ZeroIsTerm DEF Pit, FirstShell, KeyOpens
<1>4. Flag' = Flag /\ Unread' = Unread /\ Place' = Place
  BY <1>1, <1>2 DEF Flag, Unread, Place
<1>5. CASE current_term' = current_term
  BY <1>1, <1>4, <1>5, ClockVars
<1>6. CASE current_term' # current_term
  <2>1. Clock!Schedule(current_term')
    BY <1>1, <1>4, <1>6 DEF Clock!Schedule, Flag, Unread, Place
  <2> QED
    BY <1>3, <2>1
<1> QED
  BY <1>5, <1>6

\* The places of a program that goes on.
LEMMA PlaceGoes ==
  ASSUME IInv, NEW from \in Labels, NEW to \in Labels, Goes(from, to),
         eflags_IF' \in BOOLEAN
  PROVE  /\ boot = "done" /\ boot' = "done" /\ current_term \in Terms
         /\ UNCHANGED current_term /\ rpc[current_term] = from
         /\ Place[current_term] = IF from \in {"wait", "lower"} THEN from ELSE "idle"
         /\ Place' = [Place EXCEPT ![current_term] =
                        IF to \in {"wait", "lower"} THEN to ELSE "idle"]
<1>1. /\ boot = "done" /\ boot' = "done" /\ current_term \in Terms
      /\ UNCHANGED current_term /\ rpc[current_term] = from
      /\ rpc' = [rpc EXCEPT ![current_term] = to]
  BY GoesKeeps
<1> QED
  BY <1>1 DEF IInv, Shapes, Place

\* What a program does outside read_rtc, and all of write_rtc but the store.
LEMMA RefineStill ==
  ASSUME IInv,
         \/ Computes \/ ReadSpins \/ WriteRefuses \/ WriteSelects \/ SyscallReturns
         \/ \E f \in Frequencies \cup {2} : WriteCall(f)
  PROVE  UNCHANGED Clock!vars
<1>1. PICK from \in Labels, to \in Labels :
        /\ Goes(from, to) /\ eflags_IF' \in BOOLEAN
        /\ from = to \/ {from, to} \cap {"wait", "lower"} = {}
  BY DEF Computes, ReadSpins, WriteRefuses, WriteSelects, SyscallReturns, WriteCall,
         IfAfterCli, IInv, Shapes, Labels
<1>2. UNCHANGED <<rtc_flag, register_A, frequency, unread>>
  BY DEF Computes, ReadSpins, WriteRefuses, WriteSelects, SyscallReturns, WriteCall, clock
<1>3. Place' = [Place EXCEPT ![current_term] = Place[current_term]]
      /\ UNCHANGED <<boot, current_term>>
  BY <1>1, PlaceGoes
<1>4. Flag' = Flag /\ Unread' = Unread /\ Place' = Place
  BY <1>2, <1>3 DEF Flag, Unread, Place
<1> QED
  BY <1>2, <1>3, <1>4, ClockVars

LEMMA RefineRead ==
  ASSUME IInv, ReadCall \/ ReadSees \/ ReadLowers
  PROVE  \E t \in Terms : Clock!ReadCall(t) \/ Clock!ReadSees(t) \/ Clock!ReadLowers(t)
<1> PICK t \in Terms : t = current_term
  BY DEF IInv, Shapes
<1>1. UNCHANGED <<eflags_IF, register_A, frequency>> /\ eflags_IF' \in BOOLEAN
  BY DEF ReadCall, ReadSees, ReadLowers, clock, IInv, Shapes
<1>2. CASE ReadCall
  <2>1. Goes("idle", "wait") /\ UNCHANGED <<rtc_flag, unread>>
    BY <1>2 DEF ReadCall, clock
  <2>2. /\ t \in Terms /\ UNCHANGED <<current_term, boot>> /\ Place[t] = "idle"
        /\ Place' = [Place EXCEPT ![t] = "wait"]
    BY <1>1, <2>1, PlaceGoes DEF Labels
  <2>3. Clock!ReadCall(t)
    BY <1>1, <2>1, <2>2 DEF Clock!ReadCall, Clock!At, Clock!Goto, Place
  <2> QED
    BY <2>3
<1>3. CASE ReadSees
  <2>1. Goes("wait", "lower") /\ UNCHANGED <<rtc_flag, unread>> /\ rtc_flag[t] # 0
    BY <1>3 DEF ReadSees, clock
  <2>2. /\ t \in Terms /\ UNCHANGED <<current_term, boot>> /\ Place[t] = "wait"
        /\ Place' = [Place EXCEPT ![t] = "lower"] /\ boot = "done"
    BY <1>1, <2>1, PlaceGoes DEF Labels
  <2>3. Clock!ReadSees(t)
    BY <1>1, <2>1, <2>2 DEF Clock!ReadSees, Clock!At, Clock!Goto, Place
  <2> QED
    BY <2>3
<1>4. CASE ReadLowers
  <2>1. /\ Goes("lower", "idle") /\ rtc_flag' = [rtc_flag EXCEPT ![t] = 0]
        /\ unread' = [unread EXCEPT ![t] = FALSE]
    BY <1>4 DEF ReadLowers, Lowered
  <2>2. /\ t \in Terms /\ UNCHANGED <<current_term, boot>> /\ Place[t] = "lower"
        /\ Place' = [Place EXCEPT ![t] = "idle"] /\ boot = "done"
    BY <1>1, <2>1, PlaceGoes DEF Labels
  <2>3. Flag' = [Flag EXCEPT ![t] = 0] /\ Unread' = [Unread EXCEPT ![t] = FALSE]
    BY <2>1, <2>2 DEF Flag, Unread, IInv, Shapes
  <2>4. Clock!ReadLowers(t)
    BY <1>1, <2>2, <2>3 DEF Clock!ReadLowers, Clock!Lowered, Clock!At, Clock!Goto, Flag,
       Unread, Place
  <2> QED
    BY <2>4
<1> QED
  BY <1>2, <1>3, <1>4

\* The store of write_rtc is the whole write: the register is the one it selected
\* and the frequency the one it has checked.
LEMMA RefineWrite ==
  ASSUME IInv, WriteStores
  PROVE  \E t \in Terms : \E f \in Frequencies \cup {2} : Clock!Write(t, f)
<1> DEFINE t == current_term
<1>1. /\ Goes("store", "return") /\ eflags_IF' = TRUE /\ UNCHANGED <<rtc_flag, unread>>
      /\ register_A' = IF rtc_index = "A" THEN Clock!RateOf(asked[t]) ELSE register_A
      /\ frequency' = asked[t]
  BY DEF WriteStores
<1>2. /\ t \in Terms /\ UNCHANGED <<current_term, boot>> /\ Place[t] = "idle"
      /\ Place' = [Place EXCEPT ![t] = "idle"] /\ rpc[t] = "store"
  BY <1>1, PlaceGoes DEF Labels
<1>3. /\ asked[t] \in Frequencies \cup {2} /\ Clock!Accepted(asked[t])
      /\ register_A' = Clock!RateOf(asked[t])
  BY <1>1, <1>2 DEF IInv, Shapes, StoresToA
<1>4. Flag' = Flag /\ Unread' = Unread /\ Place' = Place
  BY <1>1, <1>2 DEF Flag, Unread, Place
<1>5. Clock!Write(t, asked[t])
  BY <1>1, <1>2, <1>3, <1>4 DEF Clock!Write, Clock!At, Flag, Unread, Place
<1> QED
  BY <1>2, <1>3, <1>5

LEMMA RefineStep == IInv /\ [Next]_vars => [Clock!Next]_(Clock!vars)
<1> SUFFICES ASSUME IInv, [Next]_vars PROVE Clock!Next \/ UNCHANGED Clock!vars
  OBVIOUS
<1>1. CASE \E i \in Devices : Raise(i) \/ Enter(i)
  BY <1>1, RefineQuiet
<1>2. CASE Return \/ Key \/ KeyResumed \/ ClearFlags \/ InitPit
  BY <1>2, RefineQuiet
<1>3. CASE RtcInterrupt
  BY <1>3, RefineTick DEF Clock!Next
<1>4. CASE Pit \/ FirstShell \/ \E t \in Terms : KeyOpens(t)
  BY <1>4, RefineSchedule DEF Clock!Next, Clock!Terms, Terms
<1>5. CASE Program
  <2>1. CASE \/ Computes \/ ReadSpins \/ WriteRefuses \/ WriteSelects \/ SyscallReturns
             \/ \E f \in Frequencies \cup {2} : WriteCall(f)
    BY <2>1, RefineStill
  <2>2. CASE ReadCall \/ ReadSees \/ ReadLowers
    BY <2>2, RefineRead DEF Clock!Next, Clock!Terms, Terms
  <2>3. CASE WriteStores
    BY <2>3, RefineWrite DEF Clock!Next, Clock!Terms, Terms
  <2> QED
    BY <1>5, <2>1, <2>2, <2>3 DEF Program
<1>6. CASE UNCHANGED vars
  <2>1. UNCHANGED <<boot, rtc_flag, register_A, current_term, rpc, frequency, unread>>
    BY <1>6 DEF vars, cpu, clock, programs
  <2> QED
    BY <2>1 DEF Clock!vars
<1> QED
  BY <1>1, <1>2, <1>3, <1>4, <1>5, <1>6 DEF Next, Instruction, Handler

\* With its interrupt, its scheduler and its cli() taken apart the clock is the clock
\* of module Rtc: nothing comes between the check of a frequency, the selection of the
\* register and the store, and a tick raises every flag at once (rtc.c, PIT.c).
THEOREM ClockRefined == Spec => ImplementsRtc
  BY InvHolds, RefineInit, RefineStep, PTL DEF Spec, ImplementsRtc, Clock!Spec
=============================================================================
