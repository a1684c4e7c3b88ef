----------------------- MODULE KernelRefinementProofs -----------------------
(***************************************************************************)
(* A timely kernel implements ProcStacks: read through parent_PID_num, the *)
(* PCBs of each terminal form one stack, and every step of execute, halt,  *)
(* the timer and terminal_switch is a step of these stacks.  In an orderly *)
(* kernel one step is none, terminal_switch's "weird error", and that one  *)
(* leaves the stacks alone.                                                *)
(***************************************************************************)
EXTENDS KernelRefinement, KernelProofs, SequenceTheorems,
        WellFoundedInduction

\* A set of naturals that is not empty has a least member; this is how the
\* proofs about parent_PID_num's chain go down it program by program.
LEMMA Least ==
  ASSUME NEW S, S \subseteq Nat, S # {}
  PROVE  \E m \in S : \A k \in S : m <= k
<1>1. PICK m \in S : \A k \in S : ~(<<k, m>> \in OpToRel(<, Nat))
  BY NatLessThanWellFounded, WFMin, Zenon
<1>2. \A k \in S : ~(k < m)
  BY <1>1 DEF OpToRel
<1> QED
  BY <1>2

-----------------------------------------------------------------------------
(* The chain of parents of each terminal is its stack.                     *)

\* p is program number d of terminal t.
At(t, d, p) == p \in Pids /\ home[p] = t /\ depth[p] = d

\* What the type invariant says of depth and total_progs.
LEMMA DepthRange ==
  ASSUME TypeInv
  PROVE  /\ \A p \in Pids : depth[p] \in 0..255
         /\ \A t \in Terms : total_progs[t] \in 0..255
BY ConstantFacts DEF TypeInv, TypeOK

\* No level below the front program of a terminal is empty.
LEMMA LevelsFilled ==
  ASSUME TypeInv, FaultInv, NEW t \in Terms, NEW d \in 1..total_progs[t]
  PROVE  \E p : At(t, d, p)
<1> DEFINE n == total_progs[t]
           S == {k \in Nat : k < n /\ ~\E p : At(t, n - k, p)}
<1>1. n \in 0..255 /\ n > 0
  BY DEF TypeInv, TypeOK
<1>2. S = {}
  <2> SUFFICES ASSUME S # {} PROVE FALSE
    OBVIOUS
  <2>1. PICK m \in S : \A k \in S : m <= k
    BY Least
  <2>2. m # 0
    <3>1. At(t, n, process[t])
      BY <1>1 DEF FaultInv, HeadsOnTop, At
    <3> HIDE DEF n
    <3>2. n - 0 = n
      BY <1>1
    <3> QED
      BY <3>1, <3>2
  <2>3. PICK p : At(t, n - (m - 1), p)
    BY <1>1, <2>1, <2>2
  <2>4. depth[p] > 1 /\ p \in Pids
    <3>1. depth[p] = n - (m - 1) /\ p \in Pids
      BY <2>3 DEF At
    <3> HIDE DEF n
    <3>2. n - (m - 1) > 1
      BY <1>1, <2>1, <2>2
    <3> QED
      BY <3>1, <3>2
  <2> DEFINE q == parent_PID_num[p]
  <2>5. q \in Pids /\ home[q] = home[p] /\ depth[p] = depth[q] + 1
    BY <2>4 DEF FaultInv, ReturnPathIntact
  <2> HIDE DEF q
  <2>6. depth[q] \in 0..255
    BY <2>5, DepthRange
  <2>7. home[q] = t /\ depth[q] = n - m
    <3>1. m \in Nat
      BY <2>1
    <3>2. home[p] = t /\ depth[p] = n - (m - 1)
      BY <2>3 DEF At
    <3> HIDE DEF n, S
    <3> QED
      BY <1>1, <2>5, <2>6, <3>1, <3>2
  <2>8. At(t, n - m, q)
    BY <2>5, <2>7 DEF At
  <2> QED
    BY <2>1, <2>8
<1>3. n - d \in Nat /\ n - d < n /\ n - (n - d) = d
  BY <1>1
<1> QED
  BY <1>2, <1>3

\* A program's level names it.
LEMMA LevelUnique ==
  ASSUME TypeInv, FaultInv, NEW t, NEW d, d > 0, NEW p, NEW q, At(t, d, p), At(t, d, q)
  PROVE  p = q
BY DEF FaultInv, OnePerLevel, Alive, At

\* What StackOf(t) is: program number d of terminal t at place d.
IsStackOf(t, s) ==
  /\ s \in Seq(Pids) /\ Len(s) = total_progs[t]
  /\ \A d \in 1..total_progs[t] : At(t, d, s[d])

Towers == \A t \in Terms : IsStackOf(t, StackOf(t))

\* total_progs[t] steps along parent_PID_num from the front program visit all
\* programs of the terminal, the first one last.
LEMMA ChainIsStack == TypeInv /\ FaultInv => Towers
<1> SUFFICES ASSUME TypeInv, FaultInv, NEW t \in Terms PROVE IsStackOf(t, StackOf(t))
  BY DEF Towers
<1> DEFINE n == total_progs[t]
           Up(g) == g = [k \in 0..n |-> IF k = 0 THEN process[t] ELSE parent_PID_num[g[k - 1]]]
           up == CHOOSE g : Up(g)
<1>1. n \in Nat
  BY DepthRange
<1>2. StackOf(t) = [i \in 1..n |-> up[n - i]]
  BY DEF StackOf
<1>3. CASE n = 0
  <2>1. StackOf(t) = <<>>
    BY <1>2, <1>3
  <2> QED
    BY <1>3, <2>1 DEF IsStackOf
<1>4. CASE n > 0
  <2>1. \A d \in 1..n : \E p : At(t, d, p)
    BY LevelsFilled
  <2> DEFINE L(d) == CHOOSE p : At(t, d, p)
  <2>2. \A d \in 1..n : At(t, d, L(d))
    BY <2>1
  <2>3. \A d \in 1..n : \A p : At(t, d, p) => p = L(d)
    BY <2>2, LevelUnique
  <2>4. process[t] = L(n)
    <3>1. At(t, n, process[t])
      BY <1>4 DEF FaultInv, HeadsOnTop, At
    <3> QED
      BY <1>1, <1>4, <2>3, <3>1
  <2>5. \A d \in 2..n : parent_PID_num[L(d)] = L(d - 1)
    <3> SUFFICES ASSUME NEW d \in 2..n PROVE parent_PID_num[L(d)] = L(d - 1)
      OBVIOUS
    <3>1. At(t, d, L(d))
      BY <2>2
    <3> DEFINE q == parent_PID_num[L(d)]
    <3>2. q \in Pids /\ home[q] = t /\ d = depth[q] + 1
      BY <3>1 DEF FaultInv, ReturnPathIntact, At
    <3>3. depth[q] \in 0..255
      BY <3>2, DepthRange
    <3> HIDE DEF q, n, L
    <3>4. At(t, d - 1, q) /\ d - 1 \in 1..n
      BY <1>1, <3>2, <3>3 DEF At
    <3>5. q = L(d - 1)
      BY <2>3, <3>4
    <3> QED
      BY <3>5 DEF q
  <2>6. parent_PID_num[L(1)] = L(1)
    <3>1. At(t, 1, L(1))
      BY <1>1, <1>4, <2>2
    <3> QED
      BY <3>1 DEF FaultInv, ProgramsInStacks, Alive, At
  <2> HIDE DEF n, L
  <2>7. Up([k \in 0..n |-> L(IF k = n THEN 1 ELSE n - k)])
    <3> DEFINE w == [k \in 0..n |-> L(IF k = n THEN 1 ELSE n - k)]
    <3>1. w[0] = process[t]
      BY <1>1, <1>4, <2>4
    <3>2. \A k \in 1..n : w[k] = parent_PID_num[w[k - 1]]
      <4> TAKE k \in 1..n
      <4>1. w[k - 1] = L(n - (k - 1))
        BY <1>1
      <4>2. CASE k = n
        <5>1. w[k - 1] = L(1) /\ w[k] = L(1)
          BY <1>1, <4>1, <4>2
        <5> QED
          BY <2>6, <5>1
      <4>3. CASE k # n
        <5>1. n - (k - 1) \in 2..n /\ (n - (k - 1)) - 1 = n - k
          BY <1>1, <4>3
        <5>2. w[k] = L(n - k)
          BY <1>1, <4>3
        <5> QED
          BY <2>5, <4>1, <5>1, <5>2
      <4> QED
        BY <4>2, <4>3
    <3>3. \A k \in 0..n : w[k] = IF k = 0 THEN process[t] ELSE parent_PID_num[w[k - 1]]
      <4>1. \A k \in 0..n : k = 0 \/ k \in 1..n
        BY <1>1
      <4> HIDE DEF w
      <4> QED
        BY <3>1, <3>2, <4>1
    <3>4. w = [k \in 0..n |-> w[k]]
      OBVIOUS
    <3>5. w = [k \in 0..n |-> IF k = 0 THEN process[t] ELSE parent_PID_num[w[k - 1]]]
      <4> HIDE DEF w
      <4> QED
        BY <3>3, <3>4
    <3> QED
      BY <3>5
  <2>8. Up(up)
    <3>1. \E g : Up(g)
      BY <2>7
    <3> HIDE DEF Up
    <3> QED
      BY <3>1
  <2>9. \A k \in 0..(n - 1) : up[k] = L(n - k)
    <3> HIDE DEF up
    <3>1. up[0] = process[t] /\ \A k \in 1..n : up[k] = parent_PID_num[up[k - 1]]
      BY <1>1, <2>8
    <3> HIDE DEF Up
    <3> DEFINE S == {k \in Nat : k < n /\ up[k] # L(n - k)}
    <3>2. S = {}
      <4> SUFFICES ASSUME S # {} PROVE FALSE
        OBVIOUS
      <4>1. PICK m \in S : \A k \in S : m <= k
        BY Least
      <4>2. m # 0
        BY <1>1, <2>4, <3>1, <4>1
      <4>3. up[m - 1] = L(n - (m - 1))
        BY <1>1, <4>1, <4>2
      <4>4. n - (m - 1) \in 2..n /\ (n - (m - 1)) - 1 = n - m
        BY <1>1, <4>1, <4>2
      <4>5. up[m] = parent_PID_num[L(n - (m - 1))]
        BY <1>1, <3>1, <4>1, <4>2, <4>3
      <4> QED
        BY <2>5, <4>1, <4>4, <4>5
    <3> QED
      BY <1>1, <3>2
  <2>10. \A d \in 1..n : StackOf(t)[d] = L(d)
    <3> HIDE DEF up
    <3> TAKE d \in 1..n
    <3>1. n - d \in 0..(n - 1) /\ n - (n - d) = d
      BY <1>1
    <3> QED
      BY <1>2, <2>9, <3>1
  <2>11. StackOf(t) \in Seq(Pids) /\ Len(StackOf(t)) = n
    <3> HIDE DEF up
    <3>1. \A d \in 1..n : StackOf(t)[d] \in Pids
      BY <2>2, <2>10 DEF At
    <3> QED
      BY <1>1, <1>2, <3>1
  <2> QED
    BY <2>2, <2>10, <2>11 DEF IsStackOf, n
<1> QED
  BY <1>1, <1>3, <1>4

-----------------------------------------------------------------------------
(* What a change of home, depth and total_progs does to the stacks.        *)

Sound == TypeInv /\ FaultInv /\ Towers

\* The stacks that the kernel's data stand for.
Stacks == [t \in Terms |-> StackOf(t)]

\* Whatever has every program at its depth is the stack.
LEMMA StackIs ==
  ASSUME Sound', NEW t \in Terms, NEW s,
         s \in Seq(Pids), Len(s) = total_progs'[t],
         \A d \in 1..Len(s) : home'[s[d]] = t /\ depth'[s[d]] = d
  PROVE  Stacks'[t] = s
<1> DEFINE r == Stacks'[t]
           n == total_progs'[t]
<1>1. /\ r \in Seq(Pids) /\ Len(r) = n
      /\ \A d \in 1..n : home'[r[d]] = t /\ depth'[r[d]] = d
  BY DEF Sound, Towers, Stacks, IsStackOf, At
<1>2. ASSUME NEW d \in 1..n, NEW p \in Pids, NEW q \in Pids,
             home'[p] = t, home'[q] = t, depth'[p] = d, depth'[q] = d
      PROVE  p = q
  <2>1. OnePerLevel'
    BY DEF Sound, FaultInv
  <2>2. d > 0
    BY <1>2
  <2> QED
    BY <1>2, <2>1, <2>2 DEF OnePerLevel, Alive
<1> HIDE DEF r, n
<1>3. \A d \in 1..Len(r) : r[d] = s[d]
  <2> TAKE d \in 1..Len(r)
  <2>1. r[d] \in Pids /\ s[d] \in Pids /\ d \in 1..n /\ d \in 1..Len(s)
    BY <1>1, ElementOfSeq DEF n
  <2> QED
    BY <1>1, <1>2, <2>1
<1>4. r = s
  BY <1>1, <1>3, SeqEqual DEF n
<1> QED
  BY <1>4 DEF r

\* A terminal whose programs stay where they are keeps its stack.
LEMMA StackSame ==
  ASSUME Sound, Sound', NEW t \in Terms, total_progs'[t] = total_progs[t],
         \A p \in Pids : Alive(p) /\ home[p] = t => home'[p] = t /\ depth'[p] = depth[p]
  PROVE  Stacks'[t] = Stacks[t]
<1> DEFINE s == Stacks[t]
<1>1. /\ s \in Seq(Pids) /\ Len(s) = total_progs[t]
      /\ \A d \in 1..Len(s) : At(t, d, s[d])
  BY DEF Sound, Towers, Stacks, IsStackOf
<1> HIDE DEF s
<1>2. ASSUME NEW d \in 1..Len(s) PROVE home'[s[d]] = t /\ depth'[s[d]] = d
  <2>1. At(t, d, s[d]) /\ d > 0
    BY <1>1
  <2> QED
    BY <2>1 DEF At, Alive
<1>3. Stacks'[t] = s
  BY <1>1, <1>2, StackIs
<1> QED
  BY <1>3 DEF s

\* Nor does any stack change when home, depth and total_progs do not.
LEMMA StacksKept ==
  ASSUME Sound, Sound', UNCHANGED <<total_progs, home, depth>>
  PROVE  Stacks' = Stacks
<1>1. \A t \in Terms : Stacks'[t] = Stacks[t]
  BY StackSame
<1>2. Stacks' = [u \in Terms |-> Stacks'[u]]
  BY DEF Stacks
<1>3. Stacks = [u \in Terms |-> Stacks[u]]
  BY DEF Stacks
<1> QED
  BY <1>1, <1>2, <1>3

\* What a stack holds.
LEMMA StackFacts ==
  ASSUME Sound, NEW t \in Terms
  PROVE  /\ Stacks[t] \in Seq(Pids) /\ Len(Stacks[t]) = total_progs[t]
         /\ \A d \in 1..total_progs[t] :
              /\ Stacks[t][d] \in Pids
              /\ home[Stacks[t][d]] = t /\ depth[Stacks[t][d]] = d
              /\ Alive(Stacks[t][d])
BY DEF Sound, Towers, Stacks, IsStackOf, At, Alive

\* Starting p on terminal t puts it on top of t's stack.
LEMMA StackPush ==
  ASSUME Sound, Sound', NEW t \in Terms, NEW p \in Pids, ~Alive(p),
         total_progs' = [total_progs EXCEPT ![t] = total_progs[t] + 1],
         home' = [home EXCEPT ![p] = t],
         depth' = [depth EXCEPT ![p] = total_progs[t] + 1]
  PROVE  Stacks' = [Stacks EXCEPT ![t] = Append(@, p)]
<1> USE ConstantFacts
<1>1. /\ \A r \in Pids : home'[r] = IF r = p THEN t ELSE home[r]
      /\ \A r \in Pids : depth'[r] = IF r = p THEN total_progs[t] + 1 ELSE depth[r]
      /\ \A u \in Terms : total_progs'[u] = IF u = t THEN total_progs[t] + 1 ELSE total_progs[u]
  BY DEF Sound, TypeInv, TypeOK
<1>2. ASSUME NEW u \in Terms, u # t PROVE Stacks'[u] = Stacks[u]
  <2>1. \A r \in Pids : Alive(r) => home'[r] = home[r] /\ depth'[r] = depth[r]
    BY <1>1
  <2> QED
    BY <1>1, <1>2, <2>1, StackSame
<1>3. Stacks'[t] = Append(Stacks[t], p)
  <2> DEFINE s == Stacks[t]
             n == total_progs[t]
             a == Append(s, p)
  <2>1. n \in Nat
    <3>1. TypeInv
      BY DEF Sound
    <3>2. n \in 0..255
      BY <3>1, DepthRange
    <3> QED
      BY <3>2
  <2>2. /\ s \in Seq(Pids) /\ Len(s) = n
        /\ \A d \in 1..n : s[d] \in Pids /\ home[s[d]] = t /\ depth[s[d]] = d /\ Alive(s[d])
    BY StackFacts
  <2> HIDE DEF s
  <2>3. /\ a \in Seq(Pids) /\ Len(a) = n + 1 /\ a[n + 1] = p
        /\ \A d \in 1..n : a[d] = s[d]
    BY <2>1, <2>2, AppendProperties
  <2> HIDE DEF a
  <2>4. \A d \in 1..Len(a) : home'[a[d]] = t /\ depth'[a[d]] = d
    <3> TAKE d \in 1..Len(a)
    <3>1. CASE d = n + 1
      BY <1>1, <2>3, <3>1
    <3>2. CASE d # n + 1
      <4>1. d \in 1..n
        BY <2>1, <2>3, <3>2
      <4>2. s[d] \in Pids /\ s[d] # p /\ home[s[d]] = t /\ depth[s[d]] = d
        BY <2>2, <4>1
      <4> QED
        BY <1>1, <2>3, <4>1, <4>2
    <3> QED
      BY <3>1, <3>2
  <2>5. Len(a) = total_progs'[t]
    BY <1>1, <2>3
  <2>6. Stacks'[t] = a
    BY <2>3, <2>4, <2>5, StackIs
  <2> QED
    BY <2>6 DEF a, s
<1>4. Stacks' = [u \in Terms |-> Stacks'[u]]
  BY DEF Stacks
<1>5. Stacks = [u \in Terms |-> Stacks[u]]
  BY DEF Stacks
<1> QED
  BY <1>2, <1>3, <1>4, <1>5

\* Ending the front program h of terminal t takes it off t's stack.
LEMMA StackPop ==
  ASSUME Sound, Sound', NEW t \in Terms, NEW h \in Pids,
         home[h] = t, depth[h] = total_progs[t], total_progs[t] > 1,
         total_progs' = [total_progs EXCEPT ![t] = total_progs[t] - 1],
         home' = home, depth' = [depth EXCEPT ![h] = 0]
  PROVE  Stacks' = [Stacks EXCEPT ![t] = SubSeq(@, 1, Len(@) - 1)]
<1> USE ConstantFacts
<1>1. /\ \A r \in Pids : depth'[r] = IF r = h THEN 0 ELSE depth[r]
      /\ \A u \in Terms : total_progs'[u] = IF u = t THEN total_progs[t] - 1 ELSE total_progs[u]
  BY DEF Sound, TypeInv, TypeOK
<1>2. ASSUME NEW u \in Terms, u # t PROVE Stacks'[u] = Stacks[u]
  <2>1. \A r \in Pids : Alive(r) /\ home[r] = u => home'[r] = u /\ depth'[r] = depth[r]
    BY <1>1, <1>2
  <2> QED
    BY <1>1, <1>2, <2>1, StackSame
<1>3. Stacks'[t] = SubSeq(Stacks[t], 1, Len(Stacks[t]) - 1)
  <2> DEFINE s == Stacks[t]
             n == total_progs[t]
             a == SubSeq(s, 1, Len(s) - 1)
  <2>1. n \in Nat
    <3>1. TypeInv
      BY DEF Sound
    <3>2. n \in 0..255
      BY <3>1, DepthRange
    <3> QED
      BY <3>2
  <2>2. /\ s \in Seq(Pids) /\ Len(s) = n
        /\ \A d \in 1..n : s[d] \in Pids /\ home[s[d]] = t /\ depth[s[d]] = d
    BY StackFacts
  <2> HIDE DEF s, n
  <2>3. /\ a \in Seq(Pids) /\ Len(a) = n - 1
        /\ \A d \in 1..(n - 1) : a[d] = s[d]
    BY <2>1, <2>2, SubSeqProperties DEF n
  <2> HIDE DEF a
  <2>4. \A d \in 1..Len(a) : home'[a[d]] = t /\ depth'[a[d]] = d
    <3> TAKE d \in 1..Len(a)
    <3>1. d \in 1..n /\ d # n /\ a[d] = s[d]
      BY <2>1, <2>3
    <3>2. s[d] \in Pids /\ s[d] # h /\ home[s[d]] = t /\ depth[s[d]] = d
      BY <2>2, <3>1 DEF n
    <3> QED
      BY <1>1, <3>1, <3>2
  <2>5. Len(a) = total_progs'[t]
    BY <1>1, <2>3 DEF n
  <2>6. Stacks'[t] = a
    BY <2>3, <2>4, <2>5, StackIs
  <2> QED
    BY <2>6 DEF a, s
<1>4. Stacks' = [u \in Terms |-> Stacks'[u]]
  BY DEF Stacks
<1>5. Stacks = [u \in Terms |-> Stacks[u]]
  BY DEF Stacks
<1> QED
  BY <1>2, <1>3, <1>4, <1>5

\* A shell p in place of the only program h of terminal t.
LEMMA StackReplace ==
  ASSUME Sound, Sound', NEW t \in Terms, NEW h \in Pids, NEW p \in Pids,
         home[h] = t, p = h \/ ~Alive(p), total_progs[t] = 1,
         total_progs' = [total_progs EXCEPT ![t] = 1],
         home' = [home EXCEPT ![p] = t],
         depth' = [depth EXCEPT ![h] = 0, ![p] = 1]
  PROVE  Stacks' = [Stacks EXCEPT ![t] = <<p>>]
<1> USE ConstantFacts
<1>1. /\ \A r \in Pids : home'[r] = IF r = p THEN t ELSE home[r]
      /\ \A r \in Pids : depth'[r] = IF r = p THEN 1 ELSE IF r = h THEN 0 ELSE depth[r]
      /\ \A u \in Terms : total_progs'[u] = total_progs[u]
  BY DEF Sound, TypeInv, TypeOK
<1>2. ASSUME NEW u \in Terms, u # t PROVE Stacks'[u] = Stacks[u]
  <2>1. \A r \in Pids : Alive(r) /\ home[r] = u => home'[r] = u /\ depth'[r] = depth[r]
    BY <1>1, <1>2
  <2> QED
    BY <1>1, <1>2, <2>1, StackSame
<1>3. Stacks'[t] = <<p>>
  <2> DEFINE s == <<p>>
  <2>1. s \in Seq(Pids) /\ Len(s) = 1 /\ s[1] = p
    OBVIOUS
  <2> HIDE DEF s
  <2>2. total_progs'[t] = 1 /\ home'[p] = t /\ depth'[p] = 1
    BY <1>1
  <2>3. \A d \in 1..Len(s) : home'[s[d]] = t /\ depth'[s[d]] = d
    BY <2>1, <2>2
  <2>4. Len(s) = total_progs'[t]
    BY <2>1, <2>2
  <2>5. Stacks'[t] = s
    BY <2>1, <2>3, <2>4, StackIs
  <2> QED
    BY <2>5 DEF s
<1>4. Stacks' = [u \in Terms |-> Stacks'[u]]
  BY DEF Stacks
<1>5. Stacks = [u \in Terms |-> Stacks[u]]
  BY DEF Stacks
<1> QED
  BY <1>2, <1>3, <1>4, <1>5

\* A program that is not running is on no stack.
LEMMA DeadIsIdle ==
  ASSUME Sound, NEW p \in Pids, ~Alive(p)
  PROVE  p \in Abstract!Idle
<1>1. ASSUME NEW t \in Terms PROVE p \notin {Stacks[t][i] : i \in 1..Len(Stacks[t])}
  <2>1. \A d \in 1..total_progs[t] : Alive(Stacks[t][d])
    BY StackFacts
  <2>2. Len(Stacks[t]) = total_progs[t]
    BY StackFacts
  <2> QED
    BY <2>1, <2>2
<1> QED
  BY <1>1 DEF Abstract!Idle, Abstract!InStack, Stacks

-----------------------------------------------------------------------------
(* Every step is a step of the stacks.                                     *)

\* The first shell is alone on the first stack.
LEMMA InitMaps == Init /\ Sound => Abstract!StacksInit
<1> SUFFICES ASSUME Init, Sound PROVE Abstract!StacksInit
  OBVIOUS
<1> USE ConstantFacts
<1>1. ASSUME NEW t \in Terms PROVE Stacks[t] = IF t = 0 THEN <<0>> ELSE <<>>
  <2>1. /\ Stacks[t] \in Seq(Pids) /\ Len(Stacks[t]) = total_progs[t]
        /\ \A d \in 1..total_progs[t] : Alive(Stacks[t][d]) /\ Stacks[t][d] \in Pids
    BY StackFacts
  <2>2. total_progs[t] = IF t = 0 THEN 1 ELSE 0
    BY DEF Init
  <2>3. \A p \in Pids : Alive(p) => p = 0
    BY DEF Init, Alive
  <2> DEFINE s == Stacks[t]
  <2> HIDE DEF s
  <2>4. CASE t = 0
    <3>1. total_progs[t] = 1 /\ 1 \in 1..total_progs[t]
      BY <2>2, <2>4
    <3>2. Alive(s[1]) /\ s[1] \in Pids
      BY <2>1, <3>1 DEF s
    <3>3. s \in Seq(Pids) /\ Len(s) = 1 /\ s[1] = 0
      BY <2>1, <2>3, <3>1, <3>2 DEF s
    <3>4. s = <<0>>
      BY <3>3
    <3> QED
      BY <2>4, <3>4 DEF s
  <2>5. CASE t # 0
    <3>1. s \in Seq(Pids) /\ Len(s) = 0
      BY <2>1, <2>2, <2>5 DEF s
    <3>2. s = <<>>
      BY <3>1
    <3> QED
      BY <2>5, <3>2 DEF s
  <2> QED
    BY <2>4, <2>5
<1>2. Stacks = [u \in Terms |-> IF u = 0 THEN <<0>> ELSE <<>>]
  BY <1>1 DEF Stacks
<1>3. 0 \in Terms /\ 0 \in Pids /\ current_term = 0 /\ viewing_term = 0
  BY DEF Init
<1> QED
  BY <1>2, <1>3 DEF Abstract!StacksInit, Stacks

\* execute puts the new program on top of the running one.
LEMMA LaunchMaps ==
  ASSUME Sound, Sound', ExecLaunch
  PROVE  \E p \in Pids : Abstract!Start(p)
<1> DEFINE p == idx[cpu]
           ct == current_term
           n == total_progs[ct]
<1> USE ConstantFacts
<1>1. TypeInv /\ FaultInv
  BY DEF Sound
<1>2. /\ cpu \in Pids /\ ct \in Terms /\ n \in 0..255
  BY <1>1, DepthRange DEF ExecLaunch, Running, TypeInv, TypeOK
<1>3. pc[cpu] = "claimed" /\ p \in Pids /\ Claims(cpu, p)
  BY <1>1, <1>2 DEF ExecLaunch, Running, TypeInv, IdxOK, Claims
<1> HIDE DEF p
<1>4. ~Alive(p)
  BY <1>1, <1>2, <1>3 DEF FaultInv, NoDoubleOwner
<1>5. Inc8(n) = n + 1
  <2>1. n < 255
    BY <1>1, <1>2, ProgramsFinite DEF FaultInv, CountsAgree
  <2> HIDE DEF n
  <2> QED
    BY <1>2, <2>1, Width
<1>6. /\ total_progs' = [total_progs EXCEPT ![ct] = n + 1]
      /\ home' = [home EXCEPT ![p] = ct]
      /\ depth' = [depth EXCEPT ![p] = n + 1]
      /\ UNCHANGED <<current_term, viewing_term>>
  <2>1. /\ Launch(p, n, process_cnt) /\ ct' = ct
        /\ depth' = [depth EXCEPT ![p] = Inc8(n)]
        /\ UNCHANGED <<current_term, viewing_term>>
    BY DEF ExecLaunch, p
  <2> HIDE DEF n
  <2> QED
    BY <1>5, <2>1 DEF Launch
<1>7. Stacks' = [Stacks EXCEPT ![ct] = Append(@, p)]
  BY <1>2, <1>3, <1>4, <1>6, StackPush
<1>8. p \in Abstract!Idle
  BY <1>3, <1>4, DeadIsIdle
<1>9. Abstract!Start(p)
  BY <1>6, <1>7, <1>8 DEF Abstract!Start, Stacks
<1> QED
  BY <1>3, <1>9

\* halt of a program that another one started takes it off its stack.
LEMMA ReturnMaps ==
  ASSUME Sound, Sound', HaltReturn
  PROVE  Abstract!Return
<1> DEFINE h == cpu
           ct == current_term
           n == total_progs[ct]
<1>1. TypeInv /\ FaultInv
  BY DEF Sound
<1>2. /\ h \in Pids /\ h = head /\ Alive(h) /\ home[h] = ct /\ depth[h] = n
      /\ ct \in Terms /\ n \in 0..255 /\ n > 0
  BY <1>1, HaltingHere DEF HaltReturn
<1>3. n > 1 /\ Dec8(n) = n - 1
  <2>1. n > 0 /\ Dec8(n) # 0
    BY <1>2 DEF HaltReturn, ProgsAfterHalt
  <2> HIDE DEF n
  <2>2. Dec8(n) = n - 1
    BY <1>2, <2>1, Width
  <2> QED
    BY <1>2, <2>1, <2>2
<1>4. /\ total_progs' = [total_progs EXCEPT ![ct] = n - 1]
      /\ depth' = [depth EXCEPT ![h] = 0]
      /\ UNCHANGED <<current_term, viewing_term, home>>
  BY <1>2, <1>3 DEF HaltReturn, ProgsAfterHalt
<1>5. Stacks' = [Stacks EXCEPT ![ct] = SubSeq(@, 1, Len(@) - 1)]
  BY <1>2, <1>3, <1>4, StackPop
<1>6. Len(Stacks[ct]) > 1
  BY <1>2, <1>3, StackFacts
<1> QED
  BY <1>4, <1>5, <1>6 DEF Abstract!Return, Stacks

\* halt of the last program of a terminal puts a shell in its place.
LEMMA RestartMaps ==
  ASSUME Sound, Sound', HaltRestart
  PROVE  \E p \in Pids : Abstract!Restart(p)
<1> DEFINE h == cpu
           ct == current_term
           n == total_progs[ct]
<1> USE ConstantFacts
<1>1. TypeInv /\ FaultInv
  BY DEF Sound
<1>2. /\ h \in Pids /\ h = head /\ Alive(h) /\ home[h] = ct /\ depth[h] = n
      /\ ct \in Terms /\ n \in 0..255 /\ n > 0
  BY <1>1, HaltingHere DEF HaltRestart
<1>3. n = 1
  <2>1. n > 0 /\ Dec8(n) = 0
    BY <1>2 DEF HaltRestart, ProgsAfterHalt
  <2> HIDE DEF n
  <2>2. Dec8(n) = n - 1
    <3>1. n \in 0..255
      BY <1>2
    <3>2. n > 0 => Dec8(n) = n - 1
      BY <3>1, Width
    <3> QED
      BY <2>1, <3>2
  <2> QED
    BY <1>2, <2>1, <2>2
<1>4. PICK p \in Pids :
      /\ FirstFree([PCB_in_use EXCEPT ![h] = 0], p)
      /\ Launch(p, 0, Dec8(process_cnt))
      /\ depth' = [depth EXCEPT ![h] = 0, ![p] = 1]
  BY <1>2 DEF HaltRestart, CountAfterHalt
<1>5. UNCHANGED <<current_term, viewing_term>>
  BY DEF HaltRestart
<1>6. /\ total_progs' = [total_progs EXCEPT ![ct] = 1]
      /\ home' = [home EXCEPT ![p] = ct]
  <2>1. Inc8(0) = 1
    BY DEF Inc8
  <2> QED
    BY <1>4, <1>5, <2>1 DEF Launch
<1>7. p = h \/ ~Alive(p)
  <2>1. p = h \/ PCB_in_use[p] = 0
    BY <1>1, <1>2, <1>4 DEF FirstFree, TypeInv, TypeOK
  <2> QED
    BY <1>1, <2>1 DEF FaultInv, ProgramsInStacks
<1>8. Stacks' = [Stacks EXCEPT ![ct] = <<p>>]
  BY <1>2, <1>3, <1>4, <1>6, <1>7, StackReplace
<1>9. /\ Len(Stacks[ct]) = 1 /\ Stacks[ct][1] \in Pids
      /\ home[Stacks[ct][1]] = ct /\ depth[Stacks[ct][1]] = 1
  <2>1. 1 \in 1..total_progs[ct]
    BY <1>3
  <2>2. /\ Len(Stacks[ct]) = total_progs[ct]
        /\ \A d \in 1..total_progs[ct] :
             /\ Stacks[ct][d] \in Pids
             /\ home[Stacks[ct][d]] = ct /\ depth[Stacks[ct][d]] = d
    BY <1>2, StackFacts
  <2> QED
    BY <1>3, <2>1, <2>2
<1>10. Stacks[ct][1] = h
  <2> DEFINE q == Stacks[ct][1]
  <2>1. At(ct, 1, q)
    BY <1>9 DEF At
  <2>2. At(ct, 1, h)
    BY <1>2, <1>3 DEF At
  <2> HIDE DEF q
  <2>3. q = h
    BY <1>1, <2>1, <2>2, LevelUnique
  <2> QED
    BY <2>3 DEF q
<1>11. p \in Abstract!Idle \cup {Stacks[ct][i] : i \in 1..Len(Stacks[ct])}
  <2>1. h \in {Stacks[ct][i] : i \in 1..Len(Stacks[ct])}
    BY <1>9, <1>10
  <2>2. p = h \/ p \in Abstract!Idle
    BY <1>4, <1>7, DeadIsIdle
  <2> QED
    BY <2>1, <2>2
<1>12. Abstract!Restart(p)
  BY <1>5, <1>8, <1>9, <1>11 DEF Abstract!Restart, Abstract!InStack, Stacks
<1> QED
  BY <1>4, <1>12

\* The timer gives the CPU to another terminal that has programs.
LEMMA ScheduleMaps ==
  ASSUME Sound, Sound', PIT
  PROVE  \E t \in Terms : Abstract!Schedule(t)
<1>1. PICK t \in Terms : t # current_term /\ total_progs[t] > 0 /\ current_term' = t
  BY DEF PIT, ScheduledTerm
<1>2. UNCHANGED <<total_progs, home, depth, viewing_term>>
  BY DEF PIT, tables, hist
<1>3. Stacks' = Stacks
  BY <1>2, StacksKept
<1>4. Stacks[t] # <<>>
  BY <1>1, StackFacts
<1>5. Abstract!Schedule(t)
  BY <1>1, <1>2, <1>3, <1>4 DEF Abstract!Schedule, Stacks
<1> QED
  BY <1>1, <1>5

\* terminal_switch to a terminal that has programs.
LEMMA ShowMaps ==
  ASSUME Sound, Sound', NEW t \in Terms, SwitchView(t)
  PROVE  Abstract!Show(t)
<1>1. total_progs[t] # 0 /\ viewing_term' = t /\ total_progs[t] \in 0..255
  BY DepthRange DEF SwitchView, Sound
<1>2. UNCHANGED <<total_progs, home, depth, current_term>>
  BY DEF SwitchView, tables, hist
<1>3. Stacks' = Stacks
  BY <1>2, StacksKept
<1>4. Stacks[t] # <<>>
  BY <1>1, StackFacts
<1> QED
  BY <1>1, <1>2, <1>3, <1>4 DEF Abstract!Show, Stacks

\* terminal_switch to a terminal without programs starts its stack.
LEMMA OpenMaps ==
  ASSUME Sound, Sound', NEW t \in Terms, OpenTerminal(t)
  PROVE  \E p \in Pids : Abstract!Open(t, p)
<1> USE ConstantFacts
<1>1. PICK p \in Pids :
        /\ FirstFree(PCB_in_use, p) /\ Launch(p, 0, process_cnt)
        /\ depth' = [depth EXCEPT ![p] = 1]
  BY DEF OpenTerminal
<1>2. current_term' = t /\ viewing_term' = t /\ total_progs[t] = 0
  BY DEF OpenTerminal
<1>3. /\ total_progs' = [total_progs EXCEPT ![t] = total_progs[t] + 1]
      /\ home' = [home EXCEPT ![p] = t]
      /\ depth' = [depth EXCEPT ![p] = total_progs[t] + 1]
  <2>1. Inc8(0) = 1 /\ total_progs[t] + 1 = 1
    BY <1>2 DEF Inc8
  <2> QED
    BY <1>1, <1>2, <2>1 DEF Launch
<1>4. ~Alive(p)
  BY <1>1 DEF FirstFree, Sound, FaultInv, ProgramsInStacks
<1>5. Stacks' = [Stacks EXCEPT ![t] = Append(@, p)]
  BY <1>1, <1>3, <1>4, StackPush
<1>6. Stacks[t] = <<>>
  <2>1. Stacks[t] \in Seq(Pids) /\ Len(Stacks[t]) = 0
    BY <1>2, StackFacts
  <2> QED
    BY <2>1, EmptySeq
<1>7. Append(Stacks[t], p) = <<p>>
  BY <1>6
<1>8. p \in Abstract!Idle
  BY <1>1, <1>4, DeadIsIdle
<1>9. Abstract!Open(t, p)
  BY <1>2, <1>5, <1>6, <1>7, <1>8 DEF Abstract!Open, Stacks
<1> QED
  BY <1>1, <1>9

\* Every step but "weird error" is a step of the stacks or leaves them alone.
LEMMA StepMaps ==
  ASSUME Sound, Sound', [Next]_vars, \A dest \in Terms : ~(OpenTimely /\ WeirdError(dest))
  PROVE  [Abstract!StacksNext]_Abstract!svars
<1>1. CASE UNCHANGED <<total_progs, home, depth, current_term, viewing_term>>
  <2>1. Stacks' = Stacks
    BY <1>1, StacksKept
  <2> QED
    BY <1>1, <2>1 DEF Abstract!svars, Stacks
<1>2. CASE \/ ExecSyscall \/ PidScan \/ PidClaim \/ ExecBad \/ ExecNull \/ ExecWild
           \/ ExecCorrupt \/ Fault \/ Spin \/ UNCHANGED vars
  <2>1. UNCHANGED <<total_progs, home, depth, current_term, viewing_term>>
    BY <1>2 DEF ExecSyscall, PidScan, PidClaim, ExecBad, ExecNull, ExecWild, ExecCorrupt,
                Fault, Spin, Lose, vars, tables, terms, hist
  <2> QED
    BY <1>1, <2>1
<1>3. CASE ExecLaunch
  BY <1>3, LaunchMaps DEF Abstract!StacksNext
<1>4. CASE HaltRestart
  BY <1>4, RestartMaps DEF Abstract!StacksNext
<1>5. CASE HaltReturn
  BY <1>5, ReturnMaps DEF Abstract!StacksNext
<1>6. CASE PIT
  BY <1>6, ScheduleMaps DEF Abstract!StacksNext
<1>7. ASSUME NEW t \in Terms, SwitchView(t) PROVE Abstract!StacksNext
  BY <1>7, ShowMaps DEF Abstract!StacksNext
<1>8. ASSUME NEW t \in Terms, OpenTerminal(t) PROVE Abstract!StacksNext
  BY <1>8, OpenMaps DEF Abstract!StacksNext
<1> QED
  BY <1>2, <1>3, <1>4, <1>5, <1>6, <1>7, <1>8 DEF Next, Program, Timer, User

LEMMA FaultsMap ==
  Sound /\ Sound' /\ [Next]_vars => [Abstract!StacksNext]_Stacks
<1> SUFFICES ASSUME Sound, Sound', [Next]_vars PROVE [Abstract!StacksNext]_Stacks
  OBVIOUS
<1>1. CASE \E dest \in Terms : OpenTimely /\ WeirdError(dest)
  <2>1. UNCHANGED <<total_progs, home, depth>>
    BY <1>1 DEF WeirdError, tables, hist
  <2> QED
    BY <2>1, StacksKept
<1>2. CASE \A dest \in Terms : ~(OpenTimely /\ WeirdError(dest))
  BY <1>2, StepMaps DEF Abstract!svars, Stacks
<1> QED
  BY <1>1, <1>2

\* execute, halt, the timer and terminal_switch of a timely kernel implement
\* the stacks of programs: a program that ends always gives its terminal back
\* to the one that started it, and a terminal never loses its last program.
THEOREM StacksImplemented == ASSUME Timely PROVE Spec => ImplementsStacks
<1>1. TypeInv /\ FaultInv => Sound
  BY ChainIsStack DEF Sound
<1>2. Init /\ Sound => Abstract!StacksInit
  BY InitMaps
<1>3. TypeInv /\ FaultInv /\ lost = {}
      => \A dest \in Terms : ~(OpenTimely /\ WeirdError(dest))
  BY NotWeird
<1>4. /\ \A dest \in Terms : ~(OpenTimely /\ WeirdError(dest))
      /\ Sound /\ Sound' /\ [Next]_vars
      => [Abstract!StacksNext]_Abstract!svars
  BY StepMaps
<1>5. Spec => [](TypeInv /\ FaultInv /\ lost = {})
  BY TimelyOrderly, NoneLostInvariance
<1> QED
  BY <1>1, <1>2, <1>3, <1>4, <1>5, PTL DEF Spec, ImplementsStacks, Abstract!StacksSpec

\* Whatever commands are rejected or lose a PCB and whatever programs fault, the
\* programs of a terminal change only as ProcStacks says: one is started on top
\* of all, the one on top ends, or the last one is replaced by a shell.
THEOREM StacksSurvive ==
  ASSUME Orderly PROVE Spec => [][Abstract!StacksNext]_Stacks
<1>1. TypeInv /\ FaultInv => Sound
  BY ChainIsStack DEF Sound
<1>2. Sound /\ Sound' /\ [Next]_vars => [Abstract!StacksNext]_Stacks
  BY FaultsMap
<1> QED
  BY <1>1, <1>2, FaultInvariance, PTL DEF Spec
=============================================================================
