------------------------- MODULE SyscallArgsProofs -------------------------
(***************************************************************************)
(* The arguments of programs, for any commands that fit the buffers, any   *)
(* number of terminals and PCBs and any order in which programs start, end *)
(* and are scheduled: parse_args splits a command as its reference does,   *)
(* and getargs returns what the caller was started with.                   *)
(***************************************************************************)
EXTENDS SyscallArgs, SequenceTheorems, WellFoundedInduction, TLAPS

-----------------------------------------------------------------------------
(* The loops of parse_args.                                                *)

\* A set of naturals that is not empty has a least member: where a loop ends.
LEMMA LeastMember ==
  ASSUME NEW S, S \subseteq Nat, S # {}
  PROVE  \E m \in S : \A k \in S : m <= k
<1>1. PICK m \in S : \A k \in S : ~(<<k, m>> \in OpToRel(<, Nat))
  BY NatLessThanWellFounded, WFMin, Zenon
<1>2. \A k \in S : ~(k < m)
  BY <1>1 DEF OpToRel
<1> QED
  BY <1>2

\* What execute may be given.
Given == Commands \cup {Shell}

\* A command has no 0 in it and is shorter than the buffers; a 0 is behind it.
LEMMA CommandFacts ==
  ASSUME NEW c \in Given
  PROVE  /\ c \in Seq(Chars) /\ Len(c) \in Nat /\ Len(c) < ARG_BUF_LIM
         /\ CharAt(c, Len(c)) = NOKE
         /\ \A i \in 0..(Len(c) - 1) :
              CharAt(c, i) = c[i + 1] /\ c[i + 1] \in Chars /\ c[i + 1] # NOKE
         /\ SPACE # NEWLINE /\ SPACE # NOKE /\ NEWLINE # NOKE /\ NOKE \in Chars
<1>1. c \in Seq(Chars \ {NOKE}) /\ Len(c) < ARG_BUF_LIM
  BY ArgsAssumption DEF Given
<1>2. Len(c) \in Nat
  BY <1>1
<1>3. ASSUME NEW i \in 0..(Len(c) - 1)
      PROVE  CharAt(c, i) = c[i + 1] /\ c[i + 1] \in Chars \ {NOKE}
  <2>1. i + 1 \in 1..Len(c) /\ i < Len(c)
    BY <1>2
  <2> QED
    BY <1>1, <2>1, ElementOfSeq DEF CharAt
<1>4. c \in Seq(Chars)
  BY <1>1
<1>5. CharAt(c, Len(c)) = NOKE
  BY <1>2 DEF CharAt
<1>6. SPACE # NEWLINE /\ SPACE # NOKE /\ NEWLINE # NOKE /\ NOKE \in Chars
  BY DEF SPACE, NEWLINE, NOKE, Chars
<1> QED
  BY <1>1, <1>2, <1>3, <1>4, <1>5, <1>6

\* A loop that also stops at the 0 ends at the first place where it may.
LEMMA ScanIs ==
  ASSUME NEW c \in Given, NEW from \in 0..Len(c), NEW stop, NOKE \in stop
  PROVE  /\ Scan(c, from, stop) \in from..Len(c)
         /\ CharAt(c, Scan(c, from, stop)) \in stop
         /\ \A i \in from..(Scan(c, from, stop) - 1) : CharAt(c, i) \notin stop
<1> DEFINE S == {k \in Nat : k \in from..Len(c) /\ CharAt(c, k) \in stop}
           Ends(k) == CharAt(c, k) \in stop /\ \A i \in from..(k - 1) : CharAt(c, i) \notin stop
<1>1. Len(c) \in Nat /\ CharAt(c, Len(c)) \in stop
  BY CommandFacts
<1>2. Len(c) \in S
  BY <1>1
<1>3. PICK m \in S : \A k \in S : m <= k
  BY <1>2, LeastMember
<1>4. \A i \in from..(m - 1) : i \in Nat /\ i \in from..Len(c) /\ ~(m <= i)
  BY <1>1, <1>3
<1>5. m \in from..Len(c) /\ Ends(m)
  BY <1>3, <1>4
<1> HIDE DEF Ends, S
<1>6. Scan(c, from, stop) = CHOOSE k \in from..Len(c) : Ends(k)
  BY DEF Scan, Ends
<1>7. Scan(c, from, stop) \in from..Len(c) /\ Ends(Scan(c, from, stop))
  BY <1>5, <1>6
<1> QED
  BY <1>7 DEF Ends

\* The first line of a command ends at its first line end or where it ends.
LEMMA LineIs ==
  ASSUME NEW c \in Given
  PROVE  LET l == Line(c) IN
         /\ l \in Seq(Chars) /\ Len(l) \in 0..Len(c)
         /\ \A i \in 1..Len(l) : l[i] = c[i] /\ l[i] # NEWLINE
         /\ Len(l) < Len(c) => c[Len(l) + 1] = NEWLINE
<1> DEFINE n == Len(c)
           Prefix(k) == SubSeq(c, 1, k)
           IsLine(l) == /\ \A i \in 1..Len(l) : l[i] # NEWLINE
                        /\ l = c \/ c[Len(l) + 1] = NEWLINE
           m == Scan(c, 0, {NEWLINE, NOKE})
<1>1. /\ c \in Seq(Chars) /\ n \in Nat
      /\ \A i \in 0..(n - 1) : CharAt(c, i) = c[i + 1] /\ c[i + 1] # NOKE
      /\ \A i \in 1..n : c[i] \in Chars
  BY CommandFacts, ElementOfSeq
<1>2. /\ m \in 0..n /\ CharAt(c, m) \in {NEWLINE, NOKE}
      /\ \A i \in 0..(m - 1) : CharAt(c, i) \notin {NEWLINE, NOKE}
  BY <1>1, ScanIs
<1> HIDE DEF m
<1>3. ASSUME NEW k \in 0..n
      PROVE  /\ Prefix(k) \in Seq(Chars) /\ Len(Prefix(k)) = k
             /\ \A i \in 1..k : Prefix(k)[i] = c[i]
  <2>1. \A i \in 1..k : c[i] \in Chars
    BY <1>1
  <2> QED
    BY <2>1, SubSeqProperties
<1>4. Prefix(n) = c
  BY <1>1, <1>3, SeqEqual
<1>5. \A i \in 1..m : c[i] # NEWLINE
  <2> TAKE i \in 1..m
  <2>1. i - 1 \in 0..(m - 1) /\ i - 1 \in 0..(n - 1) /\ (i - 1) + 1 = i
    BY <1>1, <1>2
  <2>2. CharAt(c, i - 1) = c[(i - 1) + 1] /\ CharAt(c, i - 1) # NEWLINE
    BY <1>1, <1>2, <2>1
  <2> QED
    BY <2>1, <2>2
<1>6. m < n => c[m + 1] = NEWLINE
  BY <1>1, <1>2
<1> HIDE DEF Prefix
<1>7. IsLine(Prefix(m))
  <2>1. Len(Prefix(m)) = m /\ \A i \in 1..m : Prefix(m)[i] = c[i]
    BY <1>2, <1>3
  <2>2. Prefix(m) = c \/ c[m + 1] = NEWLINE
    BY <1>1, <1>2, <1>4, <1>6
  <2> QED
    BY <1>5, <2>1, <2>2
<1>8. Line(c) = CHOOSE l \in {Prefix(k) : k \in 0..n} : IsLine(l)
  BY DEF Line, Prefix
<1> HIDE DEF IsLine
<1>9. Line(c) \in {Prefix(k) : k \in 0..n} /\ IsLine(Line(c))
  BY <1>2, <1>7, <1>8
<1>10. PICK k \in 0..n : Line(c) = Prefix(k)
  BY <1>9
<1>11. /\ Line(c) \in Seq(Chars) /\ Len(Line(c)) = k
       /\ \A i \in 1..k : Line(c)[i] = c[i]
  BY <1>3, <1>10
<1>12. Line(c) = c => k = n
  BY <1>11
<1> QED
  BY <1>9, <1>11, <1>12 DEF IsLine

\* Line l consists of s blanks, a word up to e, blanks up to r, and the rest.
Parts(l, s, e, r) ==
  /\ s \in 0..Len(l) /\ e \in s..Len(l) /\ r \in e..Len(l)
  /\ \A i \in 1..s : l[i] = SPACE
  /\ \A i \in (s + 1)..e : l[i] # SPACE
  /\ \A i \in (e + 1)..r : l[i] = SPACE
  /\ s < Len(l) => l[s + 1] # SPACE
  /\ e < Len(l) => l[e + 1] = SPACE
  /\ r < Len(l) => l[r + 1] # SPACE

\* parse_args finds these parts of the first line.
LEMMA ParseIs ==
  ASSUME NEW c \in Given
  PROVE  \E s, e, r \in Nat :
           /\ Parts(Line(c), s, e, r)
           /\ ParseArgs(c).filename = SubSeq(c, s + 1, e)
           /\ ParseArgs(c).args = SubSeq(c, r + 1, Len(Line(c)))
<1> DEFINE n == Len(c)
           m == Len(Line(c))
           s == Scan(c, 0, Chars \ {SPACE})
           e == Scan(c, s, {SPACE, NEWLINE, NOKE})
           r == Scan(c, e, Chars \ {SPACE})
           z == Scan(c, r, {NEWLINE, NOKE})
<1>1. /\ n \in Nat /\ CharAt(c, n) = NOKE
      /\ \A i \in 0..(n - 1) :
           CharAt(c, i) = c[i + 1] /\ c[i + 1] \in Chars /\ c[i + 1] # NOKE
      /\ SPACE # NEWLINE /\ SPACE # NOKE /\ NEWLINE # NOKE /\ NOKE \in Chars
  BY CommandFacts
<1>2. /\ m \in 0..n /\ \A i \in 1..m : Line(c)[i] = c[i] /\ Line(c)[i] # NEWLINE
      /\ m < n => c[m + 1] = NEWLINE
  BY LineIs
<1>3. \A i \in 0..n : CharAt(c, i) \in Chars
  BY <1>1
<1>4. \A i \in 0..(m - 1) :
        CharAt(c, i) = Line(c)[i + 1] /\ CharAt(c, i) \notin {NEWLINE, NOKE}
  <2> TAKE i \in 0..(m - 1)
  <2>1. i \in 0..(n - 1) /\ i + 1 \in 1..m
    BY <1>1, <1>2
  <2> QED
    BY <1>1, <1>2, <2>1
<1>5. CharAt(c, m) \in {NEWLINE, NOKE}
  BY <1>1, <1>2
<1> HIDE DEF m
<1>6. /\ s \in 0..n /\ CharAt(c, s) \in Chars \ {SPACE}
      /\ \A i \in 0..(s - 1) : CharAt(c, i) \notin Chars \ {SPACE}
  BY <1>1, ScanIs
<1> HIDE DEF s
<1>7. /\ e \in s..n /\ CharAt(c, e) \in {SPACE, NEWLINE, NOKE}
      /\ \A i \in s..(e - 1) : CharAt(c, i) \notin {SPACE, NEWLINE, NOKE}
  BY <1>6, ScanIs
<1> HIDE DEF e
<1>8. /\ r \in e..n /\ CharAt(c, r) \in Chars \ {SPACE}
      /\ \A i \in e..(r - 1) : CharAt(c, i) \notin Chars \ {SPACE}
  <2>1. e \in 0..n
    BY <1>1, <1>6, <1>7
  <2> QED
    BY <1>1, <2>1, ScanIs
<1> HIDE DEF r
<1>9. /\ z \in r..n /\ CharAt(c, z) \in {NEWLINE, NOKE}
      /\ \A i \in r..(z - 1) : CharAt(c, i) \notin {NEWLINE, NOKE}
  <2>1. r \in 0..n
    BY <1>1, <1>6, <1>7, <1>8
  <2> QED
    BY <1>1, <2>1, ScanIs
<1> HIDE DEF z
<1>10. s <= m
  BY <1>1, <1>2, <1>3, <1>5, <1>6
<1>11. e <= m
  BY <1>1, <1>2, <1>5, <1>6, <1>7, <1>10
<1>12. r <= m
  BY <1>1, <1>2, <1>3, <1>5, <1>6, <1>7, <1>8, <1>11
<1>13. z = m
  <2>1. ~(m < z)
    BY <1>1, <1>2, <1>5, <1>6, <1>7, <1>8, <1>9, <1>12
  <2>2. ~(z < m)
    BY <1>1, <1>2, <1>4, <1>6, <1>7, <1>8, <1>9
  <2> QED
    BY <1>1, <1>2, <1>6, <1>7, <1>8, <1>9, <2>1, <2>2
<1>14. ASSUME NEW i \in 1..m
       PROVE  /\ i - 1 \in 0..n /\ i - 1 \in 0..(m - 1)
              /\ CharAt(c, i - 1) = Line(c)[i] /\ CharAt(c, i - 1) \in Chars
  <2>1. i - 1 \in 0..n /\ i - 1 \in 0..(m - 1) /\ (i - 1) + 1 = i
    BY <1>1, <1>2
  <2> QED
    BY <1>3, <1>4, <2>1
<1>15. Parts(Line(c), s, e, r)
  <2>1. s \in 0..m /\ e \in s..m /\ r \in e..m
    BY <1>1, <1>2, <1>6, <1>7, <1>8, <1>10, <1>11, <1>12
  <2>2. ASSUME NEW i \in 1..s PROVE Line(c)[i] = SPACE
    <3>1. i \in 1..m /\ i - 1 \in 0..(s - 1)
      BY <1>2, <2>1
    <3> QED
      BY <1>6, <1>14, <3>1
  <2>3. ASSUME NEW i \in (s + 1)..e PROVE Line(c)[i] # SPACE
    <3>1. i \in 1..m /\ i - 1 \in s..(e - 1)
      BY <1>2, <2>1
    <3> QED
      BY <1>7, <1>14, <3>1
  <2>4. ASSUME NEW i \in (e + 1)..r PROVE Line(c)[i] = SPACE
    <3>1. i \in 1..m /\ i - 1 \in e..(r - 1)
      BY <1>2, <2>1
    <3> QED
      BY <1>8, <1>14, <3>1
  <2>5. s < m => Line(c)[s + 1] # SPACE
    <3>1. s < m => s + 1 \in 1..m /\ (s + 1) - 1 = s
      BY <1>2, <2>1
    <3> QED
      BY <1>6, <1>14, <3>1
  <2>6. e < m => Line(c)[e + 1] = SPACE
    <3>1. e < m => e + 1 \in 1..m /\ (e + 1) - 1 = e /\ e \in 0..(m - 1)
      BY <1>2, <2>1
    <3> QED
      BY <1>4, <1>7, <1>14, <3>1
  <2>7. r < m => Line(c)[r + 1] # SPACE
    <3>1. r < m => r + 1 \in 1..m /\ (r + 1) - 1 = r
      BY <1>2, <2>1
    <3> QED
      BY <1>8, <1>14, <3>1
  <2> QED
    BY <2>1, <2>2, <2>3, <2>4, <2>5, <2>6, <2>7 DEF Parts, m
<1>16. /\ ParseArgs(c).filename = SubSeq(c, s + 1, e)
       /\ ParseArgs(c).args = SubSeq(c, r + 1, m)
  <2>1. PICK f, a : f = SubSeq(c, s + 1, e) /\ a = SubSeq(c, r + 1, z)
    OBVIOUS
  <2>2. ParseArgs(c) = [filename |-> f, args |-> a]
    BY <2>1 DEF ParseArgs, s, e, r, z
  <2>3. ParseArgs(c).filename = f /\ ParseArgs(c).args = a
    BY <2>2
  <2> QED
    BY <1>13, <2>1, <2>3, Zenon
<1> QED
  BY <1>1, <1>6, <1>7, <1>8, <1>15, <1>16 DEF m

-----------------------------------------------------------------------------
(* What parse_args finds is what the reference says.                       *)

\* w is what command c, or its first line, holds behind place i up to place j.
CutOf(c, w, i, j) ==
  /\ i \in Nat /\ j \in Nat /\ i <= j /\ j <= Len(Line(c))
  /\ w = SubSeq(Line(c), i + 1, j) \/ w = SubSeq(c, i + 1, j)

\* What such a part is.
PartOf(c, w, i, j) ==
  /\ w \in Seq(Chars) /\ Len(w) = j - i
  /\ w = SubSeq(Line(c), i + 1, j) /\ w = SubSeq(c, i + 1, j)
  /\ \A k \in 1..(j - i) : w[k] = Line(c)[i + k]

\* The word and the rest of a line, as sequences.
LEMMA PartsAre ==
  ASSUME NEW c \in Given, NEW w, NEW i, NEW j, CutOf(c, w, i, j)
  PROVE  PartOf(c, w, i, j)
<1>0. /\ i \in Nat /\ j \in Nat /\ i <= j /\ j <= Len(Line(c))
      /\ w = SubSeq(Line(c), i + 1, j) \/ w = SubSeq(c, i + 1, j)
  BY DEF CutOf
<1> DEFINE l == Line(c)
<1>1. /\ l \in Seq(Chars) /\ Len(l) \in Nat
      /\ \A k \in 1..Len(l) : l[k] = c[k]
  <2>1. l \in Seq(Chars) /\ \A k \in 1..Len(l) : l[k] = c[k]
    BY LineIs
  <2> QED
    BY <2>1
<1> HIDE DEF l
<1>2. \A k \in (i + 1)..j : k \in 1..Len(l) /\ l[k] \in Chars /\ c[k] \in Chars
  <2> TAKE k \in (i + 1)..j
  <2>1. k \in 1..Len(l)
    BY <1>0, <1>1 DEF l
  <2> QED
    BY <1>1, <2>1, ElementOfSeq
<1>3. \A k \in 1..(j - i) : i + k \in (i + 1)..j /\ (i + 1) + k - 1 = i + k
  BY <1>0
<1>4. i + 1 \in Int /\ j \in Int /\ j - (i + 1) + 1 = j - i
      /\ (IF i + 1 <= j THEN j - (i + 1) + 1 ELSE 0) = j - i
  BY <1>0
<1>5. /\ SubSeq(l, i + 1, j) \in Seq(Chars) /\ Len(SubSeq(l, i + 1, j)) = j - i
      /\ \A k \in 1..(j - i) : SubSeq(l, i + 1, j)[k] = l[i + k]
  BY <1>2, <1>3, <1>4, SubSeqProperties
<1>6. /\ SubSeq(c, i + 1, j) \in Seq(Chars) /\ Len(SubSeq(c, i + 1, j)) = j - i
      /\ \A k \in 1..(j - i) : SubSeq(c, i + 1, j)[k] = c[i + k]
  BY <1>2, <1>3, <1>4, SubSeqProperties
<1>7. \A k \in 1..(j - i) : SubSeq(c, i + 1, j)[k] = SubSeq(l, i + 1, j)[k]
  BY <1>1, <1>2, <1>3, <1>5, <1>6
<1>8. SubSeq(c, i + 1, j) = SubSeq(l, i + 1, j)
  BY <1>5, <1>6, <1>7, SeqEqual
<1> QED
  BY <1>0, <1>5, <1>6, <1>8 DEF PartOf, l

\* A command whose word is not empty can be split in one way, and that is what
\* parse_args finds.
LEMMA SplitIsParse ==
  ASSUME NEW c \in Given, NEW name, NEW a, Splits(c, name, a), name # <<>>
  PROVE  name = ParseArgs(c).filename /\ a = ParseArgs(c).args
<1> DEFINE l == Line(c)
           m == Len(l)
<1>1. PICK s, e, r \in Nat :
        /\ Parts(l, s, e, r)
        /\ ParseArgs(c).filename = SubSeq(c, s + 1, e)
        /\ ParseArgs(c).args = SubSeq(c, r + 1, m)
  BY ParseIs
<1> DEFINE Cut(i, j, k) ==
             /\ Blank(l, 1, i) /\ name = SubSeq(l, i + 1, j)
             /\ Blank(l, j + 1, k) /\ a = SubSeq(l, k + 1, m)
             /\ \A n \in 1..Len(name) : name[n] # SPACE
             /\ a # <<>> => a[1] # SPACE /\ j < k
<1>2. \E i \in 0..m : \E j \in i..m : \E k \in j..m : Cut(i, j, k)
  BY DEF Splits
<1> HIDE DEF Cut
<1>3. PICK i \in 0..m : \E j \in i..m : \E k \in j..m : Cut(i, j, k)
  BY <1>2
<1>4. PICK j \in i..m : \E k \in j..m : Cut(i, j, k)
  BY <1>3
<1>5. PICK k \in j..m : Cut(i, j, k)
  BY <1>4
<1>6. /\ Blank(l, 1, i) /\ name = SubSeq(l, i + 1, j)
      /\ Blank(l, j + 1, k) /\ a = SubSeq(l, k + 1, m)
      /\ \A n \in 1..Len(name) : name[n] # SPACE
      /\ a # <<>> => a[1] # SPACE /\ j < k
  BY <1>5 DEF Cut
<1>7. m \in Nat
  BY LineIs
<1>8. i \in Nat /\ j \in Nat /\ k \in Nat /\ i <= j /\ j <= k /\ k <= m
  BY <1>3, <1>4, <1>5, <1>7
<1>9. /\ s <= e /\ e <= r /\ r <= m
      /\ \A n \in 1..s : l[n] = SPACE
      /\ \A n \in (s + 1)..e : l[n] # SPACE
      /\ \A n \in (e + 1)..r : l[n] = SPACE
      /\ s < m => l[s + 1] # SPACE
      /\ e < m => l[e + 1] = SPACE
      /\ r < m => l[r + 1] # SPACE
  BY <1>1, <1>7 DEF Parts
<1>10. /\ Len(name) = j - i /\ \A n \in 1..(j - i) : name[n] = l[i + n]
      /\ SubSeq(c, i + 1, j) = name /\ name \in Seq(Chars)
  <2>1. i \in Nat /\ j \in Nat /\ i <= j /\ j <= Len(Line(c))
    BY <1>7, <1>8
  <2>2. name = SubSeq(Line(c), i + 1, j)
    BY <1>6
  <2>3. CutOf(c, name, i, j)
    BY <2>1, <2>2 DEF CutOf
  <2>4. PartOf(c, name, i, j)
    BY <2>3, PartsAre
  <2> QED
    BY <2>4 DEF PartOf
<1>11. /\ Len(a) = m - k /\ \A n \in 1..(m - k) : a[n] = l[k + n]
      /\ SubSeq(c, k + 1, m) = a /\ a \in Seq(Chars)
  <2>1. k \in Nat /\ m \in Nat /\ k <= m /\ m <= Len(Line(c))
    BY <1>7, <1>8
  <2>2. a = SubSeq(Line(c), k + 1, m)
    BY <1>6
  <2>3. CutOf(c, a, k, m)
    BY <2>1, <2>2 DEF CutOf
  <2>4. PartOf(c, a, k, m)
    BY <2>3, PartsAre
  <2> QED
    BY <2>4 DEF PartOf
<1>12. /\ \A n \in 1..i : l[n] = SPACE
      /\ \A n \in (j + 1)..k : l[n] = SPACE
  BY <1>6 DEF Blank
<1> HIDE DEF l, m
<1>13. i < j
  <2>1. Len(name) # 0
    BY <1>10
  <2> QED
    BY <1>8, <1>10, <2>1
<1>14. \A n \in (i + 1)..j : l[n] # SPACE
  <2> TAKE n \in (i + 1)..j
  <2>1. n - i \in 1..(j - i) /\ i + (n - i) = n
    BY <1>8
  <2> QED
    BY <1>6, <1>10, <2>1
<1>15. i = s
  <2>1. ~(i < s)
    <3> SUFFICES ASSUME i < s PROVE FALSE
      OBVIOUS
    <3>1. i + 1 \in 1..s /\ i + 1 \in (i + 1)..j
      BY <1>8, <1>13
    <3> QED
      BY <1>9, <1>14, <3>1
  <2>2. ~(s < i)
    <3> SUFFICES ASSUME s < i PROVE FALSE
      OBVIOUS
    <3>1. s + 1 \in 1..i /\ s < m
      BY <1>7, <1>8
    <3> QED
      BY <1>9, <1>12, <3>1
  <2> QED
    BY <1>8, <2>1, <2>2
<1>16. a # <<>> <=> k < m
  BY <1>7, <1>8, <1>11
<1>17. j = e
  <2>1. ~(e < j)
    <3> SUFFICES ASSUME e < j PROVE FALSE
      OBVIOUS
    <3>1. e + 1 \in (i + 1)..j /\ e < m
      BY <1>7, <1>8, <1>9, <1>15
    <3> QED
      BY <1>9, <1>14, <3>1
  <2>2. ~(j < e)
    <3> SUFFICES ASSUME j < e PROVE FALSE
      OBVIOUS
    <3>1. j + 1 \in (s + 1)..e
      BY <1>8, <1>13, <1>15
    <3>2. l[j + 1] # SPACE
      BY <1>9, <3>1
    <3>3. ~(j < k)
      <4>1. j < k => j + 1 \in (j + 1)..k
        BY <1>8
      <4> QED
        BY <1>12, <3>2, <4>1
    <3>4. k < m
      BY <1>7, <1>8, <1>9, <3>3
    <3> QED
      BY <1>6, <1>16, <3>3, <3>4
  <2> QED
    BY <1>8, <2>1, <2>2
<1>18. k = r
  <2>1. ~(k < r)
    <3> SUFFICES ASSUME k < r PROVE FALSE
      OBVIOUS
    <3>1. k < m /\ k + 1 \in (e + 1)..r /\ 1 \in 1..(m - k)
      BY <1>7, <1>8, <1>9, <1>17
    <3>2. a[1] = l[k + 1] /\ a[1] # SPACE
      BY <1>6, <1>11, <1>16, <3>1
    <3> QED
      BY <1>9, <3>1, <3>2
  <2>2. ~(r < k)
    <3> SUFFICES ASSUME r < k PROVE FALSE
      OBVIOUS
    <3>1. r < m /\ r + 1 \in (j + 1)..k
      BY <1>7, <1>8, <1>9, <1>17
    <3> QED
      BY <1>9, <1>12, <3>1
  <2> QED
    BY <1>8, <2>1, <2>2
<1> QED
  BY <1>1, <1>10, <1>11, <1>15, <1>17, <1>18

\* A command with a word can be split, and its rest is a tail of its line.
LEMMA ParseSplits ==
  ASSUME NEW c \in Given, ParseArgs(c).filename # <<>>
  PROVE  /\ Splits(c, ParseArgs(c).filename, ParseArgs(c).args)
         /\ ParseArgs(c).args \in Tails(Line(c))
<1> DEFINE l == Line(c)
           m == Len(l)
<1>1. PICK name, a : name = ParseArgs(c).filename /\ a = ParseArgs(c).args
  OBVIOUS
<1>2. PICK s, e, r \in Nat :
        Parts(l, s, e, r) /\ name = SubSeq(c, s + 1, e) /\ a = SubSeq(c, r + 1, m)
  BY <1>1, ParseIs
<1>3. m \in Nat
  BY LineIs
<1>4. /\ s <= e /\ e <= r /\ r <= m
      /\ \A n \in 1..s : l[n] = SPACE
      /\ \A n \in (s + 1)..e : l[n] # SPACE
      /\ \A n \in (e + 1)..r : l[n] = SPACE
      /\ e < m => l[e + 1] = SPACE
      /\ r < m => l[r + 1] # SPACE
  BY <1>2, <1>3 DEF Parts
<1>5. /\ name = SubSeq(l, s + 1, e) /\ name \in Seq(Chars) /\ Len(name) = e - s
      /\ \A n \in 1..(e - s) : name[n] = l[s + n]
  <2>1. s \in Nat /\ e \in Nat /\ s <= e /\ e <= Len(Line(c))
    BY <1>3, <1>4
  <2>2. name = SubSeq(c, s + 1, e)
    BY <1>2
  <2>3. CutOf(c, name, s, e)
    BY <2>1, <2>2 DEF CutOf
  <2>4. PartOf(c, name, s, e)
    BY <2>3, PartsAre
  <2> QED
    BY <2>4 DEF PartOf
<1>6. /\ a = SubSeq(l, r + 1, m) /\ a \in Seq(Chars) /\ Len(a) = m - r
      /\ \A n \in 1..(m - r) : a[n] = l[r + n]
  <2>1. r \in Nat /\ m \in Nat /\ r <= m /\ m <= Len(Line(c))
    BY <1>3, <1>4
  <2>2. a = SubSeq(c, r + 1, m)
    BY <1>2
  <2>3. CutOf(c, a, r, m)
    BY <2>1, <2>2 DEF CutOf
  <2>4. PartOf(c, a, r, m)
    BY <2>3, PartsAre
  <2> QED
    BY <2>4 DEF PartOf
<1>7. name # <<>>
  BY <1>1
<1>8. \A n \in 1..Len(name) : name[n] # SPACE
  <2> TAKE n \in 1..Len(name)
  <2>1. n \in 1..(e - s) /\ s + n \in (s + 1)..e
    BY <1>4, <1>5
  <2> QED
    BY <1>4, <1>5, <2>1
<1>9. a # <<>> => a[1] # SPACE /\ e < r
  <2> SUFFICES ASSUME a # <<>> PROVE a[1] # SPACE /\ e < r
    OBVIOUS
  <2>1. r < m /\ 1 \in 1..(m - r)
    BY <1>3, <1>4, <1>6
  <2>2. a[1] # SPACE
    BY <1>4, <1>6, <2>1
  <2>3. e # r
    BY <1>4, <2>1
  <2> QED
    BY <1>4, <2>2, <2>3
<1>10. Blank(l, 1, s) /\ Blank(l, e + 1, r)
  BY <1>4 DEF Blank
<1>11. s \in 0..m /\ e \in s..m /\ r \in e..m /\ r + 1 \in 1..(m + 1)
  BY <1>3, <1>4
<1> HIDE DEF l, m
<1>12. Splits(c, name, a)
  BY <1>5, <1>6, <1>7, <1>8, <1>9, <1>10, <1>11 DEF Splits, l, m
<1>13. a \in Tails(l)
  BY <1>6, <1>11 DEF Tails, l, m
<1> QED
  BY <1>1, <1>12, <1>13 DEF l

\* execute accepts a command just when its first word is the name of an executable
\* file, whatever blanks and line ends are around it (parse_args, execute).  That a
\* PCB is all it needs besides is FirstWordStarts.
THEOREM FirstWordFound ==
  \A c \in Commands : Found(ParseArgs(c).filename) <=> c \in Startable
<1> TAKE c \in Commands
<1>1. c \in Given
  BY DEF Given
<1>2. PICK name, a : name = ParseArgs(c).filename /\ a = ParseArgs(c).args
  OBVIOUS
<1>3. ASSUME Found(name) PROVE c \in Startable
  <2>1. name \in Executables /\ Len(name) \in 1..NAMELEN
    BY <1>3 DEF Found
  <2>2. name # <<>>
    <3>1. ~(0 \in 1..NAMELEN) /\ Len(<<>>) = 0
      BY ArgsAssumption
    <3> QED
      BY <2>1, <3>1
  <2>3. Splits(c, name, a) /\ a \in Tails(Line(c))
    BY <1>1, <1>2, <2>2, ParseSplits
  <2> QED
    BY <2>1, <2>3 DEF Startable
<1>4. ASSUME c \in Startable PROVE Found(name)
  <2>1. PICK word \in Executables, rest \in Tails(Line(c)) : Splits(c, word, rest)
    BY <1>4 DEF Startable
  <2>2. Len(word) \in 1..NAMELEN
    BY ArgsAssumption
  <2>3. word # <<>>
    <3>1. ~(0 \in 1..NAMELEN) /\ Len(<<>>) = 0
      BY ArgsAssumption
    <3> QED
      BY <2>2, <3>1
  <2>4. word = name
    BY <1>1, <1>2, <2>1, <2>3, SplitIsParse
  <2> QED
    BY <2>2, <2>4 DEF Found
<1> QED
  BY <1>2, <1>3, <1>4

-----------------------------------------------------------------------------
(* The invariant.                                                          *)

\* A PCB belongs to one place of one terminal's stack.
OnePlace ==
  \A t, u \in Terminals : \A i \in 1..Len(stacks[t]), j \in 1..Len(stacks[u]) :
    stacks[t][i] = stacks[u][j] => t = u /\ i = j

StackInv ==
  /\ stacks \in [Terminals -> Seq(Programs)]
  /\ running \in Terminals /\ stacks[running] # <<>>
  /\ OnePlace

\* The programs that have not ended.
Busy == {p \in Programs : Running(p)}

\* Buffer buf holds string s.
Holds(buf, s) == buf[Len(s)] = NOKE /\ \A i \in 0..(Len(s) - 1) : buf[i] = s[i + 1]

\* Every program has in its PCB what parse_args found in its command.
HasOwn ==
  \A p \in Busy :
    /\ given[p] \in Given
    /\ image[p] = ParseArgs(given[p]).filename /\ image[p] \in Executables
    /\ Holds(args[p], ParseArgs(given[p]).args)

ArgsInv == TypeOK /\ StackInv /\ HasOwn

-----------------------------------------------------------------------------
(* Strings.                                                                *)

\* The arguments of a command fit the buffer of the PCB and have no 0 in them.
LEMMA ArgsFit ==
  ASSUME NEW c \in Given, NEW a, a = ParseArgs(c).args
  PROVE  /\ a \in Seq(Chars) /\ Len(a) \in Slots
         /\ \A i \in 1..Len(a) : a[i] # NOKE
<1>1. PICK s, e, r \in Nat :
        Parts(Line(c), s, e, r) /\ a = SubSeq(c, r + 1, Len(Line(c)))
  BY ParseIs
<1>2. PICK m : m = Len(Line(c))
  OBVIOUS
<1>3. /\ m \in Nat /\ m <= Len(c) /\ Len(c) \in Nat /\ Len(c) < ARG_BUF_LIM
      /\ \A i \in 1..m : Line(c)[i] = c[i]
  <2>1. Len(c) \in Nat /\ Len(c) < ARG_BUF_LIM
    BY CommandFacts
  <2>2. m \in 0..Len(c) /\ \A i \in 1..m : Line(c)[i] = c[i]
    BY <1>2, LineIs
  <2> QED
    BY <2>1, <2>2
<1>4. r \in Nat /\ r <= m
  BY <1>1, <1>2, <1>3 DEF Parts
<1>5. CutOf(c, a, r, m)
  BY <1>1, <1>2, <1>3, <1>4 DEF CutOf
<1>6. PartOf(c, a, r, m)
  BY <1>5, PartsAre
<1>7. /\ a \in Seq(Chars) /\ Len(a) = m - r
      /\ \A i \in 1..(m - r) : a[i] = Line(c)[r + i]
  BY <1>6 DEF PartOf
<1>8. Len(a) \in Slots
  BY <1>3, <1>4, <1>7, ArgsAssumption DEF Slots
<1>9. ASSUME NEW i \in 1..Len(a) PROVE a[i] # NOKE
  <2>1. PICK n : n = r + i
    OBVIOUS
  <2>2. n \in 1..m /\ n - 1 \in 0..(Len(c) - 1) /\ (n - 1) + 1 = n
    BY <1>3, <1>4, <1>7, <2>1
  <2>3. c[n] # NOKE
    BY <2>2, CommandFacts
  <2> QED
    BY <1>3, <1>7, <2>1, <2>2, <2>3
<1> QED
  BY <1>7, <1>8, <1>9

\* strcpy leaves the string in the buffer.
LEMMA StrcpyHolds ==
  ASSUME NEW buf \in [Slots -> Chars], NEW s \in Seq(Chars), Len(s) \in Slots
  PROVE  Strcpy(buf, s) \in [Slots -> Chars] /\ Holds(Strcpy(buf, s), s)
<1>1. Len(s) \in Nat /\ NOKE \in Chars /\ ARG_BUF_LIM \in Nat
  BY ArgsAssumption DEF Chars
<1>2. ASSUME NEW i \in Slots, i < Len(s) PROVE s[i + 1] \in Chars
  <2>1. i + 1 \in 1..Len(s)
    BY <1>1, <1>2 DEF Slots
  <2> QED
    BY <2>1, ElementOfSeq
<1>3. Strcpy(buf, s) \in [Slots -> Chars]
  BY <1>1, <1>2 DEF Strcpy
<1>4. Strcpy(buf, s)[Len(s)] = NOKE
  BY <1>1 DEF Strcpy
<1>5. ASSUME NEW i \in 0..(Len(s) - 1) PROVE Strcpy(buf, s)[i] = s[i + 1]
  <2>1. i \in Slots /\ i < Len(s)
    BY <1>1 DEF Slots
  <2> QED
    BY <2>1 DEF Strcpy
<1> QED
  BY <1>3, <1>4, <1>5 DEF Holds

\* strlen finds the end of the string.
LEMMA StrlenIs ==
  ASSUME NEW buf \in [Slots -> Chars], NEW s \in Seq(Chars), Len(s) \in Slots,
         Holds(buf, s), \A i \in 1..Len(s) : s[i] # NOKE
  PROVE  Strlen(buf) = Len(s)
<1> DEFINE Ends(n) == buf[n] = NOKE /\ \A i \in 0..(n - 1) : buf[i] # NOKE
<1>1. Len(s) \in Nat /\ ARG_BUF_LIM \in Nat
  BY ArgsAssumption
<1>2. /\ buf[Len(s)] = NOKE /\ \A i \in 0..(Len(s) - 1) : buf[i] # NOKE
  <2>1. \A i \in 0..(Len(s) - 1) : i + 1 \in 1..Len(s)
    BY <1>1
  <2> QED
    BY <2>1 DEF Holds
<1>3. \A n \in Slots : Ends(n) => n = Len(s)
  BY <1>1, <1>2 DEF Slots
<1>4. Ends(Len(s))
  BY <1>2
<1> HIDE DEF Ends
<1>5. Strlen(buf) = CHOOSE n \in Slots : Ends(n)
  BY DEF Strlen, Ends
<1> QED
  BY <1>3, <1>4, <1>5

\* The command "shell" is its own first word, and has no arguments.
LEMMA ShellIs ==
  ParseArgs(Shell).filename = Shell /\ ParseArgs(Shell).args = <<>>
<1>1. PICK l, n : l = Line(Shell) /\ n = Len(Shell)
  OBVIOUS
<1>2. Shell \in Given /\ Shell \in Seq(Letters) /\ SPACE \notin Letters /\ NEWLINE \notin Letters
  BY ArgsAssumption DEF Given
<1>3. /\ n \in Nat /\ \A i \in 1..n : Shell[i] \in Letters
  BY <1>1, <1>2, ElementOfSeq
<1>4. /\ Len(l) \in 0..n /\ \A i \in 1..Len(l) : l[i] = Shell[i]
      /\ Len(l) < n => Shell[Len(l) + 1] = NEWLINE
  BY <1>1, <1>2, LineIs
<1>5. Len(l) = n
  <2>1. Len(l) < n => Len(l) + 1 \in 1..n
    BY <1>3, <1>4
  <2> QED
    BY <1>2, <1>3, <1>4, <2>1
<1>6. \A i \in 1..n : l[i] # SPACE
  BY <1>2, <1>3, <1>4, <1>5
<1>7. PICK s, e, r \in Nat :
        /\ Parts(l, s, e, r)
        /\ ParseArgs(Shell).filename = SubSeq(Shell, s + 1, e)
        /\ ParseArgs(Shell).args = SubSeq(Shell, r + 1, n)
  BY <1>1, <1>2, <1>5, ParseIs
<1>8. /\ s <= e /\ e <= r /\ r <= n
      /\ \A i \in 1..s : l[i] = SPACE
      /\ e < n => l[e + 1] = SPACE
  BY <1>3, <1>5, <1>7 DEF Parts
<1>9. s = 0
  <2>1. s # 0 => 1 \in 1..s /\ 1 \in 1..n
    BY <1>3, <1>8
  <2> QED
    BY <1>6, <1>8, <2>1
<1>10. e = n /\ r = n
  <2>1. e < n => e + 1 \in 1..n
    BY <1>3, <1>8
  <2> QED
    BY <1>3, <1>6, <1>8, <2>1
<1>11. SubSeq(Shell, 1, n) = Shell /\ SubSeq(Shell, n + 1, n) = <<>>
  <2>1. /\ SubSeq(Shell, 1, n) \in Seq(Letters) /\ Len(SubSeq(Shell, 1, n)) = n
        /\ \A i \in 1..n : SubSeq(Shell, 1, n)[i] = Shell[i]
    BY <1>2, <1>3, SubSeqProperties
  <2>2. SubSeq(Shell, 1, n) = Shell
    BY <1>1, <1>2, <2>1, SeqEqual
  <2>3. SubSeq(Shell, n + 1, n) \in Seq(Letters) /\ Len(SubSeq(Shell, n + 1, n)) = 0
    BY <1>2, <1>3, SubSeqProperties
  <2> QED
    BY <2>2, <2>3
<1> QED
  BY <1>7, <1>9, <1>10, <1>11

-----------------------------------------------------------------------------
(* The stacks.                                                             *)

\* The stack new is the lowest k programs of terminal t with p on top, and p is
\* nowhere else.
PushOf(t, p, new, k) ==
  /\ t \in Terminals /\ p \in Programs /\ new \in Seq(Programs)
  /\ k \in Nat /\ k <= Len(stacks[t]) /\ Len(new) = k + 1 /\ new[k + 1] = p
  /\ \A i \in 1..k : new[i] = stacks[t][i]
  /\ \A u \in Terminals : \A i \in 1..Len(stacks[u]) :
       stacks[u][i] = p => u = t /\ i > k

\* A program that is not in front of the others of its terminal, or anywhere else,
\* is put above the lowest k of them.
LEMMA Pushed ==
  ASSUME StackInv, NEW t, NEW p, NEW new, NEW k, PushOf(t, p, new, k),
         stacks' = [stacks EXCEPT ![t] = new], running' = t
  PROVE  StackInv' /\ p \in Busy' /\ Busy' \subseteq Busy \cup {p}
<1> USE DEF PushOf
<1>1. /\ stacks \in [Terminals -> Seq(Programs)] /\ OnePlace
      /\ \A u \in Terminals : Len(stacks[u]) \in Nat
  BY DEF StackInv
<1>2. /\ stacks' \in [Terminals -> Seq(Programs)] /\ stacks'[t] = new
      /\ \A u \in Terminals : u # t => stacks'[u] = stacks[u]
  BY <1>1
<1>3. running' \in Terminals /\ stacks'[running'] # <<>>
  BY <1>2
\* Where a program was before, if it is not p.
<1>4. ASSUME NEW u \in Terminals, NEW i \in 1..Len(stacks'[u])
      PROVE  \/ u = t /\ i = k + 1 /\ stacks'[u][i] = p
             \/ /\ i \in 1..Len(stacks[u]) /\ stacks'[u][i] = stacks[u][i]
                /\ stacks'[u][i] # p
  <2>1. CASE u = t
    <3>1. CASE i = k + 1
      BY <1>2, <2>1, <3>1
    <3>2. CASE i # k + 1
      <4>1. i \in 1..k /\ i \in 1..Len(stacks[u]) /\ ~(i > k)
        BY <1>1, <1>2, <2>1, <3>2
      <4> QED
        BY <1>2, <2>1, <4>1
    <3> QED
      BY <3>1, <3>2
  <2>2. CASE u # t
    BY <1>2, <2>2
  <2> QED
    BY <2>1, <2>2
<1>5. OnePlace'
  <2> SUFFICES ASSUME NEW u \in Terminals, NEW v \in Terminals,
                      NEW i \in 1..Len(stacks'[u]), NEW j \in 1..Len(stacks'[v]),
                      stacks'[u][i] = stacks'[v][j]
               PROVE  u = v /\ i = j
    BY DEF OnePlace
  <2>1. CASE stacks'[u][i] = p
    BY <1>4, <2>1
  <2>2. CASE stacks'[u][i] # p
    <3>1. i \in 1..Len(stacks[u]) /\ stacks'[u][i] = stacks[u][i]
      BY <1>4, <2>2
    <3>2. j \in 1..Len(stacks[v]) /\ stacks'[v][j] = stacks[v][j]
      BY <1>4, <2>2
    <3> QED
      BY <1>1, <3>1, <3>2 DEF OnePlace
  <2> QED
    BY <2>1, <2>2
<1>6. p \in Busy'
  <2>1. k + 1 \in 1..Len(stacks'[t]) /\ stacks'[t][k + 1] = p
    BY <1>2
  <2> QED
    BY <2>1 DEF Busy, Running, InStack
<1>7. Busy' \subseteq Busy \cup {p}
  <2> SUFFICES ASSUME NEW q \in Busy', q # p PROVE q \in Busy
    OBVIOUS
  <2>1. PICK u \in Terminals : \E i \in 1..Len(stacks'[u]) : stacks'[u][i] = q
    BY DEF Busy, Running, InStack
  <2>2. PICK i \in 1..Len(stacks'[u]) : stacks'[u][i] = q
    BY <2>1
  <2>3. i \in 1..Len(stacks[u]) /\ stacks[u][i] = q
    BY <1>4, <2>2
  <2> QED
    BY <2>3 DEF Busy, Running, InStack
<1> QED
  BY <1>2, <1>3, <1>5, <1>6, <1>7 DEF StackInv

\* A program that is idle is in no terminal's stack.
LEMMA IdleIs ==
  ASSUME NEW p \in Idle
  PROVE  \A u \in Terminals : \A i \in 1..Len(stacks[u]) : stacks[u][i] # p
BY DEF Idle, InStack

\* Starting a program.
LEMMA StackStart ==
  ASSUME StackInv, NEW p \in Programs, Start(p)
  PROVE  StackInv' /\ p \in Busy' /\ Busy' \subseteq Busy \cup {p}
<1>1. /\ stacks[running] \in Seq(Programs) /\ running \in Terminals
      /\ Len(stacks[running]) \in Nat
  BY DEF StackInv
<1>2. PICK new : new = Append(stacks[running], p)
  OBVIOUS
<1>3. /\ new \in Seq(Programs) /\ Len(new) = Len(stacks[running]) + 1
      /\ new[Len(stacks[running]) + 1] = p
      /\ \A i \in 1..Len(stacks[running]) : new[i] = stacks[running][i]
  BY <1>1, <1>2, AppendProperties
<1>4. \A u \in Terminals : \A i \in 1..Len(stacks[u]) : stacks[u][i] # p
  BY IdleIs DEF Start
<1>5. stacks' = [stacks EXCEPT ![running] = new] /\ running' = running
  BY <1>2 DEF Start
<1>6. PICK k : k = Len(stacks[running])
  OBVIOUS
<1>7. k \in Nat /\ k <= Len(stacks[running])
  BY <1>1, <1>6
<1>8. \A u \in Terminals : \A i \in 1..Len(stacks[u]) :
        stacks[u][i] = p => u = running /\ i > k
  BY <1>4
<1>9. Len(new) = k + 1 /\ new[k + 1] = p /\ \A i \in 1..k : new[i] = stacks[running][i]
  BY <1>3, <1>6
<1>10. PushOf(running, p, new, k)
  BY <1>1, <1>3, <1>7, <1>8, <1>9 DEF PushOf
<1> QED
  BY <1>5, <1>10, Pushed

\* A sequence of one program.
LEMMA OneProgram ==
  ASSUME NEW p \in Programs
  PROVE  <<p>> \in Seq(Programs) /\ Len(<<p>>) = 0 + 1 /\ <<p>>[0 + 1] = p
OBVIOUS

\* Replacing a terminal's last program by a shell.
LEMMA StackRestart ==
  ASSUME StackInv, NEW p \in Programs, Restart(p)
  PROVE  StackInv' /\ p \in Busy' /\ Busy' \subseteq Busy \cup {p}
<1>1. running \in Terminals /\ Len(stacks[running]) = 1
  BY DEF StackInv, Restart
<1>2. \A u \in Terminals : \A i \in 1..Len(stacks[u]) :
        stacks[u][i] = p => u = running /\ i > 0
  <2>1. CASE p \in Idle
    BY <2>1, IdleIs
  <2>2. CASE p \in InStack(running)
    <3>1. 1 \in 1..Len(stacks[running]) /\ stacks[running][1] = p
      BY <1>1, <2>2 DEF InStack
    <3>2. ASSUME NEW u \in Terminals, NEW i \in 1..Len(stacks[u]), stacks[u][i] = p
          PROVE  u = running /\ i > 0
      BY <1>1, <3>1, <3>2 DEF StackInv, OnePlace
    <3> QED
      BY <3>2
  <2> QED
    BY <2>1, <2>2 DEF Restart
<1>3. stacks' = [stacks EXCEPT ![running] = <<p>>] /\ running' = running
  BY DEF Restart
<1>4. PICK new : new = <<p>>
  OBVIOUS
<1>5. new \in Seq(Programs) /\ Len(new) = 0 + 1 /\ new[0 + 1] = p
  BY <1>4, OneProgram
<1>6. 0 \in Nat /\ 0 <= Len(stacks[running]) /\ \A i \in 1..0 : new[i] = stacks[running][i]
  BY <1>1
<1>7. PushOf(running, p, new, 0)
  BY <1>1, <1>2, <1>5, <1>6 DEF PushOf
<1>8. stacks' = [stacks EXCEPT ![running] = new]
  BY <1>3, <1>4
<1> QED
  BY <1>3, <1>7, <1>8, Pushed

\* Starting the shell of a new terminal.
LEMMA StackOpen ==
  ASSUME StackInv, NEW p \in Programs, NEW t \in Terminals, Open(t, p)
  PROVE  StackInv' /\ p \in Busy' /\ Busy' \subseteq Busy \cup {p}
<1>1. PICK new, k : new = <<p>> /\ k = 0
  OBVIOUS
<1>2. \A u \in Terminals : \A i \in 1..Len(stacks[u]) : stacks[u][i] # p
  BY IdleIs DEF Open
<1>3. stacks' = [stacks EXCEPT ![t] = new] /\ running' = t
  BY <1>1 DEF Open
<1>4. new \in Seq(Programs) /\ Len(new) = k + 1 /\ new[k + 1] = p
  BY <1>1, OneProgram
<1>5. k \in Nat /\ k <= Len(stacks[t]) /\ \A i \in 1..k : new[i] = stacks[t][i]
  BY <1>1 DEF Open
<1>6. \A u \in Terminals : \A i \in 1..Len(stacks[u]) :
        stacks[u][i] = p => u = t /\ i > k
  BY <1>2
<1>7. PushOf(t, p, new, k)
  BY <1>4, <1>5, <1>6 DEF PushOf
<1> QED
  BY <1>3, <1>7, Pushed

\* Going back to the program below: the one in front is gone.
LEMMA StackReturn ==
  ASSUME StackInv, Return
  PROVE  StackInv' /\ Busy' \subseteq Busy \ {FrontOf(running)}
<1>1. PICK s, n : s = stacks[running] /\ n = Len(stacks[running])
  OBVIOUS
<1>2. /\ stacks \in [Terminals -> Seq(Programs)] /\ running \in Terminals /\ OnePlace
      /\ s \in Seq(Programs) /\ n \in Nat /\ n > 1
      /\ \A u \in Terminals : Len(stacks[u]) \in Nat
  BY <1>1 DEF StackInv, Return
<1>3. PICK new : new = SubSeq(s, 1, n - 1)
  OBVIOUS
<1>4. \A i \in 1..(n - 1) : s[i] \in Programs
  BY <1>1, <1>2, ElementOfSeq
<1>5. /\ new \in Seq(Programs) /\ Len(new) = n - 1
      /\ \A i \in 1..(n - 1) : new[i] = s[i]
  <2>1. n - 1 \in Int /\ 1 \in Int /\ (IF 1 <= n - 1 THEN (n - 1) - 1 + 1 ELSE 0) = n - 1
    BY <1>2
  <2>2. \A i \in 1..(n - 1) : 1 + i - 1 = i
    BY <1>2
  <2> QED
    BY <1>2, <1>3, <1>4, <2>1, <2>2, SubSeqProperties
<1>6. stacks' = [stacks EXCEPT ![running] = new] /\ running' = running
  BY <1>1, <1>3 DEF Return
<1>7. /\ stacks' \in [Terminals -> Seq(Programs)] /\ stacks'[running] = new
      /\ \A u \in Terminals : u # running => stacks'[u] = stacks[u]
  BY <1>2, <1>5, <1>6
<1>8. ASSUME NEW u \in Terminals, NEW i \in 1..Len(stacks'[u])
      PROVE  /\ i \in 1..Len(stacks[u]) /\ stacks'[u][i] = stacks[u][i]
             /\ ~(u = running /\ i = n)
  BY <1>1, <1>2, <1>5, <1>7
<1>9. running' \in Terminals /\ stacks'[running'] # <<>>
  BY <1>2, <1>5, <1>6, <1>7
<1>10. OnePlace'
  BY <1>2, <1>8 DEF OnePlace
<1>11. ASSUME NEW q \in Busy' PROVE q \in Busy \ {FrontOf(running)}
  <2>1. PICK u \in Terminals : \E i \in 1..Len(stacks'[u]) : stacks'[u][i] = q
    BY <1>11 DEF Busy, Running, InStack
  <2>2. PICK i \in 1..Len(stacks'[u]) : stacks'[u][i] = q
    BY <2>1
  <2>3. i \in 1..Len(stacks[u]) /\ stacks[u][i] = q /\ ~(u = running /\ i = n)
    BY <1>8, <2>2
  <2>4. q \in Busy
    BY <1>11, <2>3 DEF Busy, Running, InStack
  <2>5. n \in 1..Len(stacks[running]) /\ FrontOf(running) = stacks[running][n]
    BY <1>1, <1>2 DEF FrontOf
  <2>6. q # FrontOf(running)
    BY <1>2, <2>3, <2>5 DEF OnePlace
  <2> QED
    BY <2>4, <2>6
<1> QED
  BY <1>7, <1>9, <1>10, <1>11 DEF StackInv

-----------------------------------------------------------------------------
(* The invariant holds.                                                    *)

\* The kernel starts with a shell.
LEMMA ArgsInit ==
  ASSUME Init PROVE ArgsInv
<1>1. PICK t \in Terminals, p \in Programs :
        /\ stacks = [u \in Terminals |-> IF u = t THEN <<p>> ELSE <<>>]
        /\ running = t
  BY DEF Init, StacksInit
<1>2. PICK one : one = <<p>>
  OBVIOUS
<1>3. one \in Seq(Programs) /\ Len(one) = 1 /\ one[1] = p
  BY <1>2
<1>4. /\ stacks \in [Terminals -> Seq(Programs)] /\ stacks[t] = one
      /\ \A u \in Terminals : u # t => Len(stacks[u]) = 0
  BY <1>1, <1>2, <1>3
<1>5. \A u \in Terminals : \A i \in 1..Len(stacks[u]) :
        u = t /\ i = 1 /\ stacks[u][i] = p
  <2> TAKE u \in Terminals
  <2>1. CASE u = t
    <3>1. 1..Len(stacks[u]) = {1}
      <4>1. 1..1 = {1}
        OBVIOUS
      <4>2. Len(stacks[u]) = 1
        BY <1>3, <1>4, <2>1
      <4> QED
        BY <4>1, <4>2, Zenon
    <3> QED
      BY <1>3, <1>4, <2>1, <3>1
  <2>2. CASE u # t
    <3>1. 1..Len(stacks[u]) = {}
      BY <1>4, <2>2
    <3> QED
      BY <3>1
  <2> QED
    BY <2>1, <2>2
<1>6. StackInv
  BY <1>1, <1>3, <1>4, <1>5 DEF StackInv, OnePlace
<1>7. /\ args = [q \in Programs |-> [i \in Slots |-> NOKE]]
      /\ image = [q \in Programs |-> IF Running(q) THEN Shell ELSE <<>>]
      /\ given = [q \in Programs |-> IF Running(q) THEN Shell ELSE <<>>]
  BY DEF Init
<1>8. /\ NOKE \in Chars /\ Shell \in Executables /\ Shell \in Given
      /\ 0 \in Slots /\ Len(<<>>) = 0
  <2>1. Shell \in Given /\ Shell \in Executables
    BY ArgsAssumption DEF Given
  <2>2. 0 \in Slots
    <3>1. Len(Shell) \in Nat /\ Len(Shell) < ARG_BUF_LIM /\ ARG_BUF_LIM \in Nat
      BY <2>1, CommandFacts, ArgsAssumption
    <3> QED
      BY <3>1 DEF Slots
  <2> QED
    BY <2>1, <2>2 DEF Chars
<1> HIDE DEF Running
<1>9. TypeOK
  BY <1>7, <1>8 DEF TypeOK
<1>10. ASSUME NEW q \in Busy
       PROVE  /\ given[q] \in Given
              /\ image[q] = ParseArgs(given[q]).filename /\ image[q] \in Executables
              /\ Holds(args[q], ParseArgs(given[q]).args)
  <2>1. q \in Programs /\ Running(q)
    BY DEF Busy
  <2>2. given[q] = Shell /\ image[q] = Shell /\ args[q] = [i \in Slots |-> NOKE]
    BY <1>7, <2>1
  <2>3. Holds(args[q], <<>>)
    BY <1>8, <2>2 DEF Holds
  <2> QED
    BY <1>8, <2>2, <2>3, ShellIs
<1> QED
  BY <1>6, <1>9, <1>10 DEF ArgsInv, HasOwn

\* A program that execute loads gets what parse_args found; the others keep theirs.
LEMMA LoadsKeeps ==
  ASSUME ArgsInv, NEW c \in Given, NEW p \in Programs, Loads(p, c),
         StackInv', Busy' \subseteq Busy \cup {p}
  PROVE  ArgsInv'
<1>1. PICK name, a : name = ParseArgs(c).filename /\ a = ParseArgs(c).args
  OBVIOUS
<1>2. /\ Found(name)
      /\ image' = [image EXCEPT ![p] = name]
      /\ args' = [args EXCEPT ![p] = Strcpy(args[p], a)]
      /\ given' = [q \in Programs |-> IF q = p THEN c
                                      ELSE IF q \in Busy' THEN given[q] ELSE <<>>]
  BY <1>1 DEF Loads, Busy
<1>3. name \in Executables
  BY <1>2 DEF Found
<1>4. a \in Seq(Chars) /\ Len(a) \in Slots
  BY <1>1, ArgsFit
<1>5. TypeOK /\ HasOwn
  BY DEF ArgsInv
<1>6. args[p] \in [Slots -> Chars]
  BY <1>5 DEF TypeOK
<1>7. PICK new : new = Strcpy(args[p], a)
  OBVIOUS
<1>8. new \in [Slots -> Chars] /\ Holds(new, a)
  BY <1>4, <1>6, <1>7, StrcpyHolds
<1>9. TypeOK'
  <2>1. args' \in [Programs -> [Slots -> Chars]]
    BY <1>2, <1>5, <1>7, <1>8 DEF TypeOK
  <2>2. image' \in [Programs -> Executables \cup {<<>>}]
    BY <1>2, <1>3, <1>5 DEF TypeOK
  <2>3. given' \in [Programs -> Commands \cup {Shell, <<>>}]
    BY <1>2, <1>5 DEF TypeOK, Given
  <2> QED
    BY <2>1, <2>2, <2>3 DEF TypeOK
<1>10. ASSUME NEW q \in Busy'
       PROVE  /\ given'[q] \in Given
              /\ image'[q] = ParseArgs(given'[q]).filename /\ image'[q] \in Executables
              /\ Holds(args'[q], ParseArgs(given'[q]).args)
  <2>1. CASE q = p
    <3>1. given'[p] = c
      BY <1>2
    <3>2. image'[p] = name
      BY <1>2, <1>5 DEF TypeOK
    <3>3. args'[p] = new
      BY <1>2, <1>5, <1>7 DEF TypeOK
    <3> QED
      BY <1>1, <1>3, <1>8, <2>1, <3>1, <3>2, <3>3
  <2>2. CASE q # p
    <3>1. q \in Busy /\ q \in Programs
      BY <2>2 DEF Busy
    <3>2. given'[q] = given[q] /\ image'[q] = image[q] /\ args'[q] = args[q]
      BY <1>2, <1>5, <2>2, <3>1 DEF TypeOK
    <3> QED
      BY <1>5, <3>1, <3>2 DEF HasOwn
  <2> QED
    BY <2>1, <2>2
<1>11. HasOwn'
  BY <1>10 DEF HasOwn
<1> QED
  BY <1>9, <1>11 DEF ArgsInv

\* Every step keeps the invariant.
LEMMA ArgsStep ==
  ASSUME ArgsInv, [Next]_vars PROVE ArgsInv'
<1>1. StackInv
  BY DEF ArgsInv
<1>2. ASSUME NEW c \in Commands, Execute(c) PROVE ArgsInv'
  <2>1. PICK p \in Programs : Start(p) /\ Loads(p, c)
    BY <1>2 DEF Execute
  <2>2. c \in Given
    BY DEF Given
  <2>3. StackInv' /\ Busy' \subseteq Busy \cup {p}
    BY <1>1, <2>1, StackStart
  <2> QED
    BY <2>1, <2>2, <2>3, LoadsKeeps
<1>3. ASSUME ExecuteShell PROVE ArgsInv'
  <2>1. PICK p \in Programs :
          (Restart(p) \/ \E t \in Terminals : Open(t, p)) /\ Loads(p, Shell)
    BY <1>3 DEF ExecuteShell
  <2>2. Shell \in Given
    BY DEF Given
  <2>3. StackInv' /\ Busy' \subseteq Busy \cup {p}
    BY <1>1, <2>1, StackRestart, StackOpen
  <2> QED
    BY <2>1, <2>2, <2>3, LoadsKeeps
<1>4. ASSUME HaltReturn PROVE ArgsInv'
  <2>1. /\ Return /\ given' = [given EXCEPT ![FrontOf(running)] = <<>>]
        /\ args' = args /\ image' = image
    BY <1>4 DEF HaltReturn
  <2>2. PICK f : f = FrontOf(running)
    OBVIOUS
  <2>3. StackInv' /\ Busy' \subseteq Busy \ {f}
    BY <1>1, <2>1, <2>2, StackReturn
  <2>4. given' = [given EXCEPT ![f] = <<>>]
    BY <2>1, <2>2
  <2>5. TypeOK'
    BY <2>1, <2>4 DEF ArgsInv, TypeOK
  <2>6. ASSUME NEW q \in Busy'
        PROVE  q \in Busy /\ given'[q] = given[q]
    BY <2>3, <2>4 DEF ArgsInv, TypeOK, Busy
  <2>7. HasOwn'
    BY <2>1, <2>6 DEF ArgsInv, HasOwn
  <2> QED
    BY <2>3, <2>5, <2>7 DEF ArgsInv
<1>5. ASSUME ScheduleOrShow PROVE ArgsInv'
  <2>1. /\ stacks' = stacks /\ args' = args /\ image' = image /\ given' = given
        /\ running' \in Terminals /\ stacks[running'] # <<>>
    BY <1>1, <1>5 DEF ScheduleOrShow, Schedule, Show, StackInv
  <2>2. StackInv' /\ Busy' = Busy
    BY <1>1, <2>1 DEF StackInv, OnePlace, Busy, Running, InStack
  <2> QED
    BY <2>1, <2>2 DEF ArgsInv, TypeOK, HasOwn
<1>6. ASSUME UNCHANGED vars PROVE ArgsInv'
  <2>1. /\ stacks' = stacks /\ running' = running
        /\ args' = args /\ image' = image /\ given' = given
    BY <1>6 DEF vars, svars
  <2>2. StackInv' /\ Busy' = Busy
    BY <1>1, <2>1 DEF StackInv, OnePlace, Busy, Running, InStack
  <2> QED
    BY <2>1, <2>2 DEF ArgsInv, TypeOK, HasOwn
<1> QED
  BY <1>2, <1>3, <1>4, <1>5, <1>6 DEF Next

\* The invariant holds always.
LEMMA ArgsAlways == Spec => []ArgsInv
<1>1. Init => ArgsInv
  BY ArgsInit
<1>2. ArgsInv /\ [Next]_vars => ArgsInv'
  BY ArgsStep
<1> QED
  BY <1>1, <1>2, PTL DEF Spec

\* Buffers, names of files and commands keep their types: no string of execute runs
\* over the buffer of a PCB.
THEOREM ArgsTypes == Spec => []TypeOK
<1>1. ArgsInv => TypeOK
  BY DEF ArgsInv
<1> QED
  BY <1>1, ArgsAlways, PTL

\* getargs gives the running program the arguments of the command that started it,
\* whatever has run with its PCB or been started and scheduled since (execute, halt,
\* getargs).
THEOREM GetargsIsOwn == Spec => []GetargsGivesOwn
<1>1. ASSUME ArgsInv PROVE GetargsGivesOwn
  <2>1. PICK p, c, buf : p = FrontOf(running) /\ c = given[p] /\ buf = args[p]
    OBVIOUS
  <2>2. PICK name, s : name = ParseArgs(c).filename /\ s = ParseArgs(c).args
    OBVIOUS
  <2>3. p \in Busy
    <3>1. /\ stacks[running] \in Seq(Programs) /\ running \in Terminals
          /\ stacks[running] # <<>>
      BY <1>1 DEF ArgsInv, StackInv
    <3>2. Len(stacks[running]) \in 1..Len(stacks[running])
      BY <3>1
    <3>3. p \in Programs /\ p \in InStack(running)
      BY <2>1, <3>1, <3>2, ElementOfSeq DEF FrontOf, InStack
    <3> QED
      BY <3>1, <3>3 DEF Busy, Running
  <2>4. /\ c \in Given /\ image[p] = name /\ name \in Executables /\ Holds(buf, s)
        /\ buf \in [Slots -> Chars]
    BY <1>1, <2>1, <2>2, <2>3 DEF ArgsInv, HasOwn, TypeOK, Busy
  <2>5. s \in Seq(Chars) /\ Len(s) \in Slots /\ \A i \in 1..Len(s) : s[i] # NOKE
    BY <2>2, <2>4, ArgsFit
  <2>6. Strlen(buf) = Len(s)
    BY <2>4, <2>5, StrlenIs
  <2>7. name # <<>>
    <3>1. ~(0 \in 1..NAMELEN) /\ Len(<<>>) = 0 /\ Len(name) \in 1..NAMELEN
      BY <2>4, ArgsAssumption
    <3> QED
      BY <3>1
  <2>8. ASSUME NEW n \in Sizes
        PROVE  Getargs(n) = IF s # <<>> /\ Len(s) <= n
                            THEN [ret |-> 0, buf |-> Append(s, NOKE)] ELSE Failed
    <3>1. Getargs(n) = IF n < 0 \/ Len(s) = 0 \/ n < Len(s) THEN Failed
                       ELSE [ret |-> 0, buf |-> [i \in 1..(Len(s) + 1) |-> buf[i - 1]]]
      BY <2>1, <2>6 DEF Getargs
    <3>2. n \in Int /\ Len(s) \in Nat /\ (s # <<>> <=> Len(s) # 0) /\ NOKE \in Chars
      BY <2>5, ArgsAssumption DEF Chars
    <3>3. [i \in 1..(Len(s) + 1) |-> buf[i - 1]] = Append(s, NOKE)
      <4>1. PICK w, v : w = [i \in 1..(Len(s) + 1) |-> buf[i - 1]] /\ v = Append(s, NOKE)
        OBVIOUS
      <4>2. ASSUME NEW i \in 1..Len(s) PROVE buf[i - 1] = s[i]
        <5>1. i - 1 \in 0..(Len(s) - 1) /\ (i - 1) + 1 = i
          BY <3>2
        <5> QED
          BY <2>4, <5>1 DEF Holds
      <4>3. buf[Len(s)] = NOKE
        BY <2>4 DEF Holds
      <4>4. /\ v \in Seq(Chars) /\ Len(v) = Len(s) + 1 /\ v[Len(s) + 1] = NOKE
            /\ \A i \in 1..Len(s) : v[i] = s[i]
        BY <2>5, <3>2, <4>1
      <4>5. \A i \in 1..Len(v) : w[i] = v[i]
        <5>1. TAKE i \in 1..Len(v)
        <5>2. CASE i = Len(s) + 1
          <6>1. w[i] = buf[Len(s)]
            BY <3>2, <4>1, <4>4, <5>2
          <6> QED
            BY <4>3, <4>4, <5>2, <6>1
        <5>3. CASE i # Len(s) + 1
          <6>1. i \in 1..Len(s) /\ i \in 1..(Len(s) + 1)
            BY <3>2, <4>4, <5>3
          <6>2. w[i] = buf[i - 1]
            BY <4>1, <6>1
          <6> QED
            BY <4>2, <4>4, <6>1, <6>2
        <5> QED
          BY <5>2, <5>3
      <4>6. \A i \in 1..Len(v) : v[i] \in Chars
        BY <4>4, ElementOfSeq
      <4>7. w = [i \in 1..Len(v) |-> buf[i - 1]]
        BY <4>1, <4>4
      <4>8. w \in Seq(Chars) /\ Len(w) = Len(v)
        BY <3>2, <4>4, <4>5, <4>6, <4>7
      <4> QED
        BY <4>1, <4>4, <4>5, <4>8, SeqEqual
    <3>4. n < 0 \/ Len(s) = 0 \/ n < Len(s) <=> ~(s # <<>> /\ Len(s) <= n)
      BY <3>2
    <3>5. Getargs(n) = IF n < 0 \/ Len(s) = 0 \/ n < Len(s) THEN Failed
                       ELSE [ret |-> 0, buf |-> Append(s, NOKE)]
      BY <3>1, <3>3, Zenon
    <3> QED
      BY <3>4, <3>5
  <2>9. ASSUME NEW a, Splits(c, image[p], a) PROVE a = s
    BY <2>2, <2>4, <2>7, <2>9, SplitIsParse
  <2> QED
    BY <2>1, <2>8, <2>9 DEF GetargsGivesOwn
<1> QED
  BY <1>1, ArgsAlways, PTL
=============================================================================
