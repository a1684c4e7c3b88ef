------------------------- MODULE LineDisciplineProofs -------------------------
(***************************************************************************)
(* What terminal_read and the history promise, for a buffer, a history and *)
(* a number of keys typed ahead of any size: what a reader gets begins     *)
(* with the line that was entered last, also while characters are typed    *)
(* ahead, and the k-th Up recalls the k-th newest line.                    *)
(***************************************************************************)
EXTENDS LineDiscipline, SequenceTheorems, WellFoundedInduction, TLAPS

\* The last slot of every line of the history is clear: Enter's newline is cut
\* off, so a recalled line always leaves room.
LinesEnd == \A h \in 0..(MAX_HIST - 1) : history_buf[h][KEY_BUFF_SIZE - 1] = NOKE

\* Where k steps back from slot i of the ring lead.
Back(i, k) == IF k <= i THEN i - k ELSE i - k + MAX_HIST

\* The ring holds the lines of recent, the newest before hist_fill, and
\* hist_ptr is hist_chk steps back from there.
Ring ==
  /\ \A k \in 1..hist_cnt : history_buf[Back(hist_fill, k)] = recent[k]
  /\ hist_cnt < MAX_HIST => hist_fill = hist_cnt
  /\ hist_chk > 0 => hist_ptr = Back(hist_fill, hist_chk)
  /\ hist_chk = 0 => hist_ptr = hist_fill \/ (hist_cnt < MAX_HIST /\ hist_ptr = 0)

\* Characters fill the line from its start.
NoGap ==
  rpc \notin {"clear", "idx0"} =>
    \A i \in 0..(keyboard_buf_idx - 1) : keyboard_buffer[i] # NOKE

\* A line that nobody waits for has room for its newline.
Room == Enter_flag = 0 /\ ~Taking => keyboard_buf_idx < KEY_BUFF_SIZE

\* The bookkeeping of flags and of keys typed ahead.
Flags ==
  /\ rpc # "idle" => read_wanted = 1
  /\ ahead > 0 => Enter_flag = 1 \/ Taking
  /\ rpc \in {"clear", "idx0"} /\ Enter_flag = 1 => undone

\* As long as only characters are typed ahead, the buffer begins with the line last
\* entered and its newline, and holds no more if none are.
Kept ==
  ~undone /\ (Enter_flag = 1 \/ rpc \in {"limit", "limit2", "copy"}) =>
    LET n == LineLength(recent[1])
    IN /\ recent # <<>> /\ n < keyboard_buf_idx
       /\ ahead = 0 => keyboard_buf_idx = n + 1
       /\ keyboard_buffer[n] = NL
       /\ \A i \in 0..(n - 1) : keyboard_buffer[i] = recent[1][i]

\* How many bytes of the line last entered a read of nbytes is owed.
Owed ==
  LET n == LineLength(recent[1]) IN IF nbytes <= n THEN nbytes ELSE n + 1

\* The local variables of terminal_read.
Locals ==
  /\ rpc \in {"idle", "check", "wait", "limit", "limit2"} => index = 0 /\ got = <<>>
  /\ rpc \in {"wait", "limit", "limit2", "copy"} => nbytes >= 0
  /\ rpc \in {"wait", "limit"} =>
       limit = IF nbytes < KEY_BUFF_SIZE THEN nbytes ELSE KEY_BUFF_SIZE
  /\ rpc = "limit2" /\ ~undone => nbytes > LineLength(recent[1]) + 1
  /\ rpc = "copy" /\ ~undone =>
       /\ Owed <= limit /\ limit <= keyboard_buf_idx
       /\ ahead = 0 => limit = Owed
       /\ index <= limit /\ Len(got) = index
       /\ \A i \in 1..index : got[i] = keyboard_buffer[i - 1]

LInv ==
  /\ TypeOK /\ LinesEnd /\ Ring /\ NoGap /\ Room /\ Flags /\ Kept /\ Locals
  /\ ReadGetsLine

-----------------------------------------------------------------------------
(* Lines and the ring.                                                     *)

\* What the assumptions on the constants give.
LEMMA ConstantFacts ==
  /\ KEY_BUFF_SIZE \in Nat /\ KEY_BUFF_SIZE > 1 /\ MAX_HIST \in Nat /\ MAX_HIST > 0
  /\ TAB_SIZE \in Nat /\ TAB_SIZE > 0 /\ NEWLINE \in Nat /\ NEWLINE < KEY_BUFF_SIZE
  /\ MaxAhead \in Nat /\ Empty \in Buffers
  /\ \A c \in Letters \cup {SPACE, NL} : c # NOKE /\ c \in Chars
  /\ \A n \in Requests : n \in Int
BY LineAssumption DEF NOKE, NL, SPACE, Chars, Empty, Buffers, Requests

\* A set of naturals that is not empty has a least member; the loops over a line
\* stop at it.
LEMMA Least ==
  ASSUME NEW S, S \subseteq Nat, S # {}
  PROVE  \E m \in S : \A k \in S : m <= k
<1>1. PICK m \in S : \A k \in S : ~(<<k, m>> \in OpToRel(<, Nat))
  BY NatLessThanWellFounded, WFMin, Zenon
<1>2. \A k \in S : ~(k < m)
  BY <1>1 DEF OpToRel
<1> QED
  BY <1>2

\* The length of a line is the place of its first clear slot.
LEMMA LineLengthIs ==
  ASSUME NEW b, NEW n \in Slots, b[n] = NOKE, \A i \in 0..(n - 1) : b[i] # NOKE
  PROVE  LineLength(b) = n
<1> DEFINE P(i) == b[i] = NOKE /\ \A j \in Slots : j < i => b[j] # NOKE
<1>1. P(n)
  BY ConstantFacts DEF Slots
<1>2. \A i \in Slots : P(i) => i = n
  BY <1>1, ConstantFacts DEF Slots
<1>3. LineLength(b) = CHOOSE i \in Slots : P(i)
  BY DEF LineLength
<1> HIDE DEF P
<1>4. (CHOOSE i \in Slots : P(i)) = n
  BY <1>1, <1>2
<1> QED
  BY <1>3, <1>4

\* A line of the history ends before the last slot.
LEMMA LineLengthFound ==
  ASSUME NEW b, b[KEY_BUFF_SIZE - 1] = NOKE
  PROVE  /\ LineLength(b) \in Slots /\ b[LineLength(b)] = NOKE
         /\ \A i \in 0..(LineLength(b) - 1) : b[i] # NOKE
<1> DEFINE S == {i \in Slots : b[i] = NOKE}
<1>1. KEY_BUFF_SIZE - 1 \in S /\ S \subseteq Nat
  BY ConstantFacts DEF Slots
<1>2. PICK n \in S : \A i \in S : n <= i
  BY <1>1, Least
<1>3. n \in Slots /\ b[n] = NOKE /\ \A i \in 0..(n - 1) : b[i] # NOKE
  BY <1>2, ConstantFacts DEF Slots
<1>4. LineLength(b) = n
  BY <1>3, LineLengthIs
<1> QED
  BY <1>3, <1>4

\* The line last entered has a length.
LEMMA LastLength ==
  ASSUME LInv, recent # <<>>
  PROVE  LineLength(recent[1]) \in Nat
<1>1. 1 \in 1..hist_cnt
  BY EmptySeq DEF LInv, TypeOK
<1>2. /\ recent[1] = history_buf[Back(hist_fill, 1)]
      /\ Back(hist_fill, 1) \in 0..(MAX_HIST - 1)
  BY <1>1, ConstantFacts DEF LInv, Ring, TypeOK, Back
<1>3. recent[1][KEY_BUFF_SIZE - 1] = NOKE
  BY <1>2 DEF LInv, LinesEnd
<1> QED
  BY <1>3, LineLengthFound DEF Slots

\* The next slot of the ring.
LEMMA NextSlot ==
  ASSUME NEW i \in 0..(MAX_HIST - 1)
  PROVE  (i + 1) % MAX_HIST = IF i + 1 = MAX_HIST THEN 0 ELSE i + 1
BY ConstantFacts

-----------------------------------------------------------------------------
(* The invariant holds initially.                                          *)

LEMMA LineInit == Init => LInv
<1> SUFFICES ASSUME Init PROVE LInv
  OBVIOUS
<1> USE ConstantFacts
<1>1. TypeOK
  <2>1. undone \in BOOLEAN
    BY Zenon DEF Init
  <2> QED
    BY <2>1 DEF Init, TypeOK, Buffers, Requests, ReaderPCs
<1>2. LinesEnd
  BY DEF Init, LinesEnd, Empty, Slots
<1>3. Ring /\ NoGap
  BY DEF Init, Ring, NoGap
<1>4. Room /\ Flags /\ Kept /\ Locals /\ ReadGetsLine
  BY DEF Init, Room, Flags, Kept, Locals, ReadGetsLine, Taking
<1> QED
  BY <1>1, <1>2, <1>3, <1>4 DEF LInv

-----------------------------------------------------------------------------
(* Keys.                                                                   *)

\* A key that edits the line, leaves room for the newline and no gap, and only adds to
\* the line if it is said to undo nothing.
LEMMA EditStep ==
  ASSUME LInv, NEW undoes \in BOOLEAN, NoteKey(undoes), UNCHANGED <<flags, reader, recent>>,
         keyboard_buffer' \in Buffers, keyboard_buf_idx' \in 0..(KEY_BUFF_SIZE - 1),
         rpc \notin {"clear", "idx0"} =>
           \A i \in 0..(keyboard_buf_idx' - 1) : keyboard_buffer'[i] # NOKE,
         ~undoes =>
           /\ keyboard_buf_idx <= keyboard_buf_idx'
           /\ \A i \in 0..(keyboard_buf_idx - 1) : keyboard_buffer'[i] = keyboard_buffer[i]
  PROVE  /\ NoGap' /\ Room' /\ Flags' /\ Kept' /\ Locals' /\ ReadGetsLine'
         /\ ahead' \in 0..MaxAhead /\ undone' \in BOOLEAN
<1> USE ConstantFacts
<1>1. /\ ahead \in Nat /\ ahead' \in 0..MaxAhead /\ undone' \in BOOLEAN
      /\ \/ ahead' = ahead + 1 /\ undone' = (undone \/ undoes)
         \/ ahead' = ahead /\ undone' = undone /\ Enter_flag # 1 /\ ~Taking
  BY DEF NoteKey, LInv, TypeOK, typed
<1>2. UNCHANGED <<Enter_flag, read_wanted, rpc, limit, index, got, nbytes, recent, Taking, Owed>>
  BY DEF flags, reader, Taking, Owed
<1>3. NoGap' /\ Room'
  <2>1. keyboard_buf_idx' < KEY_BUFF_SIZE
    OBVIOUS
  <2>2. Room'
    BY <2>1 DEF Room
  <2>3. NoGap'
    BY <1>2 DEF NoGap
  <2> QED
    BY <2>2, <2>3
<1>4. Flags'
  <2>1. rpc \in {"clear", "idx0"} /\ Enter_flag = 1 => undone'
    BY <1>1 DEF LInv, Flags
  <2>2. ahead' > 0 => Enter_flag = 1 \/ Taking
    BY DEF NoteKey, typed, LInv, Flags
  <2> QED
    BY <1>2, <2>1, <2>2 DEF Flags, LInv
<1>5. ASSUME ~undone', Enter_flag = 1 \/ Taking
      PROVE  /\ ~undone /\ ahead' # 0
             /\ keyboard_buf_idx <= keyboard_buf_idx'
             /\ \A i \in 0..(keyboard_buf_idx - 1) : keyboard_buffer'[i] = keyboard_buffer[i]
  BY <1>1, <1>5
<1>6. Kept'
  <2> DEFINE n == LineLength(recent[1])
  <2> SUFFICES ASSUME ~undone', Enter_flag = 1 \/ rpc \in {"limit", "limit2", "copy"}
               PROVE  /\ recent # <<>> /\ n < keyboard_buf_idx' /\ ahead' # 0
                      /\ keyboard_buffer'[n] = NL
                      /\ \A i \in 0..(n - 1) : keyboard_buffer'[i] = recent[1][i]
    BY <1>2 DEF Kept
  <2>1. /\ ~undone /\ ahead' # 0 /\ keyboard_buf_idx <= keyboard_buf_idx'
        /\ \A i \in 0..(keyboard_buf_idx - 1) : keyboard_buffer'[i] = keyboard_buffer[i]
    BY <1>5 DEF Taking
  <2>2. /\ recent # <<>> /\ n < keyboard_buf_idx /\ keyboard_buffer[n] = NL
        /\ \A i \in 0..(n - 1) : keyboard_buffer[i] = recent[1][i]
    BY <2>1 DEF LInv, Kept
  <2>3. n \in Nat /\ keyboard_buf_idx \in Nat
    BY <2>2, LastLength DEF LInv, TypeOK
  <2> HIDE DEF n
  <2>4. n \in 0..(keyboard_buf_idx - 1) /\ \A i \in 0..(n - 1) : i \in 0..(keyboard_buf_idx - 1)
    BY <2>2, <2>3
  <2> QED
    BY <2>1, <2>2, <2>3, <2>4
<1>7. Locals'
  <2>1. rpc = "limit2" /\ ~undone' => nbytes > LineLength(recent[1]) + 1
    BY <1>5 DEF LInv, Locals, Taking
  <2>2. ASSUME rpc = "copy", ~undone'
        PROVE  /\ Owed <= limit /\ limit <= keyboard_buf_idx' /\ ahead' # 0
               /\ index <= limit /\ Len(got) = index
               /\ \A i \in 1..index : got[i] = keyboard_buffer'[i - 1]
    <3>1. /\ ~undone /\ ahead' # 0 /\ keyboard_buf_idx <= keyboard_buf_idx'
          /\ \A i \in 0..(keyboard_buf_idx - 1) : keyboard_buffer'[i] = keyboard_buffer[i]
      BY <1>5, <2>2 DEF Taking
    <3>2. /\ Owed <= limit /\ limit <= keyboard_buf_idx
          /\ index <= limit /\ Len(got) = index
          /\ \A i \in 1..index : got[i] = keyboard_buffer[i - 1]
      BY <2>2, <3>1 DEF LInv, Locals
    <3>3. limit \in Nat /\ keyboard_buf_idx \in Nat /\ index \in Nat
      BY DEF LInv, TypeOK
    <3>4. \A i \in 1..index : i - 1 \in 0..(keyboard_buf_idx - 1)
      BY <3>2, <3>3
    <3>5. limit <= keyboard_buf_idx'
      BY <3>1, <3>2, <3>3
    <3> QED
      BY <3>1, <3>2, <3>4, <3>5
  <2> QED
    BY <1>2, <2>1, <2>2 DEF Locals, LInv
<1>8. ReadGetsLine'
  <2>1. rpc \in {"unflag", "clear", "idx0"} /\ ~undone' => ~undone /\ ahead' # 0
    BY <1>5 DEF Taking
  <2> QED
    BY <1>2, <2>1 DEF LInv, ReadGetsLine
<1> QED
  BY <1>1, <1>3, <1>4, <1>6, <1>7, <1>8

\* Keys other than Enter leave the lines of the history alone.
LEMMA BankKept ==
  ASSUME LInv, UNCHANGED bank
  PROVE  LinesEnd' /\ Ring'
BY DEF LInv, bank, LinesEnd, Ring, Back

LEMMA StepKeyPress ==
  ASSUME LInv, NEW c \in Letters, KeyPress(c)
  PROVE  LInv'
<1> USE ConstantFacts
<1>1. /\ keyboard_buf_idx < KEY_BUFF_SIZE - 1 /\ keyboard_buf_idx \in 0..KEY_BUFF_SIZE
      /\ keyboard_buffer \in Buffers
      /\ keyboard_buffer' = [keyboard_buffer EXCEPT ![keyboard_buf_idx] = c]
      /\ keyboard_buf_idx' = keyboard_buf_idx + 1
      /\ NoteKey(FALSE) /\ UNCHANGED <<flags, bank, reader>>
  BY DEF KeyPress, LInv, TypeOK
<1>2. c \in Chars /\ c # NOKE
  OBVIOUS
<1>3. keyboard_buffer' \in Buffers /\ keyboard_buf_idx' \in 0..(KEY_BUFF_SIZE - 1)
  <2>1. keyboard_buf_idx' \in 0..(KEY_BUFF_SIZE - 1)
    BY <1>1
  <2>2. keyboard_buffer' \in Buffers
    BY <1>1, <1>2 DEF Buffers
  <2> QED
    BY <2>1, <2>2
<1>4. ASSUME rpc \notin {"clear", "idx0"}, NEW i \in 0..(keyboard_buf_idx' - 1)
      PROVE  keyboard_buffer'[i] # NOKE
  <2>1. \A j \in 0..(keyboard_buf_idx - 1) : keyboard_buffer[j] # NOKE
    BY <1>4 DEF LInv, NoGap
  <2>2. i \in Slots /\ (i = keyboard_buf_idx \/ i \in 0..(keyboard_buf_idx - 1))
    BY <1>1, <1>4 DEF Slots
  <2> QED
    BY <1>1, <1>2, <2>1, <2>2 DEF Buffers
<1>5. /\ keyboard_buf_idx <= keyboard_buf_idx'
      /\ \A i \in 0..(keyboard_buf_idx - 1) : keyboard_buffer'[i] = keyboard_buffer[i]
  <2>1. \A i \in 0..(keyboard_buf_idx - 1) : i \in Slots /\ i < keyboard_buf_idx
    BY <1>1 DEF Slots
  <2> QED
    BY <1>1, <2>1 DEF Buffers
<1>6. /\ NoGap' /\ Room' /\ Flags' /\ Kept' /\ Locals' /\ ReadGetsLine'
      /\ ahead' \in 0..MaxAhead /\ undone' \in BOOLEAN
  BY <1>1, <1>3, <1>4, <1>5, EditStep DEF bank
<1>7. TypeOK'
  BY <1>1, <1>3, <1>6 DEF LInv, TypeOK, flags, bank, reader
<1> QED
  BY <1>1, <1>6, <1>7, BankKept DEF LInv

LEMMA StepTab == LInv /\ Tab => LInv'
<1> SUFFICES ASSUME LInv, Tab PROVE LInv'
  OBVIOUS
<1> USE ConstantFacts
<1>1. /\ keyboard_buf_idx + TAB_SIZE < KEY_BUFF_SIZE /\ keyboard_buf_idx \in 0..KEY_BUFF_SIZE
      /\ keyboard_buffer \in Buffers
      /\ keyboard_buffer' = [i \in Slots |->
           IF keyboard_buf_idx <= i /\ i < keyboard_buf_idx + TAB_SIZE
           THEN SPACE ELSE keyboard_buffer[i]]
      /\ keyboard_buf_idx' = keyboard_buf_idx + TAB_SIZE
      /\ NoteKey(FALSE) /\ UNCHANGED <<flags, bank, reader>>
  BY DEF Tab, Fill, LInv, TypeOK
<1>2. SPACE \in Chars /\ SPACE # NOKE
  OBVIOUS
<1>3. keyboard_buffer' \in Buffers /\ keyboard_buf_idx' \in 0..(KEY_BUFF_SIZE - 1)
  <2>1. keyboard_buf_idx' \in 0..(KEY_BUFF_SIZE - 1)
    BY <1>1
  <2>2. keyboard_buffer' \in Buffers
    BY <1>1, <1>2 DEF Buffers
  <2> QED
    BY <2>1, <2>2
<1>4. ASSUME rpc \notin {"clear", "idx0"}, NEW i \in 0..(keyboard_buf_idx' - 1)
      PROVE  keyboard_buffer'[i] # NOKE
  <2>1. \A j \in 0..(keyboard_buf_idx - 1) : keyboard_buffer[j] # NOKE
    BY <1>4 DEF LInv, NoGap
  <2>2. i \in Slots /\ (keyboard_buf_idx <= i \/ i \in 0..(keyboard_buf_idx - 1))
        /\ i < keyboard_buf_idx + TAB_SIZE
    BY <1>1, <1>4 DEF Slots
  <2> QED
    BY <1>1, <1>2, <2>1, <2>2 DEF Buffers
<1>5. /\ keyboard_buf_idx <= keyboard_buf_idx'
      /\ \A i \in 0..(keyboard_buf_idx - 1) : keyboard_buffer'[i] = keyboard_buffer[i]
  <2>1. \A i \in 0..(keyboard_buf_idx - 1) : i \in Slots /\ i < keyboard_buf_idx
    BY <1>1 DEF Slots
  <2> QED
    BY <1>1, <2>1 DEF Buffers
<1>6. /\ NoGap' /\ Room' /\ Flags' /\ Kept' /\ Locals' /\ ReadGetsLine'
      /\ ahead' \in 0..MaxAhead /\ undone' \in BOOLEAN
  BY <1>1, <1>3, <1>4, <1>5, EditStep DEF bank
<1>7. TypeOK'
  BY <1>1, <1>3, <1>6 DEF LInv, TypeOK, flags, bank, reader
<1> QED
  BY <1>1, <1>6, <1>7, BankKept DEF LInv

LEMMA StepErase == LInv /\ Erase => LInv'
<1> SUFFICES ASSUME LInv, Erase PROVE LInv'
  OBVIOUS
<1> USE ConstantFacts
<1>1. /\ keyboard_buf_idx # 0 /\ keyboard_buf_idx \in 0..KEY_BUFF_SIZE
      /\ keyboard_buffer \in Buffers
      /\ keyboard_buffer' = [keyboard_buffer EXCEPT ![keyboard_buf_idx - 1] = NOKE]
      /\ keyboard_buf_idx' = keyboard_buf_idx - 1
      /\ NoteKey(TRUE) /\ UNCHANGED <<flags, bank, reader>>
  BY DEF Erase, LInv, TypeOK
<1>2. NOKE \in Chars
  BY DEF Chars
<1>3. keyboard_buffer' \in Buffers /\ keyboard_buf_idx' \in 0..(KEY_BUFF_SIZE - 1)
  <2>1. keyboard_buf_idx' \in 0..(KEY_BUFF_SIZE - 1)
    BY <1>1
  <2>2. keyboard_buffer' \in Buffers
    BY <1>1, <1>2 DEF Buffers
  <2> QED
    BY <2>1, <2>2
<1>4. ASSUME rpc \notin {"clear", "idx0"}, NEW i \in 0..(keyboard_buf_idx' - 1)
      PROVE  keyboard_buffer'[i] # NOKE
  <2>1. \A j \in 0..(keyboard_buf_idx - 1) : keyboard_buffer[j] # NOKE
    BY <1>4 DEF LInv, NoGap
  <2>2. i \in Slots /\ i # keyboard_buf_idx - 1 /\ i \in 0..(keyboard_buf_idx - 1)
    BY <1>1, <1>4 DEF Slots
  <2> QED
    BY <1>1, <2>1, <2>2 DEF Buffers
<1>5. /\ NoGap' /\ Room' /\ Flags' /\ Kept' /\ Locals' /\ ReadGetsLine'
      /\ ahead' \in 0..MaxAhead /\ undone' \in BOOLEAN
  BY <1>1, <1>3, <1>4, EditStep DEF bank
<1>6. TypeOK'
  BY <1>1, <1>3, <1>5 DEF LInv, TypeOK, flags, bank, reader
<1> QED
  BY <1>1, <1>5, <1>6, BankKept DEF LInv

\* Up and Down keep hist_ptr hist_chk steps behind hist_fill.
LEMMA PointerStep ==
  ASSUME LInv, NEW dir \in {-1, 1}, HistoryMoves(dir),
         hist_ptr' = PtrAfter(dir), hist_chk' = hist_chk - dir,
         UNCHANGED <<history_buf, hist_fill, hist_cnt, recent>>
  PROVE  Ring' /\ hist_ptr' \in 0..(MAX_HIST - 1) /\ hist_chk' \in 0..hist_cnt
<1> USE ConstantFacts
<1>1. /\ hist_fill \in 0..(MAX_HIST - 1) /\ hist_ptr \in 0..(MAX_HIST - 1)
      /\ hist_cnt \in 0..MAX_HIST /\ hist_chk \in 0..hist_cnt /\ hist_cnt # 0
      /\ hist_cnt < MAX_HIST => hist_fill = hist_cnt
      /\ dir = -1 => hist_chk # hist_cnt
      /\ dir = 1 => hist_chk # 0
  BY DEF LInv, TypeOK, Ring, HistoryMoves
<1>2. /\ hist_chk > 0 => hist_ptr = IF hist_chk <= hist_fill THEN hist_fill - hist_chk
                                    ELSE hist_fill - hist_chk + MAX_HIST
      /\ hist_chk = 0 => hist_ptr = hist_fill \/ (hist_cnt < MAX_HIST /\ hist_ptr = 0)
  BY DEF LInv, Ring, Back
<1>3. hist_chk' \in 0..hist_cnt
  BY <1>1
<1>4. hist_ptr' = IF hist_ptr + dir < 0 THEN hist_cnt - 1
                  ELSE IF hist_ptr + dir >= hist_cnt THEN 0 ELSE hist_ptr + dir
  BY DEF PtrAfter
<1>5. /\ hist_ptr' \in 0..(MAX_HIST - 1)
      /\ hist_chk' > 0 => hist_ptr' = IF hist_chk' <= hist_fill THEN hist_fill - hist_chk'
                                      ELSE hist_fill - hist_chk' + MAX_HIST
      /\ hist_chk' = 0 => hist_ptr' = hist_fill \/ (hist_cnt < MAX_HIST /\ hist_ptr' = 0)
  <2>1. CASE dir = -1
    BY <1>1, <1>2, <1>4, <2>1
  <2>2. CASE dir = 1
    BY <1>1, <1>2, <1>4, <2>2
  <2> QED
    BY <2>1, <2>2
<1>6. Ring'
  BY <1>5 DEF Ring, Back, LInv
<1> QED
  BY <1>3, <1>5, <1>6

LEMMA StepHistoryKey ==
  ASSUME LInv, NEW dir \in {-1, 1}, HistoryKey(dir)
  PROVE  LInv'
<1> USE ConstantFacts
<1> DEFINE new == history_buf[PtrAfter(dir)]
           n == LineLength(new)
           old == Fill(keyboard_buffer, 0, keyboard_buf_idx, NOKE)
<1>1. /\ HistoryMoves(dir) /\ hist_ptr' = PtrAfter(dir) /\ hist_chk' = hist_chk - dir
      /\ keyboard_buffer' = [i \in Slots |-> IF i <= n THEN new[i] ELSE old[i]]
      /\ keyboard_buf_idx' = n
      /\ NoteKey(TRUE)
      /\ UNCHANGED <<flags, history_buf, hist_fill, hist_cnt, recent, reader>>
  BY DEF HistoryKey
<1>2. Ring' /\ hist_ptr' \in 0..(MAX_HIST - 1) /\ hist_chk' \in 0..hist_cnt
  BY <1>1, PointerStep
<1>3. new \in Buffers /\ new[KEY_BUFF_SIZE - 1] = NOKE
  BY <1>1, <1>2 DEF LInv, TypeOK, LinesEnd
<1>4. old \in Buffers
  BY DEF Fill, Buffers, LInv, TypeOK, Chars
<1> HIDE DEF new, old
<1>5. n \in Slots /\ \A i \in 0..(n - 1) : new[i] # NOKE
  BY <1>3, LineLengthFound
<1> HIDE DEF n
<1>6. keyboard_buffer' \in Buffers /\ keyboard_buf_idx' \in 0..(KEY_BUFF_SIZE - 1)
  <2>1. keyboard_buf_idx' \in 0..(KEY_BUFF_SIZE - 1)
    BY <1>1, <1>5 DEF Slots
  <2>2. keyboard_buffer' \in Buffers
    BY <1>1, <1>3, <1>4 DEF Buffers
  <2> QED
    BY <2>1, <2>2
<1>7. ASSUME NEW i \in 0..(keyboard_buf_idx' - 1)
      PROVE  keyboard_buffer'[i] # NOKE
  <2>1. i \in Slots /\ i <= n /\ i \in 0..(n - 1)
    BY <1>1, <1>5 DEF Slots
  <2>2. keyboard_buffer'[i] = new[i]
    BY <1>1, <2>1
  <2> QED
    BY <1>5, <2>1, <2>2
<1>8. /\ NoGap' /\ Room' /\ Flags' /\ Kept' /\ Locals' /\ ReadGetsLine'
      /\ ahead' \in 0..MaxAhead /\ undone' \in BOOLEAN
  BY <1>1, <1>6, <1>7, EditStep
<1>9. TypeOK'
  <2>1. /\ keyboard_buffer' \in Buffers /\ keyboard_buf_idx' \in 0..KEY_BUFF_SIZE
        /\ hist_ptr' \in 0..(MAX_HIST - 1)
        /\ ahead' \in 0..MaxAhead /\ undone' \in BOOLEAN
    BY <1>2, <1>6, <1>8
  <2>2. /\ Enter_flag' \in {0, 1} /\ read_wanted' \in {0, 1}
        /\ rpc' \in ReaderPCs /\ limit' \in 0..KEY_BUFF_SIZE
        /\ index' \in 0..KEY_BUFF_SIZE /\ got' \in Seq(Chars) /\ nbytes' \in Requests
    BY <1>1 DEF LInv, TypeOK, flags, reader
  <2>3. /\ history_buf' = history_buf /\ hist_fill' = hist_fill
        /\ hist_cnt' = hist_cnt /\ recent' = recent /\ LInv
    BY <1>1
  <2>4. /\ history_buf' \in [0..(MAX_HIST - 1) -> Buffers]
        /\ hist_fill' \in 0..(MAX_HIST - 1) /\ hist_cnt' \in 0..MAX_HIST
        /\ recent' \in Seq(Buffers) /\ Len(recent') = hist_cnt'
    BY <2>3 DEF LInv, TypeOK
  <2>5. hist_chk' \in 0..hist_cnt'
    BY <1>2, <2>3
  <2> QED
    BY <2>1, <2>2, <2>4, <2>5 DEF TypeOK
<1>10. LinesEnd'
  BY <1>1 DEF LInv, LinesEnd
<1> QED
  BY <1>2, <1>8, <1>9, <1>10 DEF LInv

-----------------------------------------------------------------------------
(* Enter.                                                                  *)

\* The line that Enter copies to the history.
Entered == First(BufAfterNewline, IdxAfterNewline - 1)

\* Enter's line ends before the last slot, and is what was typed if there was
\* room for its newline.
LEMMA EnteredLine ==
  ASSUME LInv
  PROVE  /\ Entered \in Buffers /\ Entered[KEY_BUFF_SIZE - 1] = NOKE
         /\ BufAfterNewline \in Buffers /\ IdxAfterNewline \in 1..KEY_BUFF_SIZE
         /\ Enter_flag = 0 /\ ~Taking =>
              /\ IdxAfterNewline = LineLength(Entered) + 1
              /\ BufAfterNewline[LineLength(Entered)] = NL
              /\ \A i \in 0..(LineLength(Entered) - 1) : BufAfterNewline[i] = Entered[i]
              /\ \A i \in 0..LineLength(Entered) : BufAfterNewline[i] # NOKE
<1> USE ConstantFacts
<1> DEFINE x == keyboard_buf_idx
           B == BufAfterNewline
           E == Entered
           y == IdxAfterNewline
<1>1. x \in 0..KEY_BUFF_SIZE /\ keyboard_buffer \in Buffers
  BY DEF LInv, TypeOK
<1>2. y \in 1..KEY_BUFF_SIZE /\ (x < KEY_BUFF_SIZE => y = x + 1)
  BY <1>1 DEF IdxAfterNewline
<1>3. B = [i \in Slots |-> IF i = x THEN NL ELSE keyboard_buffer[i]] /\ B \in Buffers
  <2>1. B = [i \in Slots |-> IF i = x THEN NL ELSE keyboard_buffer[i]]
    BY DEF BufAfterNewline
  <2> HIDE DEF B
  <2> QED
    BY <1>1, <2>1 DEF Buffers, Chars
<1>4. E = [i \in Slots |-> IF i < y - 1 THEN B[i] ELSE NOKE]
  BY DEF Entered, First
<1> HIDE DEF x, B, E, y
<1>5. E \in Buffers /\ E[KEY_BUFF_SIZE - 1] = NOKE
  <2>1. E \in Buffers
    BY <1>3, <1>4 DEF Buffers, Chars
  <2>2. KEY_BUFF_SIZE - 1 \in Slots /\ ~(KEY_BUFF_SIZE - 1 < y - 1)
    BY <1>2 DEF Slots
  <2> QED
    BY <1>4, <2>1, <2>2
<1>6. ASSUME Enter_flag = 0, ~Taking
      PROVE  /\ y = LineLength(E) + 1 /\ B[LineLength(E)] = NL
             /\ \A i \in 0..(LineLength(E) - 1) : B[i] = E[i]
             /\ \A i \in 0..LineLength(E) : B[i] # NOKE
  <2>1. x < KEY_BUFF_SIZE /\ y = x + 1 /\ x \in Slots
    BY <1>1, <1>2, <1>6 DEF LInv, Room, x, Slots
  <2>2. \A i \in 0..(x - 1) : i \in Slots /\ keyboard_buffer[i] # NOKE
    <3>1. rpc \notin {"clear", "idx0"}
      BY <1>6 DEF Taking
    <3> QED
      BY <1>1, <3>1 DEF LInv, NoGap, x, Slots
  <2>3. ASSUME NEW i \in 0..(x - 1) PROVE B[i] = keyboard_buffer[i] /\ E[i] = B[i]
    <3>1. i \in Slots /\ i < y - 1 /\ i # x
      BY <1>1, <2>1, <2>2
    <3> QED
      BY <1>3, <1>4, <3>1
  <2>4. E[x] = NOKE /\ B[x] = NL
    BY <1>3, <1>4, <2>1 DEF Slots
  <2>5. LineLength(E) = x
    BY <2>1, <2>2, <2>3, <2>4, LineLengthIs
  <2>6. NL # NOKE /\ \A i \in 0..x : i = x \/ i \in 0..(x - 1)
    BY <2>1 DEF Slots
  <2> QED
    BY <2>1, <2>2, <2>3, <2>4, <2>5, <2>6
<1> QED
  BY <1>2, <1>3, <1>5, <1>6 DEF B, E, y

\* Enter puts its line into the ring before all the others.
LEMMA EnterRing ==
  ASSUME LInv, EnterKey
  PROVE  /\ Ring' /\ LinesEnd'
         /\ history_buf' \in [0..(MAX_HIST - 1) -> Buffers]
         /\ hist_ptr' \in 0..(MAX_HIST - 1) /\ hist_fill' \in 0..(MAX_HIST - 1)
         /\ hist_cnt' \in 0..MAX_HIST /\ hist_chk' = 0
         /\ recent' \in Seq(Buffers) /\ Len(recent') = hist_cnt'
         /\ recent' # <<>> /\ recent'[1] = Entered
<1> USE ConstantFacts
<1> DEFINE all == <<Entered>> \o recent
           M == MAX_HIST
<1>1. /\ history_buf' = [history_buf EXCEPT ![hist_fill] = Entered]
      /\ hist_fill' = (hist_fill + 1) % M /\ hist_ptr' = hist_fill' /\ hist_chk' = 0
      /\ hist_cnt' = IF hist_cnt + 1 > M THEN M ELSE hist_cnt + 1
      /\ recent' = IF Len(all) > M THEN SubSeq(all, 1, M) ELSE all
  BY DEF EnterKey, Entered
<1>2. /\ history_buf \in [0..(M - 1) -> Buffers] /\ hist_fill \in 0..(M - 1)
      /\ hist_cnt \in 0..M /\ recent \in Seq(Buffers) /\ Len(recent) = hist_cnt
      /\ Entered \in Buffers /\ Entered[KEY_BUFF_SIZE - 1] = NOKE
  BY EnteredLine DEF LInv, TypeOK
<1>3. hist_fill' = (IF hist_fill + 1 = M THEN 0 ELSE hist_fill + 1)
      /\ hist_fill' \in 0..(M - 1)
  BY <1>1, <1>2, NextSlot
<1>4. /\ recent' \in Seq(Buffers) /\ Len(recent') = hist_cnt' /\ hist_cnt' \in 1..M
      /\ recent'[1] = Entered
      /\ \A k \in 2..hist_cnt' : k - 1 \in 1..hist_cnt /\ recent'[k] = recent[k - 1]
  <2>1. /\ all \in Seq(Buffers) /\ Len(all) = hist_cnt + 1 /\ all[1] = Entered
        /\ \A k \in 2..(hist_cnt + 1) : all[k] = recent[k - 1]
    <3>1. /\ <<Entered>> \in Seq(Buffers) /\ Len(<<Entered>>) = 1 /\ <<Entered>>[1] = Entered
      BY <1>2
    <3> DEFINE e == <<Entered>>
    <3> HIDE DEF e
    <3>2. e \in Seq(Buffers) /\ Len(e) = 1 /\ e[1] = Entered
      BY <3>1 DEF e
    <3>3. /\ e \o recent \in Seq(Buffers) /\ Len(e \o recent) = hist_cnt + 1
          /\ \A k \in 1..(hist_cnt + 1) :
               (e \o recent)[k] = IF k <= 1 THEN e[k] ELSE recent[k - 1]
      BY <1>2, <3>2, ConcatProperties
    <3>4. (e \o recent)[1] = Entered
      BY <1>2, <3>2, <3>3
    <3>5. \A k \in 2..(hist_cnt + 1) : (e \o recent)[k] = recent[k - 1]
      BY <1>2, <3>3
    <3> QED
      BY <3>3, <3>4, <3>5 DEF e
  <2> HIDE DEF all
  <2>2. CASE hist_cnt + 1 > M
    <3>1. M \in 1..Len(all) /\ 1 \in 1..(Len(all) + 1) /\ hist_cnt' = M
      BY <1>1, <1>2, <2>1, <2>2
    <3>2. recent' = SubSeq(all, 1, M)
      BY <1>1, <1>2, <2>1, <2>2
    <3>3. /\ recent' \in Seq(Buffers) /\ Len(recent') = M
          /\ \A k \in 1..M : recent'[k] = all[k]
      BY <2>1, <3>1, <3>2, SubSeqProperties
    <3> QED
      BY <1>2, <2>1, <2>2, <3>1, <3>3
  <2>3. CASE ~(hist_cnt + 1 > M)
    BY <1>1, <1>2, <2>1, <2>3
  <2> QED
    BY <2>2, <2>3
<1>5. hist_cnt' < M => hist_fill' = hist_cnt'
  <2>1. hist_cnt < M => hist_fill = hist_cnt
    BY DEF LInv, Ring
  <2> QED
    BY <1>1, <1>2, <1>3, <2>1
<1>6. ASSUME NEW k \in 1..hist_cnt'
      PROVE  history_buf'[Back(hist_fill', k)] = recent'[k]
  <2>1. CASE k = 1
    <3>1. Back(hist_fill', 1) = hist_fill
      BY <1>2, <1>3 DEF Back
    <3> QED
      BY <1>1, <1>2, <1>4, <2>1, <3>1
  <2>2. CASE k # 1
    <3>1. k \in 2..hist_cnt' /\ k - 1 \in 1..(M - 1)
      BY <1>4, <2>2
    <3>2. /\ Back(hist_fill', k) = Back(hist_fill, k - 1)
          /\ Back(hist_fill, k - 1) \in 0..(M - 1) /\ Back(hist_fill, k - 1) # hist_fill
      BY <1>2, <1>3, <3>1 DEF Back
    <3>3. history_buf[Back(hist_fill, k - 1)] = recent[k - 1]
      BY <1>4, <3>1 DEF LInv, Ring
    <3> QED
      BY <1>1, <1>2, <1>4, <3>1, <3>2, <3>3
  <2> QED
    BY <2>1, <2>2
<1>7. Ring'
  <2>1. \A k \in 1..hist_cnt' : history_buf'[Back(hist_fill', k)] = recent'[k]
    BY <1>6
  <2>2. ~(hist_chk' > 0) /\ hist_ptr' = hist_fill'
    BY <1>1
  <2> QED
    BY <1>5, <2>1, <2>2 DEF Ring
<1>8. LinesEnd' /\ history_buf' \in [0..(M - 1) -> Buffers]
  <2>1. history_buf' \in [0..(M - 1) -> Buffers]
    BY <1>1, <1>2
  <2>2. \A h \in 0..(M - 1) : history_buf'[h] = IF h = hist_fill THEN Entered ELSE history_buf[h]
    BY <1>1, <1>2
  <2> QED
    BY <1>2, <2>1, <2>2 DEF LInv, LinesEnd
<1>9. recent' # <<>>
  BY <1>4
<1>10. hist_ptr' \in 0..(M - 1) /\ hist_cnt' \in 0..M /\ hist_chk' = 0
  BY <1>1, <1>3, <1>4
<1> HIDE DEF all
<1> QED
  BY <1>3, <1>4, <1>7, <1>8, <1>9, <1>10

LEMMA StepEnterKey == LInv /\ EnterKey => LInv'
<1> SUFFICES ASSUME LInv, EnterKey PROVE LInv'
  OBVIOUS
<1> USE ConstantFacts
<1>1. /\ Ring' /\ LinesEnd'
      /\ history_buf' \in [0..(MAX_HIST - 1) -> Buffers]
      /\ hist_ptr' \in 0..(MAX_HIST - 1) /\ hist_fill' \in 0..(MAX_HIST - 1)
      /\ hist_cnt' \in 0..MAX_HIST /\ hist_chk' = 0
      /\ recent' \in Seq(Buffers) /\ Len(recent') = hist_cnt'
      /\ recent' # <<>> /\ recent'[1] = Entered
  BY EnterRing
<1>2. UNCHANGED <<read_wanted, rpc, limit, index, got, nbytes, Taking>>
  BY DEF EnterKey, reader, Taking
<1>3. CASE read_wanted = 1
  <2> DEFINE B == BufAfterNewline
             y == IdxAfterNewline
  <2>1. /\ Enter_flag' = 1 /\ keyboard_buffer' = B /\ keyboard_buf_idx' = y /\ NoteKey(TRUE)
    BY <1>3 DEF EnterKey, KeepLine
  <2>2. /\ ahead' \in 0..MaxAhead /\ undone' \in BOOLEAN
        /\ ahead' > 0 => undone' \/ undone
        /\ undone' \/ (Enter_flag # 1 /\ ~Taking)
        /\ ahead' > 0 \/ (Enter_flag # 1 /\ ~Taking)
    <3>1. ahead \in 0..MaxAhead /\ undone \in BOOLEAN /\ (ahead > 0 => Enter_flag = 1 \/ Taking)
      BY DEF LInv, TypeOK, Flags
    <3>2. CASE Enter_flag = 1 \/ Taking
      <4>1. ahead < MaxAhead /\ ahead' = ahead + 1 /\ undone' = (undone \/ TRUE)
        BY <2>1, <3>2 DEF NoteKey
      <4>2. undone' \in BOOLEAN /\ undone'
        BY <4>1, Zenon
      <4> QED
        BY <3>1, <4>1, <4>2
    <3>3. CASE ~(Enter_flag = 1 \/ Taking)
      <4>1. ahead' = ahead /\ undone' = undone
        BY <2>1, <3>3 DEF NoteKey, typed
      <4> QED
        BY <3>1, <3>3, <4>1
    <3> QED
      BY <3>2, <3>3
  <2>3. ~undone' => Enter_flag = 0 /\ ~Taking
    BY <2>2 DEF LInv, TypeOK
  <2>4. B \in Buffers /\ y \in 1..KEY_BUFF_SIZE
    BY EnteredLine
  <2>5. ASSUME rpc \notin {"clear", "idx0"}, NEW i \in 0..(y - 1) PROVE B[i] # NOKE
    <3>1. keyboard_buf_idx \in 0..KEY_BUFF_SIZE /\ i \in Slots
      BY <2>4 DEF LInv, TypeOK, Slots
    <3>2. i = keyboard_buf_idx \/ i \in 0..(keyboard_buf_idx - 1)
      BY <3>1 DEF IdxAfterNewline, Slots
    <3>3. i \in 0..(keyboard_buf_idx - 1) => keyboard_buffer[i] # NOKE
      BY <2>5 DEF LInv, NoGap
    <3> QED
      BY <3>1, <3>2, <3>3 DEF BufAfterNewline
  <2> HIDE DEF B, y
  <2>6. NoGap' /\ Room'
    BY <1>2, <2>1, <2>5 DEF NoGap, Room
  <2>7. Flags'
    BY <1>2, <2>1, <2>2 DEF Flags, LInv, Taking
  <2>8. Kept'
    <3>1. LineLength(Entered) \in Nat
      BY EnteredLine, LineLengthFound DEF Slots
    <3> SUFFICES ASSUME ~undone'
                 PROVE  /\ y = LineLength(Entered) + 1 /\ B[LineLength(Entered)] = NL
                        /\ \A i \in 0..(LineLength(Entered) - 1) : B[i] = Entered[i]
      BY <1>1, <2>1, <3>1 DEF Kept
    <3> QED
      BY <2>3, EnteredLine DEF B, y
  <2>9. Locals' /\ ReadGetsLine'
    BY <1>2, <2>3 DEF Locals, LInv, Taking, ReadGetsLine
  <2>10. TypeOK'
    BY <1>1, <1>2, <2>1, <2>2, <2>4 DEF LInv, TypeOK
  <2> QED
    BY <1>1, <2>6, <2>7, <2>8, <2>9, <2>10 DEF LInv
<1>4. CASE read_wanted # 1
  <2>1. /\ Enter_flag' = 0 /\ keyboard_buffer' = Empty /\ keyboard_buf_idx' = 0
        /\ ahead' = 0 /\ undone' = FALSE
    BY <1>4 DEF EnterKey, KeepLine
  <2>2. rpc = "idle" /\ rpc' = "idle"
    BY <1>2, <1>4 DEF LInv, Flags
  <2>3. NoGap' /\ Room' /\ Flags' /\ Kept' /\ Locals' /\ ReadGetsLine'
    BY <1>2, <2>1, <2>2 DEF NoGap, Room, Flags, Kept, Locals, ReadGetsLine, LInv
  <2>4. undone' \in BOOLEAN
    BY <2>1, Zenon
  <2>5. TypeOK'
    BY <1>1, <1>2, <2>1, <2>4 DEF LInv, TypeOK
  <2> QED
    BY <1>1, <2>3, <2>5 DEF LInv
<1> QED
  BY <1>3, <1>4

-----------------------------------------------------------------------------
(* terminal_read.                                                          *)

\* The steps of terminal_read up to the copy leave the line and the history alone.
LEMMA ReaderBefore ==
  ASSUME LInv, UNCHANGED <<line, bank, ahead, undone, Enter_flag, index, got>>,
         rpc \in {"idle", "check", "wait", "limit", "limit2"},
         rpc' \in {"idle", "check", "wait", "limit", "limit2", "copy"},
         limit' \in 0..KEY_BUFF_SIZE, nbytes' \in Requests, read_wanted' \in {0, 1},
         Flags', Locals',
         rpc' \in {"limit", "limit2", "copy"} => Enter_flag = 1 \/ Taking,
         Taking => rpc' \in {"limit", "limit2", "copy"}
  PROVE  LInv'
<1> USE ConstantFacts
<1>1. TypeOK'
  BY DEF LInv, TypeOK, line, bank, ReaderPCs
<1>2. NoGap'
  BY DEF LInv, NoGap, line
<1>3. Room'
  BY DEF LInv, Room, line, Taking, Flags
<1>4. Kept'
  BY DEF LInv, Kept, line, bank, Taking
<1>5. ReadGetsLine'
  BY DEF ReadGetsLine
<1> QED
  BY <1>1, <1>2, <1>3, <1>4, <1>5, BankKept DEF LInv

LEMMA StepReadCall ==
  ASSUME LInv, NEW n \in Requests, ReadCall(n)
  PROVE  LInv'
<1>1. /\ rpc = "idle" /\ rpc' = "check" /\ read_wanted' = 1 /\ nbytes' = n
      /\ UNCHANGED <<line, Enter_flag, bank, limit, index, got, ahead, undone>>
  BY DEF ReadCall, Step, typed
<1>2. Flags' /\ Locals'
  BY <1>1 DEF LInv, Flags, Locals, Taking
<1> QED
  BY <1>1, <1>2, ReaderBefore DEF LInv, TypeOK, Taking

LEMMA StepReadRefuse == LInv /\ ReadRefuse => LInv'
<1> SUFFICES ASSUME LInv, ReadRefuse PROVE LInv'
  OBVIOUS
<1>1. /\ rpc = "check" /\ rpc' = "idle"
      /\ UNCHANGED <<line, Enter_flag, read_wanted, bank, limit, index, got, nbytes, ahead, undone>>
  BY DEF ReadRefuse, Step, typed, flags
<1>2. Flags' /\ Locals'
  BY <1>1 DEF LInv, Flags, Locals, Taking
<1> QED
  BY <1>1, <1>2, ReaderBefore DEF LInv, TypeOK, Taking

LEMMA StepReadAccept == LInv /\ ReadAccept => LInv'
<1> SUFFICES ASSUME LInv, ReadAccept PROVE LInv'
  OBVIOUS
<1>1. /\ rpc = "check" /\ rpc' = "wait" /\ nbytes >= 0
      /\ limit' = IF nbytes < KEY_BUFF_SIZE THEN nbytes ELSE KEY_BUFF_SIZE
      /\ UNCHANGED <<line, Enter_flag, read_wanted, bank, index, got, nbytes, ahead, undone>>
  BY DEF ReadAccept, Step, typed, flags
<1>2. Flags' /\ Locals'
  BY <1>1 DEF LInv, Flags, Locals, Taking
<1>3. nbytes \in Requests /\ nbytes \in Int /\ read_wanted \in {0, 1}
  BY ConstantFacts DEF LInv, TypeOK
<1>4. limit' \in 0..KEY_BUFF_SIZE
  BY <1>1, <1>3, ConstantFacts
<1> QED
  BY <1>1, <1>2, <1>3, <1>4, ReaderBefore DEF Taking

LEMMA StepReadWake == LInv /\ ReadWake => LInv'
<1> SUFFICES ASSUME LInv, ReadWake PROVE LInv'
  OBVIOUS
<1>1. /\ rpc = "wait" /\ rpc' = "limit" /\ Enter_flag = 1
      /\ UNCHANGED <<line, Enter_flag, read_wanted, bank, limit, index, got, nbytes, ahead, undone>>
  BY DEF ReadWake, Step, typed, flags
<1>2. Flags' /\ Locals'
  BY <1>1 DEF LInv, Flags, Locals, Taking
<1> QED
  BY <1>1, <1>2, ReaderBefore DEF LInv, TypeOK, Taking

LEMMA StepReadCompare == LInv /\ ReadCompare => LInv'
<1> SUFFICES ASSUME LInv, ReadCompare PROVE LInv'
  OBVIOUS
<1>1. /\ rpc = "limit" /\ rpc' = IF limit > keyboard_buf_idx THEN "limit2" ELSE "copy"
      /\ UNCHANGED <<line, Enter_flag, read_wanted, bank, limit, index, got, nbytes, ahead, undone>>
  BY DEF ReadCompare, flags, typed
<1>2. /\ nbytes \in Int /\ nbytes >= 0 /\ keyboard_buf_idx \in 0..KEY_BUFF_SIZE
      /\ limit = IF nbytes < KEY_BUFF_SIZE THEN nbytes ELSE KEY_BUFF_SIZE
      /\ index = 0 /\ got = <<>> /\ keyboard_buf_idx' = keyboard_buf_idx
  BY <1>1, ConstantFacts DEF LInv, TypeOK, Locals, line
<1>3. Flags'
  BY <1>1 DEF LInv, Flags, Taking
<1>4. ASSUME ~undone
      PROVE  LET n == LineLength(recent[1])
             IN /\ n \in Nat /\ n < keyboard_buf_idx
                /\ ahead = 0 => keyboard_buf_idx = n + 1
  <2>1. recent # <<>>
    BY <1>1, <1>4 DEF LInv, Kept
  <2> QED
    BY <1>1, <1>4, <2>1, LastLength DEF LInv, Kept
<1>5. Locals'
  <2> DEFINE n == LineLength(recent[1])
  <2>1. ASSUME ~undone, limit > keyboard_buf_idx PROVE nbytes > n + 1
    <3>1. n \in Nat /\ n < keyboard_buf_idx
      BY <1>4, <2>1
    <3> HIDE DEF n
    <3> QED
      BY <1>2, <2>1, <3>1, ConstantFacts
  <2>2. ASSUME ~undone, ~(limit > keyboard_buf_idx)
        PROVE  Owed <= limit /\ limit <= keyboard_buf_idx /\ (ahead = 0 => limit = Owed)
    <3>1. n \in Nat /\ n < keyboard_buf_idx /\ (ahead = 0 => keyboard_buf_idx = n + 1)
      BY <1>4, <2>2
    <3>2. Owed = IF nbytes <= n THEN nbytes ELSE n + 1
      BY DEF Owed
    <3> HIDE DEF n
    <3> QED
      BY <1>2, <2>2, <3>1, <3>2, ConstantFacts
  <2>3. /\ Owed' = Owed /\ recent' = recent /\ got' = got /\ index' = index /\ nbytes' = nbytes
        /\ limit' = limit /\ ahead' = ahead /\ undone' = undone
    BY <1>1 DEF Owed, bank
  <2>4. CASE limit > keyboard_buf_idx
    BY <1>1, <1>2, <2>1, <2>3, <2>4 DEF Locals
  <2>5. CASE ~(limit > keyboard_buf_idx)
    <3>1. rpc' = "copy" /\ Len(got) = 0 /\ index <= limit
      BY <1>1, <1>2, <2>5, ConstantFacts
    <3>2. \A i \in 1..index : FALSE
      BY <1>2
    <3> QED
      BY <1>2, <2>2, <2>3, <2>5, <3>1, <3>2 DEF Locals
  <2> QED
    BY <2>4, <2>5
<1> QED
  BY <1>1, <1>3, <1>5, ReaderBefore DEF LInv, TypeOK, Taking

LEMMA StepReadAssign == LInv /\ ReadAssign => LInv'
<1> SUFFICES ASSUME LInv, ReadAssign PROVE LInv'
  OBVIOUS
<1>1. /\ rpc = "limit2" /\ rpc' = "copy" /\ limit' = keyboard_buf_idx
      /\ UNCHANGED <<line, Enter_flag, read_wanted, bank, index, got, nbytes, ahead, undone>>
  BY DEF ReadAssign, Step, typed, flags
<1>2. /\ nbytes \in Int /\ nbytes >= 0 /\ keyboard_buf_idx \in 0..KEY_BUFF_SIZE
      /\ index = 0 /\ got = <<>> /\ keyboard_buf_idx' = keyboard_buf_idx
  BY <1>1, ConstantFacts DEF LInv, TypeOK, Locals, line
<1>3. Flags'
  BY <1>1 DEF LInv, Flags, Taking
<1>4. Locals'
  <2> DEFINE n == LineLength(recent[1])
  <2>1. ASSUME ~undone
        PROVE  Owed <= keyboard_buf_idx /\ (ahead = 0 => keyboard_buf_idx = Owed)
    <3>1. /\ recent # <<>> /\ n < keyboard_buf_idx /\ (ahead = 0 => keyboard_buf_idx = n + 1)
          /\ nbytes > n + 1
      BY <1>1, <2>1 DEF LInv, Kept, Locals
    <3>2. n \in Nat
      BY <3>1, LastLength
    <3>3. Owed = IF nbytes <= n THEN nbytes ELSE n + 1
      BY DEF Owed
    <3> HIDE DEF n
    <3> QED
      BY <1>2, <3>1, <3>2, <3>3
  <2>2. /\ Owed' = Owed /\ got' = got /\ index' = index /\ nbytes' = nbytes
        /\ ahead' = ahead /\ undone' = undone /\ rpc' = "copy"
    BY <1>1 DEF Owed, bank
  <2>3. Len(got) = 0 /\ 0 <= keyboard_buf_idx /\ \A i \in 1..index : FALSE
    BY <1>2
  <2>4. keyboard_buf_idx <= keyboard_buf_idx
    BY <1>2
  <2> QED
    BY <1>1, <1>2, <2>1, <2>2, <2>3, <2>4 DEF Locals
<1> QED
  BY <1>1, <1>2, <1>3, <1>4, ReaderBefore DEF LInv, TypeOK, Taking

LEMMA StepReadCopy == LInv /\ ReadCopy => LInv'
<1> SUFFICES ASSUME LInv, ReadCopy PROVE LInv'
  OBVIOUS
<1> USE ConstantFacts
<1>1. /\ rpc = "copy"
      /\ UNCHANGED <<line, Enter_flag, read_wanted, bank, limit, nbytes, ahead, undone>>
  BY DEF ReadCopy, flags, typed
<1>2. /\ nbytes \in Int /\ nbytes >= 0 /\ keyboard_buf_idx \in 0..KEY_BUFF_SIZE
      /\ limit \in 0..KEY_BUFF_SIZE /\ index \in 0..KEY_BUFF_SIZE /\ got \in Seq(Chars)
      /\ keyboard_buffer \in Buffers
  BY <1>1 DEF LInv, TypeOK, Locals
<1>3. ~undone =>
        /\ Owed <= limit /\ limit <= keyboard_buf_idx /\ (ahead = 0 => limit = Owed)
        /\ index <= limit /\ Len(got) = index
        /\ \A i \in 1..index : got[i] = keyboard_buffer[i - 1]
  BY <1>1 DEF LInv, Locals
<1>4. CASE index < limit
  <2>1. rpc' = rpc /\ got' = Append(got, keyboard_buffer[index]) /\ index' = index + 1
    BY <1>4 DEF ReadCopy
  <2>2. keyboard_buffer[index] \in Chars
    BY <1>2, <1>4 DEF Buffers, Slots
  <2> DEFINE c == keyboard_buffer[index]
  <2>3. /\ got' \in Seq(Chars) /\ Len(got') = Len(got) + 1
        /\ got'[Len(got) + 1] = c
        /\ \A i \in 1..Len(got) : got'[i] = got[i]
    <3> HIDE DEF c
    <3>1. got' = Append(got, c)
      BY <2>1 DEF c
    <3>2. c \in Chars
      BY <2>2 DEF c
    <3> QED
      BY <1>2, <3>1, <3>2, AppendProperties
  <2>4. index' \in 0..KEY_BUFF_SIZE
    BY <1>2, <1>4, <2>1
  <2>5. TypeOK'
    BY <1>1, <2>1, <2>3, <2>4 DEF LInv, TypeOK, line, bank
  <2>6. NoGap' /\ Room' /\ Flags' /\ Kept' /\ ReadGetsLine'
    BY <1>1, <2>1 DEF LInv, NoGap, Room, Flags, Kept, Taking, ReadGetsLine, line, bank
  <2>7. Locals'
    <3>0. Owed' = Owed
      BY <1>1 DEF Owed, bank
    <3> SUFFICES ASSUME ~undone
                 PROVE  /\ index' <= limit /\ Len(got') = index'
                        /\ \A i \in 1..index' : got'[i] = keyboard_buffer[i - 1]
      BY <1>1, <1>2, <1>3, <2>1, <3>0 DEF Locals, line
    <3>1. index' <= limit /\ Len(got') = index'
      BY <1>2, <1>3, <1>4, <2>1, <2>3
    <3>2. ASSUME NEW i \in 1..index' PROVE got'[i] = keyboard_buffer[i - 1]
      <4>1. CASE i = index + 1
        BY <1>2, <1>3, <2>3, <4>1
      <4>2. CASE i # index + 1
        BY <1>2, <1>3, <2>1, <2>3, <4>2
      <4> QED
        BY <4>1, <4>2
    <3> QED
      BY <3>1, <3>2
  <2> QED
    BY <1>1, <2>5, <2>6, <2>7, BankKept DEF LInv
<1>5. CASE ~(index < limit)
  <2>1. rpc' = "unflag" /\ index' = 0 /\ got' = got
    BY <1>5 DEF ReadCopy
  <2>2. TypeOK'
    BY <1>1, <2>1 DEF LInv, TypeOK, line, bank, ReaderPCs
  <2>3. NoGap' /\ Room' /\ Flags' /\ Kept' /\ Locals'
    BY <1>1, <2>1 DEF LInv, NoGap, Room, Flags, Kept, Locals, Taking, line, bank
  <2>4. ReadGetsLine'
    <3> DEFINE n == LineLength(recent[1])
               full == [i \in 1..(n + 1) |-> IF i <= n THEN recent[1][i - 1] ELSE NL]
               m == IF nbytes <= n THEN nbytes ELSE n + 1
    <3> SUFFICES ASSUME ~undone
                 PROVE  /\ m <= Len(got) /\ SubSeq(got, 1, m) = SubSeq(full, 1, m)
                        /\ ahead = 0 => Len(got) = m
      BY <1>1, <2>1 DEF ReadGetsLine, bank
    <3>1. /\ recent # <<>> /\ n < keyboard_buf_idx /\ keyboard_buffer[n] = NL
          /\ \A i \in 0..(n - 1) : keyboard_buffer[i] = recent[1][i]
      BY <1>1 DEF LInv, Kept
    <3>2. n \in Nat /\ m \in Nat /\ m <= n + 1
      <4>1. n \in Nat
        BY <3>1, LastLength
      <4> HIDE DEF n
      <4> QED
        BY <1>2, <4>1
    <3>3. \A i \in 1..(n + 1) : full[i] = keyboard_buffer[i - 1] /\ full[i] \in Chars
      <4> TAKE i \in 1..(n + 1)
      <4>1. i - 1 \in Slots
        BY <1>2, <3>1, <3>2 DEF Slots
      <4>2. CASE i <= n
        <5>1. i - 1 \in 0..(n - 1)
          BY <3>2, <4>2
        <5> QED
          BY <1>2, <3>1, <4>1, <4>2, <5>1 DEF Buffers
      <4>3. CASE ~(i <= n)
        <5>1. i - 1 = n
          BY <3>2, <4>3
        <5> QED
          BY <1>2, <3>1, <4>1, <4>3, <5>1 DEF Buffers
      <4> QED
        BY <4>2, <4>3
    <3>4. full \in Seq(Chars) /\ Len(full) = n + 1
      BY <3>2, <3>3
    <3>5. m = Owed
      BY DEF Owed
    <3> HIDE DEF full, n, m
    <3>6. /\ m <= Len(got) /\ (ahead = 0 => Len(got) = m)
          /\ \A i \in 1..Len(got) : got[i] = keyboard_buffer[i - 1]
      BY <1>2, <1>3, <1>5, <3>2, <3>5
    <3>7. \A i \in 1..m : got[i] = full[i]
      BY <3>2, <3>3, <3>6
    <3>8. SubSeq(got, 1, m) = SubSeq(full, 1, m)
      <4> DEFINE c == SubSeq(got, 1, m)
                 d == SubSeq(full, 1, m)
      <4>1. 1 \in 1..(Len(got) + 1) /\ m \in 0..Len(got)
            /\ 1 \in 1..(Len(full) + 1) /\ m \in 0..Len(full)
        BY <1>2, <3>2, <3>4, <3>6
      <4>2. c \in Seq(Chars) /\ Len(c) = m /\ \A i \in 1..m : c[i] = got[i]
        BY <1>2, <3>2, <4>1, SubSeqProperties
      <4>3. d \in Seq(Chars) /\ Len(d) = m /\ \A i \in 1..m : d[i] = full[i]
        BY <3>2, <3>4, <4>1, SubSeqProperties
      <4> HIDE DEF c, d
      <4>4. c = d
        BY <3>7, <4>2, <4>3, SeqEqual
      <4> QED
        BY <4>4 DEF c, d
    <3> QED
      BY <3>6, <3>8
  <2> QED
    BY <1>1, <2>2, <2>3, <2>4, BankKept DEF LInv
<1> QED
  BY <1>4, <1>5

LEMMA StepReadUnflag == LInv /\ ReadUnflag => LInv'
<1> SUFFICES ASSUME LInv, ReadUnflag PROVE LInv'
  OBVIOUS
<1>1. /\ rpc = "unflag" /\ rpc' = "clear" /\ Enter_flag' = 0
      /\ UNCHANGED <<line, read_wanted, bank, limit, index, got, nbytes, ahead, undone>>
  BY DEF ReadUnflag, Step, typed
<1>2. TypeOK'
  BY <1>1 DEF LInv, TypeOK, line, bank, ReaderPCs
<1>3. NoGap' /\ Room' /\ Flags' /\ Kept' /\ Locals'
  BY <1>1 DEF LInv, NoGap, Room, Flags, Kept, Locals, Taking
<1>4. ReadGetsLine'
  BY <1>1 DEF LInv, ReadGetsLine, bank
<1> QED
  BY <1>1, <1>2, <1>3, <1>4, BankKept DEF LInv

LEMMA StepReadClear == LInv /\ ReadClear => LInv'
<1> SUFFICES ASSUME LInv, ReadClear PROVE LInv'
  OBVIOUS
<1>1. /\ rpc = "clear" /\ rpc' \in {"clear", "idx0"}
      /\ UNCHANGED <<keyboard_buf_idx, Enter_flag, read_wanted, bank, limit, got, nbytes, ahead, undone>>
  BY DEF ReadClear, flags, typed
<1>2. keyboard_buffer' \in Buffers /\ index' \in 0..KEY_BUFF_SIZE
  <2>1. index \in 0..KEY_BUFF_SIZE /\ keyboard_buffer \in Buffers /\ NOKE \in Chars
    BY DEF LInv, TypeOK, Chars
  <2>2. CASE index < KEY_BUFF_SIZE
    <3>1. keyboard_buffer' = [keyboard_buffer EXCEPT ![index] = NOKE] /\ index' = index + 1
      BY <2>2 DEF ReadClear
    <3>2. index' \in 0..KEY_BUFF_SIZE
      BY <2>1, <2>2, <3>1, ConstantFacts
    <3> QED
      BY <2>1, <3>1, <3>2 DEF Buffers
  <2>3. CASE ~(index < KEY_BUFF_SIZE)
    BY <2>1, <2>3 DEF ReadClear
  <2> QED
    BY <2>2, <2>3
<1>3. TypeOK'
  BY <1>1, <1>2 DEF LInv, TypeOK, bank, ReaderPCs
<1>4. NoGap' /\ Room' /\ Flags' /\ Kept' /\ Locals'
  BY <1>1 DEF LInv, NoGap, Room, Flags, Kept, Locals, Taking
<1>5. ReadGetsLine'
  BY <1>1 DEF LInv, ReadGetsLine, bank
<1> QED
  BY <1>1, <1>3, <1>4, <1>5, BankKept DEF LInv

LEMMA StepReadClearIdx == LInv /\ ReadClearIdx => LInv'
<1> SUFFICES ASSUME LInv, ReadClearIdx PROVE LInv'
  OBVIOUS
<1>1. /\ rpc = "idx0" /\ rpc' = "return" /\ keyboard_buf_idx' = 0
      /\ ahead' = IF Enter_flag = 1 THEN ahead ELSE 0
      /\ undone' = (undone /\ Enter_flag = 1)
      /\ UNCHANGED <<keyboard_buffer, Enter_flag, read_wanted, bank, limit, index, got, nbytes>>
  BY DEF ReadClearIdx, Step, flags
<1>2. TypeOK'
  BY <1>1, ConstantFacts DEF LInv, TypeOK, bank, ReaderPCs
<1>3. NoGap' /\ Room' /\ Flags' /\ Locals' /\ ReadGetsLine'
  BY <1>1, ConstantFacts DEF LInv, NoGap, Room, Flags, Locals, Taking, ReadGetsLine
<1>4. Kept'
  BY <1>1 DEF LInv, Flags, Kept, TypeOK
<1> QED
  BY <1>1, <1>2, <1>3, <1>4, BankKept DEF LInv

LEMMA StepReadReturn == LInv /\ ReadReturn => LInv'
<1> SUFFICES ASSUME LInv, ReadReturn PROVE LInv'
  OBVIOUS
<1>1. /\ rpc = "return" /\ rpc' = "idle" /\ read_wanted' = 0
      /\ limit' = 0 /\ index' = 0 /\ got' = <<>> /\ nbytes' = -1
      /\ UNCHANGED <<line, Enter_flag, bank, ahead, undone>>
  BY DEF ReadReturn, Step, typed
<1>2. TypeOK'
  BY <1>1, ConstantFacts DEF LInv, TypeOK, line, bank, ReaderPCs, Requests
<1>3. NoGap' /\ Room' /\ Flags' /\ Locals' /\ ReadGetsLine' /\ Kept'
  BY <1>1 DEF LInv, NoGap, Room, Flags, Locals, Taking, ReadGetsLine, Kept, line, bank
<1> QED
  BY <1>1, <1>2, <1>3, BankKept DEF LInv

-----------------------------------------------------------------------------
(* The theorems.                                                           *)

\* Every key and every step of terminal_read keeps the invariant.
LEMMA LineStep == LInv /\ [Next]_vars => LInv'
<1> SUFFICES ASSUME LInv, [Next]_vars PROVE LInv'
  OBVIOUS
<1>1. CASE Keyboard
  BY <1>1, StepKeyPress, StepTab, StepErase, StepEnterKey, StepHistoryKey DEF Keyboard
<1>2. CASE \E n \in Requests : ReadCall(n)
  BY <1>2, StepReadCall
<1>3. CASE Reader
  BY <1>3, StepReadRefuse, StepReadAccept, StepReadWake, StepReadCompare, StepReadAssign,
     StepReadCopy, StepReadUnflag, StepReadClear, StepReadClearIdx, StepReadReturn DEF Reader
<1>4. CASE UNCHANGED vars
  <2>1. UNCHANGED <<line, flags, bank, reader, ahead, undone>>
    BY <1>4 DEF vars, typed
  <2>2. UNCHANGED <<keyboard_buffer, keyboard_buf_idx, Enter_flag, read_wanted, rpc, limit,
                    index, got, nbytes, recent, hist_cnt, hist_fill, hist_ptr, hist_chk, history_buf>>
    BY <2>1 DEF line, flags, bank, reader
  <2>3. TypeOK'
    BY <2>1, <2>2 DEF LInv, TypeOK
  <2>4. NoGap' /\ Room' /\ Flags'
    BY <2>1, <2>2 DEF LInv, NoGap, Room, Flags, Taking
  <2>5. Kept'
    BY <2>1, <2>2 DEF LInv, Kept
  <2>6. Locals' /\ ReadGetsLine'
    BY <2>1, <2>2 DEF LInv, Locals, Owed, ReadGetsLine
  <2> QED
    BY <2>1, <2>3, <2>4, <2>5, <2>6, BankKept DEF LInv
<1> QED
  BY <1>1, <1>2, <1>3, <1>4 DEF Next

\* The invariant holds in every reachable state.
LEMMA LineInvariance == Spec => []LInv
  BY LineInit, LineStep, PTL DEF Spec

\* The line, the history and the reader's variables stay in their ranges.
THEOREM LineTypes == Spec => []TypeOK
<1>1. LInv => TypeOK
  BY DEF LInv
<1> QED
  BY <1>1, LineInvariance, PTL

\* What a reader gets begins with the line that was entered last, cut off after nbytes,
\* also when characters are typed between the statements of terminal_read, and is no
\* more than that if nothing is typed ahead (terminal_read, key_press, Enter).
THEOREM ReaderGetsLine == Spec => []ReadGetsLine
<1>1. LInv => ReadGetsLine
  BY DEF LInv
<1> QED
  BY <1>1, LineInvariance, PTL

\* After k more Up than Down the history points at the k-th newest line
\* (terminal_history, Enter).
THEOREM HistoryRecalls == Spec => []HistoryKthNewest
<1>1. LInv => HistoryKthNewest
  <2> SUFFICES ASSUME LInv, hist_chk > 0 PROVE history_buf[hist_ptr] = recent[hist_chk]
    BY DEF HistoryKthNewest
  <2>1. hist_chk \in 1..hist_cnt /\ hist_ptr = Back(hist_fill, hist_chk)
    BY DEF LInv, TypeOK, Ring
  <2> QED
    BY <2>1 DEF LInv, Ring
<1> QED
  BY <1>1, LineInvariance, PTL
=============================================================================
