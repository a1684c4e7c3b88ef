--------------------------- MODULE LineDiscipline ---------------------------
(***************************************************************************)
(* The line editor of one terminal (keyboard.c, Backspace and Enter of     *)
(* lib.c) and terminal_read, which hands the edited line to a program.     *)
(*                                                                         *)
(* The keyboard handler runs with interrupts disabled: one key is one      *)
(* step.  terminal_read runs with interrupts enabled, so every statement   *)
(* of it that touches the shared buffer is a step of its own and keys may  *)
(* come between any two.  The terminals share nothing here: a key goes to  *)
(* the viewed terminal, a read to the terminal of the reader, so one       *)
(* terminal stands for each of them and "no key comes" for not viewed.     *)
(***************************************************************************)
EXTENDS Integers, Sequences

CONSTANTS
  KEY_BUFF_SIZE,  \* 128 in keyboard.h
  MAX_HIST,       \* lines of history; 3 in keyboard.h
  TAB_SIZE,       \* 3 in keyboard.h
  NEWLINE,        \* the code of '\n', 10
  Letters,        \* characters that keys produce
  Sizes,          \* values of nbytes that programs ask for
  MaxAhead        \* bound: how many keys are typed ahead of one read

NOKE == "noke"   \* the character 0
NL == "nl"
SPACE == "space"

\* key_press drops a key without a character, and no scancode table holds '\n'
\* (keyboard.c:432, 27-160).
ASSUME LineAssumption ==
  /\ KEY_BUFF_SIZE \in Nat \ {0} /\ MAX_HIST \in Nat \ {0}
  /\ TAB_SIZE \in 1..KEY_BUFF_SIZE
  /\ NEWLINE \in 1..(KEY_BUFF_SIZE - 1)
  /\ NOKE \notin Letters /\ NL \notin Letters
  /\ Sizes \subseteq Nat
  /\ MaxAhead \in Nat

VARIABLES
  keyboard_buffer, keyboard_buf_idx,  \* the line being edited and its length
  Enter_flag, read_wanted,            \* flags of terminal_t
  history_buf,                        \* the ring of lines
  hist_ptr, hist_chk, hist_fill, hist_cnt,
  rpc,      \* where the reader stands in terminal_read
  limit,    \* local variable of terminal_read
  index,    \* index of its copy loop, then of clear_key_buf
  got,      \* the bytes it has copied to the program
  nbytes,   \* what the program asked for
  recent,   \* history: the lines entered, newest first, at most MAX_HIST
  ahead,    \* history: keys that came between an Enter and the end of its read
  undone    \* history: one of them was not a character

line == <<keyboard_buffer, keyboard_buf_idx>>
flags == <<Enter_flag, read_wanted>>
bank == <<history_buf, hist_ptr, hist_chk, hist_fill, hist_cnt, recent>>
reader == <<rpc, limit, index, got, nbytes>>
typed == <<ahead, undone>>
vars == <<line, flags, bank, reader, typed>>

\* -1 stands for every call that is refused: a NULL buffer, a negative size.
Requests == Sizes \cup {-1}

Chars == Letters \cup {NOKE, NL, SPACE}
Slots == 0..(KEY_BUFF_SIZE - 1)
Buffers == [Slots -> Chars]
Empty == [i \in Slots |-> NOKE]

ReaderPCs ==
  {"idle", "check", "wait", "limit", "limit2", "copy", "unflag", "clear", "idx0", "return"}

\* The reader has seen Enter_flag and has not finished with the buffer.
Taking == rpc \in {"limit", "limit2", "copy", "unflag", "clear", "idx0"}

TypeOK ==
  /\ keyboard_buffer \in Buffers /\ keyboard_buf_idx \in 0..KEY_BUFF_SIZE
  /\ Enter_flag \in {0, 1} /\ read_wanted \in {0, 1}
  /\ history_buf \in [0..(MAX_HIST - 1) -> Buffers]
  /\ hist_ptr \in 0..(MAX_HIST - 1) /\ hist_fill \in 0..(MAX_HIST - 1)
  /\ hist_cnt \in 0..MAX_HIST /\ hist_chk \in 0..hist_cnt
  /\ rpc \in ReaderPCs
  /\ limit \in 0..KEY_BUFF_SIZE /\ index \in 0..KEY_BUFF_SIZE
  /\ got \in Seq(Chars) /\ nbytes \in Requests
  /\ recent \in Seq(Buffers) /\ Len(recent) = hist_cnt
  /\ ahead \in 0..MaxAhead /\ undone \in BOOLEAN

\* terminal_init
Init ==
  /\ keyboard_buffer = Empty /\ keyboard_buf_idx = 0
  /\ Enter_flag = 0 /\ read_wanted = 0
  /\ history_buf = [h \in 0..(MAX_HIST - 1) |-> Empty]
  /\ hist_ptr = 0 /\ hist_chk = 0 /\ hist_fill = 0 /\ hist_cnt = 0
  /\ rpc = "idle" /\ limit = 0 /\ index = 0 /\ got = <<>> /\ nbytes = -1
  /\ recent = <<>> /\ ahead = 0 /\ undone = FALSE

-----------------------------------------------------------------------------
(* Keys.                                                                   *)

\* Every key that changes the line is counted if it is typed ahead; a character
\* adds to the line that waits for the reader, any other key undoes it.
NoteKey(undoes) ==
  IF Enter_flag = 1 \/ Taking
  THEN ahead < MaxAhead /\ ahead' = ahead + 1 /\ undone' = (undone \/ undoes)
  ELSE UNCHANGED typed

\* The first n slots of buffer b, the rest clear.
First(b, n) == [i \in Slots |-> IF i < n THEN b[i] ELSE NOKE]

\* b with the slots from lo up to hi - 1 set to c.
Fill(b, lo, hi, c) == [i \in Slots |-> IF lo <= i /\ i < hi THEN c ELSE b[i]]

\* key_press: a character key; the last slot is kept for Enter.
KeyPress(c) ==
  /\ keyboard_buf_idx < KEY_BUFF_SIZE - 1
  /\ keyboard_buffer' = [keyboard_buffer EXCEPT ![keyboard_buf_idx] = c]
  /\ keyboard_buf_idx' = keyboard_buf_idx + 1
  /\ NoteKey(FALSE)
  /\ UNCHANGED <<flags, bank, reader>>

\* Tab: TAB_SIZE spaces, if they fit.
Tab ==
  /\ keyboard_buf_idx + TAB_SIZE < KEY_BUFF_SIZE
  /\ keyboard_buffer' =
       Fill(keyboard_buffer, keyboard_buf_idx, keyboard_buf_idx + TAB_SIZE, SPACE)
  /\ keyboard_buf_idx' = keyboard_buf_idx + TAB_SIZE
  /\ NoteKey(FALSE)
  /\ UNCHANGED <<flags, bank, reader>>

\* Backspace
Erase ==
  /\ keyboard_buf_idx # 0
  /\ keyboard_buffer' = [keyboard_buffer EXCEPT ![keyboard_buf_idx - 1] = NOKE]
  /\ keyboard_buf_idx' = keyboard_buf_idx - 1
  /\ NoteKey(TRUE)
  /\ UNCHANGED <<flags, bank, reader>>

\* Mutant of KeepLine: the line is given up although a program waits for it.
KeepLineNever == FALSE

\* Enter() keeps the line and Enter_flag only for a program that wants to read.
KeepLine == read_wanted = 1

\* The store of the newline.  Behind the last slot lies keyboard_buf_idx itself,
\* so there it becomes the index.
IdxAfterNewline ==
  IF keyboard_buf_idx < KEY_BUFF_SIZE THEN keyboard_buf_idx + 1 ELSE NEWLINE + 1
BufAfterNewline ==
  [i \in Slots |-> IF i = keyboard_buf_idx THEN NL ELSE keyboard_buffer[i]]

\* Enter: the line is completed, copied to the history without its newline, and
\* either left for the reader or cleared.
EnterKey ==
  LET entered == First(BufAfterNewline, IdxAfterNewline - 1)
      fill == (hist_fill + 1) % MAX_HIST
      all == <<entered>> \o recent
  IN /\ history_buf' = [history_buf EXCEPT ![hist_fill] = entered]
     /\ hist_fill' = fill /\ hist_ptr' = fill /\ hist_chk' = 0
     /\ hist_cnt' = IF hist_cnt + 1 > MAX_HIST THEN MAX_HIST ELSE hist_cnt + 1
     /\ recent' = IF Len(all) > MAX_HIST THEN SubSeq(all, 1, MAX_HIST) ELSE all
     /\ IF KeepLine
        THEN /\ Enter_flag' = 1
             /\ keyboard_buffer' = BufAfterNewline
             /\ keyboard_buf_idx' = IdxAfterNewline
             /\ NoteKey(TRUE)
        ELSE /\ Enter_flag' = 0
             /\ keyboard_buffer' = Empty /\ keyboard_buf_idx' = 0
             /\ ahead' = 0 /\ undone' = FALSE
     /\ UNCHANGED <<read_wanted, reader>>

\* Mutant of PtrAfter: below 0 it wraps to the end of the ring, full or not.
PtrAfterToEnd(dir) ==
  IF hist_ptr + dir < 0 THEN MAX_HIST - 1
  ELSE IF hist_ptr + dir >= hist_cnt THEN 0 ELSE hist_ptr + dir

\* terminal_history's move of hist_ptr; dir is UP_ARROW (-1) or DOWN_ARROW (1).
PtrAfter(dir) ==
  IF hist_ptr + dir < 0 THEN hist_cnt - 1
  ELSE IF hist_ptr + dir >= hist_cnt THEN 0 ELSE hist_ptr + dir

\* Length of the line in a history buffer.
LineLength(b) ==
  IF \E i \in Slots : b[i] = NOKE
  THEN CHOOSE i \in Slots : b[i] = NOKE /\ \A j \in Slots : j < i => b[j] # NOKE
  ELSE KEY_BUFF_SIZE

\* Mutant of HistoryMoves: no stop at either end.
HistoryMovesAnyhow(dir) == hist_cnt # 0

\* Up stops at the oldest line, Down at the newest.
HistoryMoves(dir) ==
  /\ hist_cnt # 0
  /\ dir = -1 => hist_chk # hist_cnt
  /\ dir = 1 => hist_chk # 0

\* terminal_history: the line is erased and the next line of the history, with
\* the NOKE that ends it, is put in its place.
HistoryKey(dir) ==
  /\ HistoryMoves(dir)
  /\ hist_ptr' = PtrAfter(dir)
  /\ hist_chk' = hist_chk - dir
  /\ LET old == Fill(keyboard_buffer, 0, keyboard_buf_idx, NOKE)
         new == history_buf[PtrAfter(dir)]
         n == LineLength(new)
     IN /\ keyboard_buffer' = [i \in Slots |-> IF i <= n THEN new[i] ELSE old[i]]
        /\ keyboard_buf_idx' = n
  /\ NoteKey(TRUE)
  /\ UNCHANGED <<flags, history_buf, hist_fill, hist_cnt, recent, reader>>

-----------------------------------------------------------------------------
(* terminal_read.                                                          *)

Step(from, to) == rpc = from /\ rpc' = to

\* A program calls terminal_read.
ReadCall(n) ==
  /\ Step("idle", "check")
  /\ read_wanted' = 1 /\ nbytes' = n
  /\ UNCHANGED <<line, Enter_flag, bank, limit, index, got, typed>>

\* A NULL buffer or a negative size: -1, and read_wanted stays set.
ReadRefuse ==
  /\ nbytes < 0 /\ Step("check", "idle")
  /\ UNCHANGED <<line, flags, bank, limit, index, got, nbytes, typed>>

ReadAccept ==
  /\ nbytes >= 0 /\ Step("check", "wait")
  /\ limit' = IF nbytes < KEY_BUFF_SIZE THEN nbytes ELSE KEY_BUFF_SIZE
  /\ UNCHANGED <<line, flags, bank, index, got, nbytes, typed>>

\* The loop that waits for Enter ends.
ReadWake ==
  /\ Enter_flag = 1 /\ Step("wait", "limit")
  /\ UNCHANGED <<line, flags, bank, limit, index, got, nbytes, typed>>

\* if (limit > keyboard_buf_idx) limit = keyboard_buf_idx reads the index twice.
ReadCompare ==
  /\ rpc = "limit"
  /\ rpc' = IF limit > keyboard_buf_idx THEN "limit2" ELSE "copy"
  /\ UNCHANGED <<line, flags, bank, limit, index, got, nbytes, typed>>

\* Mutant of ReadAssign: the newline is left out.
ReadAssignNoNewline ==
  /\ Step("limit2", "copy")
  /\ limit' = IF keyboard_buf_idx = 0 THEN 0 ELSE keyboard_buf_idx - 1
  /\ UNCHANGED <<line, flags, bank, index, got, nbytes, typed>>

ReadAssign ==
  /\ Step("limit2", "copy")
  /\ limit' = keyboard_buf_idx
  /\ UNCHANGED <<line, flags, bank, index, got, nbytes, typed>>

\* One round of the copy loop, and its end.
ReadCopy ==
  /\ rpc = "copy"
  /\ IF index < limit
     THEN /\ got' = Append(got, keyboard_buffer[index])
          /\ index' = index + 1
          /\ UNCHANGED rpc
     ELSE rpc' = "unflag" /\ index' = 0 /\ UNCHANGED got
  /\ UNCHANGED <<line, flags, bank, limit, nbytes, typed>>

ReadUnflag ==
  /\ Step("unflag", "clear")
  /\ Enter_flag' = 0
  /\ UNCHANGED <<line, read_wanted, bank, limit, index, got, nbytes, typed>>

\* clear_key_buf, slot by slot, then the index.
ReadClear ==
  /\ rpc = "clear"
  /\ IF index < KEY_BUFF_SIZE
     THEN /\ keyboard_buffer' = [keyboard_buffer EXCEPT ![index] = NOKE]
          /\ index' = index + 1
          /\ UNCHANGED rpc
     ELSE rpc' = "idx0" /\ UNCHANGED <<keyboard_buffer, index>>
  /\ UNCHANGED <<keyboard_buf_idx, flags, bank, limit, got, nbytes, typed>>

ReadClearIdx ==
  /\ Step("idx0", "return")
  /\ keyboard_buf_idx' = 0
  /\ ahead' = IF Enter_flag = 1 THEN ahead ELSE 0
  /\ undone' = (undone /\ Enter_flag = 1)
  /\ UNCHANGED <<keyboard_buffer, flags, bank, limit, index, got, nbytes>>

ReadReturn ==
  /\ Step("return", "idle")
  /\ read_wanted' = 0
  /\ limit' = 0 /\ index' = 0 /\ got' = <<>> /\ nbytes' = -1
  /\ UNCHANGED <<line, Enter_flag, bank, typed>>

-----------------------------------------------------------------------------
Keyboard ==
  \/ \E c \in Letters : KeyPress(c)
  \/ Tab \/ Erase \/ EnterKey
  \/ \E dir \in {-1, 1} : HistoryKey(dir)

Reader ==
  \/ ReadRefuse \/ ReadAccept \/ ReadWake \/ ReadCompare \/ ReadAssign
  \/ ReadCopy \/ ReadUnflag \/ ReadClear \/ ReadClearIdx \/ ReadReturn

Next == Keyboard \/ (\E n \in Requests : ReadCall(n)) \/ Reader

Spec == Init /\ [][Next]_vars

\* The reader's terminal is scheduled again and again (EveryTerminalScheduled of
\* module Kernel), so a reader that can go on does.
FairSpec == Spec /\ WF_vars(Reader)

-----------------------------------------------------------------------------
\* What a program gets begins with the line that was entered last and its newline,
\* cut off after nbytes, also when characters are typed while the reader wakes,
\* compares, copies and clears; and it is no more than that if nothing is typed.
\* Editing, the history, the discarded lines that nobody asked for and refused calls
\* in between leave no trace in it (terminal_read, Enter).
ReadGetsLine ==
  rpc \in {"unflag", "clear", "idx0"} /\ ~undone =>
    LET n == LineLength(recent[1])
        full == [i \in 1..(n + 1) |-> IF i <= n THEN recent[1][i - 1] ELSE NL]
        m == IF nbytes <= n THEN nbytes ELSE n + 1
    IN /\ m <= Len(got) /\ SubSeq(got, 1, m) = SubSeq(full, 1, m)
       /\ ahead = 0 => Len(got) = m

\* After k more Up than Down the history points at the k-th newest line, also
\* while the ring is not yet full and after it has wrapped ("Starts with most
\* recent", keyboard.c:722).
HistoryKthNewest == hist_chk > 0 => history_buf[hist_ptr] = recent[hist_chk]

\* A read that was not refused ends if the user goes on pressing Enter: the
\* flag that Enter sets is never lost before the reader has seen it.
ReadEnds == []<><<EnterKey>>_vars => (rpc = "wait" ~> rpc = "idle")

\* The newline always finds its slot in the buffer ("only allow 127 charcaters
\* plus enter hence -1", keyboard.c:430).
EnterFits == [][EnterKey => keyboard_buf_idx < KEY_BUFF_SIZE]_vars
=============================================================================
