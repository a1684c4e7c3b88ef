------------------------------- MODULE Screen -------------------------------
(***************************************************************************)
(* The screens of the terminals: term_putc, term_clear and terminal_write  *)
(* (keyboard.c), Backspace, Enter and scroll_screen (lib.c), the video     *)
(* memory part of terminal_switch, and the page table entries that give    *)
(* each terminal either the video memory or a buffer of its own            *)
(* (paging.c).                                                             *)
(*                                                                         *)
(* A program's terminal_write runs with interrupts enabled: the statements *)
(* of its term_putc are steps, and so are the rows that scroll_screen      *)
(* moves and the port writes of move_cursor.  The keyboard handler runs    *)
(* with interrupts disabled: a key is one step.  Colours are left out.     *)
(* Tab and the history keys are runs of EchoChar and EchoErase steps.      *)
(***************************************************************************)
EXTENDS Integers, Sequences

CONSTANTS
  NUM_TERM,   \* 3 in keyboard.h
  NUM_COLS,   \* 80
  NUM_ROWS,   \* 25
  BYTE,       \* values of a register of the VGA; 256
  KeyLimit,   \* longest line of the keyboard buffer; 128
  PromptLen,  \* length of what term_clear writes, "391OS> "; 7
  Glyphs,     \* characters that programs and keys put on the screen
  MaxPuts,    \* bound: characters put on the screens, and screens cleared
  Timing      \* what may happen, see below

AllTiming ==
  {"echo",    \* a key is echoed between two steps of a write to its terminal
   "clear"}   \* Ctrl+L on a terminal that has an unfinished line

ASSUME ScreenAssumption ==
  /\ NUM_TERM \in Nat \ {0} /\ NUM_COLS \in 1..255 /\ NUM_ROWS \in 1..254
  /\ BYTE \in Nat \ {0}
  /\ KeyLimit \in 0..((NUM_ROWS - 1) * NUM_COLS)
  /\ PromptLen \in 1..(NUM_COLS - 1)
  /\ Timing \subseteq AllTiming /\ MaxPuts \in Nat

VARIABLES
  page_tab_array_video,  \* per terminal: "video", or "buf" for its own buffer
  mem,                   \* the page frames: the video memory and the buffers
  screen_x, screen_y,    \* cursor of each terminal
  viewing_term,
  running,               \* terminals that have programs
  keyboard_buf_idx,      \* length of the line being edited on each terminal
  wpc,                   \* where the writer of each terminal stands
  row,                   \* scroll_screen's y in the writer of each terminal
  position,              \* move_cursor's position in the writer of each terminal
  vga,                   \* its cursor registers, and which of them is selected
  rows,                  \* history: what was put on each screen, row by row
  plain,                 \* history: no program has stored into video memory itself
  overtaken,             \* history: the last switch came into a move_cursor
  puts                   \* how much of MaxPuts has been used

video == <<page_tab_array_video, mem>>
cursor == <<screen_x, screen_y>>
writer == <<wpc, row, position>>
view == <<viewing_term, running, overtaken>>
ghosts == <<rows, plain>>
vars == <<video, cursor, view, keyboard_buf_idx, writer, vga, ghosts, puts>>

Terms == 0..(NUM_TERM - 1)
Cells == 0..(NUM_ROWS * NUM_COLS - 1)
Blank == " "
Prompt == [i \in 1..PromptLen |-> ">"]
OnScreen == Glyphs \cup {">", Blank}
Pages == [Cells -> OnScreen]
Frames == Terms \cup {NUM_TERM}
VIDEO == NUM_TERM   \* the frame of the video memory

\* The port writes of move_cursor.
Ports == {"select low", "low", "select high", "high"}
WriterPCs == {"idle", "advance", "wrap", "down", "roll", "scroll", "cursor"} \cup Ports

TypeOK ==
  /\ page_tab_array_video \in [Terms -> {"video", "buf"}]
  /\ mem \in [Frames -> Pages]
  /\ \A t \in Terms :
       /\ screen_x[t] \in 0..(IF wpc[t] = "wrap" THEN NUM_COLS ELSE NUM_COLS - 1)
       /\ screen_y[t] \in 0..(IF wpc[t] \in {"roll", "scroll"} THEN NUM_ROWS ELSE NUM_ROWS - 1)
  /\ viewing_term \in Terms /\ running \subseteq Terms
  /\ keyboard_buf_idx \in [Terms -> 0..KeyLimit]
  /\ wpc \in [Terms -> WriterPCs] /\ row \in [Terms -> 0..(NUM_ROWS - 1)]
  /\ position \in [Terms -> 0..(NUM_COLS * 255 + 255)]
  /\ vga \in [selected : {"low", "high"}, low : 0..(BYTE - 1), high : 0..(BYTE - 1)]
  /\ rows \in [Terms -> Seq(Seq(OnScreen))]
  /\ plain \in [Terms -> BOOLEAN] /\ overtaken \in BOOLEAN /\ puts \in 0..MaxPuts

\* The frame that terminal t's video page is mapped to under page table pt.
FrameUnder(pt, t) == IF pt[t] = "video" THEN VIDEO ELSE t
Frame(t) == FrameUnder(page_tab_array_video, t)
Content(t) == mem[Frame(t)]

-----------------------------------------------------------------------------
(* One terminal's page and cursor as a record, and what an uninterrupted   *)
(* term_putc, Enter, Backspace and term_clear make of it.                  *)

\* scroll_screen
Scrolled(s) ==
  [cells |-> [i \in Cells |-> IF i + NUM_COLS \in Cells THEN s.cells[i + NUM_COLS]
                              ELSE Blank],
   x |-> 0, y |-> NUM_ROWS - 1]

\* Mutant of NextRow: the row is compared before it is incremented.
NextRowLate(s) ==
  IF s.y = NUM_ROWS THEN Scrolled(s) ELSE [s EXCEPT !.x = 0, !.y = @ + 1]

\* The cursor goes to the start of the next row; both term_putc and Enter.
NextRow(s) ==
  IF s.y + 1 = NUM_ROWS THEN Scrolled(s) ELSE [s EXCEPT !.x = 0, !.y = @ + 1]

\* A store at an index behind the last row hits no cell.
PutGlyph(cells, x, y, c) == [i \in Cells |-> IF i = NUM_COLS * y + x THEN c ELSE cells[i]]

\* term_putc of a character that is not a newline
Put(s, c) ==
  LET stored == [s EXCEPT !.cells = PutGlyph(s.cells, s.x, s.y, c), !.x = @ + 1]
  IN IF stored.x = NUM_COLS THEN NextRow(stored) ELSE stored

\* Backspace
Erased(s) ==
  LET x == IF s.x = 0 THEN NUM_COLS - 1 ELSE s.x - 1
      y == IF s.x = 0 THEN (s.y + 255) % 256 ELSE s.y
  IN [cells |-> PutGlyph(s.cells, x, y, Blank), x |-> x, y |-> y]

\* term_clear: a blank page with the prompt.
Cleared ==
  [cells |-> [i \in Cells |-> IF i < Len(Prompt) THEN Prompt[i + 1] ELSE Blank],
   x |-> Len(Prompt), y |-> 0]

\* The cursor registers after an uninterrupted move_cursor to column x of row y.
Linear(x, y) == NUM_COLS * y + x
CursorAt(x, y) ==
  [selected |-> "high", low |-> Linear(x, y) % BYTE, high |-> (Linear(x, y) \div BYTE) % BYTE]

Screen(t) == [cells |-> Content(t), x |-> screen_x[t], y |-> screen_y[t]]

SetScreen(t, s) ==
  /\ mem' = [mem EXCEPT ![Frame(t)] = s.cells]
  /\ screen_x' = [screen_x EXCEPT ![t] = s.x]
  /\ screen_y' = [screen_y EXCEPT ![t] = s.y]

-----------------------------------------------------------------------------
(* The same as rows of text: the reference that the screens are compared   *)
(* with.  The last row is the one the cursor is in.                        *)

Trim(r) == IF Len(r) > NUM_ROWS THEN Tail(r) ELSE r
RowsBreak(r) == Trim(Append(r, <<>>))
RowsPut(r, c) ==
  LET n == Len(r)
      grown == [r EXCEPT ![n] = Append(@, c)]
  IN IF Len(grown[n]) = NUM_COLS THEN RowsBreak(grown) ELSE grown

\* Erasing in an empty row goes to the last column of the row above.
RowsErase(r) ==
  LET n == Len(r)
      cut(s, k) == [i \in 1..k |-> IF i <= Len(s) THEN s[i] ELSE Blank]
  IN IF r = <<<<>>>> THEN r
     ELSE IF r[n] # <<>> THEN [r EXCEPT ![n] = cut(@, Len(@) - 1)]
     ELSE Append(SubSeq(r, 1, n - 2), cut(r[n - 1], NUM_COLS - 1))

Painted(r) ==
  [i \in Cells |->
     LET y == (i \div NUM_COLS) + 1
         x == (i % NUM_COLS) + 1
     IN IF y <= Len(r) /\ x <= Len(r[y]) THEN r[y][x] ELSE Blank]

SetRows(t, r) == rows' = [rows EXCEPT ![t] = r]

-----------------------------------------------------------------------------
\* After terminal_init: terminal 0 is viewed and cleared; then its shell runs.
Init ==
  /\ page_tab_array_video = [t \in Terms |-> IF t = 0 THEN "video" ELSE "buf"]
  /\ mem = [f \in Frames |-> IF f = VIDEO THEN Cleared.cells ELSE [i \in Cells |-> Blank]]
  /\ screen_x = [t \in Terms |-> IF t = 0 THEN Cleared.x ELSE 0]
  /\ screen_y = [t \in Terms |-> 0]
  /\ viewing_term = 0 /\ running = {0}
  /\ keyboard_buf_idx = [t \in Terms |-> 0]
  /\ wpc = [t \in Terms |-> "idle"] /\ row = [t \in Terms |-> 0]
  /\ rows = [t \in Terms |-> IF t = 0 THEN <<Prompt>> ELSE <<<<>>>>]
  /\ position = [t \in Terms |-> 0] /\ vga = CursorAt(Cleared.x, Cleared.y)
  /\ plain = [t \in Terms |-> TRUE] /\ overtaken = FALSE /\ puts = 0

\* One more of the bounded steps.
Count == puts < MaxPuts /\ puts' = puts + 1

(* terminal_write by the program of terminal t, whose term_putc is         *)
(* preempted anywhere.                                                     *)

WriterAt(t, from) == t \in running /\ wpc[t] = from
WriterTo(t, to) == wpc' = [wpc EXCEPT ![t] = to]

\* The glyph is stored at the cursor.
WStore(t, c) ==
  /\ WriterAt(t, "idle") /\ WriterTo(t, "advance") /\ Count
  /\ mem' = [mem EXCEPT ![Frame(t)] = PutGlyph(@, screen_x[t], screen_y[t], c)]
  /\ SetRows(t, RowsPut(rows[t], c))
  /\ UNCHANGED <<page_tab_array_video, cursor, view, keyboard_buf_idx, row, position,
                 vga, plain>>

\* screen_x++
WAdvance(t) ==
  /\ WriterAt(t, "advance") /\ WriterTo(t, "wrap")
  /\ screen_x' = [screen_x EXCEPT ![t] = (@ + 1) % 256]
  /\ UNCHANGED <<video, screen_y, view, keyboard_buf_idx, row, position, vga, ghosts, puts>>

\* At the end of the row the cursor goes to the start of the row.
WWrap(t) ==
  /\ WriterAt(t, "wrap")
  /\ IF screen_x[t] = NUM_COLS
     THEN WriterTo(t, "down") /\ screen_x' = [screen_x EXCEPT ![t] = 0]
     ELSE WriterTo(t, "cursor") /\ UNCHANGED screen_x
  /\ UNCHANGED <<video, screen_y, view, keyboard_buf_idx, row, position, vga, ghosts, puts>>

\* A newline character.
WBreak(t) ==
  /\ WriterAt(t, "idle") /\ WriterTo(t, "down") /\ Count
  /\ screen_x' = [screen_x EXCEPT ![t] = 0]
  /\ SetRows(t, RowsBreak(rows[t]))
  /\ UNCHANGED <<video, screen_y, view, keyboard_buf_idx, row, position, vga, plain>>

\* screen_y++
WDown(t) ==
  /\ WriterAt(t, "down") /\ WriterTo(t, "roll")
  /\ screen_y' = [screen_y EXCEPT ![t] = (@ + 1) % 256]
  /\ UNCHANGED <<video, screen_x, view, keyboard_buf_idx, row, position, vga, ghosts, puts>>

\* The test for the last row.
WRoll(t) ==
  /\ WriterAt(t, "roll")
  /\ WriterTo(t, IF screen_y[t] = NUM_ROWS THEN "scroll" ELSE "cursor")
  /\ UNCHANGED <<video, cursor, view, keyboard_buf_idx, row, position, vga, ghosts, puts>>

\* scroll_screen: one row is copied up, or the last one cleared and the cursor set.
\* Its move_cursor and the one of term_putc behind it write the same: one move.
WScroll(t) ==
  /\ WriterAt(t, "scroll")
  /\ LET y == row[t]
         inRow(i) == i \div NUM_COLS = y
     IN IF y < NUM_ROWS - 1
        THEN /\ mem' = [mem EXCEPT ![Frame(t)] =
                          [i \in Cells |-> IF inRow(i) THEN @[i + NUM_COLS] ELSE @[i]]]
             /\ row' = [row EXCEPT ![t] = y + 1]
             /\ UNCHANGED <<cursor, wpc>>
        ELSE /\ SetScreen(t, [cells |-> [i \in Cells |-> IF inRow(i) THEN Blank
                                                         ELSE Content(t)[i]],
                              x |-> 0, y |-> NUM_ROWS - 1])
             /\ row' = [row EXCEPT ![t] = 0]
             /\ WriterTo(t, "cursor")
  /\ UNCHANGED <<page_tab_array_video, view, keyboard_buf_idx, position, vga, ghosts, puts>>

\* Mutant of MovesCursor: every terminal moves the one cursor there is.
MovesCursorAnyhow(t) == TRUE

\* move_cursor is for the terminal in view.
MovesCursor(t) == t = viewing_term

\* move_cursor's check, and the position that it will write.
WCursor(t) ==
  /\ WriterAt(t, "cursor")
  /\ IF MovesCursor(t)
     THEN /\ WriterTo(t, "select low")
          /\ position' = [position EXCEPT ![t] = Linear(screen_x[t], screen_y[t])]
     ELSE WriterTo(t, "idle") /\ UNCHANGED position
  /\ UNCHANGED <<video, cursor, view, keyboard_buf_idx, row, vga, ghosts, puts>>

\* An outb to the index register of the VGA.
WSelect(t, from, part) ==
  /\ WriterAt(t, from) /\ WriterTo(t, part)
  /\ vga' = [vga EXCEPT !.selected = part]
  /\ UNCHANGED <<video, cursor, view, keyboard_buf_idx, row, position, ghosts, puts>>

\* An outb to its data register goes to the register that is selected.
Output(b) == vga' = [vga EXCEPT ![vga.selected] = b]

WLow(t) ==
  /\ WriterAt(t, "low") /\ WriterTo(t, "select high")
  /\ Output(position[t] % BYTE)
  /\ UNCHANGED <<video, cursor, view, keyboard_buf_idx, row, position, ghosts, puts>>

WHigh(t) ==
  /\ WriterAt(t, "high") /\ WriterTo(t, "idle")
  /\ Output((position[t] \div BYTE) % BYTE)
  /\ position' = [position EXCEPT ![t] = 0]
  /\ UNCHANGED <<video, cursor, view, keyboard_buf_idx, row, ghosts, puts>>

\* A program that has called vidmap stores into its page itself.
VidmapStore(t, i, c) ==
  /\ WriterAt(t, "idle") /\ Count
  /\ mem' = [mem EXCEPT ![Frame(t)][i] = c]
  /\ plain' = [plain EXCEPT ![t] = FALSE]
  /\ UNCHANGED <<page_tab_array_video, cursor, view, keyboard_buf_idx, writer, vga, rows>>

-----------------------------------------------------------------------------
(* Keys, on the viewed terminal.                                           *)

MayEcho == "echo" \in Timing \/ wpc[viewing_term] = "idle"

Echo(s, r) ==
  /\ MayEcho
  /\ SetScreen(viewing_term, s) /\ SetRows(viewing_term, r)
  /\ vga' = CursorAt(s.x, s.y)
  /\ UNCHANGED <<page_tab_array_video, view, writer>>

SetIdx(t, n) == keyboard_buf_idx' = [keyboard_buf_idx EXCEPT ![t] = n]

\* key_press
EchoChar(c) ==
  LET t == viewing_term IN
  /\ keyboard_buf_idx[t] < KeyLimit - 1 /\ Count
  /\ Echo(Put(Screen(t), c), RowsPut(rows[t], c))
  /\ SetIdx(t, keyboard_buf_idx[t] + 1)
  /\ UNCHANGED plain

\* Enter: the line is discarded, or waits for its reader.
EchoEnter ==
  LET t == viewing_term IN
  /\ Count
  /\ Echo(NextRow(Screen(t)), RowsBreak(rows[t]))
  /\ \/ SetIdx(t, 0)
     \/ keyboard_buf_idx[t] < KeyLimit /\ SetIdx(t, keyboard_buf_idx[t] + 1)
  /\ UNCHANGED plain

\* Backspace
EchoErase ==
  LET t == viewing_term IN
  /\ keyboard_buf_idx[t] # 0
  /\ Echo(Erased(Screen(t)), RowsErase(rows[t]))
  /\ SetIdx(t, keyboard_buf_idx[t] - 1)
  /\ UNCHANGED <<plain, puts>>

\* Ctrl+L: term_clear, which leaves the keyboard buffer alone.
EchoClear ==
  LET t == viewing_term IN
  /\ keyboard_buf_idx[t] # 0 => "clear" \in Timing
  /\ Count
  /\ Echo(Cleared, <<Prompt>>)
  /\ plain' = [plain EXCEPT ![t] = TRUE]
  /\ UNCHANGED keyboard_buf_idx

\* printf of a handler writes a line to the terminal that is scheduled, in view or
\* not: the refusals of terminal_switch, the reports of exceptions.  What execute
\* prints is printed like a program's terminal_write.
Printf(t, c) ==
  LET s == NextRow(Put(Screen(t), c)) IN
  /\ t \in running /\ ("echo" \in Timing \/ wpc[t] = "idle") /\ Count
  /\ SetScreen(t, s) /\ SetRows(t, RowsBreak(RowsPut(rows[t], c)))
  /\ vga' = IF MovesCursor(t) THEN CursorAt(s.x, s.y) ELSE vga
  /\ UNCHANGED <<page_tab_array_video, view, keyboard_buf_idx, writer, plain>>

\* terminal_read empties the keyboard buffer.
LineTaken(t) ==
  /\ t \in running /\ keyboard_buf_idx[t] # 0
  /\ SetIdx(t, 0)
  /\ UNCHANGED <<video, cursor, view, writer, vga, ghosts, puts>>

\* Mutant of SwitchedMem: the new page is brought in before the old one is saved.
SwitchedMemLate(cur, dest) ==
  LET unmapped == [page_tab_array_video EXCEPT ![cur] = "buf"]
      brought == [mem EXCEPT ![VIDEO] = mem[FrameUnder(unmapped, dest)]]
  IN [brought EXCEPT ![FrameUnder(unmapped, cur)] = brought[VIDEO]]

\* The copies of terminal_switch: cur is mapped to its buffer and saved there,
\* then dest's page is copied into the video memory.
SwitchedMem(cur, dest) ==
  LET unmapped == [page_tab_array_video EXCEPT ![cur] = "buf"]
      saved == [mem EXCEPT ![FrameUnder(unmapped, cur)] = mem[VIDEO]]
  IN [saved EXCEPT ![VIDEO] = saved[FrameUnder(unmapped, dest)]]

\* Mutant of SwitchedMap: the old terminal keeps the video memory.
SwitchedMapKeeps(cur, dest) == [page_tab_array_video EXCEPT ![dest] = "video"]

\* Its page table entries: cur gets its buffer, dest the video memory.
SwitchedMap(cur, dest) ==
  [page_tab_array_video EXCEPT ![cur] = "buf", ![dest] = "video"]

\* terminal_switch to a terminal that runs programs, and to one that is opened.
SwitchTo(dest) ==
  LET cur == viewing_term IN
  /\ dest # cur
  /\ viewing_term' = dest
  /\ overtaken' = (\E t \in Terms : wpc[t] \in Ports)
  /\ page_tab_array_video' = SwitchedMap(cur, dest)
  /\ \/ /\ dest \in running
        /\ mem' = SwitchedMem(cur, dest)
        /\ UNCHANGED <<cursor, running, ghosts>>
     \/ /\ dest \notin running
        /\ running' = running \cup {dest}
        /\ mem' = [SwitchedMem(cur, dest) EXCEPT ![VIDEO] = Cleared.cells]
        /\ screen_x' = [screen_x EXCEPT ![dest] = Cleared.x]
        /\ screen_y' = [screen_y EXCEPT ![dest] = Cleared.y]
        /\ SetRows(dest, <<Prompt>>)
        /\ plain' = [plain EXCEPT ![dest] = TRUE]
  /\ vga' = CursorAt(screen_x'[dest], screen_y'[dest])
  /\ UNCHANGED <<keyboard_buf_idx, writer, puts>>

-----------------------------------------------------------------------------
Writes(t) ==
  \/ \E c \in Glyphs : WStore(t, c)
  \/ WAdvance(t) \/ WWrap(t) \/ WBreak(t) \/ WDown(t) \/ WRoll(t) \/ WScroll(t)
  \/ WCursor(t)
  \/ WSelect(t, "select low", "low") \/ WLow(t)
  \/ WSelect(t, "select high", "high") \/ WHigh(t)
  \/ \E i \in Cells, c \in Glyphs : VidmapStore(t, i, c)

Next ==
  \/ \E t \in Terms : Writes(t) \/ LineTaken(t)
  \/ \E c \in Glyphs : EchoChar(c)
  \/ EchoEnter \/ EchoErase \/ EchoClear
  \/ \E t \in Terms, c \in Glyphs : Printf(t, c)
  \/ \E dest \in Terms : SwitchTo(dest)

Spec == Init /\ [][Next]_vars

-----------------------------------------------------------------------------
\* Exactly the viewed terminal's page is the video memory; every other one is
\* mapped to its own buffer, so that what runs in the background can neither be
\* seen nor overwrite what is seen (map_term_to_buf, map_term_to_vid).
OnlyViewedOnVideo ==
  \A t \in Terms : page_tab_array_video[t] = "video" <=> t = viewing_term

\* Every terminal's page holds exactly the text put on it, wrapped and scrolled,
\* whatever the other terminals write and however often the user switches, even
\* in the middle of a scroll; and the cursor is behind the text.
ScreensHoldText ==
  \A t \in Terms : wpc[t] = "idle" =>
    /\ screen_y[t] = Len(rows[t]) - 1
    /\ screen_x[t] = Len(rows[t][Len(rows[t])])
    /\ plain[t] => Content(t) = Painted(rows[t])

\* The one cursor of the hardware stands where the terminal in view will write,
\* whatever is written on the others and however often the view is switched,
\* unless the last switch came between the check of move_cursor and its stores.
CursorFollows ==
  ~overtaken /\ wpc[viewing_term] = "idle" =>
    vga = CursorAt(screen_x[viewing_term], screen_y[viewing_term])

\* Between two characters the cursor is on the screen: "scrolls screen up when
\* row limit reached" (lib.c:115) comes in time.
CursorOnScreen ==
  \A t \in Terms : wpc[t] = "idle" => screen_x[t] < NUM_COLS /\ screen_y[t] < NUM_ROWS
=============================================================================
