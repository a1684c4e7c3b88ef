---------------------------- MODULE ScreenProofs ----------------------------
(***************************************************************************)
(* For any number of terminals and any size of the screen: exactly the     *)
(* viewed terminal writes into the video memory, also if keys are echoed   *)
(* into a write that is under way; if they are not, the cursor of the      *)
(* hardware stands where the viewed terminal will write, and every         *)
(* terminal's page holds exactly the text that was put on it.              *)
(***************************************************************************)
EXTENDS Screen, SequenceTheorems, TLAPS

-----------------------------------------------------------------------------
(* The video memory and the cursor of the hardware.                        *)


\* What the proof needs of the types.
MapInv ==
  /\ page_tab_array_video \in [Terms -> {"video", "buf"}]
  /\ viewing_term \in Terms
  /\ OnlyViewedOnVideo

LEMMA MapInit == Init => MapInv
<1>1. 0 \in Terms
  BY ScreenAssumption DEF Terms
<1> QED
  BY <1>1 DEF Init, MapInv, OnlyViewedOnVideo

\* Only terminal_switch changes the page table or the view.
LEMMA OthersKeepMap ==
  ASSUME Next, \A dest \in Terms : ~SwitchTo(dest)
  PROVE  UNCHANGED <<page_tab_array_video, viewing_term>>
<1>1. ASSUME NEW t \in Terms, Writes(t) \/ LineTaken(t)
      PROVE  UNCHANGED <<page_tab_array_video, viewing_term>>
  BY <1>1 DEF Writes, WStore, WAdvance, WWrap, WBreak, WDown, WRoll, WScroll, WCursor,
              WSelect, WLow, WHigh, VidmapStore, LineTaken, video, view
<1>2. ASSUME NEW c \in Glyphs, EchoChar(c)
      PROVE  UNCHANGED <<page_tab_array_video, viewing_term>>
  BY <1>2 DEF EchoChar, Echo, view
<1>3. CASE EchoEnter \/ EchoErase \/ EchoClear
  BY <1>3 DEF EchoEnter, EchoErase, EchoClear, Echo, view
<1>4. ASSUME NEW t \in Terms, NEW c \in Glyphs, Printf(t, c)
      PROVE  UNCHANGED <<page_tab_array_video, viewing_term>>
  BY <1>4 DEF Printf, view
<1> QED
  BY <1>1, <1>2, <1>3, <1>4 DEF Next

\* Every step keeps the map right.
LEMMA MapStep == MapInv /\ [Next]_vars => MapInv'
<1> SUFFICES ASSUME MapInv, [Next]_vars PROVE MapInv'
  OBVIOUS
<1>1. ASSUME NEW dest \in Terms, SwitchTo(dest) PROVE MapInv'
  BY <1>1 DEF SwitchTo, SwitchedMap, MapInv, OnlyViewedOnVideo
<1>2. CASE UNCHANGED <<page_tab_array_video, viewing_term>>
  BY <1>2 DEF MapInv, OnlyViewedOnVideo
<1> QED
  BY <1>1, <1>2, OthersKeepMap DEF vars, video, view

\* What runs in the background is never mapped to the video memory and what is
\* viewed always is (map_term_to_buf, map_term_to_vid, terminal_switch).
THEOREM ViewedIsMapped == Spec => []OnlyViewedOnVideo
<1>1. MapInv => OnlyViewedOnVideo
  BY DEF MapInv
<1> QED
  BY MapInit, MapStep, <1>1, PTL DEF Spec

-----------------------------------------------------------------------------
(* The cursor of the hardware.                                             *)

\* What the proof needs of the types.
CursorShapes ==
  /\ viewing_term \in Terms
  /\ wpc \in [Terms -> WriterPCs]
  /\ screen_x = [t \in Terms |-> screen_x[t]] /\ screen_y = [t \in Terms |-> screen_y[t]]
  /\ position = [t \in Terms |-> position[t]]
  /\ vga = [selected |-> vga.selected, low |-> vga.low, high |-> vga.high]
  /\ vga.selected \in {"low", "high"}

Here(t) == Linear(screen_x[t], screen_y[t])

\* How far the writer of the viewed terminal has come with the registers.
Registers(t) ==
  /\ wpc[t] = "idle" => vga = CursorAt(screen_x[t], screen_y[t])
  /\ wpc[t] \in Ports => position[t] = Here(t)
  /\ wpc[t] = "low" => vga.selected = "low"
  /\ wpc[t] \in {"select high", "high"} => vga.low = Here(t) % BYTE
  /\ wpc[t] = "high" => vga.selected = "high"

\* Unless the last switch overtook a move_cursor, no other writer is about to
\* store into the registers.
CursorInv ==
  /\ CursorShapes
  /\ ~overtaken => /\ \A t \in Terms : wpc[t] \in Ports => t = viewing_term
                   /\ Registers(viewing_term)

LEMMA CursorInit == Init => CursorInv
<1> SUFFICES ASSUME Init PROVE CursorInv
  OBVIOUS
<1>1. 0 \in Terms
  BY ScreenAssumption DEF Terms
<1>2. CursorShapes
  BY <1>1 DEF Init, CursorShapes, WriterPCs, CursorAt
<1>3. Registers(viewing_term) /\ \A t \in Terms : wpc[t] \notin Ports
  <2>1. Cleared.y = 0 /\ \A t \in Terms : wpc[t] = "idle"
    BY DEF Init, Cleared
  <2>2. screen_x[0] = Cleared.x /\ screen_y[0] = Cleared.y /\ viewing_term = 0
    BY <1>1, <2>1 DEF Init
  <2>3. vga = CursorAt(screen_x[0], screen_y[0])
    BY <2>2 DEF Init
  <2> QED
    BY <1>1, <2>1, <2>2, <2>3 DEF Registers, Ports
<1> QED
  BY <1>2, <1>3 DEF CursorInv

\* A step of a writer that leaves the registers and the view alone, up to the
\* check of move_cursor.
LEMMA BeforePorts ==
  ASSUME CursorInv, NEW t \in Terms, NEW to \in WriterPCs \ Ports,
         wpc[t] \notin Ports, wpc' = [wpc EXCEPT ![t] = to],
         to = "idle" => t # viewing_term,
         screen_x' = [u \in Terms |-> screen_x'[u]],
         screen_y' = [u \in Terms |-> screen_y'[u]],
         \A u \in Terms : u # t => screen_x'[u] = screen_x[u] /\ screen_y'[u] = screen_y[u],
         UNCHANGED <<position, vga, viewing_term, overtaken>>
  PROVE  CursorInv'
<1>1. CursorShapes'
  BY DEF CursorInv, CursorShapes
<1>2. \A u \in Terms : wpc'[u] = IF u = t THEN to ELSE wpc[u]
  BY DEF CursorInv, CursorShapes
<1>3. ASSUME ~overtaken, NEW u \in Terms, wpc'[u] \in Ports PROVE u = viewing_term
  BY <1>2, <1>3 DEF CursorInv
<1>4. ASSUME ~overtaken PROVE Registers(viewing_term)'
  <2>1. CASE viewing_term = t
    BY <1>2, <2>1 DEF Registers, Ports, CursorInv, CursorShapes
  <2>2. CASE viewing_term # t
    <3>1. Registers(viewing_term) /\ viewing_term \in Terms
      BY <1>4 DEF CursorInv, CursorShapes
    <3>2. /\ wpc'[viewing_term] = wpc[viewing_term]
          /\ screen_x'[viewing_term] = screen_x[viewing_term]
          /\ screen_y'[viewing_term] = screen_y[viewing_term]
      BY <1>2, <2>2, <3>1
    <3> QED
      BY <3>1, <3>2 DEF Registers, Here
  <2> QED
    BY <2>1, <2>2
<1> QED
  BY <1>1, <1>3, <1>4 DEF CursorInv

\* The check of move_cursor: only the viewed terminal goes on to the registers.
LEMMA CursorCheck ==
  ASSUME CursorInv, NEW t \in Terms, WCursor(t) PROVE CursorInv'
<1>1. /\ wpc[t] = "cursor"
      /\ UNCHANGED <<screen_x, screen_y, vga, viewing_term, overtaken>>
  BY DEF WCursor, WriterAt, cursor, view
<1>2. CASE t = viewing_term
  <2>1. /\ wpc' = [wpc EXCEPT ![t] = "select low"]
        /\ position' = [position EXCEPT ![t] = Here(t)]
    BY <1>2 DEF WCursor, MovesCursor, WriterTo, Here
  <2>2. CursorShapes'
    BY <1>1, <2>1 DEF CursorInv, CursorShapes, WriterPCs, Ports
  <2>3. Registers(viewing_term)'
    BY <1>1, <1>2, <2>1 DEF CursorInv, CursorShapes, Registers, Here
  <2>4. \A u \in Terms : ~overtaken /\ wpc'[u] \in Ports => u = viewing_term
    BY <1>2, <2>1 DEF CursorInv, CursorShapes
  <2> QED
    BY <1>1, <2>2, <2>3, <2>4 DEF CursorInv
<1>3. CASE t # viewing_term
  <2>1. wpc' = [wpc EXCEPT ![t] = "idle"] /\ UNCHANGED position
    BY <1>3 DEF WCursor, MovesCursor, WriterTo
  <2>2. "idle" \in WriterPCs \ Ports /\ wpc[t] \notin Ports
    BY <1>1 DEF WriterPCs, Ports
  <2>3. /\ screen_x' = [u \in Terms |-> screen_x'[u]]
        /\ screen_y' = [u \in Terms |-> screen_y'[u]]
    BY <1>1 DEF CursorInv, CursorShapes
  <2> QED
    BY <1>1, <1>3, <2>1, <2>2, <2>3, BeforePorts
<1> QED
  BY <1>2, <1>3

\* The four port writes.
LEMMA CursorPorts ==
  ASSUME CursorInv, NEW t \in Terms,
         \/ WSelect(t, "select low", "low") \/ WLow(t)
         \/ WSelect(t, "select high", "high") \/ WHigh(t)
  PROVE  CursorInv'
<1>1. UNCHANGED <<screen_x, screen_y, viewing_term, overtaken>> /\ wpc[t] \in Ports
  BY DEF WSelect, WLow, WHigh, WriterAt, cursor, view, Ports
<1>2. PICK from \in Ports, to \in Ports \cup {"idle"} :
        /\ wpc[t] = from /\ wpc' = [wpc EXCEPT ![t] = to]
        /\ \/ /\ from = "select low" /\ to = "low" /\ UNCHANGED position
              /\ vga' = [vga EXCEPT !.selected = "low"]
           \/ /\ from = "low" /\ to = "select high" /\ UNCHANGED position
              /\ vga' = [vga EXCEPT ![vga.selected] = position[t] % BYTE]
           \/ /\ from = "select high" /\ to = "high" /\ UNCHANGED position
              /\ vga' = [vga EXCEPT !.selected = "high"]
           \/ /\ from = "high" /\ to = "idle" /\ position' = [position EXCEPT ![t] = 0]
              /\ vga' = [vga EXCEPT ![vga.selected] = (position[t] \div BYTE) % BYTE]
  BY DEF WSelect, WLow, WHigh, WriterAt, WriterTo, Output, Ports
<1>3. PICK g : g = vga
  OBVIOUS
<1>4. g = [selected |-> g.selected, low |-> g.low, high |-> g.high]
      /\ g.selected \in {"low", "high"}
  BY <1>3 DEF CursorInv, CursorShapes
<1>5. CursorShapes'
  <2>1. /\ vga' = [selected |-> vga'.selected, low |-> vga'.low, high |-> vga'.high]
        /\ vga'.selected \in {"low", "high"}
    BY <1>2, <1>3, <1>4
  <2>2. wpc' \in [Terms -> WriterPCs] /\ position' = [u \in Terms |-> position'[u]]
    BY <1>2 DEF CursorInv, CursorShapes, WriterPCs
  <2> QED
    BY <1>1, <2>1, <2>2 DEF CursorInv, CursorShapes
<1>6. ASSUME ~overtaken
      PROVE  /\ \A u \in Terms : wpc'[u] \in Ports => u = viewing_term
             /\ Registers(viewing_term)'
  <2>1. t = viewing_term /\ Registers(t)
    BY <1>1, <1>6 DEF CursorInv
  <2>2. \A u \in Terms : wpc'[u] = IF u = t THEN to ELSE wpc[u]
    BY <1>2 DEF CursorInv, CursorShapes
  <2>3. \A u \in Terms : wpc'[u] \in Ports => u = viewing_term
    BY <1>6, <2>1, <2>2 DEF CursorInv
  <2>4. position[t] = Here(t)
    BY <1>1, <2>1 DEF Registers
  <2>5. PICK h : h = Here(t)
    OBVIOUS
  <2>6. Here(t)' = h /\ CursorAt(screen_x[t], screen_y[t])' =
          [selected |-> "high", low |-> h % BYTE, high |-> (h \div BYTE) % BYTE]
    BY <1>1, <2>5 DEF Here, CursorAt
  <2>7. Registers(t)'
    <3>1. CASE from = "select low"
      <4>1. to = "low" /\ vga'.selected = "low" /\ UNCHANGED position
        BY <1>2, <1>3, <1>4, <3>1
      <4> QED
        BY <2>2, <2>4, <2>5, <2>6, <4>1 DEF Registers, Ports
    <3>2. CASE from = "low"
      <4>1. vga.selected = "low"
        BY <1>2, <2>1, <3>2 DEF Registers
      <4>2. to = "select high" /\ vga'.low = h % BYTE /\ UNCHANGED position
        BY <1>2, <1>3, <1>4, <2>4, <2>5, <3>2, <4>1
      <4> QED
        BY <2>2, <2>4, <2>5, <2>6, <4>2 DEF Registers, Ports
    <3>3. CASE from = "select high"
      <4>1. vga.low = h % BYTE
        BY <1>2, <2>1, <2>5, <3>3 DEF Registers
      <4>2. /\ to = "high" /\ vga'.low = h % BYTE /\ vga'.selected = "high"
            /\ UNCHANGED position
        BY <1>2, <1>3, <1>4, <3>3, <4>1
      <4> QED
        BY <2>2, <2>4, <2>5, <2>6, <4>2 DEF Registers, Ports
    <3>4. CASE from = "high"
      <4>1. vga.low = h % BYTE /\ vga.selected = "high"
        BY <1>2, <2>1, <2>5, <3>4 DEF Registers
      <4>2. /\ to = "idle"
            /\ vga' = [selected |-> "high", low |-> h % BYTE, high |-> (h \div BYTE) % BYTE]
        BY <1>2, <1>3, <1>4, <2>4, <2>5, <3>4, <4>1
      <4>3. wpc'[t] = "idle"
        BY <2>2, <4>2
      <4>4. vga' = CursorAt(screen_x[t], screen_y[t])'
        BY <2>6, <4>2
      <4> QED
        BY <4>3, <4>4 DEF Registers, Ports
    <3> QED
      BY <1>2, <3>1, <3>2, <3>3, <3>4
  <2> QED
    BY <1>1, <2>1, <2>3, <2>7
<1> QED
  BY <1>1, <1>5, <1>6 DEF CursorInv

\* The steps of writers that do not reach the registers.
LEMMA CursorWrites == ASSUME CursorInv, NEW t \in Terms, Writes(t) PROVE CursorInv'
<1>1. CASE WCursor(t)
  BY <1>1, CursorCheck
<1>2. CASE \/ WSelect(t, "select low", "low") \/ WLow(t)
           \/ WSelect(t, "select high", "high") \/ WHigh(t)
  BY <1>2, CursorPorts
<1>3. CASE \E i \in Cells, c \in Glyphs : VidmapStore(t, i, c)
  <2>1. UNCHANGED <<wpc, position, screen_x, screen_y, vga, viewing_term, overtaken>>
    BY <1>3 DEF VidmapStore, cursor, view, writer
  <2> QED
    BY <2>1 DEF CursorInv, CursorShapes, Registers, Here
<1>4. CASE \/ \E c \in Glyphs : WStore(t, c)
           \/ WAdvance(t) \/ WWrap(t) \/ WBreak(t) \/ WDown(t) \/ WRoll(t)
  <2>1. UNCHANGED <<position, vga, viewing_term, overtaken>>
    BY <1>4 DEF WStore, WAdvance, WWrap, WBreak, WDown, WRoll, view
  <2>2. PICK to \in WriterPCs \ Ports :
          to # "idle" /\ wpc[t] \notin Ports /\ wpc' = [wpc EXCEPT ![t] = to]
    BY <1>4 DEF WStore, WAdvance, WWrap, WBreak, WDown, WRoll, WriterAt, WriterTo,
       WriterPCs, Ports
  <2>3. /\ screen_x' = screen_x \/ \E n : screen_x' = [screen_x EXCEPT ![t] = n]
        /\ screen_y' = screen_y \/ \E n : screen_y' = [screen_y EXCEPT ![t] = n]
    BY <1>4 DEF WStore, WAdvance, WWrap, WBreak, WDown, WRoll, cursor
  <2>4. /\ screen_x' = [u \in Terms |-> screen_x'[u]]
        /\ screen_y' = [u \in Terms |-> screen_y'[u]]
        /\ \A u \in Terms : u # t => screen_x'[u] = screen_x[u] /\ screen_y'[u] = screen_y[u]
    BY <2>3 DEF CursorInv, CursorShapes
  <2> QED
    BY <2>1, <2>2, <2>4, BeforePorts
<1>5. CASE WScroll(t)
  <2>1. UNCHANGED <<position, vga, viewing_term, overtaken>>
    BY <1>5 DEF WScroll, view
  <2>2. wpc[t] = "scroll"
    BY <1>5 DEF WScroll, WriterAt
  <2>3. wpc' = wpc \/ wpc' = [wpc EXCEPT ![t] = "cursor"]
    BY <1>5 DEF WScroll, WriterTo
  <2>4. /\ screen_x' = screen_x \/ \E n : screen_x' = [screen_x EXCEPT ![t] = n]
        /\ screen_y' = screen_y \/ \E n : screen_y' = [screen_y EXCEPT ![t] = n]
    BY <1>5 DEF WScroll, cursor, SetScreen
  <2>5. /\ screen_x' = [u \in Terms |-> screen_x'[u]]
        /\ screen_y' = [u \in Terms |-> screen_y'[u]]
        /\ \A u \in Terms : u # t => screen_x'[u] = screen_x[u] /\ screen_y'[u] = screen_y[u]
    BY <2>4 DEF CursorInv, CursorShapes
  <2>6. wpc = [wpc EXCEPT ![t] = "scroll"]
    BY <2>2 DEF CursorInv, CursorShapes
  <2>7. {"scroll", "cursor"} \subseteq WriterPCs \ Ports
    BY DEF WriterPCs, Ports
  <2> QED
    BY <2>1, <2>2, <2>3, <2>5, <2>6, <2>7, BeforePorts
<1> QED
  BY <1>1, <1>2, <1>3, <1>4, <1>5 DEF Writes

\* Keys and what handlers print: they set the cursor themselves, and find no write
\* of the same terminal under way.
LEMMA CursorEchoes ==
  ASSUME CursorInv, NEW t \in Terms, wpc[t] = "idle", NEW s,
         screen_x' = [screen_x EXCEPT ![t] = s.x], screen_y' = [screen_y EXCEPT ![t] = s.y],
         vga' = IF t = viewing_term THEN CursorAt(s.x, s.y) ELSE vga,
         UNCHANGED <<wpc, position, viewing_term, overtaken>>
  PROVE  CursorInv'
<1>1. CursorShapes'
  BY DEF CursorInv, CursorShapes, CursorAt
<1>2. ASSUME ~overtaken PROVE Registers(viewing_term)'
  <2>1. CASE t = viewing_term
    BY <2>1 DEF CursorInv, CursorShapes, Registers, Ports
  <2>2. CASE t # viewing_term
    <3>1. Registers(viewing_term) /\ viewing_term \in Terms
      BY <1>2 DEF CursorInv, CursorShapes
    <3>2. /\ screen_x'[viewing_term] = screen_x[viewing_term]
          /\ screen_y'[viewing_term] = screen_y[viewing_term]
      BY <2>2, <3>1 DEF CursorInv, CursorShapes
    <3> QED
      BY <2>2, <3>1, <3>2 DEF Registers, Here
  <2> QED
    BY <2>1, <2>2
<1> QED
  BY <1>1, <1>2 DEF CursorInv

LEMMA CursorKeys ==
  ASSUME "echo" \notin Timing, CursorInv,
         \/ \E c \in Glyphs : EchoChar(c)
         \/ EchoEnter \/ EchoErase \/ EchoClear
         \/ \E t \in Terms, c \in Glyphs : Printf(t, c)
  PROVE  CursorInv'
<1>1. PICK t, s :
        /\ t \in Terms /\ wpc[t] = "idle" /\ SetScreen(t, s)
        /\ vga' = IF t = viewing_term THEN CursorAt(s.x, s.y) ELSE vga
        /\ UNCHANGED <<view, writer>>
  <2>1. ASSUME NEW s, NEW r, Echo(s, r)
        PROVE  /\ wpc[viewing_term] = "idle" /\ SetScreen(viewing_term, s)
               /\ vga' = CursorAt(s.x, s.y) /\ UNCHANGED <<view, writer>>
    BY <2>1 DEF Echo, MayEcho
  <2>2. viewing_term \in Terms
    BY DEF CursorInv, CursorShapes
  <2>3. ASSUME NEW u \in Terms, NEW c \in Glyphs, Printf(u, c)
        PROVE  \E s : /\ wpc[u] = "idle" /\ SetScreen(u, s)
                      /\ vga' = IF u = viewing_term THEN CursorAt(s.x, s.y) ELSE vga
                      /\ UNCHANGED <<view, writer>>
    BY <2>3 DEF Printf, MovesCursor
  <2>4. (\E s, r : Echo(s, r)) \/ \E u \in Terms, c \in Glyphs : Printf(u, c)
    BY DEF EchoChar, EchoEnter, EchoErase, EchoClear
  <2> QED
    BY <2>1, <2>2, <2>3, <2>4
<1>2. /\ screen_x' = [screen_x EXCEPT ![t] = s.x] /\ screen_y' = [screen_y EXCEPT ![t] = s.y]
      /\ UNCHANGED <<wpc, position, viewing_term, overtaken>>
  BY <1>1 DEF SetScreen, view, writer
<1> QED
  BY <1>1, <1>2, CursorEchoes

\* terminal_switch: a writer that it finds at the ports is what overtaken says.
LEMMA CursorSwitch ==
  ASSUME CursorInv, NEW dest \in Terms, SwitchTo(dest) PROVE CursorInv'
<1>1. /\ viewing_term' = dest /\ overtaken' = (\E t \in Terms : wpc[t] \in Ports)
      /\ UNCHANGED <<wpc, position>>
      /\ vga' = CursorAt(screen_x'[dest], screen_y'[dest])
      /\ \/ UNCHANGED <<screen_x, screen_y>>
         \/ /\ screen_x' = [screen_x EXCEPT ![dest] = Cleared.x]
            /\ screen_y' = [screen_y EXCEPT ![dest] = Cleared.y]
  BY DEF SwitchTo, writer, cursor
<1>2. CursorShapes'
  BY <1>1 DEF CursorInv, CursorShapes, CursorAt
<1>3. ASSUME ~overtaken' PROVE Registers(dest)' /\ \A t \in Terms : wpc'[t] \notin Ports
  BY <1>1, <1>3 DEF Registers, Ports
<1> QED
  BY <1>1, <1>2, <1>3 DEF CursorInv

\* Every step, when no key is echoed into a write that is under way.
LEMMA CursorStep ==
  ASSUME "echo" \notin Timing PROVE CursorInv /\ [Next]_vars => CursorInv'
<1> SUFFICES ASSUME CursorInv, [Next]_vars PROVE CursorInv'
  OBVIOUS
<1>1. ASSUME NEW t \in Terms, LineTaken(t) PROVE CursorInv'
  BY <1>1 DEF LineTaken, cursor, view, writer, CursorInv, CursorShapes, Registers, Here
<1>2. CASE UNCHANGED vars
  BY <1>2 DEF vars, cursor, view, writer, CursorInv, CursorShapes, Registers, Here
<1> QED
  BY <1>1, <1>2, CursorWrites, CursorKeys, CursorSwitch DEF Next

\* The cursor of the hardware stands where the viewed terminal will write, for any
\* number of terminals and any size of the screen, unless the last switch came
\* between the check of move_cursor and its stores (keyboard.c, lib.c).  It is
\* about keys that are not echoed into a write of the same terminal: what
\* happens if they are is run screen_race.
THEOREM CursorIsFollowed == ASSUME "echo" \notin Timing PROVE Spec => []CursorFollows
<1>1. CursorInv => CursorFollows
  BY DEF CursorInv, Registers, CursorFollows
<1> QED
  BY CursorInit, CursorStep, <1>1, PTL DEF Spec

-----------------------------------------------------------------------------
(* Cells, rows and columns.                                                *)

\* What the assumptions on the constants give.
LEMMA ScreenConstants ==
  /\ NUM_COLS \in Nat /\ NUM_COLS > 1 /\ NUM_COLS < 256
  /\ NUM_ROWS \in Nat /\ NUM_ROWS > 0 /\ NUM_ROWS < 255
  /\ PromptLen \in Nat /\ PromptLen > 0 /\ PromptLen < NUM_COLS
  /\ KeyLimit \in Nat /\ KeyLimit <= (NUM_ROWS - 1) * NUM_COLS
  /\ (NUM_ROWS - 1) * NUM_COLS \in Nat
  /\ BYTE \in Nat \ {0} /\ MaxPuts \in Nat /\ NUM_TERM \in Nat \ {0}
<1>1. /\ NUM_COLS \in 1..255 /\ NUM_ROWS \in 1..254 /\ PromptLen \in 1..(NUM_COLS - 1)
      /\ KeyLimit \in 0..((NUM_ROWS - 1) * NUM_COLS)
      /\ BYTE \in Nat \ {0} /\ MaxPuts \in Nat /\ NUM_TERM \in Nat \ {0}
  BY ScreenAssumption
<1>2. (NUM_ROWS - 1) * NUM_COLS \in Nat
  BY <1>1
<1> QED
  BY <1>1, <1>2

\* A larger factor gives a larger product.
LEMMA Products ==
  ASSUME NEW a \in Nat, NEW b \in Nat, NEW c \in Nat, a <= b
  PROVE  c * a <= c * b /\ c * a \in Nat /\ c * b \in Nat /\ c * a = a * c
<1>1. PICK d \in Nat : b = a + d
  <2>1. b - a \in Nat /\ b = a + (b - a)
    OBVIOUS
  <2> QED
    BY <2>1
<1>2. c * d \in Nat /\ c * a \in Nat
  OBVIOUS
<1>3. c * b = c * a + c * d
  BY <1>1
<1> QED
  BY <1>2, <1>3

\* Cell i is in row y and column x of the page.
At(i, y, x) == i = NUM_COLS * y + x

\* Every cell has a row and a column.
LEMMA CellPlace ==
  ASSUME NEW i \in Cells
  PROVE  /\ i \div NUM_COLS \in 0..(NUM_ROWS - 1) /\ i % NUM_COLS \in 0..(NUM_COLS - 1)
         /\ At(i, i \div NUM_COLS, i % NUM_COLS)
<1>1. PICK C, R : C = NUM_COLS /\ R = NUM_ROWS
  OBVIOUS
<1>2. C \in Nat \ {0} /\ R \in Nat \ {0}
  BY <1>1, ScreenConstants
<1>3. i \in Nat /\ i < R * C
  BY <1>1, <1>2 DEF Cells
<1>4. i \div C \in Nat /\ i % C \in 0..(C - 1) /\ i = C * (i \div C) + (i % C)
  BY <1>2, <1>3
<1>5. PICK q : q = i \div C
  OBVIOUS
<1>6. q \in Nat /\ i % C \in Nat /\ i = C * q + (i % C)
  BY <1>2, <1>4, <1>5
<1>7. q < R
  <2>1. R <= q => C * R <= C * q /\ C * R = R * C
    BY <1>2, <1>6, Products
  <2> QED
    BY <1>2, <1>3, <1>6, <2>1
<1> QED
  BY <1>1, <1>2, <1>4, <1>5, <1>6, <1>7 DEF At

\* A row and a column have one cell.
LEMMA PlaceCell ==
  ASSUME NEW y \in 0..(NUM_ROWS - 1), NEW x \in 0..(NUM_COLS - 1), NEW i, At(i, y, x)
  PROVE  i \in Cells /\ i \div NUM_COLS = y /\ i % NUM_COLS = x
<1>1. PICK C, R : C = NUM_COLS /\ R = NUM_ROWS
  OBVIOUS
<1>2. C \in Nat \ {0} /\ R \in Nat \ {0} /\ y \in Nat /\ x \in Nat /\ x < C /\ y + 1 <= R
  BY <1>1, ScreenConstants
<1>3. i = C * y + x /\ i \in Nat
  BY <1>1, <1>2 DEF At
<1>4. i \div C = y /\ i % C = x
  BY <1>2, <1>3
<1>5. i < R * C
  <2>1. C * (y + 1) <= R * C
    BY <1>2
  <2>2. C * (y + 1) = C * y + C
    BY <1>2
  <2> QED
    BY <1>2, <1>3, <2>1, <2>2
<1> QED
  BY <1>1, <1>2, <1>3, <1>4, <1>5 DEF Cells

\* The cell below.
LEMMA CellBelow ==
  ASSUME NEW i \in Cells
  PROVE  /\ i + NUM_COLS \in Cells <=> i \div NUM_COLS < NUM_ROWS - 1
         /\ i + NUM_COLS \in Cells =>
              /\ (i + NUM_COLS) \div NUM_COLS = (i \div NUM_COLS) + 1
              /\ (i + NUM_COLS) % NUM_COLS = i % NUM_COLS
<1>1. PICK y, x, R, C : y = i \div NUM_COLS /\ x = i % NUM_COLS /\ C = NUM_COLS /\ R = NUM_ROWS
  OBVIOUS
<1>2. y \in 0..(R - 1) /\ x \in 0..(C - 1) /\ i = C * y + x
  BY <1>1, CellPlace DEF At
<1>3. C \in Nat \ {0} /\ R \in Nat \ {0}
  BY <1>1, ScreenConstants
<1>4. i + C = C * (y + 1) + x
  BY <1>2, <1>3
<1>5. ASSUME y < R - 1
      PROVE  i + C \in Cells /\ (i + C) \div C = y + 1 /\ (i + C) % C = x
  <2>1. y + 1 \in 0..(NUM_ROWS - 1) /\ x \in 0..(NUM_COLS - 1) /\ At(i + C, y + 1, x)
    BY <1>1, <1>2, <1>3, <1>4, <1>5 DEF At
  <2> QED
    BY <1>1, <2>1, PlaceCell
<1>6. ASSUME ~(y < R - 1) PROVE i + C \notin Cells
  <2>1. y + 1 = R
    BY <1>2, <1>3, <1>6
  <2>2. i + C >= C * R
    BY <1>2, <1>3, <1>4, <2>1
  <2>3. ~(i + C <= R * C - 1)
    <3>1. C * R = R * C /\ R * C \in Nat /\ i + C \in Nat
      BY <1>2, <1>3, <1>4
    <3> QED
      BY <2>2, <3>1
  <2> QED
    BY <1>1, <2>3 DEF Cells
<1> QED
  BY <1>1, <1>5, <1>6

-----------------------------------------------------------------------------
(* Rows of text and the page that shows them.                              *)

\* The rows fit the page.
Fits(r) ==
  /\ r \in Seq(Seq(OnScreen)) /\ Len(r) \in 1..NUM_ROWS
  /\ \A k \in 1..Len(r) : Len(r[k]) \in 0..NUM_COLS

\* What rows r have in row y and column x of the page.
CellOf(r, y, x) == IF y + 1 <= Len(r) /\ x + 1 <= Len(r[y + 1]) THEN r[y + 1][x + 1] ELSE Blank

LEMMA PaintedIs ==
  ASSUME NEW r PROVE Painted(r) = [i \in Cells |-> CellOf(r, i \div NUM_COLS, i % NUM_COLS)]
BY DEF Painted, CellOf

\* The parts of rows that fit.
LEMMA FitsParts ==
  ASSUME NEW r, Fits(r)
  PROVE  /\ r \in Seq(Seq(OnScreen)) /\ Len(r) \in Nat /\ Len(r) > 0 /\ Len(r) <= NUM_ROWS
         /\ \A k \in 1..Len(r) :
              r[k] \in Seq(OnScreen) /\ Len(r[k]) \in Nat /\ Len(r[k]) <= NUM_COLS
<1>1. r \in Seq(Seq(OnScreen)) /\ Len(r) \in Nat /\ Len(r) > 0 /\ Len(r) <= NUM_ROWS
  BY ScreenConstants DEF Fits
<1>2. ASSUME NEW k \in 1..Len(r)
      PROVE  r[k] \in Seq(OnScreen) /\ Len(r[k]) \in Nat /\ Len(r[k]) <= NUM_COLS
  <2>1. r[k] \in Seq(OnScreen)
    BY <1>1, ElementOfSeq
  <2>2. Len(r[k]) \in 0..NUM_COLS
    BY DEF Fits
  <2> QED
    BY <2>1, <2>2, ScreenConstants
<1> QED
  BY <1>1, <1>2

\* Rows that fit make a page.
LEMMA PaintedType ==
  ASSUME NEW r, Fits(r) PROVE Painted(r) \in Pages
<1>1. ASSUME NEW y \in Nat, NEW x \in Nat PROVE CellOf(r, y, x) \in OnScreen
  <2>1. CASE y + 1 <= Len(r) /\ x + 1 <= Len(r[y + 1])
    <3>1. y + 1 \in 1..Len(r)
      BY <2>1, FitsParts
    <3>2. r[y + 1] \in Seq(OnScreen) /\ Len(r[y + 1]) \in Nat
      BY <3>1, FitsParts
    <3>3. x + 1 \in 1..Len(r[y + 1])
      BY <2>1, <3>2
    <3>4. r[y + 1][x + 1] \in OnScreen
      BY <3>2, <3>3, ElementOfSeq
    <3> QED
      BY <2>1, <3>4 DEF CellOf
  <2>2. CASE ~(y + 1 <= Len(r) /\ x + 1 <= Len(r[y + 1]))
    BY <2>2 DEF CellOf, OnScreen
  <2> QED
    BY <2>1, <2>2
<1>2. \A i \in Cells : i \div NUM_COLS \in Nat /\ i % NUM_COLS \in Nat
  <2> TAKE i \in Cells
  <2>1. i \div NUM_COLS \in 0..(NUM_ROWS - 1) /\ i % NUM_COLS \in 0..(NUM_COLS - 1)
    BY CellPlace
  <2> QED
    BY <2>1
<1>3. \A i \in Cells : CellOf(r, i \div NUM_COLS, i % NUM_COLS) \in OnScreen
  BY <1>1, <1>2
<1> QED
  BY <1>3, PaintedIs DEF Pages

\* Rows r, of which the last one, row n, has x characters, become rows q, of which the
\* last one, row m, has w; on the page the cell in column v of row m becomes c.
Becomes(r, q, m, w, v, c) ==
  /\ Fits(q) /\ Len(q) = m /\ Len(q[m]) = w
  /\ PutGlyph(Painted(r), v, m - 1, c) = Painted(q)

Ends(r, n, x) == Fits(r) /\ n = Len(r) /\ x = Len(r[n])

\* One more character at the end of the text.
LEMMA PaintPut ==
  ASSUME NEW r, NEW n, NEW x, Ends(r, n, x), x < NUM_COLS, NEW c \in OnScreen
  PROVE  Becomes(r, [r EXCEPT ![n] = Append(r[n], c)], n, x + 1, x, c)
<1> SUFFICES ASSUME Fits(r), n = Len(r), x = Len(r[n]), NEW q,
                    q = [r EXCEPT ![n] = Append(r[n], c)]
             PROVE  Becomes(r, q, n, x + 1, x, c)
  BY Zenon DEF Ends
<1>1. /\ r \in Seq(Seq(OnScreen)) /\ n \in Nat /\ n > 0 /\ n <= NUM_ROWS
      /\ \A k \in 1..n : r[k] \in Seq(OnScreen) /\ Len(r[k]) \in Nat /\ Len(r[k]) <= NUM_COLS
  BY FitsParts
<1>2. n \in 1..n /\ r[n] \in Seq(OnScreen) /\ x \in Nat
  BY <1>1
<1>3. PICK last : last = Append(r[n], c)
  OBVIOUS
<1>4. /\ last \in Seq(OnScreen) /\ Len(last) = x + 1 /\ last[x + 1] = c
      /\ \A k \in 1..x : last[k] = r[n][k]
  BY <1>2, <1>3, AppendProperties
<1>5. /\ q \in Seq(Seq(OnScreen)) /\ Len(q) = n /\ q[n] = last
      /\ \A k \in 1..n : k # n => q[k] = r[k]
  BY <1>1, <1>2, <1>3, <1>4
<1>6. Fits(q)
  <2>1. ASSUME NEW k \in 1..n PROVE Len(q[k]) \in 0..NUM_COLS
    <3>1. CASE k = n
      <4>1. Len(q[k]) = x + 1 /\ x + 1 \in 0..NUM_COLS
        BY <1>2, <1>4, <1>5, <3>1, ScreenConstants
      <4> QED
        BY <4>1
    <3>2. CASE k # n
      BY <1>1, <1>5, <3>2, ScreenConstants
    <3> QED
      BY <3>1, <3>2
  <2> QED
    BY <1>1, <1>5, <2>1, ScreenConstants DEF Fits
<1>7. ASSUME NEW i \in Cells
      PROVE  PutGlyph(Painted(r), x, n - 1, c)[i] = Painted(q)[i]
  <2>1. PICK v, w : v = i \div NUM_COLS /\ w = i % NUM_COLS
    OBVIOUS
  <2>2. v \in Nat /\ w \in Nat /\ i = NUM_COLS * v + w
    <3>1. v \in 0..(NUM_ROWS - 1) /\ w \in 0..(NUM_COLS - 1) /\ At(i, v, w)
      BY <2>1, CellPlace
    <3> QED
      BY <3>1 DEF At
  <2>3. Painted(r)[i] = CellOf(r, v, w) /\ Painted(q)[i] = CellOf(q, v, w)
    BY <2>1, PaintedIs
  <2>4. PutGlyph(Painted(r), x, n - 1, c)[i] =
          IF i = NUM_COLS * (n - 1) + x THEN c ELSE CellOf(r, v, w)
    BY <2>3 DEF PutGlyph
  <2>5. CASE i = NUM_COLS * (n - 1) + x
    <3>1. n - 1 \in 0..(NUM_ROWS - 1) /\ x \in 0..(NUM_COLS - 1) /\ At(i, n - 1, x)
      BY <1>1, <1>2, <2>5, ScreenConstants DEF At
    <3>2. v = n - 1 /\ w = x
      BY <2>1, <3>1, PlaceCell
    <3>3. v + 1 = n /\ w + 1 = x + 1
      BY <1>1, <3>2
    <3>4. CellOf(q, v, w) = c
      BY <1>1, <1>2, <1>4, <1>5, <3>3 DEF CellOf
    <3> QED
      BY <2>3, <2>4, <2>5, <3>4
  <2>6. CASE i # NUM_COLS * (n - 1) + x
    <3>1. CellOf(q, v, w) = CellOf(r, v, w)
      <4>1. CASE v + 1 = n
        <5>1. v = n - 1 /\ w # x
          BY <1>1, <2>2, <2>6, <4>1
        <5>2. CASE w + 1 <= x
          <6>1. w + 1 \in 1..x /\ w + 1 <= x + 1 /\ v + 1 <= n
            BY <1>1, <1>2, <2>2, <4>1, <5>2
          <6>2. CellOf(q, v, w) = last[w + 1]
            BY <1>4, <1>5, <4>1, <6>1 DEF CellOf
          <6>3. CellOf(r, v, w) = r[n][w + 1]
            BY <4>1, <5>2, <6>1 DEF CellOf
          <6> QED
            BY <1>4, <6>1, <6>2, <6>3
        <5>3. CASE ~(w + 1 <= x)
          <6>1. ~(w + 1 <= x + 1)
            BY <1>2, <2>2, <5>1, <5>3
          <6> QED
            BY <1>4, <1>5, <4>1, <5>3, <6>1 DEF CellOf
        <5> QED
          BY <5>2, <5>3
      <4>2. CASE v + 1 # n
        <5>1. v + 1 <= n => v + 1 \in 1..n
          BY <1>1, <2>2
        <5> QED
          BY <1>5, <4>2, <5>1 DEF CellOf
      <4> QED
        BY <4>1, <4>2
    <3> QED
      BY <2>3, <2>4, <2>6, <3>1
  <2> QED
    BY <2>5, <2>6
<1>8. PutGlyph(Painted(r), x, n - 1, c) = Painted(q)
  BY <1>7, PaintedIs DEF PutGlyph
<1>9. Becomes(r, q, n, x + 1, x, c)
  BY <1>4, <1>5, <1>6, <1>8 DEF Becomes
<1> QED
  BY <1>9

\* A new row while there is room.
LEMMA PaintBreak ==
  ASSUME NEW r, Fits(r), Len(r) < NUM_ROWS, NEW q, q = Append(r, <<>>)
  PROVE  Fits(q) /\ Len(q) = Len(r) + 1 /\ q[Len(q)] = <<>> /\ Painted(q) = Painted(r)
<1>1. PICK n : n = Len(r)
  OBVIOUS
<1>2. /\ r \in Seq(Seq(OnScreen)) /\ n \in Nat /\ n > 0 /\ n < NUM_ROWS
      /\ \A k \in 1..n : r[k] \in Seq(OnScreen) /\ Len(r[k]) \in Nat /\ Len(r[k]) <= NUM_COLS
  BY <1>1, FitsParts
<1>3. PICK none : none = <<>>
  OBVIOUS
<1>4. none \in Seq(OnScreen) /\ Len(none) = 0
  BY <1>3
<1>5. /\ q \in Seq(Seq(OnScreen)) /\ Len(q) = n + 1 /\ q[n + 1] = none
      /\ \A k \in 1..n : q[k] = r[k]
  BY <1>1, <1>2, <1>3, <1>4, AppendProperties
<1>6. Fits(q)
  <2>1. ASSUME NEW k \in 1..(n + 1) PROVE Len(q[k]) \in 0..NUM_COLS
    BY <1>2, <1>4, <1>5, ScreenConstants
  <2> QED
    BY <1>2, <1>5, <2>1, ScreenConstants DEF Fits
<1>7. ASSUME NEW v \in Nat, NEW w \in Nat PROVE CellOf(q, v, w) = CellOf(r, v, w)
  <2>1. CASE v + 1 <= n
    <3>1. v + 1 \in 1..n /\ v + 1 <= n + 1
      BY <1>2, <2>1
    <3> QED
      BY <1>1, <1>5, <2>1, <3>1 DEF CellOf
  <2>2. CASE v + 1 = n + 1
    <3>1. CellOf(q, v, w) = Blank
      BY <1>2, <1>4, <1>5, <2>2 DEF CellOf
    <3>2. CellOf(r, v, w) = Blank
      BY <1>1, <1>2, <2>2 DEF CellOf
    <3> QED
      BY <3>1, <3>2
  <2>3. CASE ~(v + 1 <= n + 1)
    BY <1>1, <1>2, <1>5, <2>3 DEF CellOf
  <2> QED
    BY <1>2, <2>1, <2>2, <2>3
<1>8. \A i \in Cells : i \div NUM_COLS \in Nat /\ i % NUM_COLS \in Nat
  <2> TAKE i \in Cells
  <2>1. i \div NUM_COLS \in 0..(NUM_ROWS - 1) /\ i % NUM_COLS \in 0..(NUM_COLS - 1)
    BY CellPlace
  <2> QED
    BY <2>1
<1>9. Painted(q) = Painted(r)
  <2>1. \A i \in Cells :
          CellOf(q, i \div NUM_COLS, i % NUM_COLS) = CellOf(r, i \div NUM_COLS, i % NUM_COLS)
    BY <1>7, <1>8
  <2> QED
    BY <2>1, PaintedIs
<1> QED
  BY <1>1, <1>3, <1>5, <1>6, <1>9

\* A new row below the last one: scroll_screen.
LEMMA PaintScroll ==
  ASSUME NEW r, Fits(r), Len(r) = NUM_ROWS, NEW q, q = Tail(Append(r, <<>>))
  PROVE  /\ Fits(q) /\ Len(q) = NUM_ROWS /\ q[Len(q)] = <<>>
         /\ Painted(q) = [i \in Cells |-> IF i + NUM_COLS \in Cells
                                          THEN Painted(r)[i + NUM_COLS] ELSE Blank]
<1>1. PICK n : n = NUM_ROWS
  OBVIOUS
<1>2. /\ r \in Seq(Seq(OnScreen)) /\ n \in Nat /\ n > 0 /\ Len(r) = n
      /\ \A k \in 1..n : r[k] \in Seq(OnScreen) /\ Len(r[k]) \in Nat /\ Len(r[k]) <= NUM_COLS
  BY <1>1, FitsParts
<1>3. PICK none : none = <<>>
  OBVIOUS
<1>4. none \in Seq(OnScreen) /\ Len(none) = 0
  BY <1>3
<1>5. PICK a : a = Append(r, none)
  OBVIOUS
<1>6. /\ a \in Seq(Seq(OnScreen)) /\ Len(a) = n + 1 /\ a[n + 1] = none
      /\ \A k \in 1..n : a[k] = r[k]
  BY <1>2, <1>4, <1>5, AppendProperties
<1>7. /\ q \in Seq(Seq(OnScreen)) /\ Len(q) = n /\ \A k \in 1..n : q[k] = a[k + 1]
  <2>1. q = Tail(a)
    BY <1>3, <1>5
  <2>2. Len(a) # 0
    BY <1>2, <1>6
  <2>3. a # <<>>
    BY <2>2
  <2>4. PICK S : S = Seq(OnScreen)
    OBVIOUS
  <2>5. /\ q \in Seq(S) /\ Len(q) = Len(a) - 1
        /\ \A k \in 1..Len(q) : q[k] = a[k + 1]
    <3>1. a \in Seq(S)
      BY <1>6, <2>4
    <3> QED
      BY <2>1, <2>3, <3>1, HeadTailProperties
  <2>6. Len(q) = n
    BY <1>2, <1>6, <2>5
  <2> QED
    BY <2>4, <2>5, <2>6
<1>8. q[n] = none
  BY <1>2, <1>6, <1>7
<1>9. \A k \in 1..(n - 1) : q[k] = r[k + 1]
  <2> TAKE k \in 1..(n - 1)
  <2>1. k \in 1..n /\ k + 1 \in 1..n
    BY <1>2
  <2> QED
    BY <1>6, <1>7, <2>1
<1>10. Fits(q)
  <2>1. ASSUME NEW k \in 1..n PROVE Len(q[k]) \in 0..NUM_COLS
    <3>1. CASE k = n
      <4>1. Len(q[k]) = 0
        BY <1>4, <1>8, <3>1
      <4>2. 0 \in 0..NUM_COLS
        BY ScreenConstants
      <4> QED
        BY <4>1, <4>2, Zenon
    <3>2. CASE k # n
      <4>1. k \in 1..(n - 1) /\ k + 1 \in 1..n
        BY <1>2, <3>2
      <4> QED
        BY <1>2, <1>9, <4>1, ScreenConstants
    <3> QED
      BY <3>1, <3>2
  <2> QED
    BY <1>1, <1>2, <1>7, <2>1 DEF Fits
<1>11. ASSUME NEW i \in Cells
       PROVE  Painted(q)[i] = IF i + NUM_COLS \in Cells
                              THEN Painted(r)[i + NUM_COLS] ELSE Blank
  <2>1. PICK v, w : v = i \div NUM_COLS /\ w = i % NUM_COLS
    OBVIOUS
  <2>2. v \in 0..(n - 1) /\ w \in 0..(NUM_COLS - 1)
    BY <1>1, <2>1, CellPlace
  <2>3. v \in Nat /\ w \in Nat
    BY <2>2
  <2>4. Painted(q)[i] = CellOf(q, v, w)
    BY <2>1, PaintedIs
  <2>5. /\ i + NUM_COLS \in Cells <=> v < n - 1
        /\ i + NUM_COLS \in Cells =>
             (i + NUM_COLS) \div NUM_COLS = v + 1 /\ (i + NUM_COLS) % NUM_COLS = w
    BY <1>1, <2>1, CellBelow
  <2>6. CASE v < n - 1
    <3>1. Painted(r)[i + NUM_COLS] = CellOf(r, v + 1, w)
      BY <2>5, <2>6, PaintedIs
    <3>2. v + 1 \in 1..(n - 1) /\ v + 1 <= n /\ (v + 1) + 1 <= n
      BY <1>2, <2>3, <2>6
    <3>3. CellOf(q, v, w) = CellOf(r, v + 1, w)
      BY <1>2, <1>7, <1>9, <3>2 DEF CellOf
    <3> QED
      BY <2>4, <2>5, <2>6, <3>1, <3>3
  <2>7. CASE ~(v < n - 1)
    <3>1. v + 1 = n
      BY <1>2, <2>2, <2>7
    <3>2. CellOf(q, v, w) = Blank
      BY <1>4, <1>8, <2>3, <3>1 DEF CellOf
    <3> QED
      BY <2>4, <2>5, <2>7, <3>2
  <2> QED
    BY <2>6, <2>7
<1> QED
  BY <1>1, <1>3, <1>7, <1>8, <1>10, <1>11, PaintedIs

\* Rows q are rows a and one more, e.
OneMore(q, a, e) ==
  /\ q \in Seq(Seq(OnScreen)) /\ Len(q) = Len(a) + 1 /\ q[Len(a) + 1] = e
  /\ \A k \in 1..Len(a) : q[k] = a[k]

LEMMA RowAppended ==
  ASSUME NEW a \in Seq(Seq(OnScreen)), NEW e \in Seq(OnScreen)
  PROVE  OneMore(Append(a, e), a, e)
BY AppendProperties DEF OneMore

\* What RowsErase leaves of a row: its first k columns.
Cut(s, k) == [i \in 1..k |-> IF i <= Len(s) THEN s[i] ELSE Blank]

LEMMA CutIs ==
  ASSUME NEW s \in Seq(OnScreen), NEW k \in Nat
  PROVE  /\ Cut(s, k) \in Seq(OnScreen) /\ Len(Cut(s, k)) = k
         /\ \A i \in 1..k : Cut(s, k)[i] = IF i <= Len(s) THEN s[i] ELSE Blank
<1>1. ASSUME NEW i \in 1..k
      PROVE  (IF i <= Len(s) THEN s[i] ELSE Blank) \in OnScreen
  <2>1. CASE i <= Len(s)
    <3>1. i \in 1..Len(s)
      BY <2>1
    <3>2. s[i] \in OnScreen
      BY <3>1, ElementOfSeq
    <3> QED
      BY <2>1, <3>2
  <2>2. CASE ~(i <= Len(s))
    BY <2>2 DEF OnScreen
  <2> QED
    BY <2>1, <2>2
<1>2. PICK w : w = Cut(s, k)
  OBVIOUS
<1>3. w \in [1..k -> OnScreen] /\ \A i \in 1..k : w[i] = IF i <= Len(s) THEN s[i] ELSE Blank
  BY <1>1, <1>2 DEF Cut
<1>4. w \in Seq(OnScreen) /\ Len(w) = k
  BY <1>3
<1> QED
  BY <1>2, <1>3, <1>4

\* RowsErase, its two cases that leave one cell.
LEMMA RowsEraseIs ==
  ASSUME NEW r, NEW n, n = Len(r), n \in Nat
  PROVE  /\ r # <<<<>>>> /\ r[n] # <<>> =>
              RowsErase(r) = [r EXCEPT ![n] = Cut(r[n], Len(r[n]) - 1)]
         /\ r # <<<<>>>> /\ r[n] = <<>> =>
              RowsErase(r) = Append(SubSeq(r, 1, n - 2), Cut(r[n - 1], NUM_COLS - 1))
BY DEF RowsErase, Cut

\* The last character of a row is erased.
LEMMA PaintCut ==
  ASSUME NEW r, NEW n, NEW x \in Nat, Ends(r, n, x + 1)
  PROVE  Becomes(r, [r EXCEPT ![n] = Cut(r[n], x)], n, x, x, Blank)
<1> SUFFICES ASSUME Fits(r), n = Len(r), x + 1 = Len(r[n]), NEW q,
                    q = [r EXCEPT ![n] = Cut(r[n], x)]
             PROVE  Becomes(r, q, n, x, x, Blank)
  BY Zenon DEF Ends
<1>1. /\ r \in Seq(Seq(OnScreen)) /\ n \in Nat /\ n > 0 /\ n <= NUM_ROWS
      /\ \A k \in 1..n : r[k] \in Seq(OnScreen) /\ Len(r[k]) \in Nat /\ Len(r[k]) <= NUM_COLS
  BY FitsParts
<1>2. n \in 1..n /\ r[n] \in Seq(OnScreen) /\ x < NUM_COLS
  <2>1. n \in 1..n
    BY <1>1
  <2>2. x + 1 <= NUM_COLS /\ NUM_COLS \in Nat
    BY <1>1, <2>1, ScreenConstants
  <2> QED
    BY <1>1, <2>1, <2>2
<1>3. PICK last : last = Cut(r[n], x)
  OBVIOUS
<1>4. /\ last \in Seq(OnScreen) /\ Len(last) = x
      /\ \A k \in 1..x : last[k] = r[n][k]
  <2>1. \A k \in 1..x : k <= x + 1
    OBVIOUS
  <2> QED
    BY <1>2, <1>3, <2>1, CutIs
<1>5. /\ q \in Seq(Seq(OnScreen)) /\ Len(q) = n /\ q[n] = last
      /\ \A k \in 1..n : k # n => q[k] = r[k]
  BY <1>1, <1>2, <1>3, <1>4
<1>6. Fits(q)
  <2>1. ASSUME NEW k \in 1..n PROVE Len(q[k]) \in 0..NUM_COLS
    <3>1. CASE k = n
      <4>1. Len(q[k]) = x /\ x \in 0..NUM_COLS
        BY <1>2, <1>4, <1>5, <3>1, ScreenConstants
      <4> QED
        BY <4>1
    <3>2. CASE k # n
      BY <1>1, <1>5, <3>2, ScreenConstants
    <3> QED
      BY <3>1, <3>2
  <2> QED
    BY <1>1, <1>5, <2>1, ScreenConstants DEF Fits
<1>7. ASSUME NEW i \in Cells
      PROVE  PutGlyph(Painted(r), x, n - 1, Blank)[i] = Painted(q)[i]
  <2>1. PICK v, w : v = i \div NUM_COLS /\ w = i % NUM_COLS
    OBVIOUS
  <2>2. v \in Nat /\ w \in Nat /\ i = NUM_COLS * v + w
    <3>1. v \in 0..(NUM_ROWS - 1) /\ w \in 0..(NUM_COLS - 1) /\ At(i, v, w)
      BY <2>1, CellPlace
    <3> QED
      BY <3>1 DEF At
  <2>3. Painted(r)[i] = CellOf(r, v, w) /\ Painted(q)[i] = CellOf(q, v, w)
    BY <2>1, PaintedIs
  <2>4. PutGlyph(Painted(r), x, n - 1, Blank)[i] =
          IF i = NUM_COLS * (n - 1) + x THEN Blank ELSE CellOf(r, v, w)
    BY <2>3 DEF PutGlyph
  <2>5. CASE i = NUM_COLS * (n - 1) + x
    <3>1. n - 1 \in 0..(NUM_ROWS - 1) /\ x \in 0..(NUM_COLS - 1) /\ At(i, n - 1, x)
      BY <1>1, <1>2, <2>5, ScreenConstants DEF At
    <3>2. v = n - 1 /\ w = x
      BY <2>1, <3>1, PlaceCell
    <3>3. v + 1 = n /\ ~(w + 1 <= x)
      BY <1>1, <3>2
    <3>4. CellOf(q, v, w) = Blank
      BY <1>1, <1>2, <1>4, <1>5, <3>3 DEF CellOf
    <3> QED
      BY <2>3, <2>4, <2>5, <3>4
  <2>6. CASE i # NUM_COLS * (n - 1) + x
    <3>1. CellOf(q, v, w) = CellOf(r, v, w)
      <4>1. CASE v + 1 = n
        <5>1. v = n - 1 /\ w # x
          BY <1>1, <2>2, <2>6, <4>1
        <5>2. CASE w + 1 <= x
          <6>1. w + 1 \in 1..x /\ w + 1 <= x + 1
            BY <2>2, <5>2
          <6> QED
            BY <1>4, <1>5, <4>1, <5>2, <6>1 DEF CellOf
        <5>3. CASE ~(w + 1 <= x)
          <6>1. ~(w + 1 <= x + 1)
            BY <1>2, <2>2, <5>1, <5>3
          <6> QED
            BY <1>4, <1>5, <4>1, <5>3, <6>1 DEF CellOf
        <5> QED
          BY <5>2, <5>3
      <4>2. CASE v + 1 # n
        <5>1. v + 1 <= n => v + 1 \in 1..n
          BY <1>1, <2>2
        <5> QED
          BY <1>5, <4>2, <5>1 DEF CellOf
      <4> QED
        BY <4>1, <4>2
    <3> QED
      BY <2>3, <2>4, <2>6, <3>1
  <2> QED
    BY <2>5, <2>6
<1>8. PutGlyph(Painted(r), x, n - 1, Blank) = Painted(q)
  BY <1>7, PaintedIs DEF PutGlyph
<1>9. Becomes(r, q, n, x, x, Blank)
  BY <1>4, <1>5, <1>6, <1>8 DEF Becomes
<1> QED
  BY <1>9

\* Rows that are the same are shown the same.
SameRow(q, r, v) == v + 1 <= Len(q) /\ v + 1 <= Len(r) /\ q[v + 1] = r[v + 1]

LEMMA SameCells ==
  ASSUME NEW q, NEW r, NEW v, NEW w, SameRow(q, r, v)
  PROVE  CellOf(q, v, w) = CellOf(r, v, w)
BY DEF SameRow, CellOf

\* The last row is empty: the last column of the row above is erased.
LEMMA PaintBack ==
  ASSUME NEW r, NEW n, Ends(r, n, 0), n > 1, r[n] = <<>>
  PROVE  Becomes(r, Append(SubSeq(r, 1, n - 2), Cut(r[n - 1], NUM_COLS - 1)),
                 n - 1, NUM_COLS - 1, NUM_COLS - 1, Blank)
<1> SUFFICES ASSUME Fits(r), n = Len(r), 0 = Len(r[n]), NEW q,
                    q = Append(SubSeq(r, 1, n - 2), Cut(r[n - 1], NUM_COLS - 1))
             PROVE  Becomes(r, q, n - 1, NUM_COLS - 1, NUM_COLS - 1, Blank)
  BY Zenon DEF Ends
<1>1. /\ r \in Seq(Seq(OnScreen)) /\ n \in Nat /\ n > 1 /\ n <= NUM_ROWS
      /\ \A k \in 1..n : r[k] \in Seq(OnScreen) /\ Len(r[k]) \in Nat /\ Len(r[k]) <= NUM_COLS
  BY FitsParts
<1>2. PICK m, x : m = n - 1 /\ x = NUM_COLS - 1
  OBVIOUS
<1>3. /\ m \in Nat /\ m > 0 /\ m + 1 = n /\ m \in 1..n /\ n - 2 = m - 1 /\ m - 1 \in Nat
      /\ m <= NUM_ROWS
      /\ x \in Nat /\ x + 1 = NUM_COLS
  BY <1>1, <1>2, ScreenConstants
<1>4. PICK last, low : last = Cut(r[m], x) /\ low = SubSeq(r, 1, m - 1)
  OBVIOUS
<1>5. r[m] \in Seq(OnScreen) /\ Len(r[m]) \in Nat /\ Len(r[m]) <= x + 1
  BY <1>1, <1>3
<1>6. /\ last \in Seq(OnScreen) /\ Len(last) = x
      /\ \A k \in 1..x : last[k] = IF k <= Len(r[m]) THEN r[m][k] ELSE Blank
  <2>1. PICK a : a = r[m]
    OBVIOUS
  <2>2. a \in Seq(OnScreen) /\ x \in Nat /\ last = Cut(a, x)
    BY <1>3, <1>4, <1>5, <2>1
  <2>3. /\ last \in Seq(OnScreen) /\ Len(last) = x
        /\ \A k \in 1..x : last[k] = IF k <= Len(a) THEN a[k] ELSE Blank
    BY <2>2, CutIs
  <2> QED
    BY <2>1, <2>3
<1>7. /\ low \in Seq(Seq(OnScreen)) /\ Len(low) = m - 1
      /\ \A k \in 1..(m - 1) : low[k] = r[k]
  <2>1. PICK S : S = Seq(OnScreen)
    OBVIOUS
  <2>2. \A k \in 1..(m - 1) : k \in 1..n
    BY <1>3
  <2>3. r \in Seq(S) /\ \A k \in 1..(m - 1) : r[k] \in S
    BY <1>1, <2>1, <2>2
  <2>4. m - 1 \in Int /\ 1 \in Int /\ (IF 1 <= m - 1 THEN (m - 1) - 1 + 1 ELSE 0) = m - 1
    BY <1>3
  <2>5. \A k \in 1..(m - 1) : 1 + k - 1 = k
    BY <1>3
  <2>6. /\ low \in Seq(S) /\ Len(low) = m - 1 /\ \A k \in 1..(m - 1) : low[k] = r[k]
    BY <1>4, <2>3, <2>4, <2>5, SubSeqProperties
  <2> QED
    BY <2>1, <2>6
<1>8. q = Append(low, last)
  BY <1>2, <1>3, <1>4
<1>9. /\ q \in Seq(Seq(OnScreen)) /\ Len(q) = m /\ q[m] = last
      /\ \A k \in 1..(m - 1) : q[k] = r[k]
  <2>1. Len(low) + 1 = m
    BY <1>3, <1>7
  <2>2. /\ q \in Seq(Seq(OnScreen)) /\ Len(q) = m /\ q[m] = last
        /\ \A k \in 1..(m - 1) : q[k] = low[k]
    <3>1. low \in Seq(Seq(OnScreen)) /\ last \in Seq(OnScreen)
      BY <1>6, <1>7
    <3>2. OneMore(q, low, last)
      BY <1>8, <3>1, RowAppended
    <3>3. 1..Len(low) = 1..(m - 1)
      BY <1>7
    <3> QED
      BY <2>1, <3>2, <3>3 DEF OneMore
  <2> QED
    BY <1>7, <2>2
<1>10. Fits(q)
  <2>1. ASSUME NEW k \in 1..m PROVE Len(q[k]) \in 0..NUM_COLS
    <3>1. CASE k = m
      <4>1. Len(q[k]) = x
        BY <1>6, <1>9, <3>1
      <4>2. x \in 0..NUM_COLS
        BY <1>3, ScreenConstants
      <4> QED
        BY <4>1, <4>2, Zenon
    <3>2. CASE k # m
      <4>1. k \in 1..(m - 1) /\ k \in 1..n
        BY <1>3, <3>2
      <4>2. q[k] = r[k]
        BY <1>9, <4>1
      <4>3. Len(r[k]) \in 0..NUM_COLS
        BY <4>1 DEF Fits
      <4> QED
        BY <4>2, <4>3, Zenon
    <3> QED
      BY <3>1, <3>2
  <2>2. m \in 1..NUM_ROWS
    BY <1>3, ScreenConstants
  <2> QED
    BY <1>9, <2>1, <2>2 DEF Fits
<1>11. ASSUME NEW i \in Cells
       PROVE  PutGlyph(Painted(r), x, m - 1, Blank)[i] = Painted(q)[i]
  <2>1. PICK v, w : v = i \div NUM_COLS /\ w = i % NUM_COLS
    OBVIOUS
  <2>2. v \in Nat /\ w \in Nat /\ w <= x /\ i = NUM_COLS * v + w
    <3>1. v \in 0..(NUM_ROWS - 1) /\ w \in 0..(NUM_COLS - 1) /\ At(i, v, w)
      BY <2>1, CellPlace
    <3> QED
      BY <1>2, <3>1 DEF At
  <2>3. Painted(r)[i] = CellOf(r, v, w) /\ Painted(q)[i] = CellOf(q, v, w)
    BY <2>1, PaintedIs
  <2>4. PutGlyph(Painted(r), x, m - 1, Blank)[i] =
          IF i = NUM_COLS * (m - 1) + x THEN Blank ELSE CellOf(r, v, w)
    BY <2>3 DEF PutGlyph
  <2>5. CASE i = NUM_COLS * (m - 1) + x
    <3>1. m - 1 \in 0..(NUM_ROWS - 1) /\ x \in 0..(NUM_COLS - 1) /\ At(i, m - 1, x)
      BY <1>3, <2>5, ScreenConstants DEF At
    <3>2. v = m - 1 /\ w = x
      BY <2>1, <3>1, PlaceCell
    <3>3. v + 1 = m /\ ~(w + 1 <= x)
      BY <1>3, <3>2
    <3>4. CellOf(q, v, w) = Blank
      BY <1>6, <1>9, <3>3 DEF CellOf
    <3> QED
      BY <2>3, <2>4, <2>5, <3>4
  <2>6. CASE i # NUM_COLS * (m - 1) + x
    <3>1. CellOf(q, v, w) = CellOf(r, v, w)
      <4>1. CASE v + 1 = m
        <5>1. v = m - 1 /\ w # x
          <6>1. v = m - 1
            BY <1>3, <2>2, <4>1
          <6> QED
            BY <2>2, <2>6, <6>1
        <5>2. w + 1 \in 1..x /\ w + 1 <= x /\ m <= n
          BY <1>3, <2>2, <5>1
        <5>3. CellOf(q, v, w) = IF w + 1 <= Len(r[m]) THEN r[m][w + 1] ELSE Blank
          <6>1. last[w + 1] = IF w + 1 <= Len(r[m]) THEN r[m][w + 1] ELSE Blank
            BY <1>6, <5>2
          <6>2. q[v + 1] = last /\ Len(q) = v + 1 /\ Len(last) = x
            BY <1>6, <1>9, <4>1
          <6>3. v + 1 <= Len(q) /\ w + 1 <= Len(q[v + 1])
            BY <1>3, <4>1, <5>2, <6>2
          <6> QED
            BY <6>1, <6>2, <6>3 DEF CellOf
        <5>4. CellOf(r, v, w) = IF w + 1 <= Len(r[m]) THEN r[m][w + 1] ELSE Blank
          BY <4>1, <5>2 DEF CellOf
        <5> QED
          BY <5>3, <5>4
      <4>2. CASE v + 1 < m
        <5>1. v + 1 \in 1..(m - 1) /\ v + 1 <= n /\ v + 1 <= m
          BY <1>3, <2>2, <4>2
        <5>2. q[v + 1] = r[v + 1] /\ v + 1 <= Len(q) /\ v + 1 <= Len(r)
          BY <1>9, <5>1
        <5>3. SameRow(q, r, v)
          BY Zenon, <5>2 DEF SameRow
        <5> QED
          BY <5>3, SameCells
      <4>3. CASE v + 1 > m
        <5>1. CellOf(q, v, w) = Blank
          <6>1. ~(v + 1 <= m)
            BY <1>3, <2>2, <4>3
          <6> QED
            BY <1>9, <6>1 DEF CellOf
        <5>2. v + 1 = n \/ ~(v + 1 <= n)
          <6>1. v \in Nat /\ m \in Nat /\ m + 1 = n
            BY <1>3, <2>2
          <6> QED
            BY <4>3, <6>1
        <5>3. Len(r[n]) = 0 /\ ~(w + 1 <= 0)
          BY <2>2
        <5> QED
          BY <5>1, <5>2, <5>3 DEF CellOf
      <4> QED
        BY <1>3, <2>2, <4>1, <4>2, <4>3
    <3> QED
      BY <2>3, <2>4, <2>6, <3>1
  <2> QED
    BY <2>5, <2>6
<1>12. PutGlyph(Painted(r), x, m - 1, Blank) = Painted(q)
  BY <1>11, PaintedIs DEF PutGlyph
<1>13. Becomes(r, q, m, x, x, Blank)
  BY <1>6, <1>9, <1>10, <1>12 DEF Becomes
<1> QED
  BY <1>2, <1>13

-----------------------------------------------------------------------------
(* What is left of a write that is under way.                              *)

\* After the test for the last row, after screen_y++, after the test for the end of
\* the row, and after screen_x++.
Roll(s) == IF s.y = NUM_ROWS THEN Scrolled(s) ELSE s
Down(s) == Roll([s EXCEPT !.y = @ + 1])
Wrap(s) == IF s.x = NUM_COLS THEN Down([s EXCEPT !.x = 0]) ELSE s
Advance(s) == Wrap([s EXCEPT !.x = @ + 1])

\* scroll_screen has moved the rows above row k.
ScrolledFrom(s, k) ==
  [cells |-> [i \in Cells |-> IF i \div NUM_COLS < k THEN s.cells[i]
                              ELSE IF i + NUM_COLS \in Cells THEN s.cells[i + NUM_COLS]
                              ELSE Blank],
   x |-> 0, y |-> NUM_ROWS - 1]

\* The screen s when the write that stands at w with row k is done.
Finished(w, k, s) ==
  CASE w = "advance" -> Advance(s)
    [] w = "wrap" -> Wrap(s)
    [] w = "down" -> Down(s)
    [] w = "roll" -> Roll(s)
    [] w = "scroll" -> ScrolledFrom(s, k)
    [] OTHER -> s

\* Where the cursor may be meanwhile.
Bounds(w, k, s) ==
  /\ w \in WriterPCs /\ k \in 0..(NUM_ROWS - 1) /\ s.cells \in Pages
  /\ s.x \in 0..(IF w = "wrap" THEN NUM_COLS ELSE NUM_COLS - 1)
  /\ s.y \in 0..(IF w \in {"roll", "scroll"} THEN NUM_ROWS ELSE NUM_ROWS - 1)
  /\ w # "scroll" => k = 0
  /\ w \in {"down", "roll", "scroll"} => s.x = 0
  /\ w = "scroll" => s.y = NUM_ROWS

\* Screens: a page and a cursor on it.
ScreenRecords == [cells : Pages, x : 0..NUM_COLS, y : 0..NUM_ROWS]

\* Screen s shows the text r if p, its cursor is behind the text, and n characters can
\* be erased before it.
Shows(s, r, p, n) ==
  /\ s \in ScreenRecords /\ s.x < NUM_COLS /\ s.y < NUM_ROWS
  /\ Fits(r) /\ s.y = Len(r) - 1 /\ s.x = Len(r[Len(r)])
  /\ p => s.cells = Painted(r)
  /\ n \in 0..KeyLimit /\ n <= Linear(s.x, s.y)


-----------------------------------------------------------------------------
(* The operations of one screen.                                           *)

\* What stays a page.
LEMMA PageTypes ==
  /\ \A cs \in Pages : \A x, y : \A c \in OnScreen : PutGlyph(cs, x, y, c) \in Pages
  /\ \A s \in ScreenRecords :
       Scrolled(s) \in ScreenRecords /\ Scrolled(s).x = 0 /\ Scrolled(s).y = NUM_ROWS - 1
<1>1. ASSUME NEW cs \in Pages, NEW x, NEW y, NEW c \in OnScreen
      PROVE  PutGlyph(cs, x, y, c) \in Pages
  BY DEF PutGlyph, Pages
<1>2. ASSUME NEW s \in ScreenRecords
      PROVE  Scrolled(s) \in ScreenRecords /\ Scrolled(s).x = 0 /\ Scrolled(s).y = NUM_ROWS - 1
  <2>1. s.cells \in Pages
    BY DEF ScreenRecords
  <2>2. \A i \in Cells :
          (IF i + NUM_COLS \in Cells THEN s.cells[i + NUM_COLS] ELSE Blank) \in OnScreen
    BY <2>1 DEF Pages, OnScreen
  <2>3. Scrolled(s).cells \in Pages
    BY <2>2 DEF Scrolled, Pages
  <2>4. 0 \in 0..NUM_COLS /\ NUM_ROWS - 1 \in 0..NUM_ROWS
    BY ScreenConstants
  <2> QED
    BY <2>3, <2>4 DEF Scrolled, ScreenRecords
<1> QED
  BY <1>1, <1>2

\* How far behind the top of the page the cursor can be.
LEMMA LinearIs ==
  /\ \A y \in Nat : NUM_COLS * y \in Nat /\ NUM_COLS * (y + 1) = NUM_COLS * y + NUM_COLS
  /\ NUM_COLS * (NUM_ROWS - 1) = (NUM_ROWS - 1) * NUM_COLS
<1>1. PICK C, R : C = NUM_COLS /\ R = NUM_ROWS
  OBVIOUS
<1>2. C \in Nat /\ R - 1 \in Nat
  BY <1>1, ScreenConstants
<1>3. \A y \in Nat : C * y \in Nat /\ C * (y + 1) = C * y + C
  BY <1>2
<1>4. C * (R - 1) = (R - 1) * C
  BY <1>2
<1> QED
  BY <1>1, <1>3, <1>4

\* The cursor goes to the next row.
LEMMA ShowsBreak ==
  ASSUME NEW s \in ScreenRecords, s.y < NUM_ROWS, NEW r, Fits(r), s.y = Len(r) - 1,
         NEW p, p => s.cells = Painted(r),
         NEW n \in 0..KeyLimit, n <= NUM_COLS * (s.y + 1)
  PROVE  Shows(NextRow(s), RowsBreak(r), p, n)
<1>1. PICK q, b, y : q = RowsBreak(r) /\ b = NextRow(s) /\ y = s.y
  OBVIOUS
<1>2. /\ r \in Seq(Seq(OnScreen)) /\ Len(r) \in Nat /\ Len(r) > 0 /\ Len(r) <= NUM_ROWS
      /\ y \in Nat /\ y + 1 = Len(r) /\ s.cells \in Pages
  BY <1>1, FitsParts DEF ScreenRecords
<1>3. Len(Append(r, <<>>)) = Len(r) + 1
  BY <1>2
<1>4. CASE Len(r) < NUM_ROWS
  <2>1. q = Append(r, <<>>)
    <3>1. ~(Len(r) + 1 > NUM_ROWS)
      BY <1>2, <1>4, ScreenConstants
    <3> QED
      BY <1>1, <1>3, <3>1 DEF RowsBreak, Trim
  <2>2. Fits(q) /\ Len(q) = Len(r) + 1 /\ q[Len(q)] = <<>> /\ Painted(q) = Painted(r)
    BY <1>4, <2>1, PaintBreak
  <2>3. b = [s EXCEPT !.x = 0, !.y = y + 1]
    BY <1>1, <1>2, <1>4, ScreenConstants DEF NextRow
  <2>4. b.x = 0 /\ b.y = y + 1 /\ b.cells = s.cells /\ b \in ScreenRecords
    <3>1. s = [cells |-> s.cells, x |-> s.x, y |-> s.y]
      BY DEF ScreenRecords
    <3>2. b = [cells |-> s.cells, x |-> 0, y |-> y + 1]
      BY <2>3, <3>1
    <3>3. 0 \in 0..NUM_COLS /\ y + 1 \in 0..NUM_ROWS
      BY <1>2, <1>4, ScreenConstants
    <3> QED
      BY <1>2, <3>2, <3>3 DEF ScreenRecords
  <2>5. n <= Linear(b.x, b.y)
    BY <1>1, <1>2, <2>4, LinearIs DEF Linear
  <2>6. b.x < NUM_COLS /\ b.y < NUM_ROWS /\ b.y = Len(q) - 1 /\ b.x = Len(q[Len(q)])
    <3>1. b.x < NUM_COLS /\ b.y < NUM_ROWS
      BY <1>2, <1>4, <2>4, ScreenConstants
    <3>2. b.y = Len(q) - 1
      BY <1>2, <2>2, <2>4
    <3>3. b.x = Len(q[Len(q)])
      BY <2>2, <2>4
    <3> QED
      BY <3>1, <3>2, <3>3
  <2>7. p => b.cells = Painted(q)
    BY <2>2, <2>4
  <2> QED
    BY <1>1, <2>2, <2>4, <2>5, <2>6, <2>7 DEF Shows
<1>5. CASE Len(r) = NUM_ROWS
  <2>1. q = Tail(Append(r, <<>>))
    <3>1. Len(r) + 1 > NUM_ROWS
      BY <1>2, <1>5
    <3> QED
      BY <1>1, <1>3, <3>1 DEF RowsBreak, Trim
  <2>2. /\ Fits(q) /\ Len(q) = NUM_ROWS /\ q[Len(q)] = <<>>
        /\ Painted(q) = [i \in Cells |-> IF i + NUM_COLS \in Cells
                                         THEN Painted(r)[i + NUM_COLS] ELSE Blank]
    BY <1>5, <2>1, PaintScroll
  <2>3. b = Scrolled(s)
    BY <1>1, <1>2, <1>5 DEF NextRow
  <2>4. b \in ScreenRecords /\ b.x = 0 /\ b.y = NUM_ROWS - 1
    BY <2>3, PageTypes
  <2>5. n <= Linear(b.x, b.y)
    BY <2>4, LinearIs, ScreenConstants DEF Linear
  <2>6. b.x < NUM_COLS /\ b.y < NUM_ROWS /\ b.y = Len(q) - 1 /\ b.x = Len(q[Len(q)])
    <3>1. 0 < NUM_COLS /\ NUM_ROWS - 1 < NUM_ROWS /\ Len(<<>>) = 0
      BY ScreenConstants
    <3>2. b.y = Len(q) - 1
      BY <2>2, <2>4
    <3>3. b.x = Len(q[Len(q)])
      BY <2>2, <2>4, <3>1
    <3> QED
      BY <2>4, <3>1, <3>2, <3>3
  <2>7. p => b.cells = Painted(q)
    BY <2>2, <2>3 DEF Scrolled
  <2> QED
    BY <1>1, <2>2, <2>4, <2>5, <2>6, <2>7 DEF Shows
<1> QED
  BY <1>2, <1>4, <1>5, ScreenConstants

\* What Shows says, with the text's length and the cursor's row named.
LEMMA ShowsParts ==
  ASSUME NEW s, NEW r, NEW p, NEW n, Shows(s, r, p, n)
  PROVE  /\ s \in ScreenRecords /\ s.cells \in Pages /\ s.x \in Nat /\ s.x < NUM_COLS
         /\ s.y \in Nat /\ s.y < NUM_ROWS
         /\ Fits(r) /\ s.y + 1 = Len(r) /\ s.y = Len(r) - 1 /\ Len(r) \in Nat
         /\ s.x = Len(r[Len(r)]) /\ r[Len(r)] \in Seq(OnScreen)
         /\ p => s.cells = Painted(r)
         /\ n \in 0..KeyLimit /\ n \in Nat /\ n <= NUM_COLS * s.y + s.x
         /\ NUM_COLS * s.y \in Nat
<1>1. /\ s \in ScreenRecords /\ s.x < NUM_COLS /\ s.y < NUM_ROWS
      /\ Fits(r) /\ s.y = Len(r) - 1 /\ s.x = Len(r[Len(r)])
      /\ p => s.cells = Painted(r)
      /\ n \in 0..KeyLimit /\ n <= NUM_COLS * s.y + s.x
  BY DEF Shows, Linear
<1>2. s.cells \in Pages /\ s.x \in Nat /\ s.y \in Nat
  BY <1>1, ScreenConstants DEF ScreenRecords
<1>3. Len(r) \in Nat /\ Len(r) \in 1..Len(r) /\ r[Len(r)] \in Seq(OnScreen)
  <2>1. Len(r) \in Nat /\ Len(r) > 0
    BY <1>1, FitsParts
  <2>2. Len(r) \in 1..Len(r)
    BY <2>1
  <2> QED
    BY <1>1, <2>1, <2>2, FitsParts
<1>4. s.y + 1 = Len(r) /\ n \in Nat
  BY <1>1, <1>3, ScreenConstants
<1>5. NUM_COLS * s.y \in Nat
  BY <1>2, LinearIs
<1> QED
  BY <1>1, <1>2, <1>3, <1>4, <1>5

\* A newline.
LEMMA ShowsNewline ==
  ASSUME NEW s, NEW r, NEW p, NEW n, Shows(s, r, p, n), NEW m \in 0..KeyLimit, m <= n + 1
  PROVE  Shows(NextRow(s), RowsBreak(r), p, m)
<1>1. PICK w : w = NUM_COLS * s.y
  OBVIOUS
<1>2. w \in Nat /\ n <= w + s.x /\ s.x < NUM_COLS /\ s.x \in Nat /\ n \in Nat
  BY <1>1, ShowsParts
<1>3. NUM_COLS * (s.y + 1) = w + NUM_COLS
  <2>1. s.y \in Nat
    BY ShowsParts
  <2> QED
    BY <1>1, <2>1, LinearIs
<1>4. m <= NUM_COLS * (s.y + 1)
  BY <1>2, <1>3, ScreenConstants
<1> QED
  BY <1>4, ShowsParts, ShowsBreak

\* term_putc of another character.
LEMMA ShowsPut ==
  ASSUME NEW s, NEW r, NEW p, NEW n, Shows(s, r, p, n), NEW m \in 0..KeyLimit, m <= n + 1,
         NEW c \in OnScreen
  PROVE  Shows(Put(s, c), RowsPut(r, c), p, m)
<1>1. PICK k, x, q, d : /\ k = Len(r) /\ x = s.x /\ q = [r EXCEPT ![k] = Append(r[k], c)]
                        /\ d = [s EXCEPT !.cells = PutGlyph(s.cells, x, s.y, c), !.x = x + 1]
  OBVIOUS
<1>2. /\ s \in ScreenRecords /\ s.cells \in Pages /\ x \in Nat /\ x < NUM_COLS
      /\ s.y \in Nat /\ s.y < NUM_ROWS /\ Fits(r) /\ s.y + 1 = k /\ s.y = k - 1
      /\ x = Len(r[k])
      /\ n \in Nat /\ n <= NUM_COLS * s.y + x /\ NUM_COLS * s.y \in Nat
  BY <1>1, ShowsParts
<1>3. /\ Fits(q) /\ Len(q) = k /\ Len(q[k]) = x + 1
      /\ PutGlyph(Painted(r), x, k - 1, c) = Painted(q)
  <2>1. Ends(r, k, x) /\ x < NUM_COLS
    BY <1>1, <1>2 DEF Ends
  <2>2. Becomes(r, [r EXCEPT ![k] = Append(r[k], c)], k, x + 1, x, c)
    BY <2>1, PaintPut
  <2> QED
    BY <1>1, <2>2 DEF Becomes
<1>4. /\ d \in ScreenRecords /\ d.x = x + 1 /\ d.y = s.y
      /\ d.cells = PutGlyph(s.cells, x, s.y, c)
  <2>1. PutGlyph(s.cells, x, s.y, c) \in Pages
    BY <1>2, PageTypes
  <2>2. x + 1 \in 0..NUM_COLS
    BY <1>2, ScreenConstants
  <2> QED
    BY <1>1, <1>2, <2>1, <2>2 DEF ScreenRecords
<1>5. p => d.cells = Painted(q)
  <2> HAVE p
  <2>1. s.cells = Painted(r)
    BY ShowsParts
  <2> QED
    BY <1>2, <1>3, <1>4, <2>1
<1>6. /\ Put(s, c) = IF x + 1 = NUM_COLS THEN NextRow(d) ELSE d
      /\ RowsPut(r, c) = IF x + 1 = NUM_COLS THEN RowsBreak(q) ELSE q
  <2>1. Put(s, c) = IF d.x = NUM_COLS THEN NextRow(d) ELSE d
    BY <1>1 DEF Put
  <2>2. RowsPut(r, c) = IF Len(q[k]) = NUM_COLS THEN RowsBreak(q) ELSE q
    BY <1>1 DEF RowsPut
  <2> QED
    BY <1>3, <1>4, <2>1, <2>2
<1>7. PICK w : w = NUM_COLS * s.y
  OBVIOUS
<1>8. w \in Nat /\ m <= w + x + 1
  BY <1>2, <1>7
<1>9. CASE x + 1 = NUM_COLS
  <2>1. m <= NUM_COLS * (d.y + 1)
    <3>1. NUM_COLS * (s.y + 1) = w + NUM_COLS
      BY <1>2, <1>7, LinearIs
    <3> QED
      BY <1>2, <1>4, <1>8, <1>9, <3>1, ScreenConstants
  <2>2. d.y < NUM_ROWS /\ d.y = Len(q) - 1
    BY <1>2, <1>3, <1>4
  <2>3. Shows(NextRow(d), RowsBreak(q), p, m)
    BY <1>3, <1>4, <1>5, <2>1, <2>2, ShowsBreak
  <2> QED
    BY <1>6, <1>9, <2>3
<1>10. CASE x + 1 # NUM_COLS
  <2>1. d.x < NUM_COLS /\ d.y < NUM_ROWS /\ d.y = Len(q) - 1 /\ d.x = Len(q[Len(q)])
    <3>1. d.x < NUM_COLS
      <4>1. x \in Nat /\ x < NUM_COLS /\ NUM_COLS \in Nat /\ d.x = x + 1
        BY <1>2, <1>4, ScreenConstants
      <4> QED
        BY <1>10, <4>1
    <3>2. d.y < NUM_ROWS /\ d.y = Len(q) - 1
      BY <1>2, <1>3, <1>4
    <3>3. d.x = Len(q[Len(q)])
      BY <1>3, <1>4
    <3> QED
      BY <3>1, <3>2, <3>3
  <2>2. m <= Linear(d.x, d.y)
    BY <1>2, <1>4, <1>7, <1>8 DEF Linear
  <2>3. Shows(d, q, p, m)
    BY <1>3, <1>4, <1>5, <2>1, <2>2 DEF Shows
  <2> QED
    BY <1>6, <1>10, <2>3
<1> QED
  BY <1>9, <1>10

\* Backspace, of a line that is not empty.
LEMMA ShowsErase ==
  ASSUME NEW s, NEW r, NEW p, NEW n, Shows(s, r, p, n), n # 0
  PROVE  Shows(Erased(s), RowsErase(r), p, n - 1)
<1>1. PICK k, x, y, q, d : k = Len(r) /\ x = s.x /\ y = s.y /\ q = RowsErase(r) /\ d = Erased(s)
  OBVIOUS
<1>2. /\ s \in ScreenRecords /\ s.cells \in Pages /\ x \in Nat /\ x < NUM_COLS
      /\ y \in Nat /\ y < NUM_ROWS /\ Fits(r) /\ y + 1 = k /\ y = k - 1 /\ k \in Nat
      /\ x = Len(r[k]) /\ r[k] \in Seq(OnScreen)
      /\ n \in Nat /\ n <= NUM_COLS * y + x /\ NUM_COLS * y \in Nat
      /\ n \in 0..KeyLimit
  BY <1>1, ShowsParts
<1>3. PICK w : w = NUM_COLS * y
  OBVIOUS
<1>4. w \in Nat /\ n <= w + x /\ n - 1 \in 0..KeyLimit /\ NUM_COLS \in Nat
  <2>1. w \in Nat /\ n <= w + x
    BY <1>2, <1>3
  <2>2. n - 1 \in 0..KeyLimit /\ NUM_COLS \in Nat
    BY <1>2, ScreenConstants
  <2> QED
    BY <2>1, <2>2
<1>5. CASE x # 0
  <2>1. PICK v : v = x - 1
    OBVIOUS
  <2>2. v \in Nat /\ x = v + 1 /\ v < NUM_COLS
    BY <1>2, <1>4, <1>5, <2>1
  <2>3. r[k] # <<>> /\ r # <<<<>>>>
    BY <1>1, <1>2, <1>5
  <2>4. q = [r EXCEPT ![k] = Cut(r[k], v)]
    BY <1>1, <1>2, <2>1, <2>3, RowsEraseIs
  <2>5. /\ Fits(q) /\ Len(q) = k /\ Len(q[k]) = v
        /\ PutGlyph(Painted(r), v, k - 1, Blank) = Painted(q)
    <3>1. Ends(r, k, v + 1)
      BY <1>1, <1>2, <2>2 DEF Ends
    <3>2. Becomes(r, [r EXCEPT ![k] = Cut(r[k], v)], k, v, v, Blank)
      BY <2>2, <3>1, PaintCut
    <3> QED
      BY <2>4, <3>2 DEF Becomes
  <2>6. d = [cells |-> PutGlyph(s.cells, v, y, Blank), x |-> v, y |-> y]
    BY <1>1, <1>5, <2>1 DEF Erased
  <2>7. /\ PutGlyph(s.cells, v, y, Blank) \in Pages /\ v \in 0..NUM_COLS
        /\ y \in 0..NUM_ROWS
    BY <1>2, <2>2, PageTypes, ScreenConstants DEF OnScreen
  <2>8. d \in ScreenRecords /\ d.x = v /\ d.y = y
    BY <2>6, <2>7 DEF ScreenRecords
  <2>9. p => d.cells = Painted(q)
    <3> HAVE p
    <3>1. s.cells = Painted(r)
      BY ShowsParts
    <3> QED
      BY <1>2, <2>5, <2>6, <3>1
  <2>10. n - 1 <= Linear(d.x, d.y)
    BY <1>2, <1>3, <1>4, <2>2, <2>8 DEF Linear
  <2>11. d.x < NUM_COLS /\ d.y < NUM_ROWS /\ d.y = Len(q) - 1 /\ d.x = Len(q[Len(q)])
    BY <1>2, <2>2, <2>5, <2>8
  <2> QED
    BY <1>1, <1>4, <2>5, <2>8, <2>9, <2>10, <2>11 DEF Shows
<1>6. CASE x = 0
  <2>1. y # 0
    <3>1. y = 0 => w = 0
      BY <1>3, <1>4
    <3> QED
      BY <1>2, <1>4, <1>6, <3>1
  <2>2. k > 1 /\ k - 2 = y - 1 /\ y - 1 \in Nat /\ y - 1 < NUM_ROWS
    BY <1>2, <2>1, ScreenConstants
  <2>3. r[k] = <<>>
    <3>1. r[k] \in Seq(OnScreen) /\ Len(r[k]) = 0
      BY <1>2, <1>6
    <3> QED
      BY <3>1, EmptySeq
  <2>4. r # <<<<>>>>
    BY <1>1, <2>2
  <2>5. q = Append(SubSeq(r, 1, k - 2), Cut(r[k - 1], NUM_COLS - 1))
    BY <1>1, <1>2, <2>3, <2>4, RowsEraseIs
  <2>6. /\ Fits(q) /\ Len(q) = k - 1 /\ Len(q[k - 1]) = NUM_COLS - 1
        /\ PutGlyph(Painted(r), NUM_COLS - 1, k - 2, Blank) = Painted(q)
    <3>1. Ends(r, k, 0)
      BY <1>1, <1>2, <1>6 DEF Ends
    <3>2. Becomes(r, q, k - 1, NUM_COLS - 1, NUM_COLS - 1, Blank)
      BY <2>2, <2>3, <2>5, <3>1, PaintBack
    <3>3. k - 1 - 1 = k - 2
      BY <1>2
    <3> QED
      BY <3>2, <3>3 DEF Becomes
  <2>7. (y + 255) % 256 = y - 1
    BY <1>2, <2>1, ScreenConstants
  <2>8. d = [cells |-> PutGlyph(s.cells, NUM_COLS - 1, y - 1, Blank),
             x |-> NUM_COLS - 1, y |-> y - 1]
    BY <1>1, <1>6, <2>7 DEF Erased
  <2>9. /\ PutGlyph(s.cells, NUM_COLS - 1, y - 1, Blank) \in Pages
        /\ NUM_COLS - 1 \in 0..NUM_COLS /\ y - 1 \in 0..NUM_ROWS
    BY <1>2, <2>2, PageTypes, ScreenConstants DEF OnScreen
  <2>10. d \in ScreenRecords /\ d.x = NUM_COLS - 1 /\ d.y = y - 1
    BY <2>8, <2>9 DEF ScreenRecords
  <2>11. p => d.cells = Painted(q)
    <3> HAVE p
    <3>1. s.cells = Painted(r)
      BY ShowsParts
    <3> QED
      BY <1>2, <2>2, <2>6, <2>8, <3>1
  <2>12. n - 1 <= Linear(d.x, d.y)
    <3>1. PICK u : u = NUM_COLS * (y - 1)
      OBVIOUS
    <3>2. (y - 1) + 1 = y
      BY <1>2
    <3>3. u \in Nat /\ w = u + NUM_COLS
      BY <1>3, <2>2, <3>1, <3>2, LinearIs
    <3>4. n - 1 <= u + (NUM_COLS - 1)
      BY <1>2, <1>4, <1>6, <3>3
    <3> QED
      BY <2>10, <3>1, <3>4 DEF Linear
  <2>13. d.x < NUM_COLS /\ d.y < NUM_ROWS /\ d.y = Len(q) - 1 /\ d.x = Len(q[Len(q)])
    BY <1>2, <2>2, <2>6, <2>10, ScreenConstants
  <2> QED
    BY <1>1, <1>4, <2>6, <2>10, <2>11, <2>12, <2>13 DEF Shows
<1> QED
  BY <1>5, <1>6

\* Rows of which the first cells are those of one row of text, and no others.
LEMMA PaintOne ==
  ASSUME NEW e \in Seq(OnScreen), Len(e) < NUM_COLS
  PROVE  /\ Fits(<<e>>) /\ Len(<<e>>) = 1 /\ <<e>>[1] = e
         /\ Painted(<<e>>) = [i \in Cells |-> IF i < Len(e) THEN e[i + 1] ELSE Blank]
<1>1. PICK r : r = <<e>>
  OBVIOUS
<1>2. r \in Seq(Seq(OnScreen)) /\ Len(r) = 1 /\ r[1] = e /\ Len(e) \in Nat
  BY <1>1
<1>3. Fits(r)
  BY <1>2, ScreenConstants DEF Fits
<1>4. ASSUME NEW i \in Cells
      PROVE  Painted(r)[i] = IF i < Len(e) THEN e[i + 1] ELSE Blank
  <2>1. PICK v, w : v = i \div NUM_COLS /\ w = i % NUM_COLS
    OBVIOUS
  <2>2. v \in Nat /\ w \in Nat /\ w < NUM_COLS /\ i = NUM_COLS * v + w
    <3>1. v \in 0..(NUM_ROWS - 1) /\ w \in 0..(NUM_COLS - 1) /\ At(i, v, w)
      BY <2>1, CellPlace
    <3> QED
      BY <3>1, ScreenConstants DEF At
  <2>3. Painted(r)[i] = CellOf(r, v, w)
    BY <2>1, PaintedIs
  <2>4. CASE v = 0
    <3>1. i = w
      BY <2>2, <2>4, ScreenConstants
    <3>2. w + 1 <= Len(e) <=> i < Len(e)
      BY <1>2, <2>2, <3>1
    <3> QED
      BY <1>2, <2>3, <2>4, <3>1, <3>2 DEF CellOf
  <2>5. CASE v # 0
    <3>1. ~(v + 1 <= Len(r))
      BY <1>2, <2>2, <2>5
    <3>2. NUM_COLS * 1 <= NUM_COLS * v /\ NUM_COLS * v \in Nat /\ NUM_COLS * 1 = NUM_COLS
      <4>1. NUM_COLS \in Nat /\ 1 <= v /\ v \in Nat
        BY <2>2, <2>5, ScreenConstants
      <4>2. NUM_COLS * 1 <= NUM_COLS * v /\ NUM_COLS * v \in Nat
        BY <4>1, Products
      <4> QED
        BY <4>1, <4>2
    <3>3. ~(i < Len(e))
      <4>1. PICK u : u = NUM_COLS * v
        OBVIOUS
      <4>2. u \in Nat /\ u >= NUM_COLS /\ i = u + w
        BY <2>2, <3>2, <4>1, ScreenConstants
      <4> QED
        BY <1>2, <2>2, <4>2, ScreenConstants
    <3> QED
      BY <2>3, <3>1, <3>3 DEF CellOf
  <2> QED
    BY <2>4, <2>5
<1>5. Painted(r) = [i \in Cells |-> IF i < Len(e) THEN e[i + 1] ELSE Blank]
  BY <1>4, PaintedIs
<1> QED
  BY <1>1, <1>2, <1>3, <1>5

\* A screen with one row of text.
LEMMA ShowsOne ==
  ASSUME NEW e \in Seq(OnScreen), Len(e) < NUM_COLS, NEW s, NEW p,
         s = [cells |-> [i \in Cells |-> IF i < Len(e) THEN e[i + 1] ELSE Blank],
              x |-> Len(e), y |-> 0]
  PROVE  Shows(s, <<e>>, p, 0)
<1>1. PICK r : r = <<e>>
  OBVIOUS
<1>2. /\ Fits(r) /\ Len(r) = 1 /\ r[1] = e
      /\ Painted(r) = [i \in Cells |-> IF i < Len(e) THEN e[i + 1] ELSE Blank]
  BY <1>1, PaintOne
<1>3. s.cells = Painted(r) /\ s.x = Len(e) /\ s.y = 0
  BY <1>2
<1>4. Len(e) \in Nat
  OBVIOUS
<1>5. s \in ScreenRecords
  <2>1. Painted(r) \in Pages
    BY <1>2, PaintedType
  <2>2. Len(e) \in 0..NUM_COLS /\ 0 \in 0..NUM_ROWS
    BY <1>4, ScreenConstants
  <2> QED
    BY <1>2, <2>1, <2>2 DEF ScreenRecords
<1>6. 0 \in 0..KeyLimit /\ 0 <= Linear(s.x, s.y)
  BY <1>3, <1>4, LinearIs, ScreenConstants DEF Linear
<1>7. s.x < NUM_COLS /\ s.y < NUM_ROWS /\ s.y = Len(r) - 1 /\ s.x = Len(r[Len(r)])
  BY <1>2, <1>3, ScreenConstants
<1> QED
  BY <1>1, <1>2, <1>3, <1>5, <1>6, <1>7 DEF Shows

\* term_clear.
LEMMA ShowsCleared == ASSUME NEW p PROVE Shows(Cleared, <<Prompt>>, p, 0)
<1>1. Prompt \in Seq(OnScreen) /\ Len(Prompt) = PromptLen
  <2>1. Prompt \in [1..PromptLen -> OnScreen]
    BY DEF Prompt, OnScreen
  <2> QED
    BY <2>1, ScreenConstants DEF Prompt
<1>2. Len(Prompt) < NUM_COLS
  BY <1>1, ScreenConstants
<1> QED
  BY <1>1, <1>2, ShowsOne DEF Cleared

\* A blank page.
LEMMA ShowsBlank ==
  ASSUME NEW p
  PROVE  Shows([cells |-> [i \in Cells |-> Blank], x |-> 0, y |-> 0], <<<<>>>>, p, 0)
<1>1. PICK e : e = <<>>
  OBVIOUS
<1>2. e \in Seq(OnScreen) /\ Len(e) = 0 /\ Len(e) < NUM_COLS
  BY <1>1, ScreenConstants
<1>3. \A i \in Cells : ~(i < 0)
  BY DEF Cells
<1>4. [i \in Cells |-> IF i < Len(e) THEN e[i + 1] ELSE Blank] = [i \in Cells |-> Blank]
  BY <1>2, <1>3
<1>5. PICK s : s = [cells |-> [i \in Cells |-> Blank], x |-> 0, y |-> 0]
  OBVIOUS
<1>6. s = [cells |-> [i \in Cells |-> IF i < Len(e) THEN e[i + 1] ELSE Blank],
           x |-> Len(e), y |-> 0]
  BY <1>2, <1>4, <1>5
<1>7. Shows(s, <<e>>, p, 0)
  BY <1>2, <1>6, ShowsOne
<1> QED
  BY <1>1, <1>5, <1>7

-----------------------------------------------------------------------------
(* The steps of a writer.                                                  *)

\* The same of a terminal with a writer that stands at w with row k.
WillShow(w, k, s, r, p, n) == Bounds(w, k, s) /\ Shows(Finished(w, k, s), r, p, n)

Scr(cs, x, y) == [cells |-> cs, x |-> x, y |-> y]

\* What is left to do, case by case.
LEMMA FinishedIs ==
  ASSUME NEW k, NEW cs, NEW x, NEW y
  PROVE  /\ Finished("advance", k, Scr(cs, x, y)) = Wrap(Scr(cs, x + 1, y))
         /\ Finished("wrap", k, Scr(cs, x, y)) =
              IF x = NUM_COLS THEN Roll(Scr(cs, 0, y + 1)) ELSE Scr(cs, x, y)
         /\ Finished("down", k, Scr(cs, x, y)) = Roll(Scr(cs, x, y + 1))
         /\ Finished("roll", k, Scr(cs, x, y)) = Roll(Scr(cs, x, y))
         /\ Finished("scroll", k, Scr(cs, x, y)) = ScrolledFrom(Scr(cs, x, y), k)
         /\ \A w \in {"idle", "cursor"} \cup Ports :
              Finished(w, k, Scr(cs, x, y)) = Scr(cs, x, y)
<1>1. /\ Finished("advance", k, Scr(cs, x, y)) = Advance(Scr(cs, x, y))
      /\ Finished("wrap", k, Scr(cs, x, y)) = Wrap(Scr(cs, x, y))
      /\ Finished("down", k, Scr(cs, x, y)) = Down(Scr(cs, x, y))
      /\ Finished("roll", k, Scr(cs, x, y)) = Roll(Scr(cs, x, y))
      /\ Finished("scroll", k, Scr(cs, x, y)) = ScrolledFrom(Scr(cs, x, y), k)
  BY DEF Finished
<1>2. \A w \in {"idle", "cursor"} \cup Ports : Finished(w, k, Scr(cs, x, y)) = Scr(cs, x, y)
  BY DEF Finished, Ports
<1>3. /\ Advance(Scr(cs, x, y)) = Wrap(Scr(cs, x + 1, y))
      /\ \A v : Down(Scr(cs, v, y)) = Roll(Scr(cs, v, y + 1))
  BY DEF Advance, Down, Scr
<1>4. Wrap(Scr(cs, x, y)) = IF x = NUM_COLS THEN Roll(Scr(cs, 0, y + 1)) ELSE Scr(cs, x, y)
  <2>1. Wrap(Scr(cs, x, y)) = IF x = NUM_COLS THEN Down(Scr(cs, 0, y)) ELSE Scr(cs, x, y)
    BY DEF Wrap, Scr
  <2> QED
    BY <1>3, <2>1
<1> QED
  BY <1>1, <1>2, <1>3, <1>4

\* The next row, in parts.
LEMMA NextRowIs ==
  ASSUME NEW cs, NEW x, NEW y PROVE NextRow(Scr(cs, x, y)) = Roll(Scr(cs, 0, y + 1))
<1>1. \A v, w : Scrolled(Scr(cs, v, w)) = Scrolled(Scr(cs, x, y))
  BY DEF Scrolled, Scr
<1>2. PICK s : s = Scr(cs, x, y)
  OBVIOUS
<1>3. s.y = y /\ [s EXCEPT !.x = 0, !.y = s.y + 1] = Scr(cs, 0, y + 1)
  <2>1. s = [cells |-> cs, x |-> x, y |-> y]
    BY <1>2 DEF Scr
  <2>2. s.y = y
    BY <2>1
  <2>3. PICK b, z : z = y + 1 /\ b = [s EXCEPT !.x = 0, !.y = z]
    OBVIOUS
  <2>4. b = [cells |-> cs, x |-> 0, y |-> z]
    BY <2>1, <2>3
  <2> QED
    BY <2>2, <2>3, <2>4 DEF Scr
<1>4. NextRow(s) = IF y + 1 = NUM_ROWS THEN Scrolled(s) ELSE Scr(cs, 0, y + 1)
  BY <1>3 DEF NextRow
<1>5. Roll(Scr(cs, 0, y + 1)) = IF y + 1 = NUM_ROWS THEN Scrolled(Scr(cs, 0, y + 1))
                                ELSE Scr(cs, 0, y + 1)
  <2>1. Scr(cs, 0, y + 1).y = y + 1
    BY DEF Scr
  <2> QED
    BY <2>1 DEF Roll
<1> QED
  BY <1>1, <1>2, <1>4, <1>5

\* The bounds, as parts.
LEMMA BoundsIs ==
  ASSUME NEW w, NEW k, NEW cs, NEW x, NEW y
  PROVE  Bounds(w, k, Scr(cs, x, y)) <=>
           /\ w \in WriterPCs /\ k \in 0..(NUM_ROWS - 1) /\ cs \in Pages
           /\ x \in 0..(IF w = "wrap" THEN NUM_COLS ELSE NUM_COLS - 1)
           /\ y \in 0..(IF w \in {"roll", "scroll"} THEN NUM_ROWS ELSE NUM_ROWS - 1)
           /\ w # "scroll" => k = 0
           /\ w \in {"down", "roll", "scroll"} => x = 0
           /\ w = "scroll" => y = NUM_ROWS
BY DEF Bounds, Scr

\* What an idle terminal shows is what it will show.
LEMMA IdleShows ==
  ASSUME NEW cs, NEW x, NEW y, NEW r, NEW p, NEW n
  PROVE  WillShow("idle", 0, Scr(cs, x, y), r, p, n) <=> Shows(Scr(cs, x, y), r, p, n)
<1>1. Finished("idle", 0, Scr(cs, x, y)) = Scr(cs, x, y)
  BY DEF Finished
<1>2. ASSUME Shows(Scr(cs, x, y), r, p, n) PROVE Bounds("idle", 0, Scr(cs, x, y))
  <2>1. cs \in Pages /\ x \in 0..(NUM_COLS - 1) /\ y \in 0..(NUM_ROWS - 1)
    <3>1. /\ Scr(cs, x, y).cells \in Pages /\ Scr(cs, x, y).x \in Nat
          /\ Scr(cs, x, y).x < NUM_COLS
          /\ Scr(cs, x, y).y \in Nat /\ Scr(cs, x, y).y < NUM_ROWS
      BY <1>2, ShowsParts
    <3> QED
      BY <3>1, ScreenConstants DEF Scr
  <2>2. 0 \in 0..(NUM_ROWS - 1)
    BY ScreenConstants
  <2> QED
    BY <2>1, <2>2, BoundsIs DEF WriterPCs
<1> QED
  BY <1>1, <1>2 DEF WillShow

\* The glyph is stored.
LEMMA WriteStarts ==
  ASSUME NEW cs, NEW x, NEW y, NEW r, NEW p, NEW n, Shows(Scr(cs, x, y), r, p, n),
         NEW c \in OnScreen
  PROVE  WillShow("advance", 0, Scr(PutGlyph(cs, x, y, c), x, y), RowsPut(r, c), p, n)
<1>1. PICK ds : ds = PutGlyph(cs, x, y, c)
  OBVIOUS
<1>2. Bounds("idle", 0, Scr(cs, x, y))
  BY IdleShows DEF WillShow
<1>3. /\ 0 \in 0..(NUM_ROWS - 1) /\ cs \in Pages
      /\ x \in 0..(NUM_COLS - 1) /\ y \in 0..(NUM_ROWS - 1)
  BY <1>2, BoundsIs
<1>4. ds \in Pages
  BY <1>1, <1>3, PageTypes
<1>5. Bounds("advance", 0, Scr(ds, x, y))
  BY <1>3, <1>4, BoundsIs DEF WriterPCs
<1>6. Finished("advance", 0, Scr(ds, x, y)) = Put(Scr(cs, x, y), c)
  <2>1. Finished("advance", 0, Scr(ds, x, y)) = Wrap(Scr(ds, x + 1, y))
    BY FinishedIs
  <2>2. Put(Scr(cs, x, y), c) =
          IF x + 1 = NUM_COLS THEN NextRow(Scr(ds, x + 1, y)) ELSE Scr(ds, x + 1, y)
    <3>1. PICK s : s = Scr(cs, x, y)
      OBVIOUS
    <3>2. PICK d : d = [s EXCEPT !.cells = PutGlyph(s.cells, s.x, s.y, c), !.x = s.x + 1]
      OBVIOUS
    <3>3. d = Scr(ds, x + 1, y) /\ d.x = x + 1
      BY <1>1, <3>1, <3>2 DEF Scr
    <3>4. Put(s, c) = IF d.x = NUM_COLS THEN NextRow(d) ELSE d
      BY <3>2 DEF Put
    <3> QED
      BY <3>1, <3>3, <3>4
  <2>3. Wrap(Scr(ds, x + 1, y)) =
          IF x + 1 = NUM_COLS THEN Roll(Scr(ds, 0, y + 1)) ELSE Scr(ds, x + 1, y)
    <3>1. Wrap(Scr(ds, x + 1, y)) = Finished("wrap", 0, Scr(ds, x + 1, y))
      BY DEF Finished
    <3> QED
      BY <3>1, FinishedIs
  <2>4. NextRow(Scr(ds, x + 1, y)) = Roll(Scr(ds, 0, y + 1))
    BY NextRowIs
  <2> QED
    BY <2>1, <2>2, <2>3, <2>4
<1>7. n \in 0..KeyLimit /\ n <= n + 1
  <2>1. n \in 0..KeyLimit /\ n \in Nat
    BY ShowsParts
  <2> QED
    BY <2>1
<1>8. Shows(Put(Scr(cs, x, y), c), RowsPut(r, c), p, n)
  BY <1>7, ShowsPut
<1> QED
  BY <1>1, <1>5, <1>6, <1>8 DEF WillShow

\* A newline begins.
LEMMA BreakStarts ==
  ASSUME NEW cs, NEW x, NEW y, NEW r, NEW p, NEW n, Shows(Scr(cs, x, y), r, p, n)
  PROVE  WillShow("down", 0, Scr(cs, 0, y), RowsBreak(r), p, n)
<1>1. Bounds("idle", 0, Scr(cs, x, y))
  BY IdleShows DEF WillShow
<1>2. /\ 0 \in 0..(NUM_ROWS - 1) /\ cs \in Pages
      /\ 0 \in 0..(NUM_COLS - 1) /\ y \in 0..(NUM_ROWS - 1)
  BY <1>1, BoundsIs, ScreenConstants
<1>3. Bounds("down", 0, Scr(cs, 0, y))
  BY <1>2, BoundsIs DEF WriterPCs
<1>4. Finished("down", 0, Scr(cs, 0, y)) = NextRow(Scr(cs, x, y))
  <2>1. Finished("down", 0, Scr(cs, 0, y)) = Roll(Scr(cs, 0, y + 1))
    BY FinishedIs
  <2>2. NextRow(Scr(cs, x, y)) = Roll(Scr(cs, 0, y + 1))
    BY NextRowIs
  <2> QED
    BY <2>1, <2>2
<1>5. n \in 0..KeyLimit /\ n <= n + 1
  <2>1. n \in 0..KeyLimit /\ n \in Nat
    BY ShowsParts
  <2> QED
    BY <2>1
<1>6. Shows(NextRow(Scr(cs, x, y)), RowsBreak(r), p, n)
  BY <1>5, ShowsNewline
<1> QED
  BY <1>3, <1>4, <1>6 DEF WillShow

\* screen_x++
LEMMA AdvanceShows ==
  ASSUME NEW k, NEW cs, NEW x, NEW y, NEW r, NEW p, NEW n,
         WillShow("advance", k, Scr(cs, x, y), r, p, n)
  PROVE  WillShow("wrap", k, Scr(cs, (x + 1) % 256, y), r, p, n)
<1>1. Bounds("advance", k, Scr(cs, x, y))
  BY DEF WillShow
<1>2. /\ k \in 0..(NUM_ROWS - 1) /\ k = 0 /\ cs \in Pages
      /\ x \in 0..(NUM_COLS - 1) /\ y \in 0..(NUM_ROWS - 1)
  BY <1>1, BoundsIs
<1>3. (x + 1) % 256 = x + 1 /\ x + 1 \in 0..NUM_COLS
  BY <1>2, ScreenConstants
<1>4. Bounds("wrap", k, Scr(cs, x + 1, y))
  BY <1>2, <1>3, BoundsIs DEF WriterPCs
<1>5. Finished("wrap", k, Scr(cs, x + 1, y)) = Finished("advance", k, Scr(cs, x, y))
  <2>1. Finished("wrap", k, Scr(cs, x + 1, y)) = Wrap(Scr(cs, x + 1, y))
    BY DEF Finished
  <2> QED
    BY <2>1, FinishedIs
<1> QED
  BY <1>3, <1>4, <1>5 DEF WillShow

\* The test for the end of the row.
LEMMA WrapShows ==
  ASSUME NEW k, NEW cs, NEW x, NEW y, NEW r, NEW p, NEW n,
         WillShow("wrap", k, Scr(cs, x, y), r, p, n)
  PROVE  /\ x = NUM_COLS => WillShow("down", k, Scr(cs, 0, y), r, p, n)
         /\ x # NUM_COLS => WillShow("cursor", k, Scr(cs, x, y), r, p, n)
<1>1. Bounds("wrap", k, Scr(cs, x, y))
  BY DEF WillShow
<1>2. /\ k \in 0..(NUM_ROWS - 1) /\ k = 0 /\ cs \in Pages
      /\ x \in 0..NUM_COLS /\ y \in 0..(NUM_ROWS - 1)
  BY <1>1, BoundsIs
<1>3. CASE x = NUM_COLS
  <2>1. 0 \in 0..(NUM_COLS - 1)
    BY ScreenConstants
  <2>2. Bounds("down", k, Scr(cs, 0, y))
    BY <1>2, <2>1, BoundsIs DEF WriterPCs
  <2>3. Finished("down", k, Scr(cs, 0, y)) = Finished("wrap", k, Scr(cs, x, y))
    BY <1>3, FinishedIs
  <2> QED
    BY <1>3, <2>2, <2>3 DEF WillShow
<1>4. CASE x # NUM_COLS
  <2>1. x \in 0..(NUM_COLS - 1)
    BY <1>2, <1>4, ScreenConstants
  <2>2. Bounds("cursor", k, Scr(cs, x, y))
    BY <1>2, <2>1, BoundsIs DEF WriterPCs
  <2>3. Finished("cursor", k, Scr(cs, x, y)) = Finished("wrap", k, Scr(cs, x, y))
    BY <1>4, FinishedIs
  <2> QED
    BY <1>4, <2>2, <2>3 DEF WillShow
<1> QED
  BY <1>3, <1>4

\* screen_y++
LEMMA DownShows ==
  ASSUME NEW k, NEW cs, NEW x, NEW y, NEW r, NEW p, NEW n,
         WillShow("down", k, Scr(cs, x, y), r, p, n)
  PROVE  WillShow("roll", k, Scr(cs, x, (y + 1) % 256), r, p, n)
<1>1. Bounds("down", k, Scr(cs, x, y))
  BY DEF WillShow
<1>2. /\ k \in 0..(NUM_ROWS - 1) /\ k = 0 /\ cs \in Pages /\ x = 0
      /\ x \in 0..(NUM_COLS - 1) /\ y \in 0..(NUM_ROWS - 1)
  BY <1>1, BoundsIs
<1>3. (y + 1) % 256 = y + 1 /\ y + 1 \in 0..NUM_ROWS
  BY <1>2, ScreenConstants
<1>4. Bounds("roll", k, Scr(cs, x, y + 1))
  BY <1>2, <1>3, BoundsIs DEF WriterPCs
<1>5. Finished("roll", k, Scr(cs, x, y + 1)) = Finished("down", k, Scr(cs, x, y))
  BY FinishedIs
<1> QED
  BY <1>3, <1>4, <1>5 DEF WillShow

\* The test for the last row.
LEMMA RollShows ==
  ASSUME NEW k, NEW cs, NEW x, NEW y, NEW r, NEW p, NEW n,
         WillShow("roll", k, Scr(cs, x, y), r, p, n)
  PROVE  WillShow(IF y = NUM_ROWS THEN "scroll" ELSE "cursor", k, Scr(cs, x, y), r, p, n)
<1>1. Bounds("roll", k, Scr(cs, x, y))
  BY DEF WillShow
<1>2. /\ k \in 0..(NUM_ROWS - 1) /\ k = 0 /\ cs \in Pages /\ x = 0
      /\ x \in 0..(NUM_COLS - 1) /\ y \in 0..NUM_ROWS
  BY <1>1, BoundsIs
<1>3. Finished("roll", k, Scr(cs, x, y)) =
        IF y = NUM_ROWS THEN Scrolled(Scr(cs, x, y)) ELSE Scr(cs, x, y)
  <2>1. Finished("roll", k, Scr(cs, x, y)) = Roll(Scr(cs, x, y))
    BY FinishedIs
  <2> QED
    BY <2>1 DEF Roll, Scr
<1>4. CASE y = NUM_ROWS
  <2>1. Bounds("scroll", k, Scr(cs, x, y))
    BY <1>2, <1>4, BoundsIs DEF WriterPCs
  <2>2. ScrolledFrom(Scr(cs, x, y), k) = Scrolled(Scr(cs, x, y))
    <3>1. \A i \in Cells : ~(i \div NUM_COLS < 0)
      <4> TAKE i \in Cells
      <4>1. i \div NUM_COLS \in 0..(NUM_ROWS - 1)
        BY CellPlace
      <4> QED
        BY <4>1
    <3> QED
      BY <1>2, <3>1 DEF ScrolledFrom, Scrolled
  <2>3. Finished("scroll", k, Scr(cs, x, y)) = Finished("roll", k, Scr(cs, x, y))
    BY <1>3, <1>4, <2>2, FinishedIs
  <2> QED
    BY <1>4, <2>1, <2>3 DEF WillShow
<1>5. CASE y # NUM_ROWS
  <2>1. y \in 0..(NUM_ROWS - 1)
    BY <1>2, <1>5, ScreenConstants
  <2>2. Bounds("cursor", k, Scr(cs, x, y))
    BY <1>2, <2>1, BoundsIs DEF WriterPCs
  <2>3. Finished("cursor", k, Scr(cs, x, y)) = Finished("roll", k, Scr(cs, x, y))
    BY <1>3, <1>5, FinishedIs
  <2> QED
    BY <1>5, <2>2, <2>3 DEF WillShow
<1> QED
  BY <1>4, <1>5

\* scroll_screen moves row k + 1 up to row k.
LEMMA ScrollShows ==
  ASSUME NEW k, NEW cs, NEW x, NEW y, NEW r, NEW p, NEW n,
         WillShow("scroll", k, Scr(cs, x, y), r, p, n), k < NUM_ROWS - 1,
         NEW ds, ds = [i \in Cells |-> IF i \div NUM_COLS = k THEN cs[i + NUM_COLS] ELSE cs[i]]
  PROVE  WillShow("scroll", k + 1, Scr(ds, x, y), r, p, n)
<1>1. Bounds("scroll", k, Scr(cs, x, y))
  BY DEF WillShow
<1>2. /\ k \in 0..(NUM_ROWS - 1) /\ cs \in Pages /\ x = 0 /\ y = NUM_ROWS
      /\ x \in 0..(NUM_COLS - 1) /\ y \in 0..NUM_ROWS
  BY <1>1, BoundsIs
<1>3. k \in Nat /\ k + 1 \in 0..(NUM_ROWS - 1)
  BY <1>2, ScreenConstants
<1>4. \A i \in Cells :
        /\ i \div NUM_COLS \in Nat
        /\ i + NUM_COLS \in Cells <=> i \div NUM_COLS < NUM_ROWS - 1
        /\ i + NUM_COLS \in Cells => (i + NUM_COLS) \div NUM_COLS = (i \div NUM_COLS) + 1
  <2> TAKE i \in Cells
  <2>1. i \div NUM_COLS \in 0..(NUM_ROWS - 1)
    BY CellPlace
  <2>2. i \div NUM_COLS \in Nat
    BY <2>1
  <2> QED
    BY <2>2, CellBelow
<1>5. ds \in Pages
  <2>1. ASSUME NEW i \in Cells
        PROVE  (IF i \div NUM_COLS = k THEN cs[i + NUM_COLS] ELSE cs[i]) \in OnScreen
    <3>1. i \div NUM_COLS = k => i + NUM_COLS \in Cells
      BY <1>4
    <3> QED
      BY <1>2, <3>1 DEF Pages
  <2> QED
    BY <2>1 DEF Pages
<1>6. Bounds("scroll", k + 1, Scr(ds, x, y))
  BY <1>2, <1>3, <1>5, BoundsIs DEF WriterPCs
<1>7. ScrolledFrom(Scr(ds, x, y), k + 1) = ScrolledFrom(Scr(cs, x, y), k)
  <2>1. ASSUME NEW i \in Cells
        PROVE  (IF i \div NUM_COLS < k + 1 THEN ds[i]
                ELSE IF i + NUM_COLS \in Cells THEN ds[i + NUM_COLS] ELSE Blank) =
               (IF i \div NUM_COLS < k THEN cs[i]
                ELSE IF i + NUM_COLS \in Cells THEN cs[i + NUM_COLS] ELSE Blank)
    <3>1. PICK v : v = i \div NUM_COLS
      OBVIOUS
    <3>2. /\ v \in Nat
          /\ i + NUM_COLS \in Cells <=> v < NUM_ROWS - 1
          /\ i + NUM_COLS \in Cells => (i + NUM_COLS) \div NUM_COLS = v + 1
      BY <1>4, <3>1
    <3>3. CASE v < k
      <4>1. ds[i] = cs[i] /\ v < k + 1
        BY <1>3, <3>1, <3>2, <3>3
      <4> QED
        BY <3>1, <3>3, <4>1
    <3>4. CASE v = k
      <4>1. ds[i] = cs[i + NUM_COLS] /\ v < k + 1 /\ i + NUM_COLS \in Cells /\ ~(v < k)
        BY <1>3, <3>1, <3>2, <3>4
      <4> QED
        BY <3>1, <4>1
    <3>5. CASE v > k /\ v \in Nat
      <4>1. ~(v < k) /\ ~(v < k + 1)
        BY <1>3, <3>5
      <4>2. i + NUM_COLS \in Cells => ds[i + NUM_COLS] = cs[i + NUM_COLS]
        <5> HAVE i + NUM_COLS \in Cells
        <5>1. (i + NUM_COLS) \div NUM_COLS = v + 1 /\ v + 1 # k
          BY <1>3, <3>2, <3>5
        <5> QED
          BY <5>1
      <4> QED
        BY <3>1, <4>1, <4>2
    <3>6. v \in Nat /\ (v < k \/ v = k \/ v > k)
      <4>1. v \in Nat
        BY <3>2
      <4> QED
        BY <1>3, <4>1
    <3> QED
      BY <3>3, <3>4, <3>5, <3>6
  <2> QED
    BY <2>1 DEF ScrolledFrom, Scr
<1>8. Finished("scroll", k + 1, Scr(ds, x, y)) = Finished("scroll", k, Scr(cs, x, y))
  BY <1>7, FinishedIs
<1> QED
  BY <1>6, <1>8 DEF WillShow

\* scroll_screen clears the last row.
LEMMA ScrollEnds ==
  ASSUME NEW k, NEW cs, NEW x, NEW y, NEW r, NEW p, NEW n,
         WillShow("scroll", k, Scr(cs, x, y), r, p, n), ~(k < NUM_ROWS - 1),
         NEW ds, ds = [i \in Cells |-> IF i \div NUM_COLS = k THEN Blank ELSE cs[i]]
  PROVE  WillShow("cursor", 0, Scr(ds, 0, NUM_ROWS - 1), r, p, n)
<1>1. Bounds("scroll", k, Scr(cs, x, y))
  BY DEF WillShow
<1>2. k \in 0..(NUM_ROWS - 1) /\ cs \in Pages
  BY <1>1, BoundsIs
<1>3. k = NUM_ROWS - 1 /\ 0 \in 0..(NUM_COLS - 1) /\ k \in Nat /\ 0 \in 0..(NUM_ROWS - 1)
  BY <1>2, ScreenConstants
<1>4. \A i \in Cells : (IF i \div NUM_COLS = k THEN Blank ELSE cs[i]) \in OnScreen
  BY <1>2 DEF Pages, OnScreen
<1>5. ds \in Pages
  BY <1>4 DEF Pages
<1>6. Bounds("cursor", 0, Scr(ds, 0, NUM_ROWS - 1))
  BY <1>2, <1>3, <1>5, BoundsIs DEF WriterPCs
<1>7. ScrolledFrom(Scr(cs, x, y), k) = Scr(ds, 0, NUM_ROWS - 1)
  <2>1. ASSUME NEW i \in Cells
        PROVE  (IF i \div NUM_COLS < k THEN cs[i]
                ELSE IF i + NUM_COLS \in Cells THEN cs[i + NUM_COLS] ELSE Blank) = ds[i]
    <3>1. i \div NUM_COLS \in 0..k /\ (i + NUM_COLS \in Cells <=> i \div NUM_COLS < k)
      BY <1>3, CellPlace, CellBelow
    <3>2. i \div NUM_COLS < k <=> i \div NUM_COLS # k
      BY <1>3, <3>1
    <3> QED
      BY <3>1, <3>2
  <2>2. ds = [i \in Cells |-> ds[i]]
    OBVIOUS
  <2> QED
    BY <2>1, <2>2 DEF ScrolledFrom, Scr
<1>8. Finished("cursor", 0, Scr(ds, 0, NUM_ROWS - 1)) = Finished("scroll", k, Scr(cs, x, y))
  <2>1. Finished("cursor", 0, Scr(ds, 0, NUM_ROWS - 1)) = Scr(ds, 0, NUM_ROWS - 1)
    BY DEF Finished
  <2>2. Finished("scroll", k, Scr(cs, x, y)) = ScrolledFrom(Scr(cs, x, y), k)
    BY DEF Finished
  <2> QED
    BY <1>7, <2>1, <2>2
<1> QED
  BY <1>6, <1>8 DEF WillShow

\* move_cursor and the end of the write.
LEMMA MoveShows ==
  ASSUME NEW k, NEW s, NEW r, NEW p, NEW n,
         NEW w \in {"idle", "cursor"} \cup Ports, NEW to \in {"idle", "cursor"} \cup Ports,
         NEW cs, NEW x, NEW y, WillShow(w, k, Scr(cs, x, y), r, p, n)
  PROVE  WillShow(to, k, Scr(cs, x, y), r, p, n) /\ k = 0
<1>1. Finished(w, k, Scr(cs, x, y)) = Finished(to, k, Scr(cs, x, y))
  BY DEF Finished, Ports
<1>2. /\ w \notin {"wrap", "down", "roll", "scroll"}
      /\ to \in WriterPCs /\ to \notin {"wrap", "down", "roll", "scroll"}
  BY DEF Ports, WriterPCs
<1>3. Bounds(w, k, Scr(cs, x, y))
  BY DEF WillShow
<1>4. Bounds(to, k, Scr(cs, x, y)) /\ k = 0
  BY <1>2, <1>3, BoundsIs
<1> QED
  BY <1>1, <1>4 DEF WillShow

-----------------------------------------------------------------------------
(* The terminals.                                                          *)

TermsShow ==
  \A t \in Terms :
    WillShow(wpc[t], row[t], Screen(t), rows[t], plain[t], keyboard_buf_idx[t])

\* What the proof needs of the types.
TextShapes ==
  /\ mem \in [Frames -> Pages]
  /\ screen_x = [t \in Terms |-> screen_x[t]] /\ screen_y = [t \in Terms |-> screen_y[t]]
  /\ wpc = [t \in Terms |-> wpc[t]] /\ row = [t \in Terms |-> row[t]]
  /\ rows = [t \in Terms |-> rows[t]] /\ plain \in [Terms -> BOOLEAN]
  /\ keyboard_buf_idx = [t \in Terms |-> keyboard_buf_idx[t]]

\* A terminal without programs has neither a writer nor a line.
OthersIdle ==
  /\ viewing_term \in running /\ running \subseteq Terms
  /\ \A t \in Terms \ running : wpc[t] = "idle" /\ keyboard_buf_idx[t] = 0

TextInv == MapInv /\ TextShapes /\ OthersIdle /\ TermsShow

\* The page of a terminal is nobody else's.
LEMMA FramesApart ==
  ASSUME MapInv, NEW t \in Terms
  PROVE  /\ Frame(t) \in Frames
         /\ \A u \in Terms : u # t => Frame(u) # Frame(t)
<1>1. NUM_TERM \notin Terms /\ NUM_TERM \in Frames /\ Terms \subseteq Frames
  BY ScreenConstants DEF Terms, Frames
<1>2. \A u \in Terms : Frame(u) = IF u = viewing_term THEN NUM_TERM ELSE u
  BY DEF Frame, FrameUnder, VIDEO, MapInv, OnlyViewedOnVideo
<1> QED
  BY <1>1, <1>2

\* A step changes the screen of terminal t at most: it becomes Scr(cs, x, y), its writer
\* is at w with row k, its text is r, its page as plain as p says, its line n long.
OneScreen(t, w, k, cs, x, y, r, p, n) ==
  /\ page_tab_array_video' = page_tab_array_video
  /\ viewing_term' = viewing_term /\ running' = running
  /\ mem' = [mem EXCEPT ![Frame(t)] = cs]
  /\ screen_x' = [screen_x EXCEPT ![t] = x] /\ screen_y' = [screen_y EXCEPT ![t] = y]
  /\ wpc' = [wpc EXCEPT ![t] = w] /\ row' = [row EXCEPT ![t] = k]
  /\ rows' = [rows EXCEPT ![t] = r] /\ plain' = [plain EXCEPT ![t] = p]
  /\ keyboard_buf_idx' = [keyboard_buf_idx EXCEPT ![t] = n]

LEMMA OneTerm ==
  ASSUME TextInv, NEW t, t \in running, NEW w, NEW k, NEW cs, NEW x, NEW y, NEW r,
         NEW p \in BOOLEAN, NEW n,
         OneScreen(t, w, k, cs, x, y, r, p, n), WillShow(w, k, Scr(cs, x, y), r, p, n)
  PROVE  TextInv'
<1>1. t \in Terms /\ cs \in Pages
  BY BoundsIs DEF TextInv, OthersIdle, WillShow
<1>2. MapInv'
  BY DEF OneScreen, TextInv, MapInv, OnlyViewedOnVideo
<1>3. TextShapes'
  <2>1. mem' \in [Frames -> Pages]
    BY <1>1 DEF OneScreen, TextInv, TextShapes
  <2>2. plain' \in [Terms -> BOOLEAN]
    BY <1>1 DEF OneScreen, TextInv, TextShapes
  <2> QED
    BY <2>1, <2>2 DEF OneScreen, TextInv, TextShapes
<1>4. OthersIdle'
  BY <1>1 DEF OneScreen, TextInv, TextShapes, OthersIdle
<1>5. Frame(t) \in Frames /\ \A u \in Terms : Frame(u)' = Frame(u)
  BY <1>1, FramesApart DEF OneScreen, TextInv, Frame, FrameUnder
<1>6. Content(t)' = cs /\ \A u \in Terms : u # t => Content(u)' = Content(u)
  <2>1. \A u \in Terms : u # t => Frame(u) # Frame(t) /\ Frame(u) \in Frames
    BY <1>1, FramesApart DEF TextInv
  <2>2. mem' = [mem EXCEPT ![Frame(t)] = cs] /\ mem \in [Frames -> Pages]
    BY DEF OneScreen, TextInv, TextShapes
  <2>3. \A u \in Terms : Content(u)' = mem'[Frame(u)]
    BY <1>5 DEF Content
  <2> QED
    BY <1>1, <1>5, <2>1, <2>2, <2>3 DEF Content
<1>7. ASSUME NEW u \in Terms
      PROVE  WillShow(wpc'[u], row'[u], Screen(u)', rows'[u], plain'[u],
                      keyboard_buf_idx'[u])
  <2>1. CASE u = t
    <3>1. /\ wpc'[t] = w /\ row'[t] = k /\ screen_x'[t] = x /\ screen_y'[t] = y
          /\ rows'[t] = r /\ plain'[t] = p /\ keyboard_buf_idx'[t] = n
      BY <1>1 DEF OneScreen, TextInv, TextShapes
    <3>2. Screen(t)' = Scr(cs, x, y)
      BY <1>6, <3>1 DEF Screen, Scr
    <3> QED
      BY <2>1, <3>1, <3>2
  <2>2. CASE u # t
    <3>1. /\ wpc'[u] = wpc[u] /\ row'[u] = row[u] /\ screen_x'[u] = screen_x[u]
          /\ screen_y'[u] = screen_y[u] /\ rows'[u] = rows[u] /\ plain'[u] = plain[u]
          /\ keyboard_buf_idx'[u] = keyboard_buf_idx[u]
      BY <2>2 DEF OneScreen, TextInv, TextShapes
    <3>2. Screen(u)' = Screen(u)
      BY <1>6, <2>2, <3>1 DEF Screen
    <3>3. WillShow(wpc[u], row[u], Screen(u), rows[u], plain[u], keyboard_buf_idx[u])
      BY DEF TextInv, TermsShow
    <3> QED
      BY <3>1, <3>2, <3>3
  <2> QED
    BY <2>1, <2>2
<1>8. TermsShow'
  BY <1>7 DEF TermsShow
<1> QED
  BY <1>2, <1>3, <1>4, <1>8 DEF TextInv

\* What does not change is replaced by itself.
LEMMA Unchanged ==
  ASSUME TextShapes, MapInv, NEW t \in Terms
  PROVE  /\ mem = [mem EXCEPT ![Frame(t)] = mem[Frame(t)]]
         /\ screen_x = [screen_x EXCEPT ![t] = screen_x[t]]
         /\ screen_y = [screen_y EXCEPT ![t] = screen_y[t]]
         /\ wpc = [wpc EXCEPT ![t] = wpc[t]] /\ row = [row EXCEPT ![t] = row[t]]
         /\ rows = [rows EXCEPT ![t] = rows[t]] /\ plain = [plain EXCEPT ![t] = plain[t]]
         /\ keyboard_buf_idx = [keyboard_buf_idx EXCEPT ![t] = keyboard_buf_idx[t]]
<1>1. mem = [mem EXCEPT ![Frame(t)] = mem[Frame(t)]]
  BY FramesApart DEF TextShapes
<1>2. plain = [plain EXCEPT ![t] = plain[t]]
  BY Zenon DEF TextShapes
<1>3. /\ screen_x = [screen_x EXCEPT ![t] = screen_x[t]]
      /\ screen_y = [screen_y EXCEPT ![t] = screen_y[t]]
      /\ wpc = [wpc EXCEPT ![t] = wpc[t]] /\ row = [row EXCEPT ![t] = row[t]]
      /\ rows = [rows EXCEPT ![t] = rows[t]]
      /\ keyboard_buf_idx = [keyboard_buf_idx EXCEPT ![t] = keyboard_buf_idx[t]]
  <2>1. screen_x = [screen_x EXCEPT ![t] = screen_x[t]]
    BY DEF TextShapes
  <2>2. screen_y = [screen_y EXCEPT ![t] = screen_y[t]]
    BY DEF TextShapes
  <2>3. wpc = [wpc EXCEPT ![t] = wpc[t]]
    BY DEF TextShapes
  <2>4. row = [row EXCEPT ![t] = row[t]]
    BY DEF TextShapes
  <2>5. rows = [rows EXCEPT ![t] = rows[t]]
    BY DEF TextShapes
  <2>6. keyboard_buf_idx = [keyboard_buf_idx EXCEPT ![t] = keyboard_buf_idx[t]]
    BY DEF TextShapes
  <2> QED
    BY <2>1, <2>2, <2>3, <2>4, <2>5, <2>6
<1> QED
  BY <1>1, <1>2, <1>3

\* What the invariant says of one terminal.
LEMMA TermShows ==
  ASSUME TextInv, NEW t \in Terms
  PROVE  /\ WillShow(wpc[t], row[t], Scr(mem[Frame(t)], screen_x[t], screen_y[t]), rows[t],
                     plain[t], keyboard_buf_idx[t])
         /\ wpc[t] = "idle" =>
              /\ row[t] = 0
              /\ Shows(Scr(mem[Frame(t)], screen_x[t], screen_y[t]), rows[t], plain[t],
                       keyboard_buf_idx[t])
         /\ plain[t] \in BOOLEAN /\ Screen(t) = Scr(mem[Frame(t)], screen_x[t], screen_y[t])
<1>1. WillShow(wpc[t], row[t], Screen(t), rows[t], plain[t], keyboard_buf_idx[t])
  BY DEF TextInv, TermsShow
<1>2. Screen(t) = Scr(mem[Frame(t)], screen_x[t], screen_y[t])
  BY DEF Screen, Content, Scr
<1>3. plain[t] \in BOOLEAN
  BY DEF TextInv, TextShapes
<1>4. ASSUME wpc[t] = "idle" PROVE row[t] = 0
  BY <1>1, <1>2, <1>4, MoveShows
<1>5. ASSUME wpc[t] = "idle"
      PROVE  Shows(Scr(mem[Frame(t)], screen_x[t], screen_y[t]), rows[t], plain[t],
                   keyboard_buf_idx[t])
  BY <1>1, <1>2, <1>4, <1>5, IdleShows
<1> QED
  BY <1>1, <1>2, <1>3, <1>4, <1>5

\* The step of one writer.
LEMMA WriteKeeps ==
  ASSUME TextInv, NEW t \in Terms, t \in running, NEW w, NEW k, NEW cs, NEW x, NEW y, NEW r,
         OneScreen(t, w, k, cs, x, y, r, plain[t], keyboard_buf_idx[t]),
         WillShow(w, k, Scr(cs, x, y), r, plain[t], keyboard_buf_idx[t])
  PROVE  TextInv'
<1>1. PICK p, n : p = plain[t] /\ n = keyboard_buf_idx[t]
  OBVIOUS
<1>2. /\ p \in BOOLEAN /\ OneScreen(t, w, k, cs, x, y, r, p, n)
      /\ WillShow(w, k, Scr(cs, x, y), r, p, n)
  BY <1>1, TermShows
<1> QED
  BY <1>2, OneTerm

LEMMA TextStore ==
  ASSUME TextInv, NEW t \in Terms, NEW c \in Glyphs, WStore(t, c) PROVE TextInv'
<1>1. t \in running /\ wpc[t] = "idle" /\ c \in OnScreen
  BY DEF WStore, WriterAt, OnScreen
<1>2. PICK ds : ds = PutGlyph(mem[Frame(t)], screen_x[t], screen_y[t], c)
  OBVIOUS
<1>3. row[t] = 0 /\ WillShow("advance", 0, Scr(ds, screen_x[t], screen_y[t]),
                             RowsPut(rows[t], c), plain[t], keyboard_buf_idx[t])
  BY <1>1, <1>2, TermShows, WriteStarts
<1>4. OneScreen(t, "advance", 0, ds, screen_x[t], screen_y[t], RowsPut(rows[t], c),
                plain[t], keyboard_buf_idx[t])
  <2>1. MapInv /\ TextShapes
    BY DEF TextInv
  <2> QED
    BY <1>2, <1>3, <2>1, Unchanged DEF WStore, WriterTo, SetRows, OneScreen, cursor, view
<1> QED
  BY <1>1, <1>3, <1>4, WriteKeeps

LEMMA TextBreak ==
  ASSUME TextInv, NEW t \in Terms, WBreak(t) PROVE TextInv'
<1>1. t \in running /\ wpc[t] = "idle"
  BY DEF WBreak, WriterAt
<1>2. row[t] = 0 /\ WillShow("down", 0, Scr(mem[Frame(t)], 0, screen_y[t]),
                             RowsBreak(rows[t]), plain[t], keyboard_buf_idx[t])
  BY <1>1, TermShows, BreakStarts
<1>3. OneScreen(t, "down", 0, mem[Frame(t)], 0, screen_y[t], RowsBreak(rows[t]),
                plain[t], keyboard_buf_idx[t])
  <2>1. MapInv /\ TextShapes
    BY DEF TextInv
  <2> QED
    BY <1>2, <2>1, Unchanged DEF WBreak, WriterTo, SetRows, OneScreen, video, view
<1> QED
  BY <1>1, <1>2, <1>3, WriteKeeps

LEMMA TextAdvance ==
  ASSUME TextInv, NEW t \in Terms, WAdvance(t) PROVE TextInv'
<1>1. t \in running /\ wpc[t] = "advance"
  BY DEF WAdvance, WriterAt
<1>2. WillShow("wrap", row[t], Scr(mem[Frame(t)], (screen_x[t] + 1) % 256, screen_y[t]),
               rows[t], plain[t], keyboard_buf_idx[t])
  BY <1>1, TermShows, AdvanceShows
<1>3. OneScreen(t, "wrap", row[t], mem[Frame(t)], (screen_x[t] + 1) % 256, screen_y[t],
                rows[t], plain[t], keyboard_buf_idx[t])
  <2>1. MapInv /\ TextShapes
    BY DEF TextInv
  <2> QED
    BY <2>1, Unchanged DEF WAdvance, WriterTo, OneScreen, video, view, ghosts
<1> QED
  BY <1>1, <1>2, <1>3, WriteKeeps

LEMMA TextWrap ==
  ASSUME TextInv, NEW t \in Terms, WWrap(t) PROVE TextInv'
<1>1. t \in running /\ wpc[t] = "wrap"
  BY DEF WWrap, WriterAt
<1>2. /\ screen_x[t] = NUM_COLS =>
           WillShow("down", row[t], Scr(mem[Frame(t)], 0, screen_y[t]),
                    rows[t], plain[t], keyboard_buf_idx[t])
      /\ screen_x[t] # NUM_COLS =>
           WillShow("cursor", row[t], Scr(mem[Frame(t)], screen_x[t], screen_y[t]),
                    rows[t], plain[t], keyboard_buf_idx[t])
  BY <1>1, TermShows, WrapShows
<1>3. /\ screen_x[t] = NUM_COLS =>
           OneScreen(t, "down", row[t], mem[Frame(t)], 0, screen_y[t],
                     rows[t], plain[t], keyboard_buf_idx[t])
      /\ screen_x[t] # NUM_COLS =>
           OneScreen(t, "cursor", row[t], mem[Frame(t)], screen_x[t], screen_y[t],
                     rows[t], plain[t], keyboard_buf_idx[t])
  <2>1. MapInv /\ TextShapes
    BY DEF TextInv
  <2> QED
    BY <2>1, Unchanged DEF WWrap, WriterTo, OneScreen, video, view, ghosts
<1> QED
  BY <1>1, <1>2, <1>3, WriteKeeps

LEMMA TextDown ==
  ASSUME TextInv, NEW t \in Terms, WDown(t) PROVE TextInv'
<1>1. t \in running /\ wpc[t] = "down"
  BY DEF WDown, WriterAt
<1>2. WillShow("roll", row[t], Scr(mem[Frame(t)], screen_x[t], (screen_y[t] + 1) % 256),
               rows[t], plain[t], keyboard_buf_idx[t])
  BY <1>1, TermShows, DownShows
<1>3. OneScreen(t, "roll", row[t], mem[Frame(t)], screen_x[t], (screen_y[t] + 1) % 256,
                rows[t], plain[t], keyboard_buf_idx[t])
  <2>1. MapInv /\ TextShapes
    BY DEF TextInv
  <2> QED
    BY <2>1, Unchanged DEF WDown, WriterTo, OneScreen, video, view, ghosts
<1> QED
  BY <1>1, <1>2, <1>3, WriteKeeps

LEMMA TextRoll ==
  ASSUME TextInv, NEW t \in Terms, WRoll(t) PROVE TextInv'
<1>1. t \in running /\ wpc[t] = "roll"
  BY DEF WRoll, WriterAt
<1>2. PICK to : to = IF screen_y[t] = NUM_ROWS THEN "scroll" ELSE "cursor"
  OBVIOUS
<1>3. WillShow(to, row[t], Scr(mem[Frame(t)], screen_x[t], screen_y[t]),
               rows[t], plain[t], keyboard_buf_idx[t])
  BY <1>1, <1>2, TermShows, RollShows
<1>4. OneScreen(t, to, row[t], mem[Frame(t)], screen_x[t], screen_y[t],
                rows[t], plain[t], keyboard_buf_idx[t])
  <2>1. MapInv /\ TextShapes
    BY DEF TextInv
  <2> QED
    BY <1>2, <2>1, Unchanged DEF WRoll, WriterTo, OneScreen, video, cursor, view, ghosts
<1> QED
  BY <1>1, <1>3, <1>4, WriteKeeps

LEMMA TextScroll ==
  ASSUME TextInv, NEW t \in Terms, WScroll(t) PROVE TextInv'
<1>1. t \in running /\ wpc[t] = "scroll" /\ MapInv /\ TextShapes
  BY DEF WScroll, WriterAt, TextInv
<1>2. PICK cs, k : cs = mem[Frame(t)] /\ k = row[t]
  OBVIOUS
<1>3. WillShow("scroll", k, Scr(cs, screen_x[t], screen_y[t]), rows[t], plain[t],
               keyboard_buf_idx[t])
  BY <1>1, <1>2, TermShows
<1>4. CASE k < NUM_ROWS - 1
  <2>1. PICK ds : ds = [i \in Cells |-> IF i \div NUM_COLS = k THEN cs[i + NUM_COLS] ELSE cs[i]]
    OBVIOUS
  <2>2. WillShow("scroll", k + 1, Scr(ds, screen_x[t], screen_y[t]), rows[t], plain[t],
                 keyboard_buf_idx[t])
    BY <1>3, <1>4, <2>1, ScrollShows
  <2>3. /\ mem' = [mem EXCEPT ![Frame(t)] = ds] /\ row' = [row EXCEPT ![t] = k + 1]
        /\ UNCHANGED <<screen_x, screen_y, wpc>>
    BY <1>2, <1>4, <2>1 DEF WScroll, cursor
  <2>4. OneScreen(t, "scroll", k + 1, ds, screen_x[t], screen_y[t], rows[t], plain[t],
                  keyboard_buf_idx[t])
    BY <1>1, <2>3, Unchanged DEF WScroll, OneScreen, view, ghosts
  <2> QED
    BY <1>1, <2>2, <2>4, WriteKeeps
<1>5. CASE ~(k < NUM_ROWS - 1)
  <2>1. PICK ds : ds = [i \in Cells |-> IF i \div NUM_COLS = k THEN Blank ELSE cs[i]]
    OBVIOUS
  <2>2. WillShow("cursor", 0, Scr(ds, 0, NUM_ROWS - 1), rows[t], plain[t],
                 keyboard_buf_idx[t])
    BY <1>3, <1>5, <2>1, ScrollEnds
  <2>3. /\ mem' = [mem EXCEPT ![Frame(t)] = ds] /\ row' = [row EXCEPT ![t] = 0]
        /\ screen_x' = [screen_x EXCEPT ![t] = 0]
        /\ screen_y' = [screen_y EXCEPT ![t] = NUM_ROWS - 1]
        /\ wpc' = [wpc EXCEPT ![t] = "cursor"]
    BY <1>2, <1>5, <2>1 DEF WScroll, SetScreen, WriterTo, Content
  <2>4. OneScreen(t, "cursor", 0, ds, 0, NUM_ROWS - 1, rows[t], plain[t],
                  keyboard_buf_idx[t])
    BY <1>1, <2>3, Unchanged DEF WScroll, OneScreen, view, ghosts
  <2> QED
    BY <1>1, <2>2, <2>4, WriteKeeps
<1> QED
  BY <1>4, <1>5

\* The check and the port writes of move_cursor.
LEMMA TextMove ==
  ASSUME TextInv, NEW t \in Terms,
         \/ WCursor(t) \/ WSelect(t, "select low", "low") \/ WLow(t)
         \/ WSelect(t, "select high", "high") \/ WHigh(t)
  PROVE  TextInv'
<1>1. /\ t \in running /\ wpc[t] \in {"cursor"} \cup Ports /\ MapInv /\ TextShapes
      /\ UNCHANGED <<page_tab_array_video, mem, screen_x, screen_y, viewing_term, running,
                     keyboard_buf_idx, row, rows, plain>>
  BY DEF WCursor, WSelect, WLow, WHigh, WriterAt, Ports, TextInv, video, cursor, view, ghosts
<1>2. PICK to \in {"idle"} \cup Ports : wpc' = [wpc EXCEPT ![t] = to]
  BY DEF WCursor, WSelect, WLow, WHigh, WriterTo, Ports
<1>3. PICK w : w = wpc[t]
  OBVIOUS
<1>4. w \in {"idle", "cursor"} \cup Ports /\ to \in {"idle", "cursor"} \cup Ports
  BY <1>1, <1>2, <1>3
<1>5. WillShow(w, row[t], Scr(mem[Frame(t)], screen_x[t], screen_y[t]), rows[t], plain[t],
               keyboard_buf_idx[t])
  BY <1>3, TermShows
<1>6. WillShow(to, row[t], Scr(mem[Frame(t)], screen_x[t], screen_y[t]), rows[t], plain[t],
               keyboard_buf_idx[t])
  BY <1>4, <1>5, MoveShows
<1>7. OneScreen(t, to, row[t], mem[Frame(t)], screen_x[t], screen_y[t], rows[t], plain[t],
                keyboard_buf_idx[t])
  BY <1>1, <1>2, Unchanged DEF OneScreen
<1> QED
  BY <1>1, <1>6, <1>7, WriteKeeps

\* A program that draws itself: its page is not text any more.
LEMMA TextVidmap ==
  ASSUME TextInv, NEW t \in Terms, NEW i \in Cells, NEW c \in Glyphs, VidmapStore(t, i, c)
  PROVE  TextInv'
<1>1. t \in running /\ wpc[t] = "idle" /\ MapInv /\ TextShapes
  BY DEF VidmapStore, WriterAt, TextInv
<1>2. PICK cs, x, y, r, n : /\ cs = mem[Frame(t)] /\ x = screen_x[t] /\ y = screen_y[t]
                            /\ r = rows[t] /\ n = keyboard_buf_idx[t]
  OBVIOUS
<1>3. Shows(Scr(cs, x, y), r, plain[t], n) /\ row[t] = 0
  BY <1>1, <1>2, TermShows
<1>4. PICK ds : ds = [cs EXCEPT ![i] = c]
  OBVIOUS
<1>5. Shows(Scr(ds, x, y), r, FALSE, n)
  <2>1. cs \in Pages
    <3>1. Scr(cs, x, y).cells \in Pages
      BY <1>3, ShowsParts
    <3> QED
      BY <3>1 DEF Scr
  <2>2. ds \in Pages
    BY <1>4, <2>1 DEF Pages, OnScreen
  <2> QED
    BY <1>3, <2>2 DEF Shows, Scr, ScreenRecords
<1>6. WillShow("idle", 0, Scr(ds, x, y), r, FALSE, n)
  BY <1>5, IdleShows
<1>7. OneScreen(t, "idle", 0, ds, x, y, r, FALSE, n)
  <2>1. mem' = [mem EXCEPT ![Frame(t)] = ds] /\ plain' = [plain EXCEPT ![t] = FALSE]
    BY <1>2, <1>4 DEF VidmapStore
  <2> QED
    BY <1>1, <1>2, <1>3, <2>1, Unchanged DEF VidmapStore, OneScreen, cursor, view, writer
<1> QED
  BY <1>1, <1>6, <1>7, OneTerm

LEMMA TextWrites == ASSUME TextInv, NEW t \in Terms, Writes(t) PROVE TextInv'
BY TextStore, TextBreak, TextAdvance, TextWrap, TextDown, TextRoll, TextScroll, TextMove,
   TextVidmap DEF Writes

\* terminal_read.
LEMMA TextTaken ==
  ASSUME TextInv, NEW t \in Terms, LineTaken(t) PROVE TextInv'
<1>1. t \in running /\ MapInv /\ TextShapes
  BY DEF LineTaken, TextInv
<1>2. PICK w, k, s, r, p : /\ w = wpc[t] /\ k = row[t] /\ r = rows[t] /\ p = plain[t]
                           /\ s = Scr(mem[Frame(t)], screen_x[t], screen_y[t])
  OBVIOUS
<1>3. WillShow(w, k, s, r, p, keyboard_buf_idx[t]) /\ p \in BOOLEAN
  BY <1>2, TermShows
<1>4. WillShow(w, k, s, r, p, 0)
  <2>1. PICK f, n : f = Finished(w, k, s) /\ n = keyboard_buf_idx[t]
    OBVIOUS
  <2>2. Shows(f, r, p, n) /\ Bounds(w, k, s)
    BY <1>3, <2>1 DEF WillShow
  <2>3. 0 \in 0..KeyLimit /\ 0 <= Linear(f.x, f.y)
    <3>1. f.x \in Nat /\ NUM_COLS * f.y \in Nat
      BY <2>2, ShowsParts
    <3> QED
      BY <3>1, ScreenConstants DEF Linear
  <2>4. Shows(f, r, p, 0)
    BY <2>2, <2>3 DEF Shows
  <2> QED
    BY <2>1, <2>2, <2>4 DEF WillShow
<1>5. OneScreen(t, w, k, mem[Frame(t)], screen_x[t], screen_y[t], r, p, 0)
  BY <1>1, <1>2, Unchanged DEF LineTaken, SetIdx, OneScreen, video, cursor, view, writer, ghosts
<1> QED
  BY <1>1, <1>2, <1>3, <1>4, <1>5, OneTerm

-----------------------------------------------------------------------------
(* Keys, handlers' reports and switches.                                   *)

\* A key or a report that changes the screen of one terminal, whose writer is idle.
Echoed(t, s, r, p, n) ==
  /\ wpc[t] = "idle" /\ SetScreen(t, s)
  /\ rows' = [rows EXCEPT ![t] = r] /\ plain' = [plain EXCEPT ![t] = p]
  /\ keyboard_buf_idx' = [keyboard_buf_idx EXCEPT ![t] = n]
  /\ UNCHANGED <<page_tab_array_video, viewing_term, running, wpc, row>>

LEMMA EchoKeeps ==
  ASSUME TextInv, NEW t, t \in running, NEW s, NEW r, NEW p \in BOOLEAN, NEW n,
         Echoed(t, s, r, p, n), Shows(s, r, p, n)
  PROVE  TextInv'
<1>1. t \in Terms /\ MapInv /\ TextShapes
  BY DEF TextInv, OthersIdle
<1>2. wpc[t] = "idle" /\ row[t] = 0
  BY <1>1, TermShows DEF Echoed
<1>3. s = Scr(s.cells, s.x, s.y)
  BY DEF Shows, ScreenRecords, Scr
<1>4. WillShow("idle", 0, Scr(s.cells, s.x, s.y), r, p, n)
  BY <1>3, IdleShows
<1>5. OneScreen(t, "idle", 0, s.cells, s.x, s.y, r, p, n)
  BY <1>1, <1>2, Unchanged DEF Echoed, SetScreen, OneScreen
<1> QED
  BY <1>4, <1>5, OneTerm

\* What the invariant says of a terminal whose writer is idle.
LEMMA IdleTerm ==
  ASSUME TextInv, NEW t, t \in running, wpc[t] = "idle"
  PROVE  /\ t \in Terms /\ Shows(Screen(t), rows[t], plain[t], keyboard_buf_idx[t])
         /\ plain[t] \in BOOLEAN /\ keyboard_buf_idx[t] \in 0..KeyLimit
         /\ keyboard_buf_idx[t] \in Nat
<1>1. t \in Terms
  BY DEF TextInv, OthersIdle
<1>2. Shows(Screen(t), rows[t], plain[t], keyboard_buf_idx[t]) /\ plain[t] \in BOOLEAN
  BY <1>1, TermShows
<1> QED
  BY <1>1, <1>2, ShowsParts

LEMMA TextChar ==
  ASSUME "echo" \notin Timing, TextInv, NEW c \in Glyphs, EchoChar(c) PROVE TextInv'
<1>1. PICK t, s, r, p, n : /\ t = viewing_term /\ s = Screen(t) /\ r = rows[t]
                           /\ p = plain[t] /\ n = keyboard_buf_idx[t]
  OBVIOUS
<1>2. t \in running /\ wpc[t] = "idle" /\ TextShapes /\ MapInv /\ n < KeyLimit - 1
  BY <1>1 DEF EchoChar, Echo, MayEcho, TextInv, OthersIdle
<1>3. /\ t \in Terms /\ Shows(s, r, p, n) /\ p \in BOOLEAN /\ n \in 0..KeyLimit
      /\ n + 1 \in 0..KeyLimit /\ n + 1 <= n + 1 /\ c \in OnScreen
  BY <1>1, <1>2, IdleTerm, ScreenConstants DEF OnScreen
<1>4. Shows(Put(s, c), RowsPut(r, c), p, n + 1)
  BY <1>3, ShowsPut
<1>5. Echoed(t, Put(s, c), RowsPut(r, c), p, n + 1)
  BY <1>1, <1>2, <1>3, Unchanged DEF EchoChar, Echo, SetRows, SetIdx, Echoed, view, writer
<1> QED
  BY <1>2, <1>3, <1>4, <1>5, EchoKeeps

LEMMA TextEnter ==
  ASSUME "echo" \notin Timing, TextInv, EchoEnter PROVE TextInv'
<1>1. PICK t, s, r, p, n : /\ t = viewing_term /\ s = Screen(t) /\ r = rows[t]
                           /\ p = plain[t] /\ n = keyboard_buf_idx[t]
  OBVIOUS
<1>2. t \in running /\ wpc[t] = "idle" /\ TextShapes /\ MapInv
  BY <1>1 DEF EchoEnter, Echo, MayEcho, TextInv, OthersIdle
<1>3. t \in Terms /\ Shows(s, r, p, n) /\ p \in BOOLEAN /\ n \in 0..KeyLimit
  BY <1>1, <1>2, IdleTerm
<1>4. PICK m : /\ m = 0 \/ (n < KeyLimit /\ m = n + 1)
               /\ keyboard_buf_idx' = [keyboard_buf_idx EXCEPT ![t] = m]
  BY <1>1 DEF EchoEnter, SetIdx
<1>5. m \in 0..KeyLimit /\ m <= n + 1
  BY <1>3, <1>4, ScreenConstants
<1>6. Shows(NextRow(s), RowsBreak(r), p, m)
  BY <1>3, <1>5, ShowsNewline
<1>7. Echoed(t, NextRow(s), RowsBreak(r), p, m)
  BY <1>1, <1>2, <1>3, <1>4, Unchanged DEF EchoEnter, Echo, SetRows, Echoed, view, writer
<1> QED
  BY <1>2, <1>3, <1>6, <1>7, EchoKeeps

LEMMA TextErase ==
  ASSUME "echo" \notin Timing, TextInv, EchoErase PROVE TextInv'
<1>1. PICK t, s, r, p, n : /\ t = viewing_term /\ s = Screen(t) /\ r = rows[t]
                           /\ p = plain[t] /\ n = keyboard_buf_idx[t]
  OBVIOUS
<1>2. t \in running /\ wpc[t] = "idle" /\ TextShapes /\ MapInv /\ n # 0
  BY <1>1 DEF EchoErase, Echo, MayEcho, TextInv, OthersIdle
<1>3. t \in Terms /\ Shows(s, r, p, n) /\ p \in BOOLEAN
  BY <1>1, <1>2, IdleTerm
<1>4. Shows(Erased(s), RowsErase(r), p, n - 1)
  BY <1>2, <1>3, ShowsErase
<1>5. Echoed(t, Erased(s), RowsErase(r), p, n - 1)
  BY <1>1, <1>2, <1>3, Unchanged DEF EchoErase, Echo, SetRows, SetIdx, Echoed, view, writer
<1> QED
  BY <1>2, <1>3, <1>4, <1>5, EchoKeeps

LEMMA TextClear ==
  ASSUME "echo" \notin Timing, "clear" \notin Timing, TextInv, EchoClear PROVE TextInv'
<1>1. PICK t : t = viewing_term
  OBVIOUS
<1>2. /\ t \in running /\ wpc[t] = "idle" /\ TextShapes /\ MapInv
      /\ keyboard_buf_idx[t] = 0 /\ t \in Terms
  BY <1>1 DEF EchoClear, Echo, MayEcho, TextInv, OthersIdle
<1>3. Shows(Cleared, <<Prompt>>, TRUE, 0)
  BY ShowsCleared
<1>4. Echoed(t, Cleared, <<Prompt>>, TRUE, 0)
  BY <1>1, <1>2, Unchanged DEF EchoClear, Echo, SetRows, Echoed, view, writer
<1> QED
  BY <1>2, <1>3, <1>4, EchoKeeps

LEMMA TextPrintf ==
  ASSUME "echo" \notin Timing, TextInv, NEW t \in Terms, NEW c \in Glyphs, Printf(t, c)
  PROVE  TextInv'
<1>1. PICK s, r, p, n : /\ s = Screen(t) /\ r = rows[t]
                        /\ p = plain[t] /\ n = keyboard_buf_idx[t]
  OBVIOUS
<1>2. t \in running /\ wpc[t] = "idle" /\ TextShapes /\ MapInv /\ c \in OnScreen
  BY DEF Printf, TextInv, OnScreen
<1>3. Shows(s, r, p, n) /\ p \in BOOLEAN /\ n \in 0..KeyLimit /\ n <= n + 1
  BY <1>1, <1>2, IdleTerm
<1>4. Shows(Put(s, c), RowsPut(r, c), p, n)
  BY <1>2, <1>3, ShowsPut
<1>5. Shows(NextRow(Put(s, c)), RowsBreak(RowsPut(r, c)), p, n)
  BY <1>3, <1>4, ShowsNewline
<1>6. Echoed(t, NextRow(Put(s, c)), RowsBreak(RowsPut(r, c)), p, n)
  BY <1>1, <1>2, Unchanged DEF Printf, SetRows, Echoed, view, writer
<1> QED
  BY <1>2, <1>3, <1>5, <1>6, EchoKeeps

\* The copies of terminal_switch move the pages to the frames that the terminals are then
\* mapped to.
LEMMA SwitchCopies ==
  ASSUME MapInv, mem \in [Frames -> Pages], NEW dest \in Terms, dest # viewing_term
  PROVE  /\ SwitchedMem(viewing_term, dest) \in [Frames -> Pages]
         /\ \A u \in Terms :
              SwitchedMem(viewing_term, dest)[IF u = dest THEN VIDEO ELSE u] = Content(u)
<1>1. PICK cur : cur = viewing_term
  OBVIOUS
<1>2. /\ cur \in Terms /\ VIDEO \notin Terms /\ VIDEO \in Frames /\ Terms \subseteq Frames
      /\ dest # cur
  BY <1>1, ScreenConstants DEF Terms, Frames, VIDEO, MapInv
<1>3. \A u \in Terms : Frame(u) = IF u = cur THEN VIDEO ELSE u
  BY <1>1 DEF Frame, FrameUnder, MapInv, OnlyViewedOnVideo
<1>4. PICK unmapped : unmapped = [page_tab_array_video EXCEPT ![cur] = "buf"]
  OBVIOUS
<1>5. FrameUnder(unmapped, cur) = cur /\ FrameUnder(unmapped, dest) = dest
  <2>1. page_tab_array_video \in [Terms -> {"video", "buf"}] /\ page_tab_array_video[dest] # "video"
    BY <1>1, <1>2 DEF MapInv, OnlyViewedOnVideo
  <2>2. unmapped[cur] = "buf" /\ unmapped[dest] # "video"
    BY <1>2, <1>4, <2>1
  <2> QED
    BY <2>2 DEF FrameUnder
<1>6. PICK saved : saved = [mem EXCEPT ![cur] = mem[VIDEO]]
  OBVIOUS
<1>7. PICK moved : moved = [saved EXCEPT ![VIDEO] = saved[dest]]
  OBVIOUS
<1>8. SwitchedMem(viewing_term, dest) = moved
  BY <1>1, <1>4, <1>5, <1>6, <1>7 DEF SwitchedMem
<1>9. saved \in [Frames -> Pages] /\ moved \in [Frames -> Pages]
  <2>1. saved \in [Frames -> Pages]
    BY <1>2, <1>6
  <2> QED
    BY <1>2, <1>7, <2>1
<1>10. /\ moved[VIDEO] = mem[dest] /\ moved[cur] = mem[VIDEO]
       /\ \A u \in Terms : u # cur => moved[u] = mem[u]
  BY <1>2, <1>6, <1>7, <1>9
<1>11. ASSUME NEW u \in Terms
       PROVE  moved[IF u = dest THEN VIDEO ELSE u] = mem[Frame(u)]
  BY <1>2, <1>3, <1>10
<1> QED
  BY <1>8, <1>9, <1>11 DEF Content

LEMMA TextSwitch ==
  ASSUME TextInv, NEW dest \in Terms, SwitchTo(dest) PROVE TextInv'
<1>1. PICK cur, moved : cur = viewing_term /\ moved = SwitchedMem(viewing_term, dest)
  OBVIOUS
<1>2. /\ MapInv /\ TextShapes /\ OthersIdle /\ TermsShow /\ cur \in Terms
      /\ dest # cur /\ mem \in [Frames -> Pages]
  BY <1>1 DEF SwitchTo, TextInv, TextShapes, MapInv
<1>3. /\ viewing_term' = dest
      /\ page_tab_array_video' = [page_tab_array_video EXCEPT ![cur] = "buf", ![dest] = "video"]
      /\ UNCHANGED <<keyboard_buf_idx, wpc, row>>
  BY <1>1 DEF SwitchTo, SwitchedMap, writer
<1>4. MapInv'
  BY <1>1, <1>2, <1>3 DEF MapInv, OnlyViewedOnVideo
<1>5. \A u \in Terms : Frame(u)' = IF u = dest THEN VIDEO ELSE u
  BY <1>3, <1>4 DEF Frame, FrameUnder, MapInv, OnlyViewedOnVideo
<1>6. /\ moved \in [Frames -> Pages]
      /\ \A u \in Terms : moved[IF u = dest THEN VIDEO ELSE u] = Content(u)
  BY <1>1, <1>2, SwitchCopies
<1>7. CASE /\ dest \in running /\ mem' = moved
           /\ UNCHANGED <<screen_x, screen_y, running, rows, plain>>
  <2>1. \A u \in Terms : Screen(u)' = Screen(u)
    BY <1>5, <1>6, <1>7 DEF Screen, Content
  <2>2. TermsShow'
    BY <1>2, <1>3, <1>7, <2>1 DEF TermsShow
  <2>3. TextShapes'
    BY <1>2, <1>3, <1>6, <1>7 DEF TextShapes
  <2>4. OthersIdle'
    BY <1>2, <1>3, <1>7 DEF OthersIdle
  <2> QED
    BY <1>4, <2>2, <2>3, <2>4 DEF TextInv
<1>8. CASE /\ dest \notin running /\ running' = running \cup {dest}
           /\ mem' = [moved EXCEPT ![VIDEO] = Cleared.cells]
           /\ screen_x' = [screen_x EXCEPT ![dest] = Cleared.x]
           /\ screen_y' = [screen_y EXCEPT ![dest] = Cleared.y]
           /\ rows' = [rows EXCEPT ![dest] = <<Prompt>>]
           /\ plain' = [plain EXCEPT ![dest] = TRUE]
  <2>1. Shows(Cleared, <<Prompt>>, TRUE, 0) /\ Cleared.cells \in Pages
    <3>1. Shows(Cleared, <<Prompt>>, TRUE, 0)
      BY ShowsCleared
    <3> QED
      BY <3>1, ShowsParts
  <2>2. Cleared = Scr(Cleared.cells, Cleared.x, Cleared.y)
    BY DEF Cleared, Scr
  <2>3. VIDEO \notin Terms /\ VIDEO \in Frames
    BY ScreenConstants DEF Terms, Frames, VIDEO
  <2>4. mem' \in [Frames -> Pages] /\ mem'[VIDEO] = Cleared.cells
    BY <1>6, <1>8, <2>1, <2>3
  <2>5. \A u \in Terms : u # dest => mem'[u] = Content(u)
    BY <1>6, <1>8, <2>3
  <2>6. /\ screen_x'[dest] = Cleared.x /\ screen_y'[dest] = Cleared.y
        /\ rows'[dest] = <<Prompt>> /\ plain'[dest] = TRUE
    BY <1>2, <1>8 DEF TextShapes
  <2>7. wpc'[dest] = "idle" /\ row'[dest] = 0 /\ keyboard_buf_idx'[dest] = 0
    BY <1>2, <1>3, <1>8, TermShows DEF OthersIdle
  <2>8. Screen(dest)' = Cleared
    BY <1>5, <2>2, <2>4, <2>6 DEF Screen, Content, Scr
  <2>9. WillShow("idle", 0, Cleared, <<Prompt>>, TRUE, 0)
    BY <2>1, <2>2, IdleShows
  <2>10. ASSUME NEW u \in Terms, u # dest
         PROVE  WillShow(wpc'[u], row'[u], Screen(u)', rows'[u], plain'[u],
                         keyboard_buf_idx'[u])
    <3>1. /\ wpc'[u] = wpc[u] /\ row'[u] = row[u] /\ screen_x'[u] = screen_x[u]
          /\ screen_y'[u] = screen_y[u] /\ rows'[u] = rows[u] /\ plain'[u] = plain[u]
          /\ keyboard_buf_idx'[u] = keyboard_buf_idx[u]
      BY <1>2, <1>3, <1>8, <2>10 DEF TextShapes
    <3>2. Screen(u)' = Screen(u)
      BY <1>5, <2>5, <2>10, <3>1 DEF Screen, Content
    <3>3. WillShow(wpc[u], row[u], Screen(u), rows[u], plain[u], keyboard_buf_idx[u])
      BY <1>2 DEF TermsShow
    <3> QED
      BY <3>1, <3>2, <3>3
  <2>11. TermsShow'
    BY <2>6, <2>7, <2>8, <2>9, <2>10 DEF TermsShow
  <2>12. TextShapes'
    BY <1>2, <1>3, <1>8, <2>4 DEF TextShapes
  <2>13. OthersIdle'
    BY <1>2, <1>3, <1>8 DEF OthersIdle
  <2> QED
    BY <1>4, <2>11, <2>12, <2>13 DEF TextInv
<1> QED
  BY <1>1, <1>7, <1>8 DEF SwitchTo, SetRows, cursor, ghosts

LEMMA TextInit == Init => TextInv
<1> SUFFICES ASSUME Init PROVE TextInv
  OBVIOUS
<1>1. MapInv
  BY MapInit
<1>2. 0 \in Terms /\ VIDEO \notin Terms /\ VIDEO \in Frames /\ Terms \subseteq Frames
  BY ScreenConstants DEF Terms, Frames, VIDEO
<1>3. PICK blank : blank = [i \in Cells |-> Blank]
  OBVIOUS
<1>4. /\ Shows(Cleared, <<Prompt>>, TRUE, 0)
      /\ Shows(Scr(blank, 0, 0), <<<<>>>>, TRUE, 0)
  BY <1>3, ShowsCleared, ShowsBlank DEF Scr
<1>5. Cleared = Scr(Cleared.cells, Cleared.x, 0) /\ Cleared.cells \in Pages /\ blank \in Pages
  <2>1. Cleared = Scr(Cleared.cells, Cleared.x, 0)
    BY DEF Cleared, Scr
  <2>2. Cleared.cells \in Pages /\ Scr(blank, 0, 0).cells \in Pages
    BY <1>4, ShowsParts
  <2> QED
    BY <2>1, <2>2 DEF Scr
<1>6. mem = [f \in Frames |-> IF f = VIDEO THEN Cleared.cells ELSE blank]
  BY <1>3 DEF Init
<1>7. TextShapes
  <2>1. mem \in [Frames -> Pages]
    BY <1>5, <1>6
  <2> QED
    BY <2>1 DEF Init, TextShapes
<1>8. OthersIdle
  BY <1>2 DEF Init, OthersIdle
<1>9. ASSUME NEW t \in Terms
      PROVE  WillShow(wpc[t], row[t], Screen(t), rows[t], plain[t], keyboard_buf_idx[t])
  <2>1. wpc[t] = "idle" /\ row[t] = 0 /\ plain[t] = TRUE /\ keyboard_buf_idx[t] = 0
    BY DEF Init
  <2>2. Frame(t) = IF t = 0 THEN VIDEO ELSE t
    BY DEF Init, Frame, FrameUnder
  <2>3. CASE t = 0
    <3>1. mem[Frame(t)] = Cleared.cells
      BY <1>2, <1>6, <2>2, <2>3
    <3>2. screen_x[t] = Cleared.x /\ screen_y[t] = 0 /\ rows[t] = <<Prompt>>
      BY <2>3 DEF Init
    <3>3. Screen(t) = Cleared
      BY <1>5, <3>1, <3>2 DEF Screen, Content, Scr
    <3>4. WillShow("idle", 0, Cleared, <<Prompt>>, TRUE, 0)
      BY <1>4, <1>5, IdleShows
    <3> QED
      BY <2>1, <3>2, <3>3, <3>4
  <2>4. CASE t # 0
    <3>1. mem[Frame(t)] = blank
      BY <1>2, <1>6, <2>2, <2>4
    <3>2. screen_x[t] = 0 /\ screen_y[t] = 0 /\ rows[t] = <<<<>>>>
      BY <2>4 DEF Init
    <3>3. Screen(t) = Scr(blank, 0, 0)
      BY <3>1, <3>2 DEF Screen, Content, Scr
    <3>4. WillShow("idle", 0, Scr(blank, 0, 0), <<<<>>>>, TRUE, 0)
      BY <1>4, IdleShows
    <3> QED
      BY <2>1, <3>2, <3>3, <3>4
  <2> QED
    BY <2>3, <2>4
<1> QED
  BY <1>1, <1>7, <1>8, <1>9 DEF TextInv, TermsShow

\* Every step.
LEMMA TextStep ==
  ASSUME "echo" \notin Timing, "clear" \notin Timing
  PROVE  TextInv /\ [Next]_vars => TextInv'
<1> SUFFICES ASSUME TextInv, [Next]_vars PROVE TextInv'
  OBVIOUS
<1>1. CASE UNCHANGED vars
  <2>1. UNCHANGED <<page_tab_array_video, mem, screen_x, screen_y, viewing_term, running,
                    wpc, row, rows, plain, keyboard_buf_idx>>
    BY <1>1 DEF vars, video, cursor, view, writer, ghosts
  <2>2. MapInv' /\ TextShapes' /\ OthersIdle'
    BY <2>1 DEF TextInv, MapInv, OnlyViewedOnVideo, TextShapes, OthersIdle
  <2>3. \A t \in Terms : Screen(t)' = Screen(t)
    BY <2>1 DEF Screen, Content, Frame, FrameUnder
  <2>4. TermsShow'
    BY <2>1, <2>3 DEF TextInv, TermsShow
  <2> QED
    BY <2>2, <2>4 DEF TextInv
<1> QED
  BY <1>1, TextWrites, TextTaken, TextChar, TextEnter, TextErase, TextClear, TextPrintf,
     TextSwitch DEF Next

\* Every terminal's page holds exactly the text put on it, with the cursor behind it, for
\* any number of terminals and any size of the screen (term_putc, Backspace, Enter,
\* scroll_screen, term_clear, terminal_switch).  It is about keys that are not echoed into
\* a write of the same terminal, which run screen_race shows to leave the screen, and
\* about a Ctrl+L that finds no unfinished line.
THEOREM TextIsOnScreen ==
  ASSUME "echo" \notin Timing, "clear" \notin Timing PROVE Spec => []ScreensHoldText
<1>1. TextInv => ScreensHoldText
  <2> SUFFICES ASSUME TextInv, NEW t \in Terms, wpc[t] = "idle"
               PROVE  /\ screen_y[t] = Len(rows[t]) - 1
                      /\ screen_x[t] = Len(rows[t][Len(rows[t])])
                      /\ plain[t] => Content(t) = Painted(rows[t])
    BY DEF ScreensHoldText
  <2>1. Shows(Screen(t), rows[t], plain[t], keyboard_buf_idx[t])
    BY TermShows
  <2> QED
    BY <2>1 DEF Shows, Screen
<1> QED
  BY TextInit, TextStep, <1>1, PTL DEF Spec

-----------------------------------------------------------------------------
(* Types.                                                                  *)

PortTypes ==
  /\ position \in [Terms -> 0..(NUM_COLS * 255 + 255)]
  /\ vga \in [selected : {"low", "high"}, low : 0..(BYTE - 1), high : 0..(BYTE - 1)]
  /\ overtaken \in BOOLEAN /\ puts \in 0..MaxPuts

\* The cursor of every terminal is on the screen or behind an end of it.
LEMMA CursorBounds ==
  ASSUME TextInv, NEW t \in Terms
  PROVE  /\ wpc[t] \in WriterPCs /\ row[t] \in 0..(NUM_ROWS - 1)
         /\ screen_x[t] \in 0..(IF wpc[t] = "wrap" THEN NUM_COLS ELSE NUM_COLS - 1)
         /\ screen_y[t] \in 0..(IF wpc[t] \in {"roll", "scroll"} THEN NUM_ROWS
                                ELSE NUM_ROWS - 1)
<1>1. Bounds(wpc[t], row[t], Scr(mem[Frame(t)], screen_x[t], screen_y[t]))
  BY TermShows DEF WillShow
<1> QED
  BY <1>1, BoundsIs

\* No cursor is further than just behind the screen.
CursorsNear ==
  \A t \in Terms : /\ screen_x[t] \in Nat /\ screen_x[t] <= NUM_COLS
                  /\ screen_y[t] \in Nat /\ screen_y[t] <= NUM_ROWS

LEMMA CursorsAreNear == TextInv => CursorsNear
BY CursorBounds, ScreenConstants DEF CursorsNear

\* The text of every terminal is made of rows of characters.
LEMMA RowsTypes ==
  ASSUME TextInv, NEW t \in Terms
  PROVE  rows[t] \in Seq(Seq(OnScreen)) /\ keyboard_buf_idx[t] \in 0..KeyLimit
<1>1. PICK s : s = Finished(wpc[t], row[t], Scr(mem[Frame(t)], screen_x[t], screen_y[t]))
  OBVIOUS
<1>2. Shows(s, rows[t], plain[t], keyboard_buf_idx[t])
  BY <1>1, TermShows DEF WillShow
<1> QED
  BY <1>2 DEF Shows, Fits

\* What move_cursor writes fits the registers.
LEMMA PositionFits ==
  ASSUME NEW x \in Nat, NEW y \in Nat, x <= NUM_COLS, y <= NUM_ROWS
  PROVE  /\ Linear(x, y) \in 0..(NUM_COLS * 255 + 255)
         /\ CursorAt(x, y) \in [selected : {"low", "high"}, low : 0..(BYTE - 1),
                                high : 0..(BYTE - 1)]
<1>1. PICK C, B, l : C = NUM_COLS /\ B = BYTE /\ l = Linear(x, y)
  OBVIOUS
<1>2. C \in Nat /\ C < 256 /\ B \in Nat \ {0} /\ y <= 255
  BY <1>1, ScreenConstants
<1>3. C * y <= C * 255 /\ C * y \in Nat /\ C * 255 \in Nat
  BY <1>2, Products
<1>4. l \in Nat /\ l <= C * 255 + 255
  <2>1. l = C * y + x
    BY <1>1 DEF Linear
  <2>2. x <= 255
    BY <1>1, <1>2
  <2> QED
    BY <1>3, <2>1, <2>2
<1>5. l % B \in 0..(B - 1) /\ l \div B \in Nat
  BY <1>2, <1>4
<1>6. (l \div B) % B \in 0..(B - 1)
  BY <1>2, <1>5
<1> QED
  BY <1>1, <1>3, <1>4, <1>5, <1>6 DEF CursorAt

LEMMA PortTypesInit == Init => PortTypes
<1> SUFFICES ASSUME Init PROVE PortTypes
  OBVIOUS
<1>1. Len(Prompt) \in Nat /\ Len(Prompt) <= NUM_COLS /\ 0 \in Nat /\ 0 <= NUM_ROWS
  <2>1. Len(Prompt) = PromptLen
    BY ScreenConstants DEF Prompt
  <2> QED
    BY <2>1, ScreenConstants
<1>2. /\ vga = CursorAt(Len(Prompt), 0)
      /\ position = [t \in Terms |-> 0] /\ overtaken = FALSE /\ puts = 0
  BY DEF Init, Cleared
<1>3. 0 \in 0..(NUM_COLS * 255 + 255) /\ 0 \in 0..MaxPuts
  <2>1. Linear(0, 0) \in 0..(NUM_COLS * 255 + 255)
    BY PositionFits, ScreenConstants
  <2>2. Linear(0, 0) = 0
    BY ScreenConstants DEF Linear
  <2> QED
    BY <2>1, <2>2, ScreenConstants
<1> QED
  BY <1>1, <1>2, <1>3, PositionFits DEF PortTypes

\* The characters that are left to put.
LEMMA CountType ==
  ASSUME puts \in 0..MaxPuts, Count \/ puts' = puts PROVE puts' \in 0..MaxPuts
BY ScreenConstants DEF Count

LEMMA PortTypesStep ==
  ASSUME TextInv, TextInv', PortTypes, [Next]_vars PROVE PortTypes'
<1> DEFINE VGA == [selected : {"low", "high"}, low : 0..(BYTE - 1), high : 0..(BYTE - 1)]
           Positions == 0..(NUM_COLS * 255 + 255)
<1>0. CursorsNear'
  BY CursorsAreNear, PTL
<1>1. \A t \in Terms : CursorAt(screen_x'[t], screen_y'[t]) \in VGA
  <2> TAKE t \in Terms
  <2>1. screen_x'[t] \in Nat /\ screen_x'[t] <= NUM_COLS
    BY <1>0 DEF CursorsNear
  <2>2. screen_y'[t] \in Nat /\ screen_y'[t] <= NUM_ROWS
    BY <1>0 DEF CursorsNear
  <2> QED
    BY <2>1, <2>2, PositionFits
<1>2. \A t \in Terms : Linear(screen_x[t], screen_y[t]) \in Positions /\ position[t] \in Positions
  <2> TAKE t \in Terms
  <2>1. screen_x[t] \in Nat /\ screen_x[t] <= NUM_COLS
    BY CursorsAreNear DEF CursorsNear
  <2>2. screen_y[t] \in Nat /\ screen_y[t] <= NUM_ROWS
    BY CursorsAreNear DEF CursorsNear
  <2> QED
    BY <2>1, <2>2, PositionFits DEF PortTypes
<1>3. \A l \in Positions : l % BYTE \in 0..(BYTE - 1) /\ (l \div BYTE) % BYTE \in 0..(BYTE - 1)
  <2> TAKE l \in Positions
  <2>1. PICK B : B = BYTE
    OBVIOUS
  <2>2. B \in Nat \ {0} /\ l \in Nat
    BY <2>1, ScreenConstants
  <2>3. l % B \in 0..(B - 1) /\ l \div B \in Nat
    BY <2>2
  <2>4. (l \div B) % B \in 0..(B - 1)
    BY <2>2, <2>3
  <2> QED
    BY <2>1, <2>3, <2>4
<1>4. 0 \in Positions /\ vga \in VGA /\ position \in [Terms -> Positions] /\ overtaken \in BOOLEAN
  <2>1. NUM_COLS * 255 + 255 \in Nat
    BY ScreenConstants
  <2> QED
    BY <2>1 DEF PortTypes
<1> HIDE DEF Positions
<1>5. ASSUME NEW t \in Terms, Writes(t) \/ LineTaken(t) PROVE PortTypes'
  <2>1. puts' \in 0..MaxPuts
    BY <1>5, CountType DEF Writes, WStore, WAdvance, WWrap, WBreak, WDown, WRoll, WScroll,
       WCursor, WSelect, WLow, WHigh, VidmapStore, LineTaken, PortTypes
  <2>2. overtaken' \in BOOLEAN
    BY <1>4, <1>5 DEF Writes, WStore, WAdvance, WWrap, WBreak, WDown, WRoll, WScroll,
       WCursor, WSelect, WLow, WHigh, VidmapStore, LineTaken, view
  <2>3. position' \in [Terms -> Positions]
    <3>1. \/ position' = position
          \/ position' = [position EXCEPT ![t] = Linear(screen_x[t], screen_y[t])]
          \/ position' = [position EXCEPT ![t] = 0]
      BY <1>5 DEF Writes, WStore, WAdvance, WWrap, WBreak, WDown, WRoll, WScroll,
         WCursor, WSelect, WLow, WHigh, VidmapStore, LineTaken, writer
    <3> QED
      BY <1>2, <1>4, <3>1
  <2>4. vga' \in VGA
    <3>1. \/ vga' = vga
          \/ \E part \in {"low", "high"} : vga' = [vga EXCEPT !.selected = part]
          \/ vga' = [vga EXCEPT ![vga.selected] = position[t] % BYTE]
          \/ vga' = [vga EXCEPT ![vga.selected] = (position[t] \div BYTE) % BYTE]
      BY <1>5 DEF Writes, WStore, WAdvance, WWrap, WBreak, WDown, WRoll, WScroll,
         WCursor, WSelect, WLow, WHigh, VidmapStore, LineTaken, Output
    <3>2. PICK g, a, b : g = vga /\ a = position[t] % BYTE /\ b = (position[t] \div BYTE) % BYTE
      OBVIOUS
    <3>3. a \in 0..(BYTE - 1) /\ b \in 0..(BYTE - 1)
      BY <1>2, <1>3, <3>2
    <3>4. g \in VGA /\ g.selected \in {"low", "high"}
      BY <1>4, <3>2
    <3>5. \A part \in {"low", "high"} : [g EXCEPT !.selected = part] \in VGA
      BY <3>4
    <3>6. [g EXCEPT ![g.selected] = a] \in VGA /\ [g EXCEPT ![g.selected] = b] \in VGA
      BY <3>3, <3>4
    <3> QED
      BY <3>1, <3>2, <3>4, <3>5, <3>6
  <2> QED
    BY <2>1, <2>2, <2>3, <2>4 DEF PortTypes, Positions
<1>6. ASSUME /\ position' = position /\ overtaken' \in BOOLEAN /\ (Count \/ puts' = puts)
             /\ vga' = vga \/ \E t \in Terms : vga' = CursorAt(screen_x'[t], screen_y'[t])
      PROVE  PortTypes'
  <2>1. puts' \in 0..MaxPuts
    BY <1>6, CountType DEF PortTypes
  <2> QED
    BY <1>1, <1>4, <1>6, <2>1 DEF PortTypes, Positions
<1>7. ASSUME NEW t \in Terms, NEW s, SetScreen(t, s)
      PROVE  CursorAt(s.x, s.y) = CursorAt(screen_x'[t], screen_y'[t])
  BY <1>7 DEF SetScreen, TextInv, TextShapes
<1>8. ASSUME NEW s, NEW r, Echo(s, r), Count \/ puts' = puts PROVE PortTypes'
  <2>1. viewing_term \in Terms
    BY DEF TextInv, MapInv
  <2>2. vga' = CursorAt(screen_x'[viewing_term], screen_y'[viewing_term])
    BY <1>7, <1>8, <2>1 DEF Echo
  <2>3. position' = position /\ overtaken' \in BOOLEAN
    BY <1>4, <1>8 DEF Echo, view, writer
  <2> QED
    BY <1>6, <1>8, <2>1, <2>2, <2>3
<1>9. ASSUME NEW c \in Glyphs, EchoChar(c) PROVE PortTypes'
  BY <1>8, <1>9 DEF EchoChar
<1>10. CASE EchoEnter \/ EchoErase \/ EchoClear
  BY <1>8, <1>10 DEF EchoEnter, EchoErase, EchoClear
<1>11. ASSUME NEW t \in Terms, NEW c \in Glyphs, Printf(t, c) PROVE PortTypes'
  <2>1. PICK s : SetScreen(t, s) /\ (vga' = vga \/ vga' = CursorAt(s.x, s.y))
    BY <1>11 DEF Printf
  <2>2. vga' = vga \/ vga' = CursorAt(screen_x'[t], screen_y'[t])
    BY <1>7, <2>1
  <2>3. position' = position /\ overtaken' \in BOOLEAN /\ Count
    BY <1>4, <1>11 DEF Printf, view, writer
  <2> QED
    BY <1>6, <2>2, <2>3
<1>12. ASSUME NEW dest \in Terms, SwitchTo(dest) PROVE PortTypes'
  <2>1. /\ vga' = CursorAt(screen_x'[dest], screen_y'[dest])
        /\ position' = position /\ puts' = puts
        /\ overtaken' = (\E t \in Terms : wpc[t] \in Ports)
    BY <1>12 DEF SwitchTo, writer
  <2>2. overtaken' \in BOOLEAN
    BY <2>1
  <2> QED
    BY <1>6, <2>1, <2>2
<1>13. CASE UNCHANGED vars
  BY <1>13 DEF vars, writer, view, PortTypes
<1> QED
  BY <1>5, <1>9, <1>10, <1>11, <1>12, <1>13 DEF Next

\* The types of the screens, of their writers and of the cursor registers: no write, wrap,
\* scroll, erasure or switch takes a cursor further than the loops of lib.c and keyboard.c
\* correct, under the same conditions.
THEOREM ScreenTypes ==
  ASSUME "echo" \notin Timing, "clear" \notin Timing PROVE Spec => []TypeOK
<1>1. TextInv /\ PortTypes => TypeOK
  <2> SUFFICES ASSUME TextInv, PortTypes PROVE TypeOK
    OBVIOUS
  <2>1. /\ wpc \in [Terms -> WriterPCs] /\ row \in [Terms -> 0..(NUM_ROWS - 1)]
    BY CursorBounds DEF TextInv, TextShapes
  <2>2. /\ rows \in [Terms -> Seq(Seq(OnScreen))]
        /\ keyboard_buf_idx \in [Terms -> 0..KeyLimit]
    BY RowsTypes DEF TextInv, TextShapes
  <2>3. /\ mem \in [Frames -> Pages] /\ plain \in [Terms -> BOOLEAN]
        /\ page_tab_array_video \in [Terms -> {"video", "buf"}]
        /\ viewing_term \in Terms /\ running \subseteq Terms
    BY DEF TextInv, TextShapes, MapInv, OthersIdle
  <2> QED
    BY <2>1, <2>2, <2>3, CursorBounds DEF TypeOK, PortTypes
<1>2. TextInv /\ PortTypes /\ [Next]_vars => TextInv' /\ PortTypes'
  BY TextStep, PortTypesStep
<1> QED
  BY TextInit, PortTypesInit, <1>1, <1>2, PTL DEF Spec
=============================================================================
