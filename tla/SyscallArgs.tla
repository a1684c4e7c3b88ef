---------------------------- MODULE SyscallArgs ----------------------------
(***************************************************************************)
(* The command line of a program (syscall.c): execute splits it into the   *)
(* name of a file and arguments (parse_args) and keeps the arguments in    *)
(* the PCB, from where the program fetches them with getargs.              *)
(*                                                                         *)
(* Programs come and go as module ProcStacks says, which the kernel        *)
(* implements (KernelRefinement).  A command is the sequence of its        *)
(* characters without the 0 that ends it.                                  *)
(***************************************************************************)
EXTENDS Integers, ProcStacks

CONSTANTS
  ARG_BUF_LIM,  \* size of the buffers; 128 in syscall.h
  NAMELEN,      \* longest name of a file; 32
  Commands,     \* what programs give to execute
  Executables,  \* names of the files that can be executed
  Shell,        \* the command "shell"
  Letters,      \* characters of words
  Sizes         \* values of nbytes that programs give to getargs

SPACE == "space"
NEWLINE == "newline"
NOKE == "noke"   \* the character 0
Chars == Letters \cup {SPACE, NEWLINE, NOKE}

\* Longer commands than the buffers are left out: parse_args does not count.
\* "shell" is a word and a file of the image, and no file has an empty name or
\* one that is longer than its entry of the directory.
ASSUME ArgsAssumption ==
  /\ ARG_BUF_LIM \in Nat /\ NAMELEN \in Nat /\ Sizes \subseteq Int
  /\ Letters \cap {SPACE, NEWLINE, NOKE} = {}
  /\ \A c \in Commands \cup {Shell} :
       c \in Seq(Chars \ {NOKE}) /\ Len(c) < ARG_BUF_LIM
  /\ Shell \in Seq(Letters) \cap Executables
  /\ \A name \in Executables : Len(name) \in 1..NAMELEN

VARIABLES
  args,   \* PCB field: a buffer
  image,  \* the file that was loaded for each program
  given   \* history: the command that started it

vars == <<svars, args, image, given>>

Slots == 0..(ARG_BUF_LIM - 1)
Running(p) == \E t \in Terminals : p \in InStack(t)

TypeOK ==
  /\ args \in [Programs -> [Slots -> Chars]]
  /\ image \in [Programs -> Executables \cup {<<>>}]
  /\ given \in [Programs -> Commands \cup {Shell, <<>>}]

-----------------------------------------------------------------------------
(* Strings (lib.c).                                                        *)

Strlen(buf) == CHOOSE n \in Slots : buf[n] = NOKE /\ \A i \in 0..(n - 1) : buf[i] # NOKE

\* Mutant of Strcpy: the 0 at the end is not copied.
StrcpyNoEnd(buf, s) == [i \in Slots |-> IF i < Len(s) THEN s[i + 1] ELSE buf[i]]

\* String s with its 0 is copied into buf; what lies behind stays.
Strcpy(buf, s) ==
  [i \in Slots |-> IF i < Len(s) THEN s[i + 1] ELSE IF i = Len(s) THEN NOKE ELSE buf[i]]

-----------------------------------------------------------------------------
(* parse_args                                                              *)

CharAt(c, i) == IF i < Len(c) THEN c[i + 1] ELSE NOKE

\* Where a loop over command c that starts at from and ends at the characters in
\* stop gets to.
Scan(c, from, stop) ==
  CHOOSE k \in from..Len(c) :
    CharAt(c, k) \in stop /\ \A i \in from..(k - 1) : CharAt(c, i) \notin stop

\* Mutant of ParseArgs: leading blanks are not skipped.
ParseArgsNoSkip(c) ==
  LET end == Scan(c, 0, {SPACE, NEWLINE, NOKE})
      rest == Scan(c, end, Chars \ {SPACE})
  IN [filename |-> SubSeq(c, 1, end),
      args |-> SubSeq(c, rest + 1, Scan(c, rest, {NEWLINE, NOKE}))]

\* The name is the first word; the arguments are what follows it and the blanks
\* behind it up to the end of the line.  The check in the loop over the leading
\* blanks never fails, since it looks at the first of them.
ParseArgs(c) ==
  LET start == Scan(c, 0, Chars \ {SPACE})
      end == Scan(c, start, {SPACE, NEWLINE, NOKE})
      rest == Scan(c, end, Chars \ {SPACE})
  IN [filename |-> SubSeq(c, start + 1, end),
      args |-> SubSeq(c, rest + 1, Scan(c, rest, {NEWLINE, NOKE}))]

\* Mutant of Found: the search ends without an error.
FoundAnyway(filename) == Len(filename) \in 1..NAMELEN

\* read_dentry_by_name and the checks of execute: the file exists and can be
\* executed.
Found(filename) == Len(filename) \in 1..NAMELEN /\ filename \in Executables

-----------------------------------------------------------------------------
\* execute loads program p for command c.
Loads(p, c) ==
  LET parsed == ParseArgs(c)
  IN /\ Found(parsed.filename)
     /\ image' = [image EXCEPT ![p] = parsed.filename]
     /\ args' = [args EXCEPT ![p] = Strcpy(@, parsed.args)]
     /\ given' = [q \in Programs |-> IF q = p THEN c
                                     ELSE IF Running(q)' THEN given[q] ELSE <<>>]

\* The shell of the first terminal runs; PCBs without a program are clear.
Init ==
  /\ StacksInit
  /\ args = [p \in Programs |-> [i \in Slots |-> NOKE]]
  /\ image = [p \in Programs |-> IF Running(p) THEN Shell ELSE <<>>]
  /\ given = [p \in Programs |-> IF Running(p) THEN Shell ELSE <<>>]

\* The running program executes command c.
Execute(c) == \E p \in Programs : Start(p) /\ Loads(p, c)

\* halt of a terminal's last program, and terminal_switch to a new terminal.
ExecuteShell ==
  \E p \in Programs :
    (Restart(p) \/ \E t \in Terminals : Open(t, p)) /\ Loads(p, Shell)

FrontOf(t) == stacks[t][Len(stacks[t])]

\* halt of any other program.
HaltReturn ==
  /\ Return
  /\ given' = [given EXCEPT ![FrontOf(running)] = <<>>]
  /\ UNCHANGED <<args, image>>

\* The timer, and terminal_switch to a terminal that runs programs.
ScheduleOrShow ==
  /\ \E t \in Terminals : (t # running /\ Schedule(t)) \/ (t # shown /\ Show(t))
  /\ UNCHANGED <<args, image, given>>

Next == (\E c \in Commands : Execute(c)) \/ ExecuteShell \/ HaltReturn \/ ScheduleOrShow

Spec == Init /\ [][Next]_vars

-----------------------------------------------------------------------------
Failed == [ret |-> -1, buf |-> <<>>]

\* What a call of getargs by the running program returns and writes; it changes
\* nothing in the kernel.  strcpy writes the 0 that ends the arguments as well, which
\* is one byte more than nbytes when nbytes is their length.
Getargs(n) ==
  LET buf == args[FrontOf(running)]
      length == Strlen(buf)
  IN IF n < 0 \/ length = 0 \/ n < length THEN Failed
     ELSE [ret |-> 0, buf |-> [i \in 1..(length + 1) |-> buf[i - 1]]]

-----------------------------------------------------------------------------
(* The reference: a line is blanks, a name, blanks and arguments.          *)

\* l is the first line of command c.
Line(c) == CHOOSE l \in {SubSeq(c, 1, k) : k \in 0..Len(c)} :
  /\ \A i \in 1..Len(l) : l[i] # NEWLINE
  /\ l = c \/ c[Len(l) + 1] = NEWLINE

Blank(l, from, to) == \A i \in from..to : l[i] = SPACE

\* The first line of c consists of blanks, name, blanks and arguments a.
Splits(c, name, a) ==
  LET l == Line(c) IN
  \E i \in 0..Len(l) : \E j \in i..Len(l) : \E k \in j..Len(l) :
    /\ Blank(l, 1, i) /\ name = SubSeq(l, i + 1, j)
    /\ Blank(l, j + 1, k) /\ a = SubSeq(l, k + 1, Len(l))
    /\ \A m \in 1..Len(name) : name[m] # SPACE
    /\ a # <<>> => a[1] # SPACE /\ j < k /\ name # <<>>

\* The tails of l, which include l and the empty one.
Tails(l) == {SubSeq(l, k, Len(l)) : k \in 1..(Len(l) + 1)}

\* The commands whose first word is the name of an executable file.
Startable ==
  {c \in Commands : \E name \in Executables, a \in Tails(Line(c)) : Splits(c, name, a)}

\* While there is a PCB, execute accepts just the commands whose first word is the
\* name of an executable file, whatever blanks and line ends are around it
\* ("check for leading spaces", syscall.c:565).
FirstWordStarts ==
  Idle # {} => \A c \in Commands : ENABLED Execute(c) <=> c \in Startable

\* A program that asks for its arguments with a buffer that holds them gets those
\* of the command that started it, whatever it has started since, whatever ran
\* with its PCB before and whichever terminal was scheduled in between, with one 0
\* behind them; a program without arguments is told so (execute, getargs).
GetargsGivesOwn ==
  LET p == FrontOf(running)
      c == given[p]
      own == {a \in Tails(Line(c)) : Splits(c, image[p], a)}
  IN \A n \in Sizes, a \in own :
       Getargs(n) = IF a # <<>> /\ Len(a) <= n
                    THEN [ret |-> 0, buf |-> Append(a, NOKE)]
                    ELSE Failed
=============================================================================
