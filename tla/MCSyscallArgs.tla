--------------------------- MODULE MCSyscallArgs ---------------------------
(* Commands with blanks in front, between, behind and within the           *)
(* arguments, with a line end before and behind them, with a name that no  *)
(* file has and one that is too long, and commands without a word.         *)
EXTENDS SyscallArgs

SmallCommands ==
  {<<>>, <<SPACE>>, <<NEWLINE>>,
   <<SPACE, SPACE, "x", SPACE, SPACE, "x", SPACE>>,
   <<"x", "x", SPACE, "x", SPACE, "x">>, <<"x", SPACE, "x", NEWLINE, "x">>,
   <<"x", SPACE, NEWLINE, "x">>, <<SPACE, NEWLINE, "x">>,
   <<"y", SPACE, "x">>, <<"x", "x", "x">>}
SmallExecutables == {<<"x">>, <<"x", "x">>, <<"s">>}
SmallShell == <<"s">>
SmallSizes == -1..3
=============================================================================
