SPECIFICATION Spec
CONSTANTS
  Terminals = {t1, t2}
  Programs = {p1, p2, p3}
  ARG_BUF_LIM = 8
  NAMELEN = 2
  Commands <- SmallCommands
  Executables <- SmallExecutables
  Shell <- SmallShell
  Letters = {"x", "y", "s"}
  Sizes <- SmallSizes
INVARIANTS
  TypeOK
  FirstWordStarts
  GetargsGivesOwn
