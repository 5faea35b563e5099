SPECIFICATION FairSpec
CONSTANTS
  Addr <- MCAddr
  WordSize = 4
  Instr <- MCInstr
  Size <- MCSize
  Succ <- MCSucc
  Start = 1
  Faulting <- MCFaulting
  Symbols <- MCSymbols
  KeyMod = 4
  Capacity = 3
  MaxBrkpts = 3
INVARIANTS
  TypeOK
  TextShowsTable
  UndoneInOrder
PROPERTIES
  WaitReturns
