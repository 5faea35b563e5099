SPECIFICATION Spec
CONSTANTS
  Addr <- MCAddr
  WordSize = 4
  Instr <- MCInstr
  Size <- MCSize
  Succ <- MCSucc
  Start = 1
  Faulting = {}
  Symbols <- MCSymbols
  KeyMod = 100
  Capacity = 10
  MaxBrkpts = 2
INVARIANTS
  NextIsOwn
