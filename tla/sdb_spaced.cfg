SPECIFICATION Spec
CONSTANTS
  Addr <- MCAddr
  WordSize = 3
  Instr <- MCInstr
  Size <- MCSize
  Succ <- MCSucc
  Start = 1
  Faulting <- MCFaulting
  line_to_addr <- MCline_to_addr
  addr_to_line <- MCaddr_to_line
  LineInput <- MCLineInput
  MaxBrkpts = 3
INVARIANTS
  TypeOK
  Bookkeeping
  TextIntegrity
  LiftedHere
  PromptAtLine
  OwnCode
PROPERTIES
  NoRewind
  ImplementsLineDebugger
CHECK_DEADLOCK FALSE
