SPECIFICATION FairSpec
CONSTANTS
  Addr <- MCAddr
  WordSize = 3
  Instr <- MCInstr
  Size <- MCSize
  Succ <- MCSucc
  Start = 1
  Faulting <- MCFaulting
  line_to_addr <- MCline_to_addr
  addr_to_line <- MCaddr_to_line
  LineInput <- MCLineInput
  MaxBrkpts = 1
PROPERTIES
  StopAnswered
CHECK_DEADLOCK FALSE
