SPECIFICATION Spec
CONSTANTS
  Addr <- MCAddr
  WordSize = 3
  Instr <- MCInstr
  Size <- MCSize
  Succ <- MCSucc
  Start = 1
  Faulting = {}
  line_to_addr <- MCline_to_addr
  addr_to_line <- MCaddr_to_line
  LineInput <- MCLineInput
  MaxBrkpts = 3
PROPERTIES
  NoRewind
