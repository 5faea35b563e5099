SPECIFICATION PSpec
CONSTANTS
  Files <- MCFiles
  SourceLines = 1
  Reports <- MCReports
  Elems = {1, 2, 3, 4, 5, 6}
  Key <- MCKey
  HashOf <- MCHash
  Thresh = 3
  InitialBuckets = 2
  Picks = {1, 3, 4, 5, 6}
  NULL = NULL
  Texts <- MCTexts
  Header = 2
  SMALL = 3
  Room = 4
  Sizes = {2, 3, 4}
  DictSize = 3
  TOTAL_ALLOCS = 5
INVARIANTS
  PartsTypeOK
  RoundTrip
  EntriesAreStarts
  TablesAreRight
  ErrorsRead
  VerdictRight
  NoFalseAlarm
  MemoryIsSummary
  NoSpin
  Fscked
  FindsRight
  ChainsBounded
  SortsStably
  WritesFit
  CamelRight
  BlocksTile
  FreeListRight
  DataKept
PROPERTIES
  ParsersEnd
