SPECIFICATION FairSpec
CONSTANTS
  Token <- MCToken
  ForceFlag <- MCForceFlag
  Dashed <- MCDashed
  Dotted <- MCDotted
  Found <- MCFound
  DumpFile <- MCDumpFile
  Version <- MCVersion
  Versions <- MCVersions
  Dump <- MCDump
  WithLines <- MCWithLines
  PipeCap = 2
  MaxReport = 2
  MaxArgs = 2
  NoProgram = NoProgram
INVARIANTS
  TypeOK
  CheckedIsDebugged
  ReadsWhole
  TablesAreCurrent
PROPERTIES
  SessionEnds
