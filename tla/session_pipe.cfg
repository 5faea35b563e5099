SPECIFICATION FairSpec
CONSTANTS
  Token <- MCToken
  ForceFlag <- MCForceFlag
  Dashed <- MCDashed
  Dotted <- MCDotted
  Found <- MCFound
  DumpFile <- MCDumpFile
  Version <- MCVersion
  Versions <- MCVersions
  Dump <- MCDump
  WithLines <- MCWithLines
  PipeCap = 2
  MaxReport = 3
  MaxArgs = 1
  NoProgram = NoProgram
PROPERTIES
  SessionEnds
