SPECIFICATION CallSpec
CONSTANTS
  Calls <- MCCalls
  NoType = "nil"
  CodeLen = 2
  FixTexts <- MCFixTexts
  Passes <- MCPasses
  Sources <- MCSources
  BoxLines = 4
  MaxInt = 1000
  FileSystems <- MCFileSystems
  Paths <- MCPaths
  EntriesOnDisk <- MCEntriesOnDisk
  EntryCaches <- MCEntryCaches
  EntriesInMemory <- MCEntriesInMemory
  Callers = {c1, c2}
  Types <- MCTypes
  Any = "any"
  Unknown = "unknown"
  Targets <- MCTargets
  NoTarget = "none"
  Programs <- MCPrograms
INVARIANTS
  TypeOK
  VerdictIsRight
  NoCallWaitsForItself
  ArgumentsMeetTheirParameters
  FixedCodeIsRight
  BoxShowsRange
  OverlayIsOneFileSystem
PROPERTIES
  Returns
  CallsReturn
CHECK_DEADLOCK FALSE
