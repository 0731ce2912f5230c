SPECIFICATION CallSpec
CONSTANTS
  Calls = {}
  NoType = "nil"
  CodeLen = 2
  FixTexts <- MCFixTexts
  Passes = {}
  Sources <- MCSources
  BoxLines = 4
  MaxInt = 1000
  FileSystems = {}
  Paths = {}
  EntriesOnDisk = {}
  EntryCaches = {}
  EntriesInMemory = {}
  Callers = {}
  Types <- MCTypes
  Any = "any"
  Unknown = "unknown"
  Targets <- MCTargets
  NoTarget = "none"
  Programs <- MCSmallestProgram
INVARIANTS
  NeverPanics
CHECK_DEADLOCK FALSE
