SPECIFICATION Spec
CONSTANTS
  root = root
  other = other
  a = a
  b = b
  c = c
  d = d
  hidden = hidden
  deep = deep
  deeper = deeper
  f1 = f1
  f2 = f2
  f3 = f3
  f4 = f4
  f5 = f5
  f6 = f6
  f7 = f7
  f8 = f8
  x = x
  Dirs <- MCDirs
  FileNames <- MCFileNames
  FilesOf <- MCFilesOf
  SubDirsOf <- MCSubDirsOf
  IncludeOf <- MCIncludeOf
  DirMatches <- MCDirMatches
  NoDepth = NoDepth
  Includes = 2
  BasePaths <- MCBasePaths
  Depth = 3
  GOMAXPROCS = 2
  ChanCap = 2
INVARIANTS
  CounterInv
  NoSendAfterClose
  EveryFileOnce
PROPERTIES
  Terminates
CHECK_DEADLOCK FALSE
