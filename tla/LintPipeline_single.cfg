SPECIFICATION Spec
CONSTANTS
  f1 = f1
  f2 = f2
  f3 = f3
  k1 = k1
  k2 = k2
  r1 = r1
  r2 = r2
  Files <- MCFiles
  TextLen <- MCTextLen
  Kinds <- MCKinds
  Nodes <- MCNodes
  RuleList <- MCRuleList
  Listens <- MCListens
  Finds <- MCFinds
  Checkers = {c1}
  SingleThreaded = TRUE
  ChanCap = 1
  NoFile = NoFile
  NoSummary = NoSummary
INVARIANTS
  SingleThreadedOrder
CHECK_DEADLOCK FALSE
