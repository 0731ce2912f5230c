SPECIFICATION RulesSpec
CONSTANTS
  Nodes <- MCNodes
  Asts <- MCAsts
  MaxDepth = 13
INVARIANTS
  TargetsAreAnnounced
CHECK_DEADLOCK FALSE
