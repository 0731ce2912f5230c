SPECIFICATION TypeSpec
CONSTANTS
  BooleanComparisons = {}
  ComparisonOptions = {}
  UnionTexts = {}
  UnionConstituents = {}
  IntersectionConstituents = {}
  TypeGraphs = {}
  Switches <- MCSwitches
  SwitchOptions <- MCSwitchOptions
  UnsafeAssignments = {}
  ObjectLiterals = {}
  ConditionTrees = {}
  FunctionCalls = {}
  Places = {}
  Classes = {}
  VoidExpressionsFound = {}
  VoidOptions = {}
  Assertions = {}
  NonNullUses = {}
  PackageLists = {}
  Additions = {}
  PlusOptions = {}
  Returns = {}
  Accesses = {}
  Bindings = {}
  Functions = {}
  FunctionOptions = {}
  CatchCalls = {}
  SpreadsFound = {}
  Expressions = {}
INVARIANTS
  DefaultOfNonLiteralsIsKept
CHECK_DEADLOCK FALSE
