SPECIFICATION TypeSpec
CONSTANTS
  BooleanComparisons = {}
  ComparisonOptions = {}
  UnionTexts = {}
  UnionConstituents = {}
  IntersectionConstituents = {}
  TypeGraphs = {}
  Switches = {}
  SwitchOptions = {}
  UnsafeAssignments = {}
  ObjectLiterals = {}
  ConditionTrees = {}
  FunctionCalls = {}
  Places = {}
  Classes = {}
  VoidExpressionsFound = {}
  VoidOptions = {}
  Assertions = {}
  NonNullUses = {}
  PackageLists = {}
  Additions = {}
  PlusOptions = {}
  Returns = {}
  Accesses = {}
  Bindings = {}
  Functions = {}
  FunctionOptions = {}
  CatchCalls = {}
  SpreadsFound = {}
  Expressions <- MCExpressions
INVARIANTS
  EveryPartIsChecked
CHECK_DEADLOCK FALSE
