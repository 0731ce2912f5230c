SPECIFICATION AllSpec
CONSTANTS
  BooleanComparisons <- MCBooleanComparisons
  ComparisonOptions <- MCComparisonOptions
  UnionTexts <- MCUnionTexts
  UnionConstituents <- MCUnionConstituents
  IntersectionConstituents <- MCIntersectionConstituents
  TypeGraphs <- MCTypeGraphs
  Switches <- MCSwitches
  SwitchOptions <- MCSwitchOptions
  UnsafeAssignments <- MCUnsafeAssignments
  ObjectLiterals <- MCObjectLiterals
  ConditionTrees <- MCConditionTrees
  FunctionCalls <- MCFunctionCalls
  Places <- MCPlaces
  Classes <- MCClasses
  VoidExpressionsFound <- MCVoidExpressionsFound
  VoidOptions <- MCVoidOptions
  Assertions <- MCAssertions
  NonNullUses <- MCNonNullUses
  PackageLists <- MCPackageLists
  Additions <- MCAdditions
  PlusOptions <- MCPlusOptions
  Returns <- MCReturns
  Accesses <- MCAccesses
  Bindings <- MCBindings
  Functions <- MCFunctions
  FunctionOptions <- MCFunctionOptions
  CatchCalls <- MCCatchCalls
  SpreadsFound <- MCSpreads
  Expressions <- MCExpressions
  Nodes <- MCNodes
  Asts <- MCAsts
  MaxDepth = 13
INVARIANTS
  CallsNest
  EveryNodeOnce
  TargetsAreTargets
  FunctionsReportedAreRight
  ReturnsReportedAreRight
  UnnecessaryCanGo
  UnionFixesAreRight
  RedundancyIsRight
  SwitchVerdictIsRight
  AnyIsReported
  MisusedPromisesAreReported
  VoidIsReportedAndFixed
  ShimsWork
  ConversionsAreReported
  WhatIsLeftBehindIsReported
  PromiseFunctionsAreRight
  LostPromisesAreReported
  SuggestionSettles
CHECK_DEADLOCK FALSE
