----------------------------- MODULE TypeRules -----------------------------
(***************************************************************************)
(* Rules whose listeners decide about one node from its types and keep     *)
(* nothing.  Each has a module of operators; a behaviour is one call of a  *)
(* listener of one of the rules (of no-floating-promises, one call for     *)
(* each suggestion that is applied).  The shim generator is here too, as   *)
(* another thing that is run by itself.                                    *)
(***************************************************************************)
EXTENDS Sequences

CONSTANTS BooleanComparisons, ComparisonOptions, UnionTexts,
  UnionConstituents,
  IntersectionConstituents,
  TypeGraphs,
  Switches, SwitchOptions,
  UnsafeAssignments,
  ObjectLiterals,
  ConditionTrees,
  FunctionCalls,
  Places,
  Classes,
  VoidExpressionsFound, VoidOptions,
  Assertions,
  NonNullUses,
  PackageLists,
  Additions, PlusOptions,
  Returns,
  Accesses,
  Bindings,
  Functions, FunctionOptions,
  CatchCalls,
  SpreadsFound,
  Expressions

VARIABLES
  rule,    \* the rule that listens
  node,    \* what it is told of, as its module describes it
  returned,
  report,  \* what it has reported
  statement, ignoreVoid, ignoreIIFE, verdict, applied  \* see FloatingPromises

listenerVars == <<rule, node, returned, report>>
promiseVars == <<statement, ignoreVoid, ignoreIIFE, verdict, applied>>
typeVars == <<listenerVars, promiseVars>>

BooleanLiteralCompare == INSTANCE BooleanLiteralCompare
DuplicateConstituents == INSTANCE DuplicateConstituents
RedundantConstituents == INSTANCE RedundantConstituents
BaseToString == INSTANCE BaseToString
SwitchExhaustiveness == INSTANCE SwitchExhaustiveness
UnsafeTargets == INSTANCE UnsafeTargets
NoMisusedPromises == INSTANCE NoMisusedPromises
VoidExpressions == INSTANCE VoidExpressions
TypeAssertions == INSTANCE TypeAssertions
ShimGenerator == INSTANCE ShimGenerator
PlusOperands == INSTANCE PlusOperands
UnsafeReturn == INSTANCE UnsafeReturn
UnboundMethod == INSTANCE UnboundMethod
PromiseFunctions == INSTANCE PromiseFunctions
CatchCallbacks == INSTANCE CatchCallbacks
Spreads == INSTANCE Spreads
FloatingPromises == INSTANCE FloatingPromises WITH report <- verdict

\* The state of no-floating-promises when another rule listens.
FloatingPromisesIdle ==
  /\ statement = "idle" /\ ignoreVoid = "idle" /\ ignoreIIFE = "idle"
  /\ verdict = "idle" /\ applied = "idle"

TypeInit ==
  /\ returned = FALSE /\ report = {}
  /\ \/ /\ rule = "no-unnecessary-boolean-literal-compare"
        /\ node \in [comparison : BooleanComparisons, options : ComparisonOptions]
     \/ /\ rule = "no-duplicate-type-constituents"
        /\ node \in [text : UnionTexts, optional : BOOLEAN]
     \/ /\ rule = "no-redundant-type-constituents/union"
        /\ node \in [types : UnionConstituents, insideReturnType : BOOLEAN]
     \/ /\ rule = "no-redundant-type-constituents/intersection"
        /\ node \in IntersectionConstituents
     \/ /\ rule = "no-base-to-string"
        /\ node \in [use : {"join", "toString"}, types : TypeGraphs]
     \/ /\ rule = "switch-exhaustiveness-check"
        /\ node \in [switch : Switches, options : SwitchOptions]
     \/ /\ rule = "no-unsafe-assignment"
        /\ node \in UnsafeAssignments
     \/ /\ rule = "no-unsafe-assignment/object"
        /\ node \in ObjectLiterals
     \/ /\ rule = "no-misused-promises/conditions"
        /\ node \in ConditionTrees
     \/ /\ rule = "no-misused-promises/call"
        /\ node \in FunctionCalls
     \/ /\ rule = "no-misused-promises/place"
        /\ node \in Places
     \/ /\ rule = "no-misused-promises/class"
        /\ node \in Classes
     \/ /\ rule = "no-confusing-void-expression"
        /\ node \in [expression : VoidExpressionsFound, options : VoidOptions]
     \/ /\ rule = "no-unnecessary-type-assertion"
        /\ node \in [assertion : Assertions, exact : BOOLEAN]
     \/ /\ rule = "no-unnecessary-type-assertion/non-null"
        /\ node \in [use : NonNullUses, strict : BOOLEAN]
     \/ /\ rule = "tools/gen_shims"
        /\ node \in PackageLists
     \/ /\ rule = "restrict-plus-operands"
        /\ node \in [addition : Additions, options : PlusOptions]
     \/ /\ rule = "no-unsafe-return"
        /\ node \in [return : Returns, noImplicitThis : BOOLEAN]
     \/ /\ rule = "unbound-method/access"
        /\ node \in [access : Accesses, ignoreStatic : BOOLEAN]
     \/ /\ rule = "unbound-method/binding"
        /\ node \in [binding : Bindings, ignoreStatic : BOOLEAN]
     \/ /\ rule = "promise-function-async"
        /\ node \in [function : Functions, options : FunctionOptions]
     \/ /\ rule = "use-unknown-in-catch-callback-variable"
        /\ node \in CatchCalls
     \/ /\ rule = "no-misused-spread"
        /\ node \in SpreadsFound
     \/ /\ rule = "no-floating-promises"
        /\ node = "statement"
  /\ IF rule = "no-floating-promises" THEN FloatingPromises!Init ELSE FloatingPromisesIdle

Listens(name) ==
  /\ rule = name /\ ~ returned /\ returned' = TRUE
  /\ UNCHANGED <<rule, node, promiseVars>>

CheckComparison ==
  /\ Listens("no-unnecessary-boolean-literal-compare")
  /\ report' = BooleanLiteralCompare!Reports(node.comparison, node.options)

CheckUnion ==
  /\ Listens("no-duplicate-type-constituents")
  /\ DuplicateConstituents!WellFormed(node.text)
  /\ report' = DuplicateConstituents!Reports(node.text, node.optional)

\* The fixes are applied and the file is linted again.
FixUnion ==
  /\ rule = "no-duplicate-type-constituents" /\ returned
  /\ \E r \in report : r.removed # {}
  /\ node' = [node EXCEPT !.text = DuplicateConstituents!FixedText(node.text, report)]
  /\ returned' = FALSE /\ report' = {} /\ UNCHANGED <<rule, promiseVars>>

CheckUnionConstituents ==
  /\ Listens("no-redundant-type-constituents/union")
  /\ report' = RedundantConstituents!UnionReports(node.types, node.insideReturnType)

CheckIntersectionConstituents ==
  /\ Listens("no-redundant-type-constituents/intersection")
  /\ report' = RedundantConstituents!IntersectionReports(node)

CheckExpression ==
  /\ Listens("no-base-to-string")
  /\ report' = BaseToString!Reports(node.use, node.types, 1)

CheckSwitch ==
  /\ Listens("switch-exhaustiveness-check")
  /\ report' = SwitchExhaustiveness!Reports(node.switch, node.options)

CheckAssignment ==
  /\ Listens("no-unsafe-assignment")
  /\ report' = UnsafeTargets!AssignmentReports(node)

CheckObjectLiteral ==
  /\ Listens("no-unsafe-assignment/object")
  /\ report' = UnsafeTargets!ObjectLiteralReports(node)

CheckConditions ==
  /\ Listens("no-misused-promises/conditions")
  /\ report' = NoMisusedPromises!ConditionReports(node)

CheckCallArguments ==
  /\ Listens("no-misused-promises/call")
  /\ report' = NoMisusedPromises!ArgumentReports(node)

CheckPlace ==
  /\ Listens("no-misused-promises/place")
  /\ report' = NoMisusedPromises!PlaceReports(node)

CheckHeritage ==
  /\ Listens("no-misused-promises/class")
  /\ report' = NoMisusedPromises!HeritageReports(node)

CheckVoidExpression ==
  /\ Listens("no-confusing-void-expression")
  /\ report' = VoidExpressions!Reports(node.expression, node.options)

CheckTypeAssertion ==
  /\ Listens("no-unnecessary-type-assertion")
  /\ report' = TypeAssertions!AssertionReports(node.assertion, node.exact)

CheckNonNull ==
  /\ Listens("no-unnecessary-type-assertion/non-null")
  /\ report' = TypeAssertions!NonNullReports(node.use, node.strict)

GenerateShims ==
  /\ Listens("tools/gen_shims")
  /\ report' = {ShimGenerator!Run(node)}

CheckAddition ==
  /\ Listens("restrict-plus-operands")
  /\ report' = PlusOperands!Reports(node.addition.operator, node.addition.left, node.addition.right, node.options)

CheckReturn ==
  /\ Listens("no-unsafe-return")
  /\ report' = UnsafeReturn!Reports(node.return, node.noImplicitThis)

CheckAccess ==
  /\ Listens("unbound-method/access")
  /\ report' = LET reports == UnboundMethod!AccessReports(node.access, node.ignoreStatic) IN { <<i, reports[i]>> : i \in DOMAIN reports }

CheckBinding ==
  /\ Listens("unbound-method/binding")
  /\ report' = LET reports == UnboundMethod!BindingReports(node.binding, node.ignoreStatic) IN { <<i, reports[i]>> : i \in DOMAIN reports }

CheckFunction ==
  /\ Listens("promise-function-async")
  /\ report' = PromiseFunctions!Reports(node.function, node.options)

CheckCatch ==
  /\ Listens("use-unknown-in-catch-callback-variable")
  /\ report' = CatchCallbacks!Reports(node)

CheckSpread ==
  /\ Listens("no-misused-spread")
  /\ report' = Spreads!Reports(node)

CheckExpressionStatement ==
  /\ rule = "no-floating-promises" /\ FloatingPromises!Next
  /\ UNCHANGED listenerVars

TypeNext ==
  \/ CheckComparison
  \/ CheckUnion \/ FixUnion
  \/ CheckUnionConstituents
  \/ CheckIntersectionConstituents
  \/ CheckExpression
  \/ CheckSwitch
  \/ CheckAssignment
  \/ CheckObjectLiteral
  \/ CheckConditions
  \/ CheckCallArguments
  \/ CheckPlace
  \/ CheckHeritage
  \/ CheckVoidExpression
  \/ CheckTypeAssertion
  \/ CheckNonNull
  \/ GenerateShims
  \/ CheckAddition
  \/ CheckReturn
  \/ CheckAccess
  \/ CheckBinding
  \/ CheckFunction
  \/ CheckCatch
  \/ CheckSpread
  \/ CheckExpressionStatement

TypeSpec == TypeInit /\ [][TypeNext]_typeVars
-----------------------------------------------------------------------------
Said(name) == rule = name /\ returned

\* The fix of a comparison with a literal means what the comparison means.
ComparisonFixKeepsMeaning ==
  (/\ Said("no-unnecessary-boolean-literal-compare") /\ report # {}
   /\ BooleanLiteralCompare!OnlyNullableBooleans(node.comparison))
    => BooleanLiteralCompare!SameMeaning(node.comparison)

\* The fixes take out repetitions only, unless a nested union repeats itself.
UnionFixKeepsConstituents ==
  (/\ Said("no-duplicate-type-constituents")
   /\ ~ DuplicateConstituents!ConstituentRepeatsItself(node.text))
    => DuplicateConstituents!KeepsConstituents(node.text, node.optional, report)

\* What the fixes leave when there are none any more has no repetition left (no comparison is made with what does not resolve).
UnionFixesSettle ==
  (/\ Said("no-duplicate-type-constituents") /\ "error" \notin DuplicateConstituents!Names(node.text)
   /\ ~ \E r \in report : r.removed # {}) =>
    \A i, j \in DOMAIN node.text :
      (i # j /\ node.text[i] = node.text[j]) => node.text[i] \in {"|", "(", ")"}

\* What is said to be redundant in a union adds no value to it, whichever way it is
\* written, and a part that another part includes is not passed over.
RedundantInUnionIsRight ==
  Said("no-redundant-type-constituents/union") =>
    /\ RedundantConstituents!UnionReportsAreTrue(node.types, report)
    /\ RedundantConstituents!UnionReportsAreAll(node.types, node.insideReturnType, report)

\* What is said to be redundant in an intersection takes no value from it.
RedundantInIntersectionIsTrue ==
  Said("no-redundant-type-constituents/intersection")
    => RedundantConstituents!IntersectionReportsAreTrue(node, report)

\* An expression is reported iff Object's toString may be used in making it a string.
StringCertaintyIsRight ==
  Said("no-base-to-string") =>
    (report # {} <=> BaseToString!CanBeDefault(node.use, node.types, 1))

\* What is said of a switch agrees with the values that get to its cases.
SwitchVerdictIsRight ==
  Said("switch-exhaustiveness-check") =>
    SwitchExhaustiveness!ReportsAreRight(node.switch, node.options, report)

\* Of the targets of an assignment, those that get any are reported, each once.
EveryAnyIsReportedOnce ==
  Said("no-unsafe-assignment") => UnsafeTargets!EveryAnyIsReportedOnce(node, report)

\* Each property of an object literal that gets an unsafe value is reported once, unless an
\* earlier one is given an assignment.
ObjectLiteralIsReported ==
  Said("no-unsafe-assignment/object") => UnsafeTargets!ObjectLiteralIsReported(node, report)

\* Each promise that decides a condition is reported once, and nothing else is but a comma,
\* which is reported wherever it stands, and twice when it is a condition in parentheses.
ConditionsAreReportedOnce ==
  Said("no-misused-promises/conditions") =>
    NoMisusedPromises!ConditionsAreReportedOnce(node, report)

\* An argument is reported iff overloads want a function without result there and none a
\* promise, or fewer a promise than are counted without result before them.
VoidArgumentsAreReported ==
  Said("no-misused-promises/call") => NoMisusedPromises!VoidArgumentsAreReported(node, report)

\* Wherever a function that returns a promise is put, it is reported iff none is expected,
\* unless the type written there is in parentheses or the method's name is computed.
PlaceIsReported ==
  Said("no-misused-promises/place") => NoMisusedPromises!PlaceIsReported(node, report)

\* A method that returns a promise is reported for each heritage type whose users expect
\* none, unless its name is computed.
HeritageIsReported ==
  Said("no-misused-promises/class") => NoMisusedPromises!HeritageIsReported(node, report)

\* An expression without value is reported iff something is made of its value.
VoidIsReportedIffUsed ==
  Said("no-confusing-void-expression") =>
    VoidExpressions!VoidIsReportedIffUsed(node.expression, node.options, report)

\* After a fix a function returns where it did, and nothing is left to report.
VoidFixesAreRight ==
  Said("no-confusing-void-expression") =>
    VoidExpressions!VoidFixesAreRight(node.expression, node.options, report)

\* Without an assertion that is reported, the expression has a type of the same values.
AssertionIsUnnecessary ==
  Said("no-unnecessary-type-assertion") =>
    TypeAssertions!AssertionIsUnnecessary(node.assertion, node.exact, report)

\* Without a non-null assertion that is reported, nothing nullish gets where it is not expected.
NonNullIsUnnecessary ==
  Said("no-unnecessary-type-assertion/non-null") =>
    TypeAssertions!NonNullIsUnnecessary(node.use, node.strict, report)

\* A shim that is written has all that was requested, and a run that exits without error writes
\* all, unless it met a request that is not JSON, which ends it early with status 0.
RequestsAreMet ==
  Said("tools/gen_shims") => \A run \in report : ShimGenerator!RequestsAreMet(node, run)

\* A shim that is written can be compiled, and its accessors read the fields they name.
ShimWorks ==
  Said("tools/gen_shims") => \A run \in report : ShimGenerator!ShimWorks(node, run)

\* An addition is reported iff values may get together that cannot or must not be added.
AdditionIsReported ==
  Said("restrict-plus-operands") =>
    PlusOperands!AdditionIsReported(node.addition.operator, node.addition.left, node.addition.right,
                                    node.options, report)

\* Any gets to the caller of a function only where its type has any or unknown.
AnyIsNotReturned ==
  Said("no-unsafe-return") => UnsafeReturn!AnyIsNotReturned(node.return, report)

\* A method is reported iff it gets where it can be called without its object.
EscapingMethodIsReported ==
  Said("unbound-method/access") =>
    UnboundMethod!EscapingMethodIsReported(node.access, node.ignoreStatic, report)

\* A destructured method is reported once, iff it may need its object.
BindingIsReportedOnce ==
  Said("unbound-method/binding") =>
    UnboundMethod!BindingIsReportedOnce(node.binding, node.ignoreStatic, report)

\* What is to be async returns promises, and what is declared to return promises is to be async.
OnlyPromisesBecomeAsync ==
  Said("promise-function-async") =>
    PromiseFunctions!OnlyPromisesBecomeAsync(node.function, node.options, report)

\* A handler of rejections is reported iff its parameter may be something else than unknown.
HandlersAreFlagged ==
  Said("use-unknown-in-catch-callback-variable") => CatchCallbacks!HandlersAreFlagged(node, report)

\* What is suggested declares the parameter of a handler as unknown.
SuggestionIsUnknown ==
  Said("use-unknown-in-catch-callback-variable") => CatchCallbacks!SuggestionIsUnknown(node, report)

\* A spread is reported iff something of a value may be lost by it, for a reason that is true.
LossIsReported ==
  Said("no-misused-spread") => Spreads!LossIsReported(node, report)

\* What is suggested for a spread fits every value that it may have.
SpreadSuggestionFits ==
  Said("no-misused-spread") => Spreads!SuggestionFits(node, report)

-----------------------------------------------------------------------------
(* What the rules have in common. *)

\* What is said to be unnecessary can go: a comparison with a literal, as its fix does it, and
\* an assertion of a type or that something is not null.
UnnecessaryCanGo == ComparisonFixKeepsMeaning /\ AssertionIsUnnecessary /\ NonNullIsUnnecessary

\* The fixes of a union take out its repetitions, all of them in the end, and nothing else.
UnionFixesAreRight == UnionFixKeepsConstituents /\ UnionFixesSettle

\* What is said to be redundant in a union or an intersection makes no difference to it.
RedundancyIsRight == RedundantInUnionIsRight /\ RedundantInIntersectionIsTrue

\* Any that is assigned, put into an object or returned is reported where it gets somewhere,
\* but for the properties after one that is given an assignment, and for what is passed over
\* in returns (see UnsafeReturn).
AnyIsReported == EveryAnyIsReportedOnce /\ ObjectLiteralIsReported /\ AnyIsNotReturned

\* Promises are reported where a condition is decided by one, or where a function that returns
\* one is passed, put or inherited in place of a function without result.
MisusedPromisesAreReported ==
  ConditionsAreReportedOnce /\ VoidArgumentsAreReported /\ PlaceIsReported /\ HeritageIsReported

\* An expression without value is reported iff its value is used, and the fix is right.
VoidIsReportedAndFixed == VoidIsReportedIffUsed /\ VoidFixesAreRight

\* The shims that are written work and have all that was requested.
ShimsWork == RequestsAreMet /\ ShimWorks

\* A conversion to a string is reported iff it may be a wrong one, by an addition or otherwise.
ConversionsAreReported == StringCertaintyIsRight /\ AdditionIsReported

\* What an access, a destructuring or a spread leaves behind, a method's object or a value's
\* properties, is reported iff it may be missed, and what is suggested fits.
WhatIsLeftBehindIsReported ==
  EscapingMethodIsReported /\ BindingIsReportedOnce /\ LossIsReported /\ SpreadSuggestionFits

\* Functions around promises: those that return them are to be async, those that handle their
\* rejections take what is unknown, as the suggestion has it.
PromiseFunctionsAreRight == OnlyPromisesBecomeAsync /\ HandlersAreFlagged /\ SuggestionIsUnknown

\* no-floating-promises reports the statements that may drop an unhandled promise, and no
\* others.
LostPromisesAreReported ==
  rule = "no-floating-promises" =>
    /\ FloatingPromises!TypeOK
    /\ FloatingPromises!NoPromiseFloats
    /\ FloatingPromises!ReportMeansLost

\* no-floating-promises has nothing to say about what it suggested.
SuggestionSettles == rule = "no-floating-promises" => FloatingPromises!SuggestionSettles
-----------------------------------------------------------------------------
\* A function that is to be async is async after the fix, as its message demands: the modifiers
\* of the text are in an order that the language has.  (They are not, after "export".)
FixMakesAsync ==
  Said("promise-function-async") => PromiseFunctions!FixMakesAsync(node.function, report)

\* A promise that has a rejection handler is not reported (it is, in parentheses).
HandledIsNotReported == rule = "no-floating-promises" => FloatingPromises!HandledIsNotReported

\* Every part of a comma expression is checked, in parentheses as well (it is not).
\* The comment at no_floating_promises.go:274-276: "Any child in a comma expression could return
\* a potentially unhandled promise, so we check them all".
EveryPartIsChecked == rule = "no-floating-promises" => FloatingPromises!EveryPartIsChecked

\* A default case is never superfluous where the type of a switch has a part that is no literal,
\* as the comment at switch_exhaustiveness_check.go:72-80 says of "foo" & { bar: 1 }.  (It is
\* called superfluous there: a part with a literal in it counts as a literal.)
DefaultOfNonLiteralsIsKept ==
  Said("switch-exhaustiveness-check") =>
    SwitchExhaustiveness!DefaultOfNonLiteralsIsKept(node.switch, report)
=============================================================================
