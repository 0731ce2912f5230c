------------------------- MODULE NoMisusedPromises -------------------------
(***************************************************************************)
(* The rule no-misused-promises.                                           *)
(*                                                                         *)
(* A type is the set of its union parts; a part is the set of its call     *)
(* signatures, each the set of the kinds of what it may return: "void",    *)
(* "thenable" or "other".  What is no function is {{}}.                    *)
(***************************************************************************)
EXTENDS Integers, Sequences, FiniteSets, SequencesExt

Signatures(type) == UNION type

\* returnsThenable, isThenableReturningFunctionType
returnsThenable(type) == \E sig \in Signatures(type) : "thenable" \in sig

\* Mutant: a thenable that is returned somewhere else does not count.
VoidOfSomeSignature(type) == \E sig \in Signatures(type) : "void" \in sig /\ "thenable" \notin sig

isVoidReturningFunctionType(type) ==
  /\ ~ returnsThenable(type)
  /\ \E sig \in Signatures(type) : "void" \in sig
-----------------------------------------------------------------------------
(* Conditions.  An expression is a tree [op, parts]; a node is named by the way to it  *)
(* from the root.  The op "assign" stands for all assignments, "test" for a statement  *)
(* or a conditional expression with its condition, "not" for the operator !.           *)

Logical == {"&&", "||", "??"}

RECURSIVE At(_, _), AlwaysThenable(_), Listened(_, _, _)
At(tree, way) == IF way = << >> THEN tree ELSE At(tree.parts[Head(way)], Tail(way))

\* isAlwaysThenable, of the type of an expression (a comma has that of its last part)
AlwaysThenable(tree) ==
  CASE tree.op \in {"paren", "comma", "assign"} -> AlwaysThenable(Last(tree.parts))
    [] OTHER -> tree.op = "promise"

RECURSIVE skipParentheses(_, _)
skipParentheses(tree, way) ==
  IF At(tree, way).op = "paren" THEN skipParentheses(tree, Append(way, 1)) ELSE way

\* checkConditional: a node is remembered before its parentheses are skipped.
RECURSIVE checkConditional(_, _, _, _)
checkConditional(tree, way, isTest, s) ==
  IF At(tree, way).op = "assign" \/ way \in s.checked THEN s
  ELSE LET inner == skipParentheses(tree, way)
           node == At(tree, inner)
           marked == [s EXCEPT !.checked = @ \cup {way}]
           left == IF node.op # "??" \/ isTest
                   THEN checkConditional(tree, Append(inner, 1), isTest, marked) ELSE marked
       IN  CASE node.op \in Logical /\ isTest -> checkConditional(tree, Append(inner, 2), isTest, left)
             [] node.op \in Logical /\ ~ isTest -> left
             [] node.op \notin Logical /\ AlwaysThenable(node) ->
                  [marked EXCEPT !.reports = Append(@, inner)]
             [] OTHER -> marked

\* The listeners, in the order of the walk: a node before its parts.
Listened(tree, way, s) ==
  LET node == At(tree, way)
      here == CASE node.op \in Logical \cup {"comma", "assign"} -> checkConditional(tree, way, FALSE, s)
                [] node.op \in {"test", "not"} -> checkConditional(tree, Append(way, 1), TRUE, s)
                [] OTHER -> s
  IN  FoldLeftDomain(LAMBDA t, i : Listened(tree, Append(way, i), t), here, node.parts)

CheckedFromNothing == [checked |-> {}, reports |-> << >>]

\* Each report with its place among them.
ConditionReports(tree) ==
  LET reports == Listened(tree, << >>, CheckedFromNothing).reports
  IN  { <<i, reports[i]>> : i \in DOMAIN reports }

\* What decides a condition: the test itself, all operands of its logical operators, and
\* out of a test the left of && and ||; no assignment, unless it is in parentheses.
RECURSIVE InTest(_, _), IsLeft(_, _)
InTest(tree, way) ==
  way # << >> /\ LET up == At(tree, Front(way)).op IN
    (up \in {"test", "not"} \/ (up \in Logical \cup {"paren"} /\ InTest(tree, Front(way))))

IsLeft(tree, way) ==
  way # << >> /\ LET up == At(tree, Front(way)).op IN
    ((up \in {"&&", "||"} /\ Last(way) = 1) \/ (up = "paren" /\ IsLeft(tree, Front(way))))

Decides(tree, way) == InTest(tree, way) \/ IsLeft(tree, way)

RECURSIVE Ways(_)
Ways(tree) == {<< >>} \cup UNION { { <<i>> \o w : w \in Ways(tree.parts[i]) } : i \in DOMAIN tree.parts }

ConditionsOf(tree) ==
  { w \in Ways(tree) : /\ Decides(tree, w) /\ AlwaysThenable(At(tree, w))
                       /\ At(tree, w).op # "paren"
                       /\ At(tree, w).op = "assign" => At(tree, Front(w)).op = "paren" }

\* Each promise that decides a condition is reported once, and no other node is, with two
\* exceptions for commas: the listener of binary expressions has a comma reported wherever
\* it stands, and a second time when it is a condition in parentheses, because what is
\* remembered then is the parentheses (the set is there "to prevent checking the same node
\* multiple times", as line 231 has it).
ConditionsAreReportedOnce(tree, reports) ==
  LET conditions == ConditionsOf(tree)
      Times(way) == Cardinality({ r \in reports : r[2] = way })
      IsComma(way) == At(tree, way).op = "comma"
      InParentheses(way) == way # << >> /\ At(tree, Front(way)).op = "paren"
  IN  \A way \in Ways(tree) :
        CASE IsComma(way) /\ way \in conditions /\ InParentheses(way) -> Times(way) = 2
          [] IsComma(way) /\ way \notin conditions /\ AlwaysThenable(At(tree, way)) -> Times(way) = 1
          [] OTHER -> Times(way) = IF way \in conditions THEN 1 ELSE 0
-----------------------------------------------------------------------------
(* Arguments.  A call has its arguments' types, the overloads of its callee and the one *)
(* that the checker resolved it to, which gives the contextual types.  A parameter is   *)
(* [rest, types]: it is no rest, or a rest that is an array or a tuple of these types.   *)

MaxOf(a, b) == IF a > b THEN a ELSE b
MinOf(a, b) == IF a < b THEN a ELSE b

\* The types that an overload gives to arguments, in the order in which they are checked.
ParameterTypes(overload, n) ==
  LET Given(i) ==
        CASE overload[i].rest = "none" -> <<[index |-> i, type |-> overload[i].types[1]]>>
          [] overload[i].rest = "array" ->
               [k \in 1 .. MaxOf(0, n - i + 1) |-> [index |-> i + k - 1, type |-> overload[i].types[1]]]
          [] overload[i].rest = "tuple" ->
               [k \in 1 .. MaxOf(0, MinOf(n - i + 1, Len(overload[i].types))) |->
                  [index |-> i + k - 1, type |-> overload[i].types[k]]]
  IN  FlattenSeq([i \in DOMAIN overload |-> Given(i)])

\* checkThenableOrVoidArgument, for one of the two types
Sorted(s, given) ==
  CASE returnsThenable(given.type) -> [s EXCEPT !.thenable = Append(@, given.index)]
    [] isVoidReturningFunctionType(given.type) /\ ~ Contains(s.thenable, given.index) ->
         [s EXCEPT !.void = Append(@, given.index)]
    [] OTHER -> s

\* After a type that an overload gives comes the contextual type, when it is another.
Considered(call) ==
  LET n == Len(call.arguments)
      contextual == ParameterTypes(call.overloads[call.resolved], n)
      Both(o, given) ==
        IF o = call.resolved THEN <<given>>
        ELSE <<given>> \o SelectSeq(contextual, LAMBDA c : c.index = given.index)
      Of(o) == LET types == ParameterTypes(call.overloads[o], n)
               IN  FlattenSeq([i \in DOMAIN types |-> Both(o, types[i])])
  IN  FlattenSeq([o \in DOMAIN call.overloads |-> Of(o)])

\* Mutant: what is thenable in another overload is not taken out.
VoidFunctionArgumentsLeft(call) ==
  ToSet(FoldLeft(Sorted, [thenable |-> << >>, void |-> << >>], Considered(call)).void)

voidFunctionArguments(call) ==
  LET lists == FoldLeft(Sorted, [thenable |-> << >>, void |-> << >>], Considered(call))
  IN  ToSet(FoldLeft(RemoveFirst, lists.void, lists.thenable))

ArgumentReports(call) ==
  { i \in DOMAIN call.arguments : i \in voidFunctionArguments(call) /\ returnsThenable(call.arguments[i]) }

\* The types that some overload has for an argument.
Expected(call, i) ==
  { given.type : given \in { g \in UNION { ToSet(ParameterTypes(overload, Len(call.arguments))) :
                                           overload \in ToSet(call.overloads) } : g.index = i } }

\* An argument that returns a promise, where some overload takes a function without result.
Suspicious(call, i) ==
  /\ returnsThenable(call.arguments[i])
  /\ \E type \in Expected(call, i) : \E sig \in Signatures(type) : "void" \in sig

ThenableIsExpected(call, i) == \E type \in Expected(call, i) : returnsThenable(type)

\* A place is taken out of the void ones once for each time it was found thenable, but it
\* may have got in more often: once for each overload without result before the first with
\* a promise there and, when the call was resolved to one without result, once more for
\* each of the others.
VoidsOutnumber(call, i) ==
  LET TypesOf(o) == { g.type : g \in { t \in ToSet(ParameterTypes(call.overloads[o], Len(call.arguments))) : t.index = i } }
      having == { o \in DOMAIN call.overloads : TypesOf(o) # {} }
      promising == { o \in having : \E t \in TypesOf(o) : returnsThenable(t) }
      silent == { o \in having \ promising : \E t \in TypesOf(o) : \E sig \in Signatures(t) : "void" \in sig }
      Before(S) == { o \in S : \A p \in promising : o < p }
  IN  /\ call.resolved \notin promising
      /\ Cardinality(Before(silent))
           + (IF call.resolved \in silent THEN Cardinality(Before(having) \ {call.resolved}) ELSE 0)
           > Cardinality(promising)

\* An argument is reported iff it returns a promise, and of the overloads some take a
\* function without result in its place and none takes one that returns a promise; or some
\* do, but those without result outnumber them.  ("If a certain argument accepts both thenable
\* and void returns, a promise-returning function is valid", no_misused_promises.go:364-365: it
\* is reported all the same when they do, as when a call was resolved to the first of two
\* overloads without result, before one with a promise.)
VoidArgumentsAreReported(call, reports) ==
  reports = { i \in DOMAIN call.arguments :
                Suspicious(call, i) /\ (ThenableIsExpected(call, i) => VoidsOutnumber(call, i)) }
-----------------------------------------------------------------------------
(* Functions that get into a place with a type.  A place has the type that is expected   *)
(* there, or NoType, and the type of what is put there.                                   *)

PossiblyFunctionKinds ==
  {"ConditionalType", "ConstructorType", "FunctionType", "ImportType", "IndexedAccessType", "InferType",
   "IntersectionType", "QualifiedName", "ThisType", "TypeOperator", "TypeQuery", "TypeReference",
   "UnionType"}

\* A literal type is "TypeLiteral" when it has a signature to call.
isPossiblyFunctionType(annotation) == annotation \in PossiblyFunctionKinds \cup {"TypeLiteral"}

Misused(place) == isVoidReturningFunctionType(place.expected) /\ returnsThenable(place.value)

\* checkJSXAttribute, checkProperty, checkReturnStatement, checkAssignment and
\* checkVariableDeclaration; a function is reported at its return type, if it has one.
PlaceReports(place) ==
  LET report == IF place.kind \in {"property", "method"} /\ place.annotated THEN {"returnType"} ELSE {"value"}
      looks ==
        CASE place.kind = "method" -> ~ place.computed
          [] place.kind = "return" -> place.annotation = "none" \/ isPossiblyFunctionType(place.annotation)
          [] place.kind = "variable" -> isPossiblyFunctionType(place.annotation)
          [] OTHER -> TRUE
  IN  CASE place.kind = "return" /\ ~ place.inFunction -> {"panic"}
        [] OTHER -> IF looks /\ Misused(place) THEN report ELSE {}

\* A function without result is expected, and none that returns a promise.
ExpectsNothing(type) ==
  (\E sig \in Signatures(type) : "void" \in sig) /\ \A sig \in Signatures(type) : "thenable" \notin sig

\* Wherever a function that returns a promise is put, something is reported iff none is
\* expected, but never when the type that is written there is in parentheses, nor for a
\* method with a computed name.  A return out of any function ends the process.
PlaceIsReported(place, reports) ==
  LET passedOver == place.annotation = "ParenthesizedType" \/ place.computed
      nowhere == place.kind = "return" /\ ~ place.inFunction
  IN  /\ (reports = {"panic"}) <=> nowhere
      /\ ~ nowhere => (reports # {} <=>
           ~ passedOver /\ ExpectsNothing(place.expected) /\ returnsThenable(place.value))

\* checkClassLikeOrInterfaceNode: the members that override one without result, with the
\* heritage types that have it.  A member is [name, computed, static, type]; name is "none"
\* for a signature without name.
HeritageReports(class) ==
  { <<i, h>> \in (DOMAIN class.members) \X (DOMAIN class.heritage) :
      LET member == class.members[i] IN
      /\ member.name # "none" /\ ~ member.computed /\ ~ member.static /\ returnsThenable(member.type)
      /\ member.name \in DOMAIN class.heritage[h]
      /\ isVoidReturningFunctionType(class.heritage[h][member.name]) }

\* In an instance seen as one of its heritage types, a method that returns a promise is
\* reported iff that type's users do not expect one and its name is not computed.
HeritageIsReported(class, reports) ==
  LET Own(name) == { i \in DOMAIN class.members : class.members[i].name = name /\ ~ class.members[i].static }
  IN  \A h \in DOMAIN class.heritage : \A name \in DOMAIN class.heritage[h] :
        { i \in Own(name) : <<i, h>> \in reports } =
        { i \in Own(name) : /\ ExpectsNothing(class.heritage[h][name])
                            /\ returnsThenable(class.members[i].type)
                            /\ ~ class.members[i].computed }
=============================================================================
