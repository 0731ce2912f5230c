---------------------------- MODULE RequireAwait ----------------------------
(***************************************************************************)
(* The rule require-await (internal/rules/require_await), driven by the    *)
(* walk of module AstWalk: the rule keeps a stack of scopes, one for each  *)
(* function the walk is in, and on leaving an async function reports it    *)
(* unless something in it needs the "async".                               *)
(***************************************************************************)
EXTENDS FunctionNodes

VARIABLES
  currentScope,      \* the scopes, innermost first
  functionsReported  \* the functions reported

\* The rule's state when a file is begun.
RequireAwaitInit == currentScope = << >> /\ functionsReported = {}

-----------------------------------------------------------------------------
(* What the listeners do to the scopes s. *)

\* checker.GetFunctionFlags, for a function with something in its body.
FunctionFlags(node) ==
  IF HasBody(node) /\ (Body(node).kind # Block \/ Body(node).kids # << >>)
  THEN node.is \cap {"async", "generator"}
  ELSE {}

EnterFunction(node, s) ==
  << [hasAwait |-> FALSE, isAsyncYield |-> FALSE, functionFlags |-> FunctionFlags(node)] >> \o s

MarkAsHasAwait(s) == IF s = << >> THEN s ELSE [s EXCEPT ![1].hasAwait = TRUE]

Async(scope) == "async" \in scope.functionFlags
Generator(scope) == "generator" \in scope.functionFlags

\* The listener of arrow functions: one whose body is a promise needs no await.
EnterArrowFunction(node, s) ==
  LET entered == EnterFunction(node, s)
      body == Body(node)
  IN  IF /\ Async(entered[1])
         /\ body.kind \notin {Block, AwaitExpression}
         /\ Has(body, "thenable")
      THEN MarkAsHasAwait(entered) ELSE entered

\* A yield in a generator of a promise, or (yield-star) of an async iterable.
YieldsAsync(node, s) ==
  /\ s # << >> /\ ~ s[1].isAsyncYield /\ Generator(s[1])
  /\ node.kids # << >> /\ ~ Has(node.kids[1], "literal")
  /\ Has(node.kids[1], IF Has(node, "delegates") THEN "asyncIterable" ELSE "thenable")

\* An async function that returns a promise.
ReturnsPromise(node, s) ==
  /\ s # << >> /\ ~ s[1].hasAwait /\ Async(s[1])
  /\ node.kids # << >> /\ Has(node.kids[1], "thenable")

\* Mutant: the scope of an async generator is let off without a look at it.
NoGeneratorMissing(scope) == Async(scope) /\ ~ scope.hasAwait /\ ~ Generator(scope)

\* The function being left is async and nothing in it needs that.
MissingAwait(scope) ==
  Async(scope) /\ ~ scope.hasAwait /\ ~ (Generator(scope) /\ scope.isAsyncYield)

-----------------------------------------------------------------------------
(* The listeners. *)

EnterFunctionListener ==
  /\ Calls(FunctionDeclaration)
  /\ currentScope' = EnterFunction(NodeAt(At), currentScope)
  /\ UNCHANGED functionsReported

EnterArrowFunctionListener ==
  /\ Calls(ArrowFunction)
  /\ currentScope' = EnterArrowFunction(NodeAt(At), currentScope)
  /\ UNCHANGED functionsReported

ExitFunctionListener ==
  /\ \E kind \in FunctionKinds : Calls(ListenerOnExit(kind))
  /\ functionsReported' =
       functionsReported \cup (IF MissingAwait(Head(currentScope)) THEN {At} ELSE {})
  /\ currentScope' = Tail(currentScope)

\* An await expression, a for-await loop, an await using declaration.
IsAwait(node) ==
  \/ node.kind = AwaitExpression
  \/ node.kind = ForOfStatement /\ Has(node, "awaitModifier")
  \/ node.kind = VariableDeclarationList /\ Has(node, "awaitUsing")

AwaitListener ==
  /\ \E kind \in {AwaitExpression, ForOfStatement, VariableDeclarationList} : Calls(kind)
  /\ currentScope' = IF IsAwait(NodeAt(At)) THEN MarkAsHasAwait(currentScope) ELSE currentScope
  /\ UNCHANGED functionsReported

YieldListener ==
  /\ Calls(YieldExpression)
  /\ currentScope' = IF YieldsAsync(NodeAt(At), currentScope)
                     THEN [currentScope EXCEPT ![1].isAsyncYield = TRUE]
                     ELSE currentScope
  /\ UNCHANGED functionsReported

ReturnListener ==
  /\ Calls(ReturnStatement)
  /\ currentScope' = IF ReturnsPromise(NodeAt(At), currentScope)
                     THEN MarkAsHasAwait(currentScope) ELSE currentScope
  /\ UNCHANGED functionsReported

ListenedTo ==
  FunctionKinds \cup { ListenerOnExit(kind) : kind \in FunctionKinds }
    \cup {AwaitExpression, ForOfStatement, VariableDeclarationList,
          YieldExpression, ReturnStatement}

NoRequireAwaitListener ==
  /\ RunListeners
  /\ Head(agenda).kind \notin ListenedTo
  /\ UNCHANGED <<currentScope, functionsReported>>

RequireAwaitNext ==
  \/ Visit /\ UNCHANGED <<currentScope, functionsReported>>
  \/ EnterFunctionListener
  \/ EnterArrowFunctionListener
  \/ ExitFunctionListener
  \/ AwaitListener
  \/ YieldListener
  \/ ReturnListener
  \/ NoRequireAwaitListener
-----------------------------------------------------------------------------
(* Properties. *)

\* Whatever listener of the rule is called next, the scopes are those of the functions
\* the node is in (for an exit listener, the function itself too), innermost first:
\* an exit listener never finds another function's scope, or none (which would be a
\* nil dereference).
ScopesAreFunctions ==
  agenda # << >> /\ Head(agenda).do = "run" /\ Head(agenda).kind \in ListenedTo =>
    LET exit == Head(agenda).kind \in { ListenerOnExit(k) : k \in FunctionKinds }
        open == FunctionsAround(At) \cup (IF exit THEN {Len(At)} ELSE {})
    IN  /\ Len(currentScope) = Cardinality(open)
        /\ \A n \in open :
             currentScope[Cardinality({ m \in open : m >= n })].functionFlags
               = FunctionFlags(NodeAt(Ancestor(At, n)))

\* The node at q, directly in the function at p, needs it to be async: it awaits, returns
\* a promise, is a promise that is the body (of an arrow function) or, in a generator,
\* yields one.
NeedsAsync(q, p) ==
  LET node == NodeAt(q)
      gives(what) == node.kids # << >> /\ Has(node.kids[1], what)
  IN  \/ IsAwait(node)
      \/ node.kind = ReturnStatement /\ gives("thenable")
      \/ /\ KindAt(p) = ArrowFunction /\ q = Append(p, 2)
         /\ node.kind # Block /\ Has(node, "thenable")
      \/ /\ "generator" \in FunctionFlags(NodeAt(p))
         /\ node.kind = YieldExpression
         /\ gives(IF Has(node, "delegates") THEN "asyncIterable" ELSE "thenable")

\* Of the functions the walk gets to see (not those in the name of a property of a
\* target) an async one with a body is reported just when nothing directly in it needs
\* it to be async; whatever stands in functions around it or within it, and in whatever
\* order.
FunctionReportsAreRight ==
  Done =>
    functionsReported =
      { p \in Visited :
          /\ KindAt(p) \in FunctionKinds
          /\ "async" \in FunctionFlags(NodeAt(p))
          /\ ~ \E q \in Visited : DirectlyIn(q, p) /\ NeedsAsync(q, p) }
=============================================================================
