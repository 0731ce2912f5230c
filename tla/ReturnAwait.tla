----------------------------- MODULE ReturnAwait -----------------------------
(***************************************************************************)
(* The rule return-await (internal/rules/return_await), driven by the walk *)
(* of module AstWalk: whether what a function returns should be awaited    *)
(* there depends on the try statements and the using declarations around   *)
(* it in that function.                                                    *)
(***************************************************************************)
EXTENDS FunctionNodes

Options == {"Always", "ErrorHandlingCorrectnessOnly", "InTryCatch", "Never"}

VARIABLES
  option,   \* opts.Option
  scope,    \* the functions the walk is in, innermost first: [hasAsync, owningFunc]
  returnsReported  \* the reports: [at, id, autoFix]

\* The rule's state when a file is begun.
ReturnAwaitInit == option \in Options /\ scope = << >> /\ returnsReported = {}

-----------------------------------------------------------------------------
(* Where a node stands.  Nodes are named by their paths. *)

\* findContainingTryStatement: the length of the path of the nearest try statement
\* around a node in its function, or -1.
FindContainingTryStatement(at) ==
  LET reached == { n \in 0 .. Len(at) - 1 :
                     \A k \in n .. Len(at) - 1 : KindAt(Ancestor(at, k)) \notin FunctionKinds }
  IN  Max({-1} \cup { n \in reached : KindAt(Ancestor(at, n)) = TryStatement })

HasFinally(statement) == Len(statement.kids) > 1 /\ Last(statement.kids).kind = Block

\* Mutant: a catch clause is looked upon as a finally block.
NotInCatch(at) ==
  LET Affects[n \in 0 .. Len(at)] ==
        LET try == FindContainingTryStatement(Ancestor(at, n)) IN
        /\ try # -1
        /\ at[try + 1] = 1 \/ Affects[try]
  IN  Affects[Len(at)]

\* From the inside outwards: an exception thrown in a try block is noticed, and
\* one in a catch clause if a finally block follows; otherwise what is around the
\* try statement decides.
AffectsExplicitErrorHandling(at) ==
  LET Affects[n \in 0 .. Len(at)] ==
        LET try == FindContainingTryStatement(Ancestor(at, n))
            statement == NodeAt(Ancestor(at, try))
            child == statement.kids[at[try + 1]]
        IN  /\ try # -1
            /\ \/ at[try + 1] = 1
               \/ child.kind = CatchClause /\ HasFinally(statement)
               \/ Affects[try]
  IN  Affects[Len(at)]

\* The statements whose declarations are locals of a block scope container.  (Loops,
\* whose heads may declare variables with using too, are left out of the trees.)
LocalStatements(at) ==
  LET node == NodeAt(at)
      Of(block, p) == { Append(p, i) : i \in DOMAIN block.kids }
  IN  CASE node.kind = Block -> Of(node, at)
        [] node.kind \in FunctionKinds /\ Body(node).kind = Block ->
             Of(Body(node), Append(at, 2))
        [] OTHER -> {}

\* ast.GetEnclosingBlockScopeContainer: the body of a function is part of it.
IsBlockScopeContainer(at) ==
  \/ KindAt(at) \in FunctionKinds \cup {CatchClause, SourceFile}
  \/ KindAt(at) = Block /\ KindAt(Front(at)) \notin FunctionKinds

\* Paths in the order in which their nodes start.
Before(p, q) ==
  \E n \in 1 .. Min({Len(p), Len(q)}) :
    p[n] < q[n] /\ \A k \in 1 .. n - 1 : p[k] = q[k]

DeclaresResource(node) ==
  node.kind = VariableDeclarationList /\ (Has(node, "using") \/ Has(node, "awaitUsing"))

\* A container around the node, up to the function, has a using declaration that
\* comes before the node.
AffectsExplicitResourceManagement(at) ==
  LET owner == Head(scope).owningFunc IN
  /\ Body(NodeAt(owner)).kind = Block
  /\ \E n \in Len(owner) .. Len(at) - 1 :
       /\ IsBlockScopeContainer(Ancestor(at, n))
       /\ \E p \in LocalStatements(Ancestor(at, n)) :
            DeclaresResource(NodeAt(p)) /\ Before(p, at)

GetWhetherToAwait(affectsErrorHandling) ==
  CASE option = "Always" -> "Await"
    [] option = "ErrorHandlingCorrectnessOnly" ->
         IF affectsErrorHandling THEN "Await" ELSE "DontCare"
    [] option = "InTryCatch" -> IF affectsErrorHandling THEN "Await" ELSE "NoAwait"
    [] option = "Never" -> "NoAwait"

\* test: what is reported for a node that may be returned.
Test(at) ==
  LET node == NodeAt(at)
      isAwait == node.kind = AwaitExpression
      child == IF isAwait THEN node.kids[1] ELSE node
      affects == AffectsExplicitErrorHandling(at) \/ AffectsExplicitResourceManagement(at)
      whether == GetWhetherToAwait(affects)
      Of(id, autoFix) == {[at |-> at, id |-> id, autoFix |-> autoFix]}
  IN  CASE ~ Has(child, "always") /\ isAwait /\ ~ Has(child, "may") ->
             Of("nonPromiseAwait", TRUE)
        [] Has(child, "always") /\ whether = "Await" /\ ~ isAwait ->
             Of("requiredPromiseAwait", ~ affects)
        [] Has(child, "always") /\ whether = "NoAwait" /\ isAwait ->
             Of("disallowedPromiseAwait", ~ affects)
        [] OTHER -> {}

\* testEachPossiblyReturnedNode: the branches of conditional expressions.
PossiblyReturned(at) ==
  { q \in Paths :
      /\ IsPrefix(at, q) /\ KindAt(q) # ConditionalExpression
      /\ \A n \in Len(at) .. Len(q) - 1 :
           KindAt(Ancestor(q, n)) = ConditionalExpression /\ q[n + 1] \in {2, 3} }

TestEachPossiblyReturnedNode(at) == UNION { Test(q) : q \in PossiblyReturned(at) }

-----------------------------------------------------------------------------
(* The listeners. *)

EnterOwnerListener ==
  /\ \E kind \in FunctionKinds : Calls(kind)
  /\ scope' = <<[hasAsync |-> Has(NodeAt(At), "async"), owningFunc |-> At]>> \o scope
  /\ UNCHANGED <<option, returnsReported>>

LeaveOwnerListener ==
  /\ Calls(ListenerOnExit(FunctionDeclaration))
  /\ scope' = Tail(scope)
  /\ UNCHANGED <<option, returnsReported>>

\* An arrow function whose body is an expression returns it.
LeaveArrowFunctionListener ==
  /\ Calls(ListenerOnExit(ArrowFunction))
  /\ returnsReported' = IF Body(NodeAt(At)).kind = Block THEN returnsReported
                         ELSE returnsReported \cup TestEachPossiblyReturnedNode(Append(At, 2))
  /\ scope' = Tail(scope)
  /\ UNCHANGED option

ReturnedListener ==
  /\ Calls(ReturnStatement)
  /\ returnsReported' =
       IF scope = << >> \/ ~ scope[1].hasAsync \/ NodeAt(At).kids = << >> THEN returnsReported
       ELSE returnsReported \cup TestEachPossiblyReturnedNode(Append(At, 1))
  /\ UNCHANGED <<option, scope>>

NoReturnAwaitListener ==
  /\ RunListeners
  /\ Head(agenda).kind \notin
       FunctionKinds \cup { ListenerOnExit(kind) : kind \in FunctionKinds } \cup {ReturnStatement}
  /\ UNCHANGED <<option, scope, returnsReported>>

ReturnAwaitNext ==
  \/ Visit /\ UNCHANGED <<option, scope, returnsReported>>
  \/ EnterOwnerListener
  \/ LeaveOwnerListener
  \/ LeaveArrowFunctionListener
  \/ ReturnedListener
  \/ NoReturnAwaitListener
-----------------------------------------------------------------------------
(* Properties. *)

\* The stack of scopes is that of the functions around the place of the walk, so
\* that a return statement is judged by its own function.
ScopeOwnsReturn ==
  agenda # << >> /\ Head(agenda).do = "run" /\ Head(agenda).kind = ReturnStatement =>
    /\ Len(scope) = Cardinality(FunctionsAround(At))
    /\ scope # << >> => scope[1].owningFunc = Owner(At)

\* What the code of the function still does after an exception at a node: the
\* catch clauses and finally blocks that run, and the resources that are disposed
\* of (those declared before the node in a block around it).
CodeAfter(at) ==
  LET inside == { n \in Max(FunctionsAround(at)) + 1 .. Len(at) - 1 : TRUE } IN
  \E n \in inside :
    LET node == NodeAt(Ancestor(at, n))
        child == node.kids[at[n + 1]]
    IN  \/ /\ node.kind = TryStatement
           /\ \E i \in at[n + 1] + 1 .. Len(node.kids) : TRUE
        \/ /\ node.kind = Block
           /\ \E i \in 1 .. at[n + 1] - 1 : DeclaresResource(node.kids[i])

\* What a function returns: the expressions of its return statements, or its body,
\* through the branches of conditional expressions.
Returning ==
  { p \in Visited : /\ KindAt(p) = ReturnStatement /\ NodeAt(p).kids # << >>
                    /\ FunctionsAround(p) # {} /\ Has(NodeAt(Owner(p)), "async") }
ReturningArrows ==
  { p \in Visited : KindAt(p) = ArrowFunction /\ Body(NodeAt(p)).kind # Block }

ReturnedNodes ==
  (UNION { PossiblyReturned(Append(p, 1)) : p \in Returning })
    \cup (UNION { PossiblyReturned(Append(p, 2)) : p \in ReturningArrows })

\* When the walk is done exactly the following is reported of a returned node: an
\* awaited value that is no promise; a promise that is not awaited, with the
\* option "always", or where awaiting it matters for code of the function that
\* runs afterwards; an awaited promise where the options do not want it.  It is
\* fixed without being asked for only where this cannot change what runs.
\* (A promise returned by an arrow function that is not async is reported too
\* when the option is "always", though it cannot be awaited there.)
ReturnReportsAreRight ==
  Done =>
    returnsReported =
      { [at |-> q, id |-> "nonPromiseAwait", autoFix |-> TRUE] :
          q \in { r \in ReturnedNodes :
                    /\ KindAt(r) = AwaitExpression
                    /\ ~ Has(NodeAt(r).kids[1], "always") /\ ~ Has(NodeAt(r).kids[1], "may") } }
      \cup
      { [at |-> q, id |-> "requiredPromiseAwait", autoFix |-> ~ CodeAfter(q)] :
          q \in { r \in ReturnedNodes :
                    /\ KindAt(r) # AwaitExpression /\ Has(NodeAt(r), "always")
                    /\ option = "Always" \/ (option # "Never" /\ CodeAfter(r)) } }
      \cup
      { [at |-> q, id |-> "disallowedPromiseAwait", autoFix |-> ~ CodeAfter(q)] :
          q \in { r \in ReturnedNodes :
                    /\ KindAt(r) = AwaitExpression /\ Has(NodeAt(r).kids[1], "always")
                    /\ option = "Never" \/ (option = "InTryCatch" /\ ~ CodeAfter(r)) } }
=============================================================================
