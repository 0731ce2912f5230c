--------------------------- MODULE FunctionNodes ---------------------------
(***************************************************************************)
(* What the rules about functions see of a program, on top of AstWalk:     *)
(* more kinds of nodes, and attributes of nodes.  Nodes have one field     *)
(* more, the set "is" of what the rules ask about them; what they ask the  *)
(* type checker is part of it.  Parentheses are left out of the trees.     *)
(***************************************************************************)
EXTENDS AstWalk

FunctionDeclaration     == 20  \* any kind of function but arrow functions
ArrowFunction           == 21
Block                   == 22  \* the statements
AwaitExpression         == 23  \* the expression
YieldExpression         == 24  \* the argument, if there is one
ReturnStatement         == 25  \* the argument, if there is one
VariableDeclarationList == 26
ComputedPropertyName    == 27  \* the expression
ConditionalExpression   == 28  \* the condition and the two branches
TryStatement            == 29  \* the try block, the catch clause or the finally block or both
CatchClause             == 30  \* the block

FunctionKinds == {FunctionDeclaration, ArrowFunction}

\* The children of a function are its name or parameter and, unless it is an
\* overload or abstract, its body.
Body(function) == function.kids[2]
HasBody(function) == Len(function.kids) = 2

\* Of functions "async" and "generator"; of a for-of loop "awaitModifier"; of a
\* declaration list "using" and "awaitUsing"; of a yield "delegates" (yield*); of
\* an expression "literal", "thenable" (a part of its type is a promise or the like)
\* and "asyncIterable", and whether a value of its type is "always" to be awaited,
\* "may" be (any and unknown), or neither.
Has(node, what) == what \in node.is

\* Statements, and what stands in their place.  (Kinds without a name are expressions.)
StatementKinds == {ForOfStatement, Statement, Block, ReturnStatement, TryStatement, CatchClause}

\* What the parser builds: these kinds have the children listed above.
ASSUME FunctionsAssumption ==
  \A node \in Nodes :
    /\ node.kind \in FunctionKinds => Len(node.kids) \in 1 .. 2 /\ node.kids[1].kind # Block
    /\ node.kind = ArrowFunction => HasBody(node)
ASSUME TryAssumption ==
  \A node \in Nodes : node.kind = TryStatement =>
    [i \in DOMAIN node.kids |-> node.kids[i].kind]
      \in {<<Block, CatchClause>>, <<Block, Block>>, <<Block, CatchClause, Block>>}
\* A statement stands in another one, or is the block that a function has for its body.
\* (The static blocks of classes are left out of the trees.)
ASSUME StatementsAssumption ==
  \A node \in Nodes : \A i \in DOMAIN node.kids :
    /\ node.kids[i].kind # SourceFile
    /\ node.kids[i].kind \in StatementKinds =>
         \/ node.kind \in StatementKinds \cup {SourceFile}
         \/ node.kind \in FunctionKinds /\ i = 2 /\ node.kids[i].kind = Block
\* The types of literals: no promise, and nothing to iterate over asynchronously.
ASSUME LiteralsAssumption ==
  \A node \in Nodes :
    Has(node, "literal") => ~ Has(node, "thenable") /\ ~ Has(node, "asyncIterable")

\* A listener runs with the step of the walk that calls it.
At == Head(agenda).at
Calls(kind) == RunListeners /\ Head(agenda).kind = kind
-----------------------------------------------------------------------------
(* For the properties of the rules. *)

\* The node n steps below the source file on the way to a node.
Ancestor(at, n) == SubSeq(at, 1, n)

\* The lengths of the paths of the functions around a node.
FunctionsAround(at) == { n \in 0 .. Len(at) - 1 : KindAt(Ancestor(at, n)) \in FunctionKinds }

\* The function that a node is directly in.  (The computed name of a method counts as
\* part of the method, not of the function around it.)
Owner(at) == Ancestor(at, Max(FunctionsAround(at)))
DirectlyIn(at, p) == FunctionsAround(at) # {} /\ p = Owner(at)

\* The nodes visited so far.
Visited == { e.at : e \in { x \in Range(events) : x.kind = KindAt(x.at) } }
=============================================================================
