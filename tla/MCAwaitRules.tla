---------------------------- MODULE MCAwaitRules ----------------------------
(***************************************************************************)
(* Programs for the walk and the two rules that listen to it:              *)
(*                                                                         *)
(*  - for the walk, an expression statement or a for-of loop around the    *)
(*    expressions built in two rounds, from an identifier, by array and    *)
(*    object literals, spreads, property assignments, "=" and "+=";        *)
(*  - for require-await, a function around a statement, or around a nested *)
(*    function with a statement before or after it;                        *)
(*  - for return-await, a return statement within up to two layers of try  *)
(*    statements, blocks with using declarations and nested functions, and *)
(*    arrow functions with an expression for a body.                       *)
(***************************************************************************)
EXTENDS AwaitRules

Node(kind, kids, is) == [kind |-> kind, kids |-> kids, is |-> is]
Other(kind, kids) == Node(kind, kids, {})
Name(is) == Node(Identifier, << >>, is)
Plain == Name({})
Id == Plain
Do(e) == Other(Statement, <<e>>)
BlockOf(statements) == Other(Block, statements)
Function(is, name, body) == Node(FunctionDeclaration, <<name, body>>, is)
Arrow(is, body) == Node(ArrowFunction, <<Plain, body>>, is)
Awaited(e) == Other(AwaitExpression, <<e>>)

-----------------------------------------------------------------------------
(* The walk. *)

\* The expressions made of one operator and expressions of the sets L and R.
ExpressionsOver(L, R) ==
  LET Binary(l, op, r) == Other(BinaryExpression, <<l, Other(op, << >>), r>>)
      Property(name, e) == Other(ObjectLiteral, <<Other(PropertyAssignment, <<name, e>>)>>)
  IN  { Other(ArrayLiteral, <<e>>) : e \in L }
      \cup { Other(ArrayLiteral, <<Id, Other(SpreadElement, <<e>>)>>) : e \in L }
      \cup { Other(ObjectLiteral, <<Other(SpreadAssignment, <<e>>)>>) : e \in L }
      \cup { Property(name, e) : name \in R, e \in L }
      \cup { Binary(l, op, r) : l \in L, op \in {EqualsToken, PlusEqualsToken}, r \in R }

ExpressionsWithin[n \in Nat] ==
  IF n = 0 THEN {Id}
  ELSE LET smaller == ExpressionsWithin[n - 1] IN
       smaller \cup ExpressionsOver(smaller, {Id, Other(ArrayLiteral, <<Id>>)})

WalkAsts ==
  { Do(e) : e \in ExpressionsWithin[2] }
    \cup { Other(ForOfStatement, <<e, Id, Do(Id)>>) : e \in ExpressionsWithin[1] }
    \cup { Do(Other(BinaryExpression, <<e, Other(EqualsToken, << >>), Id>>)) : e \in ExpressionsWithin[2] }

-----------------------------------------------------------------------------
(* require-await. *)

Thenable == Name({"thenable"})
Await == Awaited(Thenable)
Computed == Other(ComputedPropertyName, <<Await>>)
Yield(kids, is) == Do(Node(YieldExpression, kids, is))

Yields ==
  { Yield(kids, is) :
      kids \in { << >>, <<Plain>>, <<Thenable>>, <<Name({"asyncIterable"})>>,
                 <<Name({"literal"})>> },
      is \in { {}, {"delegates"} } }

\* ({ [await x]: y } = z)
Target ==
  LET pattern == Other(ObjectLiteral, <<Other(PropertyAssignment, <<Computed, Plain>>)>>)
  IN  Do(Other(BinaryExpression, <<pattern, Other(EqualsToken, << >>), Plain>>))

PlainStatements ==
  {Do(Await), Target}
    \cup { Other(ReturnStatement, kids) : kids \in { << >>, <<Plain>>, <<Thenable>> } }
    \cup { Node(VariableDeclarationList, << >>, is) : is \in { {}, {"awaitUsing"} } }
    \cup { Node(ForOfStatement, <<Plain, Plain, Do(Plain)>>, is) : is \in { {}, {"awaitModifier"} } }
    \cup Yields

NestedFunctions ==
  { Function(is, name, BlockOf(body)) :
      is \in { {}, {"async"}, {"async", "generator"} }, name \in {Plain, Computed},
      body \in { << >>, <<Do(Plain)>>, <<Do(Await)>>, <<Yield(<<Thenable>>, {})>> } }
    \cup { Do(Arrow(is, body)) :
              is \in { {}, {"async"} },
              body \in {Plain, Thenable, Await, BlockOf(<< >>), BlockOf(<<Do(Await)>>)} }
    \cup { Other(FunctionDeclaration, <<Plain>>) }

SomeStatements == {Do(Plain), Do(Await), Other(ReturnStatement, <<Thenable>>), Yield(<<Thenable>>, {})}

RequireAwaitAsts ==
  LET Pairs == { <<f, s>> : f \in NestedFunctions, s \in SomeStatements }
                 \cup { <<s, f>> : f \in NestedFunctions, s \in SomeStatements }
  IN  { Function(is, Plain, BlockOf(body)) :
          is \in SUBSET {"async", "generator"}, body \in Pairs \cup { <<t>> : t \in PlainStatements } }
        \cup PlainStatements

-----------------------------------------------------------------------------
(* return-await. *)

Promise == Name({"always"})
If(e, f) == Other(ConditionalExpression, <<Plain, e, f>>)

Returnable ==
  {Promise, Awaited(Promise), Awaited(Plain), Awaited(Name({"may"})), If(Promise, Plain),
   If(Awaited(Promise), If(Name({"may"}), Promise))}

Using == Node(VariableDeclarationList, << >>, {"using"})
Catch(block) == Other(CatchClause, <<block>>)
Try(kids) == Other(TryStatement, kids)

\* One layer around statement s.
Layers(s) ==
  LET b == BlockOf(<<s>>)
      e == BlockOf(<< >>)
  IN  { Try(<<b, Catch(e)>>), Try(<<b, e>>), Try(<<b, Catch(e), e>>),
        Try(<<e, Catch(b)>>), Try(<<e, Catch(b), e>>), Try(<<e, b>>), Try(<<e, Catch(e), b>>),
        BlockOf(<<Arrow({"async"}, Promise), s>>), BlockOf(<<Using, s>>), BlockOf(<<s, Using>>),
        BlockOf(<<BlockOf(<<Using>>), s>>), Function({"async"}, Plain, b), Arrow({}, b) }

ReturnAwaitAsts ==
  LET Return_(e) == Other(ReturnStatement, <<e>>)
      all == { Return_(e) : e \in Returnable } \cup {Other(ReturnStatement, << >>)}
      one == all \cup UNION { Layers(s) : s \in all }
      two == UNION { Layers(t) : t \in UNION { Layers(Return_(e)) : e \in {Promise, Awaited(Promise)} } }
  IN  { Function({"async"}, Plain, BlockOf(<<s>>)) : s \in one \cup two }
        \cup { Function({}, Plain, BlockOf(<<s>>)) : s \in one }
        \cup { Function({"async"}, Plain, BlockOf(<<Using, s>>)) : s \in one }
        \cup { Function({"async"}, Plain, BlockOf(<<Try(<<BlockOf(<<Arrow({"async"}, e)>>), BlockOf(<< >>)>>)>>)) :
                  e \in Returnable }
        \cup { Arrow(is, e) : is \in { {}, {"async"} }, e \in Returnable }

MCAsts == { Other(SourceFile, <<s>>) : s \in WalkAsts \cup RequireAwaitAsts \cup ReturnAwaitAsts }

\* A node has three children at most.
KidsOf(nodes) == { p[1].kids[p[2]] : p \in { q \in nodes \X (1 .. 3) : q[2] \in DOMAIN q[1].kids } }

NodesWithin[n \in Nat] ==
  IF n = 0 THEN MCAsts
  ELSE LET above == NodesWithin[n - 1] IN above \cup KidsOf(above)
\* (TLC keeps the value of a definition, but not of one that it takes for a constant.)
AllNodes == NodesWithin[MaxDepth]
MCNodes == AllNodes
=============================================================================
