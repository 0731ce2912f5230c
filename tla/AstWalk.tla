------------------------------ MODULE AstWalk ------------------------------
(***************************************************************************)
(* The walk of a file's syntax tree in RunLinter: childVisitor,            *)
(* patternVisitor and the listener kinds of internal/rule/rule.go.         *)
(*                                                                         *)
(* The recursion is modelled by an agenda: the visits and the runs of      *)
(* listeners still to do.  A visit is replaced by what its body does, and  *)
(* a run is recorded in "events", the calls runListeners gets; what a      *)
(* worker of LintPipeline knows of a file, Nodes[f], is the sequence of    *)
(* kinds of these calls.                                                   *)
(*                                                                         *)
(* A node is a record of its kind and children; a node is named by its     *)
(* path from the source file (the sequence of child indexes).  The kinds   *)
(* are those the visitors tell apart and a few others.                     *)
(***************************************************************************)
EXTENDS Integers, SequencesExt

CONSTANTS
  Nodes,    \* the nodes there are
  Asts,     \* the source files' trees: their nodes for the whole file
  MaxDepth  \* bound on the depth of these trees

\* Kinds.  The children of the kinds below, in order:
Identifier         == 1
ArrayLiteral       == 2   \* the elements
ObjectLiteral      == 3   \* the properties
SpreadElement      == 4   \* the expression
SpreadAssignment   == 5   \* the expression
PropertyAssignment == 6   \* the name and the initializer
BinaryExpression   == 7   \* the left side, the operator token, the right side
EqualsToken        == 8
PlusEqualsToken    == 9
ForOfStatement     == 10  \* the initializer, the expression, the statement
Statement          == 11  \* (any other node)
SourceFile         == 12  \* the statements

Literals == {ArrayLiteral, ObjectLiteral}

ASSUME MaxDepthAssumption == MaxDepth \in Nat
ASSUME AstsAssumption == Asts \subseteq Nodes /\ \A ast \in Asts : ast.kind = SourceFile
\* There is room for the kinds below the offsets of rule.go (lastTokenKind is 1000).
ASSUME NodesAssumption ==
  \A node \in Nodes : node.kind \in 1 .. 999 /\ node.kids \in Seq(Nodes)
\* What the parser builds: these kinds have the children listed above.
ASSUME ArityAssumption ==
  \A node \in Nodes :
    /\ node.kind \in {SpreadElement, SpreadAssignment} => Len(node.kids) = 1
    /\ node.kind = PropertyAssignment => Len(node.kids) = 2
    /\ node.kind = BinaryExpression => Len(node.kids) = 3

VARIABLES
  ast,     \* the tree being walked
  agenda,  \* what is still to do, in order
  events   \* the calls of runListeners so far: [kind, at]

vars == <<ast, agenda, events>>

-----------------------------------------------------------------------------
(* rule.go: the kinds listeners register for. *)

ListenerOnExit(kind) == kind + 1000

ListenerOnAllowPattern(kind) == kind + 2000
ListenerOnNotAllowPattern(kind) == kind + 4000

-----------------------------------------------------------------------------
(* The visitors of linter.go. *)

Run(kind, at)         == [do |-> "run", kind |-> kind, at |-> at]
Child(node, at)       == [do |-> "child", node |-> node, at |-> at]
Pattern(node, at)     == [do |-> "pattern", node |-> node, at |-> at]
ChildAt(node, at, i)   == Child(node.kids[i], Append(at, i))
PatternAt(node, at, i) == Pattern(node.kids[i], Append(at, i))

ForEachChild(node, at) == [i \in DOMAIN node.kids |-> ChildAt(node, at, i)]

\* Mutant: all children of a node in a pattern are taken for patterns.
PatternsBelow(node, at) == [i \in DOMAIN node.kids |-> PatternAt(node, at, i)]

\* What patternVisitor does with the children of a node.
PatternChildren(node, at) ==
  CASE node.kind \in Literals -> [i \in DOMAIN node.kids |-> PatternAt(node, at, i)]
    [] node.kind \in {SpreadElement, SpreadAssignment} -> <<PatternAt(node, at, 1)>>
    [] node.kind = PropertyAssignment -> <<PatternAt(node, at, 2)>>
    [] OTHER -> ForEachChild(node, at)

\* Mutant: the two exit listeners run before the children are visited.
PatternVisitorExitEarly(node, at) ==
  LET kind == ListenerOnAllowPattern(node.kind) IN
  <<Run(node.kind, at), Run(kind, at),
    Run(ListenerOnExit(kind), at), Run(ListenerOnExit(node.kind), at)>>
    \o PatternChildren(node, at)

PatternVisitor(node, at) ==
  LET kind == ListenerOnAllowPattern(node.kind) IN
  <<Run(node.kind, at), Run(kind, at)>>
    \o PatternChildren(node, at)
    \o <<Run(ListenerOnExit(kind), at), Run(ListenerOnExit(node.kind), at)>>

\* ast.IsAssignmentExpression(node, true): a plain "=" with a target on its left.
IsAssignmentExpression(node) ==
  /\ node.kind = BinaryExpression
  /\ node.kids[2].kind = EqualsToken
  /\ node.kids[1].kind # BinaryExpression

\* Mutant: the operator and the right side of an assignment are forgotten.
AssignmentTargetOnly(node, at) ==
  IF IsAssignmentExpression(node) THEN <<PatternAt(node, at, 1)>>
  ELSE ForEachChild(node, at)

\* What childVisitor does with the children of a node that is no literal.
OtherChildren(node, at) ==
  IF IsAssignmentExpression(node)
  THEN <<PatternAt(node, at, 1), ChildAt(node, at, 2), ChildAt(node, at, 3)>>
  ELSE ForEachChild(node, at)

ChildVisitor(node, at) ==
  LET kind == ListenerOnNotAllowPattern(node.kind) IN
  <<Run(node.kind, at)>>
    \o (IF node.kind \in Literals
        THEN <<Run(kind, at)>> \o ForEachChild(node, at) \o <<Run(ListenerOnExit(kind), at)>>
        ELSE OtherChildren(node, at))
    \o <<Run(ListenerOnExit(node.kind), at)>>

-----------------------------------------------------------------------------

\* file.Node.ForEachChild(childVisitor)
Init ==
  /\ ast \in Asts
  /\ agenda = ForEachChild(ast, << >>)
  /\ events = << >>

Visit ==
  /\ agenda # << >>
  /\ LET item == Head(agenda) IN
       \/ /\ item.do = "child"
          /\ agenda' = ChildVisitor(item.node, item.at) \o Tail(agenda)
       \/ /\ item.do = "pattern"
          /\ agenda' = PatternVisitor(item.node, item.at) \o Tail(agenda)
  /\ UNCHANGED <<ast, events>>

RunListeners ==
  /\ agenda # << >> /\ Head(agenda).do = "run"
  /\ events' = Append(events, [kind |-> Head(agenda).kind, at |-> Head(agenda).at])
  /\ agenda' = Tail(agenda)
  /\ UNCHANGED ast

Next == Visit \/ RunListeners

Spec == Init /\ [][Next]_vars
-----------------------------------------------------------------------------
(* The tree, read declaratively. *)

NodeAt(at) ==
  LET Node[n \in 0 .. Len(at)] == IF n = 0 THEN ast ELSE Node[n - 1].kids[at[n]]
  IN  Node[Len(at)]
KindAt(at) == NodeAt(at).kind

\* The paths of the nodes below the source file.
PathsOfLength[n \in Nat] ==
  IF n = 0 THEN { << >> }
  ELSE UNION { { Append(p, i) : i \in DOMAIN NodeAt(p).kids } : p \in PathsOfLength[n - 1] }

Paths == UNION { PathsOfLength[n] : n \in 1 .. MaxDepth }

\* Where an assignment target stands, as the comment in RunLinter lists the
\* places: left of "=", initializer of for-of, and propagated from a literal to
\* its elements and properties, from a spread to its expression, and from a
\* property assignment to its value.
InPattern(at) ==
  LET In[n \in 0 .. Len(at)] ==
        n > 0 /\ LET parent == NodeAt(SubSeq(at, 1, n - 1)) IN
                   \/ IsAssignmentExpression(parent) /\ at[n] = 1
                   \/ parent.kind = ForOfStatement /\ at[n] = 1
                   \/ /\ In[n - 1]
                      /\ \/ parent.kind \in Literals \cup {SpreadElement, SpreadAssignment}
                         \/ parent.kind = PropertyAssignment /\ at[n] = 2
  IN  In[Len(at)]

Done == agenda = << >>
Called(kind, at) == [kind |-> kind, at |-> at] \in Range(events)

\* The bands of listener kinds that the last...TokenKind constants delimit.
Band(kind) == kind \div 1000
EnterBands == {0, 2, 4}
-----------------------------------------------------------------------------
(* Properties. *)

\* A rule keeps a stack of scopes by pushing in a listener and popping in its
\* exit listener.  So between the two calls for a node come all calls for nodes
\* below it, and nothing of the rest of the tree.
CallsNest ==
  Done => \A i \in DOMAIN events : Band(events[i].kind) \in EnterBands =>
    \E k \in DOMAIN events :
      /\ i < k
      /\ events[k] = [events[i] EXCEPT !.kind = ListenerOnExit(@)]
      /\ \A j \in DOMAIN events :
           /\ IsStrictPrefix(events[i].at, events[j].at) => i < j /\ j < k
           /\ i < j /\ j < k => IsPrefix(events[i].at, events[j].at)

\* Every node is visited, and no listener is called twice for one node (so the
\* offsets of rule.go never make two listeners' kinds coincide).  The visitors
\* pass over one place: the name of a property of a target.
EveryNodeOnce ==
  Done =>
    /\ IsInjective(events)
    /\ \A p \in Paths :
         \/ Called(KindAt(p), p)
         \/ \E n \in 1 .. Len(p) :
              /\ p[n] = 1
              /\ Called(ListenerOnAllowPattern(PropertyAssignment), SubSeq(p, 1, n - 1))

\* A call whose kind says "this is a target" is right to say so, and each literal
\* that is visited is announced either as a target or as none.  (What is announced
\* as none, no_unsafe_assignment and no_misused_spread check as values; it may be
\* a target still: TargetsAreAnnounced.)
TargetsAreTargets ==
  \A i \in DOMAIN events :
    /\ Band(events[i].kind) \in {2, 3} => InPattern(events[i].at)
    /\ Done /\ events[i].kind \in Literals =>
         Called(ListenerOnAllowPattern(events[i].kind), events[i].at)
           # Called(ListenerOnNotAllowPattern(events[i].kind), events[i].at)

\* "convert.ts -> allowPattern: ... forofstatement initializer ...
\* (init) binaryexpression(with '=' operator') left" (linter.go:104-116):
\* a literal that is a target is announced as one.
TargetsAreAnnounced ==
  \A i \in DOMAIN events :
    Band(events[i].kind) = 4 => ~ InPattern(events[i].at)
=============================================================================
