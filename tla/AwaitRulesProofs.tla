-------------------------- MODULE AwaitRulesProofs --------------------------
(***************************************************************************)
(* Theorems about AwaitRules: both rules that listen to the walk report    *)
(* what they should, for every tree.                                       *)
(*                                                                         *)
(* From AstWalkProofs: the calls made and the calls and visits to come,    *)
(* one after the other, are a course in which calls nest.  So what has     *)
(* been entered and not left, when a listener is called, are the nodes     *)
(* around the one it is called for.  That the stacks of the two rules are  *)
(* the functions among them, and what the rules remember of them and have  *)
(* reported, are invariants on top.                                        *)
(***************************************************************************)
EXTENDS AwaitRules, AstWalkProofs, FiniteSetTheorems

(* The tree does not change. *)

LEMMA TreeStays ==
  ASSUME ast' = ast
  PROVE  /\ \A p : NodeAt(p)' = NodeAt(p) /\ KindAt(p)' = KindAt(p)
         /\ \A p : FunctionsAround(p)' = FunctionsAround(p) /\ Owner(p)' = Owner(p)
         /\ \A p, q : DirectlyIn(q, p)' = DirectlyIn(q, p)
         /\ Paths' = Paths
<1>1. ASSUME NEW p PROVE NodeAt(p)' = NodeAt(p)
  BY Zenon DEF NodeAt
<1>2. ASSUME NEW p PROVE KindAt(p)' = KindAt(p)
  BY <1>1 DEF KindAt
<1>3. ASSUME NEW p PROVE FunctionsAround(p)' = FunctionsAround(p)
  BY <1>2 DEF FunctionsAround, Ancestor
<1>4. ASSUME NEW p PROVE Owner(p)' = Owner(p)
  BY <1>3 DEF Owner, Ancestor
<1>5. ASSUME NEW p, NEW q PROVE DirectlyIn(q, p)' = DirectlyIn(q, p)
  BY <1>3, <1>4 DEF DirectlyIn
<1>6. PathsOfLength' = PathsOfLength
  BY SMTT(30) DEF PathsOfLength, NodeAt
<1>7. Paths' = Paths
  BY <1>6 DEF Paths
<1> QED BY <1>1, <1>2, <1>3, <1>4, <1>5, <1>7

-----------------------------------------------------------------------------
(* What is known when a listener is called. *)

\* The calls made, and the calls and visits to come.
Now == Course(events, agenda)

WalkingInv == WalkInv /\ ast.kind = SourceFile

\* The kinds of nodes.
NodeKind == 1 .. 999

IsFunction(p) == KindAt(p) \in FunctionKinds

\* A function that the walk is in.
Open(p) ==
  /\ p \in Path /\ IsFunction(p)
  /\ Called(KindAt(p), p) /\ ~ Called(ListenerOnExit(KindAt(p)), p)

\* A listener is called next.
Calling == agenda # << >> /\ IsRun(Head(agenda))

LEMMA NowFacts ==
  ASSUME WalkInv
  PROVE  /\ Now \in Seq(Item) /\ Walked(ast, Now) /\ Tidy(Now)
         /\ Len(events) \in Nat /\ Len(Now) \in Nat /\ Len(events) <= Len(Now)
         /\ Done => Len(Now) = Len(events)
         /\ Calling => Len(events) + 1 \in 1 .. Len(Now) /\ Now[Len(events) + 1] = Head(agenda)
<1>1. Now \in Seq(Item) /\ Walked(ast, Now) /\ (Done => Len(Now) = Len(events))
  BY CallsMade DEF Now
<1>2. Tidy(Now)
  BY <1>1 DEF Walked
<1>3. events \in Seq(Event) /\ agenda \in Seq(Item)
  BY DEF WalkInv
<1>4. Len(events) \in Nat /\ Len(agenda) \in Nat
  BY <1>3
<1>5. /\ Len(Now) = Len(events) + Len(agenda)
      /\ \A i \in 1 .. Len(agenda) : Now[Len(events) + i] = agenda[i]
  BY <1>3, CallsFacts DEF Now
<1>6. ASSUME Calling
      PROVE  Len(events) + 1 \in 1 .. Len(Now) /\ Now[Len(events) + 1] = Head(agenda)
  <2>1. 1 \in 1 .. Len(agenda) /\ Head(agenda) = agenda[1]
    BY <1>3, <1>6 DEF Calling
  <2>2. Len(events) + 1 \in 1 .. Len(events) + Len(agenda)
    BY <1>4, <2>1
  <2> QED BY <1>5, <2>1, <2>2
<1>7. Len(Now) \in Nat /\ Len(events) <= Len(Now)
  BY <1>4, <1>5
<1> QED BY <1>1, <1>2, <1>4, <1>6, <1>7

LEMMA CalledNow ==
  ASSUME WalkInv, NEW kind, NEW p
  PROVE  Called(kind, p) <=> \E i \in 1 .. Len(events) : Now[i] = Run(kind, p)
<1> DEFINE e == [kind |-> kind, at |-> p]
<1>1. /\ DOMAIN events = 1 .. Len(events)
      /\ \A i \in DOMAIN events : events[i] \in Event /\ Now[i] = Call(events[i])
  BY CallsMade DEF Now
<1>2. Called(kind, p) <=> \E i \in DOMAIN events : events[i] = e
  BY DEF Called, Range
<1>3. \A x \in Event : x = e <=> Call(x) = Run(kind, p)
  BY DEF Event, Call, Run
<1> HIDE DEF e
<1> QED BY <1>1, <1>2, <1>3

\* The node of a call.
LEMMA RunNode ==
  ASSUME WalkInv, NEW i \in 1 .. Len(Now), NEW x, Now[i] = x, IsRun(x)
  PROVE  /\ x.at \in Path /\ NodeOn(ast, x.at, NodeAt(x.at)) /\ NodeAt(x.at) \in Nodes
         /\ x = Run(x.kind, x.at)
         /\ x.kind \in KindsOf(KindAt(x.at)) /\ KindAt(x.at) \in NodeKind
         /\ ~ Skipped(Range(Now), x.at)
<1>1. x \in Item /\ x \in Range(Now)
  BY NowFacts, SeqRange
<1>2. ItemFits(ast, x) /\ ~ Skipped(Range(Now), x.at)
  BY <1>1, NowFacts DEF Walked
<1>3. x.at \in Path /\ x = Run(x.kind, x.at)
  <2>1. x \in [do : {"run"}, kind : Nat, at : Path]
    BY <1>1 DEF Item, IsRun
  <2> QED BY <2>1 DEF Run
<1>4. PICK node \in Nodes : NodeOn(ast, x.at, node) /\ (IsRun(x) => x.kind \in KindsOf(node.kind))
  BY <1>2 DEF ItemFits
<1>5. NodeAt(x.at) = node
  BY <1>3, <1>4, NodeAtOn
<1>6. node.kind \in NodeKind
  BY NodeFacts DEF NodeKind
<1> QED BY <1>2, <1>3, <1>4, <1>5, <1>6 DEF KindAt

\* Between the i-th and the k-th call come all calls for nodes below the one at p, and no others.
Within(i, k, p) ==
  /\ i < k
  /\ \A j \in 1 .. Len(Now) :
       /\ Leads(p, Now[j].at) /\ p # Now[j].at => i < j /\ j < k
       /\ i < j /\ j < k => Leads(p, Now[j].at)

\* A call of a node's listener is closed, and all other calls for the node and those below
\* have their place.
LEMMA Enclosed ==
  ASSUME WalkInv, NEW i \in 1 .. Len(Now), NEW p \in Path, NEW kind \in NodeKind,
         Now[i] = Run(kind, p)
  PROVE  \E k \in 1 .. Len(Now) :
           Within(i, k, p) /\ Now[k] = Run(ListenerOnExit(kind), p)
<1> DEFINE x == Run(kind, p)
<1>1. IsRun(x) /\ x.kind = kind /\ x.at = p
  BY DEF Run, IsRun
<1>2. Band(kind) = 0
  BY DEF Band, NodeKind
<1>3. Opens(Now[i])
  BY <1>1, <1>2 DEF Opens, EnterBands
<1>4. PICK k \in 1 .. Len(Now) : Encloses(Now, i, k)
  BY <1>3, NowFacts DEF Tidy
<1>5. ClosedBy(Now[i]) = Run(ListenerOnExit(kind), p)
  BY <1>1 DEF ClosedBy
<1>6. Now[i].at = p
  BY <1>1
<1> QED BY <1>4, <1>5, <1>6 DEF Encloses, Within

LEMMA CalledOnce ==
  ASSUME WalkInv, NEW i \in 1 .. Len(Now), NEW j \in 1 .. Len(Now), IsRun(Now[i]),
         Now[i] = Now[j]
  PROVE  i = j
BY NowFacts DEF Tidy

\* The nodes around a node of the tree.
LEMMA AncestorOn ==
  ASSUME NEW p \in Path, NEW q \in Path, Leads(p, q), NodeOn(ast, q, NodeAt(q))
  PROVE  /\ NodeOn(ast, p, NodeAt(p)) /\ NodeAt(p) \in Nodes
         /\ p # q => q[Len(p) + 1] \in DOMAIN NodeAt(p).kids
<1>1. PICK g : IsWay(g, ast, q)
  BY DEF NodeOn
<1>2. NodeOn(ast, p, g[Len(p)]) /\ (p # q => q[Len(p) + 1] \in DOMAIN g[Len(p)].kids)
  BY <1>1, OnTheWay
<1>3. NodeAt(p) = g[Len(p)]
  BY <1>2, NodeAtOn
<1> QED BY <1>2, <1>3, NodeOnIsNode

\* Whatever is called for a node, its own listener and those of the nodes around it are
\* called too.
LEMMA AncestorVisited ==
  ASSUME WalkInv, NEW i \in 1 .. Len(Now), IsRun(Now[i]),
         NEW p \in Path, p # << >>, Leads(p, Now[i].at)
  PROVE  \E j \in 1 .. Len(Now) : Now[j] = Run(KindAt(p), p)
<1> DEFINE q == Now[i].at
<1>1. q \in Path /\ NodeOn(ast, q, NodeAt(q)) /\ ~ Skipped(Range(Now), q)
  BY RunNode DEF q
<1>2. NodeOn(ast, p, NodeAt(p)) /\ NodeAt(p) \in Nodes
  BY <1>1, AncestorOn
<1>3. p \in Below(ast)
  BY <1>2 DEF Below
<1>4. Reached(Range(Now), p, NodeAt(p))
  BY <1>2, <1>3, NowFacts DEF Walked
<1>5. Range(Now) = {Now[j] : j \in 1 .. Len(Now)}
  BY NowFacts, SeqRange
<1> HIDE DEF q
<1>6. ASSUME NEW x \in Range(Now), ~ IsRun(x), Leads(x.at, p) PROVE FALSE
  <2>1. PICK j \in 1 .. Len(Now) : x = Now[j]
    BY <1>5
  <2>2. ~ Leads(x.at, q)
    BY <1>6, <2>1, NowFacts DEF Tidy, q
  <2>3. x.at \in Path
    BY <1>6, <2>1, NowFacts, SeqRange DEF Item, IsRun
  <2> QED BY <1>1, <1>6, <2>2, <2>3, LeadsTransitive DEF q
<1>7. ASSUME Skipped(Range(Now), p) PROVE FALSE
  <2>1. PICK n \in 1 .. Len(p) :
          /\ p[n] = 1
          /\ Run(ListenerOnAllowPattern(PropertyAssignment), SubSeq(p, 1, n - 1)) \in Range(Now)
    BY <1>7 DEF Skipped
  <2>2. n \in 1 .. Len(q) /\ q[n] = 1 /\ n - 1 \in 0 .. Len(p) /\ n - 1 \in 0 .. Len(q)
    <3>1. Len(p) \in Nat /\ Len(q) \in Nat /\ Len(p) <= Len(q) /\ q[n] = p[n]
      BY <1>1 DEF Leads, q, Path
    <3> QED BY <2>1, <3>1
  <2>3. SubSeq(q, 1, n - 1) = SubSeq(p, 1, n - 1)
    <3> DEFINE s == SubSeq(q, 1, n - 1)
               t == SubSeq(p, 1, n - 1)
    <3>1. s \in Path /\ Len(s) = n - 1 /\ \A k \in 1 .. n - 1 : s[k] = q[k]
      BY <1>1, <2>2, PrefixIsPath
    <3>2. t \in Path /\ Len(t) = n - 1 /\ \A k \in 1 .. n - 1 : t[k] = p[k]
      BY <1>1, <2>2, PrefixIsPath
    <3>3. \A k \in 1 .. n - 1 : k \in 1 .. Len(p)
      BY <2>2
    <3>4. \A k \in 1 .. n - 1 : p[k] = q[k]
      BY <3>3 DEF Leads, q
    <3> HIDE DEF s, t
    <3>5. Leads(s, t) /\ Leads(t, s)
      <4>1. n - 1 <= n - 1
        BY <2>2
      <4> QED BY <3>1, <3>2, <3>4, <4>1 DEF Leads
    <3>6. s = t
      BY <3>1, <3>2, <3>5, LeadsBothWays
    <3> QED BY <3>6 DEF s, t
  <2> QED BY <1>1, <2>1, <2>2, <2>3 DEF Skipped
<1>8. Run(KindAt(p), p) \in Range(Now)
  BY <1>4, <1>6, <1>7 DEF Reached, KindAt
<1> QED BY <1>5, <1>8

LEMMA KindFacts ==
  /\ \A p : IsFunction(p) => KindAt(p) \in NodeKind /\ KindAt(p) \in {20, 21}
  /\ WalkingInv => ~ IsFunction(<< >>)
<1>1. ASSUME NEW p, IsFunction(p) PROVE KindAt(p) \in NodeKind /\ KindAt(p) \in {20, 21}
  <2> DEFINE k == KindAt(p)
  <2>1. k \in {20, 21}
    BY <1>1 DEF IsFunction, FunctionKinds, FunctionDeclaration, ArrowFunction
  <2> HIDE DEF k
  <2>2. k \in NodeKind
    BY <2>1 DEF NodeKind
  <2> QED BY <2>1, <2>2 DEF k
<1>2. ASSUME WalkingInv, IsFunction(<< >>) PROVE FALSE
  <2>1. NodeOn(ast, << >>, ast) /\ << >> \in Path
    BY <1>2, RootOn DEF WalkingInv, WalkInv
  <2>2. NodeAt(<< >>) = ast
    BY <2>1, NodeAtOn
  <2>3. KindAt(<< >>) = 12
    BY <1>2, <2>2 DEF KindAt, WalkingInv, SourceFile
  <2> QED BY <1>1, <1>2, <2>3
<1> QED BY <1>1, <1>2

\* The call that comes next.
LEMMA CallNode ==
  ASSUME WalkingInv, Calling
  PROVE  /\ At \in Path /\ NodeOn(ast, At, NodeAt(At)) /\ NodeAt(At) \in Nodes
         /\ Head(agenda) = Run(Head(agenda).kind, At)
         /\ Head(agenda).kind \in KindsOf(KindAt(At)) /\ KindAt(At) \in NodeKind
         /\ ~ Skipped(Range(Now), At)
         /\ ~ Called(Head(agenda).kind, At)
<1> DEFINE u == Len(events) + 1
<1>1. WalkInv /\ u \in 1 .. Len(Now) /\ Now[u] = Head(agenda) /\ IsRun(Now[u])
  BY NowFacts DEF WalkingInv, Calling
<1>2. Now[u].at = At
  BY <1>1 DEF At
<1>3. ASSUME NEW i \in 1 .. Len(events), Now[i] = Run(Head(agenda).kind, At),
             Head(agenda) = Run(Head(agenda).kind, At)
      PROVE  FALSE
  <2>1. i \in 1 .. Len(Now) /\ i # u
    BY <1>1, NowFacts
  <2>2. Now[i] = Now[u] /\ IsRun(Now[i])
    BY <1>1, <1>3
  <2> HIDE DEF u
  <2> QED BY <1>1, <2>1, <2>2, CalledOnce
<1> HIDE DEF u
<1>4. /\ At \in Path /\ NodeOn(ast, At, NodeAt(At)) /\ NodeAt(At) \in Nodes
      /\ Head(agenda) = Run(Head(agenda).kind, At)
      /\ Head(agenda).kind \in KindsOf(KindAt(At)) /\ KindAt(At) \in NodeKind
      /\ ~ Skipped(Range(Now), At)
  BY <1>1, <1>2, RunNode
<1> QED BY <1>1, <1>3, <1>4, CalledNow

\* A function around the node of the call is open.
LEMMA AroundIsOpen ==
  ASSUME WalkingInv, Calling, NEW p \in Path, IsFunction(p), Leads(p, At), p # At
  PROVE  Open(p)
<1> DEFINE n == Len(events)
           u == n + 1
           k == KindAt(p)
<1>1. /\ WalkInv /\ n \in Nat /\ n <= Len(Now)
      /\ u \in 1 .. Len(Now) /\ Now[u] = Head(agenda) /\ IsRun(Now[u])
  BY NowFacts DEF WalkingInv, Calling
<1>2. Now[u].at = At
  BY <1>1 DEF At
<1>3. k \in NodeKind /\ p # << >>
  BY KindFacts
<1> HIDE DEF u, k
<1>4. PICK i \in 1 .. Len(Now) : Now[i] = Run(k, p)
  BY <1>1, <1>2, <1>3, AncestorVisited DEF k
<1>5. PICK m \in 1 .. Len(Now) : Within(i, m, p) /\ Now[m] = Run(ListenerOnExit(k), p)
  BY <1>1, <1>3, <1>4, Enclosed
<1>6. i < u /\ u < m
  BY <1>1, <1>2, <1>5 DEF Within
<1>7. i \in 1 .. n
  BY <1>1, <1>6 DEF u
<1>8. Called(k, p)
  BY <1>1, <1>4, <1>7, CalledNow
<1>9. ASSUME NEW j \in 1 .. n, Now[j] = Run(ListenerOnExit(k), p) PROVE FALSE
  <2>1. j \in 1 .. Len(Now) /\ j # m
    BY <1>1, <1>6 DEF u
  <2>2. IsRun(Now[j])
    BY <1>9 DEF IsRun, Run
  <2> QED BY <1>1, <1>5, <1>9, <2>1, <2>2, CalledOnce
<1>10. ~ Called(ListenerOnExit(k), p)
  BY <1>1, <1>9, CalledNow
<1> QED BY <1>8, <1>10 DEF Open, k

\* The calls that open and close an open function.
LEMMA OpenCalls ==
  ASSUME WalkingInv, NEW p, Open(p)
  PROVE  \E i \in 1 .. Len(events), m \in Len(events) + 1 .. Len(Now) :
           /\ Now[i] = Run(KindAt(p), p) /\ Now[m] = Run(ListenerOnExit(KindAt(p)), p)
           /\ Within(i, m, p)
<1> DEFINE n == Len(events)
           k == KindAt(p)
<1>1. WalkInv /\ n \in Nat /\ Len(Now) \in Nat /\ n <= Len(Now)
  BY NowFacts DEF WalkingInv
<1>2. p \in Path /\ k \in NodeKind /\ Called(k, p) /\ ~ Called(ListenerOnExit(k), p)
  BY KindFacts DEF Open
<1> HIDE DEF k
<1>3. PICK i \in 1 .. n : Now[i] = Run(k, p)
  BY <1>1, <1>2, CalledNow
<1>4. i \in 1 .. Len(Now)
  BY <1>1
<1>5. PICK m \in 1 .. Len(Now) : Within(i, m, p) /\ Now[m] = Run(ListenerOnExit(k), p)
  BY <1>1, <1>2, <1>3, <1>4, Enclosed
<1>6. m \notin 1 .. n
  BY <1>1, <1>2, <1>5, CalledNow
<1>7. m \in n + 1 .. Len(Now)
  BY <1>1, <1>6
<1> QED BY <1>3, <1>5, <1>7 DEF k

\* An open function is around the node of the call, or is that node.
LEMMA OpenIsAround ==
  ASSUME WalkingInv, Calling, NEW p, Open(p)
  PROVE  Leads(p, At)
<1> DEFINE n == Len(events)
           u == n + 1
<1>1. /\ WalkInv /\ n \in Nat /\ n <= Len(Now)
      /\ u \in 1 .. Len(Now) /\ Now[u] = Head(agenda)
  BY NowFacts DEF WalkingInv, Calling
<1>2. Now[u].at = At
  BY <1>1 DEF At
<1>3. PICK i \in 1 .. n, m \in u .. Len(Now) :
        Within(i, m, p) /\ Now[m] = Run(ListenerOnExit(KindAt(p)), p)
  BY OpenCalls
<1>4. CASE m = u
  <2>1. Now[u].at = p
    BY <1>3, <1>4 DEF Run
  <2>2. p \in Path
    BY DEF Open
  <2> QED BY <1>2, <2>1, <2>2, LeadsReflexive
<1>5. CASE m # u
  <2>1. i < u /\ u < m
    BY <1>1, <1>5
  <2> HIDE DEF u
  <2> QED BY <1>1, <1>2, <1>3, <2>1 DEF Within
<1> QED BY <1>4, <1>5

\* Nothing is open when the walk is done.
LEMMA NoneIsOpen ==
  ASSUME WalkingInv, Done, NEW p
  PROVE  ~ Open(p)
<1>1. Len(Now) = Len(events) /\ Len(events) \in Nat
  BY NowFacts DEF WalkingInv
<1>2. Len(events) + 1 .. Len(Now) = {}
  BY <1>1
<1> QED BY <1>2, OpenCalls

\* When a node's own listener is called, nothing has been visited at the node or below,
\* and no function around it has been left, nor the node itself.
LEMMA VisitedLater ==
  ASSUME WalkingInv, Calling, Head(agenda).kind = KindAt(At), NEW p \in Path
  PROVE  /\ Leads(At, p) => ~ Called(KindAt(p), p)
         /\ IsFunction(p) /\ Leads(p, At) => ~ Called(ListenerOnExit(KindAt(p)), p)
<1> DEFINE n == Len(events)
           u == n + 1
           q == At
           kq == KindAt(q)
           kp == KindAt(p)
<1>1. /\ WalkInv /\ n \in Nat /\ n <= Len(Now) /\ Len(Now) \in Nat
      /\ u \in 1 .. Len(Now) /\ Now[u] = Head(agenda)
  BY NowFacts DEF WalkingInv, Calling
<1>2. /\ q \in Path /\ kq \in NodeKind /\ Now[u] = Run(kq, q)
      /\ ~ Called(kq, q)
  BY <1>1, CallNode
<1> HIDE DEF u, q, kq, kp
<1>3. \A k, x : Run(k, x).at = x /\ IsRun(Run(k, x))
  BY DEF Run, IsRun
<1>4. PICK m \in 1 .. Len(Now) : Within(u, m, q) /\ Now[m] = Run(ListenerOnExit(kq), q)
  BY <1>1, <1>2, Enclosed
<1>5. ASSUME Leads(q, p), Called(kp, p) PROVE FALSE
  <2>1. CASE p = q
    BY <1>2, <1>5, <2>1 DEF kp, kq
  <2>2. CASE p # q
    <3>1. PICK j \in 1 .. n : Now[j] = Run(kp, p)
      BY <1>1, <1>5, CalledNow
    <3>2. j \in 1 .. Len(Now) /\ Now[j].at = p
      BY <1>1, <1>3, <3>1
    <3>3. u < j
      BY <1>4, <1>5, <2>2, <3>2 DEF Within
    <3> QED BY <1>1, <3>3 DEF u
  <2> QED BY <2>1, <2>2
<1>6. ASSUME IsFunction(p), Leads(p, q), Called(ListenerOnExit(kp), p) PROVE FALSE
  <2>1. PICK j \in 1 .. n : Now[j] = Run(ListenerOnExit(kp), p)
    BY <1>1, <1>6, CalledNow
  <2>2. j \in 1 .. Len(Now) /\ j < u
    BY <1>1 DEF u
  <2>3. CASE p = q
    <3>1. Now[j] = Now[m] /\ IsRun(Now[j])
      BY <1>3, <1>4, <2>1, <2>3 DEF kp, kq
    <3>2. j = m
      BY <1>1, <2>2, <3>1, CalledOnce
    <3> QED BY <1>1, <1>4, <2>2, <3>2 DEF u, Within
  <2>4. CASE p # q
    <3>1. Open(p)
      BY <1>6, <2>4, AroundIsOpen DEF q
    <3> QED BY <1>6, <3>1 DEF Open, kp
  <2> QED BY <2>3, <2>4
<1> QED BY <1>5, <1>6 DEF q, kp

\* When a function is left, it is open, and no function within it is.
LEMMA LeavingInnermost ==
  ASSUME WalkingInv, Calling, IsFunction(At), Head(agenda).kind = ListenerOnExit(KindAt(At))
  PROVE  /\ Open(At)
         /\ \A p : Open(p) /\ Leads(At, p) => p = At
<1> DEFINE n == Len(events)
           u == n + 1
           q == At
           kq == KindAt(q)
<1>1. /\ WalkInv /\ n \in Nat /\ n <= Len(Now) /\ Len(Now) \in Nat
      /\ u \in 1 .. Len(Now) /\ Now[u] = Head(agenda)
  BY NowFacts DEF WalkingInv, Calling
<1>2. /\ q \in Path /\ Now[u] = Run(ListenerOnExit(kq), q) /\ ~ Called(ListenerOnExit(kq), q)
  BY <1>1, CallNode
<1>3. kq \in NodeKind /\ q # << >>
  BY KindFacts
<1>4. \A k, x : Run(k, x).at = x /\ IsRun(Run(k, x))
  BY DEF Run, IsRun
<1> HIDE DEF u, q, kq
<1>5. PICK i \in 1 .. Len(Now) : Now[i] = Run(kq, q)
  <2>1. IsRun(Now[u]) /\ Now[u].at = q /\ Leads(q, q)
    BY <1>2, <1>4, LeadsReflexive
  <2> QED BY <1>1, <1>2, <1>3, <2>1, AncestorVisited DEF kq
<1>6. PICK m \in 1 .. Len(Now) : Within(i, m, q) /\ Now[m] = Run(ListenerOnExit(kq), q)
  BY <1>1, <1>2, <1>3, <1>5, Enclosed
<1>7. m = u
  <2>1. Now[m] = Now[u] /\ IsRun(Now[m])
    BY <1>2, <1>4, <1>6
  <2> QED BY <1>1, <2>1, CalledOnce
<1>8. i \in 1 .. n
  BY <1>1, <1>6, <1>7 DEF u, Within
<1>9. Called(kq, q)
  BY <1>1, <1>5, <1>8, CalledNow
<1>10. Open(q)
  BY <1>2, <1>9 DEF Open, q, kq
<1>11. ASSUME NEW p, Open(p), Leads(q, p), p # q PROVE FALSE
  <2>1. PICK j \in u .. Len(Now) : Now[j] = Run(ListenerOnExit(KindAt(p)), p)
    BY <1>11, OpenCalls DEF u
  <2>2. j \in 1 .. Len(Now) /\ Now[j].at = p
    BY <1>1, <1>4, <2>1
  <2>3. j < u
    BY <1>6, <1>7, <1>11, <2>2 DEF Within
  <2> QED BY <1>1, <2>1, <2>3
<1> QED BY <1>10, <1>11 DEF q

-----------------------------------------------------------------------------
(* The functions around a node. *)

LEMMA MaxFacts ==
  ASSUME NEW S, S # {}, NEW n \in Nat, S \subseteq 0 .. n
  PROVE  Max(S) \in S /\ \A x \in S : x <= Max(S)
<1> DEFINE T == { k \in Nat : \A R \in SUBSET (0 .. k) :
                               R # {} => \E x \in R : \A y \in R : x >= y }
<1>1. 0 \in T
  <2>1. ASSUME NEW R \in SUBSET (0 .. 0), R # {} PROVE \E x \in R : \A y \in R : x >= y
    <3>1. PICK x : x \in R
      BY <2>1
    <3>2. \A y \in R : y = 0
      OBVIOUS
    <3> QED BY <3>1, <3>2
  <2> QED BY <2>1
<1>2. ASSUME NEW k \in Nat, k \in T PROVE k + 1 \in T
  <2>1. ASSUME NEW R \in SUBSET (0 .. k + 1), R # {} PROVE \E x \in R : \A y \in R : x >= y
    <3>1. CASE k + 1 \in R
      <4>1. \A y \in R : k + 1 >= y
        OBVIOUS
      <4> QED BY <3>1, <4>1
    <3>2. CASE k + 1 \notin R
      <4>1. R \in SUBSET (0 .. k)
        <5>1. ASSUME NEW y \in R PROVE y \in 0 .. k
          BY <3>2
        <5> QED BY <5>1
      <4> QED BY <1>2, <2>1, <4>1
    <3> QED BY <3>1, <3>2
  <2> QED BY <2>1
<1>3. n \in T
  <2> HIDE DEF T
  <2> QED BY <1>1, <1>2, SetInduction
<1>4. PICK x \in S : \A y \in S : x >= y
  BY <1>3
<1> DEFINE m == Max(S)
<1>5. m \in S /\ \A y \in S : m >= y
  BY <1>4 DEF Max
<1> HIDE DEF m
<1>6. \A x1 \in S : x1 <= m
  BY <1>5
<1> QED BY <1>5, <1>6 DEF m

\* The largest of a set, seen.
LEMMA MaxIs ==
  ASSUME NEW S, NEW m \in S, NEW n \in Nat, S \subseteq 0 .. n, \A x \in S : x <= m
  PROVE  Max(S) = m
<1> DEFINE k == Max(S)
<1>1. k \in S /\ m <= k
  BY MaxFacts
<1> HIDE DEF k
<1>2. k <= m /\ k \in Nat /\ m \in Nat
  BY <1>1
<1>3. k = m
  BY <1>1, <1>2
<1> QED BY <1>3 DEF k

LEMMA AncestorFacts ==
  ASSUME NEW q \in Path
  PROVE  /\ \A n \in 0 .. Len(q) :
              Ancestor(q, n) \in Path /\ Len(Ancestor(q, n)) = n /\ Leads(Ancestor(q, n), q)
         /\ \A p \in Path : Leads(p, q) => Len(p) \in 0 .. Len(q) /\ p = Ancestor(q, Len(p))
         /\ Len(q) \in Nat
<1>1. ASSUME NEW n \in 0 .. Len(q)
      PROVE  Ancestor(q, n) \in Path /\ Len(Ancestor(q, n)) = n /\ Leads(Ancestor(q, n), q)
  BY PrefixIsPath DEF Ancestor
<1>2. ASSUME NEW p \in Path, Leads(p, q)
      PROVE  Len(p) \in 0 .. Len(q) /\ p = Ancestor(q, Len(p))
  <2>1. Len(p) \in 0 .. Len(q)
    BY <1>2 DEF Path, Leads
  <2> DEFINE a == Ancestor(q, Len(p))
  <2>2. a \in Path /\ Len(a) = Len(p) /\ Leads(a, q)
    BY <1>1, <2>1
  <2> HIDE DEF a
  <2>3. Leads(p, a) /\ Leads(a, p)
    BY <1>2, <2>1, <2>2 DEF Leads
  <2>4. p = a
    BY <2>2, <2>3, LeadsBothWays
  <2> QED BY <2>1, <2>4 DEF a
<1>3. Len(q) \in Nat
  BY DEF Path
<1> QED BY <1>1, <1>2, <1>3

\* A length is among those of the functions around q just when it is that of a function
\* that leads to q.
LEMMA AroundIs ==
  ASSUME NEW q \in Path
  PROVE  /\ \A n \in FunctionsAround(q) :
              LET p == Ancestor(q, n) IN
              p \in Path /\ Leads(p, q) /\ p # q /\ Len(p) = n /\ IsFunction(p)
         /\ \A p \in Path : IsFunction(p) /\ Leads(p, q) /\ p # q => Len(p) \in FunctionsAround(q)
         /\ FunctionsAround(q) \subseteq 0 .. Len(q) /\ Len(q) \in Nat
<1>1. Len(q) \in Nat
  BY AncestorFacts
<1>2. ASSUME NEW n \in FunctionsAround(q)
      PROVE  LET p == Ancestor(q, n) IN
             p \in Path /\ Leads(p, q) /\ p # q /\ Len(p) = n /\ IsFunction(p) /\ n \in 0 .. Len(q)
  <2>1. n \in 0 .. Len(q) /\ n # Len(q) /\ KindAt(Ancestor(q, n)) \in FunctionKinds
    BY <1>1 DEF FunctionsAround
  <2> QED BY <2>1, AncestorFacts DEF IsFunction
<1>3. ASSUME NEW p \in Path, IsFunction(p), Leads(p, q), p # q
      PROVE  Len(p) \in FunctionsAround(q)
  <2>1. Len(p) \in 0 .. Len(q) /\ p = Ancestor(q, Len(p))
    BY <1>3, AncestorFacts
  <2>2. Len(p) # Len(q)
    BY <1>3, LeadsBothWays DEF Leads
  <2>3. Len(p) \in 0 .. Len(q) - 1
    BY <1>1, <2>1, <2>2
  <2> QED BY <1>3, <2>1, <2>3 DEF FunctionsAround, IsFunction
<1> QED BY <1>1, <1>2, <1>3

\* The function a node is directly in is the innermost of those around it.
LEMMA DirectlyInIs ==
  ASSUME NEW q \in Path, NEW p, DirectlyIn(q, p)
  PROVE  /\ p \in Path /\ IsFunction(p) /\ Leads(p, q) /\ p # q
         /\ \A r \in Path : IsFunction(r) /\ Leads(r, q) /\ r # q => Leads(r, p)
<1> DEFINE S == FunctionsAround(q)
           m == Max(S)
<1>1. m \in S /\ p = Ancestor(q, m) /\ \A x \in S : x <= m
  <2>1. S # {} /\ p = Ancestor(q, m)
    BY DEF DirectlyIn, Owner
  <2> QED BY <2>1, AroundIs, MaxFacts
<1> HIDE DEF m
<1>2. p \in Path /\ Leads(p, q) /\ p # q /\ Len(p) = m /\ IsFunction(p)
  BY <1>1, AroundIs
<1>3. ASSUME NEW r \in Path, IsFunction(r), Leads(r, q), r # q PROVE Leads(r, p)
  <2>1. Len(r) <= m
    BY <1>1, <1>3, AroundIs
  <2> QED BY <1>2, <1>3, <2>1 DEF Leads, Path
<1> QED BY <1>2, <1>3

LEMMA DirectlyInInnermost ==
  ASSUME NEW q \in Path, NEW p \in Path, IsFunction(p), Leads(p, q), p # q,
         \A r \in Path : IsFunction(r) /\ Leads(r, q) /\ r # q => Leads(r, p)
  PROVE  DirectlyIn(q, p)
<1> DEFINE S == FunctionsAround(q)
<1>1. Len(p) \in S
  BY AroundIs
<1>2. ASSUME NEW n \in S PROVE n <= Len(p)
  <2> DEFINE r == Ancestor(q, n)
  <2>1. r \in Path /\ IsFunction(r) /\ Leads(r, q) /\ r # q /\ Len(r) = n
    BY AroundIs
  <2> QED BY <2>1 DEF Leads
<1>3. S \subseteq 0 .. Len(q) /\ Len(q) \in Nat
  BY AroundIs
<1> HIDE DEF S
<1>4. Max(S) = Len(p)
  BY <1>1, <1>2, <1>3, MaxIs
<1>5. p = Ancestor(q, Len(p))
  BY AncestorFacts
<1> QED BY <1>1, <1>4, <1>5 DEF DirectlyIn, Owner, S

LEMMA OneOwner ==
  ASSUME NEW q, NEW p, NEW r, DirectlyIn(q, p), DirectlyIn(q, r)
  PROVE  p = r
BY DEF DirectlyIn

-----------------------------------------------------------------------------
(* The steps. *)

\* The state of the rules.
rulesVars == <<currentScope, functionsReported, option, scope, returnsReported>>

LEMMA StepIs ==
  ASSUME RulesNext
  PROVE  \/ UNCHANGED <<ast, events, rulesVars>>
         \/ RunListeners /\ Calling /\ ast' = ast /\ ~ Visit
<1>1. CASE Visit
  <2>1. ~ RunListeners
    BY <1>1 DEF Visit, RunListeners
  <2>2. UNCHANGED <<currentScope, functionsReported>>
    BY <2>1 DEF RulesNext, RequireAwaitNext, Calls, EnterFunctionListener,
         EnterArrowFunctionListener, ExitFunctionListener, AwaitListener, YieldListener,
         ReturnListener, NoRequireAwaitListener
  <2>3. UNCHANGED <<option, scope, returnsReported>>
    BY <2>1 DEF RulesNext, ReturnAwaitNext, Calls, EnterOwnerListener, LeaveOwnerListener,
         LeaveArrowFunctionListener, ReturnedListener, NoReturnAwaitListener
  <2> QED BY <1>1, <2>2, <2>3 DEF Visit, rulesVars
<1>2. CASE ~ Visit
  <2>1. RunListeners
    BY <1>2 DEF RulesNext, RequireAwaitNext, Calls, EnterFunctionListener,
         EnterArrowFunctionListener, ExitFunctionListener, AwaitListener, YieldListener,
         ReturnListener, NoRequireAwaitListener
  <2> QED BY <1>2, <2>1 DEF RunListeners, Calling, IsRun
<1> QED BY <1>1, <1>2

LEMMA StepWalking == WalkingInv /\ [RulesNext]_allVars => WalkingInv'
<1> SUFFICES ASSUME WalkingInv, [RulesNext]_allVars PROVE WalkingInv'
  OBVIOUS
<1>1. [Next]_vars /\ ast' = ast
  <2>1. CASE RulesNext
    <3>1. Visit \/ RunListeners
      BY <2>1, StepIs DEF RulesNext, RequireAwaitNext, Calls, EnterFunctionListener,
         EnterArrowFunctionListener, ExitFunctionListener, AwaitListener, YieldListener,
         ReturnListener, NoRequireAwaitListener
    <3> QED BY <3>1 DEF Next, Visit, RunListeners
  <2>2. CASE UNCHANGED allVars
    BY <2>2 DEF allVars, vars
  <2> QED BY <2>1, <2>2
<1> QED BY <1>1, StepWalk DEF WalkingInv

LEMMA RulesWalk == RulesSpec => []WalkingInv
<1>1. RulesInit => WalkingInv
  BY InitWalk, AstsAssumption DEF RulesInit, Init, WalkingInv
<1> QED BY <1>1, StepWalking, PTL DEF RulesSpec

LEMMA RunChanges ==
  ASSUME WalkInv, RunListeners
  PROVE  \A kind, p : Called(kind, p)' <=> Called(kind, p) \/ (kind = Head(agenda).kind /\ p = At)
<1> DEFINE e == [kind |-> Head(agenda).kind, at |-> At]
<1>1. events \in Seq(Event) /\ events' = Append(events, e)
  BY DEF WalkInv, RunListeners, At
<1>2. \A x : x \in Range(events') <=> x \in Range(events) \/ x = e
  <2> HIDE DEF e
  <2>1. /\ Len(events) \in Nat /\ DOMAIN events = 1 .. Len(events)
        /\ DOMAIN events' = 1 .. Len(events) + 1
        /\ events'[Len(events) + 1] = e
        /\ \A i \in 1 .. Len(events) : events'[i] = events[i]
    BY <1>1
  <2>2. \A i : i \in 1 .. Len(events) + 1 <=> i \in 1 .. Len(events) \/ i = Len(events) + 1
    BY <2>1
  <2> QED BY <2>1, <2>2 DEF Range
<1>3. ASSUME NEW kind, NEW p
      PROVE  Called(kind, p)' <=> Called(kind, p) \/ (kind = Head(agenda).kind /\ p = At)
  <2>1. Called(kind, p)' <=> [kind |-> kind, at |-> p] \in Range(events')
    BY DEF Called
  <2>2. [kind |-> kind, at |-> p] = e <=> kind = Head(agenda).kind /\ p = At
    OBVIOUS
  <2> QED BY <1>2, <2>1, <2>2 DEF Called
<1> QED BY <1>3

LEMMA VisitedIs ==
  ASSUME WalkInv
  PROVE  /\ \A q : q \in Visited <=> Called(KindAt(q), q)
         /\ Visited \subseteq Path
<1>1. events \in Seq(Event)
  BY DEF WalkInv
<1>2. Range(events) \subseteq Event
  BY <1>1 DEF Range
<1>3. ASSUME NEW q PROVE q \in Visited <=> Called(KindAt(q), q)
  <2>1. ASSUME q \in Visited PROVE Called(KindAt(q), q)
    <3>1. PICK e \in Range(events) : e.kind = KindAt(e.at) /\ q = e.at
      BY <2>1 DEF Visited
    <3>2. e = [kind |-> KindAt(q), at |-> q]
      BY <1>2, <3>1 DEF Event
    <3> QED BY <3>1, <3>2 DEF Called
  <2>2. ASSUME Called(KindAt(q), q) PROVE q \in Visited
    <3> DEFINE e == [kind |-> KindAt(q), at |-> q]
    <3>1. e \in Range(events) /\ e.kind = KindAt(e.at) /\ e.at = q
      BY <2>2 DEF Called
    <3> HIDE DEF e
    <3> QED BY <3>1 DEF Visited
  <2> QED BY <2>1, <2>2
<1>4. Visited \subseteq Path
  BY <1>2 DEF Visited, Event
<1> QED BY <1>3, <1>4

VisitedCalled == \A q : q \in Visited <=> Called(KindAt(q), q)

LEMMA VisitedHere == WalkInv => VisitedCalled
BY VisitedIs DEF VisitedCalled

\* The kind of a call tells whose call it is.
LEMMA CallKind ==
  ASSUME WalkingInv, Calling
  PROVE  /\ Head(agenda).kind \in NodeKind => Head(agenda).kind = KindAt(At)
         /\ \A f \in NodeKind : Head(agenda).kind = ListenerOnExit(f) => KindAt(At) = f
         /\ Head(agenda).kind \in Nat
<1> DEFINE k == Head(agenda).kind
           f == KindAt(At)
<1>1. k \in KindsOf(f) /\ f \in NodeKind
  BY CallNode
<1> HIDE DEF k, f
<1>2. k \in Nat /\ f \in 1 .. 999 /\ \E i \in 0 .. 5 : k = f + 1000 * i
  BY <1>1 DEF KindsOf, NodeKind
<1>3. k \in NodeKind => k = f
  BY <1>2 DEF NodeKind
<1>4. \A g \in NodeKind : k = ListenerOnExit(g) => f = g
  BY <1>2 DEF NodeKind, ListenerOnExit
<1> QED BY <1>2, <1>3, <1>4 DEF k, f

\* What is visited, after a call.
LEMMA VisitedChanges ==
  ASSUME WalkingInv, WalkingInv', RunListeners, Calling, ast' = ast
  PROVE  \A q : q \in Visited' <=> q \in Visited \/ (Head(agenda).kind \in NodeKind /\ q = At)
<1>1. WalkInv /\ WalkInv'
  BY DEF WalkingInv
<1>2. VisitedCalled'
  BY <1>1, VisitedHere, PTL
<1>3. ASSUME NEW q
      PROVE  Called(KindAt(q), q)' <=> Called(KindAt(q), q) \/ (Head(agenda).kind = KindAt(q) /\ q = At)
  <2>1. KindAt(q)' = KindAt(q)
    BY TreeStays
  <2>2. Called(KindAt(q), q)' <=> [kind |-> KindAt(q), at |-> q] \in Range(events')
    BY <2>1 DEF Called
  <2>3. ASSUME NEW x
        PROVE  [kind |-> x, at |-> q] \in Range(events') <=> Called(x, q) \/ (x = Head(agenda).kind /\ q = At)
    <3>1. Called(x, q)' <=> Called(x, q) \/ (x = Head(agenda).kind /\ q = At)
      BY <1>1, RunChanges
    <3> QED BY <3>1 DEF Called
  <2> QED BY <2>2, <2>3
<1>4. KindAt(At) \in NodeKind /\ (Head(agenda).kind \in NodeKind => Head(agenda).kind = KindAt(At))
  BY CallNode, CallKind
<1>5. VisitedCalled
  BY <1>1, VisitedHere
<1> QED BY <1>2, <1>3, <1>4, <1>5 DEF VisitedCalled

\* Which functions are open, after a call.
LEMMA OpenChanges ==
  ASSUME WalkingInv, RunListeners, Calling, ast' = ast, NEW p
  PROVE  /\ Head(agenda).kind \in FunctionKinds => (Open(p)' <=> Open(p) \/ p = At)
         /\ \A f \in FunctionKinds :
              Head(agenda).kind = ListenerOnExit(f) => (Open(p)' <=> Open(p) /\ p # At)
         /\ (/\ Head(agenda).kind \notin FunctionKinds
             /\ \A f \in FunctionKinds : Head(agenda).kind # ListenerOnExit(f))
              => (Open(p)' <=> Open(p))
<1> DEFINE k == Head(agenda).kind
           kp == KindAt(p)
<1>1. Open(p) <=> /\ p \in Path /\ kp \in FunctionKinds
                  /\ Called(kp, p) /\ ~ Called(ListenerOnExit(kp), p)
  BY DEF Open, IsFunction
<1>2. Open(p)' <=> /\ p \in Path /\ kp \in FunctionKinds
                   /\ Called(kp, p) \/ (kp = k /\ p = At)
                   /\ ~ (Called(ListenerOnExit(kp), p) \/ (ListenerOnExit(kp) = k /\ p = At))
  <2>1. KindAt(p)' = kp
    BY TreeStays
  <2>2. Open(p)' <=> /\ p \in Path /\ kp \in FunctionKinds
                     /\ [kind |-> kp, at |-> p] \in Range(events')
                     /\ ~ ([kind |-> ListenerOnExit(kp), at |-> p] \in Range(events'))
    BY <2>1 DEF Open, IsFunction, Called, ListenerOnExit
  <2> HIDE DEF kp, k
  <2>3. ASSUME NEW x
        PROVE  [kind |-> x, at |-> p] \in Range(events') <=> Called(x, p) \/ (x = k /\ p = At)
    <3>1. Called(x, p)' <=> Called(x, p) \/ (x = k /\ p = At)
      BY RunChanges DEF WalkingInv, k
    <3> QED BY <3>1 DEF Called
  <2> QED BY <2>2, <2>3
<1>3. FunctionKinds \subseteq NodeKind
  BY DEF FunctionKinds, FunctionDeclaration, ArrowFunction, NodeKind
<1>4. /\ k \in NodeKind => k = KindAt(At)
      /\ \A f \in NodeKind : k = ListenerOnExit(f) => KindAt(At) = f
  BY CallKind
<1>5. At \in Path /\ ~ Called(k, At)
  BY CallNode
<1>6. \A f, g \in FunctionKinds : f # ListenerOnExit(g)
  BY DEF FunctionKinds, FunctionDeclaration, ArrowFunction, ListenerOnExit
<1>7. ASSUME k \in FunctionKinds PROVE Open(p)' <=> Open(p) \/ p = At
  <2>1. k = KindAt(At)
    BY <1>3, <1>4, <1>7
  <2>2. ~ Called(ListenerOnExit(KindAt(At)), At)
    BY <1>5, <1>7, <2>1, VisitedLater, LeadsReflexive DEF IsFunction
  <2>3. k # ListenerOnExit(kp) \/ kp \notin FunctionKinds
    BY <1>6, <1>7
  <2>4. CASE p = At
    <3>1. kp = k
      BY <2>1, <2>4
    <3> HIDE DEF k, kp
    <3> QED BY <1>2, <1>5, <1>7, <2>2, <2>3, <2>4, <3>1 DEF kp
  <2>5. CASE p # At
    <3> HIDE DEF k, kp
    <3> QED BY <1>1, <1>2, <2>5
  <2> QED BY <2>4, <2>5
<1>8. ASSUME NEW f \in FunctionKinds, k = ListenerOnExit(f)
      PROVE  Open(p)' <=> Open(p) /\ p # At
  <2>1. KindAt(At) = f
    BY <1>3, <1>4, <1>8
  <2>2. CASE p = At
    <3>1. kp = f
      BY <2>1, <2>2
    <3> HIDE DEF k, kp
    <3> QED BY <1>2, <1>8, <2>2, <3>1
  <2>3. CASE p # At
    <3> HIDE DEF k, kp
    <3> QED BY <1>1, <1>2, <2>3
  <2> QED BY <2>2, <2>3
<1>9. ASSUME k \notin FunctionKinds, \A f \in FunctionKinds : k # ListenerOnExit(f)
      PROVE  Open(p)' <=> Open(p)
  <2> HIDE DEF k, kp
  <2> QED BY <1>1, <1>2, <1>9
<1> QED BY <1>7, <1>8, <1>9 DEF k

\* When a node's own listener is called, the functions around it are open, and no others.
LEMMA OpenOnEntry ==
  ASSUME WalkingInv, Calling, Head(agenda).kind \in NodeKind, NEW p
  PROVE  Open(p) <=> p \in Path /\ IsFunction(p) /\ Leads(p, At) /\ p # At
<1>1. Head(agenda).kind = KindAt(At) /\ ~ Called(KindAt(At), At)
  BY CallKind, CallNode
<1>2. Open(p) => p \in Path /\ IsFunction(p) /\ p # At
  BY <1>1 DEF Open
<1> QED BY <1>2, OpenIsAround, AroundIsOpen

\* When a function is left, it is open too.
LEMMA OpenOnExit ==
  ASSUME WalkingInv, Calling, NEW f \in FunctionKinds, Head(agenda).kind = ListenerOnExit(f), NEW p
  PROVE  /\ Open(p) <=> p \in Path /\ IsFunction(p) /\ Leads(p, At)
         /\ IsFunction(At) /\ At \in Path
<1>1. f \in NodeKind
  BY DEF FunctionKinds, FunctionDeclaration, ArrowFunction, NodeKind
<1>2. KindAt(At) = f /\ At \in Path
  BY <1>1, CallKind, CallNode
<1>3. IsFunction(At) /\ Open(At)
  BY <1>2, LeavingInnermost DEF IsFunction
<1>4. Open(p) => p \in Path /\ IsFunction(p)
  BY DEF Open
<1> QED BY <1>2, <1>3, <1>4, OpenIsAround, AroundIsOpen

-----------------------------------------------------------------------------
(* The stacks. *)

LEMMA PushFacts ==
  ASSUME NEW T, NEW s \in Seq(T), NEW x \in T
  PROVE  /\ <<x>> \o s \in Seq(T) /\ Len(<<x>> \o s) = Len(s) + 1 /\ (<<x>> \o s)[1] = x
         /\ \A i \in 1 .. Len(s) : (<<x>> \o s)[i + 1] = s[i]
         /\ \A i \in 1 .. Len(s) + 1 : i = 1 \/ \E j \in 1 .. Len(s) : i = j + 1
         /\ Len(s) \in Nat
<1>1. Len(s) \in Nat
  OBVIOUS
<1>2. /\ <<x>> \o s \in Seq(T) /\ Len(<<x>> \o s) = Len(s) + 1 /\ (<<x>> \o s)[1] = x
      /\ \A i \in 1 .. Len(s) : (<<x>> \o s)[i + 1] = s[i]
  BY <1>1
<1>3. ASSUME NEW i \in 1 .. Len(s) + 1, i # 1 PROVE \E j \in 1 .. Len(s) : i = j + 1
  <2>1. i - 1 \in 1 .. Len(s) /\ i = (i - 1) + 1
    BY <1>1, <1>3
  <2> QED BY <2>1
<1> QED BY <1>1, <1>2, <1>3

LEMMA PopFacts ==
  ASSUME NEW T, NEW s \in Seq(T), s # << >>
  PROVE  /\ Tail(s) \in Seq(T) /\ Len(Tail(s)) = Len(s) - 1 /\ Len(s) - 1 \in Nat
         /\ 1 \in 1 .. Len(s) /\ Len(s) \in Nat
         /\ \A i \in 1 .. Len(s) - 1 : Tail(s)[i] = s[i + 1] /\ i + 1 \in 1 .. Len(s)
         /\ \A i \in 1 .. Len(s) : i = 1 \/ \E j \in 1 .. Len(s) - 1 : i = j + 1
<1>1. Len(s) \in Nat /\ Len(s) # 0
  OBVIOUS
<1>2. /\ Tail(s) \in Seq(T) /\ Len(Tail(s)) = Len(s) - 1 /\ Len(s) - 1 \in Nat
      /\ 1 \in 1 .. Len(s)
      /\ \A i \in 1 .. Len(s) - 1 : Tail(s)[i] = s[i + 1] /\ i + 1 \in 1 .. Len(s)
  BY <1>1
<1>3. ASSUME NEW i \in 1 .. Len(s), i # 1 PROVE \E j \in 1 .. Len(s) - 1 : i = j + 1
  <2>1. i - 1 \in 1 .. Len(s) - 1 /\ i = (i - 1) + 1
    BY <1>1, <1>3
  <2> QED BY <2>1
<1> QED BY <1>1, <1>2, <1>3

Inside(p, q) == Leads(q, p) /\ q # p

\* return-await's scopes are those of the open functions, innermost first.
StackInv ==
  /\ scope \in Seq([hasAsync : BOOLEAN, owningFunc : Path])
  /\ \A p : Open(p) <=> \E i \in 1 .. Len(scope) : scope[i].owningFunc = p
  /\ \A i, j \in 1 .. Len(scope) : i < j => Inside(scope[i].owningFunc, scope[j].owningFunc)
  /\ \A i \in 1 .. Len(scope), p \in Path :
       scope[i].owningFunc = p => (scope[i].hasAsync <=> Has(NodeAt(p), "async"))

LEMMA StackChanges ==
  ASSUME ReturnAwaitNext, ~ Visit
  PROVE  /\ Head(agenda).kind \in FunctionKinds =>
              scope' = <<[hasAsync |-> Has(NodeAt(At), "async"), owningFunc |-> At]>> \o scope
         /\ \A f \in FunctionKinds : Head(agenda).kind = ListenerOnExit(f) => scope' = Tail(scope)
         /\ (/\ Head(agenda).kind \notin FunctionKinds
             /\ \A f \in FunctionKinds : Head(agenda).kind # ListenerOnExit(f))
              => scope' = scope
<1> DEFINE k == Head(agenda).kind
           x == [hasAsync |-> Has(NodeAt(At), "async"), owningFunc |-> At]
<1>1. \/ k \in FunctionKinds /\ scope' = <<x>> \o scope
      \/ (\E f \in FunctionKinds : k = ListenerOnExit(f)) /\ scope' = Tail(scope)
      \/ k = ReturnStatement /\ scope' = scope
      \/ k \notin FunctionKinds \cup { ListenerOnExit(f) : f \in FunctionKinds } /\ scope' = scope
  <2>1. CASE EnterOwnerListener
    BY <2>1 DEF EnterOwnerListener, Calls
  <2>2. CASE LeaveOwnerListener
    BY <2>2 DEF LeaveOwnerListener, Calls, FunctionKinds
  <2>3. CASE LeaveArrowFunctionListener
    BY <2>3 DEF LeaveArrowFunctionListener, Calls, FunctionKinds
  <2>4. CASE ReturnedListener
    BY <2>4 DEF ReturnedListener, Calls
  <2>5. CASE NoReturnAwaitListener
    BY <2>5 DEF NoReturnAwaitListener
  <2> QED BY <2>1, <2>2, <2>3, <2>4, <2>5 DEF ReturnAwaitNext
<1> HIDE DEF k, x
<1>2. \A f, g \in FunctionKinds : f # ListenerOnExit(g) /\ f # ReturnStatement /\ ListenerOnExit(f) # ReturnStatement
  BY DEF FunctionKinds, FunctionDeclaration, ArrowFunction, ListenerOnExit, ReturnStatement
<1> QED BY <1>1, <1>2 DEF k, x

LEMMA InitStack == RulesInit => StackInv
<1> SUFFICES ASSUME RulesInit PROVE StackInv
  OBVIOUS
<1>1. scope = << >> /\ events = << >>
  BY DEF RulesInit, ReturnAwaitInit, Init
<1>2. \A p : ~ Open(p)
  BY <1>1 DEF Open, Called, Range
<1>3. << >> \in Seq([hasAsync : BOOLEAN, owningFunc : Path]) /\ Len(<< >>) = 0 /\ 1 .. 0 = {}
  OBVIOUS
<1> QED BY <1>1, <1>2, <1>3 DEF StackInv

\* The function left is the one of the innermost scope.
LEMMA TopIsLeft ==
  ASSUME WalkingInv, Calling, StackInv, NEW f \in FunctionKinds, Head(agenda).kind = ListenerOnExit(f)
  PROVE  scope # << >> /\ 1 \in 1 .. Len(scope) /\ scope[1].owningFunc = At
<1>1. Open(At)
  BY OpenOnExit, LeadsReflexive
<1>2. PICK i \in 1 .. Len(scope) : scope[i].owningFunc = At
  BY <1>1 DEF StackInv
<1>3. Len(scope) \in Nat
  BY DEF StackInv
<1>4. 1 \in 1 .. Len(scope) /\ scope # << >>
  BY <1>2, <1>3
<1>5. CASE i # 1
  <2>1. Inside(scope[1].owningFunc, At)
    <3>1. 1 < i
      BY <1>3, <1>5
    <3> QED BY <1>2, <1>4, <3>1 DEF StackInv
  <2>2. Open(scope[1].owningFunc)
    BY <1>4 DEF StackInv
  <2>3. Leads(scope[1].owningFunc, At) /\ Leads(At, scope[1].owningFunc)
    BY <2>1, <2>2, OpenOnExit DEF Inside
  <2>4. scope[1].owningFunc \in Path /\ At \in Path
    BY <2>2, OpenOnExit
  <2> QED BY <2>1, <2>3, <2>4, LeadsBothWays DEF Inside
<1> QED BY <1>2, <1>4, <1>5

LEMMA StepStack == WalkingInv /\ StackInv /\ [RulesNext]_allVars => StackInv'
<1> SUFFICES ASSUME WalkingInv, StackInv, [RulesNext]_allVars PROVE StackInv'
  OBVIOUS
<1> DEFINE T == [hasAsync : BOOLEAN, owningFunc : Path]
           k == Head(agenda).kind
           HasAsync(p) == Has(NodeAt(p), "async")
<1>1. /\ scope \in Seq(T) /\ Len(scope) \in Nat
      /\ \A p : Open(p) <=> \E i \in 1 .. Len(scope) : scope[i].owningFunc = p
      /\ \A i, j \in 1 .. Len(scope) : i < j => Inside(scope[i].owningFunc, scope[j].owningFunc)
      /\ \A i \in 1 .. Len(scope), p \in Path :
           scope[i].owningFunc = p => (scope[i].hasAsync <=> HasAsync(p))
  BY DEF StackInv
<1>2. ASSUME ast' = ast PROVE \A p : Has(NodeAt(p), "async")' <=> HasAsync(p)
  BY <1>2, TreeStays DEF Has
<1>3. CASE UNCHANGED <<ast, events, rulesVars>>
  <2>1. \A p : Open(p)' <=> Open(p)
    <3>1. ASSUME NEW p PROVE KindAt(p)' = KindAt(p)
      BY <1>3, TreeStays
    <3> QED BY <1>3, <3>1 DEF Open, Called, IsFunction, ListenerOnExit
  <2>2. scope' = scope
    BY <1>3 DEF rulesVars
  <2> HIDE DEF HasAsync
  <2> QED BY <1>1, <1>2, <1>3, <2>1, <2>2 DEF StackInv
<1>4. CASE RulesNext /\ RunListeners /\ Calling /\ ast' = ast /\ ~ Visit
  <2>1. ReturnAwaitNext
    BY <1>4 DEF RulesNext
  <2>2. CASE k \in FunctionKinds
    <3> DEFINE x == [hasAsync |-> Has(NodeAt(At), "async"), owningFunc |-> At]
               s == <<x>> \o scope
    <3>1. scope' = s
      BY <1>4, <2>1, <2>2, StackChanges
    <3>2. k \in NodeKind /\ At \in Path
      BY <1>4, <2>2, CallNode DEF FunctionKinds, FunctionDeclaration, ArrowFunction, NodeKind
    <3>3. x \in T /\ x.owningFunc = At /\ (x.hasAsync <=> HasAsync(At))
      <4> DEFINE b == Has(NodeAt(At), "async")
      <4>1. b \in BOOLEAN
        BY DEF Has
      <4> HIDE DEF b
      <4>2. [hasAsync |-> b, owningFunc |-> At] \in T
        BY <3>2, <4>1
      <4> QED BY <4>2 DEF b
    <3>4. \A p : Open(p)' <=> Open(p) \/ p = At
      BY <1>4, <2>2, OpenChanges
    <3>5. \A p : Open(p) => Inside(At, p)
      BY <1>4, <3>2, OpenOnEntry DEF Inside
    <3> HIDE DEF x, T, HasAsync
    <3>6. /\ s \in Seq(T) /\ Len(s) = Len(scope) + 1 /\ s[1] = x
          /\ \A i \in 1 .. Len(scope) : s[i + 1] = scope[i]
          /\ \A i \in 1 .. Len(scope) + 1 : i = 1 \/ \E j \in 1 .. Len(scope) : i = j + 1
          /\ 1 \in 1 .. Len(scope) + 1 /\ \A j \in 1 .. Len(scope) : j + 1 \in 1 .. Len(scope) + 1
      BY <1>1, <3>3, PushFacts
    <3> HIDE DEF s
    <3>7. ASSUME NEW i \in 1 .. Len(scope) + 1, NEW j \in 1 .. Len(scope) + 1, i < j
          PROVE  Inside(s[i].owningFunc, s[j].owningFunc)
      <4>1. PICK j2 \in 1 .. Len(scope) : j = j2 + 1
        BY <1>1, <3>6, <3>7
      <4>2. CASE i = 1
        BY <1>1, <3>3, <3>5, <3>6, <4>1, <4>2
      <4>3. CASE i # 1
        <5>1. PICK i2 \in 1 .. Len(scope) : i = i2 + 1
          BY <3>6, <4>3
        <5>2. i2 < j2
          BY <1>1, <3>7, <4>1, <5>1
        <5> QED BY <1>1, <3>6, <4>1, <5>1, <5>2
      <4> QED BY <4>2, <4>3
    <3>8. ASSUME NEW p PROVE Open(p)' <=> \E i \in 1 .. Len(scope) + 1 : s[i].owningFunc = p
      <4>1. ASSUME NEW i \in 1 .. Len(scope) + 1, s[i].owningFunc = p PROVE Open(p) \/ p = At
        <5>1. CASE i = 1
          BY <3>3, <3>6, <4>1, <5>1
        <5>2. CASE i # 1
          <6>1. PICK j \in 1 .. Len(scope) : i = j + 1
            BY <3>6, <5>2
          <6>2. s[i] = scope[j]
            BY <3>6, <6>1
          <6> QED BY <1>1, <4>1, <6>2
        <5> QED BY <5>1, <5>2
      <4>2. ASSUME Open(p) PROVE \E i \in 1 .. Len(scope) + 1 : s[i].owningFunc = p
        <5>1. PICK j \in 1 .. Len(scope) : scope[j].owningFunc = p
          BY <1>1, <4>2
        <5>2. j + 1 \in 1 .. Len(scope) + 1 /\ s[j + 1] = scope[j]
          BY <3>6
        <5> QED BY <5>1, <5>2
      <4>3. ASSUME p = At PROVE \E i \in 1 .. Len(scope) + 1 : s[i].owningFunc = p
        BY <3>3, <3>6, <4>3
      <4> QED BY <3>4, <4>1, <4>2, <4>3
    <3>9. ASSUME NEW i \in 1 .. Len(scope) + 1, NEW p \in Path, s[i].owningFunc = p
          PROVE  s[i].hasAsync <=> HasAsync(p)
      <4>1. CASE i = 1
        BY <3>3, <3>6, <3>9, <4>1
      <4>2. CASE i # 1
        <5>1. PICK j \in 1 .. Len(scope) : i = j + 1
          BY <3>6, <4>2
        <5>2. s[i] = scope[j]
          BY <3>6, <5>1
        <5> QED BY <1>1, <3>9, <5>2
      <4> QED BY <4>1, <4>2
    <3> HIDE DEF k
    <3>10. Len(scope') = Len(scope) + 1 /\ scope' \in Seq(T)
      BY <3>1, <3>6
    <3> QED BY <1>2, <1>4, <3>1, <3>7, <3>8, <3>9, <3>10 DEF StackInv, T
  <2>3. ASSUME NEW f \in FunctionKinds, k = ListenerOnExit(f) PROVE StackInv'
    <3> DEFINE s == Tail(scope)
    <3>1. scope' = s
      BY <1>4, <2>1, <2>3, StackChanges
    <3>2. scope # << >> /\ scope[1].owningFunc = At
      BY <1>4, <2>3, TopIsLeft
    <3>3. \A p : Open(p)' <=> Open(p) /\ p # At
      BY <1>4, <2>3, OpenChanges
    <3> HIDE DEF T, HasAsync
    <3>4. /\ s \in Seq(T) /\ Len(s) = Len(scope) - 1 /\ 1 \in 1 .. Len(scope)
          /\ \A i \in 1 .. Len(scope) - 1 : s[i] = scope[i + 1] /\ i + 1 \in 1 .. Len(scope)
          /\ \A i \in 1 .. Len(scope) : i = 1 \/ \E j \in 1 .. Len(scope) - 1 : i = j + 1
      BY <1>1, <3>2, PopFacts
    <3> HIDE DEF s
    <3>5. ASSUME NEW i \in 1 .. Len(scope) - 1, NEW j \in 1 .. Len(scope) - 1, i < j
          PROVE  Inside(s[i].owningFunc, s[j].owningFunc)
      <4>1. i + 1 < j + 1
        BY <3>5
      <4> QED BY <1>1, <3>4, <4>1
    <3>6. ASSUME NEW j \in 1 .. Len(scope) - 1 PROVE scope[j + 1].owningFunc # At
      <4>1. 1 < j + 1
        OBVIOUS
      <4> QED BY <1>1, <3>2, <3>4, <4>1 DEF Inside
    <3>7. ASSUME NEW p PROVE Open(p)' <=> \E i \in 1 .. Len(scope) - 1 : s[i].owningFunc = p
      <4>1. ASSUME NEW i \in 1 .. Len(scope) - 1, s[i].owningFunc = p PROVE Open(p) /\ p # At
        <5>1. s[i] = scope[i + 1] /\ i + 1 \in 1 .. Len(scope) /\ scope[i + 1].owningFunc # At
          BY <3>4, <3>6
        <5> QED BY <1>1, <4>1, <5>1
      <4>2. ASSUME Open(p), p # At PROVE \E i \in 1 .. Len(scope) - 1 : s[i].owningFunc = p
        <5>1. PICK i \in 1 .. Len(scope) : scope[i].owningFunc = p
          BY <1>1, <4>2
        <5>2. PICK j \in 1 .. Len(scope) - 1 : i = j + 1
          BY <3>2, <3>4, <4>2, <5>1
        <5>3. s[j] = scope[i]
          BY <3>4, <5>2
        <5> QED BY <5>1, <5>3
      <4> QED BY <3>3, <4>1, <4>2
    <3>8. ASSUME NEW i \in 1 .. Len(scope) - 1, NEW p \in Path, s[i].owningFunc = p
          PROVE  s[i].hasAsync <=> HasAsync(p)
      BY <1>1, <3>4, <3>8
    <3> HIDE DEF k
    <3>9. Len(scope') = Len(scope) - 1 /\ scope' \in Seq(T)
      BY <3>1, <3>4
    <3> QED BY <1>2, <1>4, <3>1, <3>5, <3>7, <3>8, <3>9 DEF StackInv, T
  <2>4. CASE k \notin FunctionKinds /\ \A f \in FunctionKinds : k # ListenerOnExit(f)
    <3>1. scope' = scope
      BY <1>4, <2>1, <2>4, StackChanges
    <3>2. \A p : Open(p)' <=> Open(p)
      BY <1>4, <2>4, OpenChanges
    <3> HIDE DEF HasAsync, k
    <3> QED BY <1>1, <1>2, <1>4, <3>1, <3>2 DEF StackInv
  <2> QED BY <2>2, <2>3, <2>4
<1>5. CASE UNCHANGED allVars
  BY <1>3, <1>5 DEF allVars, vars, rulesVars
<1> QED BY <1>3, <1>4, <1>5, StepIs

-----------------------------------------------------------------------------
(* The scopes are those of the functions around the node of a call. *)

\* Numbers in falling order are counted.
LEMMA RankIs ==
  ASSUME NEW k \in Nat, NEW f \in [1 .. k -> Nat], \A i, j \in 1 .. k : i < j => f[j] < f[i],
         NEW S, S = { f[i] : i \in 1 .. k }
  PROVE  /\ Cardinality(S) = k
         /\ \A i \in 1 .. k : Cardinality({ m \in S : m >= f[i] }) = i
<1>1. ASSUME NEW n \in 0 .. k PROVE Cardinality({ f[i] : i \in 1 .. n }) = n
  <2> DEFINE g == [i \in 1 .. n |-> f[i]]
             T == { f[i] : i \in 1 .. n }
  <2>1. g \in Bijection(1 .. n, T)
    <3>1. \A i, j \in 1 .. n : g[i] = g[j] => i = j
      <4>1. \A i, j \in 1 .. n : i < j => g[j] < g[i]
        OBVIOUS
      <4>2. \A i \in 1 .. n : g[i] \in Nat /\ i \in Nat
        OBVIOUS
      <4> HIDE DEF g
      <4>3. ASSUME NEW i \in 1 .. n, NEW j \in 1 .. n, g[i] = g[j] PROVE i = j
        <5>1. ~ (i < j) /\ ~ (j < i)
          BY <4>1, <4>2, <4>3
        <5> QED BY <4>2, <5>1
      <4> QED BY <4>3
    <3>2. g \in [1 .. n -> T] /\ \A t \in T : \E i \in 1 .. n : g[i] = t
      OBVIOUS
    <3> HIDE DEF g, T
    <3> QED BY <3>1, <3>2 DEF Bijection, Injection, Surjection, IsInjective
  <2>2. IsFiniteSet(1 .. n) /\ Cardinality(1 .. n) = n
    <3>1. IsFiniteSet(1 .. n) /\ Cardinality(1 .. n) = IF 1 > n THEN 0 ELSE n - 1 + 1
      BY FS_Interval
    <3> QED BY <3>1
  <2> HIDE DEF T
  <2>3. Cardinality(T) = Cardinality(1 .. n)
    BY <2>1, <2>2, FS_Bijection DEF ExistsBijection
  <2> QED BY <2>2, <2>3 DEF T
<1>2. ASSUME NEW i \in 1 .. k PROVE { m \in S : m >= f[i] } = { f[j] : j \in 1 .. i }
  <2>1. ASSUME NEW j \in 1 .. k PROVE f[j] >= f[i] <=> j \in 1 .. i
    <3>1. f[i] \in Nat /\ f[j] \in Nat
      OBVIOUS
    <3>2. CASE i < j
      BY <3>1, <3>2
    <3>3. CASE j < i
      BY <3>1, <3>3
    <3>4. CASE i = j
      BY <3>1, <3>4
    <3> QED BY <3>2, <3>3, <3>4
  <2>2. 1 .. i \subseteq 1 .. k
    OBVIOUS
  <2> QED BY <2>1, <2>2
<1>3. k \in 0 .. k /\ \A i \in 1 .. k : i \in 0 .. k
  OBVIOUS
<1> QED BY <1>1, <1>2, <1>3

StackLengths == { Len(scope[i].owningFunc) : i \in 1 .. Len(scope) }

LEMMA StackFalls ==
  ASSUME StackInv
  PROVE  /\ Len(scope) \in Nat
         /\ \A i \in 1 .. Len(scope) : scope[i].owningFunc \in Path /\ Len(scope[i].owningFunc) \in Nat
         /\ \A i, j \in 1 .. Len(scope) :
              i < j => Len(scope[j].owningFunc) < Len(scope[i].owningFunc)
<1>1. Len(scope) \in Nat
  BY DEF StackInv
<1>2. ASSUME NEW i \in 1 .. Len(scope)
      PROVE  scope[i].owningFunc \in Path /\ Len(scope[i].owningFunc) \in Nat
  <2> DEFINE T == [hasAsync : BOOLEAN, owningFunc : Path]
  <2>1. scope \in Seq(T)
    BY DEF StackInv
  <2>2. \A x \in T : x.owningFunc \in Path
    OBVIOUS
  <2>3. \A q \in Path : Len(q) \in Nat
    BY DEF Path
  <2> HIDE DEF T
  <2>4. scope[i] \in T
    BY <2>1
  <2> QED BY <2>2, <2>3, <2>4
<1>3. ASSUME NEW i \in 1 .. Len(scope), NEW j \in 1 .. Len(scope), i < j
      PROVE  Len(scope[j].owningFunc) < Len(scope[i].owningFunc)
  <2> DEFINE p == scope[i].owningFunc
             q == scope[j].owningFunc
  <2>1. Inside(p, q)
    BY <1>3 DEF StackInv
  <2>2. p \in Path /\ q \in Path /\ Len(p) \in Nat /\ Len(q) \in Nat
    BY <1>2
  <2> HIDE DEF p, q
  <2>3. Len(q) <= Len(p) /\ Len(q) # Len(p)
    BY <2>1, <2>2, LeadsBothWays DEF Inside, Leads
  <2>4. Len(q) < Len(p)
    BY <2>2, <2>3
  <2> QED BY <2>4 DEF p, q
<1> QED BY <1>1, <1>2, <1>3

\* What the stack is when one of the rules' listeners is called.
LEMMA StackAround ==
  ASSUME WalkingInv, Calling, StackInv
  PROVE  /\ Head(agenda).kind \in NodeKind => FunctionsAround(At) = StackLengths
         /\ \A f \in FunctionKinds : Head(agenda).kind = ListenerOnExit(f) =>
              FunctionsAround(At) \cup {Len(At)} = StackLengths
         /\ \A i \in 1 .. Len(scope) :
              scope[i].owningFunc = Ancestor(At, Len(scope[i].owningFunc))
<1>1. At \in Path
  BY CallNode
<1>2. ASSUME NEW i \in 1 .. Len(scope)
      PROVE  /\ Open(scope[i].owningFunc) /\ scope[i].owningFunc \in Path
             /\ IsFunction(scope[i].owningFunc)
             /\ Leads(scope[i].owningFunc, At)
             /\ scope[i].owningFunc = Ancestor(At, Len(scope[i].owningFunc))
  <2>1. Open(scope[i].owningFunc) /\ scope[i].owningFunc \in Path
    BY StackFalls DEF StackInv
  <2>2. Leads(scope[i].owningFunc, At) /\ IsFunction(scope[i].owningFunc)
    BY <2>1, OpenIsAround DEF Open
  <2> QED BY <1>1, <2>1, <2>2, AncestorFacts
<1>3. ASSUME NEW n \in FunctionsAround(At) PROVE n \in StackLengths
  <2> DEFINE p == Ancestor(At, n)
  <2>1. p \in Path /\ Leads(p, At) /\ p # At /\ Len(p) = n /\ IsFunction(p)
    BY <1>1, AroundIs
  <2> HIDE DEF p
  <2>2. Open(p)
    BY <2>1, AroundIsOpen
  <2>3. PICK i \in 1 .. Len(scope) : scope[i].owningFunc = p
    BY <2>2 DEF StackInv
  <2> QED BY <2>1, <2>3 DEF StackLengths
<1>4. ASSUME NEW i \in 1 .. Len(scope), scope[i].owningFunc # At
      PROVE  Len(scope[i].owningFunc) \in FunctionsAround(At)
  BY <1>1, <1>2, <1>4, AroundIs
<1>5. ASSUME Head(agenda).kind \in NodeKind PROVE FunctionsAround(At) = StackLengths
  <2>1. \A i \in 1 .. Len(scope) : scope[i].owningFunc # At
    BY <1>2, <1>5, OpenOnEntry
  <2> QED BY <1>3, <1>4, <2>1 DEF StackLengths
<1>6. ASSUME NEW f \in FunctionKinds, Head(agenda).kind = ListenerOnExit(f)
      PROVE  FunctionsAround(At) \cup {Len(At)} = StackLengths
  <2>1. 1 \in 1 .. Len(scope) /\ scope[1].owningFunc = At
    BY <1>6, TopIsLeft
  <2>2. Len(At) \in StackLengths
    BY <2>1 DEF StackLengths
  <2>3. ASSUME NEW i \in 1 .. Len(scope)
        PROVE  Len(scope[i].owningFunc) \in FunctionsAround(At) \cup {Len(At)}
    BY <1>4
  <2> QED BY <1>3, <2>2, <2>3 DEF StackLengths
<1> QED BY <1>2, <1>5, <1>6

\* The counts of the stack.
LEMMA StackCounts ==
  ASSUME StackInv
  PROVE  /\ Cardinality(StackLengths) = Len(scope)
         /\ \A i \in 1 .. Len(scope) :
              Cardinality({ m \in StackLengths : m >= Len(scope[i].owningFunc) }) = i
<1> DEFINE k == Len(scope)
           f == [i \in 1 .. k |-> Len(scope[i].owningFunc)]
<1>1. k \in Nat /\ f \in [1 .. k -> Nat] /\ \A i, j \in 1 .. k : i < j => f[j] < f[i]
  BY StackFalls
<1>2. StackLengths = { f[i] : i \in 1 .. k }
  BY DEF StackLengths
<1>3. \A i \in 1 .. k : f[i] = Len(scope[i].owningFunc)
  OBVIOUS
<1> HIDE DEF f
<1>4. Cardinality(StackLengths) = k /\ \A i \in 1 .. k : Cardinality({ m \in StackLengths : m >= f[i] }) = i
  <2> HIDE DEF k
  <2> QED BY <1>1, <1>2, RankIs
<1>5. ASSUME NEW i \in 1 .. k
      PROVE  Cardinality({ m \in StackLengths : m >= Len(scope[i].owningFunc) }) = i
  <2>1. f[i] = Len(scope[i].owningFunc)
    BY <1>3
  <2> QED BY <1>4, <2>1
<1> QED BY <1>4, <1>5

\* The innermost scope is that of the function that a node is directly in.
LEMMA TopOwns ==
  ASSUME WalkingInv, Calling, StackInv, Head(agenda).kind \in NodeKind, NEW p
  PROVE  /\ DirectlyIn(At, p) <=> scope # << >> /\ p = scope[1].owningFunc
         /\ FunctionsAround(At) # {} <=> scope # << >>
         /\ scope # << >> => 1 \in 1 .. Len(scope) /\ scope[1].owningFunc = Owner(At)
<1>1. /\ Len(scope) \in Nat /\ scope # << >> <=> Len(scope) # 0
      /\ \A i, j \in 1 .. Len(scope) :
           i < j => Len(scope[j].owningFunc) < Len(scope[i].owningFunc)
      /\ \A i \in 1 .. Len(scope) : Len(scope[i].owningFunc) \in Nat
  <2>1. scope # << >> <=> Len(scope) # 0
    BY DEF StackInv
  <2> QED BY <2>1, StackFalls
<1>2. FunctionsAround(At) = StackLengths
  BY StackAround
<1>3. scope = << >> => FunctionsAround(At) = {}
  BY <1>1, <1>2 DEF StackLengths
<1>4. ASSUME scope # << >>
      PROVE  1 \in 1 .. Len(scope) /\ scope[1].owningFunc = Owner(At) /\ FunctionsAround(At) # {}
  <2>1. 1 \in 1 .. Len(scope)
    BY <1>1, <1>4
  <2> DEFINE m == Len(scope[1].owningFunc)
  <2>2. m \in StackLengths
    BY <2>1 DEF StackLengths
  <2>3. ASSUME NEW x \in StackLengths PROVE x <= m
    <3>1. PICK i \in 1 .. Len(scope) : x = Len(scope[i].owningFunc)
      BY DEF StackLengths
    <3>2. CASE i = 1
      BY <1>1, <2>1, <3>1, <3>2
    <3>3. CASE i # 1
      <4>1. 1 < i
        BY <3>3
      <4> QED BY <1>1, <2>1, <3>1, <4>1
    <3> QED BY <3>2, <3>3
  <2> HIDE DEF m
  <2>4. At \in Path /\ StackLengths \subseteq 0 .. Len(At) /\ Len(At) \in Nat
    BY <1>2, CallNode, AroundIs
  <2>5. Max(StackLengths) = m
    BY <2>2, <2>3, <2>4, MaxIs
  <2>6. scope[1].owningFunc = Ancestor(At, m)
    BY <2>1, StackAround DEF m
  <2> QED BY <1>2, <2>1, <2>2, <2>5, <2>6 DEF Owner
<1> QED BY <1>3, <1>4 DEF DirectlyIn

-----------------------------------------------------------------------------
(* What has been visited of a function when it is left. *)

\* The calls that open and close the function being left.
LEMMA LeavingCalls ==
  ASSUME WalkingInv, Calling, NEW f \in FunctionKinds, Head(agenda).kind = ListenerOnExit(f)
  PROVE  \E i \in 1 .. Len(events) :
           Now[i] = Run(KindAt(At), At) /\ Within(i, Len(events) + 1, At)
<1> DEFINE u == Len(events) + 1
<1>1. /\ WalkInv /\ Len(events) \in Nat /\ Len(Now) \in Nat
      /\ u \in 1 .. Len(Now) /\ Now[u] = Head(agenda) /\ IsRun(Now[u])
  BY NowFacts DEF WalkingInv, Calling
<1>2. f \in NodeKind /\ KindAt(At) = f /\ Head(agenda) = Run(ListenerOnExit(f), At)
  BY CallKind, CallNode DEF FunctionKinds, FunctionDeclaration, ArrowFunction, NodeKind
<1>3. Open(At)
  BY OpenOnExit, LeadsReflexive
<1>4. PICK i \in 1 .. Len(events), m \in u .. Len(Now) :
        /\ Now[i] = Run(KindAt(At), At) /\ Now[m] = Run(ListenerOnExit(KindAt(At)), At)
        /\ Within(i, m, At)
  BY <1>3, OpenCalls
<1>5. m \in 1 .. Len(Now) /\ Now[m] = Now[u]
  BY <1>1, <1>2, <1>4
<1>6. m = u
  <2> HIDE DEF u
  <2> QED BY <1>1, <1>5, CalledOnce
<1> QED BY <1>4, <1>6

\* The body of the function being left has been visited.
LEMMA BodyVisited ==
  ASSUME WalkingInv, Calling, NEW f \in FunctionKinds, Head(agenda).kind = ListenerOnExit(f),
         HasBody(NodeAt(At))
  PROVE  /\ Append(At, 2) \in Visited /\ DirectlyIn(Append(At, 2), At)
         /\ NodeAt(Append(At, 2)) = Body(NodeAt(At))
         /\ NodeOn(ast, Append(At, 2), Body(NodeAt(At))) /\ Body(NodeAt(At)) \in Nodes
<1> DEFINE b == Append(At, 2)
           u == Len(events) + 1
           node == NodeAt(At)
<1>1. /\ WalkInv /\ Len(events) \in Nat /\ Len(Now) \in Nat
      /\ u \in 1 .. Len(Now) /\ Now[u] = Head(agenda) /\ IsRun(Now[u])
  BY NowFacts DEF WalkingInv, Calling
<1>2. At \in Path /\ NodeOn(ast, At, node) /\ node \in Nodes /\ ~ Skipped(Range(Now), At)
  BY CallNode
<1>3. 2 \in DOMAIN node.kids
  BY <1>2, NodeFacts DEF HasBody
<1>4. NodeOn(ast, b, Body(node)) /\ Body(node) \in Nodes
  BY <1>2, <1>3, ChildOn, NodeFacts DEF Body
<1>5. /\ b \in Path /\ Leads(At, b) /\ At # b /\ b # << >> /\ Len(b) = Len(At) + 1
      /\ b[Len(At) + 1] = 2 /\ \A k \in 1 .. Len(At) : b[k] = At[k]
  <2>1. ASSUME NEW i \in Nat \ {0}
        PROVE  /\ Append(At, i) \in Path /\ Leads(At, Append(At, i)) /\ At # Append(At, i)
               /\ Append(At, i) # << >> /\ Len(Append(At, i)) = Len(At) + 1
               /\ Append(At, i)[Len(At) + 1] = i
               /\ \A k \in 1 .. Len(At) : Append(At, i)[k] = At[k]
    BY <1>2, ChildPath
  <2>2. 2 \in Nat \ {0}
    OBVIOUS
  <2> QED BY <2>1, <2>2
<1>6. NodeAt(b) = Body(node)
  BY <1>4, <1>5, NodeAtOn
<1>7. IsFunction(At)
  BY OpenOnExit
<1>8. DirectlyIn(b, At)
  <2>1. ASSUME NEW r \in Path, IsFunction(r), Leads(r, b), r # b PROVE Leads(r, At)
    <3>1. 2 \in Nat \ {0}
      OBVIOUS
    <3> QED BY <1>2, <2>1, <3>1, LeadsToChild
  <2> HIDE DEF b
  <2> QED BY <1>2, <1>5, <1>7, <2>1, DirectlyInInnermost
<1>9. PICK i \in 1 .. Len(events) : Within(i, u, At)
  BY LeavingCalls
<1>10. Reached(Range(Now), b, Body(node))
  <2>1. b \in Below(ast)
    BY <1>4, <1>5 DEF Below
  <2> HIDE DEF b, node
  <2> QED BY <1>1, <1>4, <2>1, NowFacts DEF Walked
<1>11. Range(Now) = {Now[j] : j \in 1 .. Len(Now)}
  BY <1>1, NowFacts, SeqRange
<1>12. ASSUME Skipped(Range(Now), b) PROVE FALSE
  <2> DEFINE allow == ListenerOnAllowPattern(PropertyAssignment)
  <2>1. PICK n \in 1 .. Len(b) : b[n] = 1 /\ Run(allow, SubSeq(b, 1, n - 1)) \in Range(Now)
    BY <1>12 DEF Skipped
  <2>2. Len(At) \in Nat
    BY <1>2 DEF Path
  <2>3. n \in 1 .. Len(At) /\ At[n] = 1 /\ n - 1 \in 0 .. Len(At) /\ n - 1 \in 0 .. Len(b)
    BY <1>5, <2>1, <2>2
  <2>4. SubSeq(b, 1, n - 1) = SubSeq(At, 1, n - 1)
    <3> DEFINE p == SubSeq(b, 1, n - 1)
               q == SubSeq(At, 1, n - 1)
    <3>1. p \in Path /\ Len(p) = n - 1 /\ \A k \in 1 .. n - 1 : p[k] = b[k]
      BY <1>5, <2>3, PrefixIsPath
    <3>2. q \in Path /\ Len(q) = n - 1 /\ \A k \in 1 .. n - 1 : q[k] = At[k]
      BY <1>2, <2>3, PrefixIsPath
    <3>3. \A k \in 1 .. n - 1 : k \in 1 .. Len(At)
      BY <2>2, <2>3
    <3>4. \A k \in 1 .. n - 1 : b[k] = At[k]
      BY <1>5, <3>3
    <3> HIDE DEF p, q
    <3>5. Leads(p, q) /\ Leads(q, p)
      <4>1. n - 1 <= n - 1
        BY <2>3
      <4> QED BY <3>1, <3>2, <3>4, <4>1 DEF Leads
    <3>6. p = q
      BY <3>1, <3>2, <3>5, LeadsBothWays
    <3> QED BY <3>6 DEF p, q
  <2> HIDE DEF b, allow
  <2> QED BY <1>2, <2>1, <2>3, <2>4 DEF Skipped, allow
<1> HIDE DEF b, u, node
<1>13. ASSUME NEW x \in Range(Now), ~ IsRun(x), Leads(x.at, b) PROVE FALSE
  <2>1. PICK j \in 1 .. Len(Now) : x = Now[j]
    BY <1>11
  <2>2. j # u /\ ~ Leads(x.at, At)
    <3>1. j # u
      BY <1>1, <1>13, <2>1
    <3>2. Now[u].at = At
      BY <1>1 DEF At
    <3> QED BY <1>1, <1>13, <2>1, <3>1, <3>2, NowFacts DEF Tidy
  <2>3. x.at \in Path
    BY <1>1, <1>13, <2>1, NowFacts, SeqRange DEF Item, IsRun
  <2>4. x.at = b
    <3>1. 2 \in Nat \ {0}
      OBVIOUS
    <3> QED BY <1>2, <1>13, <2>2, <2>3, <3>1, LeadsToChild DEF b
  <2>5. j < u
    BY <1>5, <1>9, <2>1, <2>4 DEF Within
  <2>6. j \in 1 .. Len(events)
    BY <1>1, <2>5 DEF u
  <2>7. IsRun(Now[j])
    BY <1>1, <2>6, CallsMade DEF Now
  <2> QED BY <1>13, <2>1, <2>7
<1>14. Run(KindAt(b), b) \in Range(Now)
  BY <1>6, <1>10, <1>12, <1>13 DEF Reached, KindAt
<1>15. PICK j \in 1 .. Len(Now) : Now[j] = Run(KindAt(b), b)
  BY <1>11, <1>14
<1>16. Now[j].at = b
  BY <1>15 DEF Run
<1>17. j < u
  BY <1>5, <1>9, <1>16 DEF Within
<1>18. j \in 1 .. Len(events)
  BY <1>1, <1>17 DEF u
<1>19. b \in Visited
  BY <1>1, <1>15, <1>18, CalledNow, VisitedIs
<1> QED BY <1>4, <1>6, <1>8, <1>19 DEF b, node

-----------------------------------------------------------------------------
(* require-await: what its scopes know. *)

Flags(p) == FunctionFlags(NodeAt(p))
Gives(q, what) == NodeAt(q).kids # << >> /\ Has(NodeAt(q).kids[1], what)

Awaits(q) == IsAwait(NodeAt(q)) \/ (KindAt(q) = ReturnStatement /\ Gives(q, "thenable"))

Yielding(q) ==
  /\ KindAt(q) = YieldExpression
  /\ Gives(q, IF Has(NodeAt(q), "delegates") THEN "asyncIterable" ELSE "thenable")

PromiseBody(p) ==
  /\ KindAt(p) = ArrowFunction
  /\ Body(NodeAt(p)).kind \notin {Block, AwaitExpression} /\ Has(Body(NodeAt(p)), "thenable")

\* A scope of the function at p knows whether something visited in it needs it to be async.
ScopeFits(s, p) ==
  /\ s.functionFlags = Flags(p)
  /\ "async" \in Flags(p) =>
       (s.hasAwait <=> PromiseBody(p) \/ \E q \in Visited : DirectlyIn(q, p) /\ Awaits(q))
  /\ "generator" \in Flags(p) =>
       (s.isAsyncYield <=> \E q \in Visited : DirectlyIn(q, p) /\ Yielding(q))

ScopeRecord ==
  [hasAwait : BOOLEAN, isAsyncYield : BOOLEAN, functionFlags : SUBSET {"async", "generator"}]

\* A function that the walk has been in.
Left(p) == IsFunction(p) /\ Called(ListenerOnExit(KindAt(p)), p)

NeedsNoAsync(p) ==
  "async" \in Flags(p) /\ ~ \E q \in Visited : DirectlyIn(q, p) /\ NeedsAsync(q, p)

RequireInv ==
  /\ currentScope \in Seq(ScopeRecord) /\ Len(currentScope) = Len(scope)
  /\ \A i \in 1 .. Len(scope), p \in Path, s \in ScopeRecord :
       scope[i].owningFunc = p /\ currentScope[i] = s => ScopeFits(s, p)
  /\ \A p : p \in functionsReported <=> p \in Visited /\ Left(p) /\ NeedsNoAsync(p)

\* What is asked about nodes does not change.
LEMMA NodesStay ==
  ASSUME ast' = ast
  PROVE  /\ \A p : Flags(p)' = Flags(p) /\ (PromiseBody(p)' <=> PromiseBody(p))
         /\ \A q : (Awaits(q)' <=> Awaits(q)) /\ (Yielding(q)' <=> Yielding(q))
         /\ \A p, q : NeedsAsync(q, p)' <=> NeedsAsync(q, p)
<1>1. \A p : NodeAt(p)' = NodeAt(p) /\ KindAt(p)' = KindAt(p)
  BY TreeStays
<1>2. \A p : Flags(p)' = Flags(p)
  BY <1>1 DEF Flags, FunctionFlags, HasBody, Body
<1>3. \A p : PromiseBody(p)' <=> PromiseBody(p)
  BY <1>1 DEF PromiseBody, Body, Has
<1>4. \A q : Awaits(q)' <=> Awaits(q)
  BY <1>1 DEF Awaits, IsAwait, Gives, Has
<1>5. \A q : Yielding(q)' <=> Yielding(q)
  BY <1>1 DEF Yielding, Gives, Has
<1>6. \A p, q : NeedsAsync(q, p)' <=> NeedsAsync(q, p)
  BY <1>1 DEF NeedsAsync, IsAwait, Has, FunctionFlags, HasBody, Body
<1> QED BY <1>2, <1>3, <1>4, <1>5, <1>6

LEMMA FlagsType ==
  ASSUME NEW p
  PROVE  /\ Flags(p) \in SUBSET {"async", "generator"}
         /\ "async" \in Flags(p) \/ "generator" \in Flags(p) => HasBody(NodeAt(p))
BY DEF Flags, FunctionFlags

\* What needs a function to be async is found by its scopes.
LEMMA NeedsIs ==
  ASSUME NEW p, NEW q
  PROVE  NeedsAsync(q, p) <=>
           \/ Awaits(q)
           \/ "generator" \in Flags(p) /\ Yielding(q)
           \/ /\ KindAt(p) = ArrowFunction /\ q = Append(p, 2)
              /\ KindAt(q) # Block /\ Has(NodeAt(q), "thenable")
BY DEF NeedsAsync, Awaits, Yielding, Gives, Flags, KindAt

-----------------------------------------------------------------------------
(* What require-await's listeners do. *)

\* t is s with x before it.
Pushed(t, s, x) ==
  /\ t \in Seq(ScopeRecord) /\ Len(t) = Len(s) + 1 /\ t[1] = x /\ x \in ScopeRecord
  /\ \A i \in 1 .. Len(s) : t[i + 1] = s[i]

LEMMA EntersScope ==
  ASSUME NEW s \in Seq(ScopeRecord), NEW p, IsFunction(p)
  PROVE  \E x : /\ Pushed(IF KindAt(p) = ArrowFunction THEN EnterArrowFunction(NodeAt(p), s)
                          ELSE EnterFunction(NodeAt(p), s), s, x)
                /\ x.functionFlags = Flags(p) /\ x.isAsyncYield = FALSE
                /\ "async" \in Flags(p) => (x.hasAwait <=> PromiseBody(p))
<1> DEFINE node == NodeAt(p)
           e == EnterFunction(node, s)
           x == [hasAwait |-> FALSE, isAsyncYield |-> FALSE, functionFlags |-> FunctionFlags(node)]
           y == [hasAwait |-> TRUE, isAsyncYield |-> FALSE, functionFlags |-> FunctionFlags(node)]
<1>1. FunctionFlags(node) \in SUBSET {"async", "generator"}
  BY DEF FunctionFlags
<1>2. x \in ScopeRecord /\ y \in ScopeRecord
  BY <1>1 DEF ScopeRecord
<1>3. Pushed(e, s, x)
  <2>1. e = <<x>> \o s
    BY DEF EnterFunction
  <2> HIDE DEF e, x
  <2> QED BY <1>2, <2>1, PushFacts DEF Pushed
<1>4. Pushed(MarkAsHasAwait(e), s, y)
  <2>1. [x EXCEPT !.hasAwait = TRUE] = y
    <3> DEFINE z == [x EXCEPT !.hasAwait = TRUE]
    <3>1. x.isAsyncYield = FALSE /\ x.functionFlags = FunctionFlags(node)
      OBVIOUS
    <3>2. y.hasAwait = TRUE /\ y.isAsyncYield = FALSE /\ y.functionFlags = FunctionFlags(node)
      OBVIOUS
    <3> HIDE DEF x, y, node
    <3>3. /\ z \in ScopeRecord /\ z.hasAwait = TRUE
          /\ z.isAsyncYield = x.isAsyncYield /\ z.functionFlags = x.functionFlags
      BY <1>2 DEF ScopeRecord
    <3> HIDE DEF z
    <3>4. z = y
      BY <1>2, <3>1, <3>2, <3>3 DEF ScopeRecord
    <3> QED BY <3>4 DEF z
  <2>2. e[1] = x /\ e \in Seq(ScopeRecord) /\ Len(e) = Len(s) + 1 /\ Len(s) \in Nat
    BY <1>3 DEF Pushed
  <2> HIDE DEF e, x, y
  <2>3. e # << >> /\ 1 \in 1 .. Len(e)
    BY <2>2
  <2>4. MarkAsHasAwait(e) = [e EXCEPT ![1] = y]
    BY <2>1, <2>2, <2>3 DEF MarkAsHasAwait
  <2>5. /\ [e EXCEPT ![1] = y] \in Seq(ScopeRecord) /\ Len([e EXCEPT ![1] = y]) = Len(e)
        /\ [e EXCEPT ![1] = y][1] = y
        /\ \A i \in 1 .. Len(s) : [e EXCEPT ![1] = y][i + 1] = e[i + 1]
    BY <1>2, <2>2, <2>3
  <2> QED BY <1>2, <1>3, <2>2, <2>4, <2>5 DEF Pushed
<1>5. "async" \in FunctionFlags(node) <=> Async(e[1])
  BY <1>3 DEF Pushed, Async
<1>6. CASE KindAt(p) = ArrowFunction
  <2>1. EnterArrowFunction(node, s) =
          IF /\ Async(e[1]) /\ Body(node).kind \notin {Block, AwaitExpression}
             /\ Has(Body(node), "thenable")
          THEN MarkAsHasAwait(e) ELSE e
    BY DEF EnterArrowFunction
  <2>2. CASE /\ Async(e[1]) /\ Body(node).kind \notin {Block, AwaitExpression}
             /\ Has(Body(node), "thenable")
    <3>1. EnterArrowFunction(node, s) = MarkAsHasAwait(e)
      BY <2>1, <2>2
    <3>2. y.functionFlags = Flags(p) /\ y.isAsyncYield = FALSE /\ y.hasAwait = TRUE
      BY DEF Flags
    <3>3. PromiseBody(p)
      BY <1>6, <2>2 DEF PromiseBody
    <3> HIDE DEF e, x, y, node
    <3>4. Pushed(IF KindAt(p) = ArrowFunction THEN EnterArrowFunction(node, s)
                 ELSE EnterFunction(node, s), s, y)
      BY <1>4, <1>6, <3>1
    <3> QED BY <3>2, <3>3, <3>4 DEF node
  <2>3. CASE ~ (/\ Async(e[1]) /\ Body(node).kind \notin {Block, AwaitExpression}
                /\ Has(Body(node), "thenable"))
    <3>1. EnterArrowFunction(node, s) = e
      BY <2>1, <2>3
    <3>2. x.functionFlags = Flags(p) /\ x.isAsyncYield = FALSE /\ x.hasAwait = FALSE
      BY DEF Flags
    <3>3. "async" \in Flags(p) => ~ PromiseBody(p)
      BY <1>5, <2>3 DEF PromiseBody, Flags
    <3> HIDE DEF e, x, y, node
    <3>4. Pushed(IF KindAt(p) = ArrowFunction THEN EnterArrowFunction(node, s)
                 ELSE EnterFunction(node, s), s, x)
      BY <1>3, <1>6, <3>1
    <3> QED BY <3>2, <3>3, <3>4 DEF node
  <2> QED BY <2>2, <2>3
<1>7. CASE KindAt(p) # ArrowFunction
  <2>1. x.functionFlags = Flags(p) /\ x.isAsyncYield = FALSE /\ x.hasAwait = FALSE
    BY DEF Flags
  <2>2. ~ PromiseBody(p)
    BY <1>7 DEF PromiseBody
  <2> HIDE DEF x, y
  <2>3. Pushed(IF KindAt(p) = ArrowFunction THEN EnterArrowFunction(node, s)
               ELSE EnterFunction(node, s), s, x)
    BY <1>3, <1>7
  <2> QED BY <2>1, <2>2, <2>3
<1> QED BY <1>6, <1>7

\* t is s, only that the first scope knows more.
Marked(t, s, awaits, yields) ==
  /\ t \in Seq(ScopeRecord) /\ Len(t) = Len(s)
  /\ \A i \in 1 .. Len(s) : i # 1 => t[i] = s[i]
  /\ s # << >> =>
       /\ t[1].functionFlags = s[1].functionFlags
       /\ "async" \in s[1].functionFlags => (t[1].hasAwait <=> s[1].hasAwait \/ awaits)
       /\ "generator" \in s[1].functionFlags => (t[1].isAsyncYield <=> s[1].isAsyncYield \/ yields)

LEMMA MarkFacts ==
  ASSUME NEW s \in Seq(ScopeRecord)
  PROVE  /\ Marked(s, s, FALSE, FALSE)
         /\ Marked(MarkAsHasAwait(s), s, TRUE, FALSE)
         /\ s # << >> => Marked([s EXCEPT ![1].isAsyncYield = TRUE], s, FALSE, TRUE)
         /\ s # << >> => s[1] \in ScopeRecord
<1>1. Marked(s, s, FALSE, FALSE)
  BY DEF Marked
<1>2. s = << >> => Marked(MarkAsHasAwait(s), s, TRUE, FALSE)
  BY DEF Marked, MarkAsHasAwait
<1>3. ASSUME s # << >>
      PROVE  /\ Marked([s EXCEPT ![1].hasAwait = TRUE], s, TRUE, FALSE)
             /\ Marked([s EXCEPT ![1].isAsyncYield = TRUE], s, FALSE, TRUE)
             /\ s[1] \in ScopeRecord
  <2> DEFINE x == s[1]
             y == [x EXCEPT !.hasAwait = TRUE]
             z == [x EXCEPT !.isAsyncYield = TRUE]
  <2>1. /\ 1 \in 1 .. Len(s) /\ Len(s) \in Nat /\ s[1] \in ScopeRecord
    BY <1>3
  <2> HIDE DEF x
  <2>2. x \in ScopeRecord
    BY <2>1 DEF x
  <2>3. /\ y \in ScopeRecord /\ y.hasAwait = TRUE
        /\ y.isAsyncYield = x.isAsyncYield /\ y.functionFlags = x.functionFlags
        /\ z \in ScopeRecord /\ z.isAsyncYield = TRUE
        /\ z.hasAwait = x.hasAwait /\ z.functionFlags = x.functionFlags
    BY <2>2 DEF ScopeRecord
  <2>4. /\ [s EXCEPT ![1].hasAwait = TRUE] = [s EXCEPT ![1] = y]
        /\ [s EXCEPT ![1].isAsyncYield = TRUE] = [s EXCEPT ![1] = z]
    BY DEF x
  <2> HIDE DEF y, z
  <2>5. ASSUME NEW v \in ScopeRecord
        PROVE  /\ [s EXCEPT ![1] = v] \in Seq(ScopeRecord) /\ Len([s EXCEPT ![1] = v]) = Len(s)
               /\ [s EXCEPT ![1] = v][1] = v
               /\ \A i \in 1 .. Len(s) : i # 1 => [s EXCEPT ![1] = v][i] = s[i]
    BY <2>1
  <2>6. Marked([s EXCEPT ![1] = y], s, TRUE, FALSE)
    <3> DEFINE t == [s EXCEPT ![1] = y]
    <3>1. t \in Seq(ScopeRecord) /\ Len(t) = Len(s) /\ t[1] = y /\ \A i \in 1 .. Len(s) : i # 1 => t[i] = s[i]
      BY <2>3, <2>5
    <3> HIDE DEF t
    <3>2. Marked(t, s, TRUE, FALSE)
      BY <2>3, <3>1 DEF Marked, x
    <3> QED BY <3>2 DEF t
  <2>7. Marked([s EXCEPT ![1] = z], s, FALSE, TRUE)
    <3> DEFINE t == [s EXCEPT ![1] = z]
    <3>1. t \in Seq(ScopeRecord) /\ Len(t) = Len(s) /\ t[1] = z /\ \A i \in 1 .. Len(s) : i # 1 => t[i] = s[i]
      BY <2>3, <2>5
    <3> HIDE DEF t
    <3>2. Marked(t, s, FALSE, TRUE)
      BY <2>3, <3>1 DEF Marked, x
    <3> QED BY <3>2 DEF t
  <2> QED BY <2>1, <2>4, <2>6, <2>7
<1>4. s # << >> => MarkAsHasAwait(s) = [s EXCEPT ![1].hasAwait = TRUE]
  BY DEF MarkAsHasAwait
<1> QED BY <1>1, <1>2, <1>3, <1>4

\* What a listener that is for no function does.
LEMMA ListenersMark ==
  ASSUME WalkingInv, Calling, RequireAwaitNext, ~ Visit, currentScope \in Seq(ScopeRecord),
         Head(agenda).kind \notin FunctionKinds,
         \A f \in FunctionKinds : Head(agenda).kind # ListenerOnExit(f)
  PROVE  /\ functionsReported' = functionsReported
         /\ Marked(currentScope', currentScope,
                   Head(agenda).kind \in NodeKind /\ Awaits(At),
                   Head(agenda).kind \in NodeKind /\ Yielding(At))
<1> DEFINE k == Head(agenda).kind
           s == currentScope
           awaits == k \in NodeKind /\ Awaits(At)
           yields == k \in NodeKind /\ Yielding(At)
           node == NodeAt(At)
<1>1. /\ k \in NodeKind => k = KindAt(At) /\ k = node.kind
      /\ node \in Nodes
  BY CallKind, CallNode DEF KindAt
<1>2. /\ Marked(s, s, FALSE, FALSE) /\ Marked(MarkAsHasAwait(s), s, TRUE, FALSE)
      /\ s # << >> => Marked([s EXCEPT ![1].isAsyncYield = TRUE], s, FALSE, TRUE)
      /\ s # << >> => s[1] \in ScopeRecord
  BY MarkFacts
<1>3. /\ AwaitExpression = 23 /\ ForOfStatement = 10 /\ VariableDeclarationList = 26
      /\ YieldExpression = 24 /\ ReturnStatement = 25
  BY DEF AwaitExpression, ForOfStatement, VariableDeclarationList, YieldExpression, ReturnStatement
<1>4. CASE AwaitListener
  <2>1. /\ k \in {23, 10, 26} /\ functionsReported' = functionsReported
        /\ currentScope' = IF IsAwait(node) THEN MarkAsHasAwait(s) ELSE s
    BY <1>3, <1>4 DEF AwaitListener, Calls
  <2>2. k \in NodeKind
    BY <2>1 DEF NodeKind
  <2>3. ~ yields /\ (awaits <=> IsAwait(node))
    <3>1. KindAt(At) \in {23, 10, 26}
      BY <1>1, <2>1, <2>2
    <3>2. KindAt(At) # ReturnStatement /\ KindAt(At) # YieldExpression
      BY <1>3, <3>1
    <3> QED BY <2>2, <3>2 DEF Awaits, Yielding
  <2> HIDE DEF k, s, awaits, yields
  <2>4. ASSUME IsAwait(node) PROVE Marked(currentScope', s, awaits, yields)
    BY <1>2, <2>1, <2>3, <2>4 DEF Marked
  <2>5. ASSUME ~ IsAwait(node) PROVE Marked(currentScope', s, awaits, yields)
    BY <1>2, <2>1, <2>3, <2>5 DEF Marked
  <2> QED BY <2>1, <2>4, <2>5 DEF k, s, awaits, yields
<1>5. CASE YieldListener
  <2>1. /\ k = 24 /\ functionsReported' = functionsReported
        /\ currentScope' = IF YieldsAsync(node, s) THEN [s EXCEPT ![1].isAsyncYield = TRUE] ELSE s
    BY <1>3, <1>5 DEF YieldListener, Calls
  <2>2. k \in NodeKind
    BY <2>1 DEF NodeKind
  <2>3. KindAt(At) = 24 /\ node.kind = 24
    BY <1>1, <2>1, <2>2
  <2>4. ~ awaits
    BY <1>3, <2>3 DEF Awaits, IsAwait
  <2> DEFINE what == IF Has(node, "delegates") THEN "asyncIterable" ELSE "thenable"
  <2>5. yields <=> node.kids # << >> /\ Has(node.kids[1], what)
    BY <1>3, <2>2, <2>3 DEF Yielding, Gives
  <2>6. ASSUME yields PROVE ~ Has(node.kids[1], "literal")
    <3>1. node.kids # << >> /\ Has(node.kids[1], what)
      BY <2>5, <2>6
    <3>2. node.kids[1] \in Nodes
      BY <1>1, <3>1, NodesAssumption
    <3>3. what \in {"asyncIterable", "thenable"}
      OBVIOUS
    <3> HIDE DEF what
    <3> QED BY <3>1, <3>2, <3>3, LiteralsAssumption
  <2>7. YieldsAsync(node, s) <=>
          s # << >> /\ ~ s[1].isAsyncYield /\ "generator" \in s[1].functionFlags /\ yields
    <3>1. YieldsAsync(node, s) <=>
            /\ s # << >> /\ ~ s[1].isAsyncYield /\ "generator" \in s[1].functionFlags
            /\ node.kids # << >> /\ ~ Has(node.kids[1], "literal") /\ Has(node.kids[1], what)
      BY DEF YieldsAsync, Generator
    <3> HIDE DEF k, s, yields, what
    <3> QED BY <2>5, <2>6, <3>1
  <2> HIDE DEF k, s, awaits, yields, what
  <2>8. ASSUME YieldsAsync(node, s) PROVE Marked(currentScope', s, awaits, yields)
    BY <1>2, <2>1, <2>4, <2>7, <2>8 DEF Marked
  <2>9. ASSUME ~ YieldsAsync(node, s) PROVE Marked(currentScope', s, awaits, yields)
    <3>1. s # << >> => s[1].isAsyncYield \in BOOLEAN
      BY <1>2 DEF ScopeRecord
    <3> QED BY <1>2, <2>1, <2>4, <2>7, <2>9, <3>1 DEF Marked
  <2> QED BY <2>1, <2>8, <2>9 DEF k, s, awaits, yields
<1>6. CASE ReturnListener
  <2>1. /\ k = 25 /\ functionsReported' = functionsReported
        /\ currentScope' = IF ReturnsPromise(node, s) THEN MarkAsHasAwait(s) ELSE s
    BY <1>3, <1>6 DEF ReturnListener, Calls
  <2>2. k \in NodeKind
    BY <2>1 DEF NodeKind
  <2>3. KindAt(At) = 25 /\ node.kind = 25
    BY <1>1, <2>1, <2>2
  <2>4. ~ yields
    BY <1>3, <2>3 DEF Yielding
  <2>5. awaits <=> node.kids # << >> /\ Has(node.kids[1], "thenable")
    BY <1>3, <2>2, <2>3 DEF Awaits, IsAwait, Gives
  <2>6. ReturnsPromise(node, s) <=>
          s # << >> /\ ~ s[1].hasAwait /\ "async" \in s[1].functionFlags /\ awaits
    <3>1. ReturnsPromise(node, s) <=>
            /\ s # << >> /\ ~ s[1].hasAwait /\ "async" \in s[1].functionFlags
            /\ node.kids # << >> /\ Has(node.kids[1], "thenable")
      BY DEF ReturnsPromise, Async
    <3> HIDE DEF k, s, awaits
    <3> QED BY <2>5, <3>1
  <2> HIDE DEF k, s, awaits, yields
  <2>7. ASSUME ReturnsPromise(node, s) PROVE Marked(currentScope', s, awaits, yields)
    BY <1>2, <2>1, <2>4, <2>6, <2>7 DEF Marked
  <2>8. ASSUME ~ ReturnsPromise(node, s) PROVE Marked(currentScope', s, awaits, yields)
    BY <1>2, <2>1, <2>4, <2>6, <2>8 DEF Marked
  <2> QED BY <2>1, <2>7, <2>8 DEF k, s, awaits, yields
<1>7. CASE NoRequireAwaitListener
  <2>1. k \notin {23, 10, 26, 24, 25} /\ currentScope' = s /\ functionsReported' = functionsReported
    BY <1>3, <1>7 DEF NoRequireAwaitListener, ListenedTo
  <2>2. ~ awaits
    BY <1>1, <1>3, <2>1 DEF Awaits, IsAwait
  <2>3. ~ yields
    BY <1>1, <1>3, <2>1 DEF Yielding
  <2> HIDE DEF k, s, awaits, yields
  <2>4. Marked(s, s, awaits, yields)
    BY <1>2, <2>2, <2>3 DEF Marked
  <2> QED BY <2>1, <2>4 DEF k, s, awaits, yields
<1>8. ~ EnterFunctionListener /\ ~ EnterArrowFunctionListener /\ ~ ExitFunctionListener
  BY DEF EnterFunctionListener, EnterArrowFunctionListener, ExitFunctionListener, Calls, FunctionKinds
<1> QED BY <1>4, <1>5, <1>6, <1>7, <1>8 DEF RequireAwaitNext

\* What the listeners of functions do.
LEMMA FunctionListeners ==
  ASSUME WalkingInv, Calling, RequireAwaitNext, ~ Visit
  PROVE  /\ Head(agenda).kind \in FunctionKinds =>
              /\ functionsReported' = functionsReported
              /\ currentScope' = IF KindAt(At) = ArrowFunction
                                 THEN EnterArrowFunction(NodeAt(At), currentScope)
                                 ELSE EnterFunction(NodeAt(At), currentScope)
         /\ \A f \in FunctionKinds : Head(agenda).kind = ListenerOnExit(f) =>
              /\ functionsReported' =
                   functionsReported \cup (IF MissingAwait(Head(currentScope)) THEN {At} ELSE {})
              /\ currentScope' = Tail(currentScope)
<1> DEFINE k == Head(agenda).kind
<1>1. /\ FunctionKinds = {20, 21} /\ FunctionDeclaration = 20 /\ ArrowFunction = 21
      /\ AwaitExpression = 23 /\ ForOfStatement = 10 /\ VariableDeclarationList = 26
      /\ YieldExpression = 24 /\ ReturnStatement = 25
  BY DEF FunctionKinds, FunctionDeclaration, ArrowFunction, AwaitExpression, ForOfStatement,
         VariableDeclarationList, YieldExpression, ReturnStatement
<1>2. ASSUME k \in FunctionKinds
      PROVE  /\ functionsReported' = functionsReported
             /\ currentScope' = IF KindAt(At) = ArrowFunction
                                THEN EnterArrowFunction(NodeAt(At), currentScope)
                                ELSE EnterFunction(NodeAt(At), currentScope)
  <2>1. k \in NodeKind /\ k \in {20, 21}
    BY <1>1, <1>2 DEF NodeKind
  <2>2. KindAt(At) = k
    BY <2>1, CallKind
  <2>3. ~ ExitFunctionListener
    BY <1>1, <2>1 DEF ExitFunctionListener, Calls, ListenerOnExit
  <2>4. ~ AwaitListener /\ ~ YieldListener /\ ~ ReturnListener
    BY <1>1, <2>1 DEF AwaitListener, YieldListener, ReturnListener, Calls
  <2>5. ~ NoRequireAwaitListener
    BY <1>2 DEF NoRequireAwaitListener, ListenedTo
  <2>6. CASE EnterFunctionListener
    <3>1. KindAt(At) # ArrowFunction
      BY <1>1, <2>2, <2>6 DEF EnterFunctionListener, Calls
    <3> QED BY <2>6, <3>1 DEF EnterFunctionListener
  <2>7. CASE EnterArrowFunctionListener
    <3>1. KindAt(At) = ArrowFunction
      BY <2>2, <2>7 DEF EnterArrowFunctionListener, Calls
    <3> QED BY <2>7, <3>1 DEF EnterArrowFunctionListener
  <2> QED BY <2>3, <2>4, <2>5, <2>6, <2>7 DEF RequireAwaitNext
<1>3. ASSUME NEW f \in FunctionKinds, k = ListenerOnExit(f) PROVE ExitFunctionListener
  <2>1. k \in {1020, 1021}
    BY <1>1, <1>3 DEF ListenerOnExit
  <2>2. ~ AwaitListener /\ ~ YieldListener /\ ~ ReturnListener
    BY <1>1, <2>1 DEF AwaitListener, YieldListener, ReturnListener, Calls
  <2>3. ~ EnterFunctionListener /\ ~ EnterArrowFunctionListener
    BY <1>1, <2>1 DEF EnterFunctionListener, EnterArrowFunctionListener, Calls
  <2>4. ~ NoRequireAwaitListener
    BY <1>3 DEF NoRequireAwaitListener, ListenedTo
  <2> QED BY <2>2, <2>3, <2>4 DEF RequireAwaitNext
<1> QED BY <1>2, <1>3 DEF ExitFunctionListener

-----------------------------------------------------------------------------
(* require-await's invariant. *)

\* A node, when its listener is called, is in no function that has been left.
LEMMA InNoLeftFunction ==
  ASSUME WalkingInv, Calling, Head(agenda).kind \in NodeKind, NEW p, Left(p)
  PROVE  ~ DirectlyIn(At, p) /\ p # At
<1>1. Head(agenda).kind = KindAt(At) /\ At \in Path
  BY CallKind, CallNode
<1>2. ASSUME DirectlyIn(At, p) PROVE FALSE
  <2>1. Open(p)
    BY <1>1, <1>2, DirectlyInIs, AroundIsOpen
  <2> QED BY <2>1 DEF Open, Left
<1>3. ASSUME p = At PROVE FALSE
  BY <1>1, <1>3, VisitedLater, LeadsReflexive DEF Left
<1> QED BY <1>2, <1>3

LEMMA LeftChanges ==
  ASSUME WalkingInv, RunListeners, Calling, ast' = ast, NEW p
  PROVE  /\ Left(p)' <=> Left(p) \/ (IsFunction(p) /\ Head(agenda).kind = ListenerOnExit(KindAt(p)) /\ p = At)
         /\ \A f \in FunctionKinds : Head(agenda).kind = ListenerOnExit(f) =>
              (Left(p)' <=> Left(p) \/ p = At)
         /\ (\A f \in FunctionKinds : Head(agenda).kind # ListenerOnExit(f)) => (Left(p)' <=> Left(p))
<1> DEFINE k == Head(agenda).kind
           kp == KindAt(p)
<1>1. Left(p)' <=> Left(p) \/ (kp \in FunctionKinds /\ k = ListenerOnExit(kp) /\ p = At)
  <2>1. KindAt(p)' = kp
    BY TreeStays
  <2>2. Left(p)' <=> kp \in FunctionKinds /\ [kind |-> ListenerOnExit(kp), at |-> p] \in Range(events')
    BY <2>1 DEF Left, IsFunction, Called, ListenerOnExit
  <2>3. Left(p) <=> kp \in FunctionKinds /\ Called(ListenerOnExit(kp), p)
    BY DEF Left, IsFunction
  <2> HIDE DEF kp, k
  <2>4. ASSUME NEW x
        PROVE  [kind |-> x, at |-> p] \in Range(events') <=> Called(x, p) \/ (x = k /\ p = At)
    <3>1. Called(x, p)' <=> Called(x, p) \/ (x = k /\ p = At)
      BY RunChanges DEF WalkingInv, k
    <3> QED BY <3>1 DEF Called
  <2> QED BY <2>2, <2>3, <2>4
<1>2. ASSUME NEW f \in FunctionKinds, k = ListenerOnExit(f)
      PROVE  kp \in FunctionKinds /\ k = ListenerOnExit(kp) /\ p = At <=> p = At
  <2>1. KindAt(At) = f
    BY <1>2, CallKind DEF FunctionKinds, FunctionDeclaration, ArrowFunction, NodeKind
  <2> QED BY <1>2, <2>1
<1> HIDE DEF k, kp
<1> QED BY <1>1, <1>2 DEF k, kp, IsFunction

LEMMA FitsAfter ==
  ASSUME WalkingInv, WalkingInv', RunListeners, Calling, ast' = ast, NEW s, NEW p
  PROVE  ScopeFits(s, p)' <=>
           /\ s.functionFlags = Flags(p)
           /\ "async" \in Flags(p) =>
                (s.hasAwait <=> \/ PromiseBody(p) \/ \E q \in Visited : DirectlyIn(q, p) /\ Awaits(q)
                                \/ Head(agenda).kind \in NodeKind /\ DirectlyIn(At, p) /\ Awaits(At))
           /\ "generator" \in Flags(p) =>
                (s.isAsyncYield <=>
                   \/ \E q \in Visited : DirectlyIn(q, p) /\ Yielding(q)
                   \/ Head(agenda).kind \in NodeKind /\ DirectlyIn(At, p) /\ Yielding(At))
<1> DEFINE own == Head(agenda).kind \in NodeKind
<1>1. /\ Flags(p)' = Flags(p) /\ (PromiseBody(p)' <=> PromiseBody(p))
      /\ \A q : (Awaits(q)' <=> Awaits(q)) /\ (Yielding(q)' <=> Yielding(q))
  BY NodesStay
<1>2. \A q : DirectlyIn(q, p)' <=> DirectlyIn(q, p)
  BY TreeStays DEF DirectlyIn
<1>3. \A q : q \in Visited' <=> q \in Visited \/ (own /\ q = At)
  BY VisitedChanges
<1> DEFINE A == \E q \in Visited : DirectlyIn(q, p) /\ Awaits(q)
           Y == \E q \in Visited : DirectlyIn(q, p) /\ Yielding(q)
           A2 == \E q \in Visited' : DirectlyIn(q, p)' /\ Awaits(q)'
           Y2 == \E q \in Visited' : DirectlyIn(q, p)' /\ Yielding(q)'
<1>4. /\ A2 <=> A \/ (own /\ DirectlyIn(At, p) /\ Awaits(At))
      /\ Y2 <=> Y \/ (own /\ DirectlyIn(At, p) /\ Yielding(At))
  <2> HIDE DEF own
  <2> QED BY <1>1, <1>2, <1>3
<1>5. ScopeFits(s, p)' <=>
        /\ s.functionFlags = Flags(p)
        /\ "async" \in Flags(p) => (s.hasAwait <=> PromiseBody(p) \/ A2)
        /\ "generator" \in Flags(p) => (s.isAsyncYield <=> Y2)
  BY <1>1 DEF ScopeFits
<1> HIDE DEF own, A2, Y2
<1> QED BY <1>4, <1>5 DEF own

LEMMA NeedsNoAsyncAfter ==
  ASSUME WalkingInv, WalkingInv', RunListeners, Calling, ast' = ast, NEW p
  PROVE  NeedsNoAsync(p)' <=>
           NeedsNoAsync(p) /\ ~ (Head(agenda).kind \in NodeKind /\ DirectlyIn(At, p) /\ NeedsAsync(At, p))
<1> DEFINE own == Head(agenda).kind \in NodeKind
<1>1. Flags(p)' = Flags(p) /\ \A q : NeedsAsync(q, p)' <=> NeedsAsync(q, p)
  BY NodesStay
<1>2. \A q : DirectlyIn(q, p)' <=> DirectlyIn(q, p)
  BY TreeStays DEF DirectlyIn
<1>3. \A q : q \in Visited' <=> q \in Visited \/ (own /\ q = At)
  BY VisitedChanges
<1> DEFINE N == \E q \in Visited : DirectlyIn(q, p) /\ NeedsAsync(q, p)
           N2 == \E q \in Visited' : DirectlyIn(q, p)' /\ NeedsAsync(q, p)'
<1>4. N2 <=> N \/ (own /\ DirectlyIn(At, p) /\ NeedsAsync(At, p))
  <2> HIDE DEF own
  <2> QED BY <1>1, <1>2, <1>3
<1>5. NeedsNoAsync(p)' <=> "async" \in Flags(p) /\ ~ N2
  BY <1>1 DEF NeedsNoAsync
<1>6. NeedsNoAsync(p) <=> "async" \in Flags(p) /\ ~ N
  BY DEF NeedsNoAsync
<1> HIDE DEF own, N, N2
<1> QED BY <1>4, <1>5, <1>6 DEF own

LEMMA InitRequire == RulesInit => RequireInv
<1> SUFFICES ASSUME RulesInit PROVE RequireInv
  OBVIOUS
<1>1. scope = << >> /\ currentScope = << >> /\ functionsReported = {} /\ events = << >>
  BY DEF RulesInit, ReturnAwaitInit, RequireAwaitInit, Init
<1>2. Visited = {}
  BY <1>1 DEF Visited, Range
<1>3. << >> \in Seq(ScopeRecord) /\ Len(<< >>) = 0 /\ 1 .. 0 = {}
  OBVIOUS
<1> QED BY <1>1, <1>2, <1>3 DEF RequireInv

\* The verdict on the function being left.
LEMMA VerdictIsRight ==
  ASSUME WalkingInv, Calling, NEW f \in FunctionKinds, Head(agenda).kind = ListenerOnExit(f),
         NEW s, ScopeFits(s, At)
  PROVE  MissingAwait(s) <=> NeedsNoAsync(At)
<1> DEFINE async == "async" \in Flags(At)
           A == \E q \in Visited : DirectlyIn(q, At) /\ Awaits(q)
           Y == \E q \in Visited : DirectlyIn(q, At) /\ Yielding(q)
           N == \E q \in Visited : DirectlyIn(q, At) /\ NeedsAsync(q, At)
           b == Append(At, 2)
<1>1. MissingAwait(s) <=> async /\ ~ s.hasAwait /\ ~ ("generator" \in Flags(At) /\ s.isAsyncYield)
  BY DEF MissingAwait, Async, Generator, ScopeFits
<1>2. /\ async => (s.hasAwait <=> PromiseBody(At) \/ A)
      /\ "generator" \in Flags(At) => (s.isAsyncYield <=> Y)
  BY DEF ScopeFits
<1>3. NeedsNoAsync(At) <=> async /\ ~ N
  BY DEF NeedsNoAsync
<1>4. ASSUME async PROVE N <=> PromiseBody(At) \/ A \/ ("generator" \in Flags(At) /\ Y)
  <2>1. HasBody(NodeAt(At))
    BY <1>4, FlagsType
  <2>2. b \in Visited /\ DirectlyIn(b, At) /\ NodeAt(b) = Body(NodeAt(At))
    BY <2>1, BodyVisited
  <2> HIDE DEF b
  <2>3. ASSUME NEW q
        PROVE  NeedsAsync(q, At) <=>
                 \/ Awaits(q) \/ ("generator" \in Flags(At) /\ Yielding(q))
                 \/ (KindAt(At) = ArrowFunction /\ q = b /\ KindAt(q) # Block /\ Has(NodeAt(q), "thenable"))
    BY NeedsIs DEF b
  <2>4. PromiseBody(At) <=>
          /\ KindAt(At) = ArrowFunction
          /\ KindAt(b) \notin {Block, AwaitExpression} /\ Has(NodeAt(b), "thenable")
    BY <2>2 DEF PromiseBody, KindAt
  <2>5. KindAt(b) = AwaitExpression => Awaits(b)
    BY DEF Awaits, IsAwait, KindAt
  <2>6. ASSUME N PROVE PromiseBody(At) \/ A \/ ("generator" \in Flags(At) /\ Y)
    <3>1. PICK q \in Visited : DirectlyIn(q, At) /\ NeedsAsync(q, At)
      BY <2>6
    <3>2. CASE Awaits(q)
      BY <3>1, <3>2
    <3>3. CASE "generator" \in Flags(At) /\ Yielding(q)
      BY <3>1, <3>3
    <3>4. CASE KindAt(At) = ArrowFunction /\ q = b /\ KindAt(q) # Block /\ Has(NodeAt(q), "thenable")
      BY <2>2, <2>4, <2>5, <3>4
    <3> QED BY <2>3, <3>1, <3>2, <3>3, <3>4
  <2>7. ASSUME PromiseBody(At) PROVE N
    BY <2>2, <2>3, <2>4, <2>7
  <2>8. ASSUME A PROVE N
    BY <2>3, <2>8
  <2>9. ASSUME "generator" \in Flags(At), Y PROVE N
    BY <2>3, <2>9
  <2> QED BY <2>6, <2>7, <2>8, <2>9
<1> HIDE DEF async, A, Y, N, b
<1> QED BY <1>1, <1>2, <1>3, <1>4

LEMMA StepRequire ==
  WalkingInv /\ StackInv /\ RequireInv /\ [RulesNext]_allVars => RequireInv'
<1> SUFFICES ASSUME WalkingInv, StackInv, RequireInv, [RulesNext]_allVars PROVE RequireInv'
  OBVIOUS
<1> DEFINE k == Head(agenda).kind
           n == Len(scope)
           s == currentScope
<1>1. /\ s \in Seq(ScopeRecord) /\ Len(s) = n /\ n \in Nat
      /\ \A i \in 1 .. n, p \in Path, x \in ScopeRecord :
           scope[i].owningFunc = p /\ s[i] = x => ScopeFits(x, p)
      /\ \A p : p \in functionsReported <=> p \in Visited /\ Left(p) /\ NeedsNoAsync(p)
      /\ \A i \in 1 .. n : scope[i].owningFunc \in Path
  BY StackFalls DEF RequireInv
<1>2. WalkingInv' /\ StackInv'
  BY StepWalking, StepStack
<1>3. CASE UNCHANGED <<ast, events, rulesVars>>
  <2>1. \A x, p : ScopeFits(x, p)' <=> ScopeFits(x, p)
    <3>1. ASSUME NEW x, NEW p PROVE ScopeFits(x, p)' <=> ScopeFits(x, p)
      <4>1. Flags(p)' = Flags(p) /\ (PromiseBody(p)' <=> PromiseBody(p))
        BY <1>3, NodesStay
      <4>2. \A q : (Awaits(q)' <=> Awaits(q)) /\ (Yielding(q)' <=> Yielding(q))
        BY <1>3, NodesStay
      <4>3. \A q : (DirectlyIn(q, p)' <=> DirectlyIn(q, p)) /\ KindAt(q)' = KindAt(q)
        BY <1>3, TreeStays DEF DirectlyIn
      <4>4. Visited' = Visited
        BY <1>3, <4>3 DEF Visited
      <4> QED BY <4>1, <4>2, <4>3, <4>4 DEF ScopeFits
    <3> QED BY <3>1
  <2>2. \A p : /\ p \in Visited' <=> p \in Visited
               /\ Left(p)' <=> Left(p)
               /\ NeedsNoAsync(p)' <=> NeedsNoAsync(p)
    <3>1. ASSUME NEW p
          PROVE  /\ p \in Visited' <=> p \in Visited
                 /\ Left(p)' <=> Left(p)
                 /\ NeedsNoAsync(p)' <=> NeedsNoAsync(p)
      <4>1. Flags(p)' = Flags(p) /\ \A q : NeedsAsync(q, p)' <=> NeedsAsync(q, p)
        BY <1>3, NodesStay
      <4>2. \A q : (DirectlyIn(q, p)' <=> DirectlyIn(q, p)) /\ KindAt(q)' = KindAt(q)
        BY <1>3, TreeStays DEF DirectlyIn
      <4>3. Visited' = Visited
        BY <1>3, <4>2 DEF Visited
      <4>4. KindAt(p)' = KindAt(p)
        BY <4>2
      <4>5. Left(p)' <=> Left(p)
        BY <1>3, <4>4 DEF Left, IsFunction, Called, ListenerOnExit
      <4> QED BY <4>1, <4>2, <4>3, <4>5 DEF NeedsNoAsync
    <3> QED BY <3>1
  <2>3. scope' = scope /\ currentScope' = s /\ functionsReported' = functionsReported
    BY <1>3 DEF rulesVars
  <2> QED BY <1>1, <2>1, <2>2, <2>3 DEF RequireInv
<1>4. CASE RulesNext /\ RunListeners /\ Calling /\ ast' = ast /\ ~ Visit
  <2>0. /\ RequireAwaitNext /\ ReturnAwaitNext
        /\ FunctionKinds \subseteq NodeKind /\ \A f, g \in FunctionKinds : f # ListenerOnExit(g)
        /\ \A f \in FunctionKinds : ListenerOnExit(f) \notin NodeKind
    BY <1>4 DEF RulesNext, FunctionKinds, FunctionDeclaration, ArrowFunction, NodeKind, ListenerOnExit
  <2>1. CASE k \notin FunctionKinds
    <3>1. CASE \A f \in FunctionKinds : k # ListenerOnExit(f)
      <4>1. scope' = scope
        BY <1>4, <2>0, <2>1, <3>1, StackChanges
      <4>2. /\ functionsReported' = functionsReported
            /\ Marked(currentScope', s, k \in NodeKind /\ Awaits(At), k \in NodeKind /\ Yielding(At))
        BY <1>1, <1>4, <2>0, <2>1, <3>1, ListenersMark
      <4>3. currentScope' \in Seq(ScopeRecord) /\ Len(currentScope') = n
        BY <1>1, <4>2 DEF Marked
      <4>4. ASSUME NEW i \in 1 .. n, NEW p \in Path, NEW x \in ScopeRecord,
                   scope[i].owningFunc = p, currentScope'[i] = x
            PROVE  ScopeFits(x, p)'
        <5>1. s[i] \in ScopeRecord
          BY <1>1
        <5>2. ScopeFits(s[i], p)
          BY <1>1, <4>4, <5>1
        <5>3. s # << >> /\ scope # << >> /\ 1 \in 1 .. n
          BY <1>1, <4>4
        <5>4. k \in NodeKind => (DirectlyIn(At, p) <=> i = 1)
          <6> SUFFICES ASSUME k \in NodeKind PROVE DirectlyIn(At, p) <=> i = 1
            OBVIOUS
          <6>1. DirectlyIn(At, p) <=> p = scope[1].owningFunc
            BY <1>4, <5>3, TopOwns
          <6>2. ASSUME i # 1 PROVE p # scope[1].owningFunc
            <7>1. 1 < i
              BY <6>2
            <7> QED BY <4>4, <5>3, <7>1 DEF StackInv, Inside
          <6> QED BY <4>4, <6>1, <6>2
        <5> DEFINE A == \E q \in Visited : DirectlyIn(q, p) /\ Awaits(q)
                   Y == \E q \in Visited : DirectlyIn(q, p) /\ Yielding(q)
        <5>5. /\ s[i].functionFlags = Flags(p)
              /\ "async" \in Flags(p) => (s[i].hasAwait <=> PromiseBody(p) \/ A)
              /\ "generator" \in Flags(p) => (s[i].isAsyncYield <=> Y)
          BY <5>2 DEF ScopeFits
        <5>6. ScopeFits(x, p)' <=>
                /\ x.functionFlags = Flags(p)
                /\ "async" \in Flags(p) =>
                     (x.hasAwait <=> PromiseBody(p) \/ A \/ (k \in NodeKind /\ DirectlyIn(At, p) /\ Awaits(At)))
                /\ "generator" \in Flags(p) =>
                     (x.isAsyncYield <=> Y \/ (k \in NodeKind /\ DirectlyIn(At, p) /\ Yielding(At)))
          BY <1>2, <1>4, FitsAfter
        <5> HIDE DEF A, Y, k
        <5>7. CASE i = 1
          <6>1. /\ x.functionFlags = s[i].functionFlags
                /\ "async" \in Flags(p) => (x.hasAwait <=> s[i].hasAwait \/ (k \in NodeKind /\ Awaits(At)))
                /\ "generator" \in Flags(p) =>
                     (x.isAsyncYield <=> s[i].isAsyncYield \/ (k \in NodeKind /\ Yielding(At)))
            BY <4>2, <4>4, <5>3, <5>5, <5>7 DEF Marked
          <6> HIDE DEF s
          <6> QED BY <5>4, <5>5, <5>6, <5>7, <6>1
        <5>8. CASE i # 1
          <6>1. x = s[i]
            BY <1>1, <4>2, <4>4, <5>8 DEF Marked
          <6> HIDE DEF s
          <6> QED BY <5>4, <5>5, <5>6, <5>8, <6>1
        <5> QED BY <5>7, <5>8
      <4>5. ASSUME NEW p
            PROVE  p \in functionsReported <=> p \in Visited' /\ Left(p)' /\ NeedsNoAsync(p)'
        <5>1. Left(p)' <=> Left(p)
          BY <1>4, <3>1, LeftChanges
        <5>2. p \in Visited' <=> p \in Visited \/ (k \in NodeKind /\ p = At)
          BY <1>2, <1>4, VisitedChanges
        <5>3. NeedsNoAsync(p)' <=>
                NeedsNoAsync(p) /\ ~ (k \in NodeKind /\ DirectlyIn(At, p) /\ NeedsAsync(At, p))
          BY <1>2, <1>4, NeedsNoAsyncAfter
        <5>4. Left(p) /\ k \in NodeKind => ~ DirectlyIn(At, p) /\ p # At
          BY <1>4, InNoLeftFunction
        <5> HIDE DEF k
        <5> QED BY <1>1, <5>1, <5>2, <5>3, <5>4
      <4> QED BY <4>1, <4>2, <4>3, <4>4, <4>5 DEF RequireInv
    <3>2. ASSUME NEW f \in FunctionKinds, k = ListenerOnExit(f) PROVE RequireInv'
      <4>1. scope' = Tail(scope)
        BY <1>4, <2>0, <3>2, StackChanges
      <4>2. /\ functionsReported' = functionsReported \cup (IF MissingAwait(Head(s)) THEN {At} ELSE {})
            /\ currentScope' = Tail(s)
        BY <1>4, <2>0, <3>2, FunctionListeners
      <4>3. scope # << >> /\ 1 \in 1 .. n /\ scope[1].owningFunc = At
        BY <1>4, <3>2, TopIsLeft
      <4>4. s # << >> /\ s[1] \in ScopeRecord /\ Head(s) = s[1]
        BY <1>1, <4>3
      <4>5. k \notin NodeKind
        BY <2>0, <3>2
      <4>6. At \in Path
        BY <1>4, CallNode
      <4>7. /\ Tail(s) \in Seq(ScopeRecord) /\ Len(Tail(s)) = n - 1
            /\ \A i \in 1 .. n - 1 : Tail(s)[i] = s[i + 1] /\ i + 1 \in 1 .. n
        BY <1>1, <4>4, PopFacts
      <4>8. /\ Len(Tail(scope)) = n - 1
            /\ \A i \in 1 .. n - 1 : Tail(scope)[i] = scope[i + 1]
        <5> DEFINE T == [hasAsync : BOOLEAN, owningFunc : Path]
        <5>1. scope \in Seq(T)
          BY DEF StackInv
        <5> HIDE DEF T
        <5> QED BY <4>3, <5>1, PopFacts
      <4>9. ASSUME NEW i \in 1 .. n - 1, NEW p \in Path, NEW x \in ScopeRecord,
                   Tail(scope)[i].owningFunc = p, Tail(s)[i] = x
            PROVE  ScopeFits(x, p)'
        <5>1. scope[i + 1].owningFunc = p /\ s[i + 1] = x /\ i + 1 \in 1 .. n
          BY <4>7, <4>8, <4>9
        <5>2. ScopeFits(x, p)
          BY <1>1, <5>1
        <5>3. ScopeFits(x, p)' <=> ScopeFits(x, p)
          BY <1>2, <1>4, <4>5, FitsAfter DEF ScopeFits
        <5> QED BY <5>2, <5>3
      <4>10. ASSUME NEW p
             PROVE  p \in functionsReported' <=> p \in Visited' /\ Left(p)' /\ NeedsNoAsync(p)'
        <5>1. Left(p)' <=> Left(p) \/ p = At
          BY <1>4, <3>2, LeftChanges
        <5>2. p \in Visited' <=> p \in Visited
          BY <1>2, <1>4, <4>5, VisitedChanges
        <5>3. NeedsNoAsync(p)' <=> NeedsNoAsync(p)
          BY <1>2, <1>4, <4>5, NeedsNoAsyncAfter
        <5>4. MissingAwait(Head(s)) <=> NeedsNoAsync(At)
          <6>1. ScopeFits(s[1], At)
            BY <1>1, <4>3, <4>4, <4>6
          <6> HIDE DEF s
          <6> QED BY <1>4, <3>2, <4>4, <6>1, VerdictIsRight
        <5>5. At \in Visited
          <6>1. Open(At)
            BY <1>4, <3>2, <4>6, OpenOnExit, LeadsReflexive
          <6> QED BY <6>1, VisitedIs DEF Open, WalkingInv
        <5>6. p \in functionsReported' <=> p \in functionsReported \/ (p = At /\ MissingAwait(Head(s)))
          BY <4>2
        <5> QED BY <1>1, <5>1, <5>2, <5>3, <5>4, <5>5, <5>6
      <4> HIDE DEF s, k, n
      <4> QED BY <4>1, <4>2, <4>7, <4>8, <4>9, <4>10 DEF RequireInv
    <3> QED BY <3>1, <3>2
  <2>2. CASE k \in FunctionKinds
    <3> DEFINE y == [hasAsync |-> Has(NodeAt(At), "async"), owningFunc |-> At]
               t == <<y>> \o scope
    <3>1. scope' = t
      BY <1>4, <2>0, <2>2, StackChanges
    <3>2. k \in NodeKind /\ k = KindAt(At) /\ At \in Path /\ IsFunction(At)
      BY <1>4, <2>0, <2>2, CallKind, CallNode DEF IsFunction
    <3>3. functionsReported' = functionsReported
      BY <1>4, <2>0, <2>2, FunctionListeners
    <3>4. PICK x : /\ Pushed(currentScope', s, x)
                   /\ x.functionFlags = Flags(At) /\ x.isAsyncYield = FALSE
                   /\ "async" \in Flags(At) => (x.hasAwait <=> PromiseBody(At))
      <4>1. currentScope' = IF KindAt(At) = ArrowFunction
                            THEN EnterArrowFunction(NodeAt(At), s) ELSE EnterFunction(NodeAt(At), s)
        BY <1>4, <2>0, <2>2, FunctionListeners
      <4> HIDE DEF s
      <4> QED BY <1>1, <3>2, <4>1, EntersScope
    <3>5. /\ Len(t) = n + 1 /\ t[1] = y /\ y.owningFunc = At
          /\ \A i \in 1 .. n : t[i + 1] = scope[i]
          /\ \A i \in 1 .. n + 1 : i = 1 \/ \E j \in 1 .. n : i = j + 1
      <4> DEFINE T == [hasAsync : BOOLEAN, owningFunc : Path]
      <4>1. scope \in Seq(T)
        BY DEF StackInv
      <4>2. y \in T /\ y.owningFunc = At
        <5>1. Has(NodeAt(At), "async") \in BOOLEAN
          BY DEF Has
        <5> QED BY <3>2, <5>1
      <4> HIDE DEF T, y
      <4>3. /\ Len(t) = n + 1 /\ t[1] = y
            /\ \A i \in 1 .. n : t[i + 1] = scope[i]
            /\ \A i \in 1 .. n + 1 : i = 1 \/ \E j \in 1 .. n : i = j + 1
        <5>1. ASSUME NEW C, NEW u \in Seq(C), NEW z \in C
              PROVE  /\ Len(<<z>> \o u) = Len(u) + 1 /\ (<<z>> \o u)[1] = z
                     /\ \A i \in 1 .. Len(u) : (<<z>> \o u)[i + 1] = u[i]
                     /\ \A i \in 1 .. Len(u) + 1 : i = 1 \/ \E j \in 1 .. Len(u) : i = j + 1
          BY PushFacts
        <5> QED BY <4>1, <4>2, <5>1
      <4> QED BY <4>2, <4>3
    <3>6. ~ Awaits(At) /\ ~ Yielding(At)
      <4>1. KindAt(At) \in {20, 21}
        BY <3>2, KindFacts
      <4>2. /\ KindAt(At) # AwaitExpression /\ KindAt(At) # ForOfStatement
            /\ KindAt(At) # VariableDeclarationList /\ KindAt(At) # ReturnStatement
            /\ KindAt(At) # YieldExpression
        BY <4>1 DEF AwaitExpression, ForOfStatement, VariableDeclarationList, ReturnStatement, YieldExpression
      <4> QED BY <4>2 DEF Awaits, Yielding, IsAwait, KindAt
    <3> HIDE DEF t, y
    <3>7. ASSUME NEW i \in 1 .. n + 1, NEW p \in Path, NEW z \in ScopeRecord,
                 t[i].owningFunc = p, currentScope'[i] = z
          PROVE  ScopeFits(z, p)'
      <4> DEFINE A == \E q \in Visited : DirectlyIn(q, p) /\ Awaits(q)
                 Y == \E q \in Visited : DirectlyIn(q, p) /\ Yielding(q)
      <4>1. ScopeFits(z, p)' <=>
              /\ z.functionFlags = Flags(p)
              /\ "async" \in Flags(p) => (z.hasAwait <=> PromiseBody(p) \/ A)
              /\ "generator" \in Flags(p) => (z.isAsyncYield <=> Y)
        BY <1>2, <1>4, <3>6, FitsAfter
      <4>2. CASE i = 1
        <5>1. p = At /\ z = x
          BY <3>4, <3>5, <3>7, <4>2 DEF Pushed
        <5>2. ASSUME NEW q \in Visited, DirectlyIn(q, p) PROVE FALSE
          <6>1. q \in Path /\ Called(KindAt(q), q)
            BY <5>2, VisitedIs DEF WalkingInv
          <6>2. Leads(At, q)
            BY <5>1, <5>2, <6>1, DirectlyInIs
          <6> QED BY <1>4, <3>2, <6>1, <6>2, VisitedLater
        <5>3. ~ A /\ ~ Y
          BY <5>2
        <5> HIDE DEF A, Y
        <5> QED BY <3>4, <4>1, <5>1, <5>3
      <4>3. CASE i # 1
        <5>1. PICK j \in 1 .. n : i = j + 1
          BY <3>5, <4>3
        <5>2. scope[j].owningFunc = p /\ s[j] = z
          BY <1>1, <3>4, <3>5, <3>7, <5>1 DEF Pushed
        <5>3. ScopeFits(z, p)
          BY <1>1, <5>2
        <5> QED BY <4>1, <5>3 DEF ScopeFits
      <4> QED BY <4>2, <4>3
    <3>8. ASSUME NEW p
          PROVE  p \in functionsReported <=> p \in Visited' /\ Left(p)' /\ NeedsNoAsync(p)'
      <4>1. Left(p)' <=> Left(p)
        <5>1. \A f \in FunctionKinds : k # ListenerOnExit(f)
          BY <2>0, <2>2
        <5> QED BY <1>4, <5>1, LeftChanges
      <4>2. p \in Visited' <=> p \in Visited \/ p = At
        BY <1>2, <1>4, <3>2, VisitedChanges
      <4>3. NeedsNoAsync(p)' <=> NeedsNoAsync(p) /\ ~ (DirectlyIn(At, p) /\ NeedsAsync(At, p))
        BY <1>2, <1>4, <3>2, NeedsNoAsyncAfter
      <4>4. Left(p) => ~ DirectlyIn(At, p) /\ p # At
        BY <1>4, <3>2, InNoLeftFunction
      <4> QED BY <1>1, <4>1, <4>2, <4>3, <4>4
    <3>9. currentScope' \in Seq(ScopeRecord) /\ Len(currentScope') = n + 1
      BY <1>1, <3>4 DEF Pushed
    <3> HIDE DEF s, k, n
    <3> QED BY <3>1, <3>3, <3>5, <3>7, <3>8, <3>9 DEF RequireInv
  <2> QED BY <2>1, <2>2
<1>5. CASE UNCHANGED allVars
  BY <1>3, <1>5 DEF allVars, vars, rulesVars
<1> QED BY <1>3, <1>4, <1>5, StepIs

RequireRuleInv == WalkingInv /\ StackInv /\ RequireInv

LEMMA RequireRuleHolds == RulesSpec => []RequireRuleInv
<1>1. RulesInit => StackInv /\ RequireInv
  BY InitStack, InitRequire
<1>2. WalkingInv /\ StackInv /\ RequireInv /\ [RulesNext]_allVars => StackInv' /\ RequireInv'
  BY StepStack, StepRequire
<1> QED BY <1>1, <1>2, RulesWalk, PTL DEF RulesSpec, RequireRuleInv

LEMMA ScopesFit ==
  ASSUME RequireRuleInv
  PROVE  ScopesAreFunctions
<1> SUFFICES ASSUME agenda # << >>, Head(agenda).do = "run", Head(agenda).kind \in ListenedTo
             PROVE  LET exit == Head(agenda).kind \in { ListenerOnExit(k) : k \in FunctionKinds }
                        open == FunctionsAround(At) \cup (IF exit THEN {Len(At)} ELSE {})
                    IN  /\ Len(currentScope) = Cardinality(open)
                        /\ \A n \in open :
                             currentScope[Cardinality({ m \in open : m >= n })].functionFlags
                               = FunctionFlags(NodeAt(Ancestor(At, n)))
  BY DEF ScopesAreFunctions
<1> DEFINE exit == Head(agenda).kind \in { ListenerOnExit(k) : k \in FunctionKinds }
           open == FunctionsAround(At) \cup (IF exit THEN {Len(At)} ELSE {})
<1>1. WalkingInv /\ StackInv /\ RequireInv /\ Calling
  BY DEF RequireRuleInv, Calling, IsRun
<1>2. open = StackLengths
  <2>1. CASE exit
    BY <1>1, <2>1, StackAround
  <2>2. CASE ~ exit
    <3>1. Head(agenda).kind \in {20, 21, 23, 10, 26, 24, 25}
      BY <2>2 DEF ListenedTo, FunctionKinds, FunctionDeclaration, ArrowFunction, AwaitExpression,
           ForOfStatement, VariableDeclarationList, YieldExpression, ReturnStatement
    <3>2. Head(agenda).kind \in NodeKind
      BY <3>1 DEF NodeKind
    <3> QED BY <1>1, <2>2, <3>2, StackAround
  <2> QED BY <2>1, <2>2
<1>3. Len(currentScope) = Cardinality(StackLengths)
  BY <1>1, StackCounts DEF RequireInv
<1>4. ASSUME NEW n \in StackLengths
      PROVE  currentScope[Cardinality({ m \in StackLengths : m >= n })].functionFlags
               = FunctionFlags(NodeAt(Ancestor(At, n)))
  <2>1. PICK i \in 1 .. Len(scope) : n = Len(scope[i].owningFunc)
    BY <1>4 DEF StackLengths
  <2>2. Cardinality({ m \in StackLengths : m >= n }) = i
    BY <1>1, <2>1, StackCounts
  <2> DEFINE p == scope[i].owningFunc
  <2>3. p \in Path /\ p = Ancestor(At, n)
    BY <1>1, <2>1, StackFalls, StackAround
  <2>4. currentScope \in Seq(ScopeRecord) /\ i \in 1 .. Len(currentScope)
    BY <1>1 DEF RequireInv
  <2>5. currentScope[i] \in ScopeRecord
    BY <2>4
  <2>6. ScopeFits(currentScope[i], p)
    BY <1>1, <2>3, <2>5 DEF RequireInv
  <2>7. currentScope[i].functionFlags = Flags(p)
    BY <2>6 DEF ScopeFits
  <2> HIDE DEF p
  <2> QED BY <2>2, <2>3, <2>7 DEF Flags
<1> HIDE DEF open
<1>5. /\ Len(currentScope) = Cardinality(open)
      /\ \A n \in open :
           currentScope[Cardinality({ m \in open : m >= n })].functionFlags
             = FunctionFlags(NodeAt(Ancestor(At, n)))
  BY <1>2, <1>3, <1>4
<1> QED BY <1>5 DEF open

LEMMA ReportedFunctions ==
  ASSUME RequireRuleInv
  PROVE  FunctionReportsAreRight
<1> SUFFICES ASSUME Done
             PROVE  functionsReported =
                      { p \in Visited :
                          /\ KindAt(p) \in FunctionKinds
                          /\ "async" \in FunctionFlags(NodeAt(p))
                          /\ ~ \E q \in Visited : DirectlyIn(q, p) /\ NeedsAsync(q, p) }
  BY DEF FunctionReportsAreRight
<1>1. WalkingInv /\ RequireInv
  BY DEF RequireRuleInv
<1>2. ASSUME NEW p \in Visited PROVE Left(p) <=> IsFunction(p)
  <2>1. p \in Path /\ Called(KindAt(p), p)
    BY <1>1, VisitedIs DEF WalkingInv
  <2>2. ~ Open(p)
    BY <1>1, NoneIsOpen
  <2> QED BY <2>1, <2>2 DEF Open, Left
<1>3. ASSUME NEW p
      PROVE  p \in functionsReported <=>
               /\ p \in Visited /\ KindAt(p) \in FunctionKinds
               /\ "async" \in FunctionFlags(NodeAt(p))
               /\ ~ \E q \in Visited : DirectlyIn(q, p) /\ NeedsAsync(q, p)
  BY <1>1, <1>2 DEF RequireInv, NeedsNoAsync, IsFunction, Flags
<1> QED BY <1>3

\* require-await: whenever one of its listeners is called, its scopes are those of the
\* functions around the node, innermost first, so that an exit listener finds the scope
\* of the function it is called for; and when the walk is done just the async functions
\* that nothing directly in them needs to be async have been reported.
THEOREM FunctionReportsFit == RulesSpec => []FunctionsReportedAreRight
<1>1. RequireRuleInv => FunctionsReportedAreRight
  BY ScopesFit, ReportedFunctions DEF FunctionsReportedAreRight
<1> QED BY <1>1, RequireRuleHolds, PTL

-----------------------------------------------------------------------------
(* The nodes on the way to a node. *)

LEMMA AncestorTwice ==
  ASSUME NEW q \in Path, NEW n \in 0 .. Len(q), NEW k \in 0 .. n
  PROVE  Ancestor(Ancestor(q, n), k) = Ancestor(q, k) /\ k \in 0 .. Len(q)
<1> DEFINE a == Ancestor(q, n)
           b == Ancestor(a, k)
<1>1. Len(q) \in Nat /\ k \in 0 .. Len(q)
  BY AncestorFacts
<1>2. a \in Path /\ Len(a) = n /\ Leads(a, q)
  BY AncestorFacts
<1>3. b \in Path /\ Len(b) = k /\ Leads(b, a)
  <2> HIDE DEF a
  <2> QED BY <1>2, AncestorFacts
<1> HIDE DEF a, b
<1>4. Leads(b, q)
  BY <1>2, <1>3, LeadsTransitive
<1>5. b = Ancestor(q, k)
  BY <1>3, <1>4, AncestorFacts
<1> QED BY <1>1, <1>5 DEF a, b

\* One step on the way.
LEMMA StepOn ==
  ASSUME NEW q \in Path, NodeOn(ast, q, NodeAt(q)), NEW n \in 0 .. Len(q)
  PROVE  /\ NodeAt(Ancestor(q, n)) \in Nodes
         /\ n < Len(q) =>
              /\ n + 1 \in 0 .. Len(q) /\ q[n + 1] \in Nat \ {0}
              /\ q[n + 1] \in DOMAIN NodeAt(Ancestor(q, n)).kids
              /\ Ancestor(q, n + 1) = Append(Ancestor(q, n), q[n + 1])
              /\ NodeAt(Ancestor(q, n + 1)) = NodeAt(Ancestor(q, n)).kids[q[n + 1]]
<1> DEFINE a == Ancestor(q, n)
<1>1. a \in Path /\ Len(a) = n /\ Leads(a, q) /\ Len(q) \in Nat
  BY AncestorFacts
<1> HIDE DEF a
<1>2. /\ NodeOn(ast, a, NodeAt(a)) /\ NodeAt(a) \in Nodes
      /\ a # q => q[Len(a) + 1] \in DOMAIN NodeAt(a).kids
  BY <1>1, AncestorOn
<1>3. ASSUME n < Len(q)
      PROVE  /\ n + 1 \in 0 .. Len(q) /\ q[n + 1] \in Nat \ {0}
             /\ q[n + 1] \in DOMAIN NodeAt(a).kids
             /\ Ancestor(q, n + 1) = Append(a, q[n + 1])
             /\ NodeAt(Ancestor(q, n + 1)) = NodeAt(a).kids[q[n + 1]]
  <2>1. a # q
    BY <1>1, <1>3
  <2>2. n + 1 \in 0 .. Len(q)
    BY <1>1, <1>3
  <2> DEFINE i == q[n + 1]
             c == Append(a, i)
  <2>3. i \in Nat \ {0} /\ Leads(c, q) /\ i \in DOMAIN NodeAt(a).kids
    BY <1>1, <1>2, <2>1, LeadsOn
  <2> HIDE DEF i
  <2>4. c \in Path /\ Len(c) = n + 1
    BY <1>1, <2>3, ChildPath
  <2>5. NodeOn(ast, c, NodeAt(a).kids[i])
    BY <1>1, <1>2, <2>3, ChildOn
  <2> HIDE DEF c
  <2>6. c = Ancestor(q, n + 1)
    BY <2>3, <2>4, AncestorFacts
  <2>7. NodeAt(c) = NodeAt(a).kids[i]
    BY <2>4, <2>5, NodeAtOn
  <2> QED BY <2>2, <2>3, <2>6, <2>7 DEF i, c
<1> QED BY <1>2, <1>3 DEF a

\* The function at path o is the innermost around q: what is between is no function.
NothingBetween(o, q) ==
  /\ q \in Path /\ NodeOn(ast, q, NodeAt(q))
  /\ o \in Path /\ IsFunction(o) /\ Leads(o, q) /\ o # q
  /\ \A n \in Len(o) + 1 .. Len(q) - 1 : ~ IsFunction(Ancestor(q, n))

LEMMA BetweenFacts ==
  ASSUME NEW q, NEW o, NothingBetween(o, q)
  PROVE  /\ Len(o) \in Nat /\ Len(q) \in Nat /\ Len(o) + 1 <= Len(q) /\ Len(o) \in 0 .. Len(q)
         /\ o = Ancestor(q, Len(o)) /\ IsFunction(Ancestor(q, Len(o)))
         /\ FunctionsAround(q) # {} /\ Max(FunctionsAround(q)) = Len(o) /\ DirectlyIn(q, o)
<1>1. q \in Path /\ o \in Path /\ IsFunction(o) /\ Leads(o, q) /\ o # q
  BY DEF NothingBetween
<1>2. Len(q) \in Nat /\ Len(o) \in 0 .. Len(q) /\ o = Ancestor(q, Len(o)) /\ Len(o) \in Nat
  BY <1>1, AncestorFacts
<1>3. Len(o) \in FunctionsAround(q) /\ FunctionsAround(q) \subseteq 0 .. Len(q)
  BY <1>1, AroundIs
<1>4. Len(o) \in 0 .. Len(q) - 1
  BY <1>3 DEF FunctionsAround
<1>5. ASSUME NEW n \in FunctionsAround(q) PROVE n <= Len(o)
  <2>1. n \in 0 .. Len(q) - 1 /\ IsFunction(Ancestor(q, n))
    BY <1>5 DEF FunctionsAround, IsFunction
  <2>2. n \notin Len(o) + 1 .. Len(q) - 1
    BY <2>1 DEF NothingBetween
  <2> QED BY <1>2, <2>1, <2>2
<1>6. Max(FunctionsAround(q)) = Len(o)
  BY <1>2, <1>3, <1>5, MaxIs
<1>7. Len(o) + 1 <= Len(q)
  BY <1>2, <1>4
<1>8. FunctionsAround(q) # {}
  BY <1>3
<1>9. DirectlyIn(q, o)
  BY <1>2, <1>6, <1>8 DEF DirectlyIn, Owner
<1>10. IsFunction(Ancestor(q, Len(o)))
  BY <1>1, <1>2
<1> QED BY <1>2, <1>6, <1>7, <1>8, <1>9, <1>10

-----------------------------------------------------------------------------
(* Exceptions: the try statements around a node. *)

\* The largest of some numbers, or -1 if there are none.
LEMMA MaxOrNone ==
  ASSUME NEW S, NEW n \in Nat, S \subseteq 0 .. n
  PROVE  \/ S = {} /\ Max({-1} \cup S) = -1
         \/ S # {} /\ Max({-1} \cup S) \in S /\ \A x \in S : x <= Max({-1} \cup S)
<1> DEFINE T == {-1} \cup S
           m == Max(T)
<1>1. CASE S = {}
  <2>1. T = {-1}
    BY <1>1
  <2>2. m \in T /\ \A y \in T : m >= y
    <3>1. \E x \in T : \A y \in T : x >= y
      BY <2>1
    <3> HIDE DEF T
    <3> QED BY <3>1 DEF Max
  <2> QED BY <1>1, <2>1, <2>2
<1>2. CASE S # {}
  <2> DEFINE k == Max(S)
  <2>1. k \in S /\ \A x \in S : x <= k
    BY <1>2, MaxFacts
  <2> HIDE DEF k
  <2>2. k \in T /\ \A y \in T : k >= y
    BY <2>1
  <2> HIDE DEF T
  <2>3. m \in T /\ \A y \in T : m >= y
    BY <2>2 DEF Max
  <2> HIDE DEF m
  <2>4. m \in S
    BY <1>2, <2>1, <2>2, <2>3 DEF T
  <2>5. \A x \in S : x <= m
    BY <2>3 DEF T
  <2> QED BY <1>2, <2>4, <2>5 DEF m, T
<1> QED BY <1>1, <1>2

\* Step m on the way to q is a try statement, and no function is between it and step n.
Near(q, m, n) ==
  /\ m \in 0 .. n - 1 /\ KindAt(Ancestor(q, m)) = TryStatement
  /\ \A k \in m .. n - 1 : ~ IsFunction(Ancestor(q, k))

LEMMA FindsTry ==
  ASSUME NEW q \in Path, NEW n \in 0 .. Len(q)
  PROVE  LET try == FindContainingTryStatement(Ancestor(q, n)) IN
         \/ try = -1 /\ \A m : ~ Near(q, m, n)
         \/ try # -1 /\ Near(q, try, n) /\ \A m : Near(q, m, n) => m <= try
<1> DEFINE a == Ancestor(q, n)
           S == { m \in 0 .. n - 1 : Near(q, m, n) }
           reached == { m \in 0 .. Len(a) - 1 :
                          \A k \in m .. Len(a) - 1 : KindAt(Ancestor(a, k)) \notin FunctionKinds }
           R == { m \in reached : KindAt(Ancestor(a, m)) = TryStatement }
           try == Max({-1} \cup S)
<1>1. a \in Path /\ Len(a) = n /\ n \in Nat
  BY AncestorFacts
<1>2. \A k \in 0 .. n : Ancestor(a, k) = Ancestor(q, k)
  BY AncestorTwice
<1> HIDE DEF a
<1>3. ASSUME NEW m PROVE m \in R <=> m \in S
  <2>1. m \in R <=> /\ m \in 0 .. n - 1 /\ KindAt(Ancestor(a, m)) = TryStatement
                    /\ \A k \in m .. n - 1 : KindAt(Ancestor(a, k)) \notin FunctionKinds
    BY <1>1
  <2>2. ASSUME m \in 0 .. n - 1
        PROVE  /\ Ancestor(a, m) = Ancestor(q, m)
               /\ \A k \in m .. n - 1 : Ancestor(a, k) = Ancestor(q, k)
    BY <1>1, <1>2, <2>2
  <2> QED BY <2>1, <2>2 DEF Near, IsFunction
<1>4. R = S
  BY <1>3
<1>5. FindContainingTryStatement(a) = Max({-1} \cup R)
  BY DEF FindContainingTryStatement
<1>6. S \subseteq 0 .. n
  BY <1>1
<1>7. \A m : m \in S <=> Near(q, m, n)
  BY DEF Near
<1> HIDE DEF R, S
<1>8. \/ S = {} /\ try = -1
      \/ S # {} /\ try \in S /\ \A x \in S : x <= try
  BY <1>1, <1>6, MaxOrNone
<1> HIDE DEF try
<1>9. try \in S => try # -1
  BY <1>6
<1> QED BY <1>4, <1>5, <1>7, <1>8, <1>9 DEF a, try

\* From where it is left, the try statement at step m goes on.
GoesOnTrying(q, m) == q[m + 1] < Len(NodeAt(Ancestor(q, m)).kids)

\* ... and that is what the rule asks.
Handled(q, m) ==
  \/ q[m + 1] = 1
  \/ /\ NodeAt(Ancestor(q, m)).kids[q[m + 1]].kind = CatchClause
     /\ HasFinally(NodeAt(Ancestor(q, m)))

LEMMA TryKids ==
  ASSUME NEW node \in Nodes, node.kind = TryStatement
  PROVE  /\ node.kids \in Seq(Nodes) /\ Len(node.kids) \in {2, 3}
         /\ node.kids[1].kind = Block
         /\ Len(node.kids) = 2 => node.kids[2].kind \in {Block, CatchClause}
         /\ Len(node.kids) = 3 => node.kids[2].kind = CatchClause /\ node.kids[3].kind = Block
<1> DEFINE kids == node.kids
           s == [i \in DOMAIN kids |-> kids[i].kind]
<1>1. kids \in Seq(Nodes)
  BY NodeFacts
<1>2. s \in {<<Block, CatchClause>>, <<Block, Block>>, <<Block, CatchClause, Block>>}
  BY TryAssumption
<1>3. Len(kids) \in Nat /\ DOMAIN kids = 1 .. Len(kids) /\ \A i \in 1 .. Len(kids) : s[i] = kids[i].kind
  BY <1>1
<1>4. DOMAIN s = 1 .. Len(kids)
  BY <1>3
<1> HIDE DEF s, kids
<1>5. CASE s = <<Block, CatchClause>> \/ s = <<Block, Block>>
  <2>1. DOMAIN s = 1 .. 2 /\ s[1] = Block /\ s[2] \in {Block, CatchClause}
    BY <1>5
  <2>2. Len(kids) = 2
    <3>1. 2 \in DOMAIN s /\ 3 \notin DOMAIN s
      BY <2>1
    <3>2. 2 \in 1 .. Len(kids) /\ 3 \notin 1 .. Len(kids)
      BY <1>4, <3>1, Zenon
    <3> QED BY <1>3, <3>2
  <2> QED BY <1>1, <1>3, <2>1, <2>2 DEF kids
<1>6. CASE s = <<Block, CatchClause, Block>>
  <2>1. DOMAIN s = 1 .. 3 /\ s[1] = Block /\ s[2] = CatchClause /\ s[3] = Block
    BY <1>6
  <2>2. Len(kids) = 3
    <3>1. 3 \in DOMAIN s /\ 4 \notin DOMAIN s
      BY <2>1
    <3>2. 3 \in 1 .. Len(kids) /\ 4 \notin 1 .. Len(kids)
      BY <1>4, <3>1, Zenon
    <3> QED BY <1>3, <3>2
  <2> QED BY <1>1, <1>3, <2>1, <2>2 DEF kids
<1> QED BY <1>2, <1>5, <1>6

LEMMA HandledIs ==
  ASSUME NEW q \in Path, NodeOn(ast, q, NodeAt(q)), NEW n \in 0 .. Len(q), NEW m, Near(q, m, n)
  PROVE  Handled(q, m) <=> GoesOnTrying(q, m)
<1> DEFINE node == NodeAt(Ancestor(q, m))
           j == q[m + 1]
           l == Len(node.kids)
<1>1. m \in 0 .. Len(q) /\ m < Len(q) /\ node.kind = TryStatement
  BY AncestorFacts DEF Near, KindAt
<1>2. node \in Nodes /\ j \in DOMAIN node.kids
  BY <1>1, StepOn
<1> HIDE DEF node, j, l
<1>3. /\ node.kids \in Seq(Nodes) /\ l \in {2, 3}
      /\ node.kids[1].kind = Block
      /\ l = 2 => node.kids[2].kind \in {Block, CatchClause}
      /\ l = 3 => node.kids[2].kind = CatchClause /\ node.kids[3].kind = Block
  BY <1>1, <1>2, TryKids DEF l
<1>4. j \in 1 .. l
  BY <1>2, <1>3 DEF l
<1>5. HasFinally(node) <=> l > 1 /\ node.kids[l].kind = Block
  BY DEF HasFinally, Last, l
<1>6. Block # CatchClause
  BY DEF Block, CatchClause
<1>7. (j = 1 \/ (node.kids[j].kind = CatchClause /\ HasFinally(node))) <=> j < l
  <2>1. CASE l = 2
    BY <1>3, <1>4, <1>5, <1>6, <2>1
  <2>2. CASE l = 3
    BY <1>3, <1>4, <1>5, <1>6, <2>2
  <2> QED BY <1>3, <2>1, <2>2
<1> QED BY <1>7 DEF Handled, GoesOnTrying, node, j, l

\* A try statement around step n, in its function, goes on.
Tries(q, n) == \E m : Near(q, m, n) /\ GoesOnTrying(q, m)

LEMMA NearNear ==
  ASSUME NEW q, NEW n \in Nat, NEW t \in Nat, Near(q, t, n), NEW m
  PROVE  /\ Near(q, m, t) => Near(q, m, n)
         /\ Near(q, m, n) /\ m < t => Near(q, m, t)
<1>1. ASSUME Near(q, m, t) PROVE Near(q, m, n)
  <2>1. m \in 0 .. t - 1 /\ t \in 0 .. n - 1
    BY <1>1 DEF Near
  <2>2. m \in 0 .. n - 1
    BY <2>1
  <2>3. \A k \in m .. n - 1 : k \in m .. t - 1 \/ k \in t .. n - 1
    BY <2>1
  <2> QED BY <1>1, <2>2, <2>3 DEF Near
<1>2. ASSUME Near(q, m, n), m < t PROVE Near(q, m, t)
  <2>1. m \in 0 .. n - 1 /\ t \in 0 .. n - 1
    BY <1>2 DEF Near
  <2>2. m \in 0 .. t - 1 /\ \A k \in m .. t - 1 : k \in m .. n - 1
    BY <1>2, <2>1
  <2> QED BY <1>2, <2>2 DEF Near
<1> QED BY <1>1, <1>2

LEMMA TriesStep ==
  ASSUME NEW q \in Path, NodeOn(ast, q, NodeAt(q)), NEW n \in 0 .. Len(q)
  PROVE  LET try == FindContainingTryStatement(Ancestor(q, n)) IN
         /\ Tries(q, n) <=> try # -1 /\ (Handled(q, try) \/ Tries(q, try))
         /\ try # -1 => try \in 0 .. n - 1
<1> DEFINE try == FindContainingTryStatement(Ancestor(q, n))
<1>1. \/ try = -1 /\ \A m : ~ Near(q, m, n)
      \/ try # -1 /\ Near(q, try, n) /\ \A m : Near(q, m, n) => m <= try
  BY FindsTry
<1>2. n \in Nat
  BY AncestorFacts
<1> HIDE DEF try
<1>3. CASE try = -1 /\ \A m : ~ Near(q, m, n)
  BY <1>3 DEF Tries, try
<1>4. CASE try # -1 /\ Near(q, try, n) /\ \A m : Near(q, m, n) => m <= try
  <2>1. try \in 0 .. n - 1 /\ try \in Nat
    BY <1>4 DEF Near
  <2>2. Handled(q, try) <=> GoesOnTrying(q, try)
    BY <1>4, HandledIs
  <2>3. ASSUME Tries(q, n) PROVE Handled(q, try) \/ Tries(q, try)
    <3>1. PICK m : Near(q, m, n) /\ GoesOnTrying(q, m)
      BY <2>3 DEF Tries
    <3>2. m <= try /\ m \in Int
      BY <1>4, <3>1 DEF Near
    <3>3. m = try \/ m < try
      BY <2>1, <3>2
    <3>4. m < try => Near(q, m, try)
      BY <1>2, <1>4, <2>1, <3>1, NearNear
    <3> QED BY <2>2, <3>1, <3>3, <3>4 DEF Tries
  <2>4. ASSUME Handled(q, try) PROVE Tries(q, n)
    BY <1>4, <2>2, <2>4 DEF Tries
  <2>5. ASSUME Tries(q, try) PROVE Tries(q, n)
    <3>1. PICK m : Near(q, m, try) /\ GoesOnTrying(q, m)
      BY <2>5 DEF Tries
    <3>2. Near(q, m, n)
      BY <1>2, <1>4, <2>1, <3>1, NearNear
    <3> QED BY <3>1, <3>2 DEF Tries
  <2> QED BY <1>4, <2>1, <2>3, <2>4, <2>5 DEF try
<1> QED BY <1>1, <1>3, <1>4 DEF try

\* What the rule finds out from the inside outwards.
LEMMA ErrorHandlingIs ==
  ASSUME NEW q \in Path, NodeOn(ast, q, NodeAt(q))
  PROVE  AffectsExplicitErrorHandling(q) <=> Tries(q, Len(q))
<1> DEFINE l == Len(q)
           Step(f) ==
             [n \in 0 .. l |->
                LET try == FindContainingTryStatement(Ancestor(q, n))
                    statement == NodeAt(Ancestor(q, try))
                    child == statement.kids[q[try + 1]]
                IN  /\ try # -1
                    /\ \/ q[try + 1] = 1
                       \/ child.kind = CatchClause /\ HasFinally(statement)
                       \/ f[try]]
           A == CHOOSE f : f = Step(f)
           h == [n \in 0 .. l |-> Tries(q, n)]
           Try(n) == FindContainingTryStatement(Ancestor(q, n))
<1>1. AffectsExplicitErrorHandling(q) <=> A[l]
  BY DEF AffectsExplicitErrorHandling
<1>2. l \in Nat
  BY AncestorFacts
<1>3. ASSUME NEW f, NEW n \in 0 .. l
      PROVE  Step(f)[n] <=> Try(n) # -1 /\ (Handled(q, Try(n)) \/ f[Try(n)])
  BY DEF Handled
<1>4. ASSUME NEW n \in 0 .. l
      PROVE  /\ Tries(q, n) <=> Try(n) # -1 /\ (Handled(q, Try(n)) \/ Tries(q, Try(n)))
             /\ Try(n) # -1 => Try(n) \in 0 .. n - 1
  BY TriesStep
<1>5. h = Step(h)
  <2>1. ASSUME NEW n \in 0 .. l PROVE h[n] <=> Step(h)[n]
    <3>1. h[n] = Tries(q, n) /\ (Try(n) # -1 => h[Try(n)] = Tries(q, Try(n)))
      <4> DEFINE t == Try(n)
      <4>1. t # -1 => t \in 0 .. l
        BY <1>2, <1>4
      <4> HIDE DEF t
      <4>2. t # -1 => h[t] = Tries(q, t)
        BY <4>1
      <4> QED BY <4>2 DEF t
    <3>2. Step(h)[n] <=> Try(n) # -1 /\ (Handled(q, Try(n)) \/ h[Try(n)])
      BY <1>3
    <3> HIDE DEF Step, h, Try
    <3> QED BY <1>4, <3>1, <3>2
  <2>2. \A n \in 0 .. l : h[n] \in BOOLEAN /\ Step(h)[n] \in BOOLEAN
    <3>1. \A n \in 0 .. l : h[n] \in BOOLEAN
      BY DEF Tries
    <3>2. \A n \in 0 .. l : Step(h)[n] \in BOOLEAN
      <4> HIDE DEF h
      <4> QED OBVIOUS
    <3> QED BY <3>1, <3>2
  <2>3. DOMAIN h = 0 .. l /\ DOMAIN Step(h) = 0 .. l
    OBVIOUS
  <2>4. h = [n \in 0 .. l |-> h[n]] /\ Step(h) = [n \in 0 .. l |-> Step(h)[n]]
    OBVIOUS
  <2> HIDE DEF h, Step
  <2>5. \A n \in 0 .. l : h[n] = Step(h)[n]
    BY <2>1, <2>2
  <2> QED BY <2>4, <2>5
<1>6. A = Step(A)
  <2> HIDE DEF h, Step
  <2> QED BY <1>5
<1> HIDE DEF A
<1>7. ASSUME NEW n \in 0 .. l PROVE A[n] <=> Try(n) # -1 /\ (Handled(q, Try(n)) \/ A[Try(n)])
  <2> HIDE DEF Body, Try
  <2> QED BY <1>3, <1>6
<1> HIDE DEF Body, h, Try
<1> DEFINE S == {k \in Nat : \A n \in 0 .. l : n <= k => (A[n] <=> Tries(q, n))}
<1>8. ASSUME NEW k \in Nat, \A n \in 0 .. l : n < k => (A[n] <=> Tries(q, n)) PROVE k \in S
  <2> SUFFICES ASSUME NEW n \in 0 .. l, n <= k PROVE A[n] <=> Tries(q, n)
    OBVIOUS
  <2>1. Try(n) # -1 => (A[Try(n)] <=> Tries(q, Try(n)))
    <3> SUFFICES ASSUME Try(n) # -1 PROVE A[Try(n)] <=> Tries(q, Try(n))
      OBVIOUS
    <3>1. Try(n) \in 0 .. l /\ Try(n) < k
      BY <1>2, <1>4
    <3> QED BY <1>8, <3>1
  <2> QED BY <1>4, <1>7, <2>1
<1>9. 0 \in S
  <2>1. \A n \in 0 .. l : ~ (n < 0)
    OBVIOUS
  <2> HIDE DEF S
  <2> QED BY <1>8, <2>1
<1>10. ASSUME NEW k \in Nat, k \in S PROVE k + 1 \in S
  <2>1. \A n \in 0 .. l : n < k + 1 => (A[n] <=> Tries(q, n))
    BY <1>10
  <2> HIDE DEF S
  <2> QED BY <1>8, <2>1
<1> HIDE DEF S
<1>11. l \in S
  BY <1>2, <1>9, <1>10, SetInduction
<1>12. A[l] <=> Tries(q, l)
  BY <1>2, <1>11 DEF S
<1> QED BY <1>1, <1>12

\* An exception at q runs into a try statement of the function at o that goes on.
TriesIn(o, q) ==
  \E n \in Len(o) + 1 .. Len(q) - 1 :
    /\ KindAt(Ancestor(q, n)) = TryStatement /\ GoesOnTrying(q, n)

LEMMA TriesInFunction ==
  ASSUME NEW q, NEW o, NothingBetween(o, q)
  PROVE  AffectsExplicitErrorHandling(q) <=> TriesIn(o, q)
<1>1. q \in Path /\ NodeOn(ast, q, NodeAt(q))
  BY DEF NothingBetween
<1>2. /\ Len(o) \in Nat /\ Len(q) \in Nat /\ Len(o) + 1 <= Len(q)
      /\ IsFunction(Ancestor(q, Len(o)))
      /\ \A n \in Len(o) + 1 .. Len(q) - 1 : ~ IsFunction(Ancestor(q, n))
  BY BetweenFacts DEF NothingBetween
<1>3. ASSUME NEW m
      PROVE  Near(q, m, Len(q)) <=> /\ m \in Len(o) + 1 .. Len(q) - 1
                                    /\ KindAt(Ancestor(q, m)) = TryStatement
  <2>1. ASSUME Near(q, m, Len(q)) PROVE m \in Len(o) + 1 .. Len(q) - 1
    <3>1. m \in 0 .. Len(q) - 1 /\ \A k \in m .. Len(q) - 1 : ~ IsFunction(Ancestor(q, k))
      BY <2>1 DEF Near
    <3>2. Len(o) \notin m .. Len(q) - 1
      BY <1>2, <3>1
    <3> QED BY <1>2, <3>1, <3>2
  <2>2. ASSUME m \in Len(o) + 1 .. Len(q) - 1, KindAt(Ancestor(q, m)) = TryStatement
        PROVE  Near(q, m, Len(q))
    <3>1. m \in 0 .. Len(q) - 1 /\ \A k \in m .. Len(q) - 1 : k \in Len(o) + 1 .. Len(q) - 1
      BY <1>2, <2>2
    <3> QED BY <1>2, <2>2, <3>1 DEF Near
  <2> QED BY <2>1, <2>2 DEF Near
<1>4. AffectsExplicitErrorHandling(q) <=> Tries(q, Len(q))
  BY <1>1, ErrorHandlingIs
<1> QED BY <1>3, <1>4 DEF Tries, TriesIn

-----------------------------------------------------------------------------
(* Resources: the declarations before a node. *)

LEMMA MinIs ==
  ASSUME NEW a \in Nat, NEW b \in Nat
  PROVE  \A n : n \in 1 .. Min({a, b}) <=> n \in 1 .. a /\ n \in 1 .. b
<1> DEFINE T == {a, b}
           m == Min(T)
<1>1. m \in T /\ \A y \in T : m <= y
  <2>1. \E x \in T : \A y \in T : x <= y
    BY DEF T
  <2> HIDE DEF T
  <2> QED BY <2>1 DEF Min
<1>2. m \in T /\ m <= a /\ m <= b
  BY <1>1
<1> HIDE DEF m
<1>3. m \in {a, b}
  BY <1>2
<1> QED BY <1>2, <1>3 DEF m

\* What stands beside a step on the way to q comes before q if it comes before that step.
LEMMA BeforeIs ==
  ASSUME NEW q \in Path, NEW n \in 0 .. Len(q) - 1, NEW i \in Nat \ {0}
  PROVE  Before(Append(Ancestor(q, n), i), q) <=> i < q[n + 1]
<1> DEFINE a == Ancestor(q, n)
           p == Append(a, i)
<1>1. a \in Path /\ Len(a) = n /\ Len(q) \in Nat /\ \A k \in 1 .. n : a[k] = q[k]
  <2>1. n \in 0 .. Len(q)
    BY AncestorFacts
  <2> QED BY <2>1, PrefixIsPath, AncestorFacts DEF Ancestor
<1> HIDE DEF a
<1>2. p \in Path /\ Len(p) = n + 1 /\ p[n + 1] = i /\ \A k \in 1 .. n : p[k] = q[k]
  BY <1>1, ChildPath
<1> HIDE DEF p
<1>3. \A m : m \in 1 .. Min({Len(p), Len(q)}) <=> m \in 1 .. n + 1
  <2>1. Len(p) \in Nat
    BY <1>2 DEF Path
  <2>2. \A m : m \in 1 .. Len(p) /\ m \in 1 .. Len(q) <=> m \in 1 .. n + 1
    BY <1>1, <1>2
  <2> QED BY <1>1, <2>1, <2>2, MinIs
<1>4. \A k \in 1 .. Len(q) : q[k] \in Nat
  BY DEF Path
<1>5. ASSUME Before(p, q) PROVE i < q[n + 1]
  <2>1. PICK m \in 1 .. n + 1 : p[m] < q[m]
    BY <1>3, <1>5 DEF Before
  <2>2. m \in 1 .. n \/ m = n + 1
    BY <1>1, <2>1
  <2>3. m \notin 1 .. n
    <3>1. ASSUME m \in 1 .. n PROVE FALSE
      <4>1. q[m] \in Nat
        BY <1>1, <1>4, <3>1
      <4>2. p[m] = q[m]
        BY <1>2, <3>1
      <4> QED BY <2>1, <4>1, <4>2
    <3> QED BY <3>1
  <2> QED BY <1>2, <2>1, <2>2, <2>3
<1>6. ASSUME i < q[n + 1] PROVE Before(p, q)
  <2>1. n + 1 \in 1 .. n + 1 /\ \A k \in 1 .. (n + 1) - 1 : p[k] = q[k]
    BY <1>1, <1>2
  <2>2. p[n + 1] < q[n + 1]
    BY <1>2, <1>6
  <2> QED BY <1>3, <2>1, <2>2 DEF Before
<1> QED BY <1>5, <1>6 DEF p, a

\* Nothing below q, and nothing that starts after it, comes before q.
LEMMA NotBefore ==
  ASSUME NEW q \in Path, NEW p \in Path,
         Leads(q, p) \/ \E n \in 1 .. Len(q) :
                          n <= Len(p) /\ q[n] < p[n] /\ \A k \in 1 .. n - 1 : p[k] = q[k]
  PROVE  ~ Before(p, q)
<1>1. Len(p) \in Nat /\ Len(q) \in Nat
  BY AncestorFacts
<1>2. \A k \in 1 .. Len(q) : q[k] \in Nat
  BY DEF Path
<1>3. \A k \in 1 .. Len(p) : p[k] \in Nat
  BY DEF Path
<1> SUFFICES ASSUME Before(p, q) PROVE FALSE
  OBVIOUS
<1>4. PICK m \in 1 .. Min({Len(p), Len(q)}) : p[m] < q[m] /\ \A k \in 1 .. m - 1 : p[k] = q[k]
  BY DEF Before
<1>5. m \in 1 .. Len(p) /\ m \in 1 .. Len(q)
  BY <1>1, <1>4, MinIs
<1>6. p[m] \in Nat /\ q[m] \in Nat /\ p[m] < q[m]
  BY <1>2, <1>3, <1>4, <1>5
<1>7. CASE Leads(q, p)
  <2>1. p[m] = q[m]
    BY <1>5, <1>7 DEF Leads
  <2> QED BY <1>6, <2>1
<1>8. CASE \E n \in 1 .. Len(q) : n <= Len(p) /\ q[n] < p[n] /\ \A k \in 1 .. n - 1 : p[k] = q[k]
  <2>1. PICK n \in 1 .. Len(q) : n <= Len(p) /\ q[n] < p[n] /\ \A k \in 1 .. n - 1 : p[k] = q[k]
    BY <1>8
  <2>2. n \in 1 .. Len(p) /\ p[n] \in Nat /\ q[n] \in Nat
    BY <1>1, <1>2, <1>3, <2>1
  <2>3. ~ (m < n)
    <3>1. m < n => m \in 1 .. n - 1
      BY <1>1, <1>5, <2>1
    <3> QED BY <1>6, <2>1, <3>1
  <2>4. ~ (n < m)
    <3>1. n < m => n \in 1 .. m - 1
      BY <1>1, <1>5, <2>1
    <3> QED BY <1>4, <2>1, <2>2, <3>1
  <2>5. m = n
    BY <1>5, <2>1, <2>3, <2>4
  <2> QED BY <1>6, <2>1, <2>5
<1> QED BY <1>7, <1>8

\* A resource is declared before step n + 1 beside it.
Declared(q, n) == \E i \in 1 .. q[n + 1] - 1 : DeclaresResource(NodeAt(Ancestor(q, n)).kids[i])

LEMMA DeclaredIs ==
  ASSUME NEW q \in Path, NodeOn(ast, q, NodeAt(q)), NEW n \in 0 .. Len(q) - 1
  PROVE  Declared(q, n) <=>
           \E i \in DOMAIN NodeAt(Ancestor(q, n)).kids :
             /\ DeclaresResource(NodeAt(Append(Ancestor(q, n), i)))
             /\ Before(Append(Ancestor(q, n), i), q)
<1> DEFINE a == Ancestor(q, n)
           node == NodeAt(a)
           j == q[n + 1]
<1>1. n \in 0 .. Len(q) /\ n < Len(q)
  BY AncestorFacts
<1>2. node \in Nodes /\ j \in Nat \ {0} /\ j \in DOMAIN node.kids
  BY <1>1, StepOn
<1>3. a \in Path /\ NodeOn(ast, a, node)
  BY <1>1, AncestorFacts, AncestorOn
<1> HIDE DEF a, node, j
<1>4. node.kids \in Seq(Nodes)
  BY <1>2, NodeFacts
<1>5. DOMAIN node.kids = 1 .. Len(node.kids) /\ Len(node.kids) \in Nat
  BY <1>4
<1>6. ASSUME NEW i \in DOMAIN node.kids
      PROVE  /\ NodeAt(Append(a, i)) = node.kids[i]
             /\ Before(Append(a, i), q) <=> i < j
  <2>1. i \in Nat \ {0}
    BY <1>5
  <2>2. NodeOn(ast, Append(a, i), node.kids[i])
    BY <1>2, <1>3, ChildOn
  <2>3. Append(a, i) \in Path
    BY <1>3, <2>1, ChildPath
  <2>4. NodeAt(Append(a, i)) = node.kids[i]
    BY <2>2, <2>3, NodeAtOn
  <2>5. Before(Append(a, i), q) <=> i < j
    BY <2>1, BeforeIs DEF a, j
  <2> QED BY <2>4, <2>5
<1>7. \A i : i \in 1 .. j - 1 <=> i \in DOMAIN node.kids /\ i < j
  BY <1>2, <1>5
<1> QED BY <1>6, <1>7 DEF Declared, a, node, j

\* The locals of a block, and of a function.
LEMMA LocalsIs ==
  ASSUME NEW a
  PROVE  /\ KindAt(a) = Block =>
              LocalStatements(a) = { Append(a, i) : i \in DOMAIN NodeAt(a).kids }
         /\ IsFunction(a) /\ Body(NodeAt(a)).kind = Block =>
              LocalStatements(a) = { Append(Append(a, 2), i) : i \in DOMAIN Body(NodeAt(a)).kids }
         /\ KindAt(a) # Block /\ ~ IsFunction(a) => LocalStatements(a) = {}
<1>1. Block \notin FunctionKinds
  BY DEF Block, FunctionKinds, FunctionDeclaration, ArrowFunction
<1>2. ASSUME KindAt(a) = Block
      PROVE  LocalStatements(a) = { Append(a, i) : i \in DOMAIN NodeAt(a).kids }
  BY <1>1, <1>2 DEF LocalStatements, KindAt
<1>3. ASSUME IsFunction(a), Body(NodeAt(a)).kind = Block
      PROVE  LocalStatements(a) = { Append(Append(a, 2), i) : i \in DOMAIN Body(NodeAt(a)).kids }
  BY <1>1, <1>3 DEF LocalStatements, KindAt, IsFunction
<1>4. ASSUME KindAt(a) # Block, ~ IsFunction(a) PROVE LocalStatements(a) = {}
  BY <1>4 DEF LocalStatements, KindAt, IsFunction
<1> QED BY <1>2, <1>3, <1>4

\* A resource of the function at o is disposed of after q: it is declared before q in a
\* block around q.
DisposesIn(o, q) ==
  \E n \in Len(o) + 1 .. Len(q) - 1 : KindAt(Ancestor(q, n)) = Block /\ Declared(q, n)

\* The containers on the way to q, and their locals.
Contained(q, n) ==
  /\ IsBlockScopeContainer(Ancestor(q, n))
  /\ \E p \in LocalStatements(Ancestor(q, n)) : DeclaresResource(NodeAt(p)) /\ Before(p, q)

\* A block that is not the body of a function is a container, and nothing else
\* between a function and q has locals.
LEMMA ContainedBlock ==
  ASSUME NEW q, NEW o, NothingBetween(o, q), NEW n \in Len(o) + 1 .. Len(q) - 1
  PROVE  /\ Contained(q, n) => KindAt(Ancestor(q, n)) = Block /\ Declared(q, n)
         /\ n # Len(o) + 1 /\ KindAt(Ancestor(q, n)) = Block /\ Declared(q, n) => Contained(q, n)
<1> DEFINE a == Ancestor(q, n)
<1>1. /\ q \in Path /\ NodeOn(ast, q, NodeAt(q)) /\ Len(o) \in Nat /\ Len(q) \in Nat
      /\ ~ IsFunction(a)
  BY BetweenFacts DEF NothingBetween
<1>2. n \in 0 .. Len(q) - 1 /\ n \in 0 .. Len(q)
  BY <1>1
<1>3. Declared(q, n) <=> \E i \in DOMAIN NodeAt(a).kids :
                           DeclaresResource(NodeAt(Append(a, i))) /\ Before(Append(a, i), q)
  BY <1>1, <1>2, DeclaredIs
<1>4. a \in Path /\ Len(a) = n
  BY <1>1, <1>2, AncestorFacts
<1>5. n # Len(o) + 1 => ~ IsFunction(Front(a))
  <2> SUFFICES ASSUME n # Len(o) + 1 PROVE ~ IsFunction(Front(a))
    OBVIOUS
  <2>1. n - 1 \in Len(o) + 1 .. Len(q) - 1 /\ n - 1 \in 0 .. n
    BY <1>1
  <2>2. Front(a) = Ancestor(a, n - 1)
    BY <1>4 DEF Front, Ancestor
  <2>3. Ancestor(a, n - 1) = Ancestor(q, n - 1)
    BY <1>1, <1>2, <2>1, AncestorTwice
  <2>4. ~ IsFunction(Ancestor(q, n - 1))
    BY <2>1 DEF NothingBetween
  <2> QED BY <2>2, <2>3, <2>4
<1> HIDE DEF a
<1>6. ASSUME Contained(q, n) PROVE KindAt(a) = Block /\ Declared(q, n)
  <2>1. PICK p \in LocalStatements(a) : DeclaresResource(NodeAt(p)) /\ Before(p, q)
    BY <1>6 DEF Contained, a
  <2>2. KindAt(a) = Block
    BY <1>1, <2>1, LocalsIs
  <2>3. \E i \in DOMAIN NodeAt(a).kids : p = Append(a, i)
    BY <2>1, <2>2, LocalsIs
  <2> QED BY <1>3, <2>1, <2>2, <2>3
<1>7. ASSUME n # Len(o) + 1, KindAt(a) = Block, Declared(q, n) PROVE Contained(q, n)
  <2>1. IsBlockScopeContainer(a)
    BY <1>5, <1>7 DEF IsBlockScopeContainer, IsFunction
  <2>2. PICK i \in DOMAIN NodeAt(a).kids :
          DeclaresResource(NodeAt(Append(a, i))) /\ Before(Append(a, i), q)
    BY <1>3, <1>7
  <2>3. Append(a, i) \in LocalStatements(a)
    BY <1>7, <2>2, LocalsIs
  <2> QED BY <2>1, <2>2, <2>3 DEF Contained, a
<1> QED BY <1>6, <1>7 DEF a

\* The body of a function is a container together with it.
LEMMA ContainedBody ==
  ASSUME NEW q, NEW o, NothingBetween(o, q), HasBody(NodeAt(o)), Body(NodeAt(o)).kind = Block
  PROVE  Contained(q, Len(o)) <=>
           /\ Len(o) + 1 < Len(q)
           /\ KindAt(Ancestor(q, Len(o) + 1)) = Block /\ Declared(q, Len(o) + 1)
<1> DEFINE l == Len(o)
           m == l + 1
           node == NodeAt(o)
           j == q[m]
           b == Append(o, 2)
<1>1. /\ q \in Path /\ NodeOn(ast, q, NodeAt(q)) /\ l \in Nat /\ Len(q) \in Nat /\ m <= Len(q)
      /\ l \in 0 .. Len(q) /\ o = Ancestor(q, l) /\ o \in Path /\ IsFunction(o) /\ o # q
      /\ Leads(o, q)
  BY BetweenFacts DEF NothingBetween
<1>2. node \in Nodes /\ NodeOn(ast, o, node) /\ j \in DOMAIN node.kids
  BY <1>1, AncestorOn
<1>3. l < Len(q)
  BY <1>1
<1>4. Ancestor(q, m) = Append(o, j) /\ NodeAt(Ancestor(q, m)) = node.kids[j]
  BY <1>1, <1>3, StepOn
<1>5. node.kind \in FunctionKinds
  BY <1>1 DEF IsFunction, KindAt
<1> HIDE DEF node, j
<1>6. Len(node.kids) \in 1 .. 2 /\ node.kids[1].kind # Block /\ node.kids \in Seq(Nodes)
  BY <1>2, <1>5, FunctionsAssumption, NodeFacts
<1>7. j = 1 \/ j = 2
  BY <1>2, <1>6
<1>8. b \in Path /\ Len(b) = m /\ b[m] = 2 /\ \A k \in 1 .. l : b[k] = q[k]
  <2>1. \A k \in 1 .. l : o[k] = q[k]
    BY <1>1 DEF Leads
  <2> QED BY <1>1, <2>1, ChildPath
<1> HIDE DEF b
<1>9. Contained(q, l) <=> \E i \in DOMAIN Body(node).kids :
                            DeclaresResource(NodeAt(Append(b, i))) /\ Before(Append(b, i), q)
  <2>1. IsBlockScopeContainer(o)
    BY <1>1 DEF IsBlockScopeContainer, IsFunction
  <2>2. LocalStatements(o) = { Append(b, i) : i \in DOMAIN Body(node).kids }
    BY <1>1, LocalsIs DEF node, b
  <2> QED BY <1>1, <2>1, <2>2 DEF Contained
<1>10. ASSUME NEW i \in Nat \ {0}, j = 1 \/ m = Len(q) PROVE ~ Before(Append(b, i), q)
  <2> DEFINE c == Append(b, i)
  <2>1. c \in Path /\ Len(c) = m + 1 /\ c[m] = 2 /\ \A k \in 1 .. l : c[k] = q[k]
    <3>1. c \in Path /\ Len(c) = m + 1 /\ \A k \in 1 .. m : c[k] = b[k]
      BY <1>8, ChildPath
    <3> HIDE DEF c
    <3>2. m \in 1 .. m /\ \A k \in 1 .. l : k \in 1 .. m
      BY <1>1
    <3> QED BY <1>8, <3>1, <3>2
  <2> HIDE DEF c
  <2>2. CASE j = 1
    <3>1. m \in 1 .. Len(q) /\ m <= Len(c) /\ q[m] < c[m] /\ m - 1 = l
      BY <1>1, <2>1, <2>2 DEF j
    <3>2. \A k \in 1 .. m - 1 : c[k] = q[k]
      BY <2>1, <3>1
    <3> QED BY <1>1, <2>1, <3>1, <3>2, NotBefore DEF c
  <2>3. CASE j = 2 /\ m = Len(q)
    <3>1. \A k \in 1 .. Len(q) : q[k] = c[k]
      <4> SUFFICES ASSUME NEW k \in 1 .. Len(q) PROVE q[k] = c[k]
        OBVIOUS
      <4>1. k \in 1 .. l \/ k = m
        BY <1>1, <2>3
      <4> QED BY <2>1, <2>3, <4>1 DEF j
    <3>2. Leads(q, c)
      BY <1>1, <2>1, <2>3, <3>1 DEF Leads
    <3> QED BY <1>1, <2>1, <3>2, NotBefore DEF c
  <2> QED BY <1>7, <1>10, <2>2, <2>3
<1>11. Body(node) \in Nodes /\ DOMAIN Body(node).kids \subseteq Nat \ {0} /\ Body(node) = node.kids[2]
  <2>1. 2 \in DOMAIN node.kids
    BY <1>6 DEF HasBody, node
  <2>2. node.kids[2] \in Nodes
    BY <1>6, <2>1
  <2>3. Body(node) = node.kids[2]
    BY DEF Body
  <2> QED BY <2>2, <2>3, NodeFacts
<1>12. m \in Nat /\ (m < Len(q) \/ m = Len(q))
  BY <1>1
<1>13. ASSUME j = 1 \/ m = Len(q)
       PROVE  /\ ~ Contained(q, l)
              /\ ~ (m < Len(q) /\ KindAt(Ancestor(q, m)) = Block)
  <2>1. ~ Contained(q, l)
    BY <1>9, <1>10, <1>11, <1>13
  <2>2. ~ (m < Len(q) /\ KindAt(Ancestor(q, m)) = Block)
    <3>1. ASSUME m = Len(q) PROVE ~ (m < Len(q))
      BY <1>1, <3>1
    <3>2. ASSUME j = 1 PROVE KindAt(Ancestor(q, m)) # Block
      BY <1>4, <1>6, <3>2 DEF KindAt
    <3> QED BY <1>13, <3>1, <3>2
  <2> QED BY <2>1, <2>2
<1>14. ASSUME j = 2, m < Len(q)
       PROVE  Contained(q, l) <=> KindAt(Ancestor(q, m)) = Block /\ Declared(q, m)
  <2>1. m \in 0 .. Len(q) - 1
    BY <1>1, <1>12, <1>14
  <2>2. Ancestor(q, m) = b /\ NodeAt(b) = Body(node)
    BY <1>4, <1>11, <1>14 DEF b
  <2>3. Declared(q, m) <=> \E i \in DOMAIN NodeAt(b).kids :
                             DeclaresResource(NodeAt(Append(b, i))) /\ Before(Append(b, i), q)
    <3> HIDE DEF m
    <3>1. Declared(q, m) <=> \E i \in DOMAIN NodeAt(Ancestor(q, m)).kids :
                               /\ DeclaresResource(NodeAt(Append(Ancestor(q, m), i)))
                               /\ Before(Append(Ancestor(q, m), i), q)
      BY <1>1, <2>1, DeclaredIs
    <3> QED BY <2>2, <3>1
  <2>4. KindAt(b) = Block
    BY <2>2 DEF KindAt, node
  <2> QED BY <1>9, <2>2, <2>3, <2>4
<1> HIDE DEF j
<1> QED BY <1>7, <1>12, <1>13, <1>14

\* With a using declaration before it in a block of its function, a node is affected.
LEMMA DisposesInFunction ==
  ASSUME NEW q, NEW o, NothingBetween(o, q), HasBody(NodeAt(o)), Body(NodeAt(o)).kind = Block,
         Head(scope).owningFunc = o
  PROVE  AffectsExplicitResourceManagement(q) <=> DisposesIn(o, q)
<1> DEFINE l == Len(o)
<1>1. AffectsExplicitResourceManagement(q) <=> \E n \in l .. Len(q) - 1 : Contained(q, n)
  BY DEF AffectsExplicitResourceManagement, Contained
<1>2. l \in Nat /\ Len(q) \in Nat /\ l + 1 <= Len(q)
  BY BetweenFacts
<1>3. Contained(q, l) <=> /\ l + 1 < Len(q)
                          /\ KindAt(Ancestor(q, l + 1)) = Block /\ Declared(q, l + 1)
  BY ContainedBody
<1>4. ASSUME NEW n \in l + 1 .. Len(q) - 1
      PROVE  /\ Contained(q, n) => KindAt(Ancestor(q, n)) = Block /\ Declared(q, n)
             /\ n # l + 1 /\ KindAt(Ancestor(q, n)) = Block /\ Declared(q, n) => Contained(q, n)
  BY ContainedBlock
<1>5. ASSUME NEW n \in l .. Len(q) - 1, Contained(q, n) PROVE DisposesIn(o, q)
  <2>1. CASE n = l
    <3>1. l + 1 \in l + 1 .. Len(q) - 1
      BY <1>2, <1>3, <1>5, <2>1
    <3> QED BY <1>3, <1>5, <2>1, <3>1 DEF DisposesIn
  <2>2. CASE n # l
    <3>1. n \in l + 1 .. Len(q) - 1
      BY <1>2, <2>2
    <3> QED BY <1>4, <1>5, <3>1 DEF DisposesIn
  <2> QED BY <2>1, <2>2
<1>6. ASSUME DisposesIn(o, q) PROVE \E n \in l .. Len(q) - 1 : Contained(q, n)
  <2>1. PICK n \in l + 1 .. Len(q) - 1 : KindAt(Ancestor(q, n)) = Block /\ Declared(q, n)
    BY <1>6 DEF DisposesIn
  <2>2. CASE n = l + 1
    <3>1. l \in l .. Len(q) - 1 /\ l + 1 < Len(q)
      BY <1>2, <2>1, <2>2
    <3>2. Contained(q, l)
      BY <1>3, <2>1, <2>2, <3>1
    <3> QED BY <3>1, <3>2
  <2>3. CASE n # l + 1
    <3>1. n \in l .. Len(q) - 1
      BY <1>2, <2>1
    <3>2. Contained(q, n)
      BY <1>4, <2>1, <2>3
    <3> QED BY <3>1, <3>2
  <2> QED BY <2>2, <2>3
<1> QED BY <1>1, <1>5, <1>6

\* Code of the function runs after an exception at q in the two ways the rule looks for.
LEMMA CodeAfterIs ==
  ASSUME NEW q, NEW o, NothingBetween(o, q)
  PROVE  CodeAfter(q) <=> TriesIn(o, q) \/ DisposesIn(o, q)
<1>1. /\ q \in Path /\ NodeOn(ast, q, NodeAt(q)) /\ Len(o) \in Nat /\ Len(q) \in Nat
      /\ Max(FunctionsAround(q)) = Len(o)
  BY BetweenFacts DEF NothingBetween
<1>2. ASSUME NEW n \in Len(o) + 1 .. Len(q) - 1
      PROVE  (\E i \in q[n + 1] + 1 .. Len(NodeAt(Ancestor(q, n)).kids) : TRUE) <=> GoesOnTrying(q, n)
  <2> DEFINE node == NodeAt(Ancestor(q, n))
             j == q[n + 1]
             l == Len(node.kids)
  <2>1. n \in 0 .. Len(q) /\ n < Len(q)
    BY <1>1
  <2>2. node \in Nodes /\ j \in Nat \ {0}
    BY <1>1, <2>1, StepOn
  <2> HIDE DEF node, j
  <2>3. l \in Nat
    BY <2>2, NodeFacts
  <2> HIDE DEF l
  <2>4. (\E i \in j + 1 .. l : TRUE) <=> j < l
    <3>1. j < l => j + 1 \in j + 1 .. l
      BY <2>2, <2>3
    <3> QED BY <2>2, <2>3, <3>1
  <2> QED BY <2>4 DEF GoesOnTrying, node, j, l
<1>3. CodeAfter(q) <=>
        \E n \in Len(o) + 1 .. Len(q) - 1 :
          \/ /\ KindAt(Ancestor(q, n)) = TryStatement
             /\ \E i \in q[n + 1] + 1 .. Len(NodeAt(Ancestor(q, n)).kids) : TRUE
          \/ KindAt(Ancestor(q, n)) = Block /\ Declared(q, n)
  BY <1>1 DEF CodeAfter, KindAt, Declared
<1> QED BY <1>2, <1>3 DEF TriesIn, DisposesIn

\* The rule asks for what happens after q.
Affected(q) == AffectsExplicitErrorHandling(q) \/ AffectsExplicitResourceManagement(q)

LEMMA AffectedInBlock ==
  ASSUME NEW q, NEW o, NothingBetween(o, q), HasBody(NodeAt(o)), Body(NodeAt(o)).kind = Block,
         Head(scope).owningFunc = o
  PROVE  Affected(q) <=> CodeAfter(q)
BY TriesInFunction, DisposesInFunction, CodeAfterIs DEF Affected

LEMMA AffectedInExpression ==
  ASSUME NEW q, NEW o, NothingBetween(o, q), Body(NodeAt(o)).kind # Block,
         \A n \in Len(o) + 1 .. Len(q) - 1 : KindAt(Ancestor(q, n)) = ConditionalExpression,
         Head(scope).owningFunc = o
  PROVE  Affected(q) <=> CodeAfter(q)
<1>1. ~ AffectsExplicitResourceManagement(q)
  BY DEF AffectsExplicitResourceManagement
<1>2. ConditionalExpression # Block /\ ConditionalExpression # TryStatement
  BY DEF ConditionalExpression, Block, TryStatement
<1>3. ~ TriesIn(o, q) /\ ~ DisposesIn(o, q)
  BY <1>2 DEF TriesIn, DisposesIn
<1> QED BY <1>1, <1>3, TriesInFunction, CodeAfterIs DEF Affected

-----------------------------------------------------------------------------
(* What may be returned. *)

\* A return statement is a statement in the body of its function.
LEMMA ReturnStands ==
  ASSUME NEW q, NEW o, NothingBetween(o, q), KindAt(q) = ReturnStatement
  PROVE  HasBody(NodeAt(o)) /\ Body(NodeAt(o)).kind = Block
<1> DEFINE l == Len(o)
           d == Len(q)
           Kind(n) == KindAt(Ancestor(q, n))
<1>1. /\ q \in Path /\ NodeOn(ast, q, NodeAt(q)) /\ l \in Nat /\ d \in Nat /\ l + 1 <= d
      /\ l \in 0 .. d /\ o = Ancestor(q, l) /\ IsFunction(o)
      /\ \A n \in l + 1 .. d - 1 : ~ IsFunction(Ancestor(q, n))
  BY BetweenFacts DEF NothingBetween
<1>2. ASSUME NEW n \in l .. d - 1, Kind(n + 1) \in StatementKinds
      PROVE  LET node == NodeAt(Ancestor(q, n)) IN
             /\ node \in Nodes /\ q[n + 1] \in DOMAIN node.kids
             /\ \/ node.kind \in StatementKinds \cup {SourceFile}
                \/ node.kind \in FunctionKinds /\ q[n + 1] = 2 /\ node.kids[q[n + 1]].kind = Block
  <2> DEFINE node == NodeAt(Ancestor(q, n))
             j == q[n + 1]
  <2>1. n \in 0 .. d /\ n < d
    BY <1>1
  <2>2. node \in Nodes /\ j \in DOMAIN node.kids /\ NodeAt(Ancestor(q, n + 1)) = node.kids[j]
    BY <1>1, <2>1, StepOn
  <2>3. node.kids[j].kind \in StatementKinds
    BY <1>2, <2>2 DEF KindAt
  <2> HIDE DEF node, j
  <2>4. \/ node.kind \in StatementKinds \cup {SourceFile}
        \/ node.kind \in FunctionKinds /\ j = 2 /\ node.kids[j].kind = Block
    BY <2>2, <2>3, StatementsAssumption
  <2> QED BY <2>2, <2>4 DEF node, j
<1>3. ASSUME NEW n \in l + 1 .. d PROVE Kind(n) # SourceFile
  <2> DEFINE m == n - 1
  <2>1. m \in 0 .. d /\ m < d /\ m + 1 = n
    BY <1>1
  <2> DEFINE node == NodeAt(Ancestor(q, m))
             j == q[m + 1]
  <2> HIDE DEF m
  <2>2. node \in Nodes /\ j \in DOMAIN node.kids /\ NodeAt(Ancestor(q, m + 1)) = node.kids[j]
    BY <1>1, <2>1, StepOn
  <2>3. node.kids[j].kind # SourceFile
    <3> HIDE DEF node, j
    <3> QED BY <2>2, StatementsAssumption
  <2> QED BY <2>1, <2>2, <2>3 DEF KindAt
<1> DEFINE S == { k \in Nat : l + 1 <= d - k => Kind(d - k) \in StatementKinds }
<1>4. 0 \in S
  <2>1. d - 0 = d /\ d \in 0 .. d
    BY <1>1
  <2>2. Ancestor(q, d) = q
    BY <1>1, AncestorFacts, LeadsReflexive
  <2>3. ReturnStatement \in StatementKinds
    BY DEF StatementKinds
  <2> QED BY <2>1, <2>2, <2>3
<1>5. ASSUME NEW k \in Nat, k \in S PROVE k + 1 \in S
  <2> SUFFICES ASSUME l + 1 <= d - (k + 1) PROVE Kind(d - (k + 1)) \in StatementKinds
    OBVIOUS
  <2> DEFINE n == d - (k + 1)
  <2>1. n \in l .. d - 1 /\ n \in l + 1 .. d - 1 /\ n \in l + 1 .. d /\ n + 1 = d - k /\ l + 1 <= d - k
    BY <1>1
  <2>2. Kind(d - k) \in StatementKinds
    BY <1>5, <2>1
  <2> HIDE DEF n
  <2>3. NodeAt(Ancestor(q, n)).kind \in StatementKinds \cup {SourceFile} \cup FunctionKinds
    BY <1>2, <2>1, <2>2
  <2>4. Kind(n) \notin FunctionKinds /\ Kind(n) # SourceFile
    BY <1>1, <1>3, <2>1 DEF IsFunction
  <2>5. Kind(n) \in StatementKinds
    BY <2>3, <2>4 DEF KindAt
  <2> QED BY <2>5 DEF n
<1>6. Nat \subseteq S
  <2> HIDE DEF S
  <2> QED BY <1>4, <1>5, SetInduction
<1>7. Kind(l + 1) \in StatementKinds
  <2>1. d - (l + 1) \in Nat /\ d - (d - (l + 1)) = l + 1
    BY <1>1
  <2>2. d - (l + 1) \in S
    BY <1>6, <2>1
  <2> QED BY <2>1, <2>2
<1> HIDE DEF S
<1> DEFINE node == NodeAt(o)
<1>8. l \in l .. d - 1
  BY <1>1
<1>9. /\ node \in Nodes /\ q[l + 1] \in DOMAIN node.kids
      /\ \/ node.kind \in StatementKinds \cup {SourceFile}
         \/ node.kind \in FunctionKinds /\ q[l + 1] = 2 /\ node.kids[q[l + 1]].kind = Block
  BY <1>1, <1>2, <1>7, <1>8
<1>10. node.kind \in FunctionKinds
  BY <1>1 DEF IsFunction, KindAt
<1> HIDE DEF node
<1>11. node.kind \notin StatementKinds \cup {SourceFile}
  BY <1>10 DEF FunctionKinds, FunctionDeclaration, ArrowFunction, StatementKinds, SourceFile,
       ForOfStatement, Statement, Block, ReturnStatement, TryStatement, CatchClause
<1>12. 2 \in DOMAIN node.kids /\ node.kids[2].kind = Block
  BY <1>9, <1>11
<1>13. Len(node.kids) \in 1 .. 2 /\ DOMAIN node.kids = 1 .. Len(node.kids)
  BY <1>9, <1>10, FunctionsAssumption, NodeFacts
<1>14. Len(node.kids) = 2
  BY <1>12, <1>13
<1> QED BY <1>12, <1>14 DEF HasBody, Body, node

LEMMA BetweenOwner ==
  ASSUME NEW q \in Path, NodeOn(ast, q, NodeAt(q)), NEW o, DirectlyIn(q, o)
  PROVE  NothingBetween(o, q)
<1>1. o \in Path /\ IsFunction(o) /\ Leads(o, q) /\ o # q
  BY DirectlyInIs
<1>2. Len(o) \in Nat /\ Len(q) \in Nat /\ Len(o) + 1 \in Nat
  BY <1>1, AncestorFacts
<1>3. ASSUME NEW n \in Len(o) + 1 .. Len(q) - 1, IsFunction(Ancestor(q, n)) PROVE FALSE
  <2> DEFINE r == Ancestor(q, n)
  <2>1. n \in 0 .. Len(q) /\ n > Len(o)  /\ n # Len(q)
    BY <1>2
  <2>2. r \in Path /\ Len(r) = n /\ Leads(r, q) /\ IsFunction(r)
    BY <1>3, <2>1, AncestorFacts
  <2> HIDE DEF r
  <2>3. r # q
    BY <2>1, <2>2
  <2>4. Leads(r, o)
    BY <2>2, <2>3, DirectlyInIs
  <2>5. Len(r) <= Len(o)
    BY <2>4 DEF Leads
  <2> QED BY <1>2, <2>1, <2>2, <2>5
<1> QED BY <1>1, <1>3 DEF NothingBetween

\* From a node to what it may return there are only conditional expressions.
LEMMA ReturnedFrom ==
  ASSUME WalkingInv, NEW p \in Path, NEW i \in Nat \ {0}, NEW q \in PossiblyReturned(Append(p, i))
  PROVE  /\ q \in Path /\ NodeOn(ast, q, NodeAt(q)) /\ NodeAt(q) \in Nodes
         /\ Leads(p, q) /\ p # q /\ Len(p) \in Nat /\ Len(q) \in Nat /\ Len(p) < Len(q)
         /\ \A n \in Len(p) + 1 .. Len(q) - 1 : KindAt(Ancestor(q, n)) = ConditionalExpression
<1> DEFINE b == Append(p, i)
<1>1. b \in Path /\ Leads(p, b) /\ p # b /\ Len(b) = Len(p) + 1
  BY ChildPath
<1> HIDE DEF b
<1>2. /\ q \in Paths /\ IsPrefix(b, q)
      /\ \A n \in Len(b) .. Len(q) - 1 : KindAt(Ancestor(q, n)) = ConditionalExpression
  BY DEF PossiblyReturned, b
<1>3. q \in Path /\ \E node : NodeOn(ast, q, node)
  BY <1>2, PathsOn DEF WalkingInv, WalkInv, Below
<1>4. NodeOn(ast, q, NodeAt(q)) /\ NodeAt(q) \in Nodes
  <2>1. PICK node : NodeOn(ast, q, node)
    BY <1>3
  <2>2. NodeAt(q) = node
    BY <1>3, <2>1, NodeAtOn
  <2>3. NodeOn(ast, q, NodeAt(q))
    BY <2>1, <2>2
  <2> QED BY <1>3, <2>3, AncestorOn, LeadsReflexive
<1>5. Leads(b, q)
  BY <1>1, <1>2, <1>3, PrefixLeads
<1>6. Leads(p, q)
  BY <1>1, <1>3, <1>5, LeadsTransitive
<1>7. Len(p) \in Nat /\ Len(q) \in Nat /\ Len(b) <= Len(q)
  BY <1>3, <1>5, AncestorFacts DEF Leads
<1>8. Len(p) < Len(q)
  BY <1>1, <1>7
<1>9. p # q
  BY <1>7, <1>8
<1>10. \A n \in Len(p) + 1 .. Len(q) - 1 : KindAt(Ancestor(q, n)) = ConditionalExpression
  BY <1>1, <1>2
<1> QED BY <1>3, <1>4, <1>6, <1>7, <1>8, <1>9, <1>10

\* (A name, so that the numbers of the kinds stay out of the proofs that need it.)
NoFunctionKind(kind) == kind \notin FunctionKinds

LEMMA ReturnedByStatement ==
  ASSUME WalkingInv, NEW p, NEW o, NothingBetween(o, p), KindAt(p) = ReturnStatement,
         NEW q \in PossiblyReturned(Append(p, 1))
  PROVE  NothingBetween(o, q)
<1>1. /\ p \in Path /\ o \in Path /\ IsFunction(o) /\ Leads(o, p) /\ o # p
      /\ \A n \in Len(o) + 1 .. Len(p) - 1 : ~ IsFunction(Ancestor(p, n))
  BY DEF NothingBetween
<1>2. 1 \in Nat \ {0}
  OBVIOUS
<1>3. /\ q \in Path /\ NodeOn(ast, q, NodeAt(q))
      /\ Leads(p, q) /\ p # q /\ Len(p) \in Nat /\ Len(q) \in Nat /\ Len(p) < Len(q)
      /\ \A n \in Len(p) + 1 .. Len(q) - 1 : KindAt(Ancestor(q, n)) = ConditionalExpression
  BY <1>1, <1>2, ReturnedFrom
<1>4. Leads(o, q)
  BY <1>1, <1>3, LeadsTransitive
<1>5. o # q
  <2>1. Len(o) <= Len(p) /\ Len(o) \in Nat
    BY <1>1, AncestorFacts DEF Leads
  <2> QED BY <1>3, <2>1
<1>6. NoFunctionKind(ReturnStatement) /\ NoFunctionKind(ConditionalExpression)
  BY DEF NoFunctionKind, FunctionKinds, FunctionDeclaration, ArrowFunction, ReturnStatement, ConditionalExpression
<1>7. p = Ancestor(q, Len(p)) /\ Len(p) \in 0 .. Len(q)
  BY <1>1, <1>3, AncestorFacts
<1>8. ASSUME NEW n \in Len(o) + 1 .. Len(q) - 1 PROVE ~ IsFunction(Ancestor(q, n))
  <2>1. Len(o) \in Nat
    BY <1>1, AncestorFacts
  <2>2. CASE n < Len(p)
    <3>1. n \in Len(o) + 1 .. Len(p) - 1 /\ n \in 0 .. Len(p)
      BY <1>3, <2>1, <2>2
    <3>2. Ancestor(Ancestor(q, Len(p)), n) = Ancestor(q, n)
      BY <1>3, <1>7, <3>1, AncestorTwice
    <3> QED BY <1>1, <1>7, <3>1, <3>2
  <2>3. CASE n = Len(p)
    BY <1>6, <1>7, <2>3 DEF IsFunction, NoFunctionKind
  <2>4. CASE n > Len(p)
    <3>1. n \in Len(p) + 1 .. Len(q) - 1
      BY <1>3, <2>1, <2>4
    <3> QED BY <1>3, <1>6, <3>1 DEF IsFunction, NoFunctionKind
  <2> QED BY <1>3, <2>1, <2>2, <2>3, <2>4
<1> QED BY <1>1, <1>3, <1>4, <1>5, <1>8 DEF NothingBetween

LEMMA ReturnedByArrow ==
  ASSUME WalkingInv, NEW p \in Path, IsFunction(p), NEW q \in PossiblyReturned(Append(p, 2))
  PROVE  /\ NothingBetween(p, q)
         /\ \A n \in Len(p) + 1 .. Len(q) - 1 : KindAt(Ancestor(q, n)) = ConditionalExpression
<1>1. 2 \in Nat \ {0}
  OBVIOUS
<1>2. /\ q \in Path /\ NodeOn(ast, q, NodeAt(q)) /\ Leads(p, q) /\ p # q
      /\ \A n \in Len(p) + 1 .. Len(q) - 1 : KindAt(Ancestor(q, n)) = ConditionalExpression
  BY <1>1, ReturnedFrom
<1>3. NoFunctionKind(ConditionalExpression)
  BY DEF NoFunctionKind, FunctionKinds, FunctionDeclaration, ArrowFunction, ConditionalExpression
<1> QED BY <1>2, <1>3 DEF NothingBetween, IsFunction, NoFunctionKind

\* What is returned is judged by its own function.
LEMMA JudgedByStatement ==
  ASSUME WalkingInv, Calling, StackInv, Head(agenda).kind = ReturnStatement, scope # << >>,
         NEW q \in PossiblyReturned(Append(At, 1))
  PROVE  Affected(q) <=> CodeAfter(q)
<1> DEFINE o == scope[1].owningFunc
<1>1. ReturnStatement \in NodeKind
  BY DEF ReturnStatement, NodeKind
<1>2. KindAt(At) = ReturnStatement /\ At \in Path /\ NodeOn(ast, At, NodeAt(At))
  BY <1>1, CallKind, CallNode
<1>3. DirectlyIn(At, o)
  BY <1>1, TopOwns
<1>4. Head(scope) = scope[1]
  BY DEF StackInv
<1> HIDE DEF o
<1>5. NothingBetween(o, At)
  BY <1>2, <1>3, BetweenOwner
<1>6. HasBody(NodeAt(o)) /\ Body(NodeAt(o)).kind = Block
  BY <1>2, <1>5, ReturnStands
<1>7. NothingBetween(o, q)
  BY <1>2, <1>5, ReturnedByStatement
<1> QED BY <1>4, <1>6, <1>7, AffectedInBlock DEF o

LEMMA JudgedByArrow ==
  ASSUME WalkingInv, Calling, StackInv, Head(agenda).kind = ListenerOnExit(ArrowFunction),
         Body(NodeAt(At)).kind # Block, NEW q \in PossiblyReturned(Append(At, 2))
  PROVE  Affected(q) <=> CodeAfter(q)
<1>1. ArrowFunction \in NodeKind /\ ArrowFunction \in FunctionKinds
  BY DEF ArrowFunction, NodeKind, FunctionKinds
<1>2. At \in Path /\ IsFunction(At)
  BY <1>1, CallKind, CallNode DEF IsFunction
<1>3. scope # << >> /\ scope[1].owningFunc = At /\ Head(scope) = scope[1]
  BY <1>1, TopIsLeft DEF StackInv
<1>4. /\ NothingBetween(At, q)
      /\ \A n \in Len(At) + 1 .. Len(q) - 1 : KindAt(Ancestor(q, n)) = ConditionalExpression
  BY <1>2, ReturnedByArrow
<1> QED BY <1>3, <1>4, AffectedInExpression

-----------------------------------------------------------------------------
(* return-await's invariant. *)

\* What should be reported of a node that may be returned.
Verdict(r, q) ==
  LET node == NodeAt(q)
      isAwait == node.kind = AwaitExpression
      Is(id, autoFix) == r = [at |-> q, id |-> id, autoFix |-> autoFix]
  IN  \/ /\ Is("nonPromiseAwait", TRUE)
         /\ isAwait /\ ~ Has(node.kids[1], "always") /\ ~ Has(node.kids[1], "may")
      \/ \E after \in BOOLEAN :
           /\ after <=> CodeAfter(q)
           /\ \/ /\ Is("requiredPromiseAwait", ~ after)
                 /\ ~ isAwait /\ Has(node, "always")
                 /\ option = "Always" \/ (option # "Never" /\ after)
              \/ /\ Is("disallowedPromiseAwait", ~ after)
                 /\ isAwait /\ Has(node.kids[1], "always")
                 /\ option = "Never" \/ (option = "InTryCatch" /\ ~ after)

LEMMA WhetherIs ==
  ASSUME option \in Options, NEW affects \in BOOLEAN
  PROVE  /\ GetWhetherToAwait(affects) = "Await" <=> option = "Always" \/ (option # "Never" /\ affects)
         /\ GetWhetherToAwait(affects) = "NoAwait" <=> option = "Never" \/ (option = "InTryCatch" /\ ~ affects)
<1>1. CASE option = "Always"
  BY <1>1 DEF GetWhetherToAwait
<1>2. CASE option = "ErrorHandlingCorrectnessOnly"
  BY <1>2 DEF GetWhetherToAwait
<1>3. CASE option = "InTryCatch"
  BY <1>3 DEF GetWhetherToAwait
<1>4. CASE option = "Never"
  BY <1>4 DEF GetWhetherToAwait
<1> QED BY <1>1, <1>2, <1>3, <1>4 DEF Options

\* Test, for a node of which it is known whether it is affected.
TestWith(q, affects) ==
  LET node == NodeAt(q)
      isAwait == node.kind = AwaitExpression
      child == IF isAwait THEN node.kids[1] ELSE node
      whether == GetWhetherToAwait(affects)
      Of(id, autoFix) == {[at |-> q, id |-> id, autoFix |-> autoFix]}
  IN  CASE ~ Has(child, "always") /\ isAwait /\ ~ Has(child, "may") ->
             Of("nonPromiseAwait", TRUE)
        [] Has(child, "always") /\ whether = "Await" /\ ~ isAwait ->
             Of("requiredPromiseAwait", ~ affects)
        [] Has(child, "always") /\ whether = "NoAwait" /\ isAwait ->
             Of("disallowedPromiseAwait", ~ affects)
        [] OTHER -> {}

LEMMA TestIsWith ==
  ASSUME NEW q, NEW affects \in BOOLEAN, affects <=> Affected(q)
  PROVE  Test(q) = TestWith(q, affects)
<1>1. affects = (AffectsExplicitErrorHandling(q) \/ AffectsExplicitResourceManagement(q))
  BY DEF Affected
<1> QED BY <1>1 DEF Test, TestWith

LEMMA TestIs ==
  ASSUME option \in Options, NEW q, Affected(q) <=> CodeAfter(q), NEW r
  PROVE  r \in Test(q) <=> Verdict(r, q)
<1> DEFINE node == NodeAt(q)
           isAwait == node.kind = AwaitExpression
           child == IF isAwait THEN node.kids[1] ELSE node
<1>1. PICK affects \in BOOLEAN : affects <=> Affected(q)
  OBVIOUS
<1>2. Test(q) = TestWith(q, affects)
  BY <1>1, TestIsWith
<1> DEFINE whether == GetWhetherToAwait(affects)
           Non == [at |-> q, id |-> "nonPromiseAwait", autoFix |-> TRUE]
           Req == [at |-> q, id |-> "requiredPromiseAwait", autoFix |-> ~ affects]
           Dis == [at |-> q, id |-> "disallowedPromiseAwait", autoFix |-> ~ affects]
<1>3. /\ whether = "Await" <=> option = "Always" \/ (option # "Never" /\ affects)
      /\ whether = "NoAwait" <=> option = "Never" \/ (option = "InTryCatch" /\ ~ affects)
  BY WhetherIs
<1>4. TestWith(q, affects) =
        CASE ~ Has(child, "always") /\ isAwait /\ ~ Has(child, "may") -> {Non}
          [] Has(child, "always") /\ whether = "Await" /\ ~ isAwait -> {Req}
          [] Has(child, "always") /\ whether = "NoAwait" /\ isAwait -> {Dis}
          [] OTHER -> {}
  BY DEF TestWith
<1>5. Verdict(r, q) <=>
        \/ r = Non /\ isAwait /\ ~ Has(child, "always") /\ ~ Has(child, "may")
        \/ r = Req /\ ~ isAwait /\ Has(child, "always") /\ whether = "Await"
        \/ r = Dis /\ isAwait /\ Has(child, "always") /\ whether = "NoAwait"
  <2>1. \A after \in BOOLEAN : (after <=> CodeAfter(q)) <=> after = affects
    BY <1>1
  <2>2. Verdict(r, q) <=>
          \/ r = Non /\ isAwait /\ ~ Has(node.kids[1], "always") /\ ~ Has(node.kids[1], "may")
          \/ /\ r = Req /\ ~ isAwait /\ Has(node, "always")
             /\ option = "Always" \/ (option # "Never" /\ affects)
          \/ /\ r = Dis /\ isAwait /\ Has(node.kids[1], "always")
             /\ option = "Never" \/ (option = "InTryCatch" /\ ~ affects)
    BY <2>1 DEF Verdict
  <2> HIDE DEF Non, Req, Dis, whether, node
  <2> QED BY <1>3, <2>2
<1> HIDE DEF Non, Req, Dis, whether, child, node
<1> QED BY <1>2, <1>4, <1>5

\* A statement that returns something from an async function, and an arrow function
\* whose body is returned.
Returns(p) ==
  /\ KindAt(p) = ReturnStatement /\ NodeAt(p).kids # << >>
  /\ FunctionsAround(p) # {} /\ Has(NodeAt(Owner(p)), "async")
ReturnsBody(p) == KindAt(p) = ArrowFunction /\ Body(NodeAt(p)).kind # Block

\* A node that may be returned where the walk has been.
Judged(q) ==
  \/ \E p \in Visited : Returns(p) /\ q \in PossiblyReturned(Append(p, 1))
  \/ \E p \in Visited : ReturnsBody(p) /\ Left(p) /\ q \in PossiblyReturned(Append(p, 2))

ReturnInv ==
  /\ option \in Options
  /\ \A r : r \in returnsReported <=> \E q : Judged(q) /\ Verdict(r, q)

LEMMA ReturnsStay ==
  ASSUME ast' = ast
  PROVE  /\ \A p : (Returns(p)' <=> Returns(p)) /\ (ReturnsBody(p)' <=> ReturnsBody(p))
         /\ \A b : PossiblyReturned(b)' = PossiblyReturned(b)
         /\ \A q : CodeAfter(q)' <=> CodeAfter(q)
         /\ option' = option => \A r, q : Verdict(r, q)' <=> Verdict(r, q)
<1>1. /\ \A p : NodeAt(p)' = NodeAt(p) /\ KindAt(p)' = KindAt(p)
      /\ \A p : FunctionsAround(p)' = FunctionsAround(p) /\ Owner(p)' = Owner(p)
      /\ Paths' = Paths
  BY TreeStays
<1>2. ASSUME NEW p PROVE Returns(p)' <=> Returns(p)
  BY <1>1 DEF Returns, Has
<1>3. ASSUME NEW p PROVE ReturnsBody(p)' <=> ReturnsBody(p)
  BY <1>1 DEF ReturnsBody, Body
<1>4. ASSUME NEW b PROVE PossiblyReturned(b)' = PossiblyReturned(b)
  BY <1>1 DEF PossiblyReturned, Ancestor
<1>5. ASSUME NEW q PROVE CodeAfter(q)' <=> CodeAfter(q)
  BY <1>1 DEF CodeAfter, Ancestor, DeclaresResource, Has
<1>6. ASSUME option' = option, NEW r, NEW q PROVE Verdict(r, q)' <=> Verdict(r, q)
  BY <1>1, <1>5, <1>6 DEF Verdict, Has
<1> QED BY <1>2, <1>3, <1>4, <1>5, <1>6

\* What the next call makes the rule judge.
ByStatement(q) ==
  /\ Head(agenda).kind = ReturnStatement /\ Returns(At)
  /\ q \in PossiblyReturned(Append(At, 1))
ByArrow(q) ==
  /\ Head(agenda).kind = ListenerOnExit(ArrowFunction) /\ Body(NodeAt(At)).kind # Block
  /\ q \in PossiblyReturned(Append(At, 2))

LEMMA JudgedChanges ==
  ASSUME WalkingInv, WalkingInv', RunListeners, Calling, ast' = ast, NEW q
  PROVE  Judged(q)' <=> Judged(q) \/ ByStatement(q) \/ ByArrow(q)
<1> DEFINE k == Head(agenda).kind
           own == k \in NodeKind
           exit == ListenerOnExit(ArrowFunction)
<1>1. /\ \A p : (Returns(p)' <=> Returns(p)) /\ (ReturnsBody(p)' <=> ReturnsBody(p))
      /\ \A b : PossiblyReturned(b)' = PossiblyReturned(b)
  BY ReturnsStay
<1>2. \A p : p \in Visited' <=> p \in Visited \/ (own /\ p = At)
  BY VisitedChanges
<1>3. ArrowFunction \in NodeKind /\ ArrowFunction \in FunctionKinds /\ ReturnStatement \in NodeKind
  BY DEF ArrowFunction, NodeKind, FunctionKinds, ReturnStatement
<1>4. exit \notin NodeKind
  BY DEF ArrowFunction, NodeKind, ListenerOnExit
<1>5. ASSUME NEW p, ReturnsBody(p) PROVE Left(p)' <=> Left(p) \/ (k = exit /\ p = At)
  <2>1. IsFunction(p) /\ KindAt(p) = ArrowFunction
    BY <1>3, <1>5 DEF ReturnsBody, IsFunction
  <2> QED BY <2>1, LeftChanges
<1>6. own => k = KindAt(At)
  BY CallKind
<1>7. own => \A p : Left(p) => p # At
  BY InNoLeftFunction
<1>8. k = exit => KindAt(At) = ArrowFunction /\ At \in Visited
  <2> SUFFICES ASSUME k = exit PROVE KindAt(At) = ArrowFunction /\ At \in Visited
    OBVIOUS
  <2>1. KindAt(At) = ArrowFunction
    BY <1>3, CallKind
  <2>2. Open(At)
    BY <1>3, OpenOnExit, LeadsReflexive, CallNode
  <2> QED BY <2>1, <2>2, VisitedIs DEF Open, WalkingInv
<1> HIDE DEF own, exit
<1>9. (\E p \in Visited' : Returns(p)' /\ q \in PossiblyReturned(Append(p, 1))')
        <=> \/ \E p \in Visited : Returns(p) /\ q \in PossiblyReturned(Append(p, 1))
            \/ ByStatement(q)
  <2>1. ByStatement(q) <=> own /\ Returns(At) /\ q \in PossiblyReturned(Append(At, 1))
    BY <1>3, <1>6 DEF ByStatement, Returns, own
  <2> HIDE DEF k
  <2> QED BY <1>1, <1>2, <2>1
<1>10. (\E p \in Visited' : ReturnsBody(p)' /\ Left(p)' /\ q \in PossiblyReturned(Append(p, 2))')
         <=> \/ \E p \in Visited : ReturnsBody(p) /\ Left(p) /\ q \in PossiblyReturned(Append(p, 2))
             \/ ByArrow(q)
  <2>1. ByArrow(q) <=> k = exit /\ At \in Visited /\ ReturnsBody(At) /\ q \in PossiblyReturned(Append(At, 2))
    BY <1>8 DEF ByArrow, ReturnsBody, exit
  <2>2. own => k # exit
    BY <1>4 DEF own
  <2> HIDE DEF k
  <2>3. \A p : ReturnsBody(p) /\ p \in Visited' /\ Left(p)' <=>
                 ReturnsBody(p) /\ \/ p \in Visited /\ Left(p)
                                   \/ k = exit /\ p = At
    BY <1>2, <1>5, <1>7, <1>8, <2>2
  <2> QED BY <1>1, <1>8, <2>1, <2>3
<1>11. Judged(q)' <=>
         \/ \E p \in Visited' : Returns(p)' /\ q \in PossiblyReturned(Append(p, 1))'
         \/ \E p \in Visited' : ReturnsBody(p)' /\ Left(p)' /\ q \in PossiblyReturned(Append(p, 2))'
  BY DEF Judged
<1> QED BY <1>9, <1>10, <1>11 DEF Judged

\* What the next call makes the rule report.
LEMMA ReturnReports ==
  ASSUME WalkingInv, StackInv, option \in Options, Calling, ReturnAwaitNext, ~ Visit
  PROVE  /\ option' = option
         /\ \A r : r \in returnsReported' <=>
                     \/ r \in returnsReported
                     \/ \E q : (ByStatement(q) \/ ByArrow(q)) /\ Verdict(r, q)
<1> DEFINE k == Head(agenda).kind
           exit == ListenerOnExit(ArrowFunction)
<1>1. ArrowFunction \in FunctionKinds /\ FunctionKinds = {FunctionDeclaration, ArrowFunction}
  BY DEF FunctionKinds
<1>2. /\ exit # ReturnStatement /\ ListenerOnExit(FunctionDeclaration) # ReturnStatement
      /\ ListenerOnExit(FunctionDeclaration) # exit
      /\ \A f \in FunctionKinds : f # ReturnStatement /\ f # exit
  BY DEF FunctionKinds, FunctionDeclaration, ArrowFunction, ListenerOnExit, ReturnStatement
<1>3. ASSUME k # ReturnStatement, k # exit, option' = option, returnsReported' = returnsReported
      PROVE  /\ option' = option
             /\ \A r : r \in returnsReported' <=>
                         \/ r \in returnsReported
                         \/ \E q : (ByStatement(q) \/ ByArrow(q)) /\ Verdict(r, q)
  BY <1>3 DEF ByStatement, ByArrow
<1>4. CASE EnterOwnerListener
  <2>1. k \in FunctionKinds /\ option' = option /\ returnsReported' = returnsReported
    BY <1>4 DEF EnterOwnerListener, Calls
  <2> QED BY <1>2, <1>3, <2>1
<1>5. CASE LeaveOwnerListener
  <2>1. k = ListenerOnExit(FunctionDeclaration) /\ option' = option /\ returnsReported' = returnsReported
    BY <1>5 DEF LeaveOwnerListener, Calls
  <2> QED BY <1>2, <1>3, <2>1
<1>6. CASE LeaveArrowFunctionListener
  <2>1. /\ k = exit /\ option' = option
        /\ returnsReported' = IF Body(NodeAt(At)).kind = Block THEN returnsReported
                              ELSE returnsReported \cup UNION { Test(q) : q \in PossiblyReturned(Append(At, 2)) }
    BY <1>6 DEF LeaveArrowFunctionListener, Calls, TestEachPossiblyReturnedNode
  <2>2. ASSUME Body(NodeAt(At)).kind # Block, NEW q \in PossiblyReturned(Append(At, 2)), NEW r
        PROVE  r \in Test(q) <=> Verdict(r, q)
    BY <2>1, <2>2, JudgedByArrow, TestIs
  <2>3. \A q : ~ ByStatement(q)
    BY <1>2, <2>1 DEF ByStatement
  <2>4. \A q : ByArrow(q) <=> Body(NodeAt(At)).kind # Block /\ q \in PossiblyReturned(Append(At, 2))
    BY <2>1 DEF ByArrow
  <2>5. ASSUME NEW r
        PROVE  r \in returnsReported' <=>
                 \/ r \in returnsReported
                 \/ /\ Body(NodeAt(At)).kind # Block
                    /\ \E q \in PossiblyReturned(Append(At, 2)) : r \in Test(q)
    BY <2>1
  <2> QED BY <2>1, <2>2, <2>3, <2>4, <2>5
<1>7. CASE ReturnedListener
  <2>1. /\ k = ReturnStatement /\ option' = option
        /\ returnsReported' =
             IF scope = << >> \/ ~ scope[1].hasAsync \/ NodeAt(At).kids = << >> THEN returnsReported
             ELSE returnsReported \cup UNION { Test(q) : q \in PossiblyReturned(Append(At, 1)) }
    BY <1>7 DEF ReturnedListener, Calls, TestEachPossiblyReturnedNode
  <2>2. ASSUME scope # << >>, NEW q \in PossiblyReturned(Append(At, 1)), NEW r
        PROVE  r \in Test(q) <=> Verdict(r, q)
    BY <2>1, <2>2, JudgedByStatement, TestIs
  <2>3. \A q : ~ ByArrow(q)
    BY <1>2, <2>1 DEF ByArrow
  <2>4. k \in NodeKind
    BY <2>1 DEF NodeKind, ReturnStatement
  <2>5. /\ FunctionsAround(At) # {} <=> scope # << >>
        /\ scope # << >> => 1 \in 1 .. Len(scope) /\ scope[1].owningFunc = Owner(At)
    BY <2>4, TopOwns
  <2>6. scope # << >> => (scope[1].hasAsync <=> Has(NodeAt(Owner(At)), "async"))
    <3> SUFFICES ASSUME scope # << >> PROVE scope[1].hasAsync <=> Has(NodeAt(Owner(At)), "async")
      OBVIOUS
    <3> DEFINE o == Owner(At)
    <3>1. 1 \in 1 .. Len(scope) /\ scope[1].owningFunc = o
      BY <2>5
    <3>2. o \in Path
      BY <3>1, StackFalls
    <3> HIDE DEF o
    <3>3. scope[1].hasAsync <=> Has(NodeAt(o), "async")
      BY <3>1, <3>2 DEF StackInv
    <3> QED BY <3>3 DEF o
  <2>7. KindAt(At) = ReturnStatement
    BY <2>1, <2>4, CallKind
  <2>8. \A q : ByStatement(q) <=> /\ scope # << >> /\ scope[1].hasAsync /\ NodeAt(At).kids # << >>
                                  /\ q \in PossiblyReturned(Append(At, 1))
    BY <2>1, <2>5, <2>6, <2>7 DEF ByStatement, Returns
  <2>9. ASSUME NEW r
        PROVE  r \in returnsReported' <=>
                 \/ r \in returnsReported
                 \/ /\ scope # << >> /\ scope[1].hasAsync /\ NodeAt(At).kids # << >>
                    /\ \E q \in PossiblyReturned(Append(At, 1)) : r \in Test(q)
    BY <2>1
  <2> QED BY <2>1, <2>2, <2>3, <2>8, <2>9
<1>8. CASE NoReturnAwaitListener
  <2>1. k \notin FunctionKinds \cup { ListenerOnExit(f) : f \in FunctionKinds } \cup {ReturnStatement}
    BY <1>8 DEF NoReturnAwaitListener
  <2>2. k # ReturnStatement /\ k # exit
    BY <1>1, <2>1
  <2>3. option' = option /\ returnsReported' = returnsReported
    BY <1>8 DEF NoReturnAwaitListener
  <2> QED BY <1>3, <2>2, <2>3
<1> QED BY <1>4, <1>5, <1>6, <1>7, <1>8 DEF ReturnAwaitNext

LEMMA InitReturn == RulesInit => ReturnInv
<1> SUFFICES ASSUME RulesInit PROVE ReturnInv
  OBVIOUS
<1>1. option \in Options /\ returnsReported = {} /\ events = << >>
  BY DEF RulesInit, ReturnAwaitInit, Init
<1>2. Visited = {}
  BY <1>1 DEF Visited, Range
<1> QED BY <1>1, <1>2 DEF ReturnInv, Judged

LEMMA StepReturn ==
  WalkingInv /\ StackInv /\ ReturnInv /\ [RulesNext]_allVars => ReturnInv'
<1> SUFFICES ASSUME WalkingInv, StackInv, ReturnInv, [RulesNext]_allVars PROVE ReturnInv'
  OBVIOUS
<1>1. WalkingInv'
  BY StepWalking
<1>2. option \in Options /\ \A r : r \in returnsReported <=> \E q : Judged(q) /\ Verdict(r, q)
  BY DEF ReturnInv
<1>3. CASE UNCHANGED <<ast, events, rulesVars>>
  <2>1. /\ \A p : (Returns(p)' <=> Returns(p)) /\ (ReturnsBody(p)' <=> ReturnsBody(p))
        /\ \A b : PossiblyReturned(b)' = PossiblyReturned(b)
        /\ \A r, q : Verdict(r, q)' <=> Verdict(r, q)
    BY <1>3, ReturnsStay DEF rulesVars
  <2>2. \A p : KindAt(p)' = KindAt(p)
    BY <1>3, TreeStays
  <2>3. Visited' = Visited
    BY <1>3, <2>2 DEF Visited
  <2>4. \A p : Left(p)' <=> Left(p)
    BY <1>3, <2>2 DEF Left, IsFunction, Called, ListenerOnExit
  <2>5. \A q : Judged(q)' <=> Judged(q)
    BY <2>1, <2>3, <2>4 DEF Judged
  <2>6. option' = option /\ returnsReported' = returnsReported
    BY <1>3 DEF rulesVars
  <2> QED BY <1>2, <2>1, <2>5, <2>6 DEF ReturnInv
<1>4. CASE RulesNext /\ RunListeners /\ Calling /\ ast' = ast /\ ~ Visit
  <2>1. /\ option' = option
        /\ \A r : r \in returnsReported' <=>
                    \/ r \in returnsReported
                    \/ \E q : (ByStatement(q) \/ ByArrow(q)) /\ Verdict(r, q)
    BY <1>2, <1>4, ReturnReports DEF RulesNext
  <2>2. \A r, q : Verdict(r, q)' <=> Verdict(r, q)
    BY <1>4, <2>1, ReturnsStay
  <2>3. \A q : Judged(q)' <=> Judged(q) \/ ByStatement(q) \/ ByArrow(q)
    BY <1>1, <1>4, JudgedChanges
  <2> QED BY <1>2, <2>1, <2>2, <2>3 DEF ReturnInv
<1>5. CASE UNCHANGED allVars
  BY <1>3, <1>5 DEF allVars, vars, rulesVars
<1> QED BY <1>3, <1>4, <1>5, StepIs

ReturnRuleInv == WalkingInv /\ StackInv /\ ReturnInv

LEMMA ReturnRuleHolds == RulesSpec => []ReturnRuleInv
<1>1. RulesInit => StackInv /\ ReturnInv
  BY InitStack, InitReturn
<1>2. WalkingInv /\ StackInv /\ ReturnInv /\ [RulesNext]_allVars => StackInv' /\ ReturnInv'
  BY StepStack, StepReturn
<1> QED BY <1>1, <1>2, RulesWalk, PTL DEF RulesSpec, ReturnRuleInv

LEMMA ScopeFitsReturn ==
  ASSUME ReturnRuleInv
  PROVE  ScopeOwnsReturn
<1> SUFFICES ASSUME agenda # << >>, Head(agenda).do = "run", Head(agenda).kind = ReturnStatement
             PROVE  /\ Len(scope) = Cardinality(FunctionsAround(At))
                    /\ scope # << >> => scope[1].owningFunc = Owner(At)
  BY DEF ScopeOwnsReturn
<1>1. WalkingInv /\ StackInv /\ Calling
  BY DEF ReturnRuleInv, Calling, IsRun
<1>2. ReturnStatement \in NodeKind
  BY DEF ReturnStatement, NodeKind
<1>3. scope # << >> => scope[1].owningFunc = Owner(At)
  BY <1>1, <1>2, TopOwns
<1>4. FunctionsAround(At) = StackLengths
  BY <1>1, <1>2, StackAround
<1>5. Len(scope) = Cardinality(StackLengths)
  BY <1>1, StackCounts
<1> QED BY <1>3, <1>4, <1>5

LEMMA ReportedReturns ==
  ASSUME ReturnRuleInv
  PROVE  ReturnReportsAreRight
<1> DEFINE Non == { [at |-> q, id |-> "nonPromiseAwait", autoFix |-> TRUE] :
                      q \in { r \in ReturnedNodes :
                                /\ KindAt(r) = AwaitExpression
                                /\ ~ Has(NodeAt(r).kids[1], "always") /\ ~ Has(NodeAt(r).kids[1], "may") } }
           Req == { [at |-> q, id |-> "requiredPromiseAwait", autoFix |-> ~ CodeAfter(q)] :
                      q \in { r \in ReturnedNodes :
                                /\ KindAt(r) # AwaitExpression /\ Has(NodeAt(r), "always")
                                /\ option = "Always" \/ (option # "Never" /\ CodeAfter(r)) } }
           Dis == { [at |-> q, id |-> "disallowedPromiseAwait", autoFix |-> ~ CodeAfter(q)] :
                      q \in { r \in ReturnedNodes :
                                /\ KindAt(r) = AwaitExpression /\ Has(NodeAt(r).kids[1], "always")
                                /\ option = "Never" \/ (option = "InTryCatch" /\ ~ CodeAfter(r)) } }
<1> SUFFICES ASSUME Done PROVE returnsReported = Non \cup Req \cup Dis
  BY DEF ReturnReportsAreRight
<1>1. WalkingInv /\ \A r : r \in returnsReported <=> \E q : Judged(q) /\ Verdict(r, q)
  BY DEF ReturnRuleInv, ReturnInv
<1>2. ASSUME NEW p \in Visited, ReturnsBody(p) PROVE Left(p)
  <2>1. p \in Path /\ Called(KindAt(p), p)
    BY <1>1, VisitedIs DEF WalkingInv
  <2>2. IsFunction(p)
    BY <1>2 DEF ReturnsBody, IsFunction, FunctionKinds
  <2>3. ~ Open(p)
    BY <1>1, NoneIsOpen
  <2> QED BY <2>1, <2>2, <2>3 DEF Open, Left
<1>3. ASSUME NEW q PROVE Judged(q) <=> q \in ReturnedNodes
  <2>1. \A p : p \in Returning <=> p \in Visited /\ Returns(p)
    BY DEF Returning, Returns
  <2>2. \A p : p \in ReturningArrows <=> p \in Visited /\ ReturnsBody(p)
    BY DEF ReturningArrows, ReturnsBody
  <2>3. q \in ReturnedNodes <=> \/ \E p \in Returning : q \in PossiblyReturned(Append(p, 1))
                                \/ \E p \in ReturningArrows : q \in PossiblyReturned(Append(p, 2))
    <3> DEFINE A == { PossiblyReturned(Append(p, 1)) : p \in Returning }
               B == { PossiblyReturned(Append(p, 2)) : p \in ReturningArrows }
    <3>1. q \in UNION A <=> \E p \in Returning : q \in PossiblyReturned(Append(p, 1))
      OBVIOUS
    <3>2. q \in UNION B <=> \E p \in ReturningArrows : q \in PossiblyReturned(Append(p, 2))
      OBVIOUS
    <3>3. ReturnedNodes = (UNION A) \cup (UNION B)
      BY DEF ReturnedNodes
    <3> HIDE DEF A, B
    <3> QED BY <3>1, <3>2, <3>3
  <2> QED BY <1>2, <2>1, <2>2, <2>3 DEF Judged
<1>4. ASSUME NEW r, NEW q
      PROVE  Verdict(r, q) <=>
               \/ /\ r = [at |-> q, id |-> "nonPromiseAwait", autoFix |-> TRUE]
                  /\ KindAt(q) = AwaitExpression
                  /\ ~ Has(NodeAt(q).kids[1], "always") /\ ~ Has(NodeAt(q).kids[1], "may")
               \/ /\ r = [at |-> q, id |-> "requiredPromiseAwait", autoFix |-> ~ CodeAfter(q)]
                  /\ KindAt(q) # AwaitExpression /\ Has(NodeAt(q), "always")
                  /\ option = "Always" \/ (option # "Never" /\ CodeAfter(q))
               \/ /\ r = [at |-> q, id |-> "disallowedPromiseAwait", autoFix |-> ~ CodeAfter(q)]
                  /\ KindAt(q) = AwaitExpression /\ Has(NodeAt(q).kids[1], "always")
                  /\ option = "Never" \/ (option = "InTryCatch" /\ ~ CodeAfter(q))
  <2>1. PICK after \in BOOLEAN : after <=> CodeAfter(q)
    OBVIOUS
  <2>2. after = CodeAfter(q) /\ \A x \in BOOLEAN : (x <=> CodeAfter(q)) <=> x = after
    BY <2>1 DEF CodeAfter
  <2> QED BY <2>1, <2>2 DEF Verdict, KindAt
<1>5. ASSUME NEW r
      PROVE  r \in returnsReported <=> r \in Non \/ r \in Req \/ r \in Dis
  <2>1. r \in returnsReported <=> \E q \in ReturnedNodes : Verdict(r, q)
    BY <1>1, <1>3
  <2> QED BY <1>4, <2>1
<1> HIDE DEF Non, Req, Dis
<1> QED BY <1>5

\* return-await: a return statement is judged by its own function; and when the walk is
\* done just those of the returned nodes have been reported that await no promise, or do
\* not await one (or await one) though the option and the code that runs after an
\* exception there ask for it (or against it); and they are fixed without being asked for
\* only where no such code is.
THEOREM ReturnReportsFit == RulesSpec => []ReturnsReportedAreRight
<1>1. ReturnRuleInv => ReturnsReportedAreRight
  BY ScopeFitsReturn, ReportedReturns DEF ReturnsReportedAreRight
<1> QED BY <1>1, ReturnRuleHolds, PTL
=============================================================================
