--------------------------- MODULE AstWalkProofs ---------------------------
(***************************************************************************)
(* What AstWalk promises the rules, for any tree: the calls of listeners   *)
(* nest like the nodes do, no node is passed over but for names in         *)
(* targets, no listener is called twice for a node, and what is announced  *)
(* as a target is one.                                                     *)
(***************************************************************************)
EXTENDS AstWalk, Induction

-----------------------------------------------------------------------------
(* Paths. *)

Path == Seq(Nat \ {0})

\* p is q or leads to it, element by element.
Leads(p, q) == Len(p) <= Len(q) /\ \A i \in 1 .. Len(p) : p[i] = q[i]

LEMMA PrefixLeads ==
  ASSUME NEW p \in Path, NEW q \in Path
  PROVE  /\ IsPrefix(p, q) <=> Leads(p, q)
         /\ IsStrictPrefix(p, q) <=> Leads(p, q) /\ p # q
<1>1. IsPrefix(p, q) <=> Leads(p, q)
  <2>0. Len(p) \in Nat /\ Len(q) \in Nat
    BY DEF Path
  <2>1. ASSUME Leads(p, q) PROVE SubSeq(p, 1, Len(p)) = SubSeq(q, 1, Len(p))
    BY <2>0, <2>1 DEF Leads, Path
  <2>2. ASSUME Len(p) <= Len(q), SubSeq(p, 1, Len(p)) = SubSeq(q, 1, Len(p)), NEW i \in 1 .. Len(p)
        PROVE  p[i] = q[i]
    <3>1. SubSeq(p, 1, Len(p))[i] = p[i] /\ SubSeq(q, 1, Len(p))[i] = q[i]
      BY <2>0, <2>2 DEF Path
    <3> QED BY <2>2, <3>1
  <2> QED BY <2>1, <2>2 DEF IsPrefix, Leads
<1> QED BY <1>1 DEF IsStrictPrefix

\* The children's paths.
LEMMA ChildPath ==
  ASSUME NEW p \in Path, NEW i \in Nat \ {0}
  PROVE  /\ Append(p, i) \in Path /\ Leads(p, Append(p, i)) /\ p # Append(p, i)
         /\ Append(p, i) # << >>
         /\ Len(Append(p, i)) = Len(p) + 1 /\ Append(p, i)[Len(p) + 1] = i
         /\ \A k \in 1 .. Len(p) : Append(p, i)[k] = p[k]
BY DEF Path, Leads

LEMMA LeadsReflexive == \A p \in Path : Leads(p, p)
BY DEF Leads, Path

LEMMA LeadsTransitive ==
  ASSUME NEW p \in Path, NEW q \in Path, NEW r \in Path, Leads(p, q), Leads(q, r)
  PROVE  Leads(p, r)
<1>1. Len(p) \in Nat /\ Len(q) \in Nat /\ Len(r) \in Nat
  BY DEF Path
<1> QED BY <1>1 DEF Leads

LEMMA LeadsBothWays ==
  ASSUME NEW p \in Path, NEW q \in Path, Leads(p, q), Leads(q, p)
  PROVE  p = q
BY DEF Leads, Path

\* What leads to a child is the child or leads to its parent.
LEMMA LeadsToChild ==
  ASSUME NEW p \in Path, NEW q \in Path, NEW i \in Nat \ {0}, Leads(q, Append(p, i))
  PROVE  q = Append(p, i) \/ Leads(q, p)
<1> DEFINE c == Append(p, i)
           n == Len(p)
<1>1. /\ c \in Path /\ n \in Nat /\ Len(c) = n + 1 /\ Len(q) \in Nat
      /\ \A k \in 1 .. n : c[k] = p[k]
  BY DEF Path
<1> HIDE DEF c
<1>2. CASE Len(q) = n + 1
  <2>1. Leads(c, q)
    BY <1>1, <1>2 DEF Leads, c
  <2> QED BY <1>1, <2>1, LeadsBothWays DEF c
<1>3. CASE Len(q) # n + 1
  <2>1. Len(q) <= n
    BY <1>1, <1>3 DEF Leads, c
  <2>2. \A k \in 1 .. Len(q) : k \in 1 .. n /\ q[k] = c[k]
    BY <1>1, <2>1 DEF Leads, c
  <2> QED BY <1>1, <2>1, <2>2 DEF Leads
<1> QED BY <1>2, <1>3

\* Two children of a node do not lead to each other.
LEMMA ChildrenApart ==
  ASSUME NEW p \in Path, NEW i \in Nat \ {0}, NEW j \in Nat \ {0},
         Leads(Append(p, i), Append(p, j))
  PROVE  i = j
<1> DEFINE n == Len(p) + 1
<1>1. /\ Len(Append(p, i)) = n /\ n \in 1 .. n
      /\ Append(p, i)[n] = i /\ Append(p, j)[n] = j
  BY DEF Path
<1> QED BY <1>1 DEF Leads

\* A path that p leads to is p, or goes on to one of its children.
LEMMA LeadsOn ==
  ASSUME NEW p \in Path, NEW q \in Path, Leads(p, q), p # q
  PROVE  /\ Len(p) + 1 \in 1 .. Len(q) /\ q[Len(p) + 1] \in Nat \ {0}
         /\ Leads(Append(p, q[Len(p) + 1]), q)
<1> DEFINE n == Len(p)
           m == n + 1
           c == Append(p, q[m])
<1>1. n \in Nat /\ Len(q) \in Nat /\ n <= Len(q)
  BY DEF Path, Leads
<1>2. n # Len(q)
  BY LeadsBothWays DEF Leads
<1>3. m \in 1 .. Len(q)
  BY <1>1, <1>2
<1>4. q[m] \in Nat \ {0}
  BY <1>3 DEF Path
<1>5. Len(c) = m /\ c[m] = q[m] /\ \A k \in 1 .. n : c[k] = p[k]
  BY <1>4, ChildPath
<1>6. \A k \in 1 .. m : k \in 1 .. n \/ k = m
  BY <1>1
<1>7. Leads(c, q)
  <2> HIDE DEF c
  <2> QED BY <1>1, <1>3, <1>5, <1>6 DEF Leads
<1> QED BY <1>3, <1>4, <1>7

-----------------------------------------------------------------------------
(* The calls made and the visits and calls to come, as one sequence. *)

Item ==
  [do : {"run"}, kind : Nat, at : Path] \cup [do : {"child", "pattern"}, node : Nodes, at : Path]

IsRun(x) == x.do = "run"
Opens(x) == IsRun(x) /\ Band(x.kind) \in EnterBands
ClosedBy(x) == Run(ListenerOnExit(x.kind), x.at)

\* From position i to position k of c is all there is about the node of c[i].
Encloses(c, i, k) ==
  /\ i < k /\ c[k] = ClosedBy(c[i])
  /\ \A j \in 1 .. Len(c) :
       /\ Leads(c[i].at, c[j].at) /\ c[i].at # c[j].at => i < j /\ j < k
       /\ i < j /\ j < k => Leads(c[i].at, c[j].at)

\* The calls nest, each is made once, and nothing is yet known below a node that is to be
\* visited.
Tidy(c) ==
  /\ \A i \in 1 .. Len(c) : Opens(c[i]) => \E k \in 1 .. Len(c) : Encloses(c, i, k)
  /\ \A i, j \in 1 .. Len(c) : i # j /\ ~ IsRun(c[i]) => ~ Leads(c[i].at, c[j].at)
  /\ \A i, j \in 1 .. Len(c) : i # j /\ IsRun(c[i]) /\ IsRun(c[j]) => c[i] # c[j]

\* What replaces the visit of the node at p: calls for the node, around visits of children.
IsBlock(b, p) ==
  /\ \A m \in 1 .. Len(b) :
       /\ b[m] \in Item
       /\ IsRun(b[m]) => b[m].at = p
       /\ ~ IsRun(b[m]) => \E i \in Nat \ {0} : b[m].at = Append(p, i)
  /\ \A m, n \in 1 .. Len(b) : m # n /\ ~ IsRun(b[m]) /\ ~ IsRun(b[n]) => b[m].at # b[n].at
  /\ \A m \in 1 .. Len(b) : Opens(b[m]) =>
       \E k \in 1 .. Len(b) :
         /\ m < k /\ b[k] = ClosedBy(b[m])
         /\ \A j \in 1 .. Len(b) : ~ IsRun(b[j]) => m < j /\ j < k
  /\ \A m, n \in 1 .. Len(b) : m # n /\ IsRun(b[m]) /\ IsRun(b[n]) => b[m] # b[n]

-----------------------------------------------------------------------------
(* A visit is replaced by its block. *)

\* c2 is c with b in the place of position u.
Spliced(c, c2, u, b) ==
  /\ Len(c2) = Len(c) - 1 + Len(b)
  /\ \A i \in 1 .. u - 1 : c2[i] = c[i]
  /\ \A m \in 1 .. Len(b) : c2[u - 1 + m] = b[m]
  /\ \A i \in u + 1 .. Len(c) : c2[i - 1 + Len(b)] = c[i]

\* Where the positions of c2 come from.
ComesFrom(f, c, c2, u, b) ==
  /\ f \in [1 .. Len(c2) -> 1 .. Len(c)]
  /\ \A j \in 1 .. Len(c2) : f[j] # u => c2[j] = c[f[j]]
  /\ \A j \in 1 .. Len(c2) : f[j] = u => \E m \in 1 .. Len(b) : j = u - 1 + m /\ c2[j] = b[m]
  /\ \A m \in 1 .. Len(b) :
       u - 1 + m \in 1 .. Len(c2) /\ f[u - 1 + m] = u /\ c2[u - 1 + m] = b[m]
  /\ \A i, j \in 1 .. Len(c2) : f[i] < f[j] => i < j
  /\ \A i, j \in 1 .. Len(c2) : i < j => f[i] <= f[j]
  /\ \A i, j \in 1 .. Len(c2) : f[i] = f[j] /\ f[i] # u => i = j
  /\ \A i \in 1 .. Len(c) : i # u => \E j \in 1 .. Len(c2) : f[j] = i

LEMMA SpliceMaps ==
  ASSUME NEW c, NEW c2, NEW b, Len(c) \in Nat, Len(b) \in Nat, Len(c2) \in Nat,
         NEW u \in 1 .. Len(c), Spliced(c, c2, u, b)
  PROVE  \E f : ComesFrom(f, c, c2, u, b)
<1> DEFINE l == Len(b)
           N == Len(c)
           N2 == Len(c2)
           From(j) == IF j < u THEN j ELSE IF j < u + l THEN u ELSE j - l + 1
           f == [j \in 1 .. N2 |-> From(j)]
<1>1. l \in Nat /\ N \in Nat /\ N2 \in Nat /\ N2 = N - 1 + l /\ u \in 1 .. N
  BY DEF Spliced
<1>2. ASSUME NEW j \in 1 .. N2
      PROVE  /\ f[j] \in 1 .. N
             /\ f[j] # u => c2[j] = c[f[j]]
             /\ f[j] = u => \E m \in 1 .. l : j = u - 1 + m /\ c2[j] = b[m]
  <2>1. CASE j < u
    <3>1. f[j] = j /\ f[j] \in 1 .. N /\ f[j] # u /\ j \in 1 .. u - 1
      BY <1>1, <2>1
    <3> HIDE DEF f, l
    <3> QED BY <3>1 DEF Spliced
  <2>2. CASE j >= u /\ j < u + l
    <3> DEFINE m == j - u + 1
    <3>1. f[j] = u /\ f[j] \in 1 .. N /\ m \in 1 .. l /\ j = u - 1 + m
      BY <1>1, <2>2
    <3> HIDE DEF f, m
    <3>2. c2[j] = b[m]
      BY <3>1 DEF Spliced
    <3> QED BY <3>1, <3>2
  <2>3. CASE j >= u + l
    <3> DEFINE i == j - l + 1
    <3>1. f[j] = i /\ i \in u + 1 .. N /\ i \in 1 .. N /\ i # u /\ j = i - 1 + l
      BY <1>1, <2>3
    <3> HIDE DEF f, i
    <3>2. c2[j] = c[i]
      BY <3>1 DEF Spliced
    <3> QED BY <3>1, <3>2
  <2> QED BY <1>1, <2>1, <2>2, <2>3
<1>3. ASSUME NEW m \in 1 .. l
      PROVE  u - 1 + m \in 1 .. N2 /\ f[u - 1 + m] = u /\ c2[u - 1 + m] = b[m]
  <2>1. u - 1 + m \in 1 .. N2 /\ f[u - 1 + m] = u
    BY <1>1
  <2> QED BY <2>1 DEF Spliced
<1>4. \A i, j \in 1 .. N2 : f[i] < f[j] => i < j
  BY <1>1
<1>5. \A i, j \in 1 .. N2 : i < j => f[i] <= f[j]
  BY <1>1
<1>6. \A i, j \in 1 .. N2 : f[i] = f[j] /\ f[i] # u => i = j
  BY <1>1
<1>7. ASSUME NEW i \in 1 .. N, i # u PROVE \E j \in 1 .. N2 : f[j] = i
  <2>1. CASE i < u
    <3>1. i \in 1 .. N2 /\ f[i] = i
      BY <1>1, <2>1
    <3> QED BY <3>1
  <2>2. CASE i > u
    <3> DEFINE j == i - 1 + l
    <3>1. j \in 1 .. N2 /\ f[j] = i
      BY <1>1, <2>2
    <3> QED BY <3>1
  <2> QED BY <1>1, <1>7, <2>1, <2>2
<1>8. f \in [1 .. N2 -> 1 .. N]
  BY <1>2
<1>9. \A j \in 1 .. N2 : f[j] # u => c2[j] = c[f[j]]
  BY <1>2
<1>10. \A j \in 1 .. N2 : f[j] = u => \E m \in 1 .. l : j = u - 1 + m /\ c2[j] = b[m]
  BY <1>2
<1>11. \A i \in 1 .. N : i # u => \E j \in 1 .. N2 : f[j] = i
  BY <1>7
<1>12. \A m \in 1 .. l : u - 1 + m \in 1 .. N2 /\ f[u - 1 + m] = u /\ c2[u - 1 + m] = b[m]
  BY <1>3
<1> HIDE DEF f
<1>13. ComesFrom(f, c, c2, u, b)
  BY ONLY <1>4, <1>5, <1>6, <1>8, <1>9, <1>10, <1>11, <1>12 DEF ComesFrom
<1> QED BY <1>13

\* A visit's block leaves the calls and the visits to come tidy.
LEMMA Expanded ==
  ASSUME NEW c, NEW c2, NEW b, Len(c) \in Nat, Len(b) \in Nat, Len(c2) \in Nat,
         NEW u \in 1 .. Len(c), NEW f, ComesFrom(f, c, c2, u, b),
         \A i \in 1 .. Len(c) : c[i] \in Item,
         Tidy(c), ~ IsRun(c[u]), IsBlock(b, c[u].at)
  PROVE  Tidy(c2)
<1> DEFINE p == c[u].at
           N == Len(c)
           N2 == Len(c2)
           l == Len(b)
<1>1. p \in Path /\ N \in Nat /\ N2 \in Nat /\ l \in Nat
  BY DEF Item
<1>2. ASSUME NEW j \in 1 .. N2
      PROVE  f[j] \in 1 .. N /\ (f[j] # u => c2[j] = c[f[j]] /\ c2[j].at \in Path)
  BY DEF ComesFrom, Item
<1>3. ASSUME NEW j \in 1 .. N2, f[j] = u
      PROVE  /\ c2[j].at \in Path /\ Leads(p, c2[j].at)
             /\ IsRun(c2[j]) => c2[j].at = p
             /\ ~ IsRun(c2[j]) => \E i \in Nat \ {0} : c2[j].at = Append(p, i)
  <2>1. PICK m \in 1 .. l : c2[j] = b[m]
    BY <1>3 DEF ComesFrom
  <2>2. /\ b[m] \in Item
        /\ IsRun(b[m]) => b[m].at = p
        /\ ~ IsRun(b[m]) => \E i \in Nat \ {0} : b[m].at = Append(p, i)
    BY DEF IsBlock
  <2>3. b[m].at \in Path
    BY <2>2 DEF Item
  <2>4. Leads(p, b[m].at)
    <3>1. CASE IsRun(b[m])
      BY <1>1, <2>2, <3>1, LeadsReflexive
    <3>2. CASE ~ IsRun(b[m])
      <4>1. PICK i \in Nat \ {0} : b[m].at = Append(p, i)
        BY <2>2, <3>2
      <4>2. Leads(p, Append(p, i))
        <5> HIDE DEF p
        <5> QED BY ONLY <1>1, ChildPath, i \in Nat \ {0}
      <4> QED BY <4>1, <4>2
    <3> QED BY <3>1, <3>2
  <2> QED BY <2>1, <2>2, <2>3, <2>4
<1>4. ASSUME NEW j \in 1 .. N2, f[j] = u, NEW a \in Path, Leads(a, c2[j].at), a # c2[j].at
      PROVE  Leads(a, p)
  <2>1. CASE IsRun(c2[j])
    BY <1>3, <1>4, <2>1
  <2>2. CASE ~ IsRun(c2[j])
    <3>1. PICK i \in Nat \ {0} : c2[j].at = Append(p, i)
      BY <1>3, <1>4, <2>2
    <3> QED BY <1>1, <1>4, <3>1, LeadsToChild
  <2> QED BY <2>1, <2>2
<1>5. ASSUME NEW i \in 1 .. N, i # u
      PROVE  c[i].at \in Path /\ ~ Leads(p, c[i].at) /\ p # c[i].at
  <2>1. ~ Leads(p, c[i].at)
    BY <1>5 DEF Tidy
  <2>2. c[i].at \in Path
    BY DEF Item
  <2> QED BY <1>1, <2>1, <2>2, LeadsReflexive
<1>6. ASSUME NEW i \in 1 .. N, NEW j \in 1 .. N, i # j, ~ IsRun(c[i])
      PROVE  ~ Leads(c[i].at, c[j].at)
  BY <1>6 DEF Tidy
<1>7. /\ \A i, j \in 1 .. N2 : f[i] < f[j] => i < j
      /\ \A i, j \in 1 .. N2 : i < j => f[i] <= f[j]
      /\ \A i, j \in 1 .. N2 : f[i] = f[j] /\ f[i] # u => i = j
      /\ \A i \in 1 .. N : i # u => \E j \in 1 .. N2 : f[j] = i
  BY DEF ComesFrom
<1> HIDE DEF p
<1>8. ASSUME NEW i \in 1 .. N2, Opens(c2[i]), f[i] # u
      PROVE  \E k \in 1 .. N2 : Encloses(c2, i, k)
  <2> DEFINE i0 == f[i]
             a == c2[i].at
  <2>1. i0 \in 1 .. N /\ c2[i] = c[i0] /\ a \in Path
    BY <1>2, <1>8
  <2>2. PICK k0 \in 1 .. N : Encloses(c, i0, k0)
    BY <1>8, <2>1 DEF Tidy
  <2>3. k0 # u
    BY <2>2 DEF Encloses, ClosedBy, Run, IsRun
  <2>4. PICK k \in 1 .. N2 : f[k] = k0
    BY <1>7, <2>3
  <2>5. i < k /\ c2[k] = ClosedBy(c2[i])
    <3>1. c2[k] = c[k0]
      BY <1>2, <2>3, <2>4
    <3>2. i0 < k0 /\ c[k0] = ClosedBy(c[i0])
      BY <2>2 DEF Encloses
    <3> QED BY <1>7, <2>1, <2>4, <3>1, <3>2
  <2>6. \A j \in 1 .. N : /\ Leads(a, c[j].at) /\ a # c[j].at => i0 < j /\ j < k0
                          /\ i0 < j /\ j < k0 => Leads(a, c[j].at)
    BY <2>1, <2>2 DEF Encloses
  <2>7. ~ Leads(p, a) /\ p # a /\ i0 # u
    BY <1>5, <1>8, <2>1
  <2> HIDE DEF a, i0
  <2>8. ASSUME NEW j \in 1 .. N2, Leads(a, c2[j].at), a # c2[j].at
        PROVE  i < j /\ j < k
    <3>1. i0 < f[j] /\ f[j] < k0
      <4>1. CASE f[j] # u
        BY <1>2, <2>6, <2>8, <4>1
      <4>2. CASE f[j] = u
        <5>1. Leads(a, p)
          BY <1>4, <2>1, <2>8, <4>2
        <5> QED BY <2>6, <2>7, <4>2, <5>1 DEF p
      <4> QED BY <4>1, <4>2
    <3> QED BY <1>7, <2>4, <3>1 DEF i0
  <2>9. ASSUME NEW j \in 1 .. N2, i < j, j < k
        PROVE  Leads(a, c2[j].at)
    <3>1. f[i] <= f[j] /\ f[j] <= f[k] /\ f[i] \in Nat /\ f[j] \in Nat /\ f[k] \in Nat
      BY <1>2, <1>7, <2>9
    <3>2. f[j] # f[i] /\ f[j] # f[k]
      BY <1>7, <1>8, <2>3, <2>4, <2>9
    <3>3. i0 < f[j] /\ f[j] < k0
      BY <2>4, <3>1, <3>2 DEF i0
    <3>4. CASE f[j] # u
      BY <1>2, <2>6, <3>3, <3>4
    <3>5. CASE f[j] = u
      <4>1. Leads(a, p)
        BY <2>6, <3>3, <3>5 DEF p
      <4> QED BY <1>1, <1>3, <2>1, <3>5, <4>1, LeadsTransitive
    <3> QED BY <3>4, <3>5
  <2>10. Encloses(c2, i, k)
    BY <2>5, <2>8, <2>9 DEF Encloses, a
  <2> QED BY <2>10
<1>9. ASSUME NEW i \in 1 .. N2, Opens(c2[i]), f[i] = u
      PROVE  \E k \in 1 .. N2 : Encloses(c2, i, k)
  <2>1. PICK m \in 1 .. l : i = u - 1 + m /\ c2[i] = b[m]
    BY <1>9 DEF ComesFrom
  <2>2. PICK n \in 1 .. l : /\ m < n /\ b[n] = ClosedBy(b[m])
                            /\ \A j \in 1 .. l : ~ IsRun(b[j]) => m < j /\ j < n
    BY <1>9, <2>1 DEF IsBlock
  <2> DEFINE k == u - 1 + n
  <2>3. k \in 1 .. N2 /\ f[k] = u /\ c2[k] = b[n]
    BY DEF ComesFrom
  <2>4. i < k /\ c2[k] = ClosedBy(c2[i])
    BY <2>1, <2>2, <2>3
  <2>5. c2[i].at = p
    BY <1>3, <1>9 DEF Opens
  <2>6. ASSUME NEW j \in 1 .. N2, Leads(p, c2[j].at), p # c2[j].at
        PROVE  i < j /\ j < k
    <3>1. f[j] = u
      BY <1>2, <1>5, <2>6
    <3>2. ~ IsRun(c2[j])
      BY <1>3, <2>6, <3>1
    <3>3. PICK mj \in 1 .. l : j = u - 1 + mj /\ c2[j] = b[mj]
      BY <3>1 DEF ComesFrom
    <3>4. m < mj /\ mj < n
      BY <2>2, <3>2, <3>3
    <3> QED BY <2>1, <3>3, <3>4
  <2> HIDE DEF k
  <2>7. ASSUME NEW j \in 1 .. N2, i < j, j < k
        PROVE  Leads(p, c2[j].at)
    <3>1. f[i] <= f[j] /\ f[j] <= f[k] /\ f[j] \in Nat
      BY <1>2, <1>7, <2>3, <2>7
    <3>2. f[j] = u
      BY <1>9, <2>3, <3>1
    <3> QED BY <1>3, <3>2
  <2>8. Encloses(c2, i, k)
    BY <2>4, <2>5, <2>6, <2>7 DEF Encloses
  <2> QED BY <2>3, <2>8
<1>10. ASSUME NEW i \in 1 .. N2, NEW j \in 1 .. N2, i # j, ~ IsRun(c2[i]),
              Leads(c2[i].at, c2[j].at)
       PROVE  FALSE
  <2> DEFINE q == c2[i].at
             r == c2[j].at
  <2>1. q \in Path /\ r \in Path
    BY <1>2, <1>3
  <2>2. CASE f[i] # u /\ f[j] # u
    <3>1. f[i] # f[j]
      BY <1>7, <1>10, <2>2
    <3> QED BY <1>2, <1>6, <1>10, <2>2, <3>1
  <2>3. CASE f[i] # u /\ f[j] = u
    <3>1. CASE q = r
      <4>1. Leads(p, q)
        BY <1>3, <2>3, <3>1
      <4> QED BY <1>2, <1>5, <2>3, <4>1
    <3>2. CASE q # r
      <4>1. Leads(q, p)
        BY <1>4, <1>10, <2>1, <2>3, <3>2
      <4> QED BY <1>2, <1>6, <1>10, <2>3, <4>1 DEF p
    <3> QED BY <3>1, <3>2
  <2>4. CASE f[i] = u /\ f[j] # u
    <3>1. Leads(p, q)
      BY <1>3, <2>4
    <3>2. Leads(p, r)
      <4> HIDE DEF q, r
      <4>1. Leads(q, r)
        BY <1>10 DEF q, r
      <4> QED BY <1>1, <2>1, <3>1, <4>1, LeadsTransitive
    <3> QED BY <1>2, <1>5, <2>4, <3>2
  <2>5. CASE f[i] = u /\ f[j] = u
    <3>1. PICK x \in Nat \ {0} : q = Append(p, x)
      BY <1>3, <1>10, <2>5
    <3>2. CASE IsRun(c2[j])
      <4>1. r = p
        BY <1>3, <2>5, <3>2
      <4>2. Leads(Append(p, x), p)
        BY <1>10, <3>1, <4>1
      <4> QED BY <1>1, <4>2, ChildPath, LeadsBothWays
    <3>3. CASE ~ IsRun(c2[j])
      <4>1. PICK y \in Nat \ {0} : r = Append(p, y)
        BY <1>3, <2>5, <3>3
      <4>2. x = y
        BY <1>1, <1>10, <3>1, <4>1, ChildrenApart
      <4>3. PICK m \in 1 .. l : i = u - 1 + m /\ c2[i] = b[m]
        BY <2>5 DEF ComesFrom
      <4>4. PICK n \in 1 .. l : j = u - 1 + n /\ c2[j] = b[n]
        BY <2>5 DEF ComesFrom
      <4>5. m # n
        BY <1>10, <4>3, <4>4
      <4>6. b[m].at # b[n].at
        BY <1>10, <3>3, <4>3, <4>4, <4>5 DEF IsBlock
      <4> QED BY <3>1, <4>1, <4>2, <4>3, <4>4, <4>6
    <3> QED BY <3>2, <3>3
  <2> QED BY <2>2, <2>3, <2>4, <2>5
<1>11. ASSUME NEW i \in 1 .. N2, NEW j \in 1 .. N2, i # j, IsRun(c2[i]), IsRun(c2[j]),
              c2[i] = c2[j]
       PROVE  FALSE
  <2>1. CASE f[i] # u /\ f[j] # u
    <3>1. f[i] # f[j]
      BY <1>7, <1>11, <2>1
    <3> QED BY <1>2, <1>11, <2>1, <3>1 DEF Tidy
  <2>2. CASE f[i] # u /\ f[j] = u
    <3>1. c2[j].at = p
      BY <1>3, <1>11, <2>2
    <3> QED BY <1>2, <1>5, <1>11, <2>2, <3>1
  <2>3. CASE f[i] = u /\ f[j] # u
    <3>1. c2[i].at = p
      BY <1>3, <1>11, <2>3
    <3> QED BY <1>2, <1>5, <1>11, <2>3, <3>1
  <2>4. CASE f[i] = u /\ f[j] = u
    <3>1. PICK m \in 1 .. l : i = u - 1 + m /\ c2[i] = b[m]
      BY <2>4 DEF ComesFrom
    <3>2. PICK n \in 1 .. l : j = u - 1 + n /\ c2[j] = b[n]
      BY <2>4 DEF ComesFrom
    <3>3. m # n
      BY <1>11, <3>1, <3>2
    <3> QED BY <1>11, <3>1, <3>2, <3>3 DEF IsBlock
  <2> QED BY <2>1, <2>2, <2>3, <2>4
<1> QED BY <1>8, <1>9, <1>10, <1>11 DEF Tidy

-----------------------------------------------------------------------------
(* The blocks that the visitors make. *)

LEMMA NodeFacts ==
  ASSUME NEW node \in Nodes
  PROVE  /\ node.kind \in 1 .. 999 /\ node.kids \in Seq(Nodes)
         /\ DOMAIN node.kids = 1 .. Len(node.kids) /\ Len(node.kids) \in Nat
         /\ \A i \in DOMAIN node.kids : i \in Nat \ {0} /\ node.kids[i] \in Nodes
<1>1. node.kind \in 1 .. 999 /\ node.kids \in Seq(Nodes)
  BY NodesAssumption
<1> QED BY <1>1

\* Child i of a node is a target by itself, or if the node is one.
Starts(node, i) == i = 1 /\ (IsAssignmentExpression(node) \/ node.kind = ForOfStatement)
PassesOn(node, i) ==
  \/ node.kind \in Literals \cup {SpreadElement, SpreadAssignment}
  \/ node.kind = PropertyAssignment /\ i = 2

\* Visits of the children of a node that is or is no target, with no calls between them: a
\* child is a target if it should be, and just the name of a target property is left out.
AreVisits(b, node, at, target) ==
  /\ b \in Seq(Item)
  /\ \A m \in 1 .. Len(b) : \E i \in DOMAIN node.kids :
       \/ b[m] = ChildAt(node, at, i)
       \/ /\ b[m] = PatternAt(node, at, i)
          /\ Starts(node, i) \/ (target /\ PassesOn(node, i))
  /\ \A m, n \in 1 .. Len(b) : m # n => b[m].at # b[n].at
  /\ \A i \in DOMAIN node.kids :
       \/ \E m \in 1 .. Len(b) : b[m].at = Append(at, i)
       \/ target /\ node.kind = PropertyAssignment /\ i = 1
  /\ target /\ node.kind = PropertyAssignment =>
       \A m \in 1 .. Len(b) : b[m].at # Append(at, 1)

LEMMA VisitsMakeBlock ==
  ASSUME NEW node \in Nodes, NEW at \in Path, NEW target, NEW b,
         AreVisits(b, node, at, target)
  PROVE  /\ IsBlock(b, at)
         /\ \A m \in 1 .. Len(b) : ~ IsRun(b[m])
<1>1. ASSUME NEW m \in 1 .. Len(b)
      PROVE  b[m] \in Item /\ ~ IsRun(b[m]) /\ \E i \in Nat \ {0} : b[m].at = Append(at, i)
  <2>1. PICK i \in DOMAIN node.kids : b[m] = ChildAt(node, at, i) \/ b[m] = PatternAt(node, at, i)
    BY DEF AreVisits
  <2>2. ~ IsRun(b[m]) /\ b[m].at = Append(at, i)
    BY <2>1 DEF IsRun, ChildAt, PatternAt, Child, Pattern
  <2>3. i \in Nat \ {0}
    BY NodeFacts
  <2>4. b[m] \in Item
    <3>1. b \in Seq(Item)
      BY DEF AreVisits
    <3> QED BY <3>1
  <2> QED BY <2>2, <2>3, <2>4
<1>2. \A m, n \in 1 .. Len(b) : m # n => b[m].at # b[n].at
  BY DEF AreVisits
<1> QED BY <1>1, <1>2 DEF IsBlock, Opens

\* Calls of a kind's listener and its exit listener around a block.
Around(kind, at, b) == <<Run(kind, at)>> \o b \o <<Run(ListenerOnExit(kind), at)>>

LEMMA AroundFacts ==
  ASSUME NEW kind \in Nat, NEW at \in Path, NEW b \in Seq(Item)
  PROVE  /\ Around(kind, at, b) \in Seq(Item)
         /\ Len(Around(kind, at, b)) = Len(b) + 2
         /\ Around(kind, at, b)[1] = Run(kind, at)
         /\ Around(kind, at, b)[Len(b) + 2] = Run(ListenerOnExit(kind), at)
         /\ \A m \in 1 .. Len(b) : Around(kind, at, b)[m + 1] = b[m]
         /\ \A j \in 1 .. Len(b) + 2 : \/ j = 1 \/ j = Len(b) + 2
                                       \/ \E m \in 1 .. Len(b) : j = m + 1
<1> DEFINE r == Run(kind, at)
           x == Run(ListenerOnExit(kind), at)
<1>1. r \in Item /\ x \in Item
  BY DEF Item, Run, ListenerOnExit
<1> HIDE DEF r, x
<1>2. Len(b) \in Nat
  OBVIOUS
<1>3. ASSUME NEW j \in 1 .. Len(b) + 2, j # 1, j # Len(b) + 2
      PROVE  \E m \in 1 .. Len(b) : j = m + 1
  <2>1. j - 1 \in 1 .. Len(b) /\ j = (j - 1) + 1
    BY <1>2, <1>3
  <2> QED BY <2>1
<1>4. Around(kind, at, b) = (<<r>> \o b) \o <<x>>
  BY DEF Around, r, x
<1>5. (<<r>> \o b) \o <<x>> \in Seq(Item) /\ Len((<<r>> \o b) \o <<x>>) = Len(b) + 2
  BY <1>1
<1>6. ((<<r>> \o b) \o <<x>>)[1] = r /\ ((<<r>> \o b) \o <<x>>)[Len(b) + 2] = x
  BY <1>1, <1>2
<1>7. \A m \in 1 .. Len(b) : ((<<r>> \o b) \o <<x>>)[m + 1] = b[m]
  BY <1>1, <1>2
<1> QED BY <1>3, <1>4, <1>5, <1>6, <1>7 DEF r, x

LEMMA AroundMakesBlock ==
  ASSUME NEW kind \in Nat, NEW at \in Path, NEW b \in Seq(Item), IsBlock(b, at),
         Band(kind + 1000) \notin EnterBands,
         \A m \in 1 .. Len(b) : IsRun(b[m]) => b[m].kind # kind /\ b[m].kind # kind + 1000
  PROVE  IsBlock(Around(kind, at, b), at)
<1> DEFINE o == Around(kind, at, b)
           l == Len(b)
           last == l + 2
<1>0. /\ o \in Seq(Item)
      /\ Len(o) = Len(b) + 2
      /\ o[1] = Run(kind, at)
      /\ o[Len(b) + 2] = Run(ListenerOnExit(kind), at)
      /\ \A m \in 1 .. Len(b) : o[m + 1] = b[m]
      /\ \A j \in 1 .. Len(b) + 2 : \/ j = 1 \/ j = Len(b) + 2
                                    \/ \E m \in 1 .. Len(b) : j = m + 1
  <2>1. o \in Seq(Item)
    BY AroundFacts
  <2>5. Len(o) = Len(b) + 2
    BY AroundFacts
  <2>6. o[1] = Run(kind, at)
    BY AroundFacts
  <2>2. o[Len(b) + 2] = Run(ListenerOnExit(kind), at)
    BY AroundFacts
  <2>3. \A m \in 1 .. Len(b) : o[m + 1] = b[m]
    BY AroundFacts
  <2>4. \A j \in 1 .. Len(b) + 2 : \/ j = 1 \/ j = Len(b) + 2
                                    \/ \E m \in 1 .. Len(b) : j = m + 1
    BY AroundFacts
  <2> QED BY <2>1, <2>2, <2>3, <2>4, <2>5, <2>6
<1> HIDE DEF o
<1>1. /\ o \in Seq(Item) /\ Len(o) = last /\ o[1] = Run(kind, at)
      /\ o[last] = Run(ListenerOnExit(kind), at)
      /\ \A m \in 1 .. l : o[m + 1] = b[m]
      /\ \A j \in 1 .. last : j = 1 \/ j = last \/ \E m \in 1 .. l : j = m + 1
  BY ONLY <1>0
<1>within. ASSUME NEW j \in 1 .. last, j # 1, j # last PROVE \E m \in 1 .. l : j = m + 1
  BY <1>1, <1>within
<1>2. /\ IsRun(o[1]) /\ o[1].at = at /\ o[1].kind = kind
      /\ IsRun(o[last]) /\ o[last].at = at /\ o[last].kind = kind + 1000
      /\ o[last] = ClosedBy(o[1]) /\ ~ Opens(o[last])
  BY <1>1 DEF IsRun, Run, ListenerOnExit, ClosedBy, Opens
<1>3. l \in Nat /\ 1 < last /\ \A m \in 1 .. l : m + 1 \in 1 .. last /\ 1 < m + 1 /\ m + 1 < last
  OBVIOUS
<1> HIDE DEF last, l
<1>4. ASSUME NEW m \in 1 .. last
      PROVE  /\ o[m] \in Item
             /\ IsRun(o[m]) => o[m].at = at
             /\ ~ IsRun(o[m]) => \E i \in Nat \ {0} : o[m].at = Append(at, i)
             /\ ~ IsRun(o[m]) => 1 < m /\ m < last
  <2>1. o[m] \in Item
    BY <1>1
  <2>2. CASE m = 1 \/ m = last
    BY <1>2, <2>1, <2>2
  <2>3. CASE m # 1 /\ m # last
    <3>1. PICK n \in 1 .. l : m = n + 1
      BY <1>1, <2>3
    <3>2. o[m] = b[n] /\ 1 < m /\ m < last
      BY <1>1, <1>3, <3>1
    <3>3. /\ IsRun(b[n]) => b[n].at = at
          /\ ~ IsRun(b[n]) => \E i \in Nat \ {0} : b[n].at = Append(at, i)
      BY DEF IsBlock, l
    <3> QED BY <2>1, <3>2, <3>3
  <2> QED BY <2>2, <2>3
<1>5. ASSUME NEW m \in 1 .. last, NEW n \in 1 .. last, m # n, ~ IsRun(o[m]), ~ IsRun(o[n])
      PROVE  o[m].at # o[n].at
  <2>1. PICK m1 \in 1 .. l : m = m1 + 1
    BY <1>1, <1>2, <1>5
  <2>2. PICK n1 \in 1 .. l : n = n1 + 1
    BY <1>1, <1>2, <1>5
  <2>3. o[m] = b[m1] /\ o[n] = b[n1] /\ m1 # n1
    BY <1>1, <1>5, <2>1, <2>2
  <2> QED BY <1>5, <2>3 DEF IsBlock, l
<1>6. ASSUME NEW m \in 1 .. last, Opens(o[m])
      PROVE  \E k \in 1 .. last :
               /\ m < k /\ o[k] = ClosedBy(o[m])
               /\ \A j \in 1 .. last : ~ IsRun(o[j]) => m < j /\ j < k
  <2>1. CASE m = 1
    <3>1. last \in 1 .. last /\ m < last /\ o[last] = ClosedBy(o[m])
      BY <1>2, <1>3, <2>1 DEF last
    <3> QED BY <1>4, <2>1, <3>1
  <2>2. CASE m # 1
    <3>1. PICK m1 \in 1 .. l : m = m1 + 1
      BY <1>1, <1>2, <1>6, <2>2
    <3>2. o[m] = b[m1]
      BY <1>1, <3>1
    <3>3. PICK k1 \in 1 .. l : /\ m1 < k1 /\ b[k1] = ClosedBy(b[m1])
                               /\ \A j \in 1 .. l : ~ IsRun(b[j]) => m1 < j /\ j < k1
      BY <1>6, <3>2 DEF IsBlock, l
    <3> DEFINE k == k1 + 1
    <3>4. k \in 1 .. last /\ m < k /\ o[k] = b[k1]
      BY <1>1, <1>3, <3>1, <3>3
    <3>5. ASSUME NEW j \in 1 .. last, ~ IsRun(o[j]) PROVE m < j /\ j < k
      <4>1. PICK j1 \in 1 .. l : j = j1 + 1
        BY <1>1, <1>2, <3>5
      <4>2. m1 < j1 /\ j1 < k1
        BY <1>1, <3>3, <3>5, <4>1
      <4> QED BY <3>1, <4>1, <4>2
    <3> QED BY <3>2, <3>3, <3>4, <3>5
  <2> QED BY <2>1, <2>2
<1>7. ASSUME NEW m \in 1 .. last, NEW n \in 1 .. last, m < n, IsRun(o[m]), IsRun(o[n])
      PROVE  o[m] # o[n]
  <2>1. \A j \in 1 .. l : o[j + 1] = b[j]
                          /\ (IsRun(b[j]) => b[j].kind # kind /\ b[j].kind # kind + 1000)
    BY <1>1 DEF l
  <2>2. m # last /\ n # 1
    BY <1>3, <1>7
  <2>3. CASE m = 1
    <3>1. CASE n = last
      BY <1>2, <2>3, <3>1
    <3>2. CASE n # last
      <4>1. PICK n1 \in 1 .. l : n = n1 + 1
        BY <1>within, <2>2, <3>2
      <4> QED BY <1>2, <1>7, <2>1, <2>3, <4>1
    <3> QED BY <3>1, <3>2
  <2>4. CASE m # 1
    <3>1. PICK m1 \in 1 .. l : m = m1 + 1
      BY <1>1, <2>2, <2>4
    <3>2. CASE n = last
      BY <1>2, <1>7, <2>1, <3>1, <3>2
    <3>3. CASE n # last
      <4>1. PICK n1 \in 1 .. l : n = n1 + 1
        BY <1>within, <2>2, <3>3
      <4>2. m1 # n1
        BY <1>7, <3>1, <4>1
      <4> QED BY <1>7, <2>1, <3>1, <4>1, <4>2 DEF IsBlock, l
    <3> QED BY <3>2, <3>3
  <2> QED BY <2>3, <2>4
<1>8. \A m, n \in 1 .. last : m # n /\ IsRun(o[m]) /\ IsRun(o[n]) => o[m] # o[n]
  <2>1. \A m, n \in 1 .. last : m # n => m < n \/ n < m
    BY <1>3 DEF last
  <2> QED BY <1>7, <2>1
<1>9. IsBlock(o, at)
  BY <1>1, <1>4, <1>5, <1>6, <1>8 DEF IsBlock
<1> QED BY <1>9 DEF o

LEMMA VisitFacts ==
  ASSUME NEW node \in Nodes, NEW at \in Path, NEW i \in DOMAIN node.kids
  PROVE  /\ ChildAt(node, at, i) \in Item /\ PatternAt(node, at, i) \in Item
         /\ ChildAt(node, at, i).at = Append(at, i) /\ PatternAt(node, at, i).at = Append(at, i)
         /\ ChildAt(node, at, i).node = node.kids[i] /\ PatternAt(node, at, i).node = node.kids[i]
         /\ ChildAt(node, at, i).do = "child" /\ PatternAt(node, at, i).do = "pattern"
<1>1. i \in Nat \ {0} /\ node.kids[i] \in Nodes
  BY NodeFacts
<1>2. Append(at, i) \in Path
  BY <1>1, ChildPath
<1> QED BY <1>1, <1>2 DEF Item, ChildAt, PatternAt, Child, Pattern

LEMMA AppendApart ==
  ASSUME NEW p \in Path, NEW i \in Nat \ {0}, NEW j \in Nat \ {0}, i # j
  PROVE  Append(p, i) # Append(p, j)
BY ChildPath

\* b is a sequence with one visit for each of some children, g says whose.
VisitsByIndex(b, g, n, node, at, target) ==
  /\ b \in [1 .. n -> Item]
  /\ \A m \in 1 .. n :
       /\ g[m] \in DOMAIN node.kids
       /\ \/ b[m] = ChildAt(node, at, g[m])
          \/ /\ b[m] = PatternAt(node, at, g[m])
             /\ Starts(node, g[m]) \/ (target /\ PassesOn(node, g[m]))
  /\ \A m, k \in 1 .. n : m # k => g[m] # g[k]
  /\ \A i \in DOMAIN node.kids :
       \/ \E m \in 1 .. n : g[m] = i
       \/ target /\ node.kind = PropertyAssignment /\ i = 1
  /\ target /\ node.kind = PropertyAssignment => \A m \in 1 .. n : g[m] # 1

LEMMA IndexedVisits ==
  ASSUME NEW node \in Nodes, NEW at \in Path, NEW target, NEW n \in Nat, NEW g, NEW b,
         VisitsByIndex(b, g, n, node, at, target)
  PROVE  AreVisits(b, node, at, target)
<1> USE DEF VisitsByIndex
<1>1. b \in Seq(Item) /\ Len(b) = n
  OBVIOUS
<1>2. ASSUME NEW m \in 1 .. n PROVE b[m].at = Append(at, g[m]) /\ g[m] \in Nat \ {0}
  <2>1. g[m] \in DOMAIN node.kids /\ b[m] \in {ChildAt(node, at, g[m]), PatternAt(node, at, g[m])}
    OBVIOUS
  <2> HIDE DEF VisitsByIndex
  <2>2. g[m] \in Nat \ {0}
    BY <2>1, NodeFacts
  <2> QED BY <2>1, <2>2, VisitFacts
<1>3. ASSUME NEW m \in 1 .. n, NEW k \in 1 .. n, m # k
      PROVE  b[m].at # b[k].at
  BY <1>2, <1>3, AppendApart
<1>4. ASSUME NEW i \in DOMAIN node.kids
      PROVE  \/ \E m \in 1 .. n : b[m].at = Append(at, i)
             \/ target /\ node.kind = PropertyAssignment /\ i = 1
  BY <1>2
<1>5. ASSUME target, node.kind = PropertyAssignment, NEW m \in 1 .. n
      PROVE  b[m].at # Append(at, 1)
  BY <1>2, <1>5, AppendApart
<1> QED BY <1>1, <1>3, <1>4, <1>5 DEF AreVisits

LEMMA ForEachChildVisits ==
  ASSUME NEW node \in Nodes, NEW at \in Path, NEW target,
         ~ (target /\ node.kind = PropertyAssignment)
  PROVE  AreVisits(ForEachChild(node, at), node, at, target)
<1> DEFINE n == Len(node.kids)
           g == [m \in 1 .. n |-> m]
           b == ForEachChild(node, at)
<1>1. n \in Nat /\ DOMAIN node.kids = 1 .. n
  BY NodeFacts
<1>2. b \in [1 .. n -> Item]
  BY <1>1, VisitFacts DEF ForEachChild
<1>3. \A m \in 1 .. n : g[m] \in DOMAIN node.kids /\ b[m] = ChildAt(node, at, g[m])
  BY <1>1 DEF ForEachChild
<1>4. /\ \A m, k \in 1 .. n : m # k => g[m] # g[k]
      /\ \A i \in DOMAIN node.kids : \E m \in 1 .. n : g[m] = i
  BY <1>1
<1> HIDE DEF g, b, n
<1>5. VisitsByIndex(b, g, n, node, at, target)
  BY <1>2, <1>3, <1>4 DEF VisitsByIndex
<1>6. AreVisits(b, node, at, target)
  BY <1>1, <1>5, IndexedVisits
<1> QED BY <1>6 DEF b

LEMMA OneVisit ==
  ASSUME NEW node \in Nodes, NEW at \in Path, NEW i \in DOMAIN node.kids, PassesOn(node, i),
         node.kind = PropertyAssignment => i # 1,
         \A k \in DOMAIN node.kids : k = i \/ (node.kind = PropertyAssignment /\ k = 1)
  PROVE  AreVisits(<<PatternAt(node, at, i)>>, node, at, TRUE)
<1> DEFINE x == PatternAt(node, at, i)
           g == <<i>>
           b == <<x>>
<1>1. x \in Item
  BY VisitFacts
<1>2. b \in [1 .. 1 -> Item] /\ b[1] = x /\ g[1] = i
  BY <1>1
<1>3. \A m \in 1 .. 1 : m = 1
  OBVIOUS
<1> HIDE DEF g, b
<1>4. VisitsByIndex(b, g, 1, node, at, TRUE)
  BY <1>2, <1>3 DEF VisitsByIndex, x
<1>5. AreVisits(b, node, at, TRUE)
  BY <1>4, IndexedVisits
<1> QED BY <1>5 DEF b

LEMMA PatternChildrenVisits ==
  ASSUME NEW node \in Nodes, NEW at \in Path
  PROVE  AreVisits(PatternChildren(node, at), node, at, TRUE)
<1>1. DOMAIN node.kids = 1 .. Len(node.kids)
  BY NodeFacts
<1>2. CASE node.kind \in Literals
  <2> DEFINE n == Len(node.kids)
             g == [m \in 1 .. n |-> m]
             b == [i \in DOMAIN node.kids |-> PatternAt(node, at, i)]
  <2>0. node.kind \notin {SpreadElement, SpreadAssignment} /\ node.kind # PropertyAssignment
    BY <1>2 DEF Literals, SpreadElement, SpreadAssignment, ArrayLiteral, ObjectLiteral,
                PropertyAssignment
  <2>1. PatternChildren(node, at) = b
    BY <1>2, <2>0 DEF PatternChildren
  <2>2. n \in Nat
    BY NodeFacts
  <2>3. b \in [1 .. n -> Item]
    BY <1>1, VisitFacts
  <2>4. \A m \in 1 .. n : /\ g[m] \in DOMAIN node.kids /\ b[m] = PatternAt(node, at, g[m])
                          /\ PassesOn(node, g[m])
    BY <1>1, <1>2 DEF PassesOn
  <2>5. /\ \A m, k \in 1 .. n : m # k => g[m] # g[k]
        /\ \A i \in DOMAIN node.kids : \E m \in 1 .. n : g[m] = i
    BY <1>1
  <2> HIDE DEF g, b, n
  <2>6. VisitsByIndex(b, g, n, node, at, TRUE)
    BY <2>0, <2>3, <2>4, <2>5 DEF VisitsByIndex
  <2>7. AreVisits(b, node, at, TRUE)
    BY <2>2, <2>6, IndexedVisits
  <2> QED BY <2>1, <2>7 DEF b
<1>3. CASE node.kind \in {SpreadElement, SpreadAssignment}
  <2>1. node.kind \notin Literals /\ node.kind # PropertyAssignment
    BY <1>3 DEF Literals, SpreadElement, SpreadAssignment, ArrayLiteral, ObjectLiteral,
                PropertyAssignment
  <2>2. PatternChildren(node, at) = <<PatternAt(node, at, 1)>>
    BY <1>3, <2>1 DEF PatternChildren
  <2>3. Len(node.kids) = 1
    BY <1>3, ArityAssumption
  <2>4. 1 \in DOMAIN node.kids /\ \A k \in DOMAIN node.kids : k = 1
    BY <1>1, <2>3
  <2>5. PassesOn(node, 1)
    BY <1>3 DEF PassesOn
  <2> QED BY <2>1, <2>2, <2>4, <2>5, OneVisit
<1>4. CASE node.kind = PropertyAssignment
  <2>1. node.kind \notin Literals \cup {SpreadElement, SpreadAssignment}
    BY <1>4 DEF Literals, SpreadElement, SpreadAssignment, ArrayLiteral, ObjectLiteral,
                PropertyAssignment
  <2>2. PatternChildren(node, at) = <<PatternAt(node, at, 2)>>
    BY <1>4, <2>1 DEF PatternChildren
  <2>3. Len(node.kids) = 2
    BY <1>4, ArityAssumption
  <2>4. 2 \in DOMAIN node.kids /\ \A k \in DOMAIN node.kids : k = 2 \/ k = 1
    BY <1>1, <2>3
  <2>5. PassesOn(node, 2)
    BY <1>4 DEF PassesOn
  <2>6. AreVisits(<<PatternAt(node, at, 2)>>, node, at, TRUE)
    <3> DEFINE i == 2
    <3>1. i \in DOMAIN node.kids /\ PassesOn(node, i) /\ i # 1
      BY <2>4, <2>5
    <3>2. \A k \in DOMAIN node.kids : k = i \/ (node.kind = PropertyAssignment /\ k = 1)
      BY <1>4, <2>4
    <3> HIDE DEF i
    <3>3. AreVisits(<<PatternAt(node, at, i)>>, node, at, TRUE)
      BY <3>1, <3>2, OneVisit
    <3> QED BY <3>3 DEF i
  <2> QED BY <2>2, <2>6
<1>5. CASE /\ node.kind \notin Literals /\ node.kind \notin {SpreadElement, SpreadAssignment}
           /\ node.kind # PropertyAssignment
  <2>1. PatternChildren(node, at) = ForEachChild(node, at)
    BY <1>5 DEF PatternChildren
  <2> QED BY <1>5, <2>1, ForEachChildVisits
<1> QED BY <1>2, <1>3, <1>4, <1>5

LEMMA OtherChildrenVisits ==
  ASSUME NEW node \in Nodes, NEW at \in Path
  PROVE  AreVisits(OtherChildren(node, at), node, at, FALSE)
<1>1. CASE ~ IsAssignmentExpression(node)
  BY <1>1, ForEachChildVisits DEF OtherChildren
<1>2. CASE IsAssignmentExpression(node)
  <2> DEFINE x == PatternAt(node, at, 1)
             y == ChildAt(node, at, 2)
             z == ChildAt(node, at, 3)
             b == <<x, y, z>>
             g == [m \in 1 .. 3 |-> m]
  <2>1. DOMAIN node.kids = 1 .. 3
    BY <1>2, ArityAssumption, NodeFacts DEF IsAssignmentExpression
  <2>2. x \in Item /\ y \in Item /\ z \in Item
    BY <2>1, VisitFacts
  <2>3. Starts(node, 1)
    BY <1>2 DEF Starts
  <2>4. OtherChildren(node, at) = b
    BY <1>2 DEF OtherChildren
  <2>5. b \in [1 .. 3 -> Item] /\ b[1] = x /\ b[2] = y /\ b[3] = z
    <3> HIDE DEF x, y, z
    <3> QED BY <2>2
  <2>6. ASSUME NEW m \in 1 .. 3
        PROVE  /\ g[m] \in DOMAIN node.kids
               /\ \/ b[m] = ChildAt(node, at, g[m])
                  \/ b[m] = PatternAt(node, at, g[m]) /\ Starts(node, g[m])
    <3>1. g[m] = m /\ m \in DOMAIN node.kids /\ (m = 1 \/ m = 2 \/ m = 3)
      BY <2>1
    <3> HIDE DEF g, b
    <3> QED BY <2>3, <2>5, <3>1
  <2>7. /\ \A m, k \in 1 .. 3 : m # k => g[m] # g[k]
        /\ \A i \in DOMAIN node.kids : \E m \in 1 .. 3 : g[m] = i
    BY <2>1
  <2> HIDE DEF g, b
  <2>8. VisitsByIndex(b, g, 3, node, at, FALSE)
    BY <2>5, <2>6, <2>7 DEF VisitsByIndex
  <2>9. AreVisits(b, node, at, FALSE)
    BY <2>8, IndexedVisits
  <2> QED BY <2>4, <2>9 DEF b
<1> QED BY <1>1, <1>2

-----------------------------------------------------------------------------
(* What the two visitors do with a node. *)

\* The kinds of the listeners that are called for a node of a kind.
KindsOf(kind) ==
  {kind, kind + 1000, kind + 2000, kind + 3000, kind + 4000, kind + 5000}

\* b is what a visitor does at the node at a path, which is or is no target.
Handles(b, node, at, target) ==
  /\ b \in Seq(Item) /\ IsBlock(b, at)
  /\ Run(node.kind, at) \in Range(b)
  /\ \A x \in Range(b) :
       /\ IsRun(x) => x.kind \in KindsOf(node.kind) /\ (Band(x.kind) \in {2, 3} => target)
       /\ ~ IsRun(x) => \E i \in DOMAIN node.kids :
            /\ x.at = Append(at, i) /\ x.node = node.kids[i]
            /\ x.do = "pattern" => Starts(node, i) \/ (target /\ PassesOn(node, i))
  /\ \A i \in DOMAIN node.kids :
       \/ \E x \in Range(b) : ~ IsRun(x) /\ x.at = Append(at, i)
       \/ i = 1 /\ Run(ListenerOnAllowPattern(PropertyAssignment), at) \in Range(b)
  /\ Run(ListenerOnAllowPattern(PropertyAssignment), at) \in Range(b) =>
       \A x \in Range(b) : x.at # Append(at, 1)
  /\ \A x \in Range(b) : IsRun(x) /\ x.kind \in Literals =>
       ~ (Run(ListenerOnAllowPattern(x.kind), at) \in Range(b)
            <=> Run(ListenerOnNotAllowPattern(x.kind), at) \in Range(b))

LEMMA AroundRange ==
  ASSUME NEW kind \in Nat, NEW at \in Path, NEW b \in Seq(Item)
  PROVE  Range(Around(kind, at, b))
           = {Run(kind, at), Run(ListenerOnExit(kind), at)} \cup Range(b)
<1> DEFINE o == Around(kind, at, b)
           l == Len(b)
<1>1. /\ o \in Seq(Item) /\ Len(o) = l + 2 /\ l \in Nat
      /\ o[1] = Run(kind, at) /\ o[l + 2] = Run(ListenerOnExit(kind), at)
  <2>1. o \in Seq(Item)
    BY AroundFacts
  <2>2. Len(o) = l + 2
    BY AroundFacts
  <2>3. o[1] = Run(kind, at) /\ o[l + 2] = Run(ListenerOnExit(kind), at)
    BY AroundFacts
  <2> QED BY <2>1, <2>2, <2>3
<1>2. \A m \in 1 .. l : o[m + 1] = b[m]
  BY AroundFacts
<1>3. \A j \in 1 .. l + 2 : j = 1 \/ j = l + 2 \/ \E m \in 1 .. l : j = m + 1
  BY <1>1
<1> HIDE DEF o
<1>4. Range(o) = {o[j] : j \in 1 .. l + 2} /\ Range(b) = {b[m] : m \in 1 .. l}
  BY <1>1 DEF Range
<1> HIDE DEF l
<1>5. /\ 1 \in 1 .. l + 2 /\ l + 2 \in 1 .. l + 2
      /\ \A m \in 1 .. l : m + 1 \in 1 .. l + 2
  BY <1>1
<1>6. ASSUME NEW x \in Range(o)
      PROVE  x \in {Run(kind, at), Run(ListenerOnExit(kind), at)} \cup Range(b)
  <2>1. PICK j \in 1 .. l + 2 : x = o[j]
    BY <1>4
  <2>2. CASE j = 1 \/ j = l + 2
    BY <1>1, <2>1, <2>2
  <2>3. CASE j # 1 /\ j # l + 2
    <3>1. PICK m \in 1 .. l : j = m + 1
      BY <1>3, <2>3
    <3>2. x = b[m]
      BY <1>2, <2>1, <3>1
    <3> QED BY <1>4, <3>2
  <2> QED BY <2>2, <2>3
<1>7. ASSUME NEW x \in {Run(kind, at), Run(ListenerOnExit(kind), at)} \cup Range(b)
      PROVE  x \in Range(o)
  <2>1. CASE x \in {Run(kind, at), Run(ListenerOnExit(kind), at)}
    BY <1>1, <1>4, <1>5, <2>1
  <2>2. CASE x \in Range(b)
    <3>1. PICK m \in 1 .. l : x = b[m]
      BY <1>4, <2>2
    <3>2. x = o[m + 1] /\ m + 1 \in 1 .. l + 2
      BY <1>2, <1>5, <3>1
    <3> QED BY <1>4, <3>2
  <2> QED BY <2>1, <2>2
<1>8. Range(o) = {Run(kind, at), Run(ListenerOnExit(kind), at)} \cup Range(b)
  BY <1>6, <1>7
<1> QED BY <1>8 DEF o

Between(r, b, x) == <<r>> \o b \o <<x>>
BetweenTwo(r, s, b, x, y) == <<r, s>> \o b \o <<x, y>>

\* Two calls on each side are one pair of calls around the other.
LEMMA TwoAround ==
  ASSUME NEW r \in Item, NEW s \in Item, NEW x \in Item, NEW y \in Item, NEW b \in Seq(Item)
  PROVE  BetweenTwo(r, s, b, x, y) = Between(r, Between(s, b, x), y)
<1> DEFINE n == Len(b)
           in == <<s>> \o b \o <<x>>
           left == <<r, s>> \o b \o <<x, y>>
           right == <<r>> \o in \o <<y>>
<1>1. n \in Nat /\ in \in Seq(Item) /\ Len(in) = n + 2
  OBVIOUS
<1>2. left \in Seq(Item) /\ Len(left) = n + 4
  OBVIOUS
<1>3. right \in Seq(Item) /\ Len(right) = n + 4
  <2> HIDE DEF in
  <2> QED BY <1>1
<1>4. ASSUME NEW i \in 1 .. n + 4 PROVE left[i] = right[i]
  <2>1. right[i] = IF i = 1 THEN r ELSE IF i <= n + 3 THEN in[i - 1] ELSE y
    <3> HIDE DEF in
    <3> QED BY <1>1
  <2>2. \A j \in 1 .. n + 2 : in[j] = IF j = 1 THEN s ELSE IF j <= n + 1 THEN b[j - 1] ELSE x
    BY <1>1
  <2>3. left[i] = IF i = 1 THEN r ELSE IF i = 2 THEN s
                  ELSE IF i <= n + 2 THEN b[i - 2] ELSE IF i = n + 3 THEN x ELSE y
    BY <1>1
  <2>4. i - 1 \in 1 .. n + 2 \/ i = 1 \/ i = n + 4
    BY <1>1
  <2> HIDE DEF in, left, right, n
  <2> QED BY <1>1, <2>1, <2>2, <2>3, <2>4
<1> HIDE DEF left, right, n
<1>5. left = right
  BY <1>1, <1>2, <1>3, <1>4
<1> QED BY <1>5 DEF left, right, Between, BetweenTwo

\* The calls at a path for the listeners of some kinds.
Runs(kinds, at) == {Run(kind, at) : kind \in kinds}

LEMMA RunFacts ==
  ASSUME NEW kind \in Nat, NEW at \in Path
  PROVE  /\ Run(kind, at) \in Item /\ IsRun(Run(kind, at))
         /\ Run(kind, at).kind = kind /\ Run(kind, at).at = at
BY DEF Run, IsRun, Item

LEMMA VisitsRange ==
  ASSUME NEW node \in Nodes, NEW at \in Path, NEW target, NEW b,
         AreVisits(b, node, at, target)
  PROVE  /\ b \in Seq(Item) /\ Range(b) = {b[m] : m \in 1 .. Len(b)}
         /\ \A x \in Range(b) : ~ IsRun(x)
<1>1. b \in Seq(Item)
  BY DEF AreVisits
<1>2. Range(b) = {b[m] : m \in 1 .. Len(b)}
  BY <1>1 DEF Range
<1>3. \A m \in 1 .. Len(b) : ~ IsRun(b[m])
  BY VisitsMakeBlock
<1> QED BY <1>1, <1>2, <1>3

\* b is a block of the visits v and calls of listeners of some kinds.
BlockOf(b, at, kinds, v) ==
  /\ b \in Seq(Item) /\ IsBlock(b, at) /\ kinds \in SUBSET Nat
  /\ Range(b) = Runs(kinds, at) \cup Range(v)
  /\ \A x \in Range(v) : ~ IsRun(x)

LEMMA RunsOf ==
  ASSUME NEW at \in Path, NEW kinds, kinds \in SUBSET Nat, NEW x \in Runs(kinds, at)
  PROVE  IsRun(x) /\ x.kind \in kinds /\ x.at = at /\ x = Run(x.kind, at)
<1>1. PICK kind \in kinds : x = Run(kind, at)
  BY DEF Runs
<1>2. kind \in Nat
  OBVIOUS
<1> QED BY <1>1, <1>2, RunFacts

LEMMA VisitsAreBlock ==
  ASSUME NEW node \in Nodes, NEW at \in Path, NEW target, NEW v,
         AreVisits(v, node, at, target)
  PROVE  BlockOf(v, at, {}, v)
<1>1. Runs({}, at) = {}
  BY DEF Runs
<1>2. v \in Seq(Item) /\ IsBlock(v, at) /\ \A x \in Range(v) : ~ IsRun(x)
  BY VisitsMakeBlock, VisitsRange
<1> QED BY <1>1, <1>2 DEF BlockOf

\* Calls of listeners of a new kind go around a block.
LEMMA AddCalls ==
  ASSUME NEW at \in Path, NEW kinds, NEW v, NEW b, BlockOf(b, at, kinds, v),
         NEW kind \in Nat, NEW exit \in Nat, exit = kind + 1000,
         kind \notin kinds, exit \notin kinds, Band(exit) \notin EnterBands
  PROVE  BlockOf(Around(kind, at, b), at, kinds \cup {kind, exit}, v)
<1> DEFINE o == Around(kind, at, b)
<1>1. /\ b \in Seq(Item) /\ IsBlock(b, at) /\ kinds \in SUBSET Nat
      /\ Range(b) = Runs(kinds, at) \cup Range(v) /\ \A x \in Range(v) : ~ IsRun(x)
  BY DEF BlockOf
<1>2. ASSUME NEW m \in 1 .. Len(b), IsRun(b[m])
      PROVE  b[m].kind # kind /\ b[m].kind # kind + 1000
  <2>1. b[m] \in Range(b)
    BY <1>1 DEF Range
  <2>2. b[m] \in Runs(kinds, at)
    BY <1>1, <1>2, <2>1
  <2>3. b[m].kind \in kinds
    <3>1. ASSUME NEW x \in Runs(kinds, at) PROVE x.kind \in kinds
      <4>1. kinds \in SUBSET Nat
        BY <1>1
      <4> QED BY ONLY <4>1, at \in Path, x \in Runs(kinds, at), RunsOf
    <3> QED BY <2>2, <3>1
  <2> QED BY <2>3
<1>3. IsBlock(o, at)
  BY <1>1, <1>2, AroundMakesBlock
<1>4. o \in Seq(Item)
  BY <1>1, AroundFacts
<1>5. Range(o) = {Run(kind, at), Run(exit, at)} \cup Range(b)
  BY <1>1, AroundRange DEF ListenerOnExit
<1>6. Runs(kinds \cup {kind, exit}, at) = Runs(kinds, at) \cup {Run(kind, at), Run(exit, at)}
  BY DEF Runs
<1>7. kinds \cup {kind, exit} \in SUBSET Nat
  BY <1>1
<1> HIDE DEF o
<1>8. Range(o) = Runs(kinds \cup {kind, exit}, at) \cup Range(v)
  <2> DEFINE X == {Run(kind, at), Run(exit, at)}
             R == Runs(kinds, at)
             V == Range(v)
  <2>1. Range(o) = X \cup (R \cup V)
    BY <1>1, <1>5
  <2>2. Runs(kinds \cup {kind, exit}, at) = R \cup X
    BY <1>6
  <2> HIDE DEF X, R, V
  <2>3. X \cup (R \cup V) = (R \cup X) \cup V
    OBVIOUS
  <2> QED BY <2>1, <2>2, <2>3 DEF V
<1>9. BlockOf(o, at, kinds \cup {kind, exit}, v)
  BY ONLY <1>1, <1>3, <1>4, <1>7, <1>8 DEF BlockOf
<1> QED BY <1>9 DEF o

\* The kinds of listeners to call for a node that is or is no target.
AreKinds(kinds, node, target) ==
  /\ node.kind \in kinds /\ kinds \subseteq KindsOf(node.kind)
  /\ \A kind \in kinds : Band(kind) \in {2, 3} => target
  /\ target => ListenerOnAllowPattern(node.kind) \in kinds
  /\ \A kind \in kinds : kind \in Literals =>
       ~ (ListenerOnAllowPattern(kind) \in kinds <=> ListenerOnNotAllowPattern(kind) \in kinds)

\* Calls around visits handle a node if they are of the right kinds.
LEMMA RunsHandle ==
  ASSUME NEW node \in Nodes, NEW at \in Path, NEW target \in BOOLEAN, NEW v,
         AreVisits(v, node, at, target), NEW kinds, NEW b, BlockOf(b, at, kinds, v),
         AreKinds(kinds, node, target)
  PROVE  Handles(b, node, at, target)
<1>a. /\ b \in Seq(Item) /\ IsBlock(b, at) /\ kinds \in SUBSET Nat
      /\ Range(b) = Runs(kinds, at) \cup Range(v) /\ \A x \in Range(v) : ~ IsRun(x)
  BY DEF BlockOf
<1>b. /\ node.kind \in kinds /\ kinds \subseteq KindsOf(node.kind)
      /\ \A kind \in kinds : Band(kind) \in {2, 3} => target
      /\ target => ListenerOnAllowPattern(node.kind) \in kinds
      /\ \A kind \in kinds : kind \in Literals =>
           ~ (ListenerOnAllowPattern(kind) \in kinds <=> ListenerOnNotAllowPattern(kind) \in kinds)
  BY DEF AreKinds
<1>1. ASSUME NEW kind \in Nat
      PROVE  Run(kind, at) \in Range(b) <=> kind \in kinds
  <2>1. Run(kind, at) \notin Range(v)
    BY <1>a, RunFacts
  <2>2. Run(kind, at) \in Runs(kinds, at) => kind \in kinds
    <3> DEFINE y == Run(kind, at)
    <3>1. y.kind = kind
      BY RunFacts
    <3> HIDE DEF y
    <3>2. y \in Runs(kinds, at) => y.kind \in kinds
      BY <1>a, RunsOf
    <3> QED BY <3>1, <3>2 DEF y
  <2>3. kind \in kinds => Run(kind, at) \in Runs(kinds, at)
    BY DEF Runs
  <2> QED BY <1>a, <2>1, <2>2, <2>3
<1>2. ASSUME NEW x \in Range(b), IsRun(x)
      PROVE  x.kind \in kinds /\ x.kind \in Nat
  <2>1. x \in Runs(kinds, at)
    BY <1>a, <1>2
  <2>2. x.kind \in kinds
    BY <1>a, <2>1, RunsOf
  <2> QED BY <1>a, <2>2
<1>3. ASSUME NEW x \in Range(b), ~ IsRun(x)
      PROVE  \E i \in DOMAIN node.kids :
               /\ x.at = Append(at, i) /\ x.node = node.kids[i]
               /\ x.do = "pattern" => Starts(node, i) \/ (target /\ PassesOn(node, i))
  <2>1. x \in Range(v)
    BY <1>a, <1>3, RunsOf
  <2>2. PICK m \in 1 .. Len(v) : x = v[m]
    BY <2>1, VisitsRange
  <2>3. PICK i \in DOMAIN node.kids :
          \/ v[m] = ChildAt(node, at, i)
          \/ v[m] = PatternAt(node, at, i) /\ (Starts(node, i) \/ (target /\ PassesOn(node, i)))
    BY DEF AreVisits
  <2>4. /\ x.at = Append(at, i) /\ x.node = node.kids[i]
        /\ x.do = "pattern" => Starts(node, i) \/ (target /\ PassesOn(node, i))
    BY <2>2, <2>3, VisitFacts
  <2> QED BY <2>4
<1>4. ASSUME NEW i \in DOMAIN node.kids
      PROVE  \/ \E x \in Range(b) : ~ IsRun(x) /\ x.at = Append(at, i)
             \/ i = 1 /\ Run(ListenerOnAllowPattern(PropertyAssignment), at) \in Range(b)
  <2>1. CASE \E m \in 1 .. Len(v) : v[m].at = Append(at, i)
    <3>1. PICK m \in 1 .. Len(v) : v[m].at = Append(at, i)
      BY <2>1
    <3>2. v[m] \in Range(v) /\ ~ IsRun(v[m])
      BY VisitsRange
    <3> QED BY <1>a, <3>1, <3>2
  <2>2. CASE target /\ node.kind = PropertyAssignment /\ i = 1
    <3>1. ListenerOnAllowPattern(PropertyAssignment) \in kinds
      BY <1>b, <2>2
    <3>2. ListenerOnAllowPattern(PropertyAssignment) \in Nat
      BY <1>a, <3>1
    <3> QED BY <1>1, <2>2, <3>1, <3>2
  <2> QED BY <2>1, <2>2 DEF AreVisits
<1>5. ASSUME NEW x \in Range(b), IsRun(x), x.kind \in Literals
      PROVE  ~ (Run(ListenerOnAllowPattern(x.kind), at) \in Range(b)
                  <=> Run(ListenerOnNotAllowPattern(x.kind), at) \in Range(b))
  <2>1. x.kind \in kinds /\ x.kind \in Nat
    BY <1>2, <1>5
  <2>2. ListenerOnAllowPattern(x.kind) \in Nat /\ ListenerOnNotAllowPattern(x.kind) \in Nat
    BY <2>1 DEF ListenerOnAllowPattern, ListenerOnNotAllowPattern
  <2>3. Run(ListenerOnAllowPattern(x.kind), at) \in Range(b)
          <=> ListenerOnAllowPattern(x.kind) \in kinds
    BY <1>1, <2>2
  <2>4. Run(ListenerOnNotAllowPattern(x.kind), at) \in Range(b)
          <=> ListenerOnNotAllowPattern(x.kind) \in kinds
    BY <1>1, <2>2
  <2>5. ~ (ListenerOnAllowPattern(x.kind) \in kinds <=> ListenerOnNotAllowPattern(x.kind) \in kinds)
    BY <1>b, <1>5, <2>1
  <2> QED BY <2>3, <2>4, <2>5
<1>6. Run(node.kind, at) \in Range(b)
  BY <1>a, <1>b DEF Runs
<1>7. \A x \in Range(b) :
        IsRun(x) => x.kind \in KindsOf(node.kind) /\ (Band(x.kind) \in {2, 3} => target)
  BY <1>b, <1>2
<1>8. ASSUME Run(ListenerOnAllowPattern(PropertyAssignment), at) \in Range(b),
             NEW x \in Range(b)
      PROVE  x.at # Append(at, 1)
  <2> DEFINE allow == ListenerOnAllowPattern(PropertyAssignment)
  <2>1. allow = 2006 /\ allow \in Nat /\ Band(allow) = 2
    BY DEF ListenerOnAllowPattern, PropertyAssignment, Band
  <2>2. allow \in kinds
    BY <1>1, <1>8, <2>1
  <2>3. target
    BY <1>b, <2>1, <2>2
  <2>4. node.kind = PropertyAssignment
    <3>1. allow \in KindsOf(node.kind) /\ node.kind \in 1 .. 999
      BY <1>b, <2>2, NodeFacts
    <3> DEFINE k == node.kind
    <3>2. 2006 \in KindsOf(k) /\ k \in 1 .. 999
      BY <2>1, <3>1
    <3> HIDE DEF k
    <3>3. k = 6
      BY ONLY <3>2 DEF KindsOf
    <3> QED BY <3>3 DEF k, PropertyAssignment
  <2>5. CASE IsRun(x)
    <3>1. x \in Runs(kinds, at)
      BY <1>a, <2>5
    <3>2. x.at = at
      BY <1>a, <3>1, RunsOf
    <3> QED BY <3>2, ChildPath
  <2>6. CASE ~ IsRun(x)
    <3>1. x \in Range(v)
      BY <1>a, <2>6, RunsOf
    <3>2. PICK m \in 1 .. Len(v) : x = v[m]
      BY <3>1, VisitsRange
    <3> QED BY <2>3, <2>4, <3>2 DEF AreVisits
  <2> QED BY <2>5, <2>6
<1> QED BY <1>a, <1>3, <1>4, <1>5, <1>6, <1>7, <1>8 DEF Handles

LEMMA PatternVisitorHandles ==
  ASSUME NEW node \in Nodes, NEW at \in Path
  PROVE  Handles(PatternVisitor(node, at), node, at, TRUE)
<1> DEFINE k == node.kind
           allow == k + 2000
           e == k + 1000
           f == allow + 1000
           v == PatternChildren(node, at)
           b1 == Around(allow, at, v)
           b2 == Around(k, at, b1)
<1>1. k \in 1 .. 999
  BY NodeFacts
<1>2. AreVisits(v, node, at, TRUE)
  BY PatternChildrenVisits
<1>3. BlockOf(v, at, {}, v)
  BY <1>2, VisitsAreBlock
<1>4. /\ k \in Nat /\ allow \in Nat /\ e \in Nat /\ f \in Nat
      /\ k \notin {allow, f} /\ e \notin {allow, f} /\ k + 4000 \notin {k, e, allow, f}
      /\ e \notin Literals /\ allow \notin Literals /\ f \notin Literals
      /\ e = k + 1000 /\ f = allow + 1000
  <2> HIDE DEF k, v, b1, b2
  <2> QED BY <1>1 DEF Literals, ArrayLiteral, ObjectLiteral
<1>5. Band(k) = 0 /\ Band(e) = 1 /\ Band(allow) = 2 /\ Band(f) = 3
  <2> HIDE DEF k
  <2> QED BY ONLY <1>1 DEF Band
<1>6. ListenerOnAllowPattern(k) = allow /\ ListenerOnNotAllowPattern(k) = k + 4000
      /\ ListenerOnExit(k) = e /\ ListenerOnExit(allow) = f
  BY DEF ListenerOnAllowPattern, ListenerOnNotAllowPattern, ListenerOnExit
<1>7. Band(e) \notin EnterBands /\ Band(f) \notin EnterBands
  BY <1>5 DEF EnterBands
<1>8. PatternVisitor(node, at) = b2
  <2> DEFINE r == Run(k, at)
             s == Run(allow, at)
             x == Run(f, at)
             y == Run(e, at)
  <2> HIDE DEF k, allow, e, f
  <2>1. r \in Item /\ s \in Item /\ x \in Item /\ y \in Item
    BY <1>4, RunFacts
  <2>2. PatternVisitor(node, at) = BetweenTwo(r, s, v, x, y)
    BY <1>6 DEF PatternVisitor, k, BetweenTwo
  <2>3. b2 = Between(r, Between(s, v, x), y)
    BY <1>6 DEF Around, Between
  <2>4. v \in Seq(Item)
    BY <1>3 DEF BlockOf
  <2> HIDE DEF r, s, x, y, b2, v
  <2> QED BY <2>1, <2>2, <2>3, <2>4, TwoAround
<1> HIDE DEF v, allow, e, f
<1>9. BlockOf(b1, at, {} \cup {allow, f}, v)
  <2> HIDE DEF k
  <2> QED BY <1>3, <1>4, <1>7, AddCalls
<1> HIDE DEF b1
<1>10. BlockOf(b1, at, {allow, f}, v)
  <2>1. {} \cup {allow, f} = {allow, f}
    OBVIOUS
  <2> QED BY <1>9, <2>1
<1>11. BlockOf(b2, at, {allow, f} \cup {k, e}, v)
  <2> HIDE DEF k
  <2> QED BY <1>4, <1>7, <1>10, AddCalls
<1> HIDE DEF b2
<1>12. AreKinds({allow, f} \cup {k, e}, node, TRUE)
  <2> HIDE DEF k
  <2>1. node.kind = k
    BY DEF k
  <2>2. \A kind \in {allow, f} \cup {k, e} : kind \in Literals => kind = k
    BY <1>4
  <2>3. k + 4000 \notin {allow, f} \cup {k, e}
    BY <1>4
  <2>4. {allow, f} \cup {k, e} \subseteq KindsOf(k)
    BY <1>1 DEF KindsOf, allow, e, f
  <2> QED BY <1>6, <2>1, <2>2, <2>3, <2>4 DEF AreKinds
<1>13. Handles(b2, node, at, TRUE)
  BY <1>2, <1>11, <1>12, RunsHandle
<1> QED BY <1>8, <1>13

LEMMA ChildVisitorHandles ==
  ASSUME NEW node \in Nodes, NEW at \in Path
  PROVE  Handles(ChildVisitor(node, at), node, at, FALSE)
<1> DEFINE k == node.kind
           no == k + 4000
           e == k + 1000
           f == no + 1000
<1>1. k \in 1 .. 999
  BY NodeFacts
<1>2. /\ k \in Nat /\ no \in Nat /\ e \in Nat /\ f \in Nat
      /\ k \notin {no, f} /\ e \notin {no, f} /\ k + 2000 \notin {k, e, no, f}
      /\ e \notin Literals /\ no \notin Literals /\ f \notin Literals
      /\ e = k + 1000 /\ f = no + 1000
  <2> HIDE DEF k
  <2> QED BY <1>1 DEF Literals, ArrayLiteral, ObjectLiteral
<1>3. Band(k) = 0 /\ Band(e) = 1 /\ Band(no) = 4 /\ Band(f) = 5
  <2> HIDE DEF k
  <2> QED BY ONLY <1>1 DEF Band
<1>4. ListenerOnNotAllowPattern(k) = no /\ ListenerOnAllowPattern(k) = k + 2000
      /\ ListenerOnExit(k) = e /\ ListenerOnExit(no) = f
  BY DEF ListenerOnAllowPattern, ListenerOnNotAllowPattern, ListenerOnExit
<1>5. Band(e) \notin EnterBands /\ Band(f) \notin EnterBands
  BY <1>3 DEF EnterBands
<1>6. node.kind = k
  OBVIOUS
<1> HIDE DEF k, no, e, f
<1>7. CASE k \in Literals
  <2> DEFINE v == ForEachChild(node, at)
             b1 == Around(no, at, v)
             b2 == Around(k, at, b1)
  <2>1. AreVisits(v, node, at, FALSE)
    BY ForEachChildVisits
  <2>2. BlockOf(v, at, {}, v)
    BY <2>1, VisitsAreBlock
  <2>3. ChildVisitor(node, at) = b2
    BY <1>4, <1>6, <1>7 DEF ChildVisitor, Around
  <2> HIDE DEF v
  <2>4. BlockOf(b1, at, {} \cup {no, f}, v)
    BY <1>2, <1>5, <2>2, AddCalls
  <2> HIDE DEF b1
  <2>5. BlockOf(b1, at, {no, f}, v)
    <3>1. {} \cup {no, f} = {no, f}
      OBVIOUS
    <3> QED BY <2>4, <3>1
  <2>6. BlockOf(b2, at, {no, f} \cup {k, e}, v)
    BY <1>2, <1>5, <2>5, AddCalls
  <2> HIDE DEF b2
  <2>7. AreKinds({no, f} \cup {k, e}, node, FALSE)
    <3>1. \A kind \in {no, f} \cup {k, e} : kind \in Literals => kind = k
      BY <1>2
    <3>2. k + 2000 \notin {no, f} \cup {k, e}
      BY <1>2
    <3>3. \A kind \in {no, f} \cup {k, e} : Band(kind) \notin {2, 3}
      BY <1>3
    <3>4. {no, f} \cup {k, e} \subseteq KindsOf(k)
      BY <1>1 DEF KindsOf, no, e, f
    <3> QED BY <1>4, <1>6, <3>1, <3>2, <3>3, <3>4 DEF AreKinds
  <2>8. Handles(b2, node, at, FALSE)
    BY <2>1, <2>6, <2>7, RunsHandle
  <2> QED BY <2>3, <2>8
<1>8. CASE k \notin Literals
  <2> DEFINE v == OtherChildren(node, at)
             b == Around(k, at, v)
  <2>1. AreVisits(v, node, at, FALSE)
    BY OtherChildrenVisits
  <2>2. BlockOf(v, at, {}, v)
    BY <2>1, VisitsAreBlock
  <2>3. ChildVisitor(node, at) = b
    BY <1>6, <1>8 DEF ChildVisitor, Around
  <2> HIDE DEF v
  <2>4. BlockOf(b, at, {} \cup {k, e}, v)
    BY <1>2, <1>5, <2>2, AddCalls
  <2> HIDE DEF b
  <2>5. AreKinds({} \cup {k, e}, node, FALSE)
    <3>1. \A kind \in {} \cup {k, e} : kind \notin Literals
      BY <1>2, <1>8
    <3>2. \A kind \in {} \cup {k, e} : Band(kind) \notin {2, 3}
      BY <1>3
    <3>3. {} \cup {k, e} \subseteq KindsOf(k)
      BY DEF KindsOf, e
    <3> QED BY <1>6, <3>1, <3>2, <3>3 DEF AreKinds
  <2>6. Handles(b, node, at, FALSE)
    BY <2>1, <2>4, <2>5, RunsHandle
  <2> QED BY <2>3, <2>6
<1> QED BY <1>7, <1>8

-----------------------------------------------------------------------------
(* The nodes along a path, and the targets among them. *)

\* g has the nodes of tree a along path p.
IsWay(g, a, p) ==
  /\ g \in [0 .. Len(p) -> Nodes] /\ g[0] = a
  /\ \A n \in 1 .. Len(p) : p[n] \in DOMAIN g[n - 1].kids /\ g[n] = g[n - 1].kids[p[n]]

NodeOn(a, p, node) == \E g : IsWay(g, a, p) /\ g[Len(p)] = node

\* The node at step s starts to be a target, and each one after it is one as its parent is.
TargetFrom(g, p, s) ==
  /\ Starts(g[s - 1], p[s])
  /\ \A m \in s + 1 .. Len(p) : PassesOn(g[m - 1], p[m])

TargetOn(a, p) == \E g : IsWay(g, a, p) /\ \E s \in 1 .. Len(p) : TargetFrom(g, p, s)

EndsAt(g, p, node) == g[Len(p)] = node

\* h goes on from the end of g to a child of the node there.
GoesOn(h, g, a, p, i, node) ==
  /\ IsWay(h, a, Append(p, i)) /\ h[Len(p) + 1] = node.kids[i]
  /\ \A n \in 0 .. Len(p) : h[n] = g[n]

LEMMA WayExtends ==
  ASSUME NEW a, NEW p \in Path, NEW g, IsWay(g, a, p), NEW node \in Nodes, EndsAt(g, p, node),
         NEW i \in DOMAIN node.kids
  PROVE  \E h : GoesOn(h, g, a, p, i, node)
<1> DEFINE l == Len(p)
           q == Append(p, i)
           h == [n \in 0 .. l + 1 |-> IF n <= l THEN g[n] ELSE node.kids[i]]
<1>0. g[l] = node
  BY DEF EndsAt
<1>1. i \in Nat \ {0} /\ node.kids[i] \in Nodes
  BY NodeFacts
<1>2. l \in Nat /\ Len(q) = l + 1 /\ q[l + 1] = i /\ \A k \in 1 .. l : q[k] = p[k]
  BY <1>1, ChildPath DEF Path
<1>3. /\ g \in [0 .. l -> Nodes] /\ g[0] = a
      /\ \A n \in 1 .. l : p[n] \in DOMAIN g[n - 1].kids /\ g[n] = g[n - 1].kids[p[n]]
  BY DEF IsWay
<1>4. h \in [0 .. l + 1 -> Nodes] /\ h[0] = a /\ h[l + 1] = node.kids[i]
  BY <1>1, <1>2, <1>3
<1>5. \A n \in 0 .. l : h[n] = g[n]
  BY <1>2
<1> HIDE DEF h, q
<1>6. ASSUME NEW n \in 1 .. l + 1
      PROVE  q[n] \in DOMAIN h[n - 1].kids /\ h[n] = h[n - 1].kids[q[n]]
  <2>1. CASE n = l + 1
    <3>1. n - 1 = l /\ l \in 0 .. l
      BY <1>2, <2>1
    <3>2. h[n - 1] = node
      BY <1>0, <1>5, <3>1
    <3> QED BY <1>2, <1>4, <2>1, <3>2
  <2>2. CASE n # l + 1
    <3>1. n \in 1 .. l /\ n \in 0 .. l /\ n - 1 \in 0 .. l
      BY <1>2, <2>2
    <3> QED BY <1>2, <1>3, <1>5, <3>1
  <2> QED BY <2>1, <2>2
<1>7. IsWay(h, a, q)
  BY <1>2, <1>4, <1>6 DEF IsWay
<1> QED BY <1>4, <1>5, <1>7 DEF q, GoesOn

LEMMA WayIsUnique ==
  ASSUME NEW a, NEW p \in Path, NEW g, NEW h, IsWay(g, a, p), IsWay(h, a, p)
  PROVE  \A n \in 0 .. Len(p) : g[n] = h[n]
<1> DEFINE S == {n \in Nat : n <= Len(p) => g[n] = h[n]}
<1>0. Len(p) \in Nat
  BY DEF Path
<1>1. 0 \in S
  BY DEF IsWay
<1>2. ASSUME NEW n \in Nat, n \in S PROVE n + 1 \in S
  <2> SUFFICES ASSUME n + 1 <= Len(p) PROVE g[n + 1] = h[n + 1]
    OBVIOUS
  <2> DEFINE m == n + 1
  <2>1. g[n] = h[n] /\ m \in 1 .. Len(p) /\ m - 1 = n
    BY <1>0, <1>2
  <2> HIDE DEF m, S
  <2>2. g[m] = g[m - 1].kids[p[m]] /\ h[m] = h[m - 1].kids[p[m]]
    BY <2>1 DEF IsWay
  <2>3. g[m] = h[m]
    BY <2>1, <2>2
  <2> QED BY <2>3 DEF m
<1> HIDE DEF S
<1>3. Nat \subseteq S
  BY <1>1, <1>2, SetInduction
<1> QED BY <1>0, <1>3 DEF S

LEMMA NodeOnIsUnique ==
  ASSUME NEW a, NEW p \in Path, NEW x, NEW y, NodeOn(a, p, x), NodeOn(a, p, y)
  PROVE  x = y
<1>1. PICK g : IsWay(g, a, p) /\ g[Len(p)] = x
  BY DEF NodeOn
<1>2. PICK h : IsWay(h, a, p) /\ h[Len(p)] = y
  BY DEF NodeOn
<1>3. Len(p) \in 0 .. Len(p)
  BY DEF Path
<1>4. \A n \in 0 .. Len(p) : g[n] = h[n]
  BY <1>1, <1>2, WayIsUnique
<1> QED BY <1>1, <1>2, <1>3, <1>4

LEMMA RootOn ==
  ASSUME NEW a \in Nodes
  PROVE  NodeOn(a, << >>, a) /\ << >> \in Path
<1> DEFINE g == [n \in 0 .. 0 |-> a]
<1>1. Len(<< >>) = 0 /\ << >> \in Path
  BY DEF Path
<1>2. g \in [0 .. 0 -> Nodes] /\ g[0] = a /\ 1 .. 0 = {}
  OBVIOUS
<1> HIDE DEF g
<1>3. IsWay(g, a, << >>)
  BY <1>1, <1>2 DEF IsWay
<1> QED BY <1>1, <1>2, <1>3 DEF NodeOn

LEMMA NodeOnIsNode ==
  ASSUME NEW a, NEW p \in Path, NEW node, NodeOn(a, p, node)
  PROVE  node \in Nodes
<1>1. Len(p) \in 0 .. Len(p)
  BY DEF Path
<1> QED BY <1>1 DEF NodeOn, IsWay

LEMMA ChildOn ==
  ASSUME NEW a, NEW p \in Path, NEW node \in Nodes, NodeOn(a, p, node),
         NEW i \in DOMAIN node.kids
  PROVE  NodeOn(a, Append(p, i), node.kids[i])
<1>1. PICK g : IsWay(g, a, p) /\ g[Len(p)] = node
  BY DEF NodeOn
<1>2. PICK h : GoesOn(h, g, a, p, i, node)
  BY <1>1, WayExtends DEF EndsAt
<1>3. Len(Append(p, i)) = Len(p) + 1
  BY NodeFacts, ChildPath
<1> QED BY <1>2, <1>3 DEF NodeOn, GoesOn

\* A path goes through the nodes that lead to it.
LEMMA OnTheWay ==
  ASSUME NEW a, NEW p \in Path, NEW q \in Path, NEW g, IsWay(g, a, q), Leads(p, q)
  PROVE  /\ IsWay([n \in 0 .. Len(p) |-> g[n]], a, p)
         /\ NodeOn(a, p, g[Len(p)])
         /\ p # q => q[Len(p) + 1] \in DOMAIN g[Len(p)].kids
<1> DEFINE l == Len(p)
           h == [n \in 0 .. l |-> g[n]]
<1>1. /\ l \in Nat /\ Len(q) \in Nat /\ l <= Len(q) /\ \A n \in 1 .. l : p[n] = q[n]
  BY DEF Leads, Path
<1>2. /\ g \in [0 .. Len(q) -> Nodes] /\ g[0] = a
      /\ \A n \in 1 .. Len(q) : q[n] \in DOMAIN g[n - 1].kids /\ g[n] = g[n - 1].kids[q[n]]
  BY DEF IsWay
<1>3. /\ h \in [0 .. l -> Nodes] /\ h[0] = a /\ h[l] = g[l]
  BY <1>1, <1>2
<1>4. ASSUME NEW n \in 1 .. l
      PROVE  p[n] \in DOMAIN h[n - 1].kids /\ h[n] = h[n - 1].kids[p[n]]
  <2>1. n \in 1 .. Len(q) /\ h[n] = g[n] /\ h[n - 1] = g[n - 1] /\ p[n] = q[n]
    BY <1>1
  <2> QED BY <1>2, <2>1
<1> HIDE DEF h
<1>5. IsWay(h, a, p)
  BY <1>3, <1>4 DEF IsWay
<1>6. NodeOn(a, p, g[l])
  BY <1>3, <1>5 DEF NodeOn
<1>7. ASSUME p # q PROVE q[l + 1] \in DOMAIN g[l].kids
  <2> DEFINE m == l + 1
  <2>1. m \in 1 .. Len(q) /\ m - 1 = l
    BY <1>1, <1>7, LeadsOn
  <2> HIDE DEF m
  <2>2. q[m] \in DOMAIN g[l].kids
    BY <1>2, <2>1
  <2> QED BY <2>2 DEF m
<1> QED BY <1>5, <1>6, <1>7 DEF h

LEMMA ChildIsTarget ==
  ASSUME NEW a, NEW p \in Path, NEW node \in Nodes, NodeOn(a, p, node),
         NEW i \in DOMAIN node.kids,
         Starts(node, i) \/ (TargetOn(a, p) /\ PassesOn(node, i))
  PROVE  TargetOn(a, Append(p, i))
<1> DEFINE l == Len(p)
           q == Append(p, i)
<1>1. l \in Nat /\ Len(q) = l + 1 /\ q[l + 1] = i /\ \A k \in 1 .. l : q[k] = p[k]
  BY NodeFacts, ChildPath DEF Path
<1> HIDE DEF q
<1>2. CASE Starts(node, i)
  <2>1. PICK g : IsWay(g, a, p) /\ g[l] = node
    BY DEF NodeOn
  <2>a. PICK h : GoesOn(h, g, a, p, i, node)
    BY <2>1, WayExtends DEF EndsAt
  <2>2. IsWay(h, a, q) /\ \A n \in 0 .. l : h[n] = g[n]
    BY <2>a DEF q, GoesOn
  <2> DEFINE s == l + 1
  <2>3. s \in 1 .. Len(q) /\ s - 1 = l /\ l \in 0 .. l /\ s + 1 .. Len(q) = {}
    BY <1>1
  <2>4. q[s] = i
    BY <1>1
  <2> HIDE DEF s
  <2>5. TargetFrom(h, q, s)
    BY <1>2, <2>1, <2>2, <2>3, <2>4 DEF TargetFrom
  <2> QED BY <2>2, <2>3, <2>5 DEF TargetOn, q
<1>3. CASE TargetOn(a, p) /\ PassesOn(node, i)
  <2>1. PICK g : IsWay(g, a, p) /\ \E s \in 1 .. Len(p) : TargetFrom(g, p, s)
    BY <1>3 DEF TargetOn
  <2>2. PICK s \in 1 .. l : TargetFrom(g, p, s)
    BY <2>1
  <2>3. g[l] = node
    <3>1. NodeOn(a, p, g[l])
      BY <2>1 DEF NodeOn
    <3> QED BY <3>1, NodeOnIsUnique
  <2>a. PICK h : GoesOn(h, g, a, p, i, node)
    BY <2>1, <2>3, WayExtends DEF EndsAt
  <2>4. IsWay(h, a, q) /\ \A n \in 0 .. l : h[n] = g[n]
    BY <2>a DEF q, GoesOn
  <2>5. Starts(h[s - 1], q[s])
    <3>1. s - 1 \in 0 .. l /\ q[s] = p[s]
      BY <1>1
    <3>2. h[s - 1] = g[s - 1]
      BY <2>4, <3>1
    <3> QED BY <2>2, <3>1, <3>2 DEF TargetFrom
  <2>6. ASSUME NEW m \in s + 1 .. Len(q) PROVE PassesOn(h[m - 1], q[m])
    <3>1. CASE m = l + 1
      <4>1. m - 1 = l /\ l \in 0 .. l /\ q[m] = i
        BY <1>1, <3>1
      <4> QED BY <1>3, <2>3, <2>4, <4>1
    <3>2. CASE m # l + 1
      <4>1. m \in s + 1 .. l /\ m \in 1 .. l /\ m - 1 \in 0 .. l
        BY <1>1, <3>2
      <4>2. h[m - 1] = g[m - 1] /\ q[m] = p[m]
        BY <1>1, <2>4, <4>1
      <4> QED BY <2>2, <4>1, <4>2 DEF TargetFrom
    <3> QED BY <3>1, <3>2
  <2>7. s \in 1 .. Len(q) /\ TargetFrom(h, q, s)
    BY <1>1, <2>5, <2>6 DEF TargetFrom
  <2> QED BY <2>4, <2>7 DEF TargetOn, q
<1> QED BY <1>2, <1>3

-----------------------------------------------------------------------------
(* The same, as the properties of AstWalk put it. *)

LEMMA NodeAtIs ==
  ASSUME NEW p \in Path, NEW g, IsWay(g, ast, p)
  PROVE  NodeAt(p) = g[Len(p)]
<1> DEFINE l == Len(p)
           Body(f) == [n \in 0 .. l |-> IF n = 0 THEN ast ELSE f[n - 1].kids[p[n]]]
           Node == CHOOSE f : f = Body(f)
<1>1. NodeAt(p) = Node[l]
  BY DEF NodeAt
<1>2. l \in Nat /\ g \in [0 .. l -> Nodes] /\ g[0] = ast
      /\ \A n \in 1 .. l : g[n] = g[n - 1].kids[p[n]]
  BY DEF Path, IsWay
<1>3. g = Body(g)
  <2>1. \A n \in 0 .. l : n = 0 \/ n \in 1 .. l
    BY <1>2
  <2>2. \A n \in 0 .. l : g[n] = Body(g)[n]
    BY <1>2, <2>1
  <2> QED BY <1>2, <2>2
<1>4. Node = Body(Node)
  <2> HIDE DEF Body
  <2> QED BY <1>3
<1> HIDE DEF Node
<1>5. Node[0] = ast /\ \A n \in 1 .. l : Node[n] = Node[n - 1].kids[p[n]]
  <2>1. \A n \in 0 .. l : Node[n] = IF n = 0 THEN ast ELSE Node[n - 1].kids[p[n]]
    BY <1>4
  <2>2. 0 \in 0 .. l /\ \A n \in 1 .. l : n \in 0 .. l /\ n # 0
    BY <1>2
  <2> QED BY <2>1, <2>2
<1> DEFINE S == {n \in Nat : n <= l => Node[n] = g[n]}
<1>6. 0 \in S
  BY <1>2, <1>5
<1>7. ASSUME NEW n \in Nat, n \in S PROVE n + 1 \in S
  <2> SUFFICES ASSUME n + 1 <= l PROVE Node[n + 1] = g[n + 1]
    OBVIOUS
  <2> DEFINE m == n + 1
  <2>1. Node[n] = g[n] /\ m \in 1 .. l /\ m - 1 = n
    BY <1>2, <1>7
  <2> HIDE DEF m, S
  <2>2. Node[m] = g[m]
    BY <1>2, <1>5, <2>1
  <2> QED BY <2>2 DEF m
<1> HIDE DEF S
<1>8. Nat \subseteq S
  BY <1>6, <1>7, SetInduction
<1> QED BY <1>1, <1>2, <1>8 DEF S

LEMMA NodeAtOn ==
  ASSUME NEW p \in Path, NEW node, NodeOn(ast, p, node)
  PROVE  NodeAt(p) = node
BY NodeAtIs DEF NodeOn

LEMMA PrefixIsPath ==
  ASSUME NEW p \in Path, NEW n \in 0 .. Len(p)
  PROVE  /\ SubSeq(p, 1, n) \in Path /\ Len(SubSeq(p, 1, n)) = n
         /\ Leads(SubSeq(p, 1, n), p) /\ \A k \in 1 .. n : SubSeq(p, 1, n)[k] = p[k]
<1> DEFINE q == SubSeq(p, 1, n)
<1>1. Len(p) \in Nat /\ n \in Nat /\ n <= Len(p)
  BY DEF Path
<1>2. q \in Path /\ Len(q) = n /\ \A k \in 1 .. n : q[k] = p[k]
  BY <1>1 DEF Path
<1> HIDE DEF q
<1>3. Leads(q, p)
  BY <1>1, <1>2 DEF Leads
<1> QED BY <1>2, <1>3 DEF q

\* Up to step n of the way g along p, some node starts to be a target and all after it are.
TargetBy(g, p, n) ==
  \E s \in 1 .. n : /\ Starts(g[s - 1], p[s])
                    /\ \A m \in s + 1 .. n : PassesOn(g[m - 1], p[m])

LEMMA TargetStep ==
  ASSUME NEW g, NEW p, NEW n \in Nat, n > 0
  PROVE  TargetBy(g, p, n)
           <=> Starts(g[n - 1], p[n]) \/ (TargetBy(g, p, n - 1) /\ PassesOn(g[n - 1], p[n]))
<1>1. ASSUME TargetBy(g, p, n), ~ Starts(g[n - 1], p[n])
      PROVE  TargetBy(g, p, n - 1) /\ PassesOn(g[n - 1], p[n])
  <2>1. PICK s \in 1 .. n : /\ Starts(g[s - 1], p[s])
                            /\ \A m \in s + 1 .. n : PassesOn(g[m - 1], p[m])
    BY <1>1 DEF TargetBy
  <2>2. s # n
    BY <1>1, <2>1
  <2>3. s \in 1 .. n - 1 /\ n \in s + 1 .. n /\ \A m \in s + 1 .. n - 1 : m \in s + 1 .. n
    BY <2>2
  <2> QED BY <2>1, <2>3 DEF TargetBy
<1>2. ASSUME Starts(g[n - 1], p[n]) PROVE TargetBy(g, p, n)
  <2>1. n \in 1 .. n /\ n + 1 .. n = {}
    OBVIOUS
  <2> QED BY <1>2, <2>1 DEF TargetBy
<1>3. ASSUME TargetBy(g, p, n - 1), PassesOn(g[n - 1], p[n]) PROVE TargetBy(g, p, n)
  <2>1. PICK s \in 1 .. n - 1 : /\ Starts(g[s - 1], p[s])
                                /\ \A m \in s + 1 .. n - 1 : PassesOn(g[m - 1], p[m])
    BY <1>3 DEF TargetBy
  <2>2. s \in 1 .. n /\ \A m \in s + 1 .. n : m \in s + 1 .. n - 1 \/ m = n
    OBVIOUS
  <2> QED BY <1>3, <2>1, <2>2 DEF TargetBy
<1> QED BY <1>1, <1>2, <1>3

LEMMA InPatternOn ==
  ASSUME NEW p \in Path, TargetOn(ast, p)
  PROVE  InPattern(p)
<1> DEFINE l == Len(p)
           Parent(n) == NodeAt(SubSeq(p, 1, n - 1))
           Body(f) ==
             [n \in 0 .. l |->
                n > 0 /\ LET parent == NodeAt(SubSeq(p, 1, n - 1)) IN
                           \/ IsAssignmentExpression(parent) /\ p[n] = 1
                           \/ parent.kind = ForOfStatement /\ p[n] = 1
                           \/ /\ f[n - 1]
                              /\ \/ parent.kind \in Literals \cup {SpreadElement, SpreadAssignment}
                                 \/ parent.kind = PropertyAssignment /\ p[n] = 2]
           In == CHOOSE f : f = Body(f)
<1>1. InPattern(p) <=> In[l]
  BY DEF InPattern
<1>2. PICK g : IsWay(g, ast, p) /\ \E s \in 1 .. l : TargetFrom(g, p, s)
  BY DEF TargetOn
<1>3. PICK s \in 1 .. l : TargetFrom(g, p, s)
  BY <1>2
<1>4. l \in Nat
  BY DEF Path
<1>5. ASSUME NEW n \in 1 .. l PROVE Parent(n) = g[n - 1]
  <2> DEFINE k == n - 1
             q == SubSeq(p, 1, k)
  <2>1. k \in 0 .. l
    BY <1>4
  <2> HIDE DEF k
  <2>2. q \in Path /\ Len(q) = k /\ Leads(q, p)
    BY <2>1, PrefixIsPath
  <2> HIDE DEF q
  <2>3. NodeOn(ast, q, g[k])
    BY <1>2, <2>2, OnTheWay
  <2>4. NodeAt(q) = g[k]
    BY <2>2, <2>3, NodeAtOn
  <2> QED BY <2>4 DEF q, k
<1>6. ASSUME NEW f, NEW n \in 1 .. l
      PROVE  Body(f)[n] <=> Starts(g[n - 1], p[n]) \/ (f[n - 1] /\ PassesOn(g[n - 1], p[n]))
  <2>1. n \in 0 .. l /\ n > 0
    BY <1>4
  <2>2. Body(f)[n] <=> \/ IsAssignmentExpression(Parent(n)) /\ p[n] = 1
                       \/ Parent(n).kind = ForOfStatement /\ p[n] = 1
                       \/ /\ f[n - 1]
                          /\ \/ Parent(n).kind \in Literals \cup {SpreadElement, SpreadAssignment}
                             \/ Parent(n).kind = PropertyAssignment /\ p[n] = 2
    BY <2>1
  <2> HIDE DEF Body, Parent
  <2> QED BY <1>5, <2>2 DEF Starts, PassesOn
<1> DEFINE h == [n \in 0 .. l |-> TargetBy(g, p, n)]
<1>7. h = Body(h)
  <2>1. ASSUME NEW n \in 0 .. l PROVE h[n] <=> Body(h)[n]
    <3>1. CASE n = 0
      <4>1. ~ TargetBy(g, p, 0)
        BY DEF TargetBy
      <4>2. ~ Body(h)[0]
        <5>1. 0 \in 0 .. l
          BY <1>4
        <5>2. ~ (0 > 0)
          OBVIOUS
        <5> HIDE DEF h
        <5> QED BY <5>1, <5>2, Zenon
      <4> HIDE DEF Body
      <4> QED BY <3>1, <4>1, <4>2
    <3>2. CASE n # 0
      <4>1. n \in 1 .. l /\ n \in Nat /\ n > 0 /\ n - 1 \in 0 .. l
        BY <1>4, <3>2
      <4>2. h[n] = TargetBy(g, p, n) /\ h[n - 1] = TargetBy(g, p, n - 1)
        BY <4>1
      <4>3. TargetBy(g, p, n) <=> \/ Starts(g[n - 1], p[n])
                                  \/ TargetBy(g, p, n - 1) /\ PassesOn(g[n - 1], p[n])
        BY <4>1, TargetStep
      <4>4. Body(h)[n] <=> Starts(g[n - 1], p[n]) \/ (h[n - 1] /\ PassesOn(g[n - 1], p[n]))
        BY <1>6, <4>1
      <4> HIDE DEF Body, h
      <4> QED BY <4>2, <4>3, <4>4
    <3> QED BY <3>1, <3>2
  <2>2. \A n \in 0 .. l : h[n] \in BOOLEAN /\ Body(h)[n] \in BOOLEAN
    <3>1. \A n \in 0 .. l : h[n] \in BOOLEAN
      BY DEF TargetBy
    <3>2. \A n \in 0 .. l : Body(h)[n] \in BOOLEAN
      <4> HIDE DEF h
      <4> QED OBVIOUS
    <3> QED BY <3>1, <3>2
  <2>3. DOMAIN h = 0 .. l /\ DOMAIN Body(h) = 0 .. l
    OBVIOUS
  <2>4. h = [n \in 0 .. l |-> h[n]] /\ Body(h) = [n \in 0 .. l |-> Body(h)[n]]
    OBVIOUS
  <2> HIDE DEF h, Body
  <2>5. \A n \in 0 .. l : h[n] = Body(h)[n]
    BY <2>1, <2>2
  <2> QED BY <2>4, <2>5
<1>8. In = Body(In)
  <2> HIDE DEF h, Body
  <2> QED BY <1>7
<1> HIDE DEF In
<1>9. ASSUME NEW n \in 1 .. l
      PROVE  In[n] <=> Starts(g[n - 1], p[n]) \/ (In[n - 1] /\ PassesOn(g[n - 1], p[n]))
  <2> HIDE DEF Body
  <2> QED BY <1>6, <1>8
<1> HIDE DEF Body, h
<1> DEFINE S == {k \in Nat : s + k <= l => In[s + k]}
<1>10. 0 \in S
  <2>1. s + 0 = s
    OBVIOUS
  <2> QED BY <1>3, <1>9, <2>1 DEF TargetFrom
<1>11. ASSUME NEW k \in Nat, k \in S PROVE k + 1 \in S
  <2> SUFFICES ASSUME s + (k + 1) <= l PROVE In[s + (k + 1)]
    OBVIOUS
  <2> DEFINE m == s + (k + 1)
  <2>1. m \in 1 .. l /\ m \in s + 1 .. l /\ m - 1 = s + k /\ In[s + k]
    BY <1>4, <1>11
  <2> HIDE DEF m, S
  <2>2. PassesOn(g[m - 1], p[m])
    BY <1>3, <2>1 DEF TargetFrom
  <2>3. In[m]
    BY <1>9, <2>1, <2>2
  <2> QED BY <2>3 DEF m
<1> HIDE DEF S
<1>12. Nat \subseteq S
  BY <1>10, <1>11, SetInduction
<1>13. l - s \in Nat /\ s + (l - s) = l
  BY <1>4
<1>14. l - s \in S
  BY <1>12, <1>13
<1>15. In[l]
  BY <1>4, <1>13, <1>14 DEF S
<1> QED BY <1>1, <1>15

\* What there is below the source file.
Below(a) == {p \in Path : p # << >> /\ \E node : NodeOn(a, p, node)}

LEMMA LastStep ==
  ASSUME NEW p \in Path, p # << >>
  PROVE  /\ Len(p) - 1 \in Nat /\ p[Len(p)] \in Nat \ {0}
         /\ SubSeq(p, 1, Len(p) - 1) \in Path /\ Len(SubSeq(p, 1, Len(p) - 1)) = Len(p) - 1
         /\ Leads(SubSeq(p, 1, Len(p) - 1), p) /\ SubSeq(p, 1, Len(p) - 1) # p
         /\ p = Append(SubSeq(p, 1, Len(p) - 1), p[Len(p)])
<1> DEFINE l == Len(p)
           k == l - 1
           q == SubSeq(p, 1, k)
           i == p[l]
           r == Append(q, i)
<1>1. l \in Nat /\ l # 0
  BY DEF Path
<1>2. k \in Nat /\ k \in 0 .. l /\ l = k + 1 /\ l \in 1 .. l
  BY <1>1
<1>3. i \in Nat \ {0}
  BY <1>2 DEF Path
<1> HIDE DEF k, i, l
<1>4. q \in Path /\ Len(q) = k /\ Leads(q, p) /\ \A n \in 1 .. k : q[n] = p[n]
  BY <1>2, PrefixIsPath DEF l
<1> HIDE DEF q
<1>5. r \in Path /\ Len(r) = k + 1 /\ r[k + 1] = i /\ \A n \in 1 .. k : r[n] = q[n]
  BY <1>3, <1>4, ChildPath
<1> HIDE DEF r
<1>6. ASSUME NEW n \in 1 .. l PROVE p[n] = r[n]
  <2>1. CASE n = k + 1
    BY <1>2, <1>5, <2>1 DEF i
  <2>2. CASE n # k + 1
    <3>1. n \in 1 .. k
      BY <1>2, <2>2
    <3> QED BY <1>4, <1>5, <3>1
  <2> QED BY <2>1, <2>2
<1>7. Leads(p, r) /\ Leads(r, p)
  BY <1>2, <1>5, <1>6 DEF Leads, l
<1>8. p = r
  BY <1>5, <1>7, LeadsBothWays
<1>9. q # p
  BY <1>2, <1>4 DEF l
<1> QED BY <1>2, <1>3, <1>4, <1>8, <1>9 DEF k, q, i, l, r

LEMMA PathsOn ==
  ASSUME ast \in Nodes
  PROVE  Paths \subseteq Below(ast)
<1> DEFINE h == [n \in Nat |-> {p \in Path : Len(p) = n /\ \E node : NodeOn(ast, p, node)}]
           Body(f) ==
             [n \in Nat |->
                IF n = 0 THEN { << >> }
                ELSE UNION { { Append(p, i) : i \in DOMAIN NodeAt(p).kids } : p \in f[n - 1] }]
           F == CHOOSE f : f = Body(f)
<1>1. PathsOfLength = F
  BY DEF PathsOfLength
<1>2. ASSUME NEW n \in Nat PROVE h[n] = Body(h)[n]
  <2>1. CASE n = 0
    <3>1. ASSUME NEW p \in Path, Len(p) = 0 PROVE p = << >>
      BY <3>1 DEF Path
    <3>2. << >> \in h[0]
      <4>1. Len(<< >>) = 0 /\ 0 \in Nat
        OBVIOUS
      <4> QED BY <4>1, RootOn
    <3>3. h[0] = { << >> }
      BY <3>1, <3>2
    <3>4. Body(h)[0] = { << >> }
      <4> HIDE DEF h
      <4> QED OBVIOUS
    <3> HIDE DEF h, Body
    <3> QED BY <2>1, <3>3, <3>4
  <2>2. CASE n # 0
    <3> DEFINE k == n - 1
    <3>1. k \in Nat /\ n = k + 1
      BY <2>2
    <3>2. Body(h)[n] = UNION { { Append(p, i) : i \in DOMAIN NodeAt(p).kids } : p \in h[k] }
      <4> HIDE DEF h
      <4> QED BY <2>2
    <3>3. h[n] = {p \in Path : Len(p) = n /\ \E node : NodeOn(ast, p, node)}
      OBVIOUS
    <3>4. h[k] = {p \in Path : Len(p) = k /\ \E node : NodeOn(ast, p, node)}
      BY <3>1
    <3> HIDE DEF h, Body, k
    <3>5. ASSUME NEW q \in h[n] PROVE q \in Body(h)[n]
      <4> DEFINE p == SubSeq(q, 1, Len(q) - 1)
                 i == q[Len(q)]
      <4>1. q \in Path /\ Len(q) = n /\ q # << >>
        BY <2>2, <3>3
      <4>2. /\ p \in Path /\ Len(p) = Len(q) - 1 /\ Leads(p, q) /\ p # q /\ q = Append(p, i)
        BY <4>1, LastStep
      <4>3. Len(p) = k /\ Len(p) + 1 = Len(q)
        BY <3>1, <4>1, <4>2
      <4> HIDE DEF p, i
      <4>4. PICK g : IsWay(g, ast, q)
        BY <3>3 DEF NodeOn
      <4>5. NodeOn(ast, p, g[Len(p)]) /\ i \in DOMAIN g[Len(p)].kids
        BY <4>1, <4>2, <4>3, <4>4, OnTheWay DEF i
      <4>6. NodeAt(p) = g[Len(p)]
        BY <4>2, <4>5, NodeAtOn
      <4>7. p \in h[k]
        BY <3>4, <4>2, <4>3, <4>5
      <4>8. q \in { Append(p, j) : j \in DOMAIN NodeAt(p).kids }
        BY <4>2, <4>5, <4>6
      <4> QED BY <3>2, <4>7, <4>8
    <3>6. ASSUME NEW q \in Body(h)[n] PROVE q \in h[n]
      <4>1. PICK p \in h[k] : q \in { Append(p, i) : i \in DOMAIN NodeAt(p).kids }
        BY <3>2
      <4>2. PICK i \in DOMAIN NodeAt(p).kids : q = Append(p, i)
        BY <4>1
      <4>3. p \in Path /\ Len(p) = k
        BY <3>4
      <4>4. PICK node : NodeOn(ast, p, node)
        BY <3>4
      <4>5. node \in Nodes /\ NodeAt(p) = node
        BY <4>3, <4>4, NodeAtOn, NodeOnIsNode
      <4>6. i \in DOMAIN node.kids
        BY <4>5
      <4>7. NodeOn(ast, Append(p, i), node.kids[i])
        BY <4>3, <4>4, <4>5, <4>6, ChildOn
      <4>8. Append(p, i) \in Path /\ Len(Append(p, i)) = k + 1
        BY <4>3, <4>5, <4>6, NodeFacts, ChildPath
      <4> QED BY <3>1, <3>3, <4>2, <4>7, <4>8
    <3> QED BY <3>5, <3>6
  <2> QED BY <2>1, <2>2
<1>3. h = Body(h)
  <2>1. h = [n \in Nat |-> h[n]] /\ Body(h) = [n \in Nat |-> Body(h)[n]]
    OBVIOUS
  <2> HIDE DEF h, Body
  <2> QED BY <1>2, <2>1
<1>4. F = Body(F)
  <2> HIDE DEF h, Body
  <2> QED BY <1>3
<1> HIDE DEF F
<1>5. ASSUME NEW n \in Nat, NEW m \in Nat, m = n + 1, F[n] = h[n]
      PROVE  F[m] = h[m]
  <2>1. m # 0 /\ m - 1 = n
    BY <1>5
  <2>2. Body(F)[m] = UNION { { Append(p, i) : i \in DOMAIN NodeAt(p).kids } : p \in F[n] }
    BY <2>1
  <2>3. Body(h)[m] = UNION { { Append(p, i) : i \in DOMAIN NodeAt(p).kids } : p \in h[n] }
    <3> HIDE DEF h
    <3> QED BY <2>1
  <2> HIDE DEF h, Body
  <2> QED BY <1>2, <1>4, <1>5, <2>2, <2>3
<1>6. F[0] = h[0]
  <2>1. Body(F)[0] = { << >> }
    OBVIOUS
  <2>2. Body(h)[0] = { << >> }
    <3> HIDE DEF h
    <3> QED OBVIOUS
  <2> HIDE DEF h, Body
  <2> QED BY <1>2, <1>4, <2>1, <2>2
<1> DEFINE S == {n \in Nat : F[n] = h[n]}
<1> HIDE DEF h, Body
<1>7. \A n \in Nat : n \in S => n + 1 \in S
  BY <1>5
<1>8. Nat \subseteq S
  <2> HIDE DEF S
  <2>1. 0 \in S
    BY <1>6 DEF S
  <2> QED BY <1>7, <2>1, SetInduction
<1>9. ASSUME NEW n \in 1 .. MaxDepth, NEW p \in PathsOfLength[n] PROVE p \in Below(ast)
  <2>1. n \in Nat /\ n # 0
    BY MaxDepthAssumption
  <2>2. p \in h[n]
    BY <1>1, <1>8, <2>1
  <2>3. p \in Path /\ Len(p) = n /\ \E node : NodeOn(ast, p, node)
    BY <2>1, <2>2 DEF h
  <2>4. p # << >>
    BY <2>1, <2>3
  <2> QED BY <2>3, <2>4 DEF Below
<1> QED BY <1>9 DEF Paths

-----------------------------------------------------------------------------
(* The invariant. *)

\* A call is of a listener for its node, and only a target is announced as one.
ItemFits(a, x) ==
  \E node \in Nodes :
    /\ NodeOn(a, x.at, node)
    /\ IsRun(x) => x.kind \in KindsOf(node.kind) /\ (Band(x.kind) \in {2, 3} => TargetOn(a, x.at))
    /\ ~ IsRun(x) => x.node = node /\ (x.do = "pattern" => TargetOn(a, x.at))

\* A path is that of the name of a target property, or goes on from there.
Skipped(X, p) ==
  \E n \in 1 .. Len(p) :
    p[n] = 1 /\ Run(ListenerOnAllowPattern(PropertyAssignment), SubSeq(p, 1, n - 1)) \in X

\* A node has been visited, or is yet to be, or the walk passes over it.
Reached(X, p, node) ==
  \/ Run(node.kind, p) \in X
  \/ \E x \in X : ~ IsRun(x) /\ Leads(x.at, p)
  \/ Skipped(X, p)

Announced(X, x) ==
  ~ (Run(ListenerOnAllowPattern(x.kind), x.at) \in X
       <=> Run(ListenerOnNotAllowPattern(x.kind), x.at) \in X)

\* c has the calls made, and the visits and calls to come, of a walk of tree a.
Walked(a, c) ==
  /\ c \in Seq(Item) /\ Tidy(c)
  /\ \A x \in Range(c) : ItemFits(a, x) /\ ~ Skipped(Range(c), x.at)
  /\ \A p \in Below(a), node \in Nodes : NodeOn(a, p, node) => Reached(Range(c), p, node)
  /\ \A x \in Range(c) : IsRun(x) /\ x.kind \in Literals => Announced(Range(c), x)

Event == [kind : Nat, at : Path]

Call(event) == Run(event.kind, event.at)

Course(evs, todo) ==
  [i \in 1 .. Len(evs) + Len(todo) |->
     IF i <= Len(evs) THEN Call(evs[i]) ELSE todo[i - Len(evs)]]

WalkInv ==
  /\ ast \in Nodes /\ agenda \in Seq(Item) /\ events \in Seq(Event)
  /\ Walked(ast, Course(events, agenda))

LEMMA SeqRange ==
  ASSUME NEW c \in Seq(Item)
  PROVE  /\ Range(c) = {c[i] : i \in 1 .. Len(c)} /\ Len(c) \in Nat
         /\ \A i \in 1 .. Len(c) : c[i] \in Item /\ c[i] \in Range(c)
BY DEF Range

\* What is known after a visit's block has taken its place.
LEMMA SplicedRange ==
  ASSUME NEW c \in Seq(Item), NEW c2 \in Seq(Item), NEW b \in Seq(Item),
         NEW u \in 1 .. Len(c), NEW f, ComesFrom(f, c, c2, u, b),
         Tidy(c), ~ IsRun(c[u]), NEW y
  PROVE  y \in Range(c2) <=> y \in Range(b) \/ (y \in Range(c) /\ y # c[u])
<1>1. ASSUME NEW i \in 1 .. Len(c), i # u PROVE ~ Leads(c[u].at, c[i].at) /\ c[i] # c[u]
  <2>1. ~ Leads(c[u].at, c[i].at)
    BY <1>1 DEF Tidy
  <2>2. c[u].at \in Path
    BY SeqRange DEF Item
  <2> QED BY <2>1, <2>2, LeadsReflexive
<1>2. ASSUME y \in Range(c2) PROVE y \in Range(b) \/ (y \in Range(c) /\ y # c[u])
  <2>1. PICK j \in 1 .. Len(c2) : y = c2[j]
    BY <1>2, SeqRange
  <2>2. f[j] \in 1 .. Len(c)
    BY DEF ComesFrom
  <2>3. CASE f[j] # u
    <3>1. y = c[f[j]]
      BY <2>1, <2>3 DEF ComesFrom
    <3> QED BY <1>1, <2>2, <2>3, <3>1, SeqRange
  <2>4. CASE f[j] = u
    <3>1. PICK m \in 1 .. Len(b) : c2[j] = b[m]
      BY <2>4 DEF ComesFrom
    <3> QED BY <2>1, <3>1, SeqRange
  <2> QED BY <2>3, <2>4
<1>3. ASSUME y \in Range(b) PROVE y \in Range(c2)
  <2>1. PICK m \in 1 .. Len(b) : y = b[m]
    BY <1>3, SeqRange
  <2> DEFINE j == u - 1 + m
  <2>2. j \in 1 .. Len(c2) /\ c2[j] = b[m]
    BY DEF ComesFrom
  <2> HIDE DEF j
  <2> QED BY <2>1, <2>2, SeqRange
<1>4. ASSUME y \in Range(c), y # c[u] PROVE y \in Range(c2)
  <2>1. PICK i \in 1 .. Len(c) : y = c[i]
    BY <1>4, SeqRange
  <2>2. PICK j \in 1 .. Len(c2) : f[j] = i
    BY <1>4, <2>1 DEF ComesFrom
  <2>3. c2[j] = c[i]
    BY <1>4, <2>1, <2>2 DEF ComesFrom
  <2> QED BY <2>1, <2>3, SeqRange
<1> QED BY <1>2, <1>3, <1>4

LEMMA VisitKeepsWalked ==
  ASSUME NEW a \in Nodes, NEW c \in Seq(Item), NEW c2 \in Seq(Item), NEW b \in Seq(Item),
         NEW u \in 1 .. Len(c), Spliced(c, c2, u, b), Walked(a, c), ~ IsRun(c[u]),
         Handles(b, c[u].node, c[u].at, c[u].do = "pattern")
  PROVE  Walked(a, c2)
<1> DEFINE at == c[u].at
           node == c[u].node
           target == c[u].do = "pattern"
           allow == ListenerOnAllowPattern(PropertyAssignment)
<1>1. PICK f : ComesFrom(f, c, c2, u, b)
  BY SpliceMaps, SeqRange
<1>2. c[u] \in Item /\ c[u] \in Range(c) /\ Tidy(c)
  BY SeqRange DEF Walked
<1>3. at \in Path /\ node \in Nodes /\ c[u].do \in {"child", "pattern"}
  BY <1>2 DEF Item, IsRun
<1>4. IsBlock(b, at)
  BY DEF Handles
<1>5. \A y : y \in Range(c2) <=> y \in Range(b) \/ (y \in Range(c) /\ y # c[u])
  BY <1>1, <1>2, SplicedRange
<1>6. Tidy(c2)
  BY <1>1, <1>2, <1>4, Expanded, SeqRange
<1>7. NodeOn(a, at, node) /\ (target => TargetOn(a, at))
  BY <1>2 DEF Walked, ItemFits
<1> HIDE DEF at, node, target
<1>8. ASSUME NEW x \in Range(c), x # c[u] PROVE x.at \in Path /\ x.at # at
  <2>1. PICK i \in 1 .. Len(c) : x = c[i]
    BY SeqRange
  <2>2. ~ Leads(c[u].at, c[i].at)
    BY <1>2, <1>8, <2>1 DEF Tidy
  <2>3. x.at \in Path
    BY <2>1, SeqRange DEF Item
  <2> QED BY <1>3, <2>1, <2>2, <2>3, LeadsReflexive DEF at
<1>9. ASSUME NEW x \in Range(b)
      PROVE  /\ x \in Item
             /\ IsRun(x) => x.at = at
  <2>1. PICK m \in 1 .. Len(b) : x = b[m]
    BY SeqRange
  <2> QED BY <1>4, <2>1 DEF IsBlock
<1>visit. ASSUME NEW x \in Range(b), ~ IsRun(x)
          PROVE  \E i \in Nat \ {0} : x.at = Append(at, i)
  <2>1. PICK m \in 1 .. Len(b) : x = b[m]
    BY SeqRange
  <2>2. ~ IsRun(b[m])
    BY <1>visit, <2>1
  <2>3. \E i \in Nat \ {0} : b[m].at = Append(at, i)
    BY <1>4, <2>2 DEF IsBlock
  <2> QED BY <2>1, <2>3
<1>10. ASSUME NEW x \in Range(c2) PROVE ItemFits(a, x)
  <2>1. CASE x \in Range(c)
    BY <2>1 DEF Walked
  <2>2. CASE x \in Range(b) /\ IsRun(x)
    <3>1. x.at = at /\ x.kind \in KindsOf(node.kind) /\ (Band(x.kind) \in {2, 3} => target)
      BY <1>9, <2>2 DEF Handles, target, node
    <3> QED BY <1>3, <1>7, <2>2, <3>1 DEF ItemFits
  <2>3. CASE x \in Range(b) /\ ~ IsRun(x)
    <3>1. PICK i \in DOMAIN node.kids :
            /\ x.at = Append(at, i) /\ x.node = node.kids[i]
            /\ x.do = "pattern" => Starts(node, i) \/ (target /\ PassesOn(node, i))
      BY <2>3 DEF Handles, at, node, target
    <3>2. NodeOn(a, x.at, x.node) /\ x.node \in Nodes
      BY <1>3, <1>7, <3>1, ChildOn, NodeFacts
    <3>3. x.do = "pattern" => TargetOn(a, x.at)
      BY <1>3, <1>7, <3>1, ChildIsTarget
    <3> QED BY <2>3, <3>2, <3>3 DEF ItemFits
  <2> QED BY <1>5, <2>1, <2>2, <2>3
<1>11. ASSUME NEW p \in Below(a), NEW n \in Nodes, NodeOn(a, p, n)
       PROVE  Reached(Range(c2), p, n)
  <2>1. p \in Path
    BY DEF Below
  <2>2. Reached(Range(c), p, n)
    BY <1>11 DEF Walked
  <2>3. \A kind, q : Run(kind, q) \in Range(c) => Run(kind, q) \in Range(c2)
    <3>1. \A kind, q : Run(kind, q) # c[u]
      BY DEF IsRun, Run
    <3> QED BY <1>5, <3>1
  <2>4. CASE Run(n.kind, p) \in Range(c)
    BY <2>3, <2>4 DEF Reached
  <2>5. CASE Skipped(Range(c), p)
    <3>1. Skipped(Range(c2), p)
      BY <2>3, <2>5 DEF Skipped
    <3> QED BY <3>1 DEF Reached
  <2>6. CASE \E x \in Range(c) : x # c[u] /\ ~ IsRun(x) /\ Leads(x.at, p)
    BY <1>5, <2>6 DEF Reached
  <2>7. CASE Leads(at, p)
    <3>1. CASE at = p
      <4>1. n = node
        BY <1>3, <1>7, <1>11, <3>1, NodeOnIsUnique
      <4>2. Run(node.kind, at) \in Range(b)
        BY DEF Handles, node, at
      <4> QED BY <1>5, <3>1, <4>1, <4>2 DEF Reached
    <3>2. CASE at # p
      <4> DEFINE s == Len(at) + 1
                 i == p[s]
      <4>1. s \in 1 .. Len(p) /\ i \in Nat \ {0} /\ Leads(Append(at, i), p)
        BY <1>3, <2>1, <2>7, <3>2, LeadsOn
      <4>2. i \in DOMAIN node.kids
        <5>1. PICK g : IsWay(g, a, p)
          BY <1>11 DEF NodeOn
        <5>2. NodeOn(a, at, g[Len(at)]) /\ i \in DOMAIN g[Len(at)].kids
          BY <1>3, <2>1, <2>7, <3>2, <5>1, OnTheWay
        <5> QED BY <1>3, <1>7, <5>2, NodeOnIsUnique
      <4>3. at = SubSeq(p, 1, s - 1)
        <5>1. s - 1 = Len(at) /\ Len(at) \in 0 .. Len(p)
          BY <1>3, <2>1, <2>7 DEF Leads, Path
        <5> HIDE DEF s
        <5>2. SubSeq(p, 1, Len(at)) \in Path /\ Len(SubSeq(p, 1, Len(at))) = Len(at)
              /\ \A k \in 1 .. Len(at) : SubSeq(p, 1, Len(at))[k] = p[k]
          BY <2>1, <5>1, PrefixIsPath
        <5>3. Leads(at, SubSeq(p, 1, Len(at))) /\ Leads(SubSeq(p, 1, Len(at)), at)
          BY <1>3, <2>7, <5>1, <5>2 DEF Leads
        <5>4. at = SubSeq(p, 1, Len(at))
          BY <1>3, <5>2, <5>3, LeadsBothWays
        <5> QED BY <5>1, <5>4
      <4> HIDE DEF s, i
      <4>4. CASE \E x \in Range(b) : ~ IsRun(x) /\ x.at = Append(at, i)
        BY <1>5, <4>1, <4>4 DEF Reached
      <4>5. CASE i = 1 /\ Run(allow, at) \in Range(b)
        <5>1. p[s] = 1 /\ Run(allow, SubSeq(p, 1, s - 1)) \in Range(c2)
          BY <1>5, <4>3, <4>5 DEF i
        <5> QED BY <4>1, <5>1 DEF Reached, Skipped
      <4> QED BY <4>2, <4>4, <4>5 DEF Handles, node, at
    <3> QED BY <3>1, <3>2
  <2> QED BY <2>2, <2>4, <2>5, <2>6, <2>7 DEF Reached, at
<1>12. ASSUME NEW x \in Range(c2), IsRun(x), x.kind \in Literals
       PROVE  Announced(Range(c2), x)
  <2> DEFINE yes == Run(ListenerOnAllowPattern(x.kind), x.at)
             no == Run(ListenerOnNotAllowPattern(x.kind), x.at)
  <2>1. IsRun(yes) /\ IsRun(no) /\ yes.at = x.at /\ no.at = x.at
    BY DEF IsRun, Run
  <2>2. Announced(Range(c2), x) <=> ~ (yes \in Range(c2) <=> no \in Range(c2))
    BY DEF Announced
  <2>3. Announced(Range(c), x) <=> ~ (yes \in Range(c) <=> no \in Range(c))
    BY DEF Announced
  <2>4. CASE x \in Range(b)
    <3>1. x.at = at
      BY <1>9, <1>12, <2>4
    <3>2. ~ (yes \in Range(b) <=> no \in Range(b))
      BY <1>12, <2>4, <3>1 DEF Handles, at
    <3>3. ~ (yes \in Range(c) /\ yes # c[u]) /\ ~ (no \in Range(c) /\ no # c[u])
      BY <1>8, <2>1, <3>1
    <3> HIDE DEF yes, no
    <3> QED BY <1>5, <2>2, <3>2, <3>3
  <2>5. CASE x \notin Range(b)
    <3>1. x \in Range(c) /\ x # c[u]
      BY <1>5, <2>5
    <3>2. x.at # at
      BY <1>8, <3>1
    <3>3. yes \notin Range(b) /\ no \notin Range(b)
      BY <1>9, <2>1, <3>2
    <3>4. yes # c[u] /\ no # c[u]
      BY <2>1
    <3>5. Announced(Range(c), x)
      BY <1>12, <3>1 DEF Walked
    <3> HIDE DEF yes, no
    <3> QED BY <1>5, <2>2, <2>3, <3>3, <3>4, <3>5
  <2> QED BY <2>4, <2>5
<1>13. ASSUME NEW x \in Range(c2), Skipped(Range(c2), x.at) PROVE FALSE
  <2>1. PICK n \in 1 .. Len(x.at) :
          x.at[n] = 1 /\ Run(allow, SubSeq(x.at, 1, n - 1)) \in Range(c2)
    BY <1>13 DEF Skipped
  <2> DEFINE s == SubSeq(x.at, 1, n - 1)
             r == Run(allow, s)
  <2>2. x.at \in Path
    BY <1>3, <1>5, <1>8, <1>9 DEF Item, at
  <2>3. Len(x.at) \in Nat /\ n - 1 \in 0 .. Len(x.at) /\ n \in 0 .. Len(x.at)
    BY <2>2 DEF Path
  <2>4. s \in Path /\ Len(s) = n - 1 /\ \A k \in 1 .. n - 1 : s[k] = x.at[k]
    BY <2>2, <2>3, PrefixIsPath
  <2>5. Leads(Append(s, 1), x.at) /\ Leads(s, x.at)
    <3> HIDE DEF s
    <3>1. Len(Append(s, 1)) = n /\ Append(s, 1)[n] = 1 /\ \A k \in 1 .. n - 1 : Append(s, 1)[k] = s[k]
      BY <2>3, <2>4, ChildPath
    <3>2. \A k \in 1 .. n : k = n \/ k \in 1 .. n - 1
      BY <2>3
    <3>3. \A k \in 1 .. n : Append(s, 1)[k] = x.at[k]
      BY <2>1, <2>4, <3>1, <3>2
    <3>4. n <= Len(x.at) /\ n - 1 <= Len(x.at)
      BY <2>3
    <3> QED BY <2>4, <3>1, <3>3, <3>4 DEF Leads
  <2>6. IsRun(r) /\ r.at = s
    BY DEF IsRun, Run
  <2>7. r # c[u]
    BY <2>6
  <2>8. \/ x \in Range(c) /\ x # c[u]
        \/ x \in Range(b)
    BY <1>5
  <2>9. \/ r \in Range(c)
        \/ r \in Range(b)
    BY <1>5, <2>1
  <2>10. ASSUME NEW p \in Path, NEW k \in 1 .. Len(p), p[k] = 1, SubSeq(p, 1, k - 1) = s,
                r \in Range(c)
         PROVE  Skipped(Range(c), p)
    BY <2>10 DEF Skipped
  <2>11. CASE x \in Range(c) /\ x # c[u]
    <3>1. ~ Skipped(Range(c), x.at)
      BY <2>11 DEF Walked
    <3>2. r \in Range(b)
      BY <2>1, <2>2, <2>9, <2>10, <3>1
    <3>3. s = at
      BY <1>9, <2>6, <3>2
    <3>4. PICK i \in 1 .. Len(c) : x = c[i]
      BY <2>11, SeqRange
    <3>5. ~ Leads(c[u].at, c[i].at)
      BY <1>2, <2>11, <3>4 DEF Tidy
    <3> QED BY <2>5, <3>3, <3>4, <3>5 DEF at
  <2>12. CASE x \in Range(b) /\ r \in Range(b)
    <3>1. s = at
      BY <1>9, <2>6, <2>12
    <3>2. x.at # Append(at, 1)
      BY <2>12, <3>1 DEF Handles, at
    <3>3. CASE IsRun(x)
      <4>1. x.at = s
        BY <1>9, <2>12, <3>1, <3>3
      <4> HIDE DEF s
      <4> QED BY <2>3, <2>4, <4>1
    <3>4. CASE ~ IsRun(x)
      <4>1. PICK i \in Nat \ {0} : x.at = Append(at, i)
        BY <1>visit, <2>12, <3>4
      <4>2. Leads(Append(at, 1), Append(at, i))
        BY <2>5, <3>1, <4>1
      <4>3. i = 1
        BY <1>3, <4>2, ChildrenApart
      <4> QED BY <3>2, <4>1, <4>3
    <3> QED BY <3>3, <3>4
  <2>13. CASE x \in Range(b) /\ r \in Range(c)
    <3>1. ~ Skipped(Range(c), at)
      BY <1>2 DEF Walked, at
    <3>2. s # at
      BY <1>8, <2>6, <2>7, <2>13
    <3>3. Leads(Append(s, 1), at)
      <4>1. CASE IsRun(x)
        <5>1. x.at = at
          BY <1>9, <2>13, <4>1
        <5> HIDE DEF s
        <5> QED BY <2>5, <5>1
      <4>2. CASE ~ IsRun(x)
        <5>1. PICK i \in Nat \ {0} : x.at = Append(at, i)
          BY <1>visit, <2>13, <4>2
        <5>2. Append(s, 1) = Append(at, i) \/ Leads(Append(s, 1), at)
          <6>1. Append(s, 1) \in Path /\ Leads(Append(s, 1), Append(at, i))
            BY <2>4, <2>5, <5>1, ChildPath
          <6> QED BY <1>3, <6>1, LeadsToChild
        <5>3. Append(s, 1) # Append(at, i)
          <6>1. s = SubSeq(Append(s, 1), 1, Len(Append(s, 1)) - 1)
            BY <2>4 DEF Path
          <6>2. at = SubSeq(Append(at, i), 1, Len(Append(at, i)) - 1)
            BY <1>3, <5>1 DEF Path
          <6> HIDE DEF s
          <6> QED BY <3>2, <6>1, <6>2
        <5> QED BY <5>2, <5>3
      <4> QED BY <4>1, <4>2
    <3> HIDE DEF s
    <3>4. n \in 1 .. Len(at) /\ at[n] = 1 /\ \A k \in 1 .. n - 1 : at[k] = s[k]
      <4>1. Len(Append(s, 1)) = n /\ Append(s, 1)[n] = 1 /\ \A k \in 1 .. n - 1 : Append(s, 1)[k] = s[k]
        BY <2>3, <2>4, ChildPath
      <4>2. Len(at) \in Nat /\ n \in Nat /\ n > 0
        BY <1>3, <2>3 DEF Path
      <4>3. \A k \in 1 .. n - 1 : k \in 1 .. n
        BY <4>2
      <4>4. n <= Len(at) /\ \A k \in 1 .. n : Append(s, 1)[k] = at[k]
        BY <3>3, <4>1 DEF Leads
      <4>5. n \in 1 .. n /\ n \in 1 .. Len(at)
        BY <4>2, <4>4
      <4> QED BY <4>1, <4>3, <4>4, <4>5
    <3>5. SubSeq(at, 1, n - 1) = s
      <4>1. n - 1 \in 0 .. Len(at)
        BY <1>3, <3>4 DEF Path
      <4>2. /\ SubSeq(at, 1, n - 1) \in Path /\ Len(SubSeq(at, 1, n - 1)) = n - 1
            /\ \A k \in 1 .. n - 1 : SubSeq(at, 1, n - 1)[k] = at[k]
        BY <1>3, <4>1, PrefixIsPath
      <4>3. Leads(s, SubSeq(at, 1, n - 1)) /\ Leads(SubSeq(at, 1, n - 1), s)
        BY <2>3, <2>4, <3>4, <4>2 DEF Leads
      <4> QED BY <2>4, <4>2, <4>3, LeadsBothWays
    <3> QED BY <1>3, <2>10, <2>13, <3>1, <3>4, <3>5
  <2> QED BY <2>8, <2>9, <2>11, <2>12, <2>13
<1> QED BY <1>6, <1>10, <1>11, <1>12, <1>13 DEF Walked

LEMMA CallsFacts ==
  ASSUME NEW evs \in Seq(Event), NEW todo \in Seq(Item)
  PROVE  /\ Course(evs, todo) \in Seq(Item)
         /\ Len(Course(evs, todo)) = Len(evs) + Len(todo)
         /\ \A i \in 1 .. Len(evs) : Course(evs, todo)[i] = Call(evs[i])
         /\ \A i \in 1 .. Len(todo) : Course(evs, todo)[Len(evs) + i] = todo[i]
<1> DEFINE l == Len(evs)
           n == l + Len(todo)
           c == Course(evs, todo)
<1>1. l \in Nat /\ Len(todo) \in Nat /\ n \in Nat
  OBVIOUS
<1>2. \A i \in 1 .. l : Call(evs[i]) \in Item
  <2>1. \A e \in Event : Call(e) \in Item
    BY DEF Call, Run, Item, Event
  <2> QED BY <2>1
<1>3. c = [i \in 1 .. n |-> IF i <= l THEN Call(evs[i]) ELSE todo[i - l]]
  BY DEF Course
<1>4. \A i \in 1 .. n : c[i] \in Item
  <2>1. ASSUME NEW i \in 1 .. n PROVE c[i] \in Item
    <3>1. CASE i <= l
      <4>1. i \in 1 .. l
        BY <1>1, <3>1
      <4> QED BY <1>2, <1>3, <3>1, <4>1
    <3>2. CASE ~ (i <= l)
      <4>1. i - l \in 1 .. Len(todo)
        BY <1>1, <3>2
      <4> QED BY <1>3, <3>2, <4>1
    <3> QED BY <3>1, <3>2
  <2> QED BY <2>1
<1> HIDE DEF c
<1>5. c \in Seq(Item) /\ Len(c) = n
  <2> HIDE DEF n
  <2>1. c \in [1 .. n -> Item]
    BY <1>3, <1>4
  <2> QED BY <1>1, <2>1
<1>6. \A i \in 1 .. l : c[i] = Call(evs[i])
  BY <1>1, <1>3
<1>7. ASSUME NEW i \in 1 .. Len(todo) PROVE c[l + i] = todo[i]
  <2>1. l + i \in 1 .. n /\ ~ (l + i <= l) /\ (l + i) - l = i
    BY <1>1
  <2> QED BY <1>3, <2>1
<1> QED BY <1>5, <1>6, <1>7 DEF c

LEMMA Start ==
  ASSUME NEW a \in Nodes
  PROVE  ForEachChild(a, << >>) \in Seq(Item) /\ Walked(a, ForEachChild(a, << >>))
<1> DEFINE root == << >>
           c == ForEachChild(a, root)
<1>1. root \in Path /\ NodeOn(a, root, a) /\ Len(root) = 0
  BY RootOn
<1> HIDE DEF root
<1>2. AreVisits(c, a, root, FALSE)
  BY <1>1, ForEachChildVisits
<1> HIDE DEF c
<1>3. c \in Seq(Item) /\ \A x \in Range(c) : ~ IsRun(x)
  BY <1>1, <1>2, VisitsRange
<1>4. \A m \in 1 .. Len(c) : \E i \in DOMAIN a.kids :
        \/ c[m] = ChildAt(a, root, i)
        \/ c[m] = PatternAt(a, root, i) /\ Starts(a, i)
  BY <1>2 DEF AreVisits
<1>a. ASSUME NEW m \in 1 .. Len(c)
      PROVE  \E i \in DOMAIN a.kids : /\ c[m].at = Append(root, i) /\ c[m].node = a.kids[i]
                                      /\ c[m].do = "pattern" => Starts(a, i)
  <2>1. PICK i \in DOMAIN a.kids :
          \/ c[m] = ChildAt(a, root, i)
          \/ c[m] = PatternAt(a, root, i) /\ Starts(a, i)
    BY <1>4
  <2>2. /\ ChildAt(a, root, i).at = Append(root, i) /\ PatternAt(a, root, i).at = Append(root, i)
        /\ ChildAt(a, root, i).node = a.kids[i] /\ PatternAt(a, root, i).node = a.kids[i]
        /\ ChildAt(a, root, i).do = "child"
    BY <1>1, VisitFacts
  <2> QED BY <2>1, <2>2
<1>5. ASSUME NEW m \in 1 .. Len(c), NEW n \in 1 .. Len(c), m # n, Leads(c[m].at, c[n].at)
      PROVE  FALSE
  <2>1. PICK i \in DOMAIN a.kids : c[m].at = Append(root, i)
    BY <1>a
  <2>2. PICK j \in DOMAIN a.kids : c[n].at = Append(root, j)
    BY <1>a
  <2>3. i = j
    <3>1. i \in Nat \ {0} /\ j \in Nat \ {0}
      BY NodeFacts
    <3>2. Leads(Append(root, i), Append(root, j))
      BY <1>5, <2>1, <2>2
    <3> QED BY <1>1, <3>1, <3>2, ChildrenApart
  <2> QED BY <1>2, <1>5, <2>1, <2>2, <2>3 DEF AreVisits
<1>6. Tidy(c)
  BY <1>3, <1>5, SeqRange DEF Tidy, Opens
<1>7. ASSUME NEW x \in Range(c) PROVE ItemFits(a, x)
  <2>1. PICK m \in 1 .. Len(c) : x = c[m]
    BY <1>3, SeqRange
  <2>2. PICK i \in DOMAIN a.kids : /\ x.at = Append(root, i) /\ x.node = a.kids[i]
                                   /\ x.do = "pattern" => Starts(a, i)
    BY <1>a, <2>1
  <2>3. NodeOn(a, Append(root, i), a.kids[i]) /\ a.kids[i] \in Nodes
    <3>1. a.kids[i] \in Nodes
      BY NodeFacts
    <3>2. NodeOn(a, Append(root, i), a.kids[i])
      BY <1>1, ChildOn
    <3> QED BY <3>1, <3>2
  <2>4. x.do = "pattern" => TargetOn(a, Append(root, i))
    BY <1>1, <2>2, ChildIsTarget
  <2> QED BY <1>3, <2>2, <2>3, <2>4 DEF ItemFits
<1>8. ASSUME NEW p \in Below(a), NEW node \in Nodes PROVE Reached(Range(c), p, node)
  <2>1. p \in Path /\ p # root /\ Leads(root, p)
    BY <1>1 DEF Below, root, Leads, Path
  <2> DEFINE i == p[Len(root) + 1]
  <2>2. i \in Nat \ {0} /\ Leads(Append(root, i), p)
    BY <1>1, <2>1, LeadsOn
  <2>3. i \in DOMAIN a.kids
    <3>1. PICK g : IsWay(g, a, p)
      BY DEF Below, NodeOn
    <3>2. NodeOn(a, root, g[Len(root)]) /\ i \in DOMAIN g[Len(root)].kids
      BY <1>1, <2>1, <3>1, OnTheWay
    <3> QED BY <1>1, <3>2, NodeOnIsUnique
  <2> HIDE DEF i
  <2>4. PICK m \in 1 .. Len(c) : c[m].at = Append(root, i)
    BY <1>2, <2>3 DEF AreVisits
  <2> QED BY <1>3, <2>2, <2>4, SeqRange DEF Reached
<1>9. ASSUME NEW x \in Range(c) PROVE ~ Skipped(Range(c), x.at)
  BY <1>3, RunFacts DEF Skipped, IsRun, Run
<1>10. Walked(a, c)
  BY <1>3, <1>6, <1>7, <1>8, <1>9 DEF Walked
<1> QED BY <1>3, <1>10 DEF c, root

LEMMA InitWalk == Init => WalkInv
<1> SUFFICES ASSUME Init PROVE WalkInv
  OBVIOUS
<1> DEFINE c == ForEachChild(ast, << >>)
<1>1. ast \in Nodes /\ events = << >> /\ agenda = c
  BY AstsAssumption DEF Init
<1>2. c \in Seq(Item) /\ Walked(ast, c)
  BY <1>1, Start
<1>3. << >> \in Seq(Event) /\ Len(<< >>) = 0
  OBVIOUS
<1> HIDE DEF c
<1>4. Course(<< >>, c) = c
  <2> DEFINE d == Course(<< >>, c)
  <2>1. d \in Seq(Item) /\ Len(d) = Len(c) /\ \A i \in 1 .. Len(c) : d[i] = c[i]
    BY <1>2, <1>3 DEF Course
  <2> HIDE DEF d
  <2>2. d = c
    BY <1>2, <2>1
  <2> QED BY <2>2 DEF d
<1> QED BY <1>1, <1>2, <1>3, <1>4 DEF WalkInv

LEMMA RunKeepsCalls ==
  ASSUME NEW evs \in Seq(Event), NEW todo \in Seq(Item), todo # << >>, IsRun(Head(todo))
  PROVE  /\ Append(evs, [kind |-> Head(todo).kind, at |-> Head(todo).at]) \in Seq(Event)
         /\ Tail(todo) \in Seq(Item)
         /\ Course(Append(evs, [kind |-> Head(todo).kind, at |-> Head(todo).at]), Tail(todo))
              = Course(evs, todo)
<1> DEFINE x == Head(todo)
           e == [kind |-> x.kind, at |-> x.at]
           evs2 == Append(evs, e)
           todo2 == Tail(todo)
           l == Len(evs)
           c == Course(evs, todo)
           c2 == Course(evs2, todo2)
<1>1. x \in Item /\ x = todo[1] /\ Len(todo) \in Nat /\ Len(todo) # 0 /\ l \in Nat
  OBVIOUS
<1>2. e \in Event /\ Call(e) = x
  BY <1>1 DEF Item, Event, Call, Run, IsRun
<1> HIDE DEF x, e
<1>3. /\ evs2 \in Seq(Event) /\ Len(evs2) = l + 1 /\ evs2[l + 1] = e
      /\ \A i \in 1 .. l : evs2[i] = evs[i]
  BY <1>2
<1>4. /\ todo2 \in Seq(Item) /\ Len(todo2) = Len(todo) - 1
      /\ \A i \in 1 .. Len(todo) - 1 : todo2[i] = todo[i + 1]
  BY <1>1
<1> HIDE DEF evs2, todo2
<1>5. c \in Seq(Item) /\ Len(c) = l + Len(todo)
  BY CallsFacts
<1>6. c2 \in Seq(Item) /\ Len(c2) = Len(evs2) + Len(todo2)
  BY <1>3, <1>4, CallsFacts
<1>7. ASSUME NEW i \in 1 .. l + Len(todo) PROVE c[i] = c2[i]
  <2>1. CASE i <= l
    <3>1. i \in 1 .. l /\ i \in 1 .. Len(evs2)
      BY <1>1, <1>3, <2>1
    <3>2. c[i] = Call(evs[i]) /\ c2[i] = Call(evs2[i])
      BY <1>3, <1>4, <3>1, CallsFacts
    <3> QED BY <1>3, <3>1, <3>2
  <2>2. CASE i = l + 1
    <3>1. i \in 1 .. Len(evs2) /\ 1 \in 1 .. Len(todo)
      BY <1>1, <1>3, <2>2
    <3>2. c2[i] = Call(evs2[i])
      BY <1>3, <1>4, <3>1, CallsFacts
    <3>3. c[l + 1] = todo[1]
      BY <3>1, CallsFacts
    <3> QED BY <1>1, <1>2, <1>3, <2>2, <3>2, <3>3
  <2>3. CASE i > l + 1
    <3> DEFINE j == i - l - 1
               k == j + 1
    <3>1. j \in 1 .. Len(todo2) /\ i = Len(evs2) + j /\ j \in 1 .. Len(todo) - 1
      BY <1>1, <1>3, <1>4, <2>3
    <3>2. k \in 1 .. Len(todo) /\ i = l + k
      BY <1>1, <2>3
    <3>3. todo2[j] = todo[k]
      BY <1>4, <3>1
    <3> HIDE DEF j, k
    <3>4. c2[Len(evs2) + j] = todo2[j]
      BY <1>3, <1>4, <3>1, CallsFacts
    <3>5. c[l + k] = todo[k]
      BY <3>2, CallsFacts
    <3> QED BY <3>1, <3>2, <3>3, <3>4, <3>5
  <2> QED BY <1>1, <2>1, <2>2, <2>3
<1>8. Len(c2) = l + Len(todo)
  BY <1>1, <1>3, <1>4, <1>6
<1> HIDE DEF c, c2, l
<1>9. c = c2
  BY <1>5, <1>6, <1>7, <1>8
<1> QED BY <1>3, <1>4, <1>9 DEF c, c2, evs2, todo2, x, e

LEMMA VisitSplices ==
  ASSUME NEW evs \in Seq(Event), NEW todo \in Seq(Item), todo # << >>, NEW b \in Seq(Item)
  PROVE  /\ b \o Tail(todo) \in Seq(Item)
         /\ Len(evs) + 1 \in 1 .. Len(Course(evs, todo))
         /\ Course(evs, todo)[Len(evs) + 1] = Head(todo)
         /\ Spliced(Course(evs, todo), Course(evs, b \o Tail(todo)), Len(evs) + 1, b)
<1> DEFINE l == Len(evs)
           rest == Tail(todo)
           new == b \o rest
           c == Course(evs, todo)
           c2 == Course(evs, new)
           u == l + 1
<1>1. l \in Nat /\ Len(b) \in Nat /\ Len(todo) \in Nat /\ Len(todo) # 0 /\ todo[1] = Head(todo)
  OBVIOUS
<1>2. /\ rest \in Seq(Item) /\ Len(rest) = Len(todo) - 1
      /\ \A i \in 1 .. Len(rest) : rest[i] = todo[i + 1]
  BY <1>1
<1> HIDE DEF rest
<1>3. /\ new \in Seq(Item) /\ Len(new) = Len(b) + Len(rest)
      /\ \A i \in 1 .. Len(b) : new[i] = b[i]
  <2>1. new \in Seq(Item)
    BY <1>2
  <2>0. rest \in Seq(Item) /\ b \in Seq(Item)
    BY <1>2
  <2>3. Len(new) = Len(b) + Len(rest)
    BY ONLY <2>0
  <2>2. \A i \in 1 .. Len(b) : new[i] = b[i]
    BY <1>1, <1>2
  <2> QED BY <2>1, <2>2, <2>3
<1>4. \A i \in 1 .. Len(rest) : new[Len(b) + i] = rest[i]
  BY <1>1, <1>2
<1> HIDE DEF new
<1>5. Len(c) = l + Len(todo)
  BY CallsFacts
<1>6. Len(c2) = l + Len(new)
  BY <1>3, CallsFacts
<1>7. u \in 1 .. Len(c) /\ 1 \in 1 .. Len(todo)
  BY <1>1, <1>5
<1>8. c[u] = Head(todo)
  <2>1. c[l + 1] = todo[1]
    BY <1>7, CallsFacts
  <2> QED BY <1>1, <2>1
<1>9. Len(c2) = Len(c) - 1 + Len(b)
  BY <1>1, <1>2, <1>3, <1>5, <1>6
<1>10. ASSUME NEW i \in 1 .. u - 1 PROVE c2[i] = c[i]
  <2>1. i \in 1 .. Len(evs)
    BY <1>1
  <2> QED BY <1>3, <2>1, CallsFacts
<1>11. ASSUME NEW m \in 1 .. Len(b) PROVE c2[u - 1 + m] = b[m]
  <2>1. u - 1 + m = l + m /\ m \in 1 .. Len(new)
    BY <1>1, <1>2, <1>3
  <2>2. c2[l + m] = new[m]
    BY <1>3, <2>1, CallsFacts
  <2> QED BY <1>3, <2>1, <2>2
<1>12. ASSUME NEW i \in u + 1 .. Len(c) PROVE c2[i - 1 + Len(b)] = c[i]
  <2> DEFINE j == i - l
             k == j - 1
             m == Len(b) + k
  <2>1. j \in 1 .. Len(todo) /\ i = l + j
    BY <1>1, <1>5
  <2>2. k \in 1 .. Len(rest) /\ j = k + 1
    BY <1>1, <1>2, <1>5
  <2>3. m \in 1 .. Len(new) /\ i - 1 + Len(b) = l + m
    BY <1>1, <1>2, <1>3, <1>5
  <2> HIDE DEF j, k, m
  <2>4. c[l + j] = todo[j]
    BY <2>1, CallsFacts
  <2>5. c2[l + m] = new[m]
    BY <1>3, <2>3, CallsFacts
  <2>6. new[m] = rest[k]
    BY <1>4, <2>2 DEF m
  <2>7. rest[k] = todo[j]
    BY <1>2, <2>2
  <2> QED BY <2>1, <2>3, <2>4, <2>5, <2>6, <2>7
<1> HIDE DEF c, c2, u
<1>13. Spliced(c, c2, u, b)
  BY <1>9, <1>10, <1>11, <1>12 DEF Spliced
<1> QED BY <1>3, <1>7, <1>8, <1>13 DEF c, c2, u, new, rest

LEMMA StepWalk == WalkInv /\ [Next]_vars => WalkInv'
<1> SUFFICES ASSUME WalkInv, [Next]_vars PROVE WalkInv'
  OBVIOUS
<1>1. /\ ast \in Nodes /\ agenda \in Seq(Item) /\ events \in Seq(Event)
      /\ Walked(ast, Course(events, agenda))
  BY DEF WalkInv
<1> DEFINE x == Head(agenda)
           c == Course(events, agenda)
           u == Len(events) + 1
<1>2. ASSUME NEW b, agenda # << >>, x \in Item, ~ IsRun(x),
             Handles(b, x.node, x.at, x.do = "pattern"),
             agenda' = b \o Tail(agenda), UNCHANGED <<ast, events>>
      PROVE  WalkInv'
  <2> DEFINE todo == b \o Tail(agenda)
             c2 == Course(events, todo)
  <2>1. b \in Seq(Item)
    BY <1>2 DEF Handles
  <2>2. todo \in Seq(Item) /\ u \in 1 .. Len(c) /\ c[u] = x /\ Spliced(c, c2, u, b)
    BY <1>1, <1>2, <2>1, VisitSplices
  <2>3. c \in Seq(Item)
    BY <1>1, CallsFacts
  <2>4. c2 \in Seq(Item)
    BY <1>1, <2>2, CallsFacts
  <2> HIDE DEF c, c2, u, x, todo
  <2>5. Handles(b, c[u].node, c[u].at, c[u].do = "pattern") /\ ~ IsRun(c[u])
    BY <1>2, <2>2
  <2>6. Walked(ast, c2)
    BY <1>1, <2>1, <2>2, <2>3, <2>4, <2>5, VisitKeepsWalked DEF c
  <2>7. agenda' = todo /\ events' = events /\ ast' = ast
    BY <1>2 DEF todo
  <2> QED BY <1>1, <2>2, <2>6, <2>7 DEF WalkInv, c2
<1>3. ASSUME agenda # << >> PROVE x \in Item
  BY <1>1, <1>3
<1>4. CASE Visit
  <2>1. agenda # << >> /\ UNCHANGED <<ast, events>>
    BY <1>4 DEF Visit
  <2>2. CASE x.do = "child" /\ agenda' = ChildVisitor(x.node, x.at) \o Tail(agenda)
    <3>1. ~ IsRun(x) /\ x.node \in Nodes /\ x.at \in Path /\ (x.do = "pattern") = FALSE
      BY <1>3, <2>1, <2>2 DEF IsRun, Item
    <3>2. Handles(ChildVisitor(x.node, x.at), x.node, x.at, FALSE)
      BY <3>1, ChildVisitorHandles
    <3> HIDE DEF x
    <3>3. Handles(ChildVisitor(x.node, x.at), x.node, x.at, x.do = "pattern")
      BY <3>1, <3>2
    <3> QED BY <1>2, <1>3, <2>1, <2>2, <3>1, <3>3
  <2>3. CASE x.do = "pattern" /\ agenda' = PatternVisitor(x.node, x.at) \o Tail(agenda)
    <3>1. ~ IsRun(x) /\ x.node \in Nodes /\ x.at \in Path /\ (x.do = "pattern") = TRUE
      BY <1>3, <2>1, <2>3 DEF IsRun, Item
    <3>2. Handles(PatternVisitor(x.node, x.at), x.node, x.at, TRUE)
      BY <3>1, PatternVisitorHandles
    <3> HIDE DEF x
    <3>3. Handles(PatternVisitor(x.node, x.at), x.node, x.at, x.do = "pattern")
      BY <3>1, <3>2
    <3> QED BY <1>2, <1>3, <2>1, <2>3, <3>1, <3>3
  <2> QED BY <1>4, <2>2, <2>3 DEF Visit
<1>5. CASE RunListeners
  <2> DEFINE evs == Append(events, [kind |-> x.kind, at |-> x.at])
             todo == Tail(agenda)
  <2>1. agenda # << >> /\ IsRun(x) /\ events' = evs /\ agenda' = todo /\ ast' = ast
    BY <1>5 DEF RunListeners, IsRun
  <2>2. evs \in Seq(Event) /\ todo \in Seq(Item) /\ Course(evs, todo) = c
    BY <1>1, <2>1, RunKeepsCalls
  <2> HIDE DEF evs, todo, c
  <2> QED BY <1>1, <2>1, <2>2 DEF WalkInv, c
<1>6. CASE UNCHANGED vars
  BY <1>1, <1>6 DEF WalkInv, vars
<1> QED BY <1>4, <1>5, <1>6 DEF Next

\* Whatever the tree, the calls made and the visits to come are at every moment those of
\* one walk of it.
THEOREM WalkIsSound == Spec => []WalkInv
BY InitWalk, StepWalk, PTL DEF Spec

-----------------------------------------------------------------------------
(* What the rules are promised. *)

\* The calls made, among those made and to come.
LEMMA CallsMade ==
  ASSUME WalkInv
  PROVE  LET c == Course(events, agenda) IN
         /\ c \in Seq(Item) /\ Walked(ast, c)
         /\ DOMAIN events = 1 .. Len(events)
         /\ \A i \in DOMAIN events :
              /\ events[i] \in Event /\ i \in 1 .. Len(c) /\ c[i] = Call(events[i])
              /\ c[i] \in Range(c) /\ IsRun(c[i])
              /\ c[i].kind = events[i].kind /\ c[i].at = events[i].at
         /\ Done => Len(c) = Len(events)
<1> DEFINE c == Course(events, agenda)
<1>1. /\ agenda \in Seq(Item) /\ events \in Seq(Event) /\ Walked(ast, c)
  BY DEF WalkInv
<1>2. c \in Seq(Item) /\ Len(c) = Len(events) + Len(agenda)
  BY <1>1, CallsFacts
<1>3. DOMAIN events = 1 .. Len(events) /\ Len(events) \in Nat /\ Len(agenda) \in Nat
  BY <1>1
<1>4. \A i \in 1 .. Len(events) : c[i] = Call(events[i])
  BY <1>1, CallsFacts
<1> HIDE DEF c
<1>5. ASSUME NEW i \in DOMAIN events
      PROVE  /\ events[i] \in Event /\ i \in 1 .. Len(c) /\ c[i] = Call(events[i])
             /\ c[i] \in Range(c) /\ IsRun(c[i])
             /\ c[i].kind = events[i].kind /\ c[i].at = events[i].at
  <2>1. events[i] \in Event /\ i \in 1 .. Len(c) /\ c[i] = Call(events[i])
    BY <1>1, <1>2, <1>3, <1>4
  <2>2. c[i] \in Range(c)
    BY <1>2, <2>1, SeqRange
  <2> QED BY <2>1, <2>2 DEF Call, Run, IsRun
<1>6. Done => Len(c) = Len(events)
  <2>1. Len(<< >>) = 0
    OBVIOUS
  <2> QED BY <1>2, <1>3, <2>1 DEF Done
<1> QED BY <1>1, <1>2, <1>3, <1>5, <1>6 DEF c

\* When all is done, what was called is what there is.
LEMMA CalledIs ==
  ASSUME WalkInv, Done, NEW kind, NEW at
  PROVE  Called(kind, at) <=> Run(kind, at) \in Range(Course(events, agenda))
<1> DEFINE c == Course(events, agenda)
<1>1. /\ c \in Seq(Item) /\ DOMAIN events = 1 .. Len(events) /\ Len(c) = Len(events)
      /\ \A i \in DOMAIN events : events[i] \in Event /\ c[i] = Call(events[i])
  BY CallsMade
<1> HIDE DEF c
<1>2. Range(c) = {c[i] : i \in DOMAIN events}
  BY <1>1, SeqRange
<1>3. Range(events) = {events[i] : i \in DOMAIN events}
  BY DEF Range
<1>4. ASSUME NEW e \in Event
      PROVE  Call(e) = Run(kind, at) <=> e = [kind |-> kind, at |-> at]
  BY DEF Call, Run, Event
<1> QED BY <1>1, <1>2, <1>3, <1>4 DEF Called, c

\* A rule that pushes a scope in a listener and pops it in the exit listener sees all of
\* the node in between, and nothing else.
THEOREM CallsAreNested == Spec => []CallsNest
<1>1. ASSUME WalkInv PROVE CallsNest
  <2> DEFINE c == Course(events, agenda)
  <2>1. /\ c \in Seq(Item) /\ Walked(ast, c) /\ DOMAIN events = 1 .. Len(events)
        /\ Done => Len(c) = Len(events)
    BY <1>1, CallsMade
  <2>2. \A i \in DOMAIN events :
          /\ events[i] \in Event /\ i \in 1 .. Len(c) /\ c[i] = Call(events[i]) /\ IsRun(c[i])
          /\ c[i].kind = events[i].kind /\ c[i].at = events[i].at
    BY <1>1, CallsMade
  <2> HIDE DEF c
  <2>3. SUFFICES ASSUME Done, NEW i \in DOMAIN events, Band(events[i].kind) \in EnterBands
        PROVE  \E k \in DOMAIN events :
                 /\ i < k
                 /\ events[k] = [events[i] EXCEPT !.kind = ListenerOnExit(@)]
                 /\ \A j \in DOMAIN events :
                      /\ IsStrictPrefix(events[i].at, events[j].at) => i < j /\ j < k
                      /\ i < j /\ j < k => IsPrefix(events[i].at, events[j].at)
    BY DEF CallsNest
  <2>4. Opens(c[i])
    BY <2>2, <2>3 DEF Opens
  <2>5. PICK k \in DOMAIN events : Encloses(c, i, k)
    BY <2>1, <2>2, <2>3, <2>4 DEF Walked, Tidy
  <2>6. events[k] = [events[i] EXCEPT !.kind = ListenerOnExit(@)]
    <3>1. c[k] = ClosedBy(c[i])
      BY <2>5 DEF Encloses
    <3>2. Call(events[k]) = Run(ListenerOnExit(events[i].kind), events[i].at)
      BY <2>2, <3>1 DEF ClosedBy
    <3>3. events[k].kind = ListenerOnExit(events[i].kind) /\ events[k].at = events[i].at
      BY <3>2 DEF Call, Run
    <3>4. events[k] \in Event /\ events[i] \in Event
      BY <2>2
    <3> QED BY <3>3, <3>4 DEF Event
  <2>7. ASSUME NEW j \in DOMAIN events
        PROVE  /\ IsStrictPrefix(events[i].at, events[j].at) => i < j /\ j < k
               /\ i < j /\ j < k => IsPrefix(events[i].at, events[j].at)
    <3>1. events[i].at \in Path /\ events[j].at \in Path
      BY <2>2 DEF Event
    <3>2. /\ Leads(c[i].at, c[j].at) /\ c[i].at # c[j].at => i < j /\ j < k
          /\ i < j /\ j < k => Leads(c[i].at, c[j].at)
      BY <2>2, <2>5 DEF Encloses
    <3> QED BY <2>2, <3>1, <3>2, PrefixLeads
  <2>8. i < k
    BY <2>5 DEF Encloses
  <2> QED BY <2>6, <2>7, <2>8
<1>2. WalkInv => CallsNest
  BY <1>1
<1> QED BY <1>2, WalkIsSound, PTL

\* Every node but the names in target properties is visited, and no listener is called twice
\* for a node.
THEOREM NodesAreVisitedOnce == Spec => []EveryNodeOnce
<1>1. ASSUME WalkInv PROVE EveryNodeOnce
  <2> DEFINE c == Course(events, agenda)
             allow == ListenerOnAllowPattern(PropertyAssignment)
  <2>1. /\ c \in Seq(Item) /\ Walked(ast, c) /\ DOMAIN events = 1 .. Len(events)
        /\ Done => Len(c) = Len(events)
    BY <1>1, CallsMade
  <2>2. \A i \in DOMAIN events : i \in 1 .. Len(c) /\ c[i] = Call(events[i]) /\ IsRun(c[i])
    BY <1>1, CallsMade
  <2>3. ASSUME NEW i \in DOMAIN events, NEW j \in DOMAIN events, events[i] = events[j]
        PROVE  i = j
    <3>1. c[i] = c[j]
      BY <2>2, <2>3
    <3> HIDE DEF c
    <3> QED BY <2>1, <2>2, <3>1 DEF Walked, Tidy
  <2>4. ASSUME Done, NEW p \in Paths
        PROVE  \/ Called(KindAt(p), p)
               \/ \E n \in 1 .. Len(p) : p[n] = 1 /\ Called(allow, SubSeq(p, 1, n - 1))
    <3>1. ast \in Nodes
      BY <1>1 DEF WalkInv
    <3>2. p \in Below(ast) /\ p \in Path
      BY <3>1, PathsOn DEF Below
    <3>3. PICK node : NodeOn(ast, p, node)
      BY <3>2 DEF Below
    <3>4. node \in Nodes /\ KindAt(p) = node.kind
      BY <3>2, <3>3, NodeAtOn, NodeOnIsNode DEF KindAt
    <3>5. Reached(Range(c), p, node)
      BY <2>1, <3>2, <3>3, <3>4 DEF Walked
    <3>6. ~ \E x \in Range(c) : ~ IsRun(x)
      <4>1. Len(c) = Len(events)
        BY <2>1, <2>4
      <4>2. \A i \in 1 .. Len(c) : IsRun(c[i])
        BY <2>1, <2>2, <4>1
      <4> HIDE DEF c
      <4> QED BY <2>1, <4>2, SeqRange
    <3>7. \A kind, at : Called(kind, at) <=> Run(kind, at) \in Range(c)
      BY <1>1, <2>4, CalledIs
    <3> HIDE DEF c, allow
    <3> QED BY <3>4, <3>5, <3>6, <3>7 DEF Reached, Skipped, allow
  <2> QED BY <2>3, <2>4 DEF EveryNodeOnce, IsInjective
<1>2. WalkInv => EveryNodeOnce
  BY <1>1
<1> QED BY <1>2, WalkIsSound, PTL

\* A listener called for a target is called at one, and each literal is announced either
\* as a target or as none.
THEOREM TargetsAreRight == Spec => []TargetsAreTargets
<1>1. ASSUME WalkInv PROVE TargetsAreTargets
  <2> DEFINE c == Course(events, agenda)
  <2>1. Walked(ast, c)
    BY <1>1, CallsMade
  <2>2. SUFFICES ASSUME NEW i \in DOMAIN events
        PROVE  /\ Band(events[i].kind) \in {2, 3} => InPattern(events[i].at)
               /\ Done /\ events[i].kind \in Literals =>
                    Called(ListenerOnAllowPattern(events[i].kind), events[i].at)
                      # Called(ListenerOnNotAllowPattern(events[i].kind), events[i].at)
    BY DEF TargetsAreTargets
  <2> DEFINE e == events[i]
             x == c[i]
             allow == ListenerOnAllowPattern(e.kind)
             not == ListenerOnNotAllowPattern(e.kind)
  <2>3. e \in Event /\ x \in Range(c) /\ IsRun(x) /\ x.kind = e.kind /\ x.at = e.at
    BY <1>1, CallsMade
  <2>4. e.at \in Path
    BY <2>3 DEF Event
  <2> HIDE DEF c, e, x
  <2>5. Band(e.kind) \in {2, 3} => InPattern(e.at)
    <3>1. ItemFits(ast, x)
      BY <2>1, <2>3 DEF Walked
    <3>2. Band(e.kind) \in {2, 3} => TargetOn(ast, e.at)
      BY <2>3, <3>1 DEF ItemFits
    <3> QED BY <2>4, <3>2, InPatternOn
  <2>6. ASSUME Done, e.kind \in Literals PROVE Called(allow, e.at) # Called(not, e.at)
    <3>1. Announced(Range(c), x)
      BY <2>1, <2>3, <2>6 DEF Walked
    <3>2. ~ (Run(allow, e.at) \in Range(c) <=> Run(not, e.at) \in Range(c))
      BY <2>3, <3>1 DEF Announced
    <3>3. Called(allow, e.at) <=> Run(allow, e.at) \in Range(c)
      BY <1>1, <2>6, CalledIs DEF c
    <3>4. Called(not, e.at) <=> Run(not, e.at) \in Range(c)
      BY <1>1, <2>6, CalledIs DEF c
    <3>5. ~ (Called(allow, e.at) <=> Called(not, e.at))
      BY <3>2, <3>3, <3>4
    <3> QED BY <3>5
  <2> QED BY <2>5, <2>6 DEF e
<1>2. WalkInv => TargetsAreTargets
  BY <1>1
<1> QED BY <1>2, WalkIsSound, PTL
=============================================================================
