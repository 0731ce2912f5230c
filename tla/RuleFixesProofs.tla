-------------------------- MODULE RuleFixesProofs --------------------------
(***************************************************************************)
(* What ApplyRuleFixes returns, for any text and any diagnostics whose own *)
(* fixes do not overlap: it does not panic, the output is the text with    *)
(* the fixes of the applied diagnostics made, and the others are returned, *)
(* each put off for an applied one.                                        *)
(***************************************************************************)
EXTENDS RuleFixes, FiniteSetTheorems, TLAPS

-----------------------------------------------------------------------------
(* Sorting. *)

\* A finite set's elements, once each, in some order.
LEMMA Enumerated ==
  ASSUME NEW S, IsFiniteSet(S), NEW s \in SetToSeqs(S)
  PROVE  s \in Seq(S) /\ DOMAIN s = 1 .. Len(s) /\ Len(s) \in Nat
         /\ IsInjective(s) /\ Range(s) = S
<1> DEFINE n == Cardinality(S)
           I == 1 .. n
<1>1. n \in Nat
  BY FS_CardinalityType
<1>2. s \in [I -> S] /\ IsInjective(s)
  BY DEF SetToSeqs, IsInjective
<1>3. IsFiniteSet(I) /\ Cardinality(I) = n
  <2>1. Cardinality(1 .. n) = IF 1 > n THEN 0 ELSE n - 1 + 1
    BY ONLY <1>1, 1 \in Int, n \in Int, FS_Interval
  <2>2. IsFiniteSet(1 .. n)
    BY ONLY <1>1, 1 \in Int, n \in Int, FS_Interval
  <2> HIDE DEF n
  <2> QED BY <1>1, <2>1, <2>2
<1>4. s \in Surjection(I, S)
  <2>1. s \in Injection(I, S)
    BY <1>2 DEF Injection
  <2> HIDE DEF I
  <2> QED BY <1>3, <2>1, FS_Injection
<1>5. \A x \in S : \E i \in I : s[i] = x
  BY <1>4 DEF Surjection
<1>6. Range(s) = S
  BY <1>2, <1>5 DEF Range
<1> HIDE DEF n
<1>7. s \in Seq(S) /\ Len(s) = n
  BY <1>1, <1>2
<1> QED BY <1>1, <1>2, <1>6, <1>7

\* The end of one range is not behind the start of a later one.
Chained(s) == \A i, j \in 1 .. Len(s) : i < j => s[i].end <= s[j].pos

\* Ranges that do not overlap are made so by the order of ApplyRuleFixes, be they empty.
LEMMA SortedFixesAreChained ==
  ASSUME InputsAssumption, ProperInput(fixes), NEW d \in Diagnostics, NEW s \in SortedFixes(d)
  PROVE  /\ s \in Seq(Fix) /\ Range(s) = fixes[d] /\ IsInjective(s)
         /\ DOMAIN s = 1 .. Len(s) /\ Len(s) \in Nat /\ Chained(s)
<1>1. IsFiniteSet(fixes[d]) /\ fixes[d] \subseteq Fix
  BY DEF ProperInput, Diagnostics
<1>2. s \in SetToSeqs(fixes[d])
  BY DEF SortedFixes
<1>3. s \in Seq(fixes[d]) /\ DOMAIN s = 1 .. Len(s) /\ Len(s) \in Nat
      /\ IsInjective(s) /\ Range(s) = fixes[d]
  BY <1>1, <1>2, Enumerated
<1>4. ASSUME NEW i \in 1 .. Len(s), NEW j \in 1 .. Len(s), i < j
      PROVE  s[i].end <= s[j].pos
  <2>1. s[i] \in fixes[d] /\ s[j] \in fixes[d] /\ s[i] # s[j]
    BY <1>3, <1>4 DEF Range, IsInjective
  <2>2. ~ FixLess(s[j], s[i])
    BY <1>3, <1>4 DEF SortedFixes
  <2>3. PICK f \in fixes[d] : f = s[i]
    BY <2>1
  <2>4. PICK g \in fixes[d] : g = s[j]
    BY <2>1
  <2>5. f.pos <= f.end /\ g.pos <= g.end /\ Disjoint(f, g)
    BY <2>1, <2>3, <2>4 DEF ProperInput, Diagnostics
  <2>6. f.pos \in Int /\ f.end \in Int /\ g.pos \in Int /\ g.end \in Int
    BY <1>1, InputsAssumption DEF Fix, InputsAssumption
  <2>7. ~ FixLess(g, f)
    BY <2>2, <2>3, <2>4
  <2>8. f.end <= g.pos
    BY <2>5, <2>6, <2>7 DEF Disjoint, FixLess
  <2> QED BY <2>3, <2>4, <2>8
<1>5. s \in Seq(Fix)
  BY <1>1, <1>3
<1> QED BY <1>3, <1>4, <1>5 DEF Chained

-----------------------------------------------------------------------------
(* The output. *)

\* b is the text up to position n with the fixes of D made: the conjuncts of
\* OutputIsFixedCode, for a part of the text.
Kept(D, n) == { i \in 1 .. n : \A f \in D : ~ (f.pos < i /\ i <= f.end) }
Contents(b, D, n) == Range(b) = Kept(D, n) \cup { f.text : f \in D }
InTextOrder(b) ==
  \A j, k \in 1 .. Len(b) : b[j] \notin Texts /\ b[k] \notin Texts /\ j < k => b[j] < b[k]
TextsInPlace(b, D) ==
  \A j, k \in 1 .. Len(b) : \A f \in D : b[j] \notin Texts /\ b[k] = f.text =>
    /\ j < k => b[j] <= f.pos
    /\ k < j => b[j] > f.end

Written(b, D, n) ==
  IsInjective(b) /\ Contents(b, D, n) /\ InTextOrder(b) /\ TextsInPlace(b, D)

\* All of D is made before position n.
UpTo(D, n) == D \subseteq Fix /\ \A f \in D : f.pos <= f.end /\ f.end <= n

\* c is b with the characters from n to m behind it.
Extends(c, b, n, m) ==
  /\ Len(c) = Len(b) + (m - n)
  /\ \A i \in 1 .. Len(b) : c[i] = b[i]
  /\ \A i \in 1 .. Len(c) : i > Len(b) => c[i] = n + (i - Len(b))

LEMMA SliceExtends ==
  ASSUME NEW b \in Seq(Int), NEW n \in Nat, NEW m \in Nat, n <= m
  PROVE  b \o Slice(n, m) \in Seq(Int) /\ Extends(b \o Slice(n, m), b, n, m)
<1> DEFINE s == Slice(n, m)
           c == b \o s
<1>1. s \in Seq(Int) /\ Len(s) = m - n /\ \A i \in 1 .. m - n : s[i] = n + i
  BY DEF Slice
<1> HIDE DEF s
<1>2. c \in Seq(Int) /\ Len(c) = Len(b) + (m - n)
  <2>1. s \in Seq(Int) /\ b \in Seq(Int)
    BY <1>1
  <2>2. b \o s \in Seq(Int)
    BY ONLY <2>1
  <2>3. Len(b \o s) = Len(b) + Len(s)
    BY ONLY <2>1
  <2> QED BY <1>1, <2>2, <2>3
<1>3. \A i \in 1 .. Len(b) : c[i] = b[i]
  BY <1>1
<1>4. ASSUME NEW i \in 1 .. Len(c), i > Len(b) PROVE c[i] = n + (i - Len(b))
  <2>1. c[i] = s[i - Len(b)]
    BY <1>1, <1>2, <1>4
  <2>2. i - Len(b) \in 1 .. m - n
    BY <1>2, <1>4
  <2> QED BY <1>1, <2>1, <2>2
<1> HIDE DEF c
<1>5. Extends(c, b, n, m)
  BY <1>2, <1>3, <1>4 DEF Extends
<1> QED BY <1>2, <1>5 DEF c, s

\* What a place of a written output holds.
LEMMA WrittenAt ==
  ASSUME InputsAssumption, NEW b \in Seq(Int), NEW n \in Nat, NEW D, UpTo(D, n), Written(b, D, n),
         NEW j \in 1 .. Len(b)
  PROVE  \/ b[j] \in Kept(D, n) /\ b[j] \in 1 .. n /\ b[j] \notin Texts
         \/ \E f \in D : b[j] = f.text /\ b[j] \in Texts
<1>1. b[j] \in Kept(D, n) \cup { f.text : f \in D }
  BY DEF Written, Contents, Range
<1>2. ASSUME b[j] \in Kept(D, n) PROVE b[j] \in 1 .. n /\ b[j] \notin Texts
  BY <1>2 DEF Kept, InputsAssumption
<1>3. ASSUME NEW f \in D, b[j] = f.text PROVE b[j] \in Texts
  BY <1>3 DEF UpTo, Fix
<1> QED BY <1>1, <1>2, <1>3

\* The text between two fixes.
LEMMA SliceIsWritten ==
  ASSUME InputsAssumption, NEW b \in Seq(Int), NEW c \in Seq(Int), NEW n \in Nat, NEW m \in Nat,
         n <= m, NEW D, UpTo(D, n), Written(b, D, n), Extends(c, b, n, m)
  PROVE  Written(c, D, m)
<1> DEFINE L == Len(b)
           N == Len(c)
<1>1. L = Len(b) /\ N = Len(c) /\ L \in Nat /\ N = L + (m - n) /\ DOMAIN c = 1 .. N
      /\ DOMAIN b = 1 .. L /\ N \in Nat /\ n \in Int /\ m \in Int
  BY DEF Extends
<1> HIDE DEF L, N
<1>2. ASSUME NEW j \in 1 .. N, j <= L
      PROVE  j \in 1 .. L /\ c[j] = b[j]
  BY <1>1, <1>2 DEF Extends
<1>3. ASSUME NEW j \in 1 .. N, j <= L
      PROVE  (c[j] \in 1 .. n /\ c[j] \notin Texts) \/ c[j] \in Texts
  <2>1. j \in 1 .. Len(b)
    BY <1>1, <1>3
  <2> QED BY <1>2, <1>3, <2>1, WrittenAt
<1>4. ASSUME NEW j \in 1 .. N, j > L
      PROVE  c[j] = n + (j - L) /\ c[j] \in n + 1 .. m /\ c[j] \notin Texts
  <2>1. c[j] = n + (j - L)
    BY <1>1, <1>4 DEF Extends
  <2>2. c[j] \in n + 1 .. m
    BY <1>1, <1>4, <2>1
  <2> QED BY <2>1, <2>2 DEF InputsAssumption
<1>5. IsInjective(c)
  <2> SUFFICES ASSUME NEW j \in 1 .. N, NEW k \in 1 .. N, c[j] = c[k] PROVE j = k
    BY <1>1 DEF IsInjective
  <2>1. CASE j <= L /\ k <= L
    BY <1>1, <1>2, <2>1 DEF Written, IsInjective
  <2>2. CASE j > L /\ k > L
    BY <1>1, <1>4, <2>2
  <2>3. CASE j <= L /\ k > L
    BY <1>1, <1>3, <1>4, <2>3
  <2>4. CASE j > L /\ k <= L
    BY <1>1, <1>3, <1>4, <2>4
  <2>5. (j <= L \/ j > L) /\ (k <= L \/ k > L)
    BY <1>1
  <2> QED BY <2>1, <2>2, <2>3, <2>4, <2>5
<1>6. Contents(c, D, m)
  <2>1. ASSUME NEW x, x \in Range(c) PROVE x \in Kept(D, m) \cup { f.text : f \in D }
    <3>1. PICK j \in 1 .. N : x = c[j]
      BY <1>1, <2>1 DEF Range
    <3>2. CASE j <= L
      <4>1. x \in Kept(D, n) \cup { f.text : f \in D }
        BY <1>1, <1>2, <3>1, <3>2 DEF Written, Contents, Range
      <4> QED BY <4>1 DEF Kept
    <3>3. CASE j > L
      <4>1. x \in n + 1 .. m
        BY <1>4, <3>1, <3>3
      <4>2. ASSUME NEW f \in D PROVE f.end < x
        BY <4>1, InputsAssumption DEF UpTo, Fix, InputsAssumption
      <4>3. ASSUME NEW f \in D PROVE f.end \in Int
        BY InputsAssumption DEF UpTo, Fix, InputsAssumption
      <4> QED BY <4>1, <4>2, <4>3 DEF Kept
    <3> QED BY <1>1, <3>2, <3>3
  <2>2. ASSUME NEW x, x \in Kept(D, m) \cup { f.text : f \in D } PROVE x \in Range(c)
    <3>1. CASE x \in Kept(D, n) \cup { f.text : f \in D }
      <4>1. PICK j \in 1 .. L : x = b[j]
        BY <1>1, <3>1 DEF Written, Contents, Range
      <4>2. j \in 1 .. N /\ j <= L
        BY <1>1
      <4> QED BY <1>1, <1>2, <4>1, <4>2 DEF Range
    <3>2. CASE x \in Kept(D, m) /\ x \notin Kept(D, n)
      <4>1. x \in n + 1 .. m
        BY <3>2 DEF Kept
      <4>2. L + (x - n) \in 1 .. N /\ L + (x - n) > L
        BY <1>1, <4>1
      <4>3. c[L + (x - n)] = n + ((L + (x - n)) - L)
        BY <1>4, <4>2
      <4>4. c[L + (x - n)] = x
        BY <1>1, <4>1, <4>3
      <4> QED BY <1>1, <4>2, <4>4 DEF Range
    <3> QED BY <2>2, <3>1, <3>2
  <2> QED BY <2>1, <2>2 DEF Contents
<1>7. InTextOrder(c)
  <2> SUFFICES ASSUME NEW j \in 1 .. N, NEW k \in 1 .. N,
                      c[j] \notin Texts, c[k] \notin Texts, j < k
               PROVE  c[j] < c[k]
    BY <1>1 DEF InTextOrder
  <2>1. CASE k <= L
    <3>1. j <= L
      BY <1>1, <2>1
    <3>2. j \in 1 .. L /\ k \in 1 .. L /\ c[j] = b[j] /\ c[k] = b[k]
      BY <1>2, <2>1, <3>1
    <3> QED BY <1>1, <3>2 DEF Written, InTextOrder
  <2>2. CASE j <= L /\ k > L
    BY <1>1, <1>3, <1>4, <2>2
  <2>3. CASE j > L /\ k > L
    BY <1>1, <1>4, <2>3
  <2>4. (j <= L \/ j > L) /\ (k <= L \/ k > L)
    BY <1>1
  <2> QED BY <2>1, <2>2, <2>3, <2>4
<1>8. TextsInPlace(c, D)
  <2> SUFFICES ASSUME NEW j \in 1 .. N, NEW k \in 1 .. N, NEW f \in D,
                      c[j] \notin Texts, c[k] = f.text
               PROVE  (j < k => c[j] <= f.pos) /\ (k < j => c[j] > f.end)
    BY <1>1 DEF TextsInPlace
  <2>1. k <= L
    <3>1. f.text \in Texts
      BY DEF UpTo, Fix
    <3>2. k > L \/ k <= L
      BY <1>1
    <3> QED BY <1>4, <3>1, <3>2
  <2>2. CASE j <= L
    <3>1. j \in 1 .. L /\ k \in 1 .. L /\ c[j] = b[j] /\ c[k] = b[k]
      BY <1>1, <1>2, <2>1, <2>2
    <3> QED BY <1>1, <3>1 DEF Written, TextsInPlace
  <2>3. CASE j > L
    <3>1. c[j] > f.end
      <4>1. c[j] \in n + 1 .. m /\ f.end <= n /\ f.end \in Int
        BY <1>4, <2>3, InputsAssumption DEF UpTo, Fix, InputsAssumption
      <4> QED BY <4>1
    <3> QED BY <1>1, <2>1, <2>3, <3>1
  <2> QED BY <1>1, <2>2, <2>3
<1> QED BY <1>5, <1>6, <1>7, <1>8 DEF Written

\* A fix that starts at the end of the output so far.
LEMMA TextIsWritten ==
  ASSUME InputsAssumption, NEW b \in Seq(Int), NEW D, NEW fix \in Fix, fix.pos <= fix.end,
         UpTo(D, fix.pos), Written(b, D, fix.pos), \A f \in D : f.text # fix.text
  PROVE  Written(Append(b, fix.text), D \cup {fix}, fix.end)
<1> DEFINE L == Len(b)
           c == Append(b, fix.text)
           E == D \cup {fix}
           n == fix.pos
<1>1. /\ L = Len(b) /\ L \in Nat /\ Len(c) = L + 1 /\ DOMAIN c = 1 .. L + 1 /\ DOMAIN b = 1 .. L
      /\ c[L + 1] = fix.text /\ \A j \in 1 .. L : c[j] = b[j]
  BY DEF Fix
<1>2. fix.text \in Texts /\ n \in Nat /\ fix.end \in Int
  BY DEF Fix, InputsAssumption
<1>3. \A j \in 1 .. L + 1 : j = L + 1 \/ j \in 1 .. L
  BY <1>1
<1> HIDE DEF L, c
<1>4. ASSUME NEW j \in 1 .. L
      PROVE  \/ b[j] \in Kept(D, n) /\ b[j] \in 1 .. n /\ b[j] \notin Texts
             \/ b[j] # fix.text /\ b[j] \in Texts
  <2> HIDE DEF n
  <2>1. j \in 1 .. Len(b) /\ UpTo(D, n) /\ Written(b, D, n)
    BY <1>1 DEF n
  <2> QED BY <1>2, <2>1, WrittenAt
<1>5. IsInjective(c)
  <2> SUFFICES ASSUME NEW j \in 1 .. L + 1, NEW k \in 1 .. L + 1, c[j] = c[k] PROVE j = k
    BY <1>1 DEF IsInjective
  <2>1. CASE j \in 1 .. L /\ k \in 1 .. L
    BY <1>1, <2>1 DEF Written, IsInjective
  <2>2. CASE j = L + 1 /\ k \in 1 .. L
    BY <1>1, <1>2, <1>4, <2>2
  <2>3. CASE k = L + 1 /\ j \in 1 .. L
    BY <1>1, <1>2, <1>4, <2>3
  <2> QED BY <1>3, <2>1, <2>2, <2>3
<1>6. Contents(c, E, fix.end)
  <2>1. Range(c) = Range(b) \cup {fix.text}
    <3>1. ASSUME NEW x \in Range(c) PROVE x \in Range(b) \cup {fix.text}
      BY <1>1, <1>3, <3>1 DEF Range
    <3>2. ASSUME NEW x \in Range(b) PROVE x \in Range(c)
      <4>1. PICK j \in 1 .. L : x = b[j]
        BY <1>1, <3>2 DEF Range
      <4>2. j \in 1 .. L + 1
        BY <1>1
      <4> QED BY <1>1, <4>1, <4>2 DEF Range
    <3>3. fix.text \in Range(c)
      <4>1. L + 1 \in 1 .. L + 1
        BY <1>1
      <4> QED BY <1>1, <4>1 DEF Range
    <3> QED BY <3>1, <3>2, <3>3
  <2>2. Kept(E, fix.end) = Kept(D, n)
    <3>1. ASSUME NEW i \in Kept(E, fix.end) PROVE i \in Kept(D, n)
      BY <1>2, <3>1 DEF Kept
    <3>2. ASSUME NEW i \in Kept(D, n) PROVE i \in Kept(E, fix.end)
      BY <1>2, <3>2 DEF Kept
    <3> QED BY <3>1, <3>2
  <2>3. { f.text : f \in E } = { f.text : f \in D } \cup {fix.text}
    OBVIOUS
  <2>4. Range(b) = Kept(D, n) \cup { f.text : f \in D }
    BY DEF Written, Contents
  <2> QED BY <2>1, <2>2, <2>3, <2>4 DEF Contents
<1>7. InTextOrder(c)
  <2> SUFFICES ASSUME NEW j \in 1 .. L + 1, NEW k \in 1 .. L + 1,
                      c[j] \notin Texts, c[k] \notin Texts, j < k
               PROVE  c[j] < c[k]
    BY <1>1 DEF InTextOrder
  <2>1. j \in 1 .. L /\ k \in 1 .. L
    BY <1>1, <1>2, <1>3
  <2> QED BY <1>1, <2>1 DEF Written, InTextOrder
<1>8. TextsInPlace(c, E)
  <2> SUFFICES ASSUME NEW j \in 1 .. L + 1, NEW k \in 1 .. L + 1, NEW f \in E,
                      c[j] \notin Texts, c[k] = f.text
               PROVE  (j < k => c[j] <= f.pos) /\ (k < j => c[j] > f.end)
    BY <1>1 DEF TextsInPlace
  <2>1. j \in 1 .. L
    BY <1>1, <1>2, <1>3
  <2>2. CASE k \in 1 .. L
    <3>1. (c[k] = b[k] /\ b[k] # fix.text) \/ b[k] \notin Texts
      BY <1>1, <1>2, <1>4, <2>2
    <3>2. f.text \in Texts
      BY <1>2 DEF UpTo, Fix
    <3>3. c[k] = b[k] /\ c[j] = b[j]
      BY <1>1, <2>1, <2>2
    <3>4. f \in D
      BY <3>1, <3>2, <3>3
    <3> QED BY <1>1, <2>1, <2>2, <3>3, <3>4 DEF Written, TextsInPlace
  <2>3. CASE k = L + 1
    <3>1. f.text = fix.text
      BY <1>1, <2>3
    <3>2. f = fix
      BY <3>1
    <3>3. c[j] \in 1 .. n
      BY <1>1, <1>4, <2>1
    <3> QED BY <1>1, <1>2, <2>1, <2>3, <3>2, <3>3
  <2> QED BY <1>3, <2>2, <2>3
<1> QED BY <1>5, <1>6, <1>7, <1>8 DEF Written, c, E

-----------------------------------------------------------------------------
(* The invariant. *)

InputInv == ProperInput(fixes) /\ TextsToldApart(fixes)

\* A diagnostic in withFixes: its fixes, sorted.
Entry == [id : Diagnostics, fixes : Seq(Fix)]
EntryOK(m) ==
  /\ m.fixes # << >> /\ Range(m.fixes) = fixes[m.id]
  /\ IsInjective(m.fixes) /\ Chained(m.fixes)
Start(m) == Head(m.fixes).pos

TypeInv ==
  /\ pc \in {"partition", "diagnostics", "fixes", "returned"}
  /\ withFixes \in Seq(Entry) /\ todo \in Seq(Fix) /\ unapplied \in Seq(Diagnostics)
  /\ builder \in Seq(Int) /\ lastFixEnd \in 0 .. CodeLen /\ fixed \in BOOLEAN
  /\ applied \in SUBSET Diagnostics
  /\ pc = "partition" => applied = {}
  /\ pc # "fixes" => todo = << >>
  /\ pc = "returned" => withFixes = << >>

\* The diagnostics to come begin in order, ...
Ordered(q) ==
  /\ \A i \in 1 .. Len(q) : EntryOK(q[i])
  /\ \A i, j \in 1 .. Len(q) : i < j => q[i].id # q[j].id /\ Start(q[i]) <= Start(q[j])

\* ... and not before those that are applied.
FirstFix(d) == CHOOSE p \in { f.pos : f \in fixes[d] } : \A f \in fixes[d] : p <= f.pos
QueueInv ==
  /\ Ordered(withFixes)
  /\ \A a \in applied : \A i \in 1 .. Len(withFixes) : FirstFix(a) <= Start(withFixes[i])

\* Each diagnostic is to come, or applied, or returned.
Ids(q) == { q[i].id : i \in 1 .. Len(q) }
ShareInv ==
  /\ IsInjective(unapplied)
  /\ pc # "partition" => Ids(withFixes) \cup applied \cup Range(unapplied) = Diagnostics
  /\ Ids(withFixes) \cap applied = {}
  /\ Ids(withFixes) \cap Range(unapplied) = {}
  /\ applied \cap Range(unapplied) = {}

PutOff(d) ==
  \E a \in applied : FirstFix(a) <= FirstFix(d) /\ \E f \in fixes[a] : FirstFix(d) < f.end
PutOffInv == \A d \in Range(unapplied) : fixes[d] # {} => PutOff(d)

\* The fixes made are behind one another and before those of the same diagnostic
\* that are to come.
Done == AppliedFixes \ Range(todo)
ApplyInv ==
  /\ Range(todo) \subseteq AppliedFixes /\ IsInjective(todo) /\ Chained(todo)
  /\ todo # << >> => lastFixEnd <= Head(todo).pos
  /\ \A f \in Done : f.end <= lastFixEnd
  /\ lastFixEnd = 0 \/ \E f \in Done : f.end = lastFixEnd
  /\ \A f, g \in Done : f # g => Disjoint(f, g)
  /\ fixed <=> Done # {}

OutputInv == Written(builder, Done, IF pc = "returned" THEN CodeLen ELSE lastFixEnd)

IInv == InputInv /\ TypeInv /\ QueueInv /\ ShareInv /\ PutOffInv /\ ApplyInv /\ OutputInv

-----------------------------------------------------------------------------
(* Sequences of fixes and of diagnostics. *)

LEMMA FixesAreRanges ==
  ASSUME InputsAssumption, InputInv, NEW d \in Diagnostics, NEW f \in fixes[d]
  PROVE  f \in Fix /\ f.pos \in Nat /\ f.end \in Nat /\ f.pos <= f.end /\ f.end <= CodeLen
<1>1. f \in Fix /\ f.pos <= f.end
  BY DEF InputInv, ProperInput, Diagnostics
<1> QED BY <1>1 DEF Fix, InputsAssumption

\* The first fix of a sorted diagnostic is the first of its fixes.
LEMMA FirstIsStart ==
  ASSUME InputsAssumption, InputInv, NEW m \in Entry, EntryOK(m)
  PROVE  FirstFix(m.id) = Start(m) /\ Start(m) \in Nat /\ Head(m.fixes) \in fixes[m.id]
<1> DEFINE s == m.fixes
           d == m.id
           p == Head(s).pos
<1>1. s \in Seq(Fix) /\ s # << >> /\ Range(s) = fixes[d] /\ d \in Diagnostics /\ Chained(s)
  BY DEF Entry, EntryOK
<1>2. Start(m) = p
  BY DEF Start
<1> HIDE DEF s, d
<1>3. Head(s) = s[1] /\ 1 \in 1 .. Len(s) /\ DOMAIN s = 1 .. Len(s)
  BY <1>1
<1>4. Head(s) \in fixes[d]
  BY <1>1, <1>3 DEF Range
<1>5. p \in Nat /\ Head(s).end \in Nat /\ p <= Head(s).end
  BY <1>1, <1>4, FixesAreRanges
<1>6. ASSUME NEW f \in fixes[d] PROVE p <= f.pos /\ f.pos \in Nat
  <2>1. f.pos \in Nat
    BY <1>1, FixesAreRanges
  <2>2. PICK i \in 1 .. Len(s) : s[i] = f
    BY <1>1, <1>3 DEF Range
  <2>3. CASE i = 1
    BY <1>3, <1>5, <2>2, <2>3
  <2>4. CASE i # 1
    <3>1. 1 < i
      BY <2>4
    <3>2. s[1].end <= s[i].pos
      BY <1>1, <1>3, <3>1 DEF Chained
    <3> QED BY <1>3, <1>5, <2>1, <2>2, <3>2
  <2> QED BY <2>1, <2>3, <2>4
<1>7. FirstFix(d) = p
  <2> DEFINE P == { f.pos : f \in fixes[d] }
  <2>1. p \in P /\ \A f \in fixes[d] : p <= f.pos
    BY <1>4, <1>6
  <2>2. ASSUME NEW r \in P, \A f \in fixes[d] : r <= f.pos PROVE r = p
    BY <1>4, <1>5, <1>6, <2>2
  <2> HIDE DEF P, p
  <2>3. FirstFix(d) = CHOOSE r \in P : \A f \in fixes[d] : r <= f.pos
    BY DEF FirstFix, P
  <2> QED BY <2>1, <2>2, <2>3
<1> QED BY <1>2, <1>4, <1>5, <1>7 DEF s, d

\* The diagnostics behind the first.
LEMMA PopDiagnostic ==
  ASSUME NEW q \in Seq(Entry), q # << >>, Ordered(q)
  PROVE  /\ Head(q) \in Entry /\ EntryOK(Head(q)) /\ Head(q) = q[1] /\ 1 \in 1 .. Len(q)
         /\ Tail(q) \in Seq(Entry) /\ Ordered(Tail(q))
         /\ Ids(q) = Ids(Tail(q)) \cup {Head(q).id} /\ Head(q).id \notin Ids(Tail(q))
         /\ \A i \in 1 .. Len(Tail(q)) :
              Tail(q)[i] = q[i + 1] /\ i + 1 \in 1 .. Len(q) /\ Start(Head(q)) <= Start(Tail(q)[i])
<1> DEFINE t == Tail(q)
<1>1. /\ Head(q) = q[1] /\ 1 \in 1 .. Len(q) /\ t \in Seq(Entry) /\ Len(t) \in Nat
      /\ Len(q) = Len(t) + 1 /\ \A i \in 1 .. Len(t) : t[i] = q[i + 1]
  OBVIOUS
<1>2. \A i \in 1 .. Len(t) : i + 1 \in 1 .. Len(q) /\ 1 < i + 1
  BY <1>1
<1>3. \A i \in 1 .. Len(q) : i = 1 \/ (i - 1 \in 1 .. Len(t) /\ (i - 1) + 1 = i)
  BY <1>1
<1>4. Head(q) \in Entry /\ EntryOK(Head(q))
  BY <1>1 DEF Ordered
<1> HIDE DEF t
<1>5. Ordered(t)
  <2>1. ASSUME NEW i \in 1 .. Len(t) PROVE EntryOK(t[i])
    BY <1>1, <1>2 DEF Ordered
  <2>2. ASSUME NEW i \in 1 .. Len(t), NEW j \in 1 .. Len(t), i < j
        PROVE  t[i].id # t[j].id /\ Start(t[i]) <= Start(t[j])
    <3>1. i + 1 \in 1 .. Len(q) /\ j + 1 \in 1 .. Len(q) /\ i + 1 < j + 1
      BY <1>2, <2>2
    <3> QED BY <1>1, <3>1 DEF Ordered
  <2> QED BY <2>1, <2>2 DEF Ordered
<1>6. ASSUME NEW i \in 1 .. Len(t)
      PROVE  Start(Head(q)) <= Start(t[i]) /\ Head(q).id # t[i].id
  BY <1>1, <1>2 DEF Ordered
<1>7. Head(q).id \notin Ids(t)
  BY <1>6 DEF Ids
<1>8. Ids(q) = Ids(t) \cup {Head(q).id}
  <2>1. ASSUME NEW d \in Ids(q) PROVE d \in Ids(t) \cup {Head(q).id}
    <3>1. PICK i \in 1 .. Len(q) : d = q[i].id
      BY DEF Ids
    <3>2. CASE i - 1 \in 1 .. Len(t) /\ (i - 1) + 1 = i
      <4>1. t[i - 1] = q[i]
        BY <1>1, <3>2
      <4> QED BY <3>1, <3>2, <4>1 DEF Ids
    <3> QED BY <1>1, <1>3, <3>1, <3>2
  <2>2. ASSUME NEW d \in Ids(t) PROVE d \in Ids(q)
    BY <1>1, <1>2, <2>2 DEF Ids
  <2>3. Head(q).id \in Ids(q)
    BY <1>1 DEF Ids
  <2> QED BY <2>1, <2>2, <2>3
<1> QED BY <1>1, <1>2, <1>4, <1>5, <1>6, <1>7, <1>8 DEF t

\* The fixes behind the first.
LEMMA PopFix ==
  ASSUME NEW s \in Seq(Fix), s # << >>, IsInjective(s), Chained(s)
  PROVE  /\ Head(s) \in Fix /\ Head(s) \in Range(s)
         /\ Tail(s) \in Seq(Fix) /\ IsInjective(Tail(s)) /\ Chained(Tail(s))
         /\ Range(Tail(s)) = Range(s) \ {Head(s)}
         /\ Tail(s) # << >> => Head(s).end <= Head(Tail(s)).pos
<1> DEFINE t == Tail(s)
<1>1. /\ Head(s) = s[1] /\ 1 \in 1 .. Len(s) /\ t \in Seq(Fix) /\ Len(t) \in Nat
      /\ Len(s) = Len(t) + 1 /\ \A i \in 1 .. Len(t) : t[i] = s[i + 1]
      /\ DOMAIN s = 1 .. Len(s) /\ DOMAIN t = 1 .. Len(t) /\ Head(s) \in Fix
  OBVIOUS
<1>2. \A i \in 1 .. Len(t) : i + 1 \in 1 .. Len(s) /\ 1 < i + 1
  BY <1>1
<1>3. \A i \in 1 .. Len(s) : i = 1 \/ (i - 1 \in 1 .. Len(t) /\ (i - 1) + 1 = i)
  BY <1>1
<1>4. t # << >> => Head(t) = t[1] /\ 1 \in 1 .. Len(t)
  BY <1>1
<1> HIDE DEF t
<1>5. IsInjective(t)
  <2> SUFFICES ASSUME NEW i \in 1 .. Len(t), NEW j \in 1 .. Len(t), t[i] = t[j] PROVE i = j
    BY <1>1 DEF IsInjective
  <2>1. i + 1 = j + 1
    BY <1>1, <1>2 DEF IsInjective
  <2> QED BY <2>1
<1>6. Chained(t)
  <2>1. ASSUME NEW i \in 1 .. Len(t), NEW j \in 1 .. Len(t), i < j PROVE t[i].end <= t[j].pos
    <3>1. i + 1 \in 1 .. Len(s) /\ j + 1 \in 1 .. Len(s) /\ i + 1 < j + 1
      BY <1>2, <2>1
    <3> QED BY <1>1, <3>1 DEF Chained
  <2> QED BY <2>1 DEF Chained
<1>7. Range(t) = Range(s) \ {Head(s)}
  <2>1. ASSUME NEW f \in Range(s), f # Head(s) PROVE f \in Range(t)
    <3>1. PICK i \in 1 .. Len(s) : f = s[i]
      BY <1>1 DEF Range
    <3>2. i - 1 \in 1 .. Len(t) /\ t[i - 1] = s[i]
      BY <1>1, <1>3, <2>1, <3>1
    <3> QED BY <1>1, <3>1, <3>2 DEF Range
  <2>2. ASSUME NEW f \in Range(t) PROVE f \in Range(s) /\ f # Head(s)
    <3>1. PICK i \in 1 .. Len(t) : f = t[i]
      BY <1>1 DEF Range
    <3>2. i + 1 \in 1 .. Len(s) /\ i + 1 # 1 /\ f = s[i + 1]
      BY <1>1, <1>2, <3>1
    <3> QED BY <1>1, <3>2 DEF Range, IsInjective
  <2> QED BY <2>1, <2>2
<1>8. t # << >> => Head(s).end <= Head(t).pos
  <2> SUFFICES ASSUME t # << >> PROVE Head(s).end <= Head(t).pos
    OBVIOUS
  <2>1. Head(t) = s[1 + 1] /\ 1 + 1 \in 1 .. Len(s) /\ 1 < 1 + 1
    BY <1>1, <1>2, <1>4
  <2> QED BY <1>1, <2>1 DEF Chained
<1>9. Head(s) \in Range(s)
  BY <1>1 DEF Range
<1> QED BY <1>1, <1>5, <1>6, <1>7, <1>8, <1>9 DEF t

LEMMA DiagnosticsAreFinite ==
  ASSUME InputInv, NEW D \in SUBSET Diagnostics
  PROVE  IsFiniteSet(D)
<1>1. Diagnostics = 1 .. Len(fixes) /\ Len(fixes) \in Nat
  BY DEF InputInv, ProperInput, Diagnostics
<1>2. IsFiniteSet(1 .. Len(fixes))
  <2> DEFINE n == Len(fixes)
  <2>1. 1 \in Int /\ n \in Int
    BY <1>1
  <2> HIDE DEF n
  <2>2. IsFiniteSet(1 .. n)
    BY <2>1, FS_Interval
  <2> QED BY <2>2 DEF n
<1> QED BY <1>1, <1>2, FS_Subset

\* The diagnostics without fixes.
LEMMA InOrderEnumerates ==
  ASSUME InputInv, NEW D \in SUBSET Diagnostics, NEW s \in InOrder(D)
  PROVE  s \in Seq(Diagnostics) /\ IsInjective(s) /\ Range(s) = D
<1>1. s \in SetToSeqs(D)
  BY DEF InOrder
<1>2. IsFiniteSet(D)
  BY DiagnosticsAreFinite
<1>3. s \in Seq(D) /\ IsInjective(s) /\ Range(s) = D
  BY <1>1, <1>2, Enumerated
<1> QED BY <1>3

\* The others, each with its fixes sorted.
Entries(D, order) == { [id |-> d, fixes |-> order[d]] : d \in D }

LEMMA EntriesAreOrdered ==
  ASSUME InputsAssumption, InputInv, NEW D \in SUBSET Diagnostics, NEW order, DOMAIN order = D,
         \A d \in D : fixes[d] # {} /\ order[d] \in SortedFixes(d),
         NEW q \in SortedDiagnostics(Entries(D, order))
  PROVE  q \in Seq(Entry) /\ Ordered(q) /\ Ids(q) = D
<1> DEFINE e(d) == [id |-> d, fixes |-> order[d]]
           E == Entries(D, order)
<1>1. IsFiniteSet(E)
  <2> DEFINE F == [d \in D |-> e(d)]
  <2>1. F \in Surjection(D, E)
    BY DEF Surjection, Entries
  <2> HIDE DEF F, E
  <2> QED BY <2>1, DiagnosticsAreFinite, FS_Surjection
<1>2. q \in SetToSeqs(E)
  BY DEF SortedDiagnostics
<1>3. \A i, j \in 1 .. Len(q) : DOMAIN q = 1 .. Len(q) => (i < j => ~ DiagnosticLess(q[j], q[i]))
  BY DEF SortedDiagnostics
<1>4. ASSUME NEW d \in D PROVE e(d) \in Entry /\ EntryOK(e(d))
  <2>1. /\ order[d] \in Seq(Fix) /\ Range(order[d]) = fixes[d] /\ IsInjective(order[d])
        /\ Chained(order[d]) /\ fixes[d] # {}
    BY SortedFixesAreChained DEF InputInv
  <2>2. order[d] # << >>
    BY <2>1 DEF Range
  <2> QED BY <2>1, <2>2 DEF Entry, EntryOK
<1>5. \A m \in E : m \in Entry /\ EntryOK(m) /\ m.id \in D /\ m = e(m.id)
  BY <1>4 DEF Entries
<1>6. \A d \in D : e(d) \in E /\ e(d).id = d
  BY DEF Entries
<1> HIDE DEF E, e
<1>7. q \in Seq(E) /\ DOMAIN q = 1 .. Len(q) /\ IsInjective(q) /\ Range(q) = E
  BY <1>1, <1>2, Enumerated
<1>8. q \in Seq(Entry)
  <2>1. E \subseteq Entry
    BY <1>5
  <2> QED BY <1>7, <2>1
<1>9. Ordered(q)
  <2>1. ASSUME NEW i \in 1 .. Len(q) PROVE q[i] \in E
    BY <1>7
  <2>2. ASSUME NEW i \in 1 .. Len(q) PROVE EntryOK(q[i])
    BY <1>5, <2>1
  <2>3. ASSUME NEW i \in 1 .. Len(q), NEW j \in 1 .. Len(q), i < j
        PROVE  q[i].id # q[j].id /\ Start(q[i]) <= Start(q[j])
    <3>1. q[i] # q[j]
      BY <1>7, <2>3 DEF IsInjective
    <3>2. q[i].id # q[j].id
      BY <1>5, <2>1, <3>1
    <3>3. ~ DiagnosticLess(q[j], q[i])
      BY <1>3, <1>7, <2>3
    <3>4. Start(q[i]) \in Nat /\ Start(q[j]) \in Nat
      <4>1. q[i] \in Entry /\ EntryOK(q[i]) /\ q[j] \in Entry /\ EntryOK(q[j])
        BY <1>5, <2>1
      <4> QED BY <4>1, FirstIsStart
    <3>5. ~ (Start(q[j]) < Start(q[i]))
      BY <3>3 DEF DiagnosticLess, Start
    <3> QED BY <3>2, <3>4, <3>5
  <2> QED BY <2>2, <2>3 DEF Ordered
<1>10. Ids(q) = D
  <2>1. ASSUME NEW d \in D PROVE d \in Ids(q)
    <3>1. PICK i \in 1 .. Len(q) : q[i] = e(d)
      BY <1>6, <1>7 DEF Range
    <3> QED BY <1>6, <3>1 DEF Ids
  <2>2. ASSUME NEW d \in Ids(q) PROVE d \in D
    BY <1>5, <1>7, <2>2 DEF Ids
  <2> QED BY <2>1, <2>2
<1> QED BY <1>8, <1>9, <1>10

-----------------------------------------------------------------------------
(* Every step keeps the invariant. *)

\* No step changes the input, nor what is said of it.
LEMMA InputKept ==
  ASSUME InputInv, fixes' = fixes
  PROVE  /\ InputInv' /\ Diagnostics' = Diagnostics /\ Entry' = Entry
         /\ \A d : FirstFix(d)' = FirstFix(d)
         /\ \A q : Ordered(q) => Ordered(q)'
  BY DEF InputInv, Diagnostics, Entry, FirstFix, Ordered, EntryOK, Start

\* Fixes are made only by ApplyFix.
LEMMA ApplyingKept ==
  ASSUME ApplyInv, UNCHANGED <<fixes, todo, lastFixEnd, fixed, applied>>
  PROVE  ApplyInv' /\ Done' = Done
<1>1. Done' = Done /\ AppliedFixes' = AppliedFixes
  BY DEF Done, AppliedFixes
<1> QED BY <1>1 DEF ApplyInv

LEMMA PartitionStep ==
  ASSUME InputsAssumption, IInv, Partition
  PROVE  IInv'
<1> DEFINE without == { d \in Diagnostics : fixes[d] = {} }
           with == Diagnostics \ without
<1>1. /\ pc = "partition" /\ pc' = "diagnostics" /\ applied = {} /\ todo = << >>
      /\ UNCHANGED <<fixes, todo, builder, lastFixEnd, fixed, applied>>
  BY DEF Partition, IInv, TypeInv
<1>2. InputInv /\ InputInv' /\ Diagnostics' = Diagnostics /\ Entry' = Entry
  BY <1>1, InputKept DEF IInv
<1>3. unapplied' \in Seq(Diagnostics) /\ IsInjective(unapplied') /\ Range(unapplied') = without
  <2>1. unapplied' \in InOrder(without) /\ without \in SUBSET Diagnostics
    BY DEF Partition
  <2> HIDE DEF without
  <2> QED BY <1>2, <2>1, InOrderEnumerates
<1>4. withFixes' \in Seq(Entry) /\ Ordered(withFixes') /\ Ids(withFixes') = with
  <2>1. PICK order \in [with -> UNION { SortedFixes(d) : d \in Diagnostics }] :
          /\ \A d \in DOMAIN order : order[d] \in SortedFixes(d)
          /\ withFixes' \in SortedDiagnostics(Entries(DOMAIN order, order))
    BY DEF Partition, Entries
  <2>2. with \in SUBSET Diagnostics /\ \A d \in with : fixes[d] # {}
    OBVIOUS
  <2> HIDE DEF with
  <2>3. DOMAIN order = with
    BY <2>1
  <2>4. \A d \in with : fixes[d] # {} /\ order[d] \in SortedFixes(d)
    BY <2>1, <2>2, <2>3
  <2>5. withFixes' \in SortedDiagnostics(Entries(with, order))
    BY <2>1, <2>3
  <2> QED BY <1>2, <2>2, <2>3, <2>4, <2>5, EntriesAreOrdered
<1>5. TypeInv'
  BY <1>1, <1>2, <1>3, <1>4 DEF TypeInv, IInv
<1>6. QueueInv'
  <2>1. Ordered(withFixes)'
    BY <1>1, <1>4 DEF Ordered, EntryOK, Start
  <2> QED BY <1>1, <2>1 DEF QueueInv
<1>7. ShareInv'
  <2>1. Ids(withFixes)' = with /\ Range(unapplied)' = without
    BY <1>3, <1>4 DEF Ids
  <2> QED BY <1>1, <1>2, <1>3, <2>1 DEF ShareInv
<1>8. PutOffInv'
  BY <1>1, <1>3 DEF PutOffInv
<1>9. ApplyInv' /\ Done' = Done
  BY <1>1, ApplyingKept DEF IInv
<1>10. OutputInv'
  BY <1>1, <1>9 DEF OutputInv, IInv
<1> QED BY <1>2, <1>5, <1>6, <1>7, <1>8, <1>9, <1>10 DEF IInv

LEMMA SkipStep ==
  ASSUME InputsAssumption, IInv, Skip
  PROVE  IInv'
<1> DEFINE m == Head(withFixes)
<1>1. /\ pc = "diagnostics" /\ withFixes # << >> /\ pc' = pc
      /\ withFixes' = Tail(withFixes) /\ unapplied' = Append(unapplied, m.id)
      /\ lastFixEnd > Start(m)
      /\ UNCHANGED <<fixes, todo, builder, lastFixEnd, fixed, applied>>
  BY DEF Skip, Overlaps, Start
<1>2. InputInv /\ InputInv' /\ Diagnostics' = Diagnostics /\ Entry' = Entry
      /\ \A d : FirstFix(d)' = FirstFix(d)
  BY <1>1, InputKept DEF IInv
<1>3. withFixes \in Seq(Entry) /\ Ordered(withFixes) /\ unapplied \in Seq(Diagnostics)
  BY DEF IInv, TypeInv, QueueInv
<1>4. /\ m \in Entry /\ EntryOK(m) /\ m = withFixes[1] /\ 1 \in 1 .. Len(withFixes)
      /\ Tail(withFixes) \in Seq(Entry) /\ Ordered(Tail(withFixes))
      /\ Ids(withFixes) = Ids(Tail(withFixes)) \cup {m.id} /\ m.id \notin Ids(Tail(withFixes))
      /\ \A i \in 1 .. Len(Tail(withFixes)) :
           Tail(withFixes)[i] = withFixes[i + 1] /\ i + 1 \in 1 .. Len(withFixes)
  BY <1>1, <1>3, PopDiagnostic
<1>5. m.id \in Diagnostics /\ FirstFix(m.id) = Start(m) /\ Start(m) \in Nat
  BY <1>2, <1>4, FirstIsStart DEF Entry
<1> HIDE DEF m
<1>6. unapplied' \in Seq(Diagnostics) /\ Range(unapplied') = Range(unapplied) \cup {m.id}
      /\ (m.id \notin Range(unapplied) /\ IsInjective(unapplied) => IsInjective(unapplied'))
  <2> DEFINE u == Append(unapplied, m.id)
             n == Len(unapplied)
  <2>1. /\ u \in Seq(Diagnostics) /\ DOMAIN u = 1 .. n + 1 /\ DOMAIN unapplied = 1 .. n /\ n \in Nat
        /\ u[n + 1] = m.id /\ \A i \in 1 .. n : u[i] = unapplied[i]
    BY <1>3, <1>5
  <2>2. \A i \in 1 .. n + 1 : i = n + 1 \/ i \in 1 .. n
    BY <2>1
  <2>3. \A i \in 1 .. n : i \in 1 .. n + 1
    BY <2>1
  <2>4. n + 1 \in 1 .. n + 1
    BY <2>1
  <2> HIDE DEF u, n
  <2>5. Range(u) = Range(unapplied) \cup {m.id}
    BY <2>1, <2>2, <2>3, <2>4 DEF Range
  <2>6. ASSUME m.id \notin Range(unapplied), IsInjective(unapplied) PROVE IsInjective(u)
    BY <2>1, <2>2, <2>6 DEF IsInjective, Range
  <2> QED BY <1>1, <2>1, <2>5, <2>6 DEF u
<1>7. TypeInv'
  BY <1>1, <1>2, <1>4, <1>6 DEF TypeInv, IInv
<1>8. QueueInv'
  <2>1. Ordered(withFixes)'
    BY <1>1, <1>4 DEF Ordered, EntryOK, Start
  <2>2. ASSUME NEW a \in applied, NEW i \in 1 .. Len(Tail(withFixes))
        PROVE  FirstFix(a) <= Start(Tail(withFixes)[i])
    BY <1>4 DEF QueueInv, IInv
  <2> QED BY <1>1, <1>2, <2>1, <2>2 DEF QueueInv, Start
<1>9. ShareInv'
  <2>1. Ids(withFixes)' = Ids(Tail(withFixes)) /\ m.id \in Ids(withFixes)
    BY <1>1, <1>4 DEF Ids
  <2>2. ShareInv
    BY DEF IInv
  <2>3. m.id \notin Range(unapplied) /\ m.id \notin applied
    BY <2>1, <2>2 DEF ShareInv
  <2>4. IsInjective(unapplied)'
    BY <1>6, <2>2, <2>3 DEF ShareInv
  <2>5. Range(unapplied)' = Range(unapplied) \cup {m.id}
    BY <1>6
  <2>6. Ids(withFixes)' \cup applied' \cup Range(unapplied)' = Diagnostics'
    BY <1>1, <1>2, <1>4, <2>1, <2>2, <2>5 DEF ShareInv
  <2>7. Ids(withFixes)' \cap applied' = {} /\ applied' \cap Range(unapplied)' = {}
    BY <1>1, <1>4, <2>1, <2>2, <2>3, <2>5 DEF ShareInv
  <2>8. Ids(withFixes)' \cap Range(unapplied)' = {}
    BY <1>4, <2>1, <2>2, <2>5 DEF ShareInv
  <2> QED BY <2>4, <2>6, <2>7, <2>8 DEF ShareInv
<1>10. PutOffInv'
  <2>1. \A d : PutOff(d) => PutOff(d)'
    BY <1>1, <1>2 DEF PutOff
  <2>2. PutOff(m.id)
    <3>1. lastFixEnd # 0
      BY <1>1, <1>5 DEF IInv, TypeInv
    <3>2. PICK f \in Done : f.end = lastFixEnd
      BY <3>1 DEF IInv, ApplyInv
    <3>3. PICK a \in applied : f \in fixes[a]
      BY DEF Done, AppliedFixes
    <3>4. FirstFix(a) <= Start(m)
      BY <1>4 DEF QueueInv, IInv
    <3> QED BY <1>1, <1>5, <3>2, <3>3, <3>4 DEF PutOff
  <2> QED BY <1>1, <1>6, <2>1, <2>2 DEF PutOffInv, IInv
<1>11. ApplyInv' /\ Done' = Done
  BY <1>1, ApplyingKept DEF IInv
<1>12. OutputInv'
  BY <1>1, <1>11 DEF OutputInv, IInv
<1> QED BY <1>2, <1>7, <1>8, <1>9, <1>10, <1>11, <1>12 DEF IInv

\* With nothing left to apply of a diagnostic, the fixes made are those of the applied ones.
LEMMA AllDone ==
  ASSUME todo = << >>
  PROVE  Done = AppliedFixes
BY DEF Done, Range

LEMMA StartApplyingStep ==
  ASSUME InputsAssumption, IInv, StartApplying
  PROVE  IInv'
<1> DEFINE m == Head(withFixes)
<1>1. /\ pc = "diagnostics" /\ withFixes # << >> /\ pc' = "fixes"
      /\ withFixes' = Tail(withFixes) /\ todo' = m.fixes /\ applied' = applied \cup {m.id}
      /\ ~ (lastFixEnd > Start(m))
      /\ UNCHANGED <<fixes, unapplied, builder, lastFixEnd, fixed>>
  BY DEF StartApplying, Overlaps, Start
<1>2. InputInv /\ InputInv' /\ Diagnostics' = Diagnostics /\ Entry' = Entry
      /\ \A d : FirstFix(d)' = FirstFix(d)
  BY <1>1, InputKept DEF IInv
<1>3. withFixes \in Seq(Entry) /\ Ordered(withFixes) /\ todo = << >>
  BY <1>1 DEF IInv, TypeInv, QueueInv
<1>4. /\ m \in Entry /\ EntryOK(m) /\ m = withFixes[1] /\ 1 \in 1 .. Len(withFixes)
      /\ Tail(withFixes) \in Seq(Entry) /\ Ordered(Tail(withFixes))
      /\ Ids(withFixes) = Ids(Tail(withFixes)) \cup {m.id} /\ m.id \notin Ids(Tail(withFixes))
      /\ \A i \in 1 .. Len(Tail(withFixes)) :
           /\ Tail(withFixes)[i] = withFixes[i + 1] /\ i + 1 \in 1 .. Len(withFixes)
           /\ Start(m) <= Start(Tail(withFixes)[i])
  BY <1>1, <1>3, PopDiagnostic
<1>5. m.id \in Diagnostics /\ FirstFix(m.id) = Start(m) /\ Start(m) \in Nat
  BY <1>2, <1>4, FirstIsStart DEF Entry
<1>6. /\ m.fixes \in Seq(Fix) /\ m.fixes # << >> /\ Range(m.fixes) = fixes[m.id]
      /\ IsInjective(m.fixes) /\ Chained(m.fixes) /\ Head(m.fixes).pos = Start(m)
  BY <1>4 DEF Entry, EntryOK, Start
<1>7. m.id \notin applied /\ m.id \notin Range(unapplied)
  BY <1>4 DEF ShareInv, IInv
<1> HIDE DEF m
<1>8. TypeInv'
  BY <1>1, <1>2, <1>4, <1>5, <1>6 DEF TypeInv, IInv
<1>9. QueueInv'
  <2>1. Ordered(withFixes)'
    BY <1>1, <1>4 DEF Ordered, EntryOK, Start
  <2>2. ASSUME NEW a \in applied', NEW i \in 1 .. Len(Tail(withFixes))
        PROVE  FirstFix(a) <= Start(Tail(withFixes)[i])
    <3>1. CASE a \in applied
      BY <1>4, <3>1 DEF QueueInv, IInv
    <3>2. CASE a = m.id
      BY <1>4, <1>5, <3>2
    <3> QED BY <1>1, <3>1, <3>2
  <2> QED BY <1>1, <1>2, <2>1, <2>2 DEF QueueInv, Start
<1>10. ShareInv'
  <2>1. Ids(withFixes)' = Ids(Tail(withFixes))
    BY <1>1 DEF Ids
  <2> QED BY <1>1, <1>2, <1>4, <1>7, <2>1 DEF ShareInv, IInv
<1>11. PutOffInv'
  <2>1. \A d : PutOff(d) => PutOff(d)'
    BY <1>1, <1>2 DEF PutOff
  <2> QED BY <1>1, <2>1 DEF PutOffInv, IInv
<1>12. Done' = Done /\ AppliedFixes' = AppliedFixes \cup Range(m.fixes)
  <2>1. AppliedFixes' = AppliedFixes \cup fixes[m.id]
    BY <1>1 DEF AppliedFixes
  <2>2. ASSUME NEW f \in AppliedFixes PROVE f \notin fixes[m.id]
    <3>1. PICK a \in applied : f \in fixes[a]
      BY DEF AppliedFixes
    <3>2. a # m.id /\ a \in Diagnostics
      BY <1>7 DEF IInv, TypeInv
    <3> QED BY <1>2, <1>5, <3>1, <3>2 DEF InputInv, TextsToldApart, Diagnostics
  <2>3. Done' = AppliedFixes' \ fixes[m.id]
    BY <1>1, <1>6 DEF Done
  <2> QED BY <1>3, <1>6, <2>1, <2>2, <2>3, AllDone
<1>13. ApplyInv'
  <2>1. Range(todo)' \subseteq AppliedFixes' /\ IsInjective(todo)' /\ Chained(todo)'
    BY <1>1, <1>6, <1>12
  <2>2. (todo # << >>)' => lastFixEnd' <= Head(todo)'.pos
    BY <1>1, <1>5, <1>6 DEF IInv, TypeInv
  <2> QED BY <1>1, <1>12, <2>1, <2>2 DEF ApplyInv, IInv
<1>14. OutputInv'
  BY <1>1, <1>12 DEF OutputInv, IInv
<1> QED BY <1>2, <1>8, <1>9, <1>10, <1>11, <1>13, <1>14 DEF IInv

LEMMA ApplyFixStep ==
  ASSUME InputsAssumption, IInv, ApplyFix
  PROVE  IInv'
<1> DEFINE fix == Head(todo)
<1>1. /\ pc = "fixes" /\ todo # << >> /\ todo \in Seq(Fix) /\ builder \in Seq(Int)
      /\ lastFixEnd \in 0 .. CodeLen /\ todo' = Tail(todo) /\ InputInv
      /\ UNCHANGED <<fixes, withFixes, unapplied, applied>>
  BY DEF ApplyFix, IInv, TypeInv
<1>2. Range(todo) \subseteq AppliedFixes /\ IsInjective(todo) /\ Chained(todo)
      /\ lastFixEnd <= fix.pos
  BY <1>1 DEF IInv, ApplyInv
<1>3. /\ fix \in Fix /\ fix \in Range(todo)
      /\ Tail(todo) \in Seq(Fix) /\ IsInjective(Tail(todo)) /\ Chained(Tail(todo))
      /\ Range(Tail(todo)) = Range(todo) \ {fix}
      /\ Tail(todo) # << >> => fix.end <= Head(Tail(todo)).pos
  BY <1>1, <1>2, PopFix
<1>4. PICK d \in applied : fix \in fixes[d]
  BY <1>2, <1>3 DEF AppliedFixes
<1>5. fix.pos \in Nat /\ fix.end \in Nat /\ fix.pos <= fix.end /\ fix.end <= CodeLen
  BY <1>1, <1>4, FixesAreRanges DEF IInv, TypeInv
<1>6. /\ pc' = "fixes" /\ fixed' = TRUE /\ lastFixEnd' = fix.end
      /\ builder' = builder \o Slice(lastFixEnd, fix.pos) \o <<fix.text>>
  BY <1>1, <1>2, <1>5 DEF ApplyFix
<1> HIDE DEF fix
<1>7. InputInv' /\ Diagnostics' = Diagnostics /\ Entry' = Entry
      /\ \A e : FirstFix(e)' = FirstFix(e)
  BY <1>1, InputKept
<1>8. AppliedFixes' = AppliedFixes /\ Done' = Done \cup {fix} /\ fix \notin Done
  <2>1. AppliedFixes' = AppliedFixes
    BY <1>1 DEF AppliedFixes
  <2> QED BY <1>1, <1>2, <1>3, <2>1 DEF Done
\* What was made before it.
<1>9. ASSUME NEW f \in Done
      PROVE  f \in Fix /\ f.pos \in Nat /\ f.end \in Nat /\ f.pos <= f.end /\ f.end <= lastFixEnd
             /\ f.text # fix.text
  <2>1. PICK e \in applied : f \in fixes[e]
    BY DEF Done, AppliedFixes
  <2>2. e \in Diagnostics /\ d \in Diagnostics
    BY DEF IInv, TypeInv
  <2>3. f.text # fix.text
    BY <1>1, <1>4, <1>8, <2>1, <2>2 DEF InputInv, TextsToldApart, Diagnostics
  <2>4. f.end <= lastFixEnd
    BY DEF IInv, ApplyInv
  <2> QED BY <1>1, <2>1, <2>2, <2>3, <2>4, FixesAreRanges
<1>10. builder' \in Seq(Int) /\ Written(builder', Done \cup {fix}, fix.end)
  <2> DEFINE c == builder \o Slice(lastFixEnd, fix.pos)
  <2>1. lastFixEnd \in Nat
    BY <1>1
  <2>2. c \in Seq(Int) /\ Extends(c, builder, lastFixEnd, fix.pos)
    BY <1>1, <1>2, <1>5, <2>1, SliceExtends
  <2>3. UpTo(Done, lastFixEnd) /\ UpTo(Done, fix.pos)
    BY <1>2, <1>5, <1>9, <2>1 DEF UpTo
  <2>4. Written(builder, Done, lastFixEnd)
    BY <1>1 DEF IInv, OutputInv
  <2> HIDE DEF c
  <2>5. Written(c, Done, fix.pos)
    BY <1>1, <1>2, <1>5, <2>1, <2>2, <2>3, <2>4, SliceIsWritten
  <2>6. Written(Append(c, fix.text), Done \cup {fix}, fix.end)
    BY <1>3, <1>5, <1>9, <2>2, <2>3, <2>5, TextIsWritten
  <2>7. fix.text \in Int
    BY <1>3 DEF Fix, InputsAssumption
  <2>8. builder' = c \o <<fix.text>>
    BY <1>6 DEF c
  <2>9. c \o <<fix.text>> = Append(c, fix.text) /\ Append(c, fix.text) \in Seq(Int)
    BY <2>2, <2>7
  <2> QED BY <2>6, <2>8, <2>9
<1>11. TypeInv'
  BY <1>1, <1>3, <1>5, <1>6, <1>7, <1>10 DEF TypeInv, IInv
<1>12. QueueInv'
  <2>1. Ordered(withFixes)'
    BY <1>1, InputKept DEF QueueInv, IInv
  <2> QED BY <1>1, <1>7, <2>1 DEF QueueInv, IInv, Start
<1>13. ShareInv'
  BY <1>1, <1>6, <1>7 DEF ShareInv, IInv, Ids
<1>14. PutOffInv'
  BY <1>1, <1>7 DEF PutOffInv, IInv, PutOff
<1>15. ApplyInv'
  <2>1. Range(todo)' \subseteq AppliedFixes' /\ IsInjective(todo)' /\ Chained(todo)'
    BY <1>1, <1>2, <1>3, <1>8
  <2>2. (todo # << >>)' => lastFixEnd' <= Head(todo)'.pos
    BY <1>1, <1>3, <1>6
  <2>3. ASSUME NEW f \in Done' PROVE f.end <= lastFixEnd'
    BY <1>1, <1>2, <1>5, <1>6, <1>8, <1>9
  <2>4. \E f \in Done' : f.end = lastFixEnd'
    BY <1>6, <1>8
  <2>5. ASSUME NEW f \in Done', NEW g \in Done', f # g PROVE Disjoint(f, g)
    <3>1. CASE f \in Done /\ g \in Done
      BY <2>5, <3>1 DEF IInv, ApplyInv
    <3>2. ASSUME NEW h \in Done PROVE h.end <= fix.pos
      BY <1>1, <1>2, <1>5, <1>9
    <3>3. CASE f \in Done /\ g = fix
      BY <3>2, <3>3 DEF Disjoint
    <3>4. CASE f = fix /\ g \in Done
      BY <3>2, <3>4 DEF Disjoint
    <3> QED BY <1>8, <2>5, <3>1, <3>3, <3>4
  <2>6. fixed' /\ Done' # {}
    BY <1>6, <1>8
  <2> QED BY <2>1, <2>2, <2>3, <2>4, <2>5, <2>6 DEF ApplyInv
<1>16. OutputInv'
  BY <1>6, <1>8, <1>10 DEF OutputInv
<1> QED BY <1>7, <1>11, <1>12, <1>13, <1>14, <1>15, <1>16 DEF IInv

LEMMA NextDiagnosticStep ==
  ASSUME InputsAssumption, IInv, NextDiagnostic
  PROVE  IInv'
<1>1. /\ pc = "fixes" /\ pc' = "diagnostics" /\ todo = << >>
      /\ UNCHANGED <<fixes, withFixes, todo, unapplied, builder, lastFixEnd, fixed, applied>>
  BY DEF NextDiagnostic
<1>2. InputInv' /\ Diagnostics' = Diagnostics /\ Entry' = Entry
      /\ \A d : FirstFix(d)' = FirstFix(d)
  BY <1>1, InputKept DEF IInv
<1>3. TypeInv'
  BY <1>1, <1>2 DEF TypeInv, IInv
<1>4. QueueInv'
  <2>1. Ordered(withFixes)'
    BY <1>1, InputKept DEF QueueInv, IInv
  <2> QED BY <1>1, <1>2, <2>1 DEF QueueInv, IInv, Start
<1>5. ShareInv'
  BY <1>1, <1>2 DEF ShareInv, IInv, Ids
<1>6. PutOffInv'
  BY <1>1, <1>2 DEF PutOffInv, IInv, PutOff
<1>7. ApplyInv' /\ Done' = Done
  BY <1>1, ApplyingKept DEF IInv
<1>8. OutputInv'
  BY <1>1, <1>7 DEF OutputInv, IInv
<1> QED BY <1>2, <1>3, <1>4, <1>5, <1>6, <1>7, <1>8 DEF IInv

LEMMA ReturnStep ==
  ASSUME InputsAssumption, IInv, Return
  PROVE  IInv'
<1>1. /\ pc = "diagnostics" /\ pc' = "returned" /\ withFixes = << >>
      /\ builder' = builder \o Slice(lastFixEnd, CodeLen)
      /\ UNCHANGED <<fixes, withFixes, todo, unapplied, lastFixEnd, fixed, applied>>
  BY DEF Return
<1>2. InputInv /\ InputInv' /\ Diagnostics' = Diagnostics /\ Entry' = Entry
      /\ \A d : FirstFix(d)' = FirstFix(d)
  BY <1>1, InputKept DEF IInv
<1>3. ApplyInv' /\ Done' = Done
  BY <1>1, ApplyingKept DEF IInv
<1>4. /\ lastFixEnd \in Nat /\ CodeLen \in Nat /\ lastFixEnd <= CodeLen
      /\ builder \in Seq(Int) /\ Written(builder, Done, lastFixEnd)
  BY <1>1 DEF IInv, TypeInv, OutputInv, InputsAssumption
<1>5. UpTo(Done, lastFixEnd)
  <2>1. ASSUME NEW f \in Done PROVE f \in Fix /\ f.pos <= f.end /\ f.end <= lastFixEnd
    <3>1. PICK d \in applied : f \in fixes[d]
      BY DEF Done, AppliedFixes
    <3>2. d \in Diagnostics
      BY DEF IInv, TypeInv
    <3>3. f.end <= lastFixEnd
      BY DEF IInv, ApplyInv
    <3> QED BY <1>2, <3>1, <3>2, <3>3, FixesAreRanges
  <2> QED BY <2>1 DEF UpTo
<1>6. builder' \in Seq(Int) /\ Written(builder', Done, CodeLen)
  <2> DEFINE c == builder \o Slice(lastFixEnd, CodeLen)
  <2>1. c \in Seq(Int) /\ Extends(c, builder, lastFixEnd, CodeLen)
    BY <1>4, SliceExtends
  <2> HIDE DEF c
  <2>2. Written(c, Done, CodeLen)
    BY <1>4, <1>5, <2>1, SliceIsWritten
  <2> QED BY <1>1, <2>1, <2>2 DEF c
<1>7. TypeInv'
  BY <1>1, <1>2, <1>6 DEF TypeInv, IInv
<1>8. QueueInv'
  <2>1. Ordered(withFixes)'
    BY <1>1, InputKept DEF QueueInv, IInv
  <2> QED BY <1>1, <1>2, <2>1 DEF QueueInv, IInv, Start
<1>9. ShareInv'
  BY <1>1, <1>2 DEF ShareInv, IInv, Ids
<1>10. PutOffInv'
  BY <1>1, <1>2 DEF PutOffInv, IInv, PutOff
<1>11. OutputInv'
  BY <1>1, <1>3, <1>6 DEF OutputInv
<1> QED BY <1>2, <1>3, <1>7, <1>8, <1>9, <1>10, <1>11 DEF IInv

LEMMA FixesInit ==
  ASSUME InputsAssumption, Init
  PROVE  IInv
<1>1. /\ fixes \in Passes /\ pc = "partition" /\ withFixes = << >> /\ todo = << >>
      /\ unapplied = << >> /\ builder = << >> /\ lastFixEnd = 0 /\ fixed = FALSE /\ applied = {}
  BY DEF Init
<1>2. InputInv
  BY <1>1 DEF InputsAssumption, InputInv
<1>3. TypeInv
  <2>1. << >> \in Seq(Entry) /\ << >> \in Seq(Fix)
        /\ << >> \in Seq(Diagnostics) /\ << >> \in Seq(Int)
    OBVIOUS
  <2>2. 0 \in 0 .. CodeLen
    BY DEF InputsAssumption
  <2> QED BY <1>1, <2>1, <2>2 DEF TypeInv
<1>4. QueueInv
  BY <1>1 DEF QueueInv, Ordered
<1>5. ShareInv
  <2>1. Ids(<< >>) = {} /\ Range(<< >>) = {} /\ IsInjective(<< >>)
    BY DEF Ids, Range, IsInjective
  <2> QED BY <1>1, <2>1 DEF ShareInv
<1>6. PutOffInv
  BY <1>1 DEF PutOffInv, Range
<1>7. Done = {} /\ AppliedFixes = {} /\ Range(todo) = {}
  BY <1>1 DEF Done, AppliedFixes, Range
<1>8. ApplyInv
  BY <1>1, <1>7 DEF ApplyInv, IsInjective, Chained
<1>9. OutputInv
  <2>1. Written(<< >>, {}, 0)
    <3>1. IsInjective(<< >>) /\ InTextOrder(<< >>) /\ TextsInPlace(<< >>, {})
      BY DEF IsInjective, InTextOrder, TextsInPlace
    <3>2. Kept({}, 0) = {} /\ Range(<< >>) = {}
      BY DEF Kept, Range
    <3> QED BY <3>1, <3>2 DEF Written, Contents
  <2> QED BY <1>1, <1>7, <2>1 DEF OutputInv
<1> QED BY <1>2, <1>3, <1>4, <1>5, <1>6, <1>8, <1>9 DEF IInv

LEMMA FixesStutter ==
  ASSUME IInv, UNCHANGED vars
  PROVE  IInv'
<1>1. /\ pc' = pc
      /\ UNCHANGED <<fixes, withFixes, todo, unapplied, builder, lastFixEnd, fixed, applied>>
  BY DEF vars
<1>2. InputInv' /\ Diagnostics' = Diagnostics /\ Entry' = Entry
      /\ \A d : FirstFix(d)' = FirstFix(d)
  BY <1>1, InputKept DEF IInv
<1>3. TypeInv'
  BY <1>1, <1>2 DEF TypeInv, IInv
<1>4. QueueInv'
  <2>1. Ordered(withFixes)'
    BY <1>1, InputKept DEF QueueInv, IInv
  <2> QED BY <1>1, <1>2, <2>1 DEF QueueInv, IInv, Start
<1>5. ShareInv' /\ PutOffInv'
  BY <1>1, <1>2 DEF ShareInv, PutOffInv, PutOff, IInv, Ids
<1>6. ApplyInv' /\ Done' = Done
  BY <1>1, ApplyingKept DEF IInv
<1>7. OutputInv'
  BY <1>1, <1>6 DEF OutputInv, IInv
<1> QED BY <1>2, <1>3, <1>4, <1>5, <1>6, <1>7 DEF IInv

LEMMA FixesInvariant ==
  ASSUME InputsAssumption
  PROVE  Spec => []IInv
<1>1. Init => IInv
  BY FixesInit
<1>2. IInv /\ [Next]_vars => IInv'
  BY PartitionStep, SkipStep, StartApplyingStep, ApplyFixStep, NextDiagnosticStep, ReturnStep,
     FixesStutter DEF Next
<1> QED BY <1>1, <1>2, PTL DEF Spec

-----------------------------------------------------------------------------
(* What is returned. *)

\* ApplyRuleFixes does not panic: whatever order the sorts leave, it never slices the
\* text backwards.
THEOREM FixerNeverPanics ==
  ASSUME InputsAssumption
  PROVE  Spec => [](pc # "panic")
<1>1. IInv => pc # "panic"
  BY DEF IInv, TypeInv
<1> QED BY <1>1, FixesInvariant, PTL

\* The output is the text with exactly the fixes of the applied diagnostics made.
LEMMA OutputIsRight ==
  ASSUME InputsAssumption, IInv
  PROVE  OutputIsFixedCode
<1> SUFFICES ASSUME pc = "returned"
             PROVE  /\ \A f, g \in AppliedFixes : f # g => Disjoint(f, g)
                    /\ IsInjective(builder)
                    /\ Range(builder) = { i \in 1 .. CodeLen : ~ Covered(i) }
                                         \cup { f.text : f \in AppliedFixes }
                    /\ \A j, k \in DOMAIN builder : builder[j] \notin Texts =>
                         /\ builder[k] \notin Texts => (j < k => builder[j] < builder[k])
                         /\ \A f \in AppliedFixes : builder[k] = f.text =>
                              (IF j < k THEN builder[j] <= f.pos ELSE builder[j] > f.end)
  BY DEF OutputIsFixedCode
<1>1. Done = AppliedFixes
  BY AllDone DEF IInv, TypeInv
<1>2. Written(builder, AppliedFixes, CodeLen)
  BY <1>1 DEF IInv, OutputInv
<1>3. \A f, g \in AppliedFixes : f # g => Disjoint(f, g)
  BY <1>1 DEF IInv, ApplyInv
<1>4. Kept(AppliedFixes, CodeLen) = { i \in 1 .. CodeLen : ~ Covered(i) }
  BY DEF Kept, Covered
<1>5. IsInjective(builder)
      /\ Range(builder) = Kept(AppliedFixes, CodeLen) \cup { f.text : f \in AppliedFixes }
  BY <1>2 DEF Written, Contents
<1>6. builder \in Seq(Int) /\ DOMAIN builder = 1 .. Len(builder)
  BY DEF IInv, TypeInv
<1>7. ASSUME NEW j \in DOMAIN builder, NEW k \in DOMAIN builder, builder[j] \notin Texts
      PROVE  /\ builder[k] \notin Texts => (j < k => builder[j] < builder[k])
             /\ \A f \in AppliedFixes : builder[k] = f.text =>
                  (IF j < k THEN builder[j] <= f.pos ELSE builder[j] > f.end)
  <2>1. builder[k] \notin Texts => (j < k => builder[j] < builder[k])
    BY <1>2, <1>6, <1>7 DEF Written, InTextOrder
  <2>2. ASSUME NEW f \in AppliedFixes, builder[k] = f.text
        PROVE  IF j < k THEN builder[j] <= f.pos ELSE builder[j] > f.end
    <3>1. f.text \in Texts
      <4>1. PICK d \in applied : f \in fixes[d]
        BY DEF AppliedFixes
      <4>2. d \in Diagnostics /\ InputInv
        BY DEF IInv, TypeInv
      <4>3. f \in Fix
        BY <4>1, <4>2, FixesAreRanges
      <4> QED BY <4>3 DEF Fix
    <3>2. j # k
      BY <1>7, <2>2, <3>1
    <3>3. j < k \/ k < j
      BY <1>6, <3>2
    <3>4. (j < k => builder[j] <= f.pos) /\ (k < j => builder[j] > f.end)
      BY <1>2, <1>6, <1>7, <2>2 DEF Written, TextsInPlace
    <3> QED BY <3>3, <3>4
  <2> QED BY <2>1, <2>2
<1> QED BY <1>3, <1>4, <1>5, <1>7

\* The caller gets back exactly the diagnostics that were not applied, and each that has
\* fixes overlaps an applied one; the flag says whether anything was fixed.
LEMMA RestIsRight ==
  ASSUME IInv
  PROVE  NoDiagnosticIsLost /\ PutOffForAReason
<1>1. ASSUME IInv, pc = "returned"
      PROVE  IsInjective(unapplied) /\ Range(unapplied) = Diagnostics \ applied
  <2>1. Ids(withFixes) = {}
    BY <1>1 DEF IInv, TypeInv, Ids
  <2>2. Range(unapplied) \cup applied = Diagnostics /\ Range(unapplied) \cap applied = {}
    BY <1>1, <2>1 DEF IInv, ShareInv
  <2> QED BY <1>1, <2>2 DEF IInv, ShareInv
<1>2. IInv => NoDiagnosticIsLost
  BY <1>1 DEF NoDiagnosticIsLost
<1>3. ASSUME IInv, pc = "returned"
      PROVE  \A d \in Diagnostics \ applied : fixes[d] # {} => PutOff(d)
  BY <1>1, <1>3 DEF IInv, PutOffInv
<1>4. ASSUME IInv, pc = "returned"
      PROVE  fixed <=> \E d \in Diagnostics : fixes[d] # {}
  <2>1. fixed <=> AppliedFixes # {}
    <3>1. Done = AppliedFixes
      BY <1>4, AllDone DEF IInv, TypeInv
    <3> QED BY <1>4, <3>1 DEF IInv, ApplyInv
  <2>2. ASSUME AppliedFixes # {} PROVE \E d \in Diagnostics : fixes[d] # {}
    BY <1>4, <2>2 DEF AppliedFixes, IInv, TypeInv
  <2>3. ASSUME NEW d \in Diagnostics, fixes[d] # {} PROVE AppliedFixes # {}
    <3>1. CASE d \in applied
      BY <2>3, <3>1 DEF AppliedFixes
    <3>2. CASE d \notin applied
      BY <1>3, <1>4, <2>3, <3>2 DEF PutOff, AppliedFixes
    <3> QED BY <3>1, <3>2
  <2> QED BY <2>1, <2>2, <2>3
<1>5. IInv => PutOffForAReason
  BY <1>3, <1>4 DEF PutOffForAReason, PutOff, FirstFix
<1> QED BY <1>2, <1>5

LEMMA ReturnedIsRight ==
  ASSUME InputsAssumption, IInv
  PROVE  OutputIsFixedCode /\ NoDiagnosticIsLost /\ PutOffForAReason
BY OutputIsRight, RestIsRight

\* What ApplyRuleFixes returns is the text with the fixes of the applied diagnostics made,
\* and the other diagnostics, each put off for an applied one that it overlaps.
THEOREM FixesAreMade ==
  ASSUME InputsAssumption
  PROVE  Spec => [](OutputIsFixedCode /\ NoDiagnosticIsLost /\ PutOffForAReason)
<1>1. IInv => OutputIsFixedCode /\ NoDiagnosticIsLost /\ PutOffForAReason
  BY ReturnedIsRight
<1> QED BY <1>1, FixesInvariant, PTL
=============================================================================
