----------------------------- MODULE Induction -----------------------------
(***************************************************************************)
(* Induction over the natural numbers, and definition by recursion over    *)
(* them, for the proofs of this directory.  The theorems of the standard   *)
(* library are about any predicate and any operator; these are about sets  *)
(* and functions, which the provers can give values to.                    *)
(***************************************************************************)
EXTENDS Integers, TLAPS, WellFoundedInduction

\* A set that has zero, and with a number the next one, has all numbers.
LEMMA SetInduction ==
  ASSUME NEW S, 0 \in S, \A n \in Nat : n \in S => n + 1 \in S
  PROVE  Nat \subseteq S
<1> DEFINE T == Nat \ S
           R == OpToRel(<, Nat)
<1> SUFFICES ASSUME T # {} PROVE FALSE
  OBVIOUS
<1>1. IsWellFoundedOn(R, Nat)
  BY NatLessThanWellFounded
<1>2. PICK x \in T : \A y \in T : ~ (<<y, x>> \in R)
  <2> HIDE DEF R
  <2> QED BY <1>1, WFMin
<1>3. x \in Nat /\ x # 0
  OBVIOUS
<1>4. x - 1 \in Nat /\ x - 1 < x
  BY <1>3
<1>5. x - 1 \in T => <<x - 1, x>> \in R
  BY <1>3, <1>4 DEF OpToRel
<1>6. x - 1 \in S
  BY <1>2, <1>4, <1>5
<1>7. (x - 1) + 1 = x
  BY <1>3
<1> QED BY <1>2, <1>4, <1>6, <1>7

\* The first n + 1 values of the function that starts with b and goes on as F says.
Unfolds(g, n, b, F) ==
  g[0] = b /\ \A i \in 0 .. n - 1 : g[i + 1] = F[g[i]][i + 1]

LEMMA UnfoldingExists ==
  ASSUME NEW V, NEW b \in V, NEW F \in [V -> [Nat -> V]], NEW n \in Nat
  PROVE  \E g \in [Nat -> V] : Unfolds(g, n, b, F)
<1> DEFINE S == { k \in Nat : \E g \in [Nat -> V] : Unfolds(g, k, b, F) }
<1>1. 0 \in S
  <2>1. [i \in Nat |-> b] \in [Nat -> V] /\ Unfolds([i \in Nat |-> b], 0, b, F)
    BY DEF Unfolds
  <2> QED BY <2>1
<1>2. ASSUME NEW k \in Nat, k \in S PROVE k + 1 \in S
  <2>1. PICK g \in [Nat -> V] : Unfolds(g, k, b, F)
    BY <1>2
  <2> DEFINE h == [g EXCEPT ![k + 1] = F[g[k]][k + 1]]
  <2>2. h \in [Nat -> V] /\ h[0] = b
    BY <2>1 DEF Unfolds
  <2>3. ASSUME NEW i \in 0 .. (k + 1) - 1 PROVE h[i + 1] = F[h[i]][i + 1]
    <3>1. h[i] = g[i]
      OBVIOUS
    <3>2. CASE i = k
      BY <3>1, <3>2
    <3>3. CASE i # k
      <4>1. i \in 0 .. k - 1 /\ h[i + 1] = g[i + 1]
        BY <3>3
      <4> QED BY <2>1, <3>1, <4>1 DEF Unfolds
    <3> QED BY <3>2, <3>3
  <2>4. Unfolds(h, k + 1, b, F)
    <3> HIDE DEF h
    <3> QED BY <2>2, <2>3 DEF Unfolds
  <2> HIDE DEF h
  <2> QED BY <2>2, <2>4
<1>3. Nat \subseteq S
  <2> HIDE DEF S
  <2> QED BY <1>1, <1>2, SetInduction
<1> QED BY <1>3

\* As far as two functions start and go on so, they agree.
Unique(V, b, F) ==
  \A m, n \in Nat : \A g, h \in [Nat -> V] :
    Unfolds(g, m, b, F) /\ Unfolds(h, n, b, F) /\ m <= n => g[m] = h[m]

LEMMA UnfoldingUnique ==
  ASSUME NEW V, NEW b \in V, NEW F \in [V -> [Nat -> V]]
  PROVE  Unique(V, b, F)
<1> SUFFICES ASSUME NEW m \in Nat, NEW n \in Nat, m <= n,
                    NEW g \in [Nat -> V], Unfolds(g, m, b, F),
                    NEW h \in [Nat -> V], Unfolds(h, n, b, F)
             PROVE  g[m] = h[m]
  BY DEF Unique
<1> DEFINE S == { k \in Nat : k <= m => g[k] = h[k] }
<1>1. 0 \in S
  BY DEF Unfolds
<1>2. ASSUME NEW k \in Nat, k \in S PROVE k + 1 \in S
  <2> SUFFICES ASSUME k + 1 <= m PROVE g[k + 1] = h[k + 1]
    OBVIOUS
  <2>1. k \in 0 .. m - 1 /\ k \in 0 .. n - 1 /\ g[k] = h[k]
    BY <1>2
  <2> QED BY <2>1 DEF Unfolds
<1>3. Nat \subseteq S
  <2> HIDE DEF S
  <2> QED BY <1>1, <1>2, SetInduction
<1> QED BY <1>3

\* Whatever the start and the step, a function is defined by them.
Follows(f, b, F) == f[0] = b /\ \A n \in Nat : f[n + 1] = F[f[n]][n + 1]

LEMMA RecursionDefines ==
  ASSUME NEW V, NEW b \in V, NEW F \in [V -> [Nat -> V]]
  PROVE  \E f \in [Nat -> V] : Follows(f, b, F)
<1> DEFINE G(n) == CHOOSE g \in [Nat -> V] : Unfolds(g, n, b, F)
           f == [n \in Nat |-> G(n)[n]]
<1>0. Unique(V, b, F)
  BY UnfoldingUnique
<1>1. ASSUME NEW n \in Nat PROVE G(n) \in [Nat -> V] /\ Unfolds(G(n), n, b, F)
  <2>1. \E g \in [Nat -> V] : Unfolds(g, n, b, F)
    BY UnfoldingExists
  <2> QED BY <2>1
<1>2. f \in [Nat -> V]
  <2> HIDE DEF G
  <2> QED BY <1>1
<1>3. f[0] = b
  <2>1. Unfolds(G(0), 0, b, F)
    BY <1>1
  <2>2. f[0] = G(0)[0]
    OBVIOUS
  <2> HIDE DEF G
  <2> QED BY <2>1, <2>2 DEF Unfolds
<1>4. ASSUME NEW n \in Nat PROVE f[n + 1] = F[f[n]][n + 1]
  <2> DEFINE m == n + 1
             g == G(n)
             h == G(m)
  <2>1. m \in Nat /\ n <= m /\ n \in 0 .. m - 1
    OBVIOUS
  <2>2. g \in [Nat -> V] /\ Unfolds(g, n, b, F) /\ h \in [Nat -> V] /\ Unfolds(h, m, b, F)
    <3> HIDE DEF G, m
    <3> QED BY <1>1, <2>1
  <2>3. f[n] = g[n] /\ f[m] = h[m]
    BY <2>1
  <2> HIDE DEF G, g, h, f, m
  <2>4. g[n] = h[n]
    BY <1>0, <2>1, <2>2 DEF Unique
  <2>5. h[n + 1] = F[h[n]][n + 1]
    BY <2>1, <2>2 DEF Unfolds
  <2>6. f[m] = F[f[n]][n + 1]
    BY <2>3, <2>4, <2>5 DEF m
  <2> QED BY <2>6 DEF m
<1> HIDE DEF f
<1> QED BY <1>2, <1>3, <1>4 DEF Follows
=============================================================================
