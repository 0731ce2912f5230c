-------------------------- MODULE DirVisitorProofs --------------------------
(***************************************************************************)
(* Proofs about DirVisitor, for any tree of directories, any number of     *)
(* workers and any capacity of the channel of jobs.                        *)
(***************************************************************************)
EXTENDS DirVisitor, FiniteSetTheorems, SequenceTheorems, Induction, TLAPS

-----------------------------------------------------------------------------
(* Sequences used as channels and stacks. *)

\* Taking the head off, and putting another one in its place.
LEMMA HeadAndTail ==
  ASSUME NEW S, NEW s \in Seq(S), s # << >>
  PROVE  /\ Len(s) \in Nat \ {0} /\ Head(s) \in S /\ Head(s) = s[1]
         /\ Tail(s) \in Seq(S) /\ Len(Tail(s)) = Len(s) - 1
         /\ \A i \in 1 .. Len(s) - 1 : Tail(s)[i] = s[i + 1]
BY EmptySeq, HeadTailProperties

LEMMA PutOnTop ==
  ASSUME NEW S, NEW s \in Seq(S), NEW x \in S
  PROVE  /\ <<x>> \o s \in Seq(S) /\ Len(s) \in Nat /\ Len(<<x>> \o s) = Len(s) + 1
         /\ (<<x>> \o s)[1] = x
         /\ \A i \in 2 .. Len(s) + 1 : (<<x>> \o s)[i] = s[i - 1]
OBVIOUS

LEMMA ReplaceTop ==
  ASSUME NEW S, NEW s \in Seq(S), s # << >>, NEW x \in S
  PROVE  /\ <<x>> \o Tail(s) \in Seq(S) /\ Len(<<x>> \o Tail(s)) = Len(s)
         /\ (<<x>> \o Tail(s))[1] = x
         /\ \A i \in 2 .. Len(s) : (<<x>> \o Tail(s))[i] = s[i]
BY HeadAndTail, PutOnTop

-----------------------------------------------------------------------------
(* Selecting from a sequence. *)

Distinct(s) == \A i, j \in 1 .. Len(s) : s[i] = s[j] => i = j

\* What has been selected from the first n elements.
Chosen(t, s, n, S) ==
  /\ \A k \in 1 .. Len(t) : t[k] \in S /\ \E i \in 1 .. n : s[i] = t[k]
  /\ \A i \in 1 .. n : s[i] \in S => \E k \in 1 .. Len(t) : t[k] = s[i]
  /\ Distinct(s) => Distinct(t)

LEMMA ChosenNext ==
  ASSUME NEW E, NEW s \in Seq(E), NEW S, NEW n \in Nat, n + 1 <= Len(s),
         NEW t \in Seq(E), Chosen(t, s, n, S)
  PROVE  IF s[n + 1] \in S THEN Chosen(Append(t, s[n + 1]), s, n + 1, S)
                           ELSE Chosen(t, s, n + 1, S)
<1>1. CASE s[n + 1] \notin S
  BY <1>1 DEF Chosen
<1>2. CASE s[n + 1] \in S
  <2> DEFINE m == n + 1
             u == Append(t, s[m])
  <2>1. /\ m \in 1 .. Len(s) /\ n \in Nat /\ 1 .. m = (1 .. n) \cup {m} /\ m \notin 1 .. n
        /\ Len(t) \in Nat /\ Len(u) = Len(t) + 1 /\ u[Len(t) + 1] = s[m]
        /\ \A k \in 1 .. Len(t) : u[k] = t[k]
        /\ 1 .. Len(u) = (1 .. Len(t)) \cup {Len(t) + 1}
    OBVIOUS
  <2>2. s[m] \in S
    BY <1>2
  <2> HIDE DEF m, u
  <2>3. \A k \in 1 .. Len(u) : u[k] \in S /\ \E i \in 1 .. m : s[i] = u[k]
    BY <2>1, <2>2 DEF Chosen
  <2>4. \A i \in 1 .. m : s[i] \in S => \E k \in 1 .. Len(u) : u[k] = s[i]
    BY <2>1, <2>2 DEF Chosen
  <2>5. ASSUME Distinct(s) PROVE Distinct(u)
    <3>1. \A k \in 1 .. Len(t) : u[k] # s[m]
      <4> SUFFICES ASSUME NEW k \in 1 .. Len(t), t[k] = s[m] PROVE FALSE
        BY <2>1
      <4>1. PICK i \in 1 .. n : s[i] = s[m]
        BY DEF Chosen
      <4> QED BY <2>1, <2>5, <4>1 DEF Distinct
    <3>2. Distinct(t)
      BY <2>5 DEF Chosen
    <3> QED BY <2>1, <3>1, <3>2 DEF Distinct
  <2>6. Chosen(u, s, m, S)
    BY <2>3, <2>4, <2>5 DEF Chosen
  <2> QED BY <1>2, <2>6 DEF m, u
<1> QED BY <1>1, <1>2

LEMMA SelectedFacts ==
  ASSUME NEW E, NEW s \in Seq(E), NEW S
  PROVE  Selected(s, S) \in Seq(E) /\ Chosen(Selected(s, S), s, Len(s), S)
<1> DEFINE V == Seq(E)
           Take(v, n) == IF s[n] \in S THEN Append(v, s[n]) ELSE v
           Step(f, n) == IF n = 0 THEN << >> ELSE Take(f[n - 1], n)
           F == [v \in V |-> [n \in Nat |-> IF n \in 1 .. Len(s) THEN Take(v, n) ELSE v]]
           UpTo == CHOOSE f : f = [n \in 0 .. Len(s) |-> Step(f, n)]
<1>1. << >> \in V /\ F \in [V -> [Nat -> V]] /\ Len(s) \in Nat
  <2>1. \A n \in 1 .. Len(s) : s[n] \in E
    OBVIOUS
  <2> QED BY <2>1
<1>2. PICK f \in [Nat -> V] : Follows(f, << >>, F)
  <2> DEFINE b == << >>
  <2>1. b \in V
    BY <1>1
  <2> HIDE DEF V, F, b
  <2>2. \E f \in [Nat -> V] : Follows(f, b, F)
    BY <1>1, <2>1, RecursionDefines
  <2> QED BY <2>2 DEF b
<1>3. ASSUME NEW n \in 0 .. Len(s) - 1 PROVE f[n + 1] = Take(f[n], n + 1)
  <2>1. n \in Nat /\ n + 1 \in Nat /\ n + 1 \in 1 .. Len(s)
    BY <1>1
  <2>2. f[n + 1] = F[f[n]][n + 1]
    <3> HIDE DEF F, V, Take
    <3> QED BY <1>2, <2>1 DEF Follows
  <2>3. f[n] \in V
    BY <2>1
  <2> HIDE DEF V, Take
  <2> QED BY <2>1, <2>2, <2>3
<1> DEFINE g == [n \in 0 .. Len(s) |-> f[n]]
<1>4. g = [n \in 0 .. Len(s) |-> Step(g, n)]
  <2>1. ASSUME NEW n \in 0 .. Len(s) PROVE f[n] = Step(g, n)
    <3>1. CASE n = 0
      BY <1>2, <3>1 DEF Follows
    <3>2. CASE n # 0
      <4> DEFINE m == n - 1
      <4>1. m \in 0 .. Len(s) - 1 /\ m \in 0 .. Len(s) /\ m + 1 = n
        BY <1>1, <3>2
      <4>2. f[m + 1] = Take(f[m], m + 1)
        BY <1>3, <4>1
      <4>3. g[m] = f[m]
        BY <4>1
      <4> HIDE DEF g, Take
      <4> QED BY <3>2, <4>1, <4>2, <4>3
    <3> QED BY <3>1, <3>2
  <2> HIDE DEF Step
  <2> QED BY <2>1
<1>5. UpTo = [n \in 0 .. Len(s) |-> Step(UpTo, n)]
  <2> HIDE DEF Step, g
  <2> QED BY <1>4
<1>6. Selected(s, S) = UpTo[Len(s)]
  BY DEF Selected
<1> HIDE DEF UpTo
<1>7. UpTo[0] = << >>
  BY <1>1, <1>5
<1>8. ASSUME NEW n \in Nat, n + 1 <= Len(s)
      PROVE  UpTo[n + 1] = Take(UpTo[n], n + 1)
  <2> DEFINE m == n + 1
  <2>1. m \in 0 .. Len(s) /\ m # 0 /\ m - 1 = n
    BY <1>8, <1>1
  <2> HIDE DEF m
  <2>2. UpTo[m] = Step(UpTo, m)
    <3> HIDE DEF Step
    <3> QED BY <1>5, <2>1
  <2>3. UpTo[m] = Take(UpTo[n], m)
    BY <2>1, <2>2
  <2> QED BY <2>3 DEF m
<1> DEFINE T == { n \in Nat : n <= Len(s) => UpTo[n] \in Seq(E) /\ Chosen(UpTo[n], s, n, S) }
<1>9. 0 \in T
  <2>1. << >> \in Seq(E) /\ Chosen(<< >>, s, 0, S)
    BY DEF Chosen, Distinct
  <2> HIDE DEF UpTo
  <2> QED BY <1>7, <2>1
<1>10. ASSUME NEW n \in Nat, n \in T PROVE n + 1 \in T
  <2> SUFFICES ASSUME n + 1 <= Len(s)
               PROVE  UpTo[n + 1] \in Seq(E) /\ Chosen(UpTo[n + 1], s, n + 1, S)
    OBVIOUS
  <2>1. UpTo[n] \in Seq(E) /\ Chosen(UpTo[n], s, n, S) /\ s[n + 1] \in E
    <3>1. n <= Len(s) /\ n + 1 \in 1 .. Len(s)
      BY <1>1
    <3> QED BY <1>1, <1>10, <3>1
  <2>2. UpTo[n + 1] = Take(UpTo[n], n + 1)
    BY <1>8
  <2>3. IF s[n + 1] \in S THEN Chosen(Append(UpTo[n], s[n + 1]), s, n + 1, S)
                          ELSE Chosen(UpTo[n], s, n + 1, S)
    BY <2>1, ChosenNext
  <2>4. CASE s[n + 1] \in S
    BY <2>1, <2>2, <2>3, <2>4
  <2>5. CASE s[n + 1] \notin S
    BY <2>1, <2>2, <2>3, <2>5
  <2> QED BY <2>4, <2>5
<1>11. Nat \subseteq T
  <2> HIDE DEF T
  <2> QED BY <1>9, <1>10, SetInduction
<1> QED BY <1>1, <1>6, <1>11

-----------------------------------------------------------------------------
(* Type correctness. *)

\* What a call of visitScheduler starts with.
LEMMA VisitedType ==
  ASSUME NEW job \in Job
  PROVE  Visited(job) \in Frame /\ Visited(job).at = "visited"
<1>1. job.dir \in Dirs /\ job.depth \in Int \cup {NoDepth}
  BY DEF Job
<1> DEFINE within == MatchingDirs(job.dir)
           below == IF job.depth = NoDepth THEN NoDepth ELSE job.depth - 1
<1>2. within \in Seq(Dirs) /\ FilesFound(job.dir) \in Seq(FileNames)
  BY <1>1, FilesAssumption, SubDirsAssumption, SelectedFacts DEF FilesFound, MatchingDirs
<1>3. below \in Int \cup {NoDepth}
  BY <1>1, DepthAssumption
<1>4. NewJobs(job.dir, job.depth) \in Seq(Job)
  <2>1. CASE DepthLeft(job.depth)
    <3> DEFINE new == [i \in DOMAIN within |-> [dir |-> within[i], depth |-> below]]
    <3>1. NewJobs(job.dir, job.depth) = new
      BY <2>1 DEF NewJobs
    <3>2. DOMAIN within = 1 .. Len(within) /\ Len(within) \in Nat
      BY <1>2, LenProperties
    <3>3. \A i \in 1 .. Len(within) : [dir |-> within[i], depth |-> below] \in Job
      BY <1>2, <1>3, ElementOfSeq DEF Job
    <3> HIDE DEF within, below
    <3>4. QED
      BY <3>1, <3>2, <3>3
  <2>2. CASE ~ DepthLeft(job.depth)
    BY <2>2, EmptySeq DEF NewJobs
  <2>3. QED
    BY <2>1, <2>2
<1>5. QED
  BY <1>2, <1>4 DEF Visited, Frame

-----------------------------------------------------------------------------
(* What the channel and the calls answer for, as tokens. *)

Positive == Nat \ {0}

\* How much each call of a stack answers for, from the outermost one.
CountsIn(s) ==
  [k \in Positive |-> IF k <= Len(s) THEN OutstandingIn(s[Len(s) + 1 - k]) ELSE 0]

Counts == [w \in Workers |-> CountsIn(stack[w])]

\* The tokens of a channel of m jobs and of calls with these counts.
Tokens(m, counts) ==
  { <<0, 0, i>> : i \in 1 .. m } \cup
  { t \in Workers \X Positive \X Positive : t[3] <= counts[t[1]][t[2]] }

LEMMA OutstandingInType ==
  ASSUME NEW frame \in Frame
  PROVE  OutstandingIn(frame) \in Nat
<1>1. frame.at \in {"visited", "counted", "handOut"} /\ Len(frame.newJobs) \in Nat
  BY LenProperties DEF Frame
<1>2. QED
  BY <1>1 DEF OutstandingIn

LEMMA CountsInType ==
  ASSUME NEW s \in Seq(Frame)
  PROVE  CountsIn(s) \in [Positive -> Nat]
<1>1. ASSUME NEW k \in Positive, k <= Len(s)
      PROVE  OutstandingIn(s[Len(s) + 1 - k]) \in Nat
  <2>1. Len(s) + 1 - k \in 1 .. Len(s)
    BY <1>1, LenProperties DEF Positive
  <2>2. s[Len(s) + 1 - k] \in Frame
    BY <2>1, ElementOfSeq
  <2>3. QED
    BY <2>2, OutstandingInType
<1>2. QED
  BY <1>1 DEF CountsIn

\* A call begins: one count is set, the others stay.
LEMMA CountsPushed ==
  ASSUME NEW s \in Seq(Frame), NEW frame \in Frame
  PROVE  CountsIn(<<frame>> \o s) = [CountsIn(s) EXCEPT ![Len(s) + 1] = OutstandingIn(frame)]
<1> DEFINE t == <<frame>> \o s
<1>1. /\ t \in Seq(Frame) /\ Len(s) \in Nat /\ Len(t) = Len(s) + 1 /\ t[1] = frame
      /\ \A i \in 2 .. Len(s) + 1 : t[i] = s[i - 1]
  BY PutOnTop
<1> HIDE DEF t
<1>2. ASSUME NEW k \in Positive
      PROVE  CountsIn(t)[k] = [CountsIn(s) EXCEPT ![Len(s) + 1] = OutstandingIn(frame)][k]
  <2>1. CASE k = Len(s) + 1
    <3>1. Len(t) + 1 - k = 1 /\ k <= Len(t)
      BY <1>1, <2>1
    <3>2. QED
      BY <1>1, <2>1, <3>1 DEF CountsIn
  <2>2. CASE k > Len(s) + 1
    BY <1>1, <2>2 DEF CountsIn, Positive
  <2>3. CASE k <= Len(s)
    <3> DEFINE j == Len(s) + 2 - k
    <3>1. j \in 2 .. Len(s) + 1 /\ j - 1 = Len(s) + 1 - k /\ Len(t) + 1 - k = j
      BY <1>1, <2>3 DEF Positive
    <3> HIDE DEF j
    <3>2. t[j] = s[j - 1]
      BY <1>1, <3>1
    <3>3. k <= Len(t) /\ k # Len(s) + 1 /\ Len(s) + 1 \in Positive
      BY <1>1, <2>3 DEF Positive
    <3>4. CountsIn(t)[k] = OutstandingIn(t[j])
      BY <3>1, <3>3 DEF CountsIn
    <3>5. CountsIn(s)[k] = OutstandingIn(s[j - 1])
      BY <2>3, <3>1 DEF CountsIn
    <3>6. QED
      BY <3>2, <3>3, <3>4, <3>5 DEF CountsIn
  <2>4. QED
    BY <1>1, <2>1, <2>2, <2>3 DEF Positive
<1>3. QED
  BY <1>2 DEF CountsIn, t

\* A stack is its innermost call on top of the others.
LEMMA CountsSplit ==
  ASSUME NEW s \in Seq(Frame), s # << >>
  PROVE  CountsIn(s) = [CountsIn(Tail(s)) EXCEPT ![Len(s)] = OutstandingIn(Head(s))]
<1>1. Tail(s) \in Seq(Frame) /\ Head(s) \in Frame /\ Len(Tail(s)) + 1 = Len(s)
  BY HeadAndTail
<1>2. s = <<Head(s)>> \o Tail(s)
  BY HeadTailProperties
<1>3. QED
  BY <1>1, <1>2, CountsPushed

\* The innermost call goes on.
LEMMA CountsReplaced ==
  ASSUME NEW s \in Seq(Frame), s # << >>, NEW frame \in Frame
  PROVE  CountsIn(<<frame>> \o Tail(s)) = [CountsIn(s) EXCEPT ![Len(s)] = OutstandingIn(frame)]
<1>1. Tail(s) \in Seq(Frame) /\ Len(Tail(s)) + 1 = Len(s) /\ Len(s) \in Positive
  BY HeadAndTail DEF Positive
<1>2. CountsIn(<<frame>> \o Tail(s)) = [CountsIn(Tail(s)) EXCEPT ![Len(s)] = OutstandingIn(frame)]
  BY <1>1, CountsPushed
<1>3. CountsIn(Tail(s)) \in [Positive -> Nat]
  BY <1>1, CountsInType
<1>4. QED
  BY <1>2, <1>3, CountsSplit

LEMMA CountsType ==
  ASSUME TypeOK
  PROVE  Counts \in [Workers -> [Positive -> Nat]]
BY CountsInType DEF TypeOK, Counts

LEMMA ChannelTokens ==
  ASSUME NEW m \in Nat
  PROVE  LET channel == { <<0, 0, i>> : i \in 1 .. m }
         IN  IsFiniteSet(channel) /\ Cardinality(channel) = m
<1> DEFINE channel == { <<0, 0, i>> : i \in 1 .. m }
           f == [i \in 1 .. m |-> <<0, 0, i>>]
<1>1. IsFiniteSet(1 .. m) /\ Cardinality(1 .. m) = m
  <2>1. Cardinality(1 .. m) = IF 1 > m THEN 0 ELSE m - 1 + 1
    BY FS_Interval
  <2>2. QED
    BY <2>1, FS_Interval
<1>2. f \in Bijection(1 .. m, channel)
  BY DEF Bijection, Injection, Surjection, IsInjective
<1>3. ExistsBijection(1 .. m, channel)
  BY <1>2 DEF ExistsBijection
<1> HIDE DEF channel
<1>4. IsFiniteSet(channel) /\ Cardinality(channel) = m
  BY <1>1, <1>3, FS_Bijection
<1>5. QED
  BY <1>4 DEF channel

\* The counts after that of the call k of w has become x.
WithCount(c, w, k, x) == [c EXCEPT ![w][k] = x]

\* One count grows: as many tokens are new as it has grown by.
LEMMA CountGrown ==
  ASSUME NEW c \in [Workers -> [Positive -> Nat]], NEW m \in Nat,
         NEW w \in Workers, NEW k \in Positive, NEW x \in Nat,
         NEW y \in Nat, c[w][k] = y, y <= x,
         IsFiniteSet(Tokens(m, c))
  PROVE  /\ IsFiniteSet(Tokens(m, WithCount(c, w, k, x)))
         /\ Cardinality(Tokens(m, WithCount(c, w, k, x))) =
              Cardinality(Tokens(m, c)) + (x - y)
<1> DEFINE c2 == [c EXCEPT ![w][k] = x]
           new == { <<w, k, i>> : i \in y + 1 .. x }
           f == [i \in y + 1 .. x |-> <<w, k, i>>]
<1>2. IsFiniteSet(y + 1 .. x) /\ Cardinality(y + 1 .. x) = x - y
  <2>1. y + 1 \in Int /\ x \in Int
    OBVIOUS
  <2>2. Cardinality(y + 1 .. x) = IF y + 1 > x THEN 0 ELSE x - (y + 1) + 1
    BY <2>1, FS_Interval
  <2>4. Cardinality(y + 1 .. x) = x - y
    BY <2>2
  <2>5. QED
    BY <2>1, <2>4, FS_Interval
<1>3. ExistsBijection(y + 1 .. x, new)
  <2>1. f \in Bijection(y + 1 .. x, new)
    BY DEF Bijection, Injection, Surjection, IsInjective
  <2>2. QED
    BY <2>1 DEF ExistsBijection
<1>4. IsFiniteSet(new) /\ Cardinality(new) = x - y
  <2> HIDE DEF new
  <2>1. QED
    BY <1>2, <1>3, FS_Bijection
<1>5. \A v \in Workers, l \in Positive :
         c2[v][l] = IF v = w /\ l = k THEN x ELSE c[v][l]
  OBVIOUS
<1>6. Tokens(m, c2) = Tokens(m, c) \cup new
  <2>1. ASSUME NEW t \in Workers \X Positive \X Positive
        PROVE  t[3] <= c2[t[1]][t[2]] <=> t[3] <= c[t[1]][t[2]] \/ t \in new
    <3>1. /\ t = <<t[1], t[2], t[3]>>
          /\ t[1] \in Workers /\ t[2] \in Positive /\ t[3] \in Positive
      OBVIOUS
    <3>2. t \in new <=> t[1] = w /\ t[2] = k /\ t[3] \in y + 1 .. x
      BY <3>1
    <3>3. c[t[1]][t[2]] \in Nat
      BY <3>1
    <3>4. QED
      BY <1>5, <3>1, <3>2, <3>3 DEF Positive
  <2>2. new \subseteq Workers \X Positive \X Positive
    BY DEF Positive
  <2>3. QED
    BY <2>1, <2>2 DEF Tokens
<1>7. Tokens(m, c) \cap new = {}
  <2>1. ASSUME NEW i \in y + 1 .. x, <<w, k, i>> \in Tokens(m, c)
        PROVE  FALSE
    BY <2>1, GOMAXPROCSAssumption DEF Tokens, Workers
  <2>2. QED
    BY <2>1
<1>8. IsFiniteSet(Tokens(m, c2)) /\
      Cardinality(Tokens(m, c2)) = Cardinality(Tokens(m, c)) + (x - y)
  <2> HIDE DEF new, c2
  <2>1. /\ IsFiniteSet(Tokens(m, c) \cup new)
        /\ Cardinality(Tokens(m, c) \cup new) =
             Cardinality(Tokens(m, c)) + Cardinality(new) - Cardinality(Tokens(m, c) \cap new)
    BY <1>4, FS_Union
  <2>2. Cardinality(Tokens(m, c)) \in Nat /\ Cardinality(Tokens(m, c) \cap new) = 0
    BY <1>7, FS_CardinalityType, FS_EmptySet
  <2>3. QED
    BY <1>4, <1>6, <2>1, <2>2
<1>9. QED
  BY <1>8 DEF WithCount

\* One count changes, and so does the number of tokens.
LEMMA CountChanged ==
  ASSUME NEW c \in [Workers -> [Positive -> Nat]], NEW m \in Nat,
         NEW w \in Workers, NEW k \in Positive, NEW x \in Nat,
         IsFiniteSet(Tokens(m, c))
  PROVE  /\ WithCount(c, w, k, x) \in [Workers -> [Positive -> Nat]]
         /\ IsFiniteSet(Tokens(m, WithCount(c, w, k, x)))
         /\ Cardinality(Tokens(m, WithCount(c, w, k, x))) =
              Cardinality(Tokens(m, c)) + (x - c[w][k])
<1> DEFINE c2 == WithCount(c, w, k, x)
<1>1. c2 \in [Workers -> [Positive -> Nat]] /\ c2[w][k] = x /\ c[w][k] \in Nat
  BY DEF WithCount
<1> HIDE DEF c2
<1>2. Cardinality(Tokens(m, c)) \in Nat
  BY FS_CardinalityType
<1>3. CASE c[w][k] <= x
  <2> DEFINE y == c[w][k]
  <2>0. y \in Nat /\ c[w][k] = y /\ y <= x
    BY <1>1, <1>3
  <2> HIDE DEF y
  <2>1. /\ IsFiniteSet(Tokens(m, c2))
        /\ Cardinality(Tokens(m, c2)) = Cardinality(Tokens(m, c)) + (x - y)
    BY <2>0, CountGrown DEF c2
  <2>2. QED
    BY <1>1, <1>2, <2>0, <2>1 DEF c2
<1>4. CASE x <= c[w][k]
  <2>1. c = WithCount(c2, w, k, c[w][k])
    BY DEF c2, WithCount
  <2>2. Tokens(m, c2) \subseteq Tokens(m, c)
    <3>1. ASSUME NEW t \in Workers \X Positive \X Positive, t[3] <= c2[t[1]][t[2]]
          PROVE  t[3] <= c[t[1]][t[2]]
      <4>1. t[1] \in Workers /\ t[2] \in Positive /\ t[3] \in Nat
        BY DEF Positive
      <4>2. c2[t[1]][t[2]] = IF t[1] = w /\ t[2] = k THEN x ELSE c[t[1]][t[2]]
        BY <4>1 DEF c2, WithCount
      <4>3. QED
        BY <1>1, <1>4, <3>1, <4>1, <4>2
    <3>2. QED
      BY <3>1 DEF Tokens
  <2>3. IsFiniteSet(Tokens(m, c2))
    BY <2>2, FS_Subset
  <2>4. Cardinality(Tokens(m, c)) = Cardinality(Tokens(m, c2)) + (c[w][k] - x)
    <3> DEFINE y == c[w][k]
    <3>1. y \in Nat /\ c2 \in [Workers -> [Positive -> Nat]] /\ c2[w][k] = x /\ x <= y
      BY <1>1, <1>4
    <3>2. c = WithCount(c2, w, k, y)
      BY <2>1
    <3> HIDE DEF y
    <3>4. Cardinality(Tokens(m, WithCount(c2, w, k, y))) =
            Cardinality(Tokens(m, c2)) + (y - x)
      BY <2>3, <3>1, CountGrown
    <3>5. Cardinality(Tokens(m, c)) = Cardinality(Tokens(m, c2)) + (y - x)
      BY <3>1, <3>2, <3>4
    <3>6. QED
      BY <3>5 DEF y
  <2>5. Cardinality(Tokens(m, c2)) \in Nat
    BY <2>3, FS_CardinalityType
  <2>6. QED
    BY <1>1, <1>2, <2>3, <2>4, <2>5 DEF c2
<1>5. QED
  BY <1>1, <1>3, <1>4 DEF c2

\* A job is put into the channel, or taken out.
LEMMA ChannelGrown ==
  ASSUME NEW c \in [Workers -> [Positive -> Nat]], NEW m \in Nat
  PROVE  /\ IsFiniteSet(Tokens(m, c)) <=> IsFiniteSet(Tokens(m + 1, c))
         /\ IsFiniteSet(Tokens(m, c)) =>
              Cardinality(Tokens(m + 1, c)) = Cardinality(Tokens(m, c)) + 1
<1>1. Tokens(m + 1, c) = Tokens(m, c) \cup {<<0, 0, m + 1>>}
  <2>1. 1 .. m + 1 = (1 .. m) \cup {m + 1}
    OBVIOUS
  <2>2. { <<0, 0, i>> : i \in 1 .. m + 1 } = { <<0, 0, i>> : i \in 1 .. m } \cup {<<0, 0, m + 1>>}
    BY <2>1, Zenon
  <2>3. QED
    BY <2>2 DEF Tokens
<1>2. <<0, 0, m + 1>> \notin Tokens(m, c)
  BY GOMAXPROCSAssumption DEF Tokens, Workers
<1>3. ASSUME IsFiniteSet(Tokens(m, c))
      PROVE  /\ IsFiniteSet(Tokens(m + 1, c))
             /\ Cardinality(Tokens(m + 1, c)) = Cardinality(Tokens(m, c)) + 1
  BY <1>1, <1>2, <1>3, FS_AddElement
<1>4. ASSUME IsFiniteSet(Tokens(m + 1, c))
      PROVE  IsFiniteSet(Tokens(m, c))
  <2>1. Tokens(m, c) \in SUBSET Tokens(m + 1, c)
    BY <1>1
  <2>2. QED
    BY <1>4, <2>1, FS_Subset
<1>5. QED
  BY <1>3, <1>4

\* The outstanding jobs are the tokens of the channel and of the stacks.
LEMMA OutstandingIsTokens ==
  TypeOK => Outstanding = Tokens(Len(jobs), Counts)
<1> SUFFICES ASSUME TypeOK PROVE Outstanding = Tokens(Len(jobs), Counts)
  OBVIOUS
<1>1. \A w \in Workers : stack[w] \in Seq(Frame) /\ Len(stack[w]) \in Nat
  BY LenProperties DEF TypeOK
<1>2. ASSUME NEW w \in Workers, NEW k \in Positive
      PROVE  Counts[w][k] = IF k \in 1 .. Len(stack[w]) THEN OutstandingIn(FrameAt(w, k)) ELSE 0
  BY <1>1 DEF Counts, CountsIn, FrameAt, Positive
<1>3. Counts \in [Workers -> [Positive -> Nat]]
  BY CountsType
<1>4. ASSUME NEW w \in Workers, NEW k \in 1 .. Len(stack[w]),
             NEW i \in 1 .. OutstandingIn(FrameAt(w, k))
      PROVE  <<w, k, i>> \in Tokens(Len(jobs), Counts)
  <2>1. k \in Positive
    BY <1>1 DEF Positive
  <2>2. Counts[w][k] = OutstandingIn(FrameAt(w, k)) /\ Counts[w][k] \in Nat
    BY <1>2, <1>3, <2>1
  <2>3. i \in Positive /\ i <= Counts[w][k]
    BY <2>2 DEF Positive
  <2>4. QED
    BY <2>1, <2>3 DEF Tokens
<1>5. ASSUME NEW t \in Workers \X Positive \X Positive, t[3] <= Counts[t[1]][t[2]]
      PROVE  t \in InFrame(t[1], t[2]) /\ t[1] \in Workers /\ t[2] \in 1 .. Len(stack[t[1]])
  <2>1. t = <<t[1], t[2], t[3]>> /\ t[1] \in Workers /\ t[2] \in Positive /\ t[3] \in Positive
    OBVIOUS
  <2>2. Counts[t[1]][t[2]] \in Nat /\ Counts[t[1]][t[2]] # 0
    BY <1>3, <1>5, <2>1 DEF Positive
  <2>3. t[2] \in 1 .. Len(stack[t[1]]) /\ Counts[t[1]][t[2]] = OutstandingIn(FrameAt(t[1], t[2]))
    BY <1>2, <2>1, <2>2
  <2>4. t[3] \in 1 .. OutstandingIn(FrameAt(t[1], t[2]))
    BY <1>5, <2>1, <2>2, <2>3 DEF Positive
  <2>5. QED
    BY <2>1, <2>3, <2>4 DEF InFrame
<1>6. Tokens(Len(jobs), Counts) \subseteq Outstanding
  BY <1>5 DEF Outstanding, Tokens, InChannel
<1>7. Outstanding \subseteq Tokens(Len(jobs), Counts)
  BY <1>4 DEF Outstanding, Tokens, InChannel, InFrame
<1>8. QED
  BY <1>6, <1>7

LEMMA OutstandingIsTokensNext ==
  TypeOK' => Outstanding' = Tokens(Len(jobs'), Counts')
<1>1. (TypeOK => Outstanding = Tokens(Len(jobs), Counts))'
  BY OutstandingIsTokens, PTL
<1>2. QED
  BY <1>1

-----------------------------------------------------------------------------
(* What each kind of step does to the stacks and the counts. *)

\* The stacks and the counts after the stack of w has changed.
LEMMA StackChanged ==
  ASSUME TypeOK, NEW w \in Workers, NEW s \in Seq(Frame), stack' = [stack EXCEPT ![w] = s]
  PROVE  /\ stack' \in [Workers -> Seq(Frame)]
         /\ Counts' = [Counts EXCEPT ![w] = CountsIn(s)]
BY DEF TypeOK, Counts

\* The types after a step, from the types of what it changes.
LEMMA TypeKept ==
  ASSUME TypeOK, stack' \in [Workers -> Seq(Frame)],
         mainPc' = mainPc, exited' = exited,
         jobs' \in Seq(Job), Len(jobs') <= ChanCap,
         jobsClosed' \in BOOLEAN, activeWorkers' \in Int,
         matchedFiles' \in [Workers -> Seq(FileNames)]
  PROVE  TypeOK'
BY DEF TypeOK

\* The innermost call of w goes on.
LEMMA TopReplaced ==
  ASSUME TypeOK, NEW w \in Workers, stack[w] # << >>, NEW frame \in Frame,
         stack' = SetTop(w, frame)
  PROVE  /\ stack' \in [Workers -> Seq(Frame)]
         /\ Top(w) \in Frame
         /\ Len(stack[w]) \in Positive
         /\ Counts[w][Len(stack[w])] = OutstandingIn(Top(w))
         /\ Counts' = WithCount(Counts, w, Len(stack[w]), OutstandingIn(frame))
<1>1. stack[w] \in Seq(Frame)
  BY DEF TypeOK
<1>2. Top(w) \in Frame /\ Len(stack[w]) \in Positive /\ Top(w) = stack[w][1]
  BY <1>1, HeadAndTail DEF Top, Positive
<1>3. stack' = [stack EXCEPT ![w] = <<frame>> \o Tail(stack[w])]
  BY DEF SetTop
<1>4. <<frame>> \o Tail(stack[w]) \in Seq(Frame)
  BY <1>1, ReplaceTop
<1>5. /\ stack' \in [Workers -> Seq(Frame)]
      /\ Counts' = [Counts EXCEPT ![w] = CountsIn(<<frame>> \o Tail(stack[w]))]
  BY <1>3, <1>4, StackChanged
<1>6. CountsIn(<<frame>> \o Tail(stack[w])) =
        [CountsIn(stack[w]) EXCEPT ![Len(stack[w])] = OutstandingIn(frame)]
  BY <1>1, CountsReplaced
<1>7. Counts[w] = CountsIn(stack[w])
  BY DEF Counts
<1>8. Counts[w][Len(stack[w])] = OutstandingIn(Top(w))
  BY <1>2, <1>7 DEF CountsIn, Positive
<1>9. QED
  BY <1>2, <1>5, <1>6, <1>7, <1>8 DEF WithCount

\* A worker begins a job.
LEMMA JobTaken ==
  ASSUME TypeOK, NEW w \in Workers, TakeJob(w)
  PROVE  /\ TypeOK'
         /\ Len(jobs') \in Nat /\ Len(jobs) = Len(jobs') + 1
         /\ Counts[w][1] = 0
         /\ Counts' = WithCount(Counts, w, 1, 1)
<1>1. stack[w] = << >> /\ jobs # << >> /\ jobs \in Seq(Job)
  BY DEF TakeJob, TypeOK
<1>2. /\ Head(jobs) \in Job /\ jobs' \in Seq(Job)
      /\ Len(jobs') \in Nat /\ Len(jobs) = Len(jobs') + 1
  BY <1>1, HeadAndTail DEF TakeJob
<1> DEFINE frame == Visited(Head(jobs))
<1>3. frame \in Frame /\ OutstandingIn(frame) = 1
  BY <1>2, VisitedType DEF OutstandingIn
<1> HIDE DEF frame
<1>4. stack' = [stack EXCEPT ![w] = <<frame>> \o << >>]
  BY <1>3 DEF TakeJob, frame
<1>5. << >> \in Seq(Frame) /\ Len(<< >>) = 0
  OBVIOUS
<1>6. <<frame>> \o << >> \in Seq(Frame)
  BY <1>3, <1>5, PutOnTop
<1>7. /\ stack' \in [Workers -> Seq(Frame)]
      /\ Counts' = [Counts EXCEPT ![w] = CountsIn(<<frame>> \o << >>)]
  BY <1>4, <1>6, StackChanged
<1>8. CountsIn(<<frame>> \o << >>) = [CountsIn(<< >>) EXCEPT ![0 + 1] = 1]
  BY <1>3, <1>5, CountsPushed
<1>9. Counts[w] = CountsIn(<< >>)
  BY <1>1 DEF Counts
<1>10. Counts[w][1] = 0
  BY <1>5, <1>9 DEF CountsIn, Positive
<1>11. Counts' = WithCount(Counts, w, 1, 1)
  <2>1. 0 + 1 = 1
    OBVIOUS
  <2>2. QED
    BY <1>7, <1>8, <1>9, <2>1 DEF WithCount
<1>12. /\ mainPc' = mainPc /\ exited' = exited /\ jobsClosed' = jobsClosed
       /\ activeWorkers' = activeWorkers /\ matchedFiles' = matchedFiles
  BY DEF TakeJob
<1>13. TypeOK'
  <2>1. Len(jobs') <= ChanCap
    BY <1>2, ChanCapAssumption DEF TypeOK
  <2>2. QED
    BY <1>2, <1>7, <1>12, <2>1, TypeKept DEF TypeOK
<1>14. QED
  BY <1>2, <1>10, <1>11, <1>13

\* The new jobs are counted.
LEMMA NewJobsCounted ==
  ASSUME TypeOK, NEW w \in Workers, CountNewJobs(w)
  PROVE  LET n == Len(Top(w).newJobs) IN
         /\ TypeOK'
         /\ n \in Nat /\ activeWorkers' = activeWorkers + n
         /\ Len(stack[w]) \in Positive
         /\ Counts[w][Len(stack[w])] = 1
         /\ Counts' = WithCount(Counts, w, Len(stack[w]), 1 + n)
<1> DEFINE frame == [Top(w) EXCEPT !.at = "counted"]
<1>1. stack[w] # << >> /\ stack[w] \in Seq(Frame) /\ Top(w).at = "visited"
  BY DEF CountNewJobs, InCall, TypeOK
<1>2. Top(w) \in Frame
  BY <1>1, HeadAndTail DEF Top
<1>3. Len(Top(w).newJobs) \in Nat
  BY <1>2, LenProperties DEF Frame
<1>4. frame \in Frame /\ frame.at = "counted" /\ frame.newJobs = Top(w).newJobs
  BY <1>2 DEF Frame
<1>5. OutstandingIn(frame) = 1 + Len(Top(w).newJobs) /\ OutstandingIn(Top(w)) = 1
  BY <1>1, <1>4 DEF OutstandingIn
<1>6. stack' = SetTop(w, frame)
  BY DEF CountNewJobs
<1> HIDE DEF frame
<1>7. /\ stack' \in [Workers -> Seq(Frame)]
      /\ Len(stack[w]) \in Positive
      /\ Counts[w][Len(stack[w])] = 1
      /\ Counts' = WithCount(Counts, w, Len(stack[w]), 1 + Len(Top(w).newJobs))
  BY <1>1, <1>4, <1>5, <1>6, TopReplaced
<1>8. /\ mainPc' = mainPc /\ exited' = exited /\ jobsClosed' = jobsClosed
      /\ activeWorkers' = activeWorkers + Len(Top(w).newJobs)
      /\ jobs' = jobs /\ matchedFiles' = matchedFiles
  BY DEF CountNewJobs
<1>9. TypeOK'
  <2>1. activeWorkers' \in Int
    BY <1>3, <1>8 DEF TypeOK
  <2>2. QED
    BY <1>7, <1>8, <2>1, TypeKept DEF TypeOK
<1>10. QED
  BY <1>3, <1>7, <1>8, <1>9

\* The job is counted off; the last one leaves nothing to hand out.
LEMMA DoneCounted ==
  ASSUME TypeOK, NEW w \in Workers, CountDone(w)
  PROVE  LET n == Len(Top(w).newJobs) IN
         /\ TypeOK'
         /\ n \in Nat /\ activeWorkers' = activeWorkers - 1
         /\ jobsClosed' = IF activeWorkers' = 0 THEN TRUE ELSE jobsClosed
         /\ Len(stack[w]) \in Positive
         /\ Counts[w][Len(stack[w])] = 1 + n
         /\ Counts' = WithCount(Counts, w, Len(stack[w]), IF activeWorkers' = 0 THEN 0 ELSE n)
<1> DEFINE frame == IF activeWorkers' = 0
                    THEN [Top(w) EXCEPT !.at = "handOut", !.newJobs = << >>]
                    ELSE [Top(w) EXCEPT !.at = "handOut"]
<1>1. stack[w] # << >> /\ stack[w] \in Seq(Frame) /\ Top(w).at = "counted"
  BY DEF CountDone, InCall, TypeOK
<1>2. Top(w) \in Frame
  BY <1>1, HeadAndTail DEF Top
<1>3. Len(Top(w).newJobs) \in Nat
  BY <1>2, LenProperties DEF Frame
<1>4. /\ frame \in Frame /\ frame.at = "handOut"
      /\ frame.newJobs = IF activeWorkers' = 0 THEN << >> ELSE Top(w).newJobs
  BY <1>2, EmptySeq DEF Frame
<1>5. /\ OutstandingIn(frame) = IF activeWorkers' = 0 THEN 0 ELSE Len(Top(w).newJobs)
      /\ OutstandingIn(Top(w)) = 1 + Len(Top(w).newJobs)
  <2> HIDE DEF frame
  <2>1. QED
    BY <1>1, <1>4 DEF OutstandingIn
<1>6. /\ stack' = SetTop(w, frame) /\ activeWorkers' = activeWorkers - 1
      /\ jobsClosed' = IF activeWorkers' = 0 THEN TRUE ELSE jobsClosed
  BY DEF CountDone
<1> HIDE DEF frame
<1>7. /\ stack' \in [Workers -> Seq(Frame)]
      /\ Len(stack[w]) \in Positive
      /\ Counts[w][Len(stack[w])] = OutstandingIn(Top(w))
      /\ Counts' = WithCount(Counts, w, Len(stack[w]), OutstandingIn(frame))
  BY <1>1, <1>4, <1>6, TopReplaced
<1>8. /\ mainPc' = mainPc /\ exited' = exited
      /\ jobs' = jobs /\ matchedFiles' = matchedFiles
  BY DEF CountDone
<1>9. TypeOK'
  <2>1. activeWorkers' \in Int
    BY <1>6 DEF TypeOK
  <2>2. jobsClosed' \in BOOLEAN
    BY <1>6, Zenon DEF TypeOK
  <2>3. QED
    BY <1>7, <1>8, <2>1, <2>2, TypeKept DEF TypeOK
<1>10. QED
  BY <1>3, <1>5, <1>6, <1>7, <1>9

\* A new job is put into the channel.
LEMMA JobSent ==
  ASSUME TypeOK, NEW w \in Workers, SendJob(w)
  PROVE  LET n == Len(Top(w).newJobs) IN
         /\ TypeOK'
         /\ Len(jobs) \in Nat /\ Len(jobs') = Len(jobs) + 1
         /\ Len(stack[w]) \in Positive /\ n \in Positive
         /\ Counts[w][Len(stack[w])] = n
         /\ Counts' = WithCount(Counts, w, Len(stack[w]), n - 1)
<1> DEFINE frame == HandedOut(Top(w))
<1>1. /\ stack[w] # << >> /\ stack[w] \in Seq(Frame)
      /\ Top(w).at = "handOut" /\ Top(w).newJobs # << >>
  BY DEF SendJob, InCall, TypeOK
<1>2. Top(w) \in Frame /\ Top(w).newJobs \in Seq(Job)
  <2>1. Top(w) \in Frame
    BY <1>1, HeadAndTail DEF Top
  <2>2. QED
    BY <2>1 DEF Frame
<1>3. /\ Len(Top(w).newJobs) \in Positive /\ Head(Top(w).newJobs) \in Job
      /\ Tail(Top(w).newJobs) \in Seq(Job) /\ Len(Tail(Top(w).newJobs)) = Len(Top(w).newJobs) - 1
  BY <1>1, <1>2, HeadAndTail DEF Positive
<1>4. /\ frame \in Frame /\ frame.at = "handOut" /\ frame.newJobs = Tail(Top(w).newJobs)
  BY <1>1, <1>2, <1>3 DEF Frame, HandedOut
<1>5. stack' = SetTop(w, frame)
  BY DEF SendJob
<1> HIDE DEF frame
<1>6. OutstandingIn(frame) = Len(Top(w).newJobs) - 1 /\ OutstandingIn(Top(w)) = Len(Top(w).newJobs)
  BY <1>1, <1>3, <1>4 DEF OutstandingIn
<1>7. /\ stack' \in [Workers -> Seq(Frame)]
      /\ Len(stack[w]) \in Positive
      /\ Counts[w][Len(stack[w])] = OutstandingIn(Top(w))
      /\ Counts' = WithCount(Counts, w, Len(stack[w]), OutstandingIn(frame))
  BY <1>1, <1>4, <1>5, TopReplaced
<1>8. /\ mainPc' = mainPc /\ exited' = exited /\ jobsClosed' = jobsClosed
      /\ activeWorkers' = activeWorkers /\ matchedFiles' = matchedFiles
      /\ jobs' = Append(jobs, Head(Top(w).newJobs)) /\ Len(jobs) < ChanCap
  BY DEF SendJob
<1>9. jobs \in Seq(Job) /\ Len(jobs) \in Nat /\ jobs' \in Seq(Job) /\ Len(jobs') = Len(jobs) + 1
  BY <1>3, <1>8, AppendProperties, LenProperties DEF TypeOK
<1>10. TypeOK'
  <2>1. Len(jobs') <= ChanCap
    BY <1>8, <1>9, ChanCapAssumption
  <2>2. QED
    BY <1>7, <1>8, <1>9, <2>1, TypeKept DEF TypeOK
<1>11. QED
  BY <1>3, <1>6, <1>7, <1>9, <1>10

\* A worker visits a new job itself.
LEMMA VisitedInline ==
  ASSUME TypeOK, NEW w \in Workers, VisitInline(w)
  PROVE  LET n == Len(Top(w).newJobs)
             l == Len(stack[w])
         IN  /\ TypeOK'
             /\ l \in Positive /\ n \in Positive
             /\ Counts[w][l] = n /\ Counts[w][l + 1] = 0
             /\ Counts' = WithCount(WithCount(Counts, w, l, n - 1), w, l + 1, 1)
<1> DEFINE frame == HandedOut(Top(w))
           inner == Visited(Head(Top(w).newJobs))
           s == stack[w]
<1>1. /\ s # << >> /\ s \in Seq(Frame)
      /\ Top(w).at = "handOut" /\ Top(w).newJobs # << >>
  BY DEF VisitInline, InCall, TypeOK
<1>2. Top(w) \in Frame /\ Top(w).newJobs \in Seq(Job) /\ Len(s) \in Positive /\ Top(w) = s[1]
  <2>1. Top(w) \in Frame /\ Len(s) \in Positive /\ Top(w) = s[1]
    BY <1>1, HeadAndTail DEF Top, Positive
  <2>2. QED
    BY <2>1 DEF Frame
<1>3. /\ Len(Top(w).newJobs) \in Positive /\ Head(Top(w).newJobs) \in Job
      /\ Tail(Top(w).newJobs) \in Seq(Job) /\ Len(Tail(Top(w).newJobs)) = Len(Top(w).newJobs) - 1
  BY <1>1, <1>2, HeadAndTail DEF Positive
<1>4. /\ frame \in Frame /\ frame.at = "handOut" /\ frame.newJobs = Tail(Top(w).newJobs)
  BY <1>1, <1>2, <1>3 DEF Frame, HandedOut
<1>5. inner \in Frame /\ OutstandingIn(inner) = 1
  BY <1>3, VisitedType DEF OutstandingIn
<1>6. stack' = [stack EXCEPT ![w] = <<inner, frame>> \o Tail(s)]
  BY DEF VisitInline
<1> HIDE DEF frame, inner
<1>7. OutstandingIn(frame) = Len(Top(w).newJobs) - 1 /\ OutstandingIn(Top(w)) = Len(Top(w).newJobs)
  BY <1>1, <1>3, <1>4 DEF OutstandingIn
<1> DEFINE below == <<frame>> \o Tail(s)
<1>8. below \in Seq(Frame) /\ Len(below) = Len(s) /\ Tail(s) \in Seq(Frame)
  BY <1>1, <1>4, HeadAndTail, ReplaceTop
<1>9. <<inner, frame>> \o Tail(s) = <<inner>> \o below
  BY <1>4, <1>5, <1>8
<1>10. CountsIn(below) = [CountsIn(s) EXCEPT ![Len(s)] = Len(Top(w).newJobs) - 1]
  BY <1>1, <1>4, <1>7, CountsReplaced
<1> HIDE DEF below
<1>11. <<inner>> \o below \in Seq(Frame)
  BY <1>5, <1>8, PutOnTop
<1>12. CountsIn(<<inner>> \o below) = [CountsIn(below) EXCEPT ![Len(s) + 1] = 1]
  BY <1>5, <1>8, CountsPushed
<1>13. /\ stack' \in [Workers -> Seq(Frame)]
       /\ Counts' = [Counts EXCEPT ![w] = CountsIn(<<inner>> \o below)]
  BY <1>6, <1>9, <1>11, StackChanged
<1>14. Counts[w] = CountsIn(s)
  BY DEF Counts
<1>15. Counts[w][Len(s)] = Len(Top(w).newJobs) /\ Counts[w][Len(s) + 1] = 0
  BY <1>2, <1>7, <1>14 DEF CountsIn, Positive
<1>16. Counts' = WithCount(WithCount(Counts, w, Len(s), Len(Top(w).newJobs) - 1), w, Len(s) + 1, 1)
  BY <1>10, <1>12, <1>13, <1>14 DEF WithCount
<1>17. /\ mainPc' = mainPc /\ exited' = exited /\ jobsClosed' = jobsClosed /\ jobs' = jobs
       /\ activeWorkers' = activeWorkers /\ matchedFiles' = matchedFiles
  BY DEF VisitInline
<1>18. TypeOK'
  BY <1>13, <1>17, TypeKept DEF TypeOK
<1>19. QED
  BY <1>2, <1>3, <1>15, <1>16, <1>18

\* A call that answers for nothing any more returns.
LEMMA CallReturned ==
  ASSUME TypeOK, NEW w \in Workers, ReturnResults(w)
  PROVE  TypeOK' /\ Counts' = Counts
<1> DEFINE s == stack[w]
           u == Tail(s)
<1>1. /\ s # << >> /\ s \in Seq(Frame) /\ Top(w) = Head(s)
      /\ Top(w).at = "handOut" /\ Top(w).newJobs = << >>
  BY DEF ReturnResults, InCall, TypeOK, Top
<1>2. Top(w) \in Frame /\ Len(s) \in Positive /\ Top(w) = s[1]
  BY <1>1, HeadAndTail DEF Positive
<1>3. u \in Seq(Frame) /\ Len(u) = Len(s) - 1 /\ \A i \in 1 .. Len(s) - 1 : u[i] = s[i + 1]
  BY <1>1, HeadAndTail
<1>4. OutstandingIn(Top(w)) = 0
  BY <1>1 DEF OutstandingIn
<1>5. CountsIn(s) = [CountsIn(u) EXCEPT ![Len(s)] = 0]
  BY <1>1, <1>4, CountsSplit
<1>6. CountsIn(u)[Len(s)] = 0
  BY <1>2, <1>3 DEF CountsIn, Positive
<1>7. CountsIn(u) \in [Positive -> Nat]
  BY <1>3, CountsInType
<1>8. CountsIn(s) = CountsIn(u)
  BY <1>5, <1>6, <1>7
<1>9. Counts[w] = CountsIn(s) /\ Counts \in [Workers -> [Positive -> Nat]]
  BY CountsType DEF Counts
<1>10. /\ mainPc' = mainPc /\ exited' = exited /\ jobsClosed' = jobsClosed /\ jobs' = jobs
       /\ activeWorkers' = activeWorkers
  BY DEF ReturnResults
<1>11. Top(w).results \in Seq(FileNames)
  BY <1>2 DEF Frame
<1>12. CASE Len(s) = 1
  <2>1. /\ matchedFiles' = [matchedFiles EXCEPT ![w] = @ \o Top(w).results]
        /\ stack' = [stack EXCEPT ![w] = << >>]
    BY <1>12 DEF ReturnResults
  <2>2. u = << >>
    <3>1. Len(u) = 0
      BY <1>3, <1>12
    <3> HIDE DEF u
    <3>2. QED
      BY <1>3, <3>1, EmptySeq
  <2>3. /\ stack' \in [Workers -> Seq(Frame)]
        /\ Counts' = [Counts EXCEPT ![w] = CountsIn(u)]
    BY <1>3, <2>1, <2>2, StackChanged
  <2>4. matchedFiles' \in [Workers -> Seq(FileNames)]
    BY <1>11, <2>1, ConcatProperties DEF TypeOK
  <2>5. TypeOK'
    BY <1>10, <2>3, <2>4, TypeKept DEF TypeOK
  <2>6. QED
    BY <1>8, <1>9, <2>3, <2>5
<1>13. CASE Len(s) # 1
  <2> DEFINE frame == WithResults(s[2], Top(w).results)
  <2>1. /\ matchedFiles' = matchedFiles
        /\ stack' = [stack EXCEPT ![w] = <<frame>> \o Tail(u)]
    BY <1>13 DEF ReturnResults
  <2>2. u # << >> /\ u[1] = s[2]
    <3> HIDE DEF u, s
    <3>0. Len(s) \in Nat /\ Len(s) # 0 /\ Len(s) # 1 /\ Len(u) = Len(s) - 1
      BY <1>2, <1>3, <1>13 DEF Positive
    <3>1. Len(u) # 0 /\ 1 \in 1 .. Len(s) - 1
      BY <3>0
    <3>2. u[1] = s[2]
      BY <1>3, <3>1
    <3>3. QED
      BY <3>1, <3>2
  <2>3. Head(u) = s[2] /\ s[2] \in Frame /\ Len(u) \in Positive
    BY <1>3, <2>2, HeadAndTail DEF Positive
  <2>4. s[2].results \o Top(w).results \in Seq(FileNames)
    BY <1>11, <2>3, ConcatProperties DEF Frame
  <2>5. frame \in Frame /\ frame.at = s[2].at /\ frame.newJobs = s[2].newJobs
    BY <2>3, <2>4 DEF Frame, WithResults
  <2> HIDE DEF frame, s, u
  <2>6. OutstandingIn(frame) = OutstandingIn(Head(u))
    BY <2>3, <2>5 DEF OutstandingIn
  <2>7. CountsIn(<<frame>> \o Tail(u)) = [CountsIn(u) EXCEPT ![Len(u)] = OutstandingIn(Head(u))]
    BY <1>3, <2>2, <2>5, <2>6, CountsReplaced
  <2>8. CountsIn(u)[Len(u)] = OutstandingIn(Head(u))
    BY <2>2, <2>3 DEF CountsIn, Positive
  <2>9. CountsIn(<<frame>> \o Tail(u)) = CountsIn(u)
    BY <1>7, <2>7, <2>8
  <2>10. <<frame>> \o Tail(u) \in Seq(Frame)
    BY <1>3, <2>2, <2>5, ReplaceTop
  <2>11. /\ stack' \in [Workers -> Seq(Frame)]
         /\ Counts' = [Counts EXCEPT ![w] = CountsIn(u)]
    BY <2>1, <2>9, <2>10, StackChanged
  <2>12. TypeOK'
    BY <1>10, <2>1, <2>11, TypeKept DEF TypeOK
  <2>13. QED
    BY <1>8, <1>9, <2>11, <2>12
<1>14. QED
  BY <1>12, <1>13

-----------------------------------------------------------------------------
(* The counter. *)

\* No token is left when their number is zero.
LEMMA NoneLeft ==
  ASSUME CounterInv, jobsClosed
  PROVE  /\ Outstanding = {}
         /\ jobs = << >>
         /\ \A w \in Workers, k \in Positive : Counts[w][k] = 0
<1>1. TypeOK /\ IsFiniteSet(Outstanding) /\ Cardinality(Outstanding) = 0
  BY DEF CounterInv, CounterIsOutstanding, ClosedAtZero
<1>2. Outstanding = {}
  BY <1>1, FS_EmptySet
<1>3. Tokens(Len(jobs), Counts) = {}
  BY <1>1, <1>2, OutstandingIsTokens
<1>4. Counts \in [Workers -> [Positive -> Nat]]
  BY <1>1, CountsType
<1>5. jobs \in Seq(Job) /\ Len(jobs) \in Nat
  BY <1>1, LenProperties DEF TypeOK
<1>6. jobs = << >>
  <2>1. 1 \notin 1 .. Len(jobs)
    BY <1>3 DEF Tokens
  <2>2. Len(jobs) = 0
    BY <1>5, <2>1
  <2>3. QED
    BY <1>5, <2>2, EmptySeq
<1>7. ASSUME NEW w \in Workers, NEW k \in Positive, Counts[w][k] # 0
      PROVE  FALSE
  <2>1. Counts[w][k] \in Nat
    BY <1>4
  <2>2. 1 \in Positive /\ 1 <= Counts[w][k]
    BY <1>7, <2>1 DEF Positive
  <2>3. <<w, k, 1>> \in Tokens(Len(jobs), Counts)
    BY <2>2 DEF Tokens
  <2>4. QED
    BY <1>3, <2>3
<1>8. QED
  BY <1>2, <1>6, <1>7

\* The number of tokens in terms of the channel and the counts, before a step and after it.
LEMMA Balance ==
  ASSUME CounterInv, mainPc # "fill"
  PROVE  /\ Counts \in [Workers -> [Positive -> Nat]] /\ Len(jobs) \in Nat
         /\ IsFiniteSet(Tokens(Len(jobs), Counts))
         /\ activeWorkers = Cardinality(Tokens(Len(jobs), Counts))
         /\ activeWorkers \in Nat
<1>1. TypeOK /\ Outstanding = Tokens(Len(jobs), Counts)
  BY OutstandingIsTokens DEF CounterInv
<1>2. jobs \in Seq(Job)
  BY <1>1 DEF TypeOK
<1>3. QED
  BY <1>1, <1>2, CountsType, LenProperties, FS_CardinalityType DEF CounterInv, CounterIsOutstanding

LEMMA BalanceKept ==
  ASSUME TypeOK', mainPc' # "fill",
         IsFiniteSet(Tokens(Len(jobs'), Counts')),
         activeWorkers' = Cardinality(Tokens(Len(jobs'), Counts')),
         jobsClosed' => activeWorkers' = 0
  PROVE  CounterInv'
<1>1. Outstanding' = Tokens(Len(jobs'), Counts')
  BY OutstandingIsTokensNext
<1>2. QED
  BY <1>1 DEF CounterInv, CounterIsOutstanding, NoneBeforeStart, ClosedAtZero

LEMMA CounterInitial == Init => CounterInv
<1> SUFFICES ASSUME Init PROVE CounterInv
  OBVIOUS
<1>1. << >> \in Seq(Job) /\ << >> \in Seq(Frame) /\ << >> \in Seq(FileNames) /\ Len(<< >>) = 0
  OBVIOUS
<1>2. jobs \in Seq(Job) /\ Len(jobs) <= ChanCap
  BY <1>1, ChanCapAssumption DEF Init
<1>3. stack \in [Workers -> Seq(Frame)] /\ matchedFiles \in [Workers -> Seq(FileNames)]
  BY <1>1 DEF Init
<1>4. mainPc = "fill" /\ jobsClosed = FALSE /\ activeWorkers \in Int /\ exited \subseteq Workers
  BY DEF Init
<1>5. TypeOK
  BY <1>2, <1>3, <1>4 DEF TypeOK
<1>6. QED
  BY <1>4, <1>5 DEF Init, CounterInv, CounterIsOutstanding, NoneBeforeStart, ClosedAtZero

\* CountChanged for the counts and the channel of a state, from the facts of Balance.
LEMMA TokensMoved ==
  ASSUME NEW c \in [Workers -> [Positive -> Nat]], NEW m \in Nat,
         IsFiniteSet(Tokens(m, c)), NEW total \in Nat, total = Cardinality(Tokens(m, c)),
         NEW w \in Workers, NEW k \in Positive, NEW old \in Nat, c[w][k] = old,
         NEW new \in Nat, NEW c2, c2 = WithCount(c, w, k, new)
  PROVE  /\ c2 \in [Workers -> [Positive -> Nat]]
         /\ IsFiniteSet(Tokens(m, c2))
         /\ Cardinality(Tokens(m, c2)) \in Nat
         /\ Cardinality(Tokens(m, c2)) = total + new - old
<1>1. /\ WithCount(c, w, k, new) \in [Workers -> [Positive -> Nat]]
      /\ IsFiniteSet(Tokens(m, WithCount(c, w, k, new)))
      /\ Cardinality(Tokens(m, WithCount(c, w, k, new))) =
           Cardinality(Tokens(m, c)) + (new - c[w][k])
  BY CountChanged
<1>2. QED
  BY <1>1, FS_CardinalityType

LEMMA CounterStep == CounterInv /\ [Next]_vars => CounterInv'
<1> SUFFICES ASSUME CounterInv, [Next]_vars PROVE CounterInv'
  OBVIOUS
<1>1. TypeOK
  BY DEF CounterInv
<1>2. CASE PutBasePath
  <2>1. /\ mainPc = "fill" /\ mainPc' = "fill" /\ stack' = stack
        /\ jobsClosed' = jobsClosed /\ activeWorkers' = activeWorkers
        /\ matchedFiles' = matchedFiles /\ exited' = exited
        /\ Len(jobs) < Len(BasePaths) /\ Len(jobs) < ChanCap
        /\ jobs' = Append(jobs, [dir |-> BasePaths[Len(jobs) + 1], depth |-> Depth])
    BY <1>2 DEF PutBasePath
  <2>2. jobs \in Seq(Job) /\ Len(jobs) \in Nat
    BY <1>1, LenProperties DEF TypeOK
  <2>3. BasePaths[Len(jobs) + 1] \in Dirs
    BY <2>1, <2>2, BasePathsAssumption, ElementOfSeq, LenProperties
  <2>4. [dir |-> BasePaths[Len(jobs) + 1], depth |-> Depth] \in Job
    BY <2>3, DepthAssumption DEF Job
  <2>5. jobs' \in Seq(Job) /\ Len(jobs') = Len(jobs) + 1
    BY <2>1, <2>2, <2>4, AppendProperties
  <2>6. Len(jobs') <= ChanCap
    BY <2>1, <2>2, <2>5, ChanCapAssumption
  <2>7. TypeOK'
    BY <1>1, <2>1, <2>5, <2>6, TypeKept DEF TypeOK
  <2>8. QED
    BY <2>1, <2>7 DEF CounterInv, CounterIsOutstanding, NoneBeforeStart, ClosedAtZero
<1>3. CASE StartWorkers
  <2>1. /\ mainPc = "fill" /\ mainPc' = "wait" /\ jobs' = jobs /\ stack' = stack
        /\ jobsClosed' = jobsClosed /\ activeWorkers' = Len(BasePaths)
        /\ matchedFiles' = matchedFiles /\ exited' = exited
        /\ Len(jobs) = Len(BasePaths)
    BY <1>3 DEF StartWorkers
  <2>2. Len(BasePaths) \in Nat
    BY BasePathsAssumption, LenProperties
  <2>3. TypeOK'
    BY <1>1, <2>1, <2>2 DEF TypeOK
  <2>4. \A w \in Workers : stack[w] = << >>
    BY <2>1 DEF CounterInv, NoneBeforeStart
  <2>5. Counts' = Counts /\ Counts \in [Workers -> [Positive -> Nat]]
    BY <1>1, <2>1, CountsType DEF Counts
  <2>6. \A w \in Workers, k \in Positive : Counts[w][k] = 0
    BY <2>4 DEF Counts, CountsIn, Positive
  <2>7. Tokens(Len(jobs), Counts) = { <<0, 0, i>> : i \in 1 .. Len(jobs) }
    <3>1. ASSUME NEW t \in Workers \X Positive \X Positive, t[3] <= Counts[t[1]][t[2]]
          PROVE  FALSE
      BY <2>6, <3>1 DEF Positive
    <3>2. QED
      BY <3>1 DEF Tokens
  <2>8. /\ IsFiniteSet(Tokens(Len(jobs), Counts))
        /\ Cardinality(Tokens(Len(jobs), Counts)) = Len(jobs)
    BY <2>1, <2>2, <2>7, ChannelTokens
  <2>9. ~ jobsClosed'
    BY <2>1 DEF CounterInv, ClosedAtZero
  <2>10. QED
    BY <2>1, <2>3, <2>5, <2>8, <2>9, BalanceKept
<1>4. CASE Return
  <2>1. /\ mainPc = "wait" /\ mainPc' = "returned" /\ jobs' = jobs /\ stack' = stack
        /\ jobsClosed' = jobsClosed /\ activeWorkers' = activeWorkers
        /\ matchedFiles' = matchedFiles /\ exited' = exited
    BY <1>4 DEF Return
  <2>2. TypeOK'
    BY <1>1, <2>1 DEF TypeOK
  <2>3. Counts' = Counts
    BY <2>1 DEF Counts
  <2>4. QED
    BY <2>1, <2>2, <2>3, Balance, BalanceKept DEF CounterInv, ClosedAtZero
<1>5. ASSUME NEW w \in Workers, WorkerStep(w)
      PROVE  CounterInv'
  <2>1. mainPc # "fill" /\ mainPc' = mainPc
    <3>1. TakeJob(w) \/ Exit(w) => mainPc = "wait" /\ mainPc' = mainPc
      BY DEF TakeJob, Exit
    <3>2. CountNewJobs(w) \/ CountDone(w) \/ SendJob(w) \/ VisitInline(w) \/ ReturnResults(w)
            => stack[w] # << >> /\ mainPc' = mainPc
      BY DEF CountNewJobs, CountDone, SendJob, VisitInline, ReturnResults, InCall
    <3>3. mainPc = "fill" => stack[w] = << >>
      BY DEF CounterInv, NoneBeforeStart
    <3>4. QED
      BY <1>5, <3>1, <3>2, <3>3 DEF WorkerStep
  <2> DEFINE m == Len(jobs)
             l == Len(stack[w])
             n == Len(Top(w).newJobs)
             T == Tokens(m, Counts)
  <2>2. /\ Counts \in [Workers -> [Positive -> Nat]] /\ m \in Nat
        /\ IsFiniteSet(T) /\ activeWorkers = Cardinality(T) /\ activeWorkers \in Nat
    BY <2>1, Balance
  <2>3. jobsClosed => activeWorkers = 0 /\ jobs = << >> /\ \A k \in Positive : Counts[w][k] = 0
    BY NoneLeft DEF CounterInv, ClosedAtZero
  <2>4. CASE TakeJob(w)
    <3>1. /\ TypeOK' /\ Len(jobs') \in Nat /\ m = Len(jobs') + 1
          /\ Counts[w][1] = 0 /\ Counts' = WithCount(Counts, w, 1, 1)
      BY <1>1, <2>4, JobTaken
    <3>2. activeWorkers' = activeWorkers /\ jobsClosed' = jobsClosed
      BY <2>4 DEF TakeJob
    <3>3. /\ IsFiniteSet(Tokens(Len(jobs'), Counts))
          /\ Cardinality(T) = Cardinality(Tokens(Len(jobs'), Counts)) + 1
      BY <2>2, <3>1, ChannelGrown
    <3>4. 1 \in Positive /\ 1 \in Nat
      BY DEF Positive
    <3>5. /\ IsFiniteSet(Tokens(Len(jobs'), Counts'))
          /\ Cardinality(Tokens(Len(jobs'), Counts')) =
               Cardinality(Tokens(Len(jobs'), Counts)) + (1 - Counts[w][1])
      BY <2>2, <3>1, <3>3, <3>4, CountChanged
    <3>6. Cardinality(Tokens(Len(jobs'), Counts)) \in Nat
      BY <3>3, FS_CardinalityType
    <3>7. Cardinality(Tokens(Len(jobs'), Counts')) = Cardinality(T)
      BY <3>1, <3>3, <3>5, <3>6
    <3>8. QED
      BY <2>1, <2>2, <2>3, <3>1, <3>2, <3>5, <3>7, BalanceKept
  <2>5. CASE Exit(w)
    <3>1. /\ jobs' = jobs /\ stack' = stack /\ jobsClosed' = jobsClosed
          /\ activeWorkers' = activeWorkers /\ matchedFiles' = matchedFiles
          /\ exited' = exited \cup {w}
      BY <2>5 DEF Exit
    <3>2. TypeOK'
      BY <1>1, <2>1, <3>1 DEF TypeOK
    <3>3. Counts' = Counts
      BY <3>1 DEF Counts
    <3>4. QED
      BY <2>1, <2>2, <2>3, <3>1, <3>2, <3>3, BalanceKept
  <2>6. CASE CountNewJobs(w)
    <3>1. /\ TypeOK' /\ n \in Nat /\ activeWorkers' = activeWorkers + n
          /\ l \in Positive /\ Counts[w][l] = 1 /\ Counts' = WithCount(Counts, w, l, 1 + n)
      BY <1>1, <2>6, NewJobsCounted
    <3>2. jobs' = jobs /\ jobsClosed' = jobsClosed
      BY <2>6 DEF CountNewJobs
    <3>3. ~ jobsClosed
      BY <2>3, <3>1
    <3> DEFINE y == 1 + n
    <3>4. /\ y \in Nat /\ Counts' = WithCount(Counts, w, l, y)
          /\ 1 \in Nat /\ l \in Positive /\ Counts[w][l] = 1
      BY <3>1
    <3>5. IsFiniteSet(Tokens(m, Counts')) /\ activeWorkers' = Cardinality(Tokens(m, Counts'))
      <4> HIDE DEF y, m, l
      <4>1. /\ IsFiniteSet(Tokens(m, Counts'))
            /\ Cardinality(Tokens(m, Counts')) = activeWorkers + y - 1
        BY <2>2, <3>4, TokensMoved
      <4>2. activeWorkers' = activeWorkers + y - 1
        BY <2>2, <3>1 DEF y
      <4>3. QED
        BY <4>1, <4>2
    <3>6. QED
      BY <2>1, <3>1, <3>2, <3>3, <3>5, BalanceKept
  <2>7. CASE CountDone(w)
    <3> DEFINE x == IF activeWorkers' = 0 THEN 0 ELSE n
    <3>1. /\ TypeOK' /\ n \in Nat /\ activeWorkers' = activeWorkers - 1
          /\ jobsClosed' = IF activeWorkers' = 0 THEN TRUE ELSE jobsClosed
          /\ l \in Positive /\ Counts[w][l] = 1 + n /\ Counts' = WithCount(Counts, w, l, x)
      BY <1>1, <2>7, DoneCounted
    <3>2. jobs' = jobs
      BY <2>7 DEF CountDone
    <3>3. ~ jobsClosed
      BY <2>3, <3>1
    <3>4. x \in Nat
      BY <3>1
    <3> HIDE DEF x
    <3> DEFINE y == 1 + n
    <3>5. y \in Nat /\ Counts[w][l] = y
      BY <3>1
    <3>6. /\ IsFiniteSet(Tokens(m, Counts')) /\ Cardinality(Tokens(m, Counts')) \in Nat
          /\ Cardinality(Tokens(m, Counts')) = activeWorkers + x - y
      <4> HIDE DEF y, m, l
      <4>1. QED
        BY <2>2, <3>1, <3>4, <3>5, TokensMoved
    <3>7. x = n
      <4>1. CASE activeWorkers' = 0
        <5>1. x = 0 /\ activeWorkers = 1
          BY <2>2, <3>1, <4>1 DEF x
        <5>2. 1 + 0 - (1 + n) \in Nat
          BY <3>6, <5>1
        <5>3. QED
          BY <3>1, <5>1, <5>2
      <4>2. CASE activeWorkers' # 0
        BY <4>2 DEF x
      <4>3. QED
        BY <4>1, <4>2
    <3>8. activeWorkers' = Cardinality(Tokens(m, Counts'))
      BY <2>2, <3>1, <3>6, <3>7
    <3>9. jobsClosed' => activeWorkers' = 0
      BY <3>1, <3>3
    <3>10. QED
      BY <2>1, <3>1, <3>2, <3>6, <3>8, <3>9, BalanceKept
  <2>8. CASE SendJob(w)
    <3>1. /\ TypeOK' /\ Len(jobs') = m + 1 /\ l \in Positive /\ n \in Positive
          /\ Counts[w][l] = n /\ Counts' = WithCount(Counts, w, l, n - 1)
      BY <1>1, <2>8, JobSent
    <3>2. activeWorkers' = activeWorkers /\ jobsClosed' = jobsClosed
      BY <2>8 DEF SendJob
    <3>3. n - 1 \in Nat /\ n \in Nat
      BY <3>1 DEF Positive
    <3> DEFINE y == n - 1
    <3>4. /\ Counts' \in [Workers -> [Positive -> Nat]]
          /\ IsFiniteSet(Tokens(m, Counts'))
          /\ Cardinality(Tokens(m, Counts')) = activeWorkers + y - n
      <4>1. /\ y \in Nat /\ Counts' = WithCount(Counts, w, l, y)
            /\ n \in Nat /\ l \in Positive /\ Counts[w][l] = n
        BY <3>1, <3>3
      <4> HIDE DEF y, m, l, n
      <4>2. QED
        BY <2>2, <4>1, TokensMoved
    <3>5. /\ IsFiniteSet(Tokens(m + 1, Counts'))
          /\ Cardinality(Tokens(m + 1, Counts')) = Cardinality(Tokens(m, Counts')) + 1
      BY <2>2, <3>4, ChannelGrown
    <3>6. Cardinality(Tokens(m + 1, Counts')) = Cardinality(T)
      BY <2>2, <3>1, <3>3, <3>4, <3>5
    <3>7. QED
      BY <2>1, <2>2, <2>3, <3>1, <3>2, <3>5, <3>6, BalanceKept
  <2>9. CASE VisitInline(w)
    <3> DEFINE c == WithCount(Counts, w, l, n - 1)
    <3>1. /\ TypeOK' /\ l \in Positive /\ n \in Positive
          /\ Counts[w][l] = n /\ Counts[w][l + 1] = 0
          /\ Counts' = WithCount(c, w, l + 1, 1)
      BY <1>1, <2>9, VisitedInline
    <3>2. jobs' = jobs /\ activeWorkers' = activeWorkers /\ jobsClosed' = jobsClosed
      BY <2>9 DEF VisitInline
    <3>3. n - 1 \in Nat /\ n \in Nat /\ l + 1 \in Positive /\ 1 \in Nat
      BY <3>1 DEF Positive
    <3> DEFINE y == n - 1
    <3>4. /\ c \in [Workers -> [Positive -> Nat]]
          /\ IsFiniteSet(Tokens(m, c)) /\ Cardinality(Tokens(m, c)) \in Nat
          /\ Cardinality(Tokens(m, c)) = activeWorkers + y - n
      <4>1. /\ y \in Nat /\ c = WithCount(Counts, w, l, y)
            /\ n \in Nat /\ l \in Positive /\ Counts[w][l] = n
        BY <3>1, <3>3
      <4> HIDE DEF y, m, l, n, c
      <4>2. QED
        BY <2>2, <4>1, TokensMoved
    <3>5. c[w][l + 1] = 0
      BY <2>2, <3>1, <3>3 DEF WithCount, Positive
    <3> HIDE DEF c
    <3> DEFINE p == l + 1
    <3>6. /\ IsFiniteSet(Tokens(m, Counts'))
          /\ Cardinality(Tokens(m, Counts')) = Cardinality(Tokens(m, c)) + 1 - 0
      <4>1. /\ p \in Positive /\ Counts' = WithCount(c, w, p, 1) /\ c[w][p] = 0
            /\ 0 \in Nat /\ 1 \in Nat /\ m \in Nat
        BY <2>2, <3>1, <3>3, <3>5
      <4> HIDE DEF p, m, l, n
      <4>2. QED
        BY <3>4, <4>1, TokensMoved
    <3>7. Cardinality(Tokens(m, Counts')) = Cardinality(T)
      BY <2>2, <3>3, <3>4, <3>6
    <3>8. QED
      BY <2>1, <2>2, <2>3, <3>1, <3>2, <3>6, <3>7, BalanceKept
  <2>10. CASE ReturnResults(w)
    <3>1. TypeOK' /\ Counts' = Counts
      BY <1>1, <2>10, CallReturned
    <3>2. jobs' = jobs /\ activeWorkers' = activeWorkers /\ jobsClosed' = jobsClosed
      BY <2>10 DEF ReturnResults
    <3>3. QED
      BY <2>1, <2>2, <2>3, <3>1, <3>2, BalanceKept
  <2>11. QED
    BY <1>5, <2>4, <2>5, <2>6, <2>7, <2>8, <2>9, <2>10 DEF WorkerStep
<1>6. CASE UNCHANGED vars
  <2>1. /\ mainPc' = mainPc /\ jobs' = jobs /\ stack' = stack
        /\ jobsClosed' = jobsClosed /\ activeWorkers' = activeWorkers
        /\ matchedFiles' = matchedFiles /\ exited' = exited
    BY <1>6 DEF vars
  <2>2. TypeOK'
    BY <1>1, <2>1 DEF TypeOK
  <2>3. Counts' = Counts
    BY <2>1 DEF Counts
  <2>4. CASE mainPc = "fill"
    BY <2>1, <2>2, <2>4 DEF CounterInv, CounterIsOutstanding, NoneBeforeStart, ClosedAtZero
  <2>5. CASE mainPc # "fill"
    BY <2>1, <2>2, <2>3, <2>5, Balance, BalanceKept DEF CounterInv, ClosedAtZero
  <2>6. QED
    BY <2>4, <2>5
<1>7. QED
  BY <1>2, <1>3, <1>4, <1>5, <1>6 DEF Next, MainStep

\* In every reachable state the counter is the number of jobs still to be visited, wherever
\* they are: in the channel, or in the calls of the workers.
THEOREM CounterIsRight == Spec => []CounterInv
BY CounterInitial, CounterStep, PTL DEF Spec

\* The channel is closed once and nothing is sent on it afterwards, for any tree, any number
\* of workers and any capacity of the channel.
THEOREM ClosedForGood == Spec => []NoSendAfterClose
<1>1. CounterInv => NoSendAfterClose
  <2> SUFFICES ASSUME CounterInv, jobsClosed
               PROVE  /\ jobs = << >>
                      /\ \A w \in Workers : \A i \in DOMAIN stack[w] :
                           stack[w][i].at = "handOut" /\ stack[w][i].newJobs = << >>
    BY DEF NoSendAfterClose
  <2>1. jobs = << >> /\ \A w \in Workers, k \in Positive : Counts[w][k] = 0
    BY NoneLeft
  <2>2. ASSUME NEW w \in Workers, NEW i \in DOMAIN stack[w]
        PROVE  stack[w][i].at = "handOut" /\ stack[w][i].newJobs = << >>
    <3> DEFINE s == stack[w]
               k == Len(s) + 1 - i
    <3>1. s \in Seq(Frame)
      BY DEF CounterInv, TypeOK
    <3>2. i \in 1 .. Len(s) /\ Len(s) \in Nat
      BY <3>1, LenProperties
    <3>3. s[i] \in Frame
      BY <3>1, <3>2, ElementOfSeq
    <3>4. Counts[w] = CountsIn(s)
      BY DEF Counts
    <3> HIDE DEF s
    <3>5. k \in Positive /\ k <= Len(s) /\ Len(s) + 1 - k = i
      BY <3>2 DEF Positive
    <3> HIDE DEF k
    <3>6. OutstandingIn(s[i]) = 0
      BY <2>1, <3>4, <3>5 DEF CountsIn
    <3>7. /\ s[i].at \in {"visited", "counted", "handOut"}
          /\ s[i].newJobs \in Seq(Job) /\ Len(s[i].newJobs) \in Nat
      BY <3>3, LenProperties DEF Frame
    <3>8. s[i].at = "handOut" /\ Len(s[i].newJobs) = 0
      BY <3>6, <3>7 DEF OutstandingIn
    <3>9. QED
      BY <3>7, <3>8, EmptySeq DEF s
  <2>3. QED
    BY <2>1, <2>2
<1>2. QED
  BY <1>1, CounterInitial, CounterStep, PTL DEF Spec

-----------------------------------------------------------------------------
(* What the visitor finds: every matching file of every directory within   *)
(* the depth limit, once.                                                  *)

-----------------------------------------------------------------------------
(* The levels of the tree. *)

ChildrenOf(d) == Range(SubDirsOf[d]) \cap DirMatches
ChildrenOfAll(dirs) == UNION { ChildrenOf(d) : d \in dirs }

LEMMA ChildrenAreDirs ==
  ASSUME NEW d \in Dirs
  PROVE  /\ ChildrenOf(d) \subseteq Dirs
         /\ \A c \in ChildrenOf(d) : c \notin Range(BasePaths)
         /\ \A e \in Dirs, c \in ChildrenOf(d) : c \in ChildrenOf(e) => d = e
<1>1. SubDirsOf[d] \in Seq(Dirs) /\ \A e \in Dirs : SubDirsOf[e] \in Seq(Dirs)
  BY SubDirsAssumption
<1>2. \A c \in ChildrenOf(d) : \E i \in DOMAIN SubDirsOf[d] : SubDirsOf[d][i] = c
  BY DEF ChildrenOf, Range
<1>3. ChildrenOf(d) \subseteq Dirs
  BY DirsAssumption DEF ChildrenOf
<1>4. \A c \in ChildrenOf(d) : c \notin Range(BasePaths)
  BY <1>2, TreeAssumption
<1>5. ASSUME NEW e \in Dirs, NEW c \in ChildrenOf(d), c \in ChildrenOf(e) PROVE d = e
  <2>1. PICK i \in DOMAIN SubDirsOf[d] : SubDirsOf[d][i] = c
    BY <1>2
  <2>2. PICK j \in DOMAIN SubDirsOf[e] : SubDirsOf[e][j] = c
    BY <1>5 DEF ChildrenOf, Range
  <2> QED BY <2>1, <2>2, TreeAssumption
<1> QED BY <1>3, <1>4, <1>5

\* The recursive definition of Level has the meaning it is read with.
LEMMA LevelUnfolds ==
  /\ Level \in [Nat -> SUBSET Dirs]
  /\ Level[0] = Range(BasePaths)
  /\ \A n \in Nat : Level[n + 1] = ChildrenOfAll(Level[n])
<1> DEFINE V == SUBSET Dirs
           b == Range(BasePaths)
           F == [dirs \in V |-> [n \in Nat |-> ChildrenOfAll(dirs)]]
           Step(f, n) == IF n = 0 THEN b ELSE ChildrenOfAll(f[n - 1])
<1>1. b \in V /\ \A dirs \in V : ChildrenOfAll(dirs) \in V
  <2>1. b \in V
    BY BasePathsAssumption DEF Range
  <2>2. \A dirs \in V : ChildrenOfAll(dirs) \in V
    BY ChildrenAreDirs DEF ChildrenOfAll
  <2> QED BY <2>1, <2>2
<1>2. F \in [V -> [Nat -> V]]
  BY <1>1
<1>3. PICK f \in [Nat -> V] : Follows(f, b, F)
  <2> HIDE DEF V, F, b
  <2> QED BY <1>1, <1>2, RecursionDefines
<1>4. \A n \in Nat : f[n + 1] = ChildrenOfAll(f[n])
  BY <1>3 DEF Follows
<1>5. f = [n \in Nat |-> Step(f, n)]
  <2>1. ASSUME NEW n \in Nat PROVE f[n] = Step(f, n)
    <3>1. CASE n = 0
      BY <1>3, <3>1 DEF Follows
    <3>2. CASE n # 0
      <4> DEFINE m == n - 1
      <4>1. m \in Nat /\ m + 1 = n
        BY <3>2
      <4>2. f[m + 1] = ChildrenOfAll(f[m])
        BY <1>4, <4>1
      <4> QED BY <3>2, <4>1, <4>2
    <3> QED BY <3>1, <3>2
  <2> HIDE DEF Step
  <2> QED BY <2>1
<1>6. Level = CHOOSE g : g = [n \in Nat |-> Step(g, n)]
  BY DEF Level, ChildrenOfAll, ChildrenOf
<1>7. Level = [n \in Nat |-> Step(Level, n)]
  <2> HIDE DEF Step
  <2> QED BY <1>5, <1>6
<1>8. Level[0] = b
  BY <1>7
<1>9. ASSUME NEW n \in Nat PROVE Level[n + 1] = ChildrenOfAll(Level[n])
  <2> DEFINE m == n + 1
  <2>1. m \in Nat /\ m # 0 /\ m - 1 = n
    OBVIOUS
  <2> HIDE DEF m
  <2>2. Level[m] = ChildrenOfAll(Level[m - 1])
    BY <1>7, <2>1
  <2> QED BY <2>1, <2>2 DEF m
<1> DEFINE T == { n \in Nat : Level[n] \in V }
<1>10. Nat \subseteq T
  <2>1. 0 \in T
    BY <1>1, <1>8
  <2>2. \A n \in Nat : n \in T => n + 1 \in T
    BY <1>1, <1>9
  <2> HIDE DEF T
  <2> QED BY <2>1, <2>2, SetInduction
<1>11. Level \in [Nat -> V]
  <2>1. \A n \in Nat : Level[n] \in V
    BY <1>10
  <2> HIDE DEF V, Step
  <2> QED BY <1>7, <2>1
<1> QED BY <1>8, <1>9, <1>11

\* A directory is at one level only.
LEMMA LevelsApart ==
  \A m, n \in Nat : m < n => Level[m] \cap Level[n] = {}
<1> DEFINE T == { m \in Nat : \A n \in Nat : m < n => Level[m] \cap Level[n] = {} }
<1>0. \A n \in Nat : Level[n] \in SUBSET Dirs
  BY LevelUnfolds
<1>1. ASSUME NEW n \in Nat, n > 0 PROVE \E k \in Nat : k + 1 = n /\ Level[n] = ChildrenOfAll(Level[k])
  <2> DEFINE k == n - 1
  <2>1. k \in Nat /\ k + 1 = n
    BY <1>1
  <2> QED BY <2>1, LevelUnfolds
<1>2. 0 \in T
  <2> SUFFICES ASSUME NEW n \in Nat, 0 < n PROVE Level[0] \cap Level[n] = {}
    OBVIOUS
  <2>1. PICK k \in Nat : k + 1 = n /\ Level[n] = ChildrenOfAll(Level[k])
    BY <1>1
  <2> QED BY <1>0, <2>1, LevelUnfolds, ChildrenAreDirs DEF ChildrenOfAll
<1>3. ASSUME NEW m \in Nat, m \in T PROVE m + 1 \in T
  <2> SUFFICES ASSUME NEW n \in Nat, m + 1 < n PROVE Level[m + 1] \cap Level[n] = {}
    OBVIOUS
  <2>1. PICK k \in Nat : k + 1 = n /\ Level[n] = ChildrenOfAll(Level[k])
    BY <1>1
  <2>2. m < k
    BY <2>1
  <2>3. Level[m] \cap Level[k] = {}
    BY <1>3, <2>2
  <2>4. Level[m + 1] = ChildrenOfAll(Level[m])
    BY LevelUnfolds
  <2> QED BY <1>0, <2>1, <2>3, <2>4, ChildrenAreDirs DEF ChildrenOfAll
<1>4. Nat \subseteq T
  <2> HIDE DEF T
  <2> QED BY <1>2, <1>3, SetInduction
<1> QED BY <1>4

\* Levels go on only as long as there are other directories.
LEMMA LevelBound ==
  ASSUME NEW n \in Nat, NEW d \in Level[n]
  PROVE  n <= Cardinality(Dirs)
<1>0. \A k \in Nat : Level[k] \in SUBSET Dirs
  BY LevelUnfolds
<1> DEFINE T == { i \in Nat : i <= n => Level[n - i] # {} }
<1>1. 0 \in T
  BY <1>0
<1>2. ASSUME NEW i \in Nat, i \in T PROVE i + 1 \in T
  <2> SUFFICES ASSUME i + 1 <= n PROVE Level[n - (i + 1)] # {}
    OBVIOUS
  <2> DEFINE k == n - (i + 1)
  <2>1. k \in Nat /\ k + 1 = n - i /\ i <= n
    OBVIOUS
  <2>2. Level[k + 1] # {}
    BY <1>2, <2>1
  <2>3. Level[k + 1] = ChildrenOfAll(Level[k])
    BY <2>1, LevelUnfolds
  <2> QED BY <2>2, <2>3 DEF ChildrenOfAll
<1>3. Nat \subseteq T
  <2> HIDE DEF T
  <2> QED BY <1>1, <1>2, SetInduction
<1>4. ASSUME NEW k \in 0 .. n PROVE Level[k] # {}
  <2> DEFINE i == n - k
  <2>1. i \in Nat /\ i <= n /\ n - i = k
    OBVIOUS
  <2> QED BY <1>3, <2>1
<1> DEFINE f == [k \in 0 .. n |-> CHOOSE x : x \in Level[k]]
<1>5. \A k \in 0 .. n : f[k] \in Level[k]
  BY <1>4
<1>6. f \in Injection(0 .. n, Dirs)
  <2>1. f \in [0 .. n -> Dirs]
    BY <1>0, <1>5
  <2>2. ASSUME NEW j \in 0 .. n, NEW k \in 0 .. n, f[j] = f[k] PROVE j = k
    <3>1. f[j] \in Level[j] \cap Level[k]
      BY <1>5, <2>2
    <3> HIDE DEF f
    <3>2. ~ j < k /\ ~ k < j
      BY <3>1, LevelsApart
    <3> QED BY <3>2
  <2> HIDE DEF f
  <2> QED BY <2>1, <2>2 DEF Injection, IsInjective
<1>7. Cardinality(0 .. n) <= Cardinality(Dirs)
  <2> DEFINE I == 0 .. n
  <2>1. f \in Injection(I, Dirs) /\ IsFiniteSet(Dirs)
    BY <1>6, DirsAssumption
  <2> HIDE DEF f, I
  <2>2. Cardinality(I) <= Cardinality(Dirs)
    BY <2>1, FS_Injection
  <2> QED BY <2>2 DEF I
<1>8. Cardinality(0 .. n) = n + 1
  <2>1. Cardinality(0 .. n) = IF 0 > n THEN 0 ELSE n - 0 + 1
    BY ONLY n \in Nat, FS_Interval
  <2> QED BY <2>1
<1>9. Cardinality(Dirs) \in Nat
  BY DirsAssumption, FS_CardinalityType
<1> QED BY <1>7, <1>8, <1>9

\* The levels within the depth limit.
Within(n) == Depth = NoDepth \/ n < Depth

LEMMA DirsWithinLevels ==
  \A d : d \in DirsWithin <=> \E n \in Nat : Within(n) /\ d \in Level[n]
<1>1. ASSUME NEW n \in Nat, NEW d \in Level[n] PROVE n \in 0 .. Cardinality(Dirs)
  BY LevelBound, DirsAssumption, FS_CardinalityType
<1> QED BY <1>1 DEF DirsWithin, Within

-----------------------------------------------------------------------------
(* The directories below a directory: the least set that has it, and with a *)
(* directory its children.                                                  *)

ClosedDown(S) == S \subseteq Dirs /\ \A d \in S : ChildrenOf(d) \subseteq S
Below(d) == { e \in Dirs : \A S : d \in S /\ ClosedDown(S) => e \in S }

LEMMA BelowIsClosed ==
  ASSUME NEW d \in Dirs
  PROVE  /\ d \in Below(d) /\ ClosedDown(Below(d))
         /\ \A S : d \in S /\ ClosedDown(S) => Below(d) \subseteq S
BY ChildrenAreDirs DEF Below, ClosedDown

\* Below a directory are it and what is below its children.
LEMMA BelowChildren ==
  ASSUME NEW d \in Dirs
  PROVE  /\ \A c \in ChildrenOf(d) : Below(c) \subseteq Below(d)
         /\ \A e \in Below(d) : e = d \/ \E c \in ChildrenOf(d) : e \in Below(c)
<1>0. ChildrenOf(d) \subseteq Dirs
  BY ChildrenAreDirs
<1>1. \A c \in ChildrenOf(d) : Below(c) \subseteq Below(d)
  <2>1. ClosedDown(Below(d)) /\ ChildrenOf(d) \subseteq Below(d)
    BY BelowIsClosed DEF ClosedDown
  <2> QED BY <1>0, <2>1, BelowIsClosed
<1> DEFINE S == {d} \cup UNION { Below(c) : c \in ChildrenOf(d) }
<1>2. ClosedDown(S)
  <2>1. \A c \in ChildrenOf(d) : c \in Below(c) /\ ClosedDown(Below(c))
    BY <1>0, BelowIsClosed
  <2>2. S \subseteq Dirs
    BY DEF Below
  <2>3. ChildrenOf(d) \subseteq S
    BY <2>1
  <2>4. ASSUME NEW c \in ChildrenOf(d), NEW x \in Below(c) PROVE ChildrenOf(x) \subseteq S
    BY <2>1 DEF ClosedDown
  <2> QED BY <2>2, <2>3, <2>4 DEF ClosedDown
<1>3. Below(d) \subseteq S
  BY <1>2, BelowIsClosed
<1> QED BY <1>1, <1>3

\* Below a directory, but for itself, are children of what is below it.
LEMMA BelowParent ==
  ASSUME NEW d \in Dirs, NEW e \in Below(d), e # d
  PROVE  \E p \in Below(d) : e \in ChildrenOf(p)
<1> DEFINE S == {d} \cup ChildrenOfAll(Below(d))
<1>1. d \in Below(d) /\ ClosedDown(Below(d))
  BY BelowIsClosed
<1>2. ChildrenOfAll(Below(d)) \subseteq Below(d)
  BY <1>1 DEF ClosedDown, ChildrenOfAll
<1>3. ClosedDown(S)
  BY <1>1, <1>2 DEF ClosedDown, ChildrenOfAll
<1>4. e \in S
  BY <1>3, BelowIsClosed
<1> QED BY <1>4 DEF ChildrenOfAll

\* It is on the same level or on a deeper one.
LEMMA BelowLevel ==
  ASSUME NEW n \in Nat, NEW d \in Level[n], NEW e \in Below(d)
  PROVE  \E k \in Nat : k >= n /\ e \in Level[k]
<1> DEFINE S == UNION { Level[k] : k \in { i \in Nat : i >= n } }
<1>1. ClosedDown(S)
  <2>1. S \subseteq Dirs
    BY LevelUnfolds
  <2>2. ASSUME NEW k \in Nat, k >= n, NEW x \in Level[k], NEW c \in ChildrenOf(x)
        PROVE  c \in S
    <3> DEFINE m == k + 1
    <3>1. m \in Nat /\ m >= n
      BY <2>2
    <3>2. c \in Level[m]
      BY <2>2, LevelUnfolds DEF ChildrenOfAll
    <3> HIDE DEF m
    <3> QED BY <3>1, <3>2
  <2> QED BY <2>1, <2>2 DEF ClosedDown
<1>2. d \in S /\ d \in Dirs
  BY LevelUnfolds
<1>3. e \in S
  BY <1>1, <1>2, BelowIsClosed
<1> QED BY <1>3

LEMMA ChildLevel ==
  ASSUME NEW n \in Nat, NEW d \in Level[n], NEW c \in ChildrenOf(d), NEW e \in Below(c)
  PROVE  /\ \E k \in Nat : k > n /\ e \in Level[k]
         /\ e # d
<1> DEFINE m == n + 1
<1>1. m \in Nat /\ m > n
  OBVIOUS
<1>2. c \in Level[m]
  BY LevelUnfolds DEF ChildrenOfAll
<1> HIDE DEF m
<1>3. PICK k \in Nat : k >= m /\ e \in Level[k]
  BY <1>1, <1>2, BelowLevel
<1>4. k > n
  BY <1>1, <1>3
<1>5. e # d
  BY <1>3, <1>4, LevelsApart
<1> QED BY <1>3, <1>4, <1>5

\* The children of a directory have nothing in common, nor do the base paths.
LEMMA ChildrenApart ==
  ASSUME NEW n \in Nat, NEW d \in Level[n],
         NEW c1 \in ChildrenOf(d), NEW c2 \in ChildrenOf(d), c1 # c2
  PROVE  Below(c1) \cap Below(c2) = {}
<1> DEFINE S == Below(c1) \ Below(c2)
<1>0. d \in Dirs /\ c1 \in Dirs /\ c2 \in Dirs
  BY LevelUnfolds, ChildrenAreDirs
<1>1. d \notin Below(c1) /\ d \notin Below(c2)
  BY ChildLevel
<1>2. c1 \in S
  <2>1. c1 \in Below(c1)
    BY <1>0, BelowIsClosed
  <2>2. ASSUME c1 \in Below(c2) PROVE FALSE
    <3>1. PICK p \in Below(c2) : c1 \in ChildrenOf(p)
      BY <1>0, <2>2, BelowParent
    <3>2. p \in Dirs
      BY DEF Below
    <3> QED BY <1>0, <1>1, <3>1, <3>2, ChildrenAreDirs
  <2> QED BY <2>1, <2>2
<1>3. ClosedDown(S)
  <2>1. S \subseteq Dirs
    BY DEF Below
  <2>2. ASSUME NEW x \in S, NEW y \in ChildrenOf(x) PROVE y \in S
    <3>1. y \in Below(c1)
      BY <1>0, BelowIsClosed DEF ClosedDown
    <3>2. ASSUME y \in Below(c2) PROVE FALSE
      <4>1. CASE y = c2
        <5>1. x = d
          BY <1>0, <2>1, <4>1, ChildrenAreDirs
        <5> QED BY <1>1, <5>1
      <4>2. CASE y # c2
        <5>1. PICK p \in Below(c2) : y \in ChildrenOf(p)
          BY <1>0, <3>2, <4>2, BelowParent
        <5>2. p \in Dirs
          BY DEF Below
        <5>3. p = x
          BY <2>1, <5>1, <5>2, ChildrenAreDirs
        <5> QED BY <5>1, <5>3
      <4> QED BY <4>1, <4>2
    <3> QED BY <3>1, <3>2
  <2> QED BY <2>1, <2>2 DEF ClosedDown
<1>4. Below(c1) \subseteq S
  <2> HIDE DEF S
  <2> QED BY <1>0, <1>2, <1>3, BelowIsClosed
<1> QED BY <1>4

LEMMA BasesApart ==
  ASSUME NEW b1 \in Range(BasePaths), NEW b2 \in Range(BasePaths), b1 # b2
  PROVE  Below(b1) \cap Below(b2) = {}
<1> DEFINE S == Below(b1) \ Below(b2)
<1>0. b1 \in Dirs /\ b2 \in Dirs
  BY LevelUnfolds
<1>1. ASSUME NEW x \in Below(b1) \cup Below(b2) PROVE b1 \notin ChildrenOf(x) /\ b2 \notin ChildrenOf(x)
  <2>1. x \in Dirs
    BY DEF Below
  <2> QED BY <2>1, ChildrenAreDirs
<1>2. b1 \in S
  BY <1>0, <1>1, BelowIsClosed, BelowParent
<1>3. ClosedDown(S)
  <2>1. S \subseteq Dirs
    BY DEF Below
  <2>2. ASSUME NEW x \in S, NEW y \in ChildrenOf(x) PROVE y \in S
    <3>1. y \in Below(b1)
      BY <1>0, BelowIsClosed DEF ClosedDown
    <3>2. ASSUME y \in Below(b2) PROVE FALSE
      <4>1. y # b2
        BY <1>1
      <4>2. PICK p \in Below(b2) : y \in ChildrenOf(p)
        BY <1>0, <3>2, <4>1, BelowParent
      <4>3. p \in Dirs
        BY DEF Below
      <4>4. p = x
        BY <2>1, <4>2, <4>3, ChildrenAreDirs
      <4> QED BY <4>2, <4>4
    <3> QED BY <3>1, <3>2
  <2> QED BY <2>1, <2>2 DEF ClosedDown
<1>4. Below(b1) \subseteq S
  <2> HIDE DEF S
  <2> QED BY <1>0, <1>2, <1>3, BelowIsClosed
<1> QED BY <1>4

\* Every directory of a level is below a base path.
LEMMA BelowBases ==
  \A n \in Nat : \A d \in Level[n] : \E b \in Range(BasePaths) : d \in Below(b)
<1> DEFINE P(d) == \E b \in Range(BasePaths) : d \in Below(b)
           T == { n \in Nat : \A d \in Level[n] : P(d) }
<1>0. Range(BasePaths) \subseteq Dirs
  BY LevelUnfolds
<1>1. 0 \in T
  BY <1>0, LevelUnfolds, BelowIsClosed
<1>2. ASSUME NEW n \in Nat, n \in T PROVE n + 1 \in T
  <2> SUFFICES ASSUME NEW c \in Level[n + 1] PROVE P(c)
    OBVIOUS
  <2>1. PICK d \in Level[n] : c \in ChildrenOf(d)
    BY LevelUnfolds DEF ChildrenOfAll
  <2>2. PICK b \in Range(BasePaths) : d \in Below(b)
    BY <1>2
  <2>3. c \in Below(b)
    BY <1>0, <2>1, <2>2, BelowIsClosed DEF ClosedDown
  <2> QED BY <2>3
<1>3. Nat \subseteq T
  <2> HIDE DEF T
  <2> QED BY <1>1, <1>2, SetInduction
<1> QED BY <1>3

-----------------------------------------------------------------------------
(* The files below a directory that are to be found. *)

Under(d) == { f \in MatchingFiles : \E e \in Below(d) \cap DirsWithin : f \in Range(FilesOf[e]) }

Elements(s) == { s[i] : i \in 1 .. Len(s) }

LEMMA SelectedElements ==
  ASSUME NEW s, DOMAIN s = 1 .. Len(s), NEW t, NEW S, Chosen(t, s, Len(s), S)
  PROVE  Elements(t) = Range(s) \cap S
<1>1. ASSUME NEW x \in Elements(t) PROVE x \in Range(s) /\ x \in S
  <2>1. PICK k \in 1 .. Len(t) : t[k] = x
    BY DEF Elements
  <2>2. t[k] \in S /\ \E i \in 1 .. Len(s) : s[i] = t[k]
    BY DEF Chosen
  <2> QED BY <2>1, <2>2 DEF Range
<1>2. ASSUME NEW x \in Range(s), x \in S PROVE x \in Elements(t)
  <2>1. PICK i \in 1 .. Len(s) : s[i] = x
    BY DEF Range
  <2>2. \E k \in 1 .. Len(t) : t[k] = s[i]
    BY <1>2, <2>1 DEF Chosen
  <2> QED BY <2>1, <2>2 DEF Elements
<1> QED BY <1>1, <1>2

LEMMA FilesFoundFacts ==
  ASSUME NEW d \in Dirs
  PROVE  /\ FilesFound(d) \in Seq(FileNames) /\ Distinct(FilesFound(d))
         /\ Elements(FilesFound(d)) = Range(FilesOf[d]) \cap MatchingFiles
<1> DEFINE s == FilesOf[d]
           t == FilesFound(d)
<1>1. s \in Seq(FileNames)
  BY FilesAssumption
<1>2. t \in Seq(FileNames) /\ Chosen(t, s, Len(s), MatchingFiles)
  BY <1>1, SelectedFacts DEF FilesFound
<1>3. DOMAIN s = 1 .. Len(s)
  BY <1>1
<1>4. Distinct(s)
  BY <1>3, TreeAssumption DEF Distinct
<1> HIDE DEF s, t
<1>5. Distinct(t)
  BY <1>2, <1>4 DEF Chosen
<1>6. Elements(t) = Range(s) \cap MatchingFiles
  BY <1>2, <1>3, SelectedElements
<1> QED BY <1>2, <1>5, <1>6 DEF s, t

LEMMA MatchingDirsFacts ==
  ASSUME NEW d \in Dirs
  PROVE  /\ MatchingDirs(d) \in Seq(Dirs) /\ Distinct(MatchingDirs(d))
         /\ Elements(MatchingDirs(d)) = ChildrenOf(d)
<1> DEFINE s == SubDirsOf[d]
           t == MatchingDirs(d)
<1>1. s \in Seq(Dirs)
  BY SubDirsAssumption
<1>2. t \in Seq(Dirs) /\ Chosen(t, s, Len(s), DirMatches)
  BY <1>1, SelectedFacts DEF MatchingDirs
<1>3. DOMAIN s = 1 .. Len(s)
  BY <1>1
<1>4. Distinct(s)
  BY <1>3, TreeAssumption DEF Distinct
<1>5. ChildrenOf(d) = Range(s) \cap DirMatches
  BY DEF ChildrenOf
<1> HIDE DEF s, t
<1>6. Distinct(t)
  BY <1>2, <1>4 DEF Chosen
<1>7. Elements(t) = Range(s) \cap DirMatches
  BY <1>2, <1>3, SelectedElements
<1> QED BY <1>2, <1>5, <1>6, <1>7 DEF t

\* What belongs to different directories is different.
LEMMA UnderApart ==
  ASSUME NEW c1, NEW c2, Below(c1) \cap Below(c2) = {}
  PROVE  Under(c1) \cap Under(c2) = {}
<1> SUFFICES ASSUME NEW f \in Under(c1), f \in Under(c2) PROVE FALSE
  OBVIOUS
<1>1. PICK d \in Below(c1) : f \in Range(FilesOf[d])
  BY DEF Under
<1>2. PICK e \in Below(c2) : f \in Range(FilesOf[e])
  BY DEF Under
<1>3. d \in Dirs /\ e \in Dirs
  BY DEF Below
<1>4. d = e
  BY <1>1, <1>2, <1>3, TreeAssumption DEF Range
<1> QED BY <1>4

\* The files under a directory are its own and those under its children, if these
\* are within the limit; no file is counted twice.
LEMMA UnderSplits ==
  ASSUME NEW n \in Nat, Within(n), NEW d \in Level[n]
  PROVE  /\ Elements(FilesFound(d)) \subseteq Under(d)
         /\ \A c \in ChildrenOf(d) :
              /\ Under(c) \subseteq Under(d)
              /\ Under(c) \cap Elements(FilesFound(d)) = {}
         /\ \A f \in Under(d) :
              \/ f \in Elements(FilesFound(d))
              \/ Within(n + 1) /\ \E c \in ChildrenOf(d) : f \in Under(c)
<1>0. d \in Dirs /\ d \in DirsWithin /\ d \in Below(d) /\ ChildrenOf(d) \subseteq Dirs
  BY LevelUnfolds, DirsWithinLevels, BelowIsClosed, ChildrenAreDirs
<1>1. Elements(FilesFound(d)) = Range(FilesOf[d]) \cap MatchingFiles
  BY <1>0, FilesFoundFacts
<1>2. Elements(FilesFound(d)) \subseteq Under(d)
  BY <1>0, <1>1 DEF Under
<1>3. ASSUME NEW c \in ChildrenOf(d)
      PROVE  /\ Under(c) \subseteq Under(d)
             /\ Under(c) \cap Elements(FilesFound(d)) = {}
  <2>1. Below(c) \subseteq Below(d)
    BY <1>0, BelowChildren
  <2>2. ASSUME NEW f \in Under(c), f \in Range(FilesOf[d]) PROVE FALSE
    <3>1. PICK e \in Below(c) : f \in Range(FilesOf[e])
      BY DEF Under
    <3>2. e \in Dirs
      BY DEF Below
    <3>3. e = d
      BY <1>0, <2>2, <3>1, <3>2, TreeAssumption DEF Range
    <3> QED BY <3>1, <3>3, ChildLevel
  <2> QED BY <1>1, <2>1, <2>2 DEF Under
<1>4. ASSUME NEW f \in Under(d), f \notin Elements(FilesFound(d))
      PROVE  Within(n + 1) /\ \E c \in ChildrenOf(d) : f \in Under(c)
  <2>1. f \in MatchingFiles
    BY DEF Under
  <2>2. PICK e \in Below(d) \cap DirsWithin : f \in Range(FilesOf[e])
    BY DEF Under
  <2>3. e # d
    BY <1>1, <1>4, <2>1, <2>2
  <2>4. PICK c \in ChildrenOf(d) : e \in Below(c)
    BY <1>0, <2>2, <2>3, BelowChildren
  <2>5. PICK k \in Nat : k > n /\ e \in Level[k]
    BY <2>4, ChildLevel
  <2>6. PICK m \in Nat : Within(m) /\ e \in Level[m]
    BY <2>2, DirsWithinLevels
  <2>7. k = m
    BY <2>5, <2>6, LevelsApart
  <2>8. Within(n + 1)
    BY <2>5, <2>6, <2>7, DepthAssumption DEF Within
  <2> QED BY <2>1, <2>2, <2>4, <2>8 DEF Under
<1> QED BY <1>2, <1>3, <1>4

-----------------------------------------------------------------------------
(* What jobs and calls still stand for. *)

\* A job for a directory within the limit has what is left of it.
DepthAt(n) == IF Depth = NoDepth THEN NoDepth ELSE Depth - n
JobOK(job) == \E n \in Nat : Within(n) /\ job.dir \in Level[n] /\ job.depth = DepthAt(n)

JobFiles(js) == UNION { Under(js[i].dir) : i \in 1 .. Len(js) }
JobsOK(js) ==
  /\ \A i \in 1 .. Len(js) : JobOK(js[i])
  /\ \A i, j \in 1 .. Len(js) : i # j => Under(js[i].dir) \cap Under(js[j].dir) = {}

\* A call has found files and has new jobs to hand out; it does not find a file twice.
FrameFiles(frame) == Elements(frame.results) \cup JobFiles(frame.newJobs)
FrameOK(frame) ==
  /\ Distinct(frame.results)
  /\ JobsOK(frame.newJobs)
  /\ Elements(frame.results) \cap JobFiles(frame.newJobs) = {}

\* The new jobs of a call.
LEMMA NewJobsFacts ==
  ASSUME NEW n \in Nat, Within(n), NEW d \in Level[n]
  PROVE  LET js == NewJobs(d, DepthAt(n)) IN
           IF Within(n + 1)
           THEN /\ Len(js) = Len(MatchingDirs(d))
                /\ \A i \in 1 .. Len(js) :
                     js[i] = [dir |-> MatchingDirs(d)[i], depth |-> DepthAt(n + 1)]
           ELSE Len(js) = 0
<1> DEFINE js == NewJobs(d, DepthAt(n))
           within == MatchingDirs(d)
<1>1. within \in Seq(Dirs)
  BY LevelUnfolds, MatchingDirsFacts
<1>2. DepthLeft(DepthAt(n)) <=> Within(n + 1)
  BY DepthAssumption DEF DepthLeft, DepthAt, Within
<1>3. (IF DepthAt(n) = NoDepth THEN NoDepth ELSE DepthAt(n) - 1) = DepthAt(n + 1)
  BY DepthAssumption DEF DepthAt
<1>4. CASE Within(n + 1)
  <2>1. js = [i \in DOMAIN within |-> [dir |-> within[i], depth |-> DepthAt(n + 1)]]
    BY <1>2, <1>3, <1>4 DEF NewJobs
  <2> HIDE DEF within, js
  <2>2. DOMAIN within = 1 .. Len(within) /\ Len(within) \in Nat
    BY <1>1
  <2>3. Len(js) = Len(within)
    BY <2>1, <2>2
  <2> QED BY <1>4, <2>1, <2>2, <2>3 DEF within, js
<1>5. CASE ~ Within(n + 1)
  BY <1>2, <1>5 DEF NewJobs
<1> QED BY <1>4, <1>5

\* A call of visitScheduler takes over what its job stood for.
LEMMA JobSplits ==
  ASSUME NEW job \in Job, JobOK(job)
  PROVE  FrameOK(Visited(job)) /\ FrameFiles(Visited(job)) = Under(job.dir)
<1>1. PICK n \in Nat : Within(n) /\ job.dir \in Level[n] /\ job.depth = DepthAt(n)
  BY DEF JobOK
<1> DEFINE d == job.dir
           js == NewJobs(d, DepthAt(n))
           cs == MatchingDirs(d)
           found == FilesFound(d)
           m == n + 1
<1>2. Visited(job) = [at |-> "visited", results |-> found, newJobs |-> js]
  BY <1>1 DEF Visited
<1>3. /\ cs \in Seq(Dirs) /\ Distinct(cs) /\ Elements(cs) = ChildrenOf(d)
      /\ found \in Seq(FileNames) /\ Distinct(found)
  BY <1>1, LevelUnfolds, MatchingDirsFacts, FilesFoundFacts
<1>4. IF Within(m) THEN /\ Len(js) = Len(cs)
                        /\ \A i \in 1 .. Len(js) : js[i] = [dir |-> cs[i], depth |-> DepthAt(m)]
                   ELSE Len(js) = 0
  BY <1>1, NewJobsFacts
<1>5. /\ Elements(found) \subseteq Under(d)
      /\ \A c \in ChildrenOf(d) : Under(c) \subseteq Under(d) /\ Under(c) \cap Elements(found) = {}
      /\ \A f \in Under(d) :
           \/ f \in Elements(found)
           \/ Within(m) /\ \E c \in ChildrenOf(d) : f \in Under(c)
  BY <1>1, UnderSplits
<1>6. m \in Nat /\ d \in Level[n]
  BY <1>1
<1>7. \A c \in ChildrenOf(d) : c \in Level[m]
  BY <1>6, LevelUnfolds DEF ChildrenOfAll
<1>8. \A c1, c2 \in ChildrenOf(d) : c1 # c2 => Under(c1) \cap Under(c2) = {}
  BY <1>6, ChildrenApart, UnderApart
<1> HIDE DEF js, cs, found, m, d
<1>9. ASSUME NEW i \in 1 .. Len(js)
      PROVE  /\ Within(m) /\ i \in 1 .. Len(cs) /\ cs[i] \in ChildrenOf(d)
             /\ js[i].dir = cs[i] /\ js[i].depth = DepthAt(m)
  <2>1. Within(m) /\ Len(js) = Len(cs)
    BY <1>4
  <2>2. js[i] = [dir |-> cs[i], depth |-> DepthAt(m)]
    BY <1>4, <2>1
  <2>3. cs[i] \in Elements(cs)
    BY <2>1 DEF Elements
  <2> QED BY <1>3, <2>1, <2>2, <2>3
<1>10. JobsOK(js)
  <2>1. ASSUME NEW i \in 1 .. Len(js) PROVE JobOK(js[i])
    BY <1>6, <1>7, <1>9 DEF JobOK
  <2>2. ASSUME NEW i \in 1 .. Len(js), NEW j \in 1 .. Len(js), i # j
        PROVE  Under(js[i].dir) \cap Under(js[j].dir) = {}
    <3>1. cs[i] # cs[j]
      BY <1>3, <1>9, <2>2 DEF Distinct
    <3> QED BY <1>8, <1>9, <3>1
  <2> QED BY <2>1, <2>2 DEF JobsOK
<1>11. JobFiles(js) \cap Elements(found) = {} /\ JobFiles(js) \subseteq Under(d)
  BY <1>5, <1>9 DEF JobFiles
<1>12. ASSUME NEW f \in Under(d), f \notin Elements(found) PROVE f \in JobFiles(js)
  <2>1. Within(m)
    BY <1>5, <1>12
  <2>2. PICK c \in ChildrenOf(d) : f \in Under(c)
    BY <1>5, <1>12
  <2>3. PICK i \in 1 .. Len(cs) : cs[i] = c
    BY <1>3 DEF Elements
  <2>4. i \in 1 .. Len(js)
    BY <1>4, <2>1
  <2>5. js[i].dir = c
    BY <1>9, <2>3, <2>4
  <2> QED BY <2>2, <2>4, <2>5 DEF JobFiles
<1>13. FrameOK(Visited(job))
  BY <1>2, <1>3, <1>10, <1>11 DEF FrameOK
<1>14. FrameFiles(Visited(job)) = Under(d)
  <2>1. FrameFiles(Visited(job)) = Elements(found) \cup JobFiles(js)
    BY <1>2 DEF FrameFiles
  <2> QED BY <1>5, <1>11, <1>12, <2>1
<1> QED BY <1>13, <1>14 DEF d

LEMMA OneMore ==
  ASSUME NEW n \in Nat
  PROVE  \A i \in 1 .. n + 1 : i = 1 \/ \E k \in 1 .. n : i = k + 1
<1> SUFFICES ASSUME NEW i \in 1 .. n + 1, i # 1 PROVE \E k \in 1 .. n : i = k + 1
  OBVIOUS
<1>1. i - 1 \in 1 .. n /\ i = (i - 1) + 1
  OBVIOUS
<1> QED BY <1>1

\* Taking a job off, and putting one on.
LEMMA FirstJob ==
  ASSUME NEW js \in Seq(Job), js # << >>, JobsOK(js)
  PROVE  /\ Head(js) \in Job /\ JobOK(Head(js)) /\ Tail(js) \in Seq(Job) /\ JobsOK(Tail(js))
         /\ Under(Head(js).dir) \cap JobFiles(Tail(js)) = {}
         /\ JobFiles(js) = Under(Head(js).dir) \cup JobFiles(Tail(js))
<1> DEFINE job == Head(js)
           rest == Tail(js)
           n == Len(js) - 1
<1>1. /\ job \in Job /\ job = js[1] /\ rest \in Seq(Job) /\ n \in Nat
      /\ Len(rest) = n /\ 1 \in 1 .. Len(js)
      /\ \A i \in 1 .. Len(js) : i = 1 \/ \E k \in 1 .. n : i = k + 1
      /\ \A i \in 1 .. n : rest[i] = js[i + 1] /\ i + 1 \in 1 .. Len(js) /\ i + 1 # 1
  <2>1. /\ Len(js) \in Nat \ {0} /\ n \in Nat /\ Len(rest) = n /\ Len(js) = n + 1
        /\ job = js[1] /\ job \in Job /\ rest \in Seq(Job)
    BY HeadAndTail
  <2>2. \A i \in 1 .. n : rest[i] = js[i + 1] /\ i + 1 \in 1 .. Len(js) /\ i + 1 # 1
    BY HeadAndTail
  <2>3. \A i \in 1 .. Len(js) : i = 1 \/ \E k \in 1 .. n : i = k + 1
    BY ONLY n \in Nat, Len(js) = n + 1, <2>1, OneMore
  <2>4. 1 \in 1 .. Len(js)
    BY <2>1
  <2> HIDE DEF n, rest, job
  <2> QED BY <2>1, <2>2, <2>3, <2>4
<1>2. 1 \in 1 .. Len(js)
  BY <1>1
<1> HIDE DEF job, rest, n
<1>3. JobOK(job)
  BY <1>1, <1>2 DEF JobsOK
<1>4. JobsOK(rest)
  <2>1. \A i \in 1 .. Len(rest) : JobOK(rest[i])
    BY <1>1 DEF JobsOK
  <2>2. ASSUME NEW i \in 1 .. Len(rest), NEW j \in 1 .. Len(rest), i # j
        PROVE  Under(rest[i].dir) \cap Under(rest[j].dir) = {}
    <3>1. i + 1 # j + 1 /\ i + 1 \in 1 .. Len(js) /\ j + 1 \in 1 .. Len(js)
      BY <1>1, <2>2
    <3>2. Under(js[i + 1].dir) \cap Under(js[j + 1].dir) = {}
      BY <3>1 DEF JobsOK
    <3> QED BY <1>1, <3>2
  <2> QED BY <2>1, <2>2 DEF JobsOK
<1>5. ASSUME NEW i \in 1 .. Len(rest) PROVE Under(job.dir) \cap Under(rest[i].dir) = {}
  <2>1. Under(js[1].dir) \cap Under(js[i + 1].dir) = {}
    BY <1>1, <1>2 DEF JobsOK
  <2> QED BY <1>1, <2>1
<1>6. JobFiles(js) = Under(job.dir) \cup JobFiles(rest)
  <2>1. ASSUME NEW f \in JobFiles(js) PROVE f \in Under(job.dir) \cup JobFiles(rest)
    <3>1. PICK i \in 1 .. Len(js) : f \in Under(js[i].dir)
      BY DEF JobFiles
    <3>2. CASE i = 1
      BY <1>1, <3>1, <3>2
    <3>3. CASE i # 1
      <4>1. PICK k \in 1 .. n : i = k + 1
        BY <1>1, <3>3
      <4> QED BY <1>1, <3>1, <4>1 DEF JobFiles
    <3> QED BY <3>2, <3>3
  <2>2. Under(job.dir) \subseteq JobFiles(js)
    BY <1>1, <1>2 DEF JobFiles
  <2>3. ASSUME NEW f \in JobFiles(rest) PROVE f \in JobFiles(js)
    <3>1. PICK k \in 1 .. n : f \in Under(rest[k].dir)
      BY <1>1 DEF JobFiles
    <3> DEFINE i == k + 1
    <3>2. i \in 1 .. Len(js) /\ rest[k] = js[i]
      BY <1>1
    <3> HIDE DEF i
    <3> QED BY <3>1, <3>2 DEF JobFiles
  <2> QED BY <2>1, <2>2, <2>3
<1>7. Under(job.dir) \cap JobFiles(rest) = {}
  BY <1>5 DEF JobFiles
<1> QED BY <1>1, <1>3, <1>4, <1>6, <1>7 DEF job, rest

LEMMA JobAppended ==
  ASSUME NEW js \in Seq(Job), JobsOK(js), NEW job \in Job, JobOK(job),
         Under(job.dir) \cap JobFiles(js) = {}
  PROVE  /\ JobsOK(Append(js, job))
         /\ JobFiles(Append(js, job)) = JobFiles(js) \cup Under(job.dir)
<1> DEFINE more == Append(js, job)
           n == Len(js)
           m == n + 1
<1>1. /\ n \in Nat /\ Len(more) = m /\ more[m] = job /\ 1 .. m = (1 .. n) \cup {m}
      /\ \A i \in 1 .. n : more[i] = js[i]
  OBVIOUS
<1>2. \A i \in 1 .. n : Under(job.dir) \cap Under(js[i].dir) = {}
  BY DEF JobFiles
<1> HIDE DEF more, m
<1>3. \A i \in 1 .. Len(more) : JobOK(more[i])
  BY <1>1 DEF JobsOK
<1>4. ASSUME NEW i \in 1 .. Len(more), NEW j \in 1 .. Len(more), i # j
      PROVE  Under(more[i].dir) \cap Under(more[j].dir) = {}
  <2>1. CASE i \in 1 .. n /\ j \in 1 .. n
    BY <1>1, <1>4, <2>1 DEF JobsOK
  <2>2. CASE i = m /\ j \in 1 .. n
    BY <1>1, <1>2, <2>2
  <2>3. CASE j = m /\ i \in 1 .. n
    BY <1>1, <1>2, <2>3
  <2> QED BY <1>1, <1>4, <2>1, <2>2, <2>3
<1>5. JobsOK(more)
  BY <1>3, <1>4 DEF JobsOK
<1>6. JobFiles(more) = JobFiles(js) \cup Under(job.dir)
  BY <1>1 DEF JobFiles
<1> QED BY <1>5, <1>6 DEF more

LEMMA NoJobs == JobsOK(<< >>) /\ JobFiles(<< >>) = {}
BY DEF JobsOK, JobFiles

\* Joining two lists of results.
LEMMA Joined ==
  ASSUME NEW S, NEW s \in Seq(S), NEW t \in Seq(S)
  PROVE  /\ s \o t \in Seq(S) /\ Elements(s \o t) = Elements(s) \cup Elements(t)
         /\ Distinct(s) /\ Distinct(t) /\ Elements(s) \cap Elements(t) = {} => Distinct(s \o t)
<1> DEFINE u == s \o t
<1>1. /\ Len(s) \in Nat /\ Len(t) \in Nat /\ Len(u) = Len(s) + Len(t) /\ u \in Seq(S)
      /\ \A i \in 1 .. Len(s) : u[i] = s[i] /\ i \in 1 .. Len(u)
      /\ \A i \in 1 .. Len(t) : u[Len(s) + i] = t[i] /\ Len(s) + i \in 1 .. Len(u)
  OBVIOUS
<1>2. ASSUME NEW k \in 1 .. Len(u)
      PROVE  k \in 1 .. Len(s) \/ \E i \in 1 .. Len(t) : k = Len(s) + i
  <2>1. k \in 1 .. Len(s) \/ (k - Len(s) \in 1 .. Len(t) /\ k = Len(s) + (k - Len(s)))
    BY <1>1
  <2> QED BY <2>1
<1> HIDE DEF u
<1>3. Elements(u) = Elements(s) \cup Elements(t)
  <2>1. ASSUME NEW x \in Elements(u) PROVE x \in Elements(s) \cup Elements(t)
    <3>1. PICK k \in 1 .. Len(u) : u[k] = x
      BY DEF Elements
    <3>2. CASE k \in 1 .. Len(s)
      BY <1>1, <3>1, <3>2 DEF Elements
    <3>3. CASE \E i \in 1 .. Len(t) : k = Len(s) + i
      <4>1. PICK i \in 1 .. Len(t) : k = Len(s) + i
        BY <3>3
      <4>2. u[k] = t[i]
        BY <1>1, <4>1
      <4> QED BY <3>1, <4>2 DEF Elements
    <3> QED BY <1>2, <3>2, <3>3
  <2>2. \A i \in 1 .. Len(s) : s[i] \in Elements(u)
    BY <1>1 DEF Elements
  <2>3. \A i \in 1 .. Len(t) : t[i] \in Elements(u)
    BY <1>1 DEF Elements
  <2> QED BY <2>1, <2>2, <2>3 DEF Elements
<1>4. ASSUME Distinct(s), Distinct(t), Elements(s) \cap Elements(t) = {} PROVE Distinct(u)
  <2>1. \A i \in 1 .. Len(s), j \in 1 .. Len(t) : s[i] # t[j]
    BY <1>4 DEF Elements
  <2>2. ASSUME NEW i \in 1 .. Len(u), NEW j \in 1 .. Len(u), u[i] = u[j] PROVE i = j
    <3>1. CASE i \in 1 .. Len(s) /\ j \in 1 .. Len(s)
      BY <1>1, <1>4, <2>2, <3>1 DEF Distinct
    <3>2. CASE i \notin 1 .. Len(s) /\ j \notin 1 .. Len(s)
      <4>1. PICK k \in 1 .. Len(t) : i = Len(s) + k
        BY <1>2, <3>2
      <4>2. PICK l \in 1 .. Len(t) : j = Len(s) + l
        BY <1>2, <3>2
      <4>3. t[k] = t[l]
        BY <1>1, <2>2, <4>1, <4>2
      <4> QED BY <1>4, <4>1, <4>2, <4>3 DEF Distinct
    <3>3. CASE i \in 1 .. Len(s) /\ j \notin 1 .. Len(s)
      <4>1. PICK l \in 1 .. Len(t) : j = Len(s) + l
        BY <1>2, <3>3
      <4> QED BY <1>1, <2>1, <2>2, <3>3, <4>1
    <3>4. CASE i \notin 1 .. Len(s) /\ j \in 1 .. Len(s)
      <4>1. PICK l \in 1 .. Len(t) : i = Len(s) + l
        BY <1>2, <3>4
      <4> QED BY <1>1, <2>1, <2>2, <3>4, <4>1
    <3> QED BY <3>1, <3>2, <3>3, <3>4
  <2> QED BY <2>2 DEF Distinct
<1> QED BY <1>1, <1>3, <1>4 DEF u

LEMMA NoElements == Elements(<< >>) = {} /\ Distinct(<< >>)
BY DEF Elements, Distinct

\* A call that hands out a job, and one that gets results.
LEMMA FrameHandsOut ==
  ASSUME NEW frame \in Frame, FrameOK(frame), frame.newJobs # << >>
  PROVE  /\ Head(frame.newJobs) \in Job /\ JobOK(Head(frame.newJobs))
         /\ HandedOut(frame) \in Frame /\ FrameOK(HandedOut(frame))
         /\ Under(Head(frame.newJobs).dir) \cap FrameFiles(HandedOut(frame)) = {}
         /\ FrameFiles(frame) =
              Under(Head(frame.newJobs).dir) \cup FrameFiles(HandedOut(frame))
<1> DEFINE js == frame.newJobs
           res == frame.results
           after == HandedOut(frame)
<1>1. js \in Seq(Job) /\ res \in Seq(FileNames) /\ JobsOK(js)
  BY DEF Frame, FrameOK
<1>2. /\ Head(js) \in Job /\ JobOK(Head(js)) /\ Tail(js) \in Seq(Job) /\ JobsOK(Tail(js))
      /\ Under(Head(js).dir) \cap JobFiles(Tail(js)) = {}
      /\ JobFiles(js) = Under(Head(js).dir) \cup JobFiles(Tail(js))
  BY <1>1, FirstJob
<1>3. after.results = res /\ after.newJobs = Tail(js) /\ after \in Frame
  BY <1>2 DEF HandedOut, Frame
<1>4. Elements(res) \cap JobFiles(js) = {} /\ Distinct(res)
  BY DEF FrameOK
<1> HIDE DEF js, res, after
<1>5. FrameOK(after)
  BY <1>2, <1>3, <1>4 DEF FrameOK
<1>6. FrameFiles(after) = Elements(res) \cup JobFiles(Tail(js))
  BY <1>3 DEF FrameFiles
<1>7. FrameFiles(frame) = Elements(res) \cup JobFiles(js)
  BY DEF FrameFiles, js, res
<1> QED BY <1>2, <1>3, <1>4, <1>5, <1>6, <1>7 DEF js, after

LEMMA FrameGetsResults ==
  ASSUME NEW frame \in Frame, FrameOK(frame), NEW found \in Seq(FileNames), Distinct(found),
         Elements(found) \cap FrameFiles(frame) = {}
  PROVE  /\ WithResults(frame, found) \in Frame /\ FrameOK(WithResults(frame, found))
         /\ FrameFiles(WithResults(frame, found)) = FrameFiles(frame) \cup Elements(found)
<1> DEFINE res == frame.results
           after == WithResults(frame, found)
<1>1. res \in Seq(FileNames)
  BY DEF Frame
<1>2. res \o found \in Seq(FileNames)
  BY <1>1
<1>3. after.results = res \o found /\ after.newJobs = frame.newJobs /\ after \in Frame
  BY <1>2 DEF WithResults, Frame
<1>4. /\ Elements(res \o found) = Elements(res) \cup Elements(found)
      /\ Distinct(res) /\ Elements(res) \cap Elements(found) = {} => Distinct(res \o found)
  BY <1>1, Joined
<1>5. FrameFiles(frame) = Elements(res) \cup JobFiles(frame.newJobs)
  BY DEF FrameFiles
<1> HIDE DEF res, after
<1>6. FrameOK(after)
  BY <1>3, <1>4, <1>5 DEF FrameOK, res
<1>7. FrameFiles(after) = FrameFiles(frame) \cup Elements(found)
  BY <1>3, <1>4, <1>5 DEF FrameFiles
<1> QED BY <1>3, <1>6, <1>7 DEF after

-----------------------------------------------------------------------------
(* Stacks of calls. *)

StackFiles(s) == UNION { FrameFiles(s[i]) : i \in 1 .. Len(s) }
StackOK(s) ==
  /\ \A i \in 1 .. Len(s) : FrameOK(s[i])
  /\ \A i, j \in 1 .. Len(s) : i # j => FrameFiles(s[i]) \cap FrameFiles(s[j]) = {}

LEMMA NoCalls == StackOK(<< >>) /\ StackFiles(<< >>) = {}
BY DEF StackOK, StackFiles

LEMMA StackPopped ==
  ASSUME NEW s \in Seq(Frame), s # << >>, StackOK(s)
  PROVE  /\ Head(s) \in Frame /\ FrameOK(Head(s)) /\ Tail(s) \in Seq(Frame) /\ StackOK(Tail(s))
         /\ FrameFiles(Head(s)) \cap StackFiles(Tail(s)) = {}
         /\ StackFiles(s) = FrameFiles(Head(s)) \cup StackFiles(Tail(s))
<1> DEFINE frame == Head(s)
           rest == Tail(s)
           n == Len(s) - 1
<1>1. /\ frame \in Frame /\ frame = s[1] /\ rest \in Seq(Frame) /\ n \in Nat
      /\ Len(rest) = n /\ 1 \in 1 .. Len(s)
      /\ \A i \in 1 .. Len(s) : i = 1 \/ \E k \in 1 .. n : i = k + 1
      /\ \A i \in 1 .. n : rest[i] = s[i + 1] /\ i + 1 \in 1 .. Len(s) /\ i + 1 # 1
  <2>1. /\ Len(s) \in Nat \ {0} /\ n \in Nat /\ Len(rest) = n /\ Len(s) = n + 1
        /\ frame = s[1] /\ frame \in Frame /\ rest \in Seq(Frame)
    BY HeadAndTail
  <2>2. \A i \in 1 .. n : rest[i] = s[i + 1] /\ i + 1 \in 1 .. Len(s) /\ i + 1 # 1
    BY HeadAndTail
  <2>3. \A i \in 1 .. Len(s) : i = 1 \/ \E k \in 1 .. n : i = k + 1
    BY ONLY n \in Nat, Len(s) = n + 1, <2>1, OneMore
  <2>4. 1 \in 1 .. Len(s)
    BY <2>1
  <2> HIDE DEF n, rest, frame
  <2> QED BY <2>1, <2>2, <2>3, <2>4
<1>2. 1 \in 1 .. Len(s)
  BY <1>1
<1> HIDE DEF frame, rest, n
<1>3. FrameOK(frame)
  BY <1>1, <1>2 DEF StackOK
<1>4. StackOK(rest)
  <2>1. \A i \in 1 .. Len(rest) : FrameOK(rest[i])
    BY <1>1 DEF StackOK
  <2>2. ASSUME NEW i \in 1 .. Len(rest), NEW j \in 1 .. Len(rest), i # j
        PROVE  FrameFiles(rest[i]) \cap FrameFiles(rest[j]) = {}
    <3>1. i + 1 # j + 1 /\ i + 1 \in 1 .. Len(s) /\ j + 1 \in 1 .. Len(s)
      BY <1>1, <2>2
    <3>2. FrameFiles(s[i + 1]) \cap FrameFiles(s[j + 1]) = {}
      BY <3>1 DEF StackOK
    <3> QED BY <1>1, <3>2
  <2> QED BY <2>1, <2>2 DEF StackOK
<1>5. ASSUME NEW i \in 1 .. Len(rest) PROVE FrameFiles(frame) \cap FrameFiles(rest[i]) = {}
  <2>1. FrameFiles(s[1]) \cap FrameFiles(s[i + 1]) = {}
    BY <1>1, <1>2 DEF StackOK
  <2> QED BY <1>1, <2>1
<1>6. StackFiles(s) = FrameFiles(frame) \cup StackFiles(rest)
  <2>1. ASSUME NEW f \in StackFiles(s) PROVE f \in FrameFiles(frame) \cup StackFiles(rest)
    <3>1. PICK i \in 1 .. Len(s) : f \in FrameFiles(s[i])
      BY DEF StackFiles
    <3>2. CASE i = 1
      BY <1>1, <3>1, <3>2
    <3>3. CASE i # 1
      <4>1. PICK k \in 1 .. n : i = k + 1
        BY <1>1, <3>3
      <4> QED BY <1>1, <3>1, <4>1 DEF StackFiles
    <3> QED BY <3>2, <3>3
  <2>2. FrameFiles(frame) \subseteq StackFiles(s)
    BY <1>1, <1>2 DEF StackFiles
  <2>3. ASSUME NEW f \in StackFiles(rest) PROVE f \in StackFiles(s)
    <3>1. PICK i \in 1 .. Len(rest) : f \in FrameFiles(rest[i])
      BY DEF StackFiles
    <3>2. i + 1 \in 1 .. Len(s) /\ s[i + 1] = rest[i]
      BY <1>1
    <3> QED BY <3>1, <3>2 DEF StackFiles
  <2> QED BY <2>1, <2>2, <2>3
<1>7. FrameFiles(frame) \cap StackFiles(rest) = {}
  BY <1>5 DEF StackFiles
<1> QED BY <1>1, <1>3, <1>4, <1>6, <1>7 DEF frame, rest

LEMMA StackPushed ==
  ASSUME NEW s \in Seq(Frame), StackOK(s), NEW frame \in Frame, FrameOK(frame),
         FrameFiles(frame) \cap StackFiles(s) = {}
  PROVE  /\ <<frame>> \o s \in Seq(Frame) /\ StackOK(<<frame>> \o s)
         /\ StackFiles(<<frame>> \o s) = FrameFiles(frame) \cup StackFiles(s)
<1> DEFINE more == <<frame>> \o s
           n == Len(s)
<1>1. /\ n \in Nat /\ Len(more) = n + 1 /\ more[1] = frame /\ more \in Seq(Frame)
      /\ \A i \in 1 .. n + 1 : i = 1 \/ (i - 1 \in 1 .. n /\ more[i] = s[i - 1])
      /\ \A k \in 1 .. n : k + 1 \in 1 .. n + 1 /\ more[k + 1] = s[k]
  OBVIOUS
<1>2. \A k \in 1 .. n : FrameFiles(frame) \cap FrameFiles(s[k]) = {}
  BY DEF StackFiles
<1> HIDE DEF more
<1>3. \A i \in 1 .. Len(more) : FrameOK(more[i])
  BY <1>1 DEF StackOK
<1>4. ASSUME NEW i \in 1 .. Len(more), NEW j \in 1 .. Len(more), i # j
      PROVE  FrameFiles(more[i]) \cap FrameFiles(more[j]) = {}
  <2>1. CASE i = 1
    BY <1>1, <1>2, <1>4, <2>1
  <2>2. CASE j = 1
    BY <1>1, <1>2, <1>4, <2>2
  <2>3. CASE i # 1 /\ j # 1
    <3>1. i - 1 # j - 1 /\ i - 1 \in 1 .. n /\ j - 1 \in 1 .. n
      BY <1>1, <1>4, <2>3
    <3>2. FrameFiles(s[i - 1]) \cap FrameFiles(s[j - 1]) = {}
      BY <3>1 DEF StackOK
    <3> QED BY <1>1, <2>3, <3>2
  <2> QED BY <2>1, <2>2, <2>3
<1>5. StackOK(more)
  BY <1>3, <1>4 DEF StackOK
<1>6. StackFiles(more) = FrameFiles(frame) \cup StackFiles(s)
  <2>1. ASSUME NEW f \in StackFiles(more) PROVE f \in FrameFiles(frame) \cup StackFiles(s)
    <3>1. PICK i \in 1 .. Len(more) : f \in FrameFiles(more[i])
      BY DEF StackFiles
    <3>2. CASE i = 1
      BY <1>1, <3>1, <3>2
    <3>3. CASE i # 1
      <4> DEFINE k == i - 1
      <4>1. k \in 1 .. n /\ more[i] = s[k]
        BY <1>1, <3>3
      <4> HIDE DEF k
      <4> QED BY <3>1, <4>1 DEF StackFiles
    <3> QED BY <3>2, <3>3
  <2>2. FrameFiles(frame) \subseteq StackFiles(more)
    BY <1>1 DEF StackFiles
  <2>3. ASSUME NEW k \in 1 .. n PROVE FrameFiles(s[k]) \subseteq StackFiles(more)
    <3> DEFINE i == k + 1
    <3>1. i \in 1 .. Len(more) /\ more[i] = s[k]
      BY <1>1
    <3> HIDE DEF i
    <3> QED BY <3>1 DEF StackFiles
  <2>4. ASSUME NEW f \in StackFiles(s) PROVE f \in StackFiles(more)
    <3>1. PICK k \in 1 .. n : f \in FrameFiles(s[k])
      BY DEF StackFiles
    <3> QED BY <2>3, <3>1
  <2> QED BY <2>1, <2>2, <2>4
<1> QED BY <1>1, <1>5, <1>6 DEF more

LEMMA OneCall ==
  ASSUME NEW frame \in Frame, FrameOK(frame)
  PROVE  StackOK(<<frame>>) /\ StackFiles(<<frame>>) = FrameFiles(frame)
BY DEF StackOK, StackFiles

\* A call in place of the innermost one.
LEMMA StackReplaced ==
  ASSUME NEW s \in Seq(Frame), s # << >>, StackOK(s), NEW frame \in Frame, FrameOK(frame),
         FrameFiles(frame) \subseteq FrameFiles(Head(s))
  PROVE  /\ StackOK(<<frame>> \o Tail(s))
         /\ StackFiles(<<frame>> \o Tail(s)) = FrameFiles(frame) \cup StackFiles(Tail(s))
<1>1. /\ Tail(s) \in Seq(Frame) /\ StackOK(Tail(s))
      /\ FrameFiles(Head(s)) \cap StackFiles(Tail(s)) = {}
  BY StackPopped
<1>2. FrameFiles(frame) \cap StackFiles(Tail(s)) = {}
  BY <1>1
<1> QED BY <1>1, <1>2, StackPushed

-----------------------------------------------------------------------------
(* Every file that is to be found is with the channel or with one worker,  *)
(* and nowhere twice.                                                      *)

Expected == { f \in UNION { Range(FilesOf[d]) : d \in DirsWithin } : IncludeOf[f] # 0 }

\* A worker's: what it has found, and what is in its calls.
WorkerFiles(found, calls) == Elements(found) \cup StackFiles(calls)
WorkerOK(found, calls) ==
  /\ Distinct(found) /\ StackOK(calls)
  /\ Elements(found) \cap StackFiles(calls) = {}

\* All files, of a channel js, and of workers that have found m and have the calls s.
Shared(js, m, s) ==
  /\ JobsOK(js)
  /\ \A w \in Workers : WorkerOK(m[w], s[w])
  /\ \A w \in Workers : JobFiles(js) \cap WorkerFiles(m[w], s[w]) = {}
  /\ \A v, w \in Workers : v # w => WorkerFiles(m[v], s[v]) \cap WorkerFiles(m[w], s[w]) = {}
  /\ JobFiles(js) \cup UNION { WorkerFiles(m[w], s[w]) : w \in Workers } = Expected

OthersAlone(w, m, s, m2, s2) == \A v \in Workers : v # w => m2[v] = m[v] /\ s2[v] = s[v]

\* A worker and the channel exchange files, or the worker moves its own.
LEMMA FilesMoved ==
  ASSUME NEW js, NEW m, NEW s, NEW js2, NEW m2, NEW s2, NEW w \in Workers,
         Shared(js, m, s),
         OthersAlone(w, m, s, m2, s2),
         JobsOK(js2), WorkerOK(m2[w], s2[w]),
         JobFiles(js2) \cap WorkerFiles(m2[w], s2[w]) = {},
         JobFiles(js2) \cup WorkerFiles(m2[w], s2[w]) = JobFiles(js) \cup WorkerFiles(m[w], s[w])
  PROVE  Shared(js2, m2, s2)
<1> DEFINE all == JobFiles(js) \cup WorkerFiles(m[w], s[w])
           Mine(v) == WorkerFiles(m[v], s[v])
           Mine2(v) == WorkerFiles(m2[v], s2[v])
<1>1. \A v \in Workers : v # w => Mine2(v) = Mine(v) /\ WorkerOK(m2[v], s2[v])
  BY DEF Shared, OthersAlone
<1>2. \A v \in Workers : v # w => Mine(v) \cap all = {}
  BY DEF Shared
<1>3. /\ JobFiles(js2) \subseteq all /\ Mine2(w) \subseteq all
      /\ JobFiles(js2) \cup Mine2(w) = all /\ JobFiles(js2) \cap Mine2(w) = {}
  OBVIOUS
<1>4. /\ \A u, v \in Workers : u # v => Mine(u) \cap Mine(v) = {}
      /\ JobFiles(js) \cup UNION { Mine(v) : v \in Workers } = Expected
  BY DEF Shared
<1>5. all = JobFiles(js) \cup Mine(w)
  OBVIOUS
<1> HIDE DEF all, Mine, Mine2
<1>6. \A v \in Workers : JobFiles(js2) \cap Mine2(v) = {}
  BY <1>1, <1>2, <1>3
<1>7. \A u, v \in Workers : u # v => Mine2(u) \cap Mine2(v) = {}
  BY <1>1, <1>2, <1>3, <1>4
<1>8. JobFiles(js2) \cup UNION { Mine2(v) : v \in Workers } = Expected
  BY <1>1, <1>3, <1>4, <1>5
<1>9. \A v \in Workers : WorkerOK(m2[v], s2[v])
  BY <1>1
<1> QED BY <1>6, <1>7, <1>8, <1>9 DEF Shared, Mine2

-----------------------------------------------------------------------------
(* What each step does to the files. *)

\* A step of a worker that leaves alone what it has found.
LEMMA StackMoves ==
  ASSUME TypeOK, Shared(jobs, matchedFiles, stack), NEW w \in Workers, NEW s \in Seq(Frame),
         stack' = [stack EXCEPT ![w] = s], matchedFiles' = matchedFiles,
         JobsOK(jobs'), StackOK(s), JobFiles(jobs') \cap StackFiles(s) = {},
         JobFiles(jobs') \cup StackFiles(s) = JobFiles(jobs) \cup StackFiles(stack[w])
  PROVE  Shared(jobs', matchedFiles', stack')
<1>1. stack'[w] = s /\ \A v \in Workers : v # w => stack'[v] = stack[v]
  BY DEF TypeOK
<1>2. /\ WorkerOK(matchedFiles[w], stack[w])
      /\ JobFiles(jobs) \cap WorkerFiles(matchedFiles[w], stack[w]) = {}
  BY DEF Shared
<1>3. Elements(matchedFiles[w]) \cap (JobFiles(jobs) \cup StackFiles(stack[w])) = {}
  BY <1>2 DEF WorkerOK, WorkerFiles
<1>4. WorkerOK(matchedFiles'[w], stack'[w])
  BY <1>1, <1>2, <1>3 DEF WorkerOK
<1>5. JobFiles(jobs') \cap WorkerFiles(matchedFiles'[w], stack'[w]) = {}
  BY <1>1, <1>3 DEF WorkerFiles
<1>6. JobFiles(jobs') \cup WorkerFiles(matchedFiles'[w], stack'[w]) =
        JobFiles(jobs) \cup WorkerFiles(matchedFiles[w], stack[w])
  BY <1>1 DEF WorkerFiles
<1> DEFINE js2 == jobs'
           m2 == matchedFiles'
           s2 == stack'
<1>7. OthersAlone(w, matchedFiles, stack, m2, s2)
  BY <1>1 DEF OthersAlone
<1>8. /\ JobsOK(js2) /\ WorkerOK(m2[w], s2[w])
      /\ JobFiles(js2) \cap WorkerFiles(m2[w], s2[w]) = {}
      /\ JobFiles(js2) \cup WorkerFiles(m2[w], s2[w]) =
           JobFiles(jobs) \cup WorkerFiles(matchedFiles[w], stack[w])
  BY <1>4, <1>5, <1>6
<1> HIDE DEF js2, m2, s2
<1>9. Shared(js2, m2, s2)
  BY <1>7, <1>8, FilesMoved
<1> QED BY <1>9 DEF js2, m2, s2

\* What a worker's calls and the channel hold, apart.
LEMMA SharedBy ==
  ASSUME TypeOK, Shared(jobs, matchedFiles, stack), NEW w \in Workers
  PROVE  /\ stack[w] \in Seq(Frame) /\ StackOK(stack[w])
         /\ jobs \in Seq(Job) /\ JobsOK(jobs)
         /\ JobFiles(jobs) \cap StackFiles(stack[w]) = {}
         /\ Elements(matchedFiles[w]) \cap StackFiles(stack[w]) = {}
         /\ Elements(matchedFiles[w]) \cap JobFiles(jobs) = {}
         /\ matchedFiles[w] \in Seq(FileNames) /\ Distinct(matchedFiles[w])
<1>1. stack[w] \in Seq(Frame) /\ jobs \in Seq(Job) /\ matchedFiles[w] \in Seq(FileNames)
  BY DEF TypeOK
<1>2. /\ WorkerOK(matchedFiles[w], stack[w]) /\ JobsOK(jobs)
      /\ JobFiles(jobs) \cap WorkerFiles(matchedFiles[w], stack[w]) = {}
  BY DEF Shared
<1> QED BY <1>1, <1>2 DEF WorkerOK, WorkerFiles

LEMMA TakeJobMoves ==
  ASSUME TypeOK, Shared(jobs, matchedFiles, stack), NEW w \in Workers, TakeJob(w)
  PROVE  Shared(jobs', matchedFiles', stack')
<1> DEFINE job == Head(jobs)
           s == <<Visited(job)>>
<1>1. /\ stack[w] = << >> /\ jobs # << >> /\ jobs' = Tail(jobs)
      /\ stack' = [stack EXCEPT ![w] = s] /\ matchedFiles' = matchedFiles
  BY DEF TakeJob
<1>2. jobs \in Seq(Job) /\ JobsOK(jobs)
  BY SharedBy
<1>3. /\ job \in Job /\ JobOK(job) /\ JobsOK(Tail(jobs))
      /\ Under(job.dir) \cap JobFiles(Tail(jobs)) = {}
      /\ JobFiles(jobs) = Under(job.dir) \cup JobFiles(Tail(jobs))
  BY <1>1, <1>2, FirstJob
<1>4. /\ Visited(job) \in Frame /\ FrameOK(Visited(job))
      /\ FrameFiles(Visited(job)) = Under(job.dir)
  BY <1>3, VisitedType, JobSplits
<1> HIDE DEF job
<1>5. s \in Seq(Frame) /\ StackOK(s) /\ StackFiles(s) = Under(job.dir)
  BY <1>4, OneCall
<1>6. StackFiles(stack[w]) = {}
  BY <1>1, NoCalls
<1> HIDE DEF s
<1> QED BY <1>1, <1>3, <1>5, <1>6, StackMoves

\* A step that replaces a worker's innermost call by one with the same results and new jobs.
LEMMA SameCallMoves ==
  ASSUME TypeOK, Shared(jobs, matchedFiles, stack), NEW w \in Workers, NEW frame \in Frame,
         stack[w] # << >>, stack' = SetTop(w, frame),
         frame.results = Top(w).results, frame.newJobs = Top(w).newJobs,
         jobs' = jobs, matchedFiles' = matchedFiles
  PROVE  Shared(jobs', matchedFiles', stack')
<1> DEFINE old == stack[w]
           s == <<frame>> \o Tail(old)
<1>1. /\ old \in Seq(Frame) /\ StackOK(old) /\ JobsOK(jobs) /\ old # << >>
      /\ JobFiles(jobs) \cap StackFiles(old) = {}
  BY SharedBy
<1>2. stack' = [stack EXCEPT ![w] = s]
  BY DEF SetTop
<1>3. Head(old) \in Frame /\ FrameOK(Head(old)) /\ Tail(old) \in Seq(Frame)
      /\ StackFiles(old) = FrameFiles(Head(old)) \cup StackFiles(Tail(old))
  BY <1>1, StackPopped
<1>4. FrameOK(frame) /\ FrameFiles(frame) = FrameFiles(Head(old))
  BY <1>3 DEF FrameOK, FrameFiles, Top
<1> HIDE DEF old
<1>5. /\ s \in Seq(Frame) /\ StackOK(s)
      /\ StackFiles(s) = FrameFiles(frame) \cup StackFiles(Tail(old))
  BY <1>1, <1>4, StackReplaced, ReplaceTop
<1>6. StackFiles(s) = StackFiles(stack[w])
  BY <1>3, <1>4, <1>5 DEF old
<1> HIDE DEF s
<1> QED BY <1>1, <1>2, <1>5, <1>6, StackMoves DEF old

LEMMA CountNewJobsMoves ==
  ASSUME TypeOK, Shared(jobs, matchedFiles, stack), NEW w \in Workers, CountNewJobs(w)
  PROVE  Shared(jobs', matchedFiles', stack')
<1> DEFINE frame == [Top(w) EXCEPT !.at = "counted"]
<1>1. /\ stack[w] # << >> /\ stack' = SetTop(w, frame)
      /\ jobs' = jobs /\ matchedFiles' = matchedFiles
  BY DEF CountNewJobs, InCall
<1>2. Top(w) \in Frame
  BY <1>1, HeadAndTail DEF Top, TypeOK
<1>3. frame \in Frame /\ frame.results = Top(w).results /\ frame.newJobs = Top(w).newJobs
  BY <1>2 DEF Frame
<1> HIDE DEF frame
<1> QED BY <1>1, <1>3, SameCallMoves

\* The worker that counts off the last job has no new jobs to hand out.
LEMMA LastHasNoNewJobs ==
  ASSUME CounterInv, NEW w \in Workers, CountDone(w), activeWorkers' = 0
  PROVE  Top(w).newJobs = << >>
<1> DEFINE m == Len(jobs)
           l == Len(stack[w])
           n == Len(Top(w).newJobs)
           y == 1 + n
           zero == 0
           c2 == WithCount(Counts, w, l, zero)
<1>0. TypeOK
  BY DEF CounterInv
<1>1. stack[w] # << >> /\ mainPc # "fill"
  BY DEF CountDone, InCall, CounterInv, NoneBeforeStart
<1>2. /\ Counts \in [Workers -> [Positive -> Nat]] /\ m \in Nat
      /\ IsFiniteSet(Tokens(m, Counts)) /\ activeWorkers = Cardinality(Tokens(m, Counts))
      /\ activeWorkers \in Nat
  BY <1>1, Balance
<1>3. /\ n \in Nat /\ activeWorkers' = activeWorkers - 1 /\ l \in Positive
      /\ Counts[w][l] = 1 + n
  BY <1>0, DoneCounted
<1>4. y \in Nat /\ Counts[w][l] = y /\ zero \in Nat /\ l \in Positive
      /\ c2 = WithCount(Counts, w, l, zero)
  BY <1>3
<1>5. Cardinality(Tokens(m, c2)) \in Nat /\ Cardinality(Tokens(m, c2)) = activeWorkers + zero - y
  <2> HIDE DEF y, m, l, zero, c2
  <2> QED BY <1>2, <1>4, TokensMoved
<1>6. n = 0
  <2>1. activeWorkers = 1
    BY <1>2, <1>3
  <2>2. 1 + 0 - (1 + n) \in Nat
    BY <1>5, <2>1
  <2> QED BY <1>3, <2>2
<1>7. Top(w) \in Frame
  BY <1>0, <1>1, HeadAndTail DEF Top, TypeOK
<1>8. Top(w).newJobs \in Seq(Job)
  BY <1>7 DEF Frame
<1> QED BY <1>6, <1>8, EmptySeq

LEMMA CountDoneMoves ==
  ASSUME CounterInv, Shared(jobs, matchedFiles, stack), NEW w \in Workers, CountDone(w)
  PROVE  Shared(jobs', matchedFiles', stack')
<1> DEFINE frame == IF activeWorkers' = 0
                    THEN [Top(w) EXCEPT !.at = "handOut", !.newJobs = << >>]
                    ELSE [Top(w) EXCEPT !.at = "handOut"]
<1>0. TypeOK
  BY DEF CounterInv
<1>1. /\ stack[w] # << >> /\ stack' = SetTop(w, frame)
      /\ jobs' = jobs /\ matchedFiles' = matchedFiles
  BY DEF CountDone, InCall
<1>2. Top(w) \in Frame
  BY <1>0, <1>1, HeadAndTail DEF Top, TypeOK
<1>3. frame \in Frame /\ frame.results = Top(w).results /\ frame.newJobs = Top(w).newJobs
  <2>1. CASE activeWorkers' = 0
    <3>1. Top(w).newJobs = << >>
      BY <2>1, LastHasNoNewJobs
    <3>2. frame = [Top(w) EXCEPT !.at = "handOut", !.newJobs = << >>]
      BY <2>1
    <3> HIDE DEF frame
    <3> QED BY <1>2, <3>1, <3>2, EmptySeq DEF Frame
  <2>2. CASE activeWorkers' # 0
    <3>1. frame = [Top(w) EXCEPT !.at = "handOut"]
      BY <2>2
    <3> HIDE DEF frame
    <3> QED BY <1>2, <3>1 DEF Frame
  <2> QED BY <2>1, <2>2
<1> HIDE DEF frame
<1> QED BY <1>0, <1>1, <1>3, SameCallMoves

\* What a call that hands out a job leaves on the stack, and the job.
LEMMA CallHandsOut ==
  ASSUME TypeOK, Shared(jobs, matchedFiles, stack), NEW w \in Workers,
         stack[w] # << >>, Top(w).newJobs # << >>
  PROVE  LET job == Head(Top(w).newJobs)
             s == <<HandedOut(Top(w))>> \o Tail(stack[w])
         IN  /\ job \in Job /\ JobOK(job)
             /\ HandedOut(Top(w)) \in Frame /\ Tail(stack[w]) \in Seq(Frame)
             /\ s \in Seq(Frame) /\ StackOK(s)
             /\ StackFiles(stack[w]) = Under(job.dir) \cup StackFiles(s)
             /\ Under(job.dir) \cap StackFiles(s) = {}
<1> DEFINE old == stack[w]
           top == Head(old)
           frame == HandedOut(top)
           job == Head(top.newJobs)
           s == <<frame>> \o Tail(old)
<1>1. old \in Seq(Frame) /\ StackOK(old) /\ old # << >>
  BY SharedBy
<1> HIDE DEF old
<1>2. /\ top \in Frame /\ FrameOK(top) /\ Tail(old) \in Seq(Frame)
      /\ FrameFiles(top) \cap StackFiles(Tail(old)) = {}
      /\ StackFiles(old) = FrameFiles(top) \cup StackFiles(Tail(old))
  BY <1>1, StackPopped
<1>3. top.newJobs # << >>
  BY DEF Top, old
<1> HIDE DEF top
<1>4. /\ job \in Job /\ JobOK(job) /\ frame \in Frame /\ FrameOK(frame)
      /\ Under(job.dir) \cap FrameFiles(frame) = {}
      /\ FrameFiles(top) = Under(job.dir) \cup FrameFiles(frame)
  BY <1>2, <1>3, FrameHandsOut
<1> HIDE DEF job, frame
<1>5. FrameFiles(frame) \subseteq FrameFiles(Head(old))
  BY <1>4 DEF top
<1>6. /\ s \in Seq(Frame) /\ StackOK(s)
      /\ StackFiles(s) = FrameFiles(frame) \cup StackFiles(Tail(old))
  BY <1>1, <1>4, <1>5, StackReplaced, ReplaceTop
<1> HIDE DEF s
<1>7. /\ StackFiles(old) = Under(job.dir) \cup StackFiles(s)
      /\ Under(job.dir) \cap StackFiles(s) = {}
  BY <1>2, <1>4, <1>6
<1> QED BY <1>2, <1>4, <1>6, <1>7 DEF old, top, job, frame, s, Top

LEMMA SendJobMoves ==
  ASSUME TypeOK, Shared(jobs, matchedFiles, stack), NEW w \in Workers, SendJob(w)
  PROVE  Shared(jobs', matchedFiles', stack')
<1> DEFINE job == Head(Top(w).newJobs)
           s == <<HandedOut(Top(w))>> \o Tail(stack[w])
<1>1. /\ stack[w] # << >> /\ Top(w).newJobs # << >> /\ jobs' = Append(jobs, job)
      /\ stack' = [stack EXCEPT ![w] = s] /\ matchedFiles' = matchedFiles
  BY DEF SendJob, InCall, SetTop
<1>2. /\ job \in Job /\ JobOK(job) /\ s \in Seq(Frame) /\ StackOK(s)
      /\ StackFiles(stack[w]) = Under(job.dir) \cup StackFiles(s)
      /\ Under(job.dir) \cap StackFiles(s) = {}
  BY <1>1, CallHandsOut
<1>3. /\ jobs \in Seq(Job) /\ JobsOK(jobs)
      /\ JobFiles(jobs) \cap StackFiles(stack[w]) = {}
  BY SharedBy
<1> HIDE DEF job, s
<1>4. JobsOK(jobs') /\ JobFiles(jobs') = JobFiles(jobs) \cup Under(job.dir)
  BY <1>1, <1>2, <1>3, JobAppended
<1>5. JobFiles(jobs') \cap StackFiles(s) = {}
  BY <1>2, <1>3, <1>4
<1>6. JobFiles(jobs') \cup StackFiles(s) = JobFiles(jobs) \cup StackFiles(stack[w])
  BY <1>2, <1>4
<1> QED BY <1>1, <1>2, <1>4, <1>5, <1>6, StackMoves

LEMMA VisitInlineMoves ==
  ASSUME TypeOK, Shared(jobs, matchedFiles, stack), NEW w \in Workers, VisitInline(w)
  PROVE  Shared(jobs', matchedFiles', stack')
<1> DEFINE job == Head(Top(w).newJobs)
           below == Tail(stack[w])
           frame == HandedOut(Top(w))
           s == <<frame>> \o below
           s2 == <<Visited(job)>> \o s
<1>1. /\ stack[w] # << >> /\ Top(w).newJobs # << >> /\ jobs' = jobs
      /\ stack' = [stack EXCEPT ![w] = <<Visited(job), frame>> \o below]
      /\ matchedFiles' = matchedFiles
  BY DEF VisitInline, InCall
<1>2. /\ job \in Job /\ JobOK(job) /\ frame \in Frame /\ below \in Seq(Frame)
      /\ s \in Seq(Frame) /\ StackOK(s)
      /\ StackFiles(stack[w]) = Under(job.dir) \cup StackFiles(s)
      /\ Under(job.dir) \cap StackFiles(s) = {}
  BY <1>1, CallHandsOut
<1>3. JobsOK(jobs) /\ JobFiles(jobs) \cap StackFiles(stack[w]) = {}
  BY SharedBy
<1>4. /\ Visited(job) \in Frame /\ FrameOK(Visited(job))
      /\ FrameFiles(Visited(job)) = Under(job.dir)
  BY <1>2, VisitedType, JobSplits
<1>5. <<Visited(job), frame>> \o below = s2
  <2> HIDE DEF job, frame, below
  <2> QED BY <1>2, <1>4
<1> HIDE DEF job, frame, below, s
<1>6. /\ s2 \in Seq(Frame) /\ StackOK(s2)
      /\ StackFiles(s2) = FrameFiles(Visited(job)) \cup StackFiles(s)
  BY <1>2, <1>4, StackPushed
<1>7. StackFiles(s2) = StackFiles(stack[w]) /\ stack' = [stack EXCEPT ![w] = s2]
  BY <1>1, <1>2, <1>4, <1>5, <1>6
<1> HIDE DEF s2
<1> QED BY <1>1, <1>3, <1>6, <1>7, StackMoves

LEMMA ReturnResultsMoves ==
  ASSUME TypeOK, Shared(jobs, matchedFiles, stack), NEW w \in Workers, ReturnResults(w)
  PROVE  Shared(jobs', matchedFiles', stack')
<1> DEFINE old == stack[w]
           top == Head(old)
           below == Tail(old)
           found == top.results
<1>1. old # << >> /\ top.newJobs = << >> /\ jobs' = jobs
  BY DEF ReturnResults, InCall, Top
<1>2. /\ old \in Seq(Frame) /\ StackOK(old) /\ JobsOK(jobs)
      /\ JobFiles(jobs) \cap StackFiles(old) = {}
      /\ Elements(matchedFiles[w]) \cap StackFiles(old) = {}
      /\ Elements(matchedFiles[w]) \cap JobFiles(jobs) = {}
      /\ matchedFiles[w] \in Seq(FileNames) /\ Distinct(matchedFiles[w])
  BY SharedBy
<1>3. /\ top \in Frame /\ FrameOK(top) /\ below \in Seq(Frame) /\ StackOK(below)
      /\ FrameFiles(top) \cap StackFiles(below) = {}
      /\ StackFiles(old) = FrameFiles(top) \cup StackFiles(below)
      /\ Len(below) = Len(old) - 1 /\ Len(old) \in Nat
  BY <1>1, <1>2, StackPopped, HeadAndTail
<1>4. found \in Seq(FileNames) /\ Distinct(found) /\ FrameFiles(top) = Elements(found)
  <2>1. JobFiles(top.newJobs) = {}
    BY <1>1, NoJobs
  <2> QED BY <1>3, <2>1 DEF Frame, FrameOK, FrameFiles
<1>5. CASE Len(old) = 1
  <2> DEFINE new == matchedFiles[w] \o found
             m2 == [matchedFiles EXCEPT ![w] = new]
             s2 == [stack EXCEPT ![w] = << >>]
  <2>1. matchedFiles' = m2 /\ stack' = s2
    BY <1>5 DEF ReturnResults, Top
  <2> HIDE DEF found, below, old, top
  <2>2. below = << >> /\ StackFiles(below) = {}
    <3>1. Len(below) = 0
      BY <1>3, <1>5
    <3>2. below = << >>
      BY <1>3, <3>1, EmptySeq
    <3> QED BY <3>2, NoCalls
  <2>3. /\ Elements(new) = Elements(matchedFiles[w]) \cup Elements(found)
        /\ Distinct(new)
    BY <1>2, <1>3, <1>4, Joined
  <2> HIDE DEF new
  <2>4. WorkerOK(new, << >>) /\ WorkerFiles(new, << >>) = Elements(new)
    BY <2>3, NoCalls DEF WorkerOK, WorkerFiles
  <2>5. WorkerFiles(matchedFiles[w], old) = Elements(new)
    BY <1>3, <1>4, <2>2, <2>3 DEF WorkerFiles
  <2>6. OthersAlone(w, matchedFiles, stack, m2, s2) /\ m2[w] = new /\ s2[w] = << >>
    BY DEF OthersAlone, TypeOK
  <2>7. JobFiles(jobs) \cap Elements(new) = {}
    BY <1>2, <1>3, <1>4, <2>3
  <2> HIDE DEF m2, s2
  <2>8. Shared(jobs, m2, s2)
    BY <1>2, <2>4, <2>5, <2>6, <2>7, FilesMoved DEF old
  <2> QED BY <1>1, <2>1, <2>8
<1>6. CASE Len(old) # 1
  <2> DEFINE caller == Head(below)
             frame == WithResults(caller, found)
             s == <<frame>> \o Tail(below)
  <2>1. below # << >> /\ old[2] = Head(below)
    <3>1. /\ Len(old) \in Nat \ {0}
          /\ \A i \in 1 .. Len(old) - 1 : below[i] = old[i + 1]
      BY <1>1, <1>2, HeadAndTail
    <3> HIDE DEF found, below, old, top
    <3>2. below # << >>
      <4>1. Len(below) # 0
        BY <1>3, <1>6, <3>1
      <4> QED BY <1>3, <4>1, EmptySeq
    <3>3. below[1] = old[2]
      <4>1. 1 \in 1 .. Len(old) - 1 /\ 1 + 1 = 2
        BY <1>3, <1>6, <3>1
      <4> QED BY <3>1, <4>1
    <3>4. Head(below) = below[1]
      BY <1>3, <3>2, HeadAndTail
    <3> QED BY <3>2, <3>3, <3>4
  <2>2. matchedFiles' = matchedFiles /\ stack' = [stack EXCEPT ![w] = s]
    BY <1>6, <2>1 DEF ReturnResults, Top
  <2> HIDE DEF found, below, old, top
  <2>3. /\ caller \in Frame /\ FrameOK(caller) /\ Tail(below) \in Seq(Frame)
        /\ StackOK(Tail(below))
        /\ FrameFiles(caller) \cap StackFiles(Tail(below)) = {}
        /\ StackFiles(below) = FrameFiles(caller) \cup StackFiles(Tail(below))
    BY <1>3, <2>1, StackPopped
  <2> HIDE DEF caller
  <2>4. Elements(found) \cap FrameFiles(caller) = {}
    BY <1>3, <1>4, <2>3
  <2>5. /\ frame \in Frame /\ FrameOK(frame)
        /\ FrameFiles(frame) = FrameFiles(caller) \cup Elements(found)
    BY <1>4, <2>3, <2>4, FrameGetsResults
  <2>6. FrameFiles(frame) \cap StackFiles(Tail(below)) = {}
    BY <1>3, <1>4, <2>3, <2>5
  <2> HIDE DEF frame
  <2>7. /\ s \in Seq(Frame) /\ StackOK(s)
        /\ StackFiles(s) = FrameFiles(frame) \cup StackFiles(Tail(below))
    BY <2>3, <2>5, <2>6, StackPushed
  <2>8. StackFiles(s) = StackFiles(stack[w])
    <3>1. StackFiles(s) = StackFiles(old)
      BY <1>3, <1>4, <2>3, <2>5, <2>7
    <3> QED BY <3>1 DEF old
  <2> HIDE DEF s
  <2> QED BY <1>1, <1>2, <2>2, <2>7, <2>8, StackMoves DEF old
<1> QED BY <1>5, <1>6

-----------------------------------------------------------------------------
(* The result, flattened. *)

\* All elements of the first n sequences, once.
Gathered(t, seqs, n) ==
  Distinct(t) /\ Elements(t) = UNION { Elements(seqs[i]) : i \in 1 .. n }

LEMMA GatheredNext ==
  ASSUME NEW E, NEW seqs, NEW n \in Nat, NEW t \in Seq(E), Gathered(t, seqs, n),
         seqs[n + 1] \in Seq(E), Distinct(seqs[n + 1]),
         \A i \in 1 .. n : Elements(seqs[i]) \cap Elements(seqs[n + 1]) = {}
  PROVE  t \o seqs[n + 1] \in Seq(E) /\ Gathered(t \o seqs[n + 1], seqs, n + 1)
<1> DEFINE m == n + 1
           next == seqs[m]
           u == t \o next
<1>1. 1 .. m = (1 .. n) \cup {m}
  OBVIOUS
<1>2. Elements(t) \cap Elements(next) = {}
  BY DEF Gathered
<1>3. u \in Seq(E) /\ Elements(u) = Elements(t) \cup Elements(next) /\ Distinct(u)
  <2>1. next \in Seq(E) /\ Distinct(next) /\ Distinct(t)
    BY DEF Gathered
  <2> HIDE DEF next
  <2> QED BY <1>2, <2>1, Joined
<1> HIDE DEF u
<1>4. UNION { Elements(seqs[i]) : i \in 1 .. m } =
        Elements(next) \cup UNION { Elements(seqs[i]) : i \in 1 .. n }
  <2> DEFINE X(i) == Elements(seqs[i])
             I == 1 .. m
             J == 1 .. n
  <2>1. I = J \cup {m}
    BY <1>1
  <2>2. UNION { X(i) : i \in I } = X(m) \cup UNION { X(i) : i \in J }
    <3> HIDE DEF X, I, J, m
    <3> QED BY <2>1
  <2>3. X(m) = Elements(next)
    OBVIOUS
  <2> QED BY <2>2, <2>3
<1>5. Gathered(u, seqs, m)
  BY <1>3, <1>4 DEF Gathered
<1> QED BY <1>3, <1>5 DEF u

\* The recursive definition in FlattenSeq has the meaning it is read with.
LEMMA FlattenUnfolds ==
  ASSUME NEW E, NEW seqs \in Seq(Seq(E)), Len(seqs) # 0
  PROVE  \E flat : /\ flat[1] = seqs[1]
                   /\ \A n \in 1 .. Len(seqs) - 1 : flat[n + 1] = flat[n] \o seqs[n + 1]
                   /\ FlattenSeq(seqs) = flat[Len(seqs)]
<1> DEFINE V == Seq(E)
           L == Len(seqs)
           Join(v, n) == v \o seqs[n]
           Step(f, i) == IF i = 1 THEN seqs[i] ELSE f[i - 1] \o seqs[i]
           F == [v \in V |-> [n \in Nat |-> IF n \in 1 .. L THEN Join(v, n) ELSE v]]
           flatten == CHOOSE f : f = [i \in 1 .. L |-> Step(f, i)]
<1>1. /\ << >> \in V /\ L \in Nat /\ 1 \in 1 .. L
      /\ \A n \in 1 .. L : seqs[n] \in V
  OBVIOUS
<1>2. F \in [V -> [Nat -> V]]
  <2>1. \A v \in V : \A n \in 1 .. L : Join(v, n) \in V
    BY <1>1
  <2> HIDE DEF V, L, Join
  <2> QED BY <2>1
<1>3. PICK f \in [Nat -> V] : Follows(f, << >>, F)
  <2> DEFINE b == << >>
  <2>1. b \in V
    BY <1>1
  <2> HIDE DEF V, F, b
  <2>2. \E f \in [Nat -> V] : Follows(f, b, F)
    BY <1>2, <2>1, RecursionDefines
  <2> QED BY <2>2 DEF b
<1>4. ASSUME NEW n \in 0 .. L - 1 PROVE f[n + 1] = f[n] \o seqs[n + 1]
  <2>1. n \in Nat /\ n + 1 \in Nat /\ n + 1 \in 1 .. L
    BY <1>1
  <2>2. f[n + 1] = F[f[n]][n + 1]
    <3> HIDE DEF F, V, Join
    <3> QED BY <1>3, <2>1 DEF Follows
  <2>3. f[n] \in V
    BY <2>1
  <2>4. F[f[n]][n + 1] = Join(f[n], n + 1)
    <3> HIDE DEF V, Join
    <3> QED BY <2>1, <2>3
  <2> QED BY <2>2, <2>4
<1>5. f[1] = seqs[1]
  <2>1. 0 \in 0 .. L - 1 /\ 0 + 1 = 1
    BY <1>1
  <2>2. f[1] = f[0] \o seqs[1]
    BY <1>4, <2>1
  <2>3. f[0] = << >> /\ seqs[1] \in Seq(E)
    BY <1>1, <1>3 DEF Follows
  <2> QED BY <2>2, <2>3
<1> DEFINE g == [n \in 1 .. L |-> f[n]]
<1>6. g = [i \in 1 .. L |-> Step(g, i)]
  <2>1. ASSUME NEW i \in 1 .. L PROVE f[i] = Step(g, i)
    <3>1. CASE i = 1
      BY <1>5, <3>1
    <3>2. CASE i # 1
      <4> DEFINE m == i - 1
      <4>1. m \in 0 .. L - 1 /\ m \in 1 .. L /\ m + 1 = i
        BY <1>1, <3>2
      <4>2. f[m + 1] = f[m] \o seqs[m + 1]
        BY <1>4, <4>1
      <4>3. g[m] = f[m]
        BY <4>1
      <4> HIDE DEF g
      <4> QED BY <3>2, <4>1, <4>2, <4>3
    <3> QED BY <3>1, <3>2
  <2> HIDE DEF Step
  <2> QED BY <2>1
<1>7. flatten = [i \in 1 .. L |-> Step(flatten, i)]
  <2> HIDE DEF Step, g
  <2> QED BY <1>6
<1>8. FlattenSeq(seqs) = flatten[L]
  BY DEF FlattenSeq
<1> HIDE DEF flatten
<1>9. flatten[1] = seqs[1]
  BY <1>1, <1>7
<1>10. ASSUME NEW n \in 1 .. L - 1 PROVE flatten[n + 1] = flatten[n] \o seqs[n + 1]
  <2> DEFINE m == n + 1
  <2>1. m \in 1 .. L /\ m # 1 /\ m - 1 = n
    BY <1>1
  <2> HIDE DEF m
  <2>2. flatten[m] = Step(flatten, m)
    <3> HIDE DEF Step
    <3> QED BY <1>7, <2>1
  <2>3. flatten[m] = flatten[n] \o seqs[m]
    BY <2>1, <2>2
  <2> QED BY <2>3 DEF m
<1> QED BY <1>8, <1>9, <1>10

LEMMA FlattenFacts ==
  ASSUME NEW E, NEW seqs \in Seq(Seq(E)), Len(seqs) # 0,
         \A i \in 1 .. Len(seqs) : Distinct(seqs[i]),
         \A i, j \in 1 .. Len(seqs) : i # j => Elements(seqs[i]) \cap Elements(seqs[j]) = {}
  PROVE  FlattenSeq(seqs) \in Seq(E) /\ Gathered(FlattenSeq(seqs), seqs, Len(seqs))
<1> DEFINE L == Len(seqs)
<1>0. L \in Nat \ {0} /\ \A i \in 1 .. L : seqs[i] \in Seq(E)
  OBVIOUS
<1>1. PICK flat : /\ flat[1] = seqs[1]
                  /\ \A n \in 1 .. L - 1 : flat[n + 1] = flat[n] \o seqs[n + 1]
                  /\ FlattenSeq(seqs) = flat[L]
  BY FlattenUnfolds
<1> DEFINE P(n) == flat[n] \in Seq(E) /\ Gathered(flat[n], seqs, n)
           T == { n \in Nat : n + 1 <= L => P(n + 1) }
<1>2. 0 \in T
  <2>1. 1 \in 1 .. L /\ 1 .. 1 = {1} /\ 0 + 1 = 1
    BY <1>0
  <2>2. Gathered(seqs[1], seqs, 1)
    BY <2>1 DEF Gathered
  <2>3. P(1)
    BY <1>0, <1>1, <2>1, <2>2
  <2> HIDE DEF P
  <2> QED BY <2>1, <2>3
<1>3. ASSUME NEW k \in Nat, k \in T PROVE k + 1 \in T
  <2> DEFINE n == k + 1
             m == n + 1
  <2> SUFFICES ASSUME m <= L PROVE P(m)
    OBVIOUS
  <2>1. n \in Nat /\ n <= L /\ n \in 1 .. L - 1 /\ m \in 1 .. L /\ m \notin 1 .. n
    BY <1>0
  <2>2. P(n)
    BY <1>3, <2>1
  <2>3. seqs[m] \in Seq(E) /\ Distinct(seqs[m])
    BY <1>0, <2>1
  <2>4. \A i \in 1 .. n : Elements(seqs[i]) \cap Elements(seqs[m]) = {}
    <3>1. \A i \in 1 .. n : i \in 1 .. L /\ i # m
      BY <1>0, <2>1
    <3> HIDE DEF n, m
    <3> QED BY <2>1, <3>1
  <2>5. flat[m] = flat[n] \o seqs[m]
    BY <1>1, <2>1
  <2> HIDE DEF n
  <2> QED BY <2>1, <2>2, <2>3, <2>4, <2>5, GatheredNext
<1>4. Nat \subseteq T
  <2> HIDE DEF T
  <2> QED BY <1>2, <1>3, SetInduction
<1>5. P(L)
  <2> DEFINE k == L - 1
  <2>1. k \in Nat /\ k + 1 = L
    BY <1>0
  <2> HIDE DEF P, L, k
  <2> QED BY <1>4, <2>1
<1> QED BY <1>1, <1>5

LEMMA DistinctLength ==
  ASSUME NEW E, NEW s \in Seq(E), Distinct(s)
  PROVE  Len(s) = Cardinality(Elements(s))
<1> DEFINE n == Len(s)
           f == [i \in 1 .. n |-> s[i]]
<1>1. n \in Nat
  OBVIOUS
<1>2. IsFiniteSet(1 .. n) /\ Cardinality(1 .. n) = n
  <2>1. Cardinality(1 .. n) = IF 1 > n THEN 0 ELSE n - 1 + 1
    BY ONLY <1>1, 1 \in Int, n \in Int, FS_Interval
  <2>2. IsFiniteSet(1 .. n)
    BY ONLY <1>1, 1 \in Int, n \in Int, FS_Interval
  <2> HIDE DEF n
  <2> QED BY <1>1, <2>1, <2>2
<1>3. f \in Bijection(1 .. n, Elements(s))
  <2>1. f \in [1 .. n -> Elements(s)]
    BY DEF Elements
  <2>2. \A i, j \in 1 .. n : f[i] = f[j] => i = j
    BY DEF Distinct
  <2>3. \A x \in Elements(s) : \E i \in 1 .. n : f[i] = x
    BY DEF Elements
  <2> HIDE DEF f, n
  <2> QED BY <2>1, <2>2, <2>3 DEF Bijection, Injection, Surjection, IsInjective
<1> HIDE DEF n, f
<1>4. Cardinality(Elements(s)) = Cardinality(1 .. n)
  <2> DEFINE I == 1 .. n
             X == Elements(s)
  <2>1. ExistsBijection(I, X) /\ IsFiniteSet(I)
    BY <1>2, <1>3 DEF ExistsBijection
  <2> HIDE DEF I, X
  <2>2. Cardinality(I) = Cardinality(X)
    BY <2>1, FS_Bijection
  <2> QED BY <2>2 DEF I, X
<1> QED BY <1>2, <1>4 DEF n

-----------------------------------------------------------------------------
(* The inductive invariant. *)

\* While the channel is being filled it holds the first base paths.
Filling ==
  mainPc = "fill" =>
    /\ Len(jobs) <= Len(BasePaths)
    /\ \A i \in 1 .. Len(jobs) : jobs[i] = [dir |-> BasePaths[i], depth |-> Depth]
    /\ matchedFiles = [w \in Workers |-> << >>]

\* From then on every file is accounted for.
Accounted == mainPc # "fill" => Shared(jobs, matchedFiles, stack)

\* A worker ends with nothing left to do, and the caller returns when all have ended.
Ended ==
  /\ \A w \in exited : stack[w] = << >> /\ jobsClosed
  /\ mainPc = "returned" => exited = Workers

FilesInv == CounterInv /\ Filling /\ Accounted /\ Ended

LEMMA BasePathJob ==
  ASSUME NEW i \in 1 .. Len(BasePaths)
  PROVE  LET job == [dir |-> BasePaths[i], depth |-> Depth]
         IN  job \in Job /\ JobOK(job) /\ BasePaths[i] \in Range(BasePaths)
<1> DEFINE job == [dir |-> BasePaths[i], depth |-> Depth]
           zero == 0
<1>1. BasePaths[i] \in Dirs /\ BasePaths[i] \in Range(BasePaths)
  BY BasePathsAssumption DEF Range
<1>2. job \in Job
  BY <1>1, DepthAssumption DEF Job
<1>3. zero \in Nat /\ Within(zero) /\ DepthAt(zero) = Depth /\ job.dir \in Level[zero]
  <2>1. Within(0) /\ DepthAt(0) = Depth
    BY DepthAssumption DEF Within, DepthAt
  <2>2. job.dir = BasePaths[i]
    OBVIOUS
  <2> QED BY <1>1, <2>1, <2>2, LevelUnfolds
<1>4. job.depth = Depth
  OBVIOUS
<1> HIDE DEF zero, job
<1>5. JobOK(job)
  BY <1>3, <1>4 DEF JobOK
<1> QED BY <1>1, <1>2, <1>5 DEF job

\* Below the base paths are all files that are to be found.
LEMMA ExpectedFiles ==
  \A f : f \in Expected <=> \E i \in 1 .. Len(BasePaths) : f \in Under(BasePaths[i])
<1>1. ASSUME NEW f \in Expected PROVE \E i \in 1 .. Len(BasePaths) : f \in Under(BasePaths[i])
  <2>1. PICK d \in DirsWithin : f \in Range(FilesOf[d])
    BY DEF Expected
  <2>2. PICK n \in Nat : d \in Level[n]
    BY DirsWithinLevels
  <2>3. PICK b \in Range(BasePaths) : d \in Below(b)
    BY <2>2, BelowBases
  <2>4. d \in Dirs
    BY <2>3 DEF Below
  <2>5. FilesOf[d] \in Seq(FileNames)
    BY <2>4, FilesAssumption
  <2>6. f \in MatchingFiles
    BY <2>1, <2>5 DEF Expected, MatchingFiles, Range
  <2>7. f \in Under(b)
    BY <2>1, <2>3, <2>6 DEF Under
  <2>8. \E i \in 1 .. Len(BasePaths) : BasePaths[i] = b
    BY <2>3, BasePathsAssumption DEF Range
  <2> QED BY <2>7, <2>8
<1>2. ASSUME NEW i \in 1 .. Len(BasePaths), NEW f \in Under(BasePaths[i]) PROVE f \in Expected
  BY <1>2 DEF Under, Expected, MatchingFiles
<1> QED BY <1>1, <1>2

\* When the workers start, the channel has all files.
LEMMA StartShares ==
  ASSUME TypeOK, Len(jobs) = Len(BasePaths),
         \A i \in 1 .. Len(jobs) : jobs[i] = [dir |-> BasePaths[i], depth |-> Depth],
         \A w \in Workers : stack[w] = << >> /\ matchedFiles[w] = << >>
  PROVE  Shared(jobs, matchedFiles, stack)
<1>1. ASSUME NEW i \in 1 .. Len(jobs)
      PROVE  JobOK(jobs[i]) /\ BasePaths[i] \in Range(BasePaths) /\ jobs[i].dir = BasePaths[i]
  <2> DEFINE job == [dir |-> BasePaths[i], depth |-> Depth]
  <2>1. jobs[i] = job /\ i \in 1 .. Len(BasePaths) /\ job.dir = BasePaths[i]
    OBVIOUS
  <2>2. JobOK(job) /\ BasePaths[i] \in Range(BasePaths)
    BY <2>1, BasePathJob
  <2> HIDE DEF job
  <2> QED BY <2>1, <2>2
<1>2. ASSUME NEW i \in 1 .. Len(jobs), NEW j \in 1 .. Len(jobs), i # j
      PROVE  Under(jobs[i].dir) \cap Under(jobs[j].dir) = {}
  <2>1. BasePaths[i] # BasePaths[j]
    BY <1>2, TreeAssumption, BasePathsAssumption DEF IsInjective
  <2>2. Below(BasePaths[i]) \cap Below(BasePaths[j]) = {}
    BY <1>1, <2>1, BasesApart
  <2> QED BY <1>1, <2>2, UnderApart
<1>3. JobsOK(jobs)
  BY <1>1, <1>2 DEF JobsOK
<1>4. JobFiles(jobs) = Expected
  <2>1. ASSUME NEW f PROVE f \in JobFiles(jobs) <=> f \in Expected
    <3>1. f \in JobFiles(jobs) <=> \E i \in 1 .. Len(jobs) : f \in Under(BasePaths[i])
      BY <1>1 DEF JobFiles
    <3> QED BY <3>1, ExpectedFiles
  <2> QED BY <2>1
<1>5. \A w \in Workers : /\ WorkerOK(matchedFiles[w], stack[w])
                         /\ WorkerFiles(matchedFiles[w], stack[w]) = {}
  BY NoCalls, NoElements DEF WorkerOK, WorkerFiles
<1> QED BY <1>3, <1>4, <1>5 DEF Shared

LEMMA FilesInitial == Init => FilesInv
<1> SUFFICES ASSUME Init PROVE Filling /\ Accounted /\ Ended
  BY CounterInitial DEF FilesInv
<1>1. /\ mainPc = "fill" /\ jobs = << >> /\ exited = {}
      /\ matchedFiles = [w \in Workers |-> << >>]
  BY DEF Init
<1>2. Len(jobs) <= Len(BasePaths) /\ 1 .. Len(jobs) = {}
  BY <1>1, BasePathsAssumption
<1> QED BY <1>1, <1>2 DEF Filling, Accounted, Ended

LEMMA WorkerMoves ==
  ASSUME CounterInv, Shared(jobs, matchedFiles, stack), NEW w \in Workers, WorkerStep(w)
  PROVE  Shared(jobs', matchedFiles', stack')
<1>1. TypeOK
  BY DEF CounterInv
<1>2. CASE Exit(w)
  BY <1>2 DEF Exit
<1> QED BY <1>1, <1>2, TakeJobMoves, CountNewJobsMoves, CountDoneMoves, SendJobMoves,
           VisitInlineMoves, ReturnResultsMoves DEF WorkerStep

\* Steps after the end of a worker change nothing of it.
LEMMA EndedKept ==
  ASSUME CounterInv, Ended, [Next]_vars PROVE Ended'
<1>0. TypeOK /\ exited \subseteq Workers /\ jobsClosed \in BOOLEAN
  BY DEF CounterInv, TypeOK
<1>1. CASE MainStep \/ UNCHANGED vars
  <2>1. /\ stack' = stack /\ exited' = exited /\ jobsClosed' = jobsClosed
        /\ mainPc' = "returned" => exited' = Workers
    BY <1>1 DEF MainStep, PutBasePath, StartWorkers, Return, vars, Ended
  <2> QED BY <2>1 DEF Ended
<1>2. ASSUME NEW w \in Workers, WorkerStep(w) PROVE Ended'
  <2>1. w \notin exited /\ mainPc' = mainPc /\ mainPc # "returned"
    <3>1. CASE TakeJob(w) \/ Exit(w)
      BY <3>1 DEF TakeJob, Exit
    <3>2. CASE CountNewJobs(w) \/ CountDone(w) \/ SendJob(w) \/ VisitInline(w) \/ ReturnResults(w)
      <4>1. stack[w] # << >> /\ mainPc' = mainPc
        BY <3>2 DEF CountNewJobs, CountDone, SendJob, VisitInline, ReturnResults, InCall
      <4> QED BY <4>1 DEF Ended
    <3> QED BY <1>2, <3>1, <3>2 DEF WorkerStep
  <2>2. \A v \in Workers : v # w => stack'[v] = stack[v]
    BY <1>0, <1>2 DEF WorkerStep, TypeOK, TakeJob, Exit, CountNewJobs, CountDone, SendJob,
                      VisitInline, ReturnResults, SetTop
  <2>3. \/ exited' = exited
        \/ exited' = exited \cup {w} /\ stack' = stack /\ stack[w] = << >> /\ jobsClosed
    BY <1>2 DEF WorkerStep, TakeJob, Exit, CountNewJobs, CountDone, SendJob,
                VisitInline, ReturnResults
  <2>4. jobsClosed => jobsClosed'
    BY <1>2, Zenon DEF WorkerStep, TakeJob, Exit, CountNewJobs, CountDone, SendJob,
                VisitInline, ReturnResults
  <2>5. \A v \in exited' : stack'[v] = << >> /\ jobsClosed'
    BY <1>0, <2>1, <2>2, <2>3, <2>4 DEF Ended
  <2> QED BY <2>1, <2>5 DEF Ended
<1> QED BY <1>1, <1>2 DEF Next

LEMMA FilesStep == FilesInv /\ [Next]_vars => FilesInv'
<1> SUFFICES ASSUME FilesInv, [Next]_vars PROVE FilesInv'
  OBVIOUS
<1>1. CounterInv /\ CounterInv' /\ Ended' /\ TypeOK /\ Filling /\ Accounted
  BY CounterStep, EndedKept DEF FilesInv, CounterInv
<1>2. CASE PutBasePath
  <2> DEFINE n == Len(jobs)
             job == [dir |-> BasePaths[n + 1], depth |-> Depth]
  <2>1. /\ mainPc = "fill" /\ mainPc' = "fill" /\ jobs' = Append(jobs, job)
        /\ n < Len(BasePaths) /\ matchedFiles' = matchedFiles
    BY <1>2 DEF PutBasePath
  <2>2. jobs \in Seq(Job) /\ n \in Nat /\ Len(BasePaths) \in Nat
    BY <1>1, BasePathsAssumption DEF TypeOK
  <2>3. job \in Job
    BY <2>1, <2>2, BasePathJob
  <2>4. /\ Len(jobs') = n + 1 /\ jobs'[n + 1] = job
        /\ \A i \in 1 .. n : jobs'[i] = jobs[i]
    <3> HIDE DEF job
    <3> QED BY <2>1, <2>2, <2>3
  <2>5. \A i \in 1 .. n : jobs[i] = [dir |-> BasePaths[i], depth |-> Depth]
    BY <1>1, <2>1 DEF Filling
  <2>6. \A i \in 1 .. n + 1 : i \in 1 .. n \/ i = n + 1
    BY <2>2
  <2>7. \A i \in 1 .. n + 1 : jobs'[i] = [dir |-> BasePaths[i], depth |-> Depth]
    BY <2>4, <2>5, <2>6
  <2>8. Filling'
    BY <1>1, <2>1, <2>2, <2>4, <2>7 DEF Filling
  <2> QED BY <1>1, <2>1, <2>8 DEF FilesInv, Accounted
<1>3. CASE StartWorkers
  <2>1. /\ mainPc = "fill" /\ mainPc' = "wait" /\ jobs' = jobs /\ stack' = stack
        /\ matchedFiles' = matchedFiles /\ Len(jobs) = Len(BasePaths)
    BY <1>3 DEF StartWorkers
  <2>2. \A w \in Workers : stack[w] = << >> /\ matchedFiles[w] = << >>
    BY <1>1, <2>1 DEF CounterInv, NoneBeforeStart, Filling
  <2>3. Shared(jobs, matchedFiles, stack)
    BY <1>1, <2>1, <2>2, StartShares DEF Filling
  <2> QED BY <1>1, <2>1, <2>3 DEF FilesInv, Filling, Accounted
<1>4. CASE Return
  <2>1. /\ mainPc = "wait" /\ mainPc' = "returned" /\ jobs' = jobs /\ stack' = stack
        /\ matchedFiles' = matchedFiles
    BY <1>4 DEF Return
  <2> QED BY <1>1, <2>1 DEF FilesInv, Filling, Accounted
<1>5. ASSUME NEW w \in Workers, WorkerStep(w) PROVE FilesInv'
  <2>1. mainPc # "fill" /\ mainPc' = mainPc
    <3>1. TakeJob(w) \/ Exit(w) => mainPc = "wait" /\ mainPc' = mainPc
      BY DEF TakeJob, Exit
    <3>2. CountNewJobs(w) \/ CountDone(w) \/ SendJob(w) \/ VisitInline(w) \/ ReturnResults(w)
            => stack[w] # << >> /\ mainPc' = mainPc
      BY DEF CountNewJobs, CountDone, SendJob, VisitInline, ReturnResults, InCall
    <3>3. mainPc = "fill" => stack[w] = << >>
      BY <1>1 DEF CounterInv, NoneBeforeStart
    <3> QED BY <1>5, <3>1, <3>2, <3>3 DEF WorkerStep
  <2>2. Shared(jobs', matchedFiles', stack')
    BY <1>1, <1>5, <2>1, WorkerMoves DEF Accounted
  <2> QED BY <1>1, <2>1, <2>2 DEF FilesInv, Filling, Accounted
<1>6. CASE UNCHANGED vars
  <2>1. mainPc' = mainPc /\ jobs' = jobs /\ stack' = stack /\ matchedFiles' = matchedFiles
    BY <1>6 DEF vars
  <2> QED BY <1>1, <2>1 DEF FilesInv, Filling, Accounted
<1> QED BY <1>2, <1>3, <1>4, <1>5, <1>6 DEF Next, MainStep

\* Whatever the order in which the workers run, the caller gets every matching file of every
\* directory within the depth limit, and gets it once.
THEOREM EveryFileIsFoundOnce == Spec => []EveryFileOnce
<1>1. FilesInv => EveryFileOnce
  <2> SUFFICES ASSUME FilesInv, mainPc = "returned"
               PROVE  Range(Result) = Expected /\ Len(Result) = Cardinality(Expected)
    BY DEF EveryFileOnce, Expected
  <2>1. TypeOK /\ CounterInv /\ exited = Workers /\ Shared(jobs, matchedFiles, stack)
    BY DEF FilesInv, CounterInv, Ended, Accounted
  <2>2. 1 \in Workers
    BY GOMAXPROCSAssumption DEF Workers
  <2>3. jobsClosed /\ \A w \in Workers : stack[w] = << >>
    BY <2>1, <2>2 DEF FilesInv, Ended
  <2>4. jobs = << >>
    BY <2>1, <2>3, NoneLeft
  <2>5. JobFiles(jobs) = {}
    BY <2>4, NoJobs
  <2>6. \A w \in Workers : /\ WorkerFiles(matchedFiles[w], stack[w]) = Elements(matchedFiles[w])
                           /\ Distinct(matchedFiles[w])
    BY <2>1, <2>3, NoCalls DEF Shared, WorkerOK, WorkerFiles
  <2>7. /\ UNION { Elements(matchedFiles[w]) : w \in Workers } = Expected
        /\ \A v, w \in Workers : v # w => Elements(matchedFiles[v]) \cap Elements(matchedFiles[w]) = {}
    <3>1. /\ UNION { WorkerFiles(matchedFiles[w], stack[w]) : w \in Workers } = Expected
          /\ \A v, w \in Workers : v # w =>
               WorkerFiles(matchedFiles[v], stack[v]) \cap WorkerFiles(matchedFiles[w], stack[w]) = {}
      BY <2>1, <2>5 DEF Shared
    <3> QED BY <2>6, <3>1
  <2>8. /\ matchedFiles \in Seq(Seq(FileNames)) /\ Len(matchedFiles) = GOMAXPROCS
        /\ Workers = 1 .. Len(matchedFiles) /\ Len(matchedFiles) # 0
    BY <2>1, GOMAXPROCSAssumption DEF TypeOK, Workers
  <2>9. /\ Result \in Seq(FileNames) /\ Gathered(Result, matchedFiles, Len(matchedFiles))
    BY <2>6, <2>7, <2>8, FlattenFacts DEF Result
  <2>10. Distinct(Result) /\ Elements(Result) = Expected
    BY <2>7, <2>8, <2>9 DEF Gathered
  <2>11. Range(Result) = Elements(Result)
    BY <2>9 DEF Range, Elements
  <2>12. Len(Result) = Cardinality(Elements(Result))
    BY <2>9, <2>10, DistinctLength
  <2> QED BY <2>10, <2>11, <2>12
<1> QED BY <1>1, FilesInitial, FilesStep, PTL DEF Spec
=============================================================================
