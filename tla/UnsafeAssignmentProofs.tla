----------------------- MODULE UnsafeAssignmentProofs -----------------------
(***************************************************************************)
(* Proofs about UnsafeAssignment, for any program: however many types, and *)
(* however they contain each other.                                        *)
(***************************************************************************)
EXTENDS UnsafeAssignment, SequenceTheorems, FiniteSetTheorems, Induction, TLAPS

-----------------------------------------------------------------------------
(* Type correctness. *)

\* The arguments of two comparable types correspond.
LEMMA ArgumentType ==
  ASSUME types \in Programs, NEW p \in Pairs
  PROVE  /\ ArgumentCount(p) \in Nat
         /\ Comparable(p) =>
              \A i \in 1 .. ArgumentCount(p) : ArgumentPair(p, i) \in Pairs
<1>1. /\ types \in [Types -> [target : Targets \cup {NoTarget}, arguments : Seq(Types)]]
      /\ \A t, receiver \in Types :
           types[t].target = types[receiver].target
             => Len(types[t].arguments) = Len(types[receiver].arguments)
  BY ProgramsAssumption
<1>2. p[1] \in Types /\ p[2] \in Types
  BY DEF Pairs
<1>3. types[p[1]].arguments \in Seq(Types) /\ types[p[2]].arguments \in Seq(Types)
  BY <1>1, <1>2
<1>4. ArgumentCount(p) \in Nat
  BY <1>3 DEF ArgumentCount
<1>5. ASSUME Comparable(p), NEW i \in 1 .. ArgumentCount(p)
      PROVE  ArgumentPair(p, i) \in Pairs
  <2>1. Len(types[p[2]].arguments) = ArgumentCount(p)
    BY <1>1, <1>2, <1>5 DEF Comparable, ArgumentCount
  <2>2. types[p[1]].arguments[i] \in Types /\ types[p[2]].arguments[i] \in Types
    BY <1>3, <1>5, <2>1, ElementOfSeq DEF ArgumentCount
  <2>3. QED
    BY <2>2 DEF ArgumentPair, Pairs
<1>6. QED
  BY <1>4, <1>5

\* What is on the stack has been visited, and its arguments are compared.
CallsAreVisited ==
  \A k \in DOMAIN calls : calls[k].pair \in visited /\ Comparable(calls[k].pair)

TypeInv == TypeOK /\ CallsAreVisited

\* The stack after each step that changes it.
LEMMA PushFacts ==
  ASSUME calls \in Seq(Call), pair \in Pairs, CompareArguments
  PROVE  /\ calls' \in Seq(Call)
         /\ Len(calls') = Len(calls) + 1
         /\ Len(calls) \in Nat
         /\ \A k \in 1 .. Len(calls) : calls'[k] = calls[k]
         /\ calls'[Len(calls')] = [pair |-> pair, compared |-> 0]
<1>1. [pair |-> pair, compared |-> 0] \in Call
  BY DEF Call
<1>2. calls' = Append(calls, [pair |-> pair, compared |-> 0])
  BY DEF CompareArguments
<1>3. QED
  BY <1>1, <1>2

LEMMA NextFacts ==
  ASSUME calls \in Seq(Call), NextArgument
  PROVE  /\ calls' \in Seq(Call)
         /\ Len(calls) \in Nat \ {0}
         /\ Len(calls') = Len(calls)
         /\ Innermost \in Call
         /\ calls'[Len(calls)].pair = Innermost.pair
         /\ calls'[Len(calls)].compared = Innermost.compared + 1
         /\ \A k \in 1 .. Len(calls) - 1 : calls'[k] = calls[k]
<1>1. Len(calls) \in Nat \ {0}
  BY EmptySeq DEF NextArgument
<1>2. Innermost \in Call
  BY <1>1, ElementOfSeq DEF Innermost
<1> DEFINE stepped == [Innermost EXCEPT !.compared = @ + 1]
<1>3. stepped \in Call /\ stepped.pair = Innermost.pair
        /\ stepped.compared = Innermost.compared + 1
  BY <1>2 DEF Call
<1>4. calls' = [calls EXCEPT ![Len(calls)] = stepped]
  BY <1>2 DEF NextArgument, Innermost, Call
<1> HIDE DEF stepped
<1>5. QED
  BY <1>1, <1>2, <1>3, <1>4, ExceptSeq

LEMMA PopFacts ==
  ASSUME calls \in Seq(Call), LeaveLoop
  PROVE  /\ calls' \in Seq(Call)
         /\ Len(calls) \in Nat \ {0}
         /\ Len(calls') = Len(calls) - 1
         /\ Innermost \in Call
         /\ \A k \in 1 .. Len(calls) - 1 : calls'[k] = calls[k]
<1>1. Len(calls) \in Nat \ {0}
  BY EmptySeq DEF LeaveLoop
<1>2. \A k \in 1 .. Len(calls) : calls[k] \in Call
  BY ElementOfSeq
<1> DEFINE n == Len(calls) - 1
<1>3. \A i \in 1 .. n : calls[i] \in Call
  BY <1>1, <1>2
<1>4. n \in Nat /\ 1 \in Int /\ calls' = SubSeq(calls, 1, n)
  BY <1>1 DEF LeaveLoop, OtherCalls
<1> HIDE DEF n
<1>5. /\ SubSeq(calls, 1, n) \in Seq(Call)
      /\ Len(SubSeq(calls, 1, n)) = n
      /\ \A i \in 1 .. n : SubSeq(calls, 1, n)[i] = calls[i]
  BY <1>3, <1>4, SubSeqProperties
<1>6. QED
  BY <1>1, <1>2, <1>4, <1>5 DEF n, Innermost

\* No step changes what the worker was called for.
LEMMA SameCall == [Next]_vars => UNCHANGED <<types, emptyMap, assignment>>
BY DEF Next, CheckAny, AlreadyVisited, NotComparable, CompareArguments,
       NextArgument, LeaveLoop, Return, vars

LEMMA TypeInit == Init => TypeInv
<1> SUFFICES ASSUME Init PROVE TypeInv
  OBVIOUS
<1>1. calls \in Seq(Call) /\ DOMAIN calls = {}
  BY DEF Init
<1>2. QED
  BY <1>1 DEF Init, TypeInv, TypeOK, CallsAreVisited

LEMMA TypeStep == TypeInv /\ [Next]_vars => TypeInv'
<1> SUFFICES ASSUME TypeInv, [Next]_vars PROVE TypeInv'
  OBVIOUS
<1> USE DEF TypeInv
<1>0. UNCHANGED <<types, emptyMap, assignment>>
  BY SameCall
<1> USE DEF ArgumentCount, Comparable, IsNonDeferredTypeReference
<1>1. ASSUME UNCHANGED calls, visited \subseteq visited', visited' \subseteq Pairs,
             state' = "back", unsafe' \in BOOLEAN, UNCHANGED pair
      PROVE  TypeInv'
  BY <1>0, <1>1 DEF TypeOK, CallsAreVisited
<1>2. CASE CheckAny
  BY <1>1, <1>2 DEF CheckAny, Return, TypeOK
<1>2a. CASE AlreadyVisited
  BY <1>1, <1>2a DEF AlreadyVisited, Return, TypeOK
<1>3. CASE NotComparable
  <2>1. UNCHANGED <<calls, pair>> /\ state' = "back" /\ unsafe' = FALSE
        /\ visited' = visited \cup {pair}
    BY <1>3 DEF NotComparable, Return
  <2>2. QED
    BY <1>1, <2>1 DEF TypeOK
<1>4. CASE CompareArguments
  <2>1. /\ UNCHANGED <<types, emptyMap, assignment, pair>>
        /\ state' = "back" /\ unsafe' = FALSE
        /\ visited' = visited \cup {pair} /\ Comparable(pair)
    BY <1>4 DEF CompareArguments, Return
  <2>2. ArgumentCount(pair) \in Nat
    BY ArgumentType DEF TypeOK
  <2>3. ASSUME NEW k \in DOMAIN calls'
        PROVE  (/\ calls[k].compared <= ArgumentCount(calls[k].pair)
                /\ calls[k].pair \in visited /\ Comparable(calls[k].pair))'
    BY <1>0, <1>4, <2>1, <2>2, <2>3, PushFacts DEF TypeOK, CallsAreVisited
  <2>4. QED
    BY <1>4, <2>1, <2>3, PushFacts DEF TypeOK, CallsAreVisited
<1>5. CASE NextArgument
  <2>1. /\ UNCHANGED <<types, emptyMap, assignment, visited, unsafe>>
        /\ state' = "call"
        /\ pair' = ArgumentPair(Innermost.pair, Innermost.compared + 1)
        /\ Innermost.compared < ArgumentCount(Innermost.pair)
    BY <1>5 DEF NextArgument
  <2>2. Len(calls) \in DOMAIN calls /\ Innermost.pair \in Pairs /\ Innermost.compared \in Nat
    BY <1>5, NextFacts DEF TypeOK, Call
  <2>3. Comparable(Innermost.pair) /\ ArgumentCount(Innermost.pair) \in Nat
    BY <2>2, ArgumentType DEF CallsAreVisited, TypeOK, Innermost
  <2>4. pair' \in Pairs
    BY <2>1, <2>2, <2>3, ArgumentType DEF TypeOK
  <2>5. ASSUME NEW k \in DOMAIN calls'
        PROVE  (/\ calls[k].compared <= ArgumentCount(calls[k].pair)
                /\ calls[k].pair \in visited /\ Comparable(calls[k].pair))'
    <3>1. CASE k = Len(calls)
      BY <1>0, <1>5, <2>1, <2>2, <2>3, <3>1, NextFacts DEF TypeOK, CallsAreVisited, Innermost
    <3>2. CASE k # Len(calls)
      BY <1>0, <1>5, <2>1, <3>2, NextFacts DEF TypeOK, CallsAreVisited
    <3>3. QED
      BY <3>1, <3>2
  <2>6. QED
    BY <1>5, <2>1, <2>4, <2>5, NextFacts DEF TypeOK, CallsAreVisited
<1>6. CASE LeaveLoop
  <2>1. UNCHANGED <<types, emptyMap, assignment, visited, state, unsafe>>
        /\ pair' = Innermost.pair
    BY <1>6 DEF LeaveLoop
  <2>2. pair' \in Pairs
    BY <1>6, <2>1, PopFacts DEF Call, TypeOK
  <2>3. ASSUME NEW k \in DOMAIN calls'
        PROVE  (/\ calls[k].compared <= ArgumentCount(calls[k].pair)
                /\ calls[k].pair \in visited /\ Comparable(calls[k].pair))'
    BY <1>0, <1>6, <2>1, PopFacts DEF TypeOK, CallsAreVisited
  <2>4. QED
    BY <1>6, <2>1, <2>2, <2>3, PopFacts DEF TypeOK, CallsAreVisited
<1>7. CASE UNCHANGED vars
  BY <1>0, <1>7 DEF vars, TypeOK, CallsAreVisited
<1>8. QED
  BY <1>2, <1>2a, <1>3, <1>4, <1>5, <1>6, <1>7 DEF Next

\* The variables keep to their types; the type references of a pair whose
\* arguments are being compared have the same number of them, so the index into
\* the receiver's arguments is never out of range.
THEOREM TypeCorrect == Spec => []TypeOK
<1>1. TypeInv => TypeOK
  BY DEF TypeInv
<1>2. QED
  BY <1>1, TypeInit, TypeStep, PTL DEF Spec

-----------------------------------------------------------------------------
(* The recursion is bounded. *)

LEMMA DistinctStep ==
  TypeInv /\ NoCallWaitsForItself /\ [Next]_vars => NoCallWaitsForItself'
<1> SUFFICES ASSUME TypeInv, NoCallWaitsForItself, [Next]_vars
             PROVE  NoCallWaitsForItself'
  OBVIOUS
<1>1. CASE UNCHANGED calls
  BY <1>1 DEF NoCallWaitsForItself
<1>2. CASE CompareArguments
  <2>1. pair \notin visited
    BY <1>2 DEF CompareArguments
  <2>2. \A k \in 1 .. Len(calls) : calls[k].pair \in visited
    BY DEF TypeInv, TypeOK, CallsAreVisited
  <2>3. calls \in Seq(Call) /\ pair \in Pairs
    BY DEF TypeInv, TypeOK
  <2>4. QED
    BY <1>2, <2>1, <2>2, <2>3, PushFacts DEF NoCallWaitsForItself
<1>3. CASE NextArgument
  <2>1. calls \in Seq(Call)
    BY DEF TypeInv, TypeOK
  <2>2. DOMAIN calls' = DOMAIN calls /\ \A k \in DOMAIN calls : calls'[k].pair = calls[k].pair
    BY <1>3, <2>1, NextFacts DEF Innermost
  <2>3. QED
    BY <2>2 DEF NoCallWaitsForItself
<1>4. CASE LeaveLoop
  <2>1. calls \in Seq(Call)
    BY DEF TypeInv, TypeOK
  <2>2. QED
    BY <1>4, <2>1, PopFacts DEF NoCallWaitsForItself
<1>5. QED
  BY <1>1, <1>2, <1>3, <1>4
     DEF Next, vars, CheckAny, AlreadyVisited, NotComparable

\* However the types contain each other, the worker never waits for a call with
\* the types it was itself called with: each pair is looked into once.
THEOREM RecursionIsBounded == Spec => []NoCallWaitsForItself
<1>1. Init => TypeInv /\ NoCallWaitsForItself
  BY TypeInit DEF Init, NoCallWaitsForItself
<1>2. TypeInv /\ NoCallWaitsForItself /\ [Next]_vars => (TypeInv /\ NoCallWaitsForItself)'
  BY TypeStep, DistinctStep
<1>3. QED
  BY <1>1, <1>2, PTL DEF Spec

-----------------------------------------------------------------------------
(* The verdict.  The pairs at corresponding places of the two types are the *)
(* least set that holds the two types and with a pair of comparable types   *)
(* the pairs of their arguments.                                            *)

Closed(S) ==
  /\ S \subseteq Pairs
  /\ assignment \in S
  /\ \A p \in S : Comparable(p) =>
       \A i \in 1 .. ArgumentCount(p) : ArgumentPair(p, i) \in S

\* Every such set holds a pair in which an any meets another type.
AnyMeetsType == \A S : Closed(S) => \E p \in S : Unsafe(p)

\* First half: the worker only looks at pairs that are in all those sets.
LooksWhereItShould ==
  /\ state = "call" => ~ unsafe
  /\ \A S : Closed(S) =>
       /\ pair \in S
       /\ \A k \in DOMAIN calls : calls[k].pair \in S
       /\ unsafe => \E p \in S : Unsafe(p)

\* Second half: as long as nothing unsafe is found, what has been looked at is
\* closed but for the arguments that the waiting calls still have to compare.
Settled(p) == p \in visited \/ p = <<Any, Unknown>>

Waiting(p) == \E k \in DOMAIN calls : calls[k].pair = p

InCall(p) == state = "call" /\ pair = p

ClosedSoFar ==
  /\ \A p \in visited : LetThrough(p)
  /\ ~ unsafe =>
       /\ Settled(assignment) \/ (InCall(assignment) /\ calls = << >>)
       /\ \A p \in visited : Comparable(p) /\ ~ Waiting(p) =>
            \A i \in 1 .. ArgumentCount(p) : Settled(ArgumentPair(p, i))
       /\ \A k \in DOMAIN calls : \A i \in 1 .. calls[k].compared :
            \/ Settled(ArgumentPair(calls[k].pair, i))
            \/ /\ InCall(ArgumentPair(calls[k].pair, i))
               /\ k = Len(calls) /\ i = calls[k].compared

VerdictInv == TypeInv /\ LooksWhereItShould /\ ClosedSoFar

LEMMA VerdictInit == Init => LooksWhereItShould /\ ClosedSoFar
<1> SUFFICES ASSUME Init PROVE LooksWhereItShould /\ ClosedSoFar
  OBVIOUS
<1>1. calls = << >> /\ DOMAIN calls = {} /\ visited = {} /\ pair = assignment
      /\ state = "call" /\ unsafe = FALSE
  BY DEF Init
<1>2. QED
  BY <1>1 DEF LooksWhereItShould, ClosedSoFar, Closed, InCall, Waiting

LEMMA LooksStep == TypeInv /\ LooksWhereItShould /\ [Next]_vars => LooksWhereItShould'
<1> SUFFICES ASSUME TypeInv, LooksWhereItShould, [Next]_vars
             PROVE  LooksWhereItShould'
  OBVIOUS
<1>0. UNCHANGED <<types, emptyMap, assignment>>
  BY SameCall
<1>1. \A S : Closed(S)' = Closed(S)
  BY <1>0 DEF Closed, Comparable, IsNonDeferredTypeReference, ArgumentCount, ArgumentPair
<1>2. calls \in Seq(Call) /\ pair \in Pairs /\ unsafe \in BOOLEAN
  BY DEF TypeInv, TypeOK
<1>3. CASE CheckAny
  <2>1. unsafe' => Unsafe(pair)
    BY <1>3, <1>2 DEF CheckAny, Return, LetThrough, Unsafe
  <2>2. UNCHANGED <<calls, pair>> /\ state' = "back"
    BY <1>3 DEF CheckAny, Return
  <2>3. QED
    BY <1>1, <2>1, <2>2 DEF LooksWhereItShould, Unsafe
<1>4. CASE AlreadyVisited \/ NotComparable
  <2>1. UNCHANGED <<calls, pair>> /\ state' = "back" /\ unsafe' = FALSE
    BY <1>4 DEF AlreadyVisited, NotComparable, Return
  <2>2. QED
    BY <1>1, <2>1 DEF LooksWhereItShould
<1>5. CASE CompareArguments
  <2>1. UNCHANGED pair /\ state' = "back" /\ unsafe' = FALSE
    BY <1>5 DEF CompareArguments, Return
  <2>2. \A k \in DOMAIN calls' : calls'[k].pair = pair \/ \E j \in DOMAIN calls : calls'[k] = calls[j]
    BY <1>2, <1>5, PushFacts
  <2>3. QED
    BY <1>1, <2>1, <2>2 DEF LooksWhereItShould
<1>6. CASE NextArgument
  <2>1. /\ pair' = ArgumentPair(Innermost.pair, Innermost.compared + 1)
        /\ Innermost.compared < ArgumentCount(Innermost.pair)
        /\ ~ unsafe /\ ~ unsafe'
    BY <1>6 DEF NextArgument
  <2>2. /\ Len(calls) \in DOMAIN calls /\ Innermost.compared \in Nat
        /\ DOMAIN calls' = DOMAIN calls
        /\ \A k \in DOMAIN calls : calls'[k].pair = calls[k].pair
    <3>1. /\ Len(calls) \in Nat \ {0} /\ calls' \in Seq(Call) /\ Len(calls') = Len(calls)
          /\ Innermost \in Call /\ calls'[Len(calls)].pair = Innermost.pair
          /\ \A k \in 1 .. Len(calls) - 1 : calls'[k] = calls[k]
      BY <1>2, <1>6, NextFacts
    <3>2. DOMAIN calls = 1 .. Len(calls) /\ DOMAIN calls' = 1 .. Len(calls)
      BY <1>2, <3>1
    <3>3. \A k \in 1 .. Len(calls) : k = Len(calls) \/ k \in 1 .. Len(calls) - 1
      BY <3>1
    <3>4. Innermost.compared \in Nat
      BY <3>1 DEF Call
    <3>5. ASSUME NEW k \in 1 .. Len(calls) PROVE calls'[k].pair = calls[k].pair
      <4>1. CASE k = Len(calls)
        BY <3>1, <4>1 DEF Innermost
      <4>2. CASE k # Len(calls)
        BY <3>1, <3>3, <4>2
      <4> QED BY <4>1, <4>2
    <3> QED BY <3>1, <3>2, <3>4, <3>5
  <2>3. Comparable(Innermost.pair) /\ ArgumentCount(Innermost.pair) \in Nat
    BY <2>2, ArgumentType DEF TypeInv, CallsAreVisited, TypeOK, Innermost, Call
  <2>4. ASSUME NEW S, Closed(S)
        PROVE  pair' \in S
    <3>1. Innermost.pair \in S
      BY <2>2, <2>4 DEF LooksWhereItShould, Innermost
    <3>2. Innermost.compared + 1 \in 1 .. ArgumentCount(Innermost.pair)
      BY <2>1, <2>2, <2>3
    <3>3. QED
      BY <2>1, <2>3, <2>4, <3>1, <3>2 DEF Closed
  <2>5. QED
    BY <1>1, <2>1, <2>2, <2>4 DEF LooksWhereItShould
<1>7. CASE LeaveLoop
  <2>1. UNCHANGED <<state, unsafe>> /\ state = "back" /\ pair' = Innermost.pair
    BY <1>7 DEF LeaveLoop
  <2>2. /\ Len(calls) \in DOMAIN calls
        /\ \A k \in DOMAIN calls' : k \in DOMAIN calls /\ calls'[k] = calls[k]
    BY <1>2, <1>7, PopFacts
  <2>3. QED
    BY <1>1, <2>1, <2>2 DEF LooksWhereItShould, Innermost, Unsafe
<1>8. CASE UNCHANGED vars
  BY <1>1, <1>8 DEF LooksWhereItShould, Unsafe, vars
<1>9. QED
  BY <1>3, <1>4, <1>5, <1>6, <1>7, <1>8 DEF Next

LEMMA ClosedStep == TypeInv /\ ClosedSoFar /\ LooksWhereItShould /\ [Next]_vars => ClosedSoFar'
<1> SUFFICES ASSUME TypeInv, ClosedSoFar, LooksWhereItShould, [Next]_vars
             PROVE  ClosedSoFar'
  OBVIOUS
<1>0. UNCHANGED <<types, emptyMap, assignment>>
  BY SameCall
<1>1. /\ \A p, i : ArgumentPair(p, i)' = ArgumentPair(p, i)
      /\ \A p : ArgumentCount(p)' = ArgumentCount(p)
      /\ \A p : Comparable(p)' = Comparable(p)
  BY <1>0 DEF Comparable, IsNonDeferredTypeReference, ArgumentCount, ArgumentPair
<1>2. calls \in Seq(Call) /\ pair \in Pairs /\ unsafe \in BOOLEAN
  BY DEF TypeInv, TypeOK
\* A call returns at once: its pair is settled.
<1>3. ASSUME state = "call", state' = "back", UNCHANGED <<calls, pair>>, ~ unsafe' => Settled(pair)',
             visited \subseteq visited',
             \A p \in visited' : p \in visited \/ (LetThrough(p) /\ ~ Comparable(p))
      PROVE  ClosedSoFar'
  <2>1. ~ unsafe
    BY <1>3 DEF LooksWhereItShould
  <2>2. \A p \in visited' : LetThrough(p)
    BY <1>3 DEF ClosedSoFar
  <2>3. \A p : Settled(p) \/ (InCall(p) /\ ~ unsafe') => Settled(p)'
    BY <1>3 DEF Settled, InCall
  <2>4. \A p : Waiting(p)' = Waiting(p)
    BY <1>3 DEF Waiting
  <2>5. ASSUME ~ unsafe'
        PROVE  /\ Settled(assignment)'
               /\ \A p \in visited' : Comparable(p)' /\ ~ Waiting(p)' =>
                    \A i \in 1 .. ArgumentCount(p)' : Settled(ArgumentPair(p, i))'
               /\ \A k \in DOMAIN calls : \A i \in 1 .. calls[k].compared :
                    Settled(ArgumentPair(calls[k].pair, i))'
    <3>1. Settled(assignment)'
      BY <1>0, <2>1, <2>3, <2>5 DEF ClosedSoFar, Settled
    <3>2. ASSUME NEW p \in visited', Comparable(p)', ~ Waiting(p)', NEW i \in 1 .. ArgumentCount(p)'
          PROVE  Settled(ArgumentPair(p, i))'
      <4>1. p \in visited /\ Comparable(p) /\ ~ Waiting(p) /\ i \in 1 .. ArgumentCount(p)
        BY <1>1, <1>3, <2>4, <3>2
      <4>2. Settled(ArgumentPair(p, i))
        BY <2>1, <4>1 DEF ClosedSoFar
      <4>3. ArgumentPair(p, i)' = ArgumentPair(p, i)
        BY <1>1
      <4>4. QED
        BY <1>3, <4>2, <4>3 DEF Settled
    <3>3. ASSUME NEW k \in DOMAIN calls, NEW i \in 1 .. calls[k].compared
          PROVE  Settled(ArgumentPair(calls[k].pair, i))'
      <4>1. \/ Settled(ArgumentPair(calls[k].pair, i))
            \/ InCall(ArgumentPair(calls[k].pair, i))
        BY <2>1, <3>3 DEF ClosedSoFar
      <4>2. ArgumentPair(calls[k].pair, i)' = ArgumentPair(calls[k].pair, i)
        BY <1>0, <1>3 DEF ArgumentPair
      <4>3. QED
        BY <2>5, <1>3, <4>1, <4>2 DEF Settled, InCall
    <3>4. QED
      BY <3>1, <3>2, <3>3
  <2>6. QED
    BY <1>3, <2>2, <2>5 DEF ClosedSoFar
<1>4. CASE CheckAny
  <2>1. /\ state = "call" /\ state' = "back" /\ UNCHANGED <<calls, visited, pair>>
        /\ pair[1] = Any
        /\ ~ unsafe' => pair[2] = Unknown
    BY <1>4 DEF CheckAny, Return, LetThrough
  <2>2. ~ unsafe' => pair = <<Any, Unknown>>
    BY <1>2, <2>1 DEF Pairs
  <2>3. QED
    BY <1>3, <2>1, <2>2 DEF Settled
<1>5. CASE AlreadyVisited
  <2>1. /\ state = "call" /\ state' = "back" /\ UNCHANGED <<calls, visited, pair>>
        /\ pair \in visited
    BY <1>5 DEF AlreadyVisited, Return
  <2>2. QED
    BY <1>3, <2>1 DEF Settled
<1>6. CASE NotComparable
  <2>1. /\ state = "call" /\ state' = "back" /\ UNCHANGED <<calls, pair>>
        /\ visited' = visited \cup {pair} /\ LetThrough(pair) /\ ~ Comparable(pair)
    BY <1>6 DEF NotComparable, Return
  <2>2. QED
    BY <1>3, <2>1 DEF Settled
<1>7. CASE CompareArguments
  <2>1. /\ state = "call" /\ state' = "back" /\ UNCHANGED pair /\ unsafe' = FALSE
        /\ visited' = visited \cup {pair} /\ LetThrough(pair)
    BY <1>7 DEF CompareArguments, Return
  <2>2. ~ unsafe
    BY <2>1 DEF LooksWhereItShould
  <2>3. /\ DOMAIN calls' = 1 .. Len(calls) + 1 /\ DOMAIN calls = 1 .. Len(calls)
        /\ Len(calls) \in Nat
        /\ \A k \in DOMAIN calls : calls'[k] = calls[k]
        /\ calls'[Len(calls) + 1] = [pair |-> pair, compared |-> 0]
    BY <1>2, <1>7, PushFacts
  <2>4. \A p : Settled(p) \/ InCall(p) => Settled(p)'
    BY <2>1 DEF Settled, InCall
  <2>5. Settled(assignment)'
    BY <1>0, <2>2, <2>4 DEF ClosedSoFar, Settled
  <2>6. ASSUME NEW p \in visited', Comparable(p)', ~ Waiting(p)', NEW i \in 1 .. ArgumentCount(p)'
        PROVE  Settled(ArgumentPair(p, i))'
    <3>1. p # pair
      BY <2>3, <2>6 DEF Waiting
    <3>2. p \in visited /\ ~ Waiting(p)
      BY <2>1, <2>3, <2>6, <3>1 DEF Waiting
    <3>3. Settled(ArgumentPair(p, i))
      BY <1>1, <2>2, <2>6, <3>2 DEF ClosedSoFar
    <3>4. ArgumentPair(p, i)' = ArgumentPair(p, i)
      BY <1>1
    <3>5. QED
      BY <2>1, <3>3, <3>4 DEF Settled
  <2>7. ASSUME NEW k \in DOMAIN calls', NEW i \in 1 .. calls'[k].compared
        PROVE  Settled(ArgumentPair(calls[k].pair, i))'
    <3>1. k \in DOMAIN calls /\ calls'[k] = calls[k]
      BY <2>3, <2>7
    <3>2. Settled(ArgumentPair(calls[k].pair, i)) \/ InCall(ArgumentPair(calls[k].pair, i))
      BY <2>2, <2>7, <3>1 DEF ClosedSoFar
    <3>3. (ArgumentPair(calls[k].pair, i))' = ArgumentPair(calls[k].pair, i)
      BY <1>0, <3>1 DEF ArgumentPair
    <3>4. QED
      BY <2>1, <3>2, <3>3 DEF Settled, InCall
  <2>8. \A p \in visited' : LetThrough(p)
    BY <2>1 DEF ClosedSoFar
  <2>9. QED
    BY <2>5, <2>6, <2>7, <2>8 DEF ClosedSoFar
<1>8. CASE NextArgument
  <2>1. /\ state = "back" /\ ~ unsafe /\ ~ unsafe' /\ state' = "call"
        /\ pair' = ArgumentPair(Innermost.pair, Innermost.compared + 1)
        /\ UNCHANGED visited
    BY <1>8 DEF NextArgument
  <2>2. /\ Len(calls) \in Nat /\ DOMAIN calls' = DOMAIN calls /\ DOMAIN calls = 1 .. Len(calls)
        /\ Len(calls') = Len(calls)
        /\ Innermost.compared \in Nat /\ calls[Len(calls)] = Innermost
        /\ \A k \in DOMAIN calls : calls'[k].pair = calls[k].pair
        /\ calls'[Len(calls)].compared = Innermost.compared + 1
        /\ \A k \in DOMAIN calls : k # Len(calls) => calls'[k].compared = calls[k].compared
    <3>1. /\ calls' \in Seq(Call) /\ Len(calls) \in Nat \ {0} /\ Len(calls') = Len(calls)
          /\ Innermost \in Call
          /\ calls'[Len(calls)].pair = Innermost.pair
          /\ calls'[Len(calls)].compared = Innermost.compared + 1
          /\ \A k \in 1 .. Len(calls) - 1 : calls'[k] = calls[k]
      BY <1>2, <1>8, NextFacts
    <3>2. calls[Len(calls)] = Innermost
      BY DEF Innermost
    <3>3. \A k \in 1 .. Len(calls) : k # Len(calls) => k \in 1 .. Len(calls) - 1
      BY <3>1
    <3>4. DOMAIN calls = 1 .. Len(calls) /\ DOMAIN calls' = 1 .. Len(calls)
      BY <1>2, <3>1
    <3>5. Innermost.compared \in Nat
      BY <3>1 DEF Call
    <3>6. QED
      BY <3>1, <3>2, <3>3, <3>4, <3>5
  <2>3. \A p : (Settled(p)' = Settled(p)) /\ ~ InCall(p)
    BY <2>1 DEF Settled, InCall
  <2>4. Settled(assignment)'
    BY <1>0, <2>1, <2>3 DEF ClosedSoFar, Settled
  <2>5. ASSUME NEW p \in visited', Comparable(p)', ~ Waiting(p)', NEW i \in 1 .. ArgumentCount(p)'
        PROVE  Settled(ArgumentPair(p, i))'
    <3>1. p \in visited /\ ~ Waiting(p)
      BY <2>1, <2>2, <2>5 DEF Waiting
    <3>2. Settled(ArgumentPair(p, i))
      BY <1>1, <2>1, <2>5, <3>1 DEF ClosedSoFar
    <3>3. ArgumentPair(p, i)' = ArgumentPair(p, i)
      BY <1>1
    <3>4. QED
      BY <2>1, <3>2, <3>3 DEF Settled
  <2>6. ASSUME NEW k \in DOMAIN calls', NEW i \in 1 .. calls'[k].compared
        PROVE  \/ Settled(ArgumentPair(calls[k].pair, i))'
               \/ /\ InCall(ArgumentPair(calls[k].pair, i))'
                  /\ k = Len(calls') /\ i = calls'[k].compared
    <3>1. (ArgumentPair(calls[k].pair, i))' = ArgumentPair(calls[k].pair, i)
      BY <1>0, <2>2 DEF ArgumentPair
    <3>2. CASE i \in 1 .. calls[k].compared
      <4>1. Settled(ArgumentPair(calls[k].pair, i))
        BY <2>1, <2>2, <2>3, <3>2 DEF ClosedSoFar
      <4>2. QED
        BY <2>1, <3>1, <4>1 DEF Settled
    <3>3. CASE i \notin 1 .. calls[k].compared
      <4>1. k = Len(calls) /\ i = Innermost.compared + 1
        BY <2>2, <2>6, <3>3
      <4>2. QED
        BY <2>1, <2>2, <3>1, <4>1 DEF InCall
    <3>4. QED
      BY <3>2, <3>3
  <2>7. QED
    BY <2>1, <2>4, <2>5, <2>6 DEF ClosedSoFar
<1>9. CASE LeaveLoop
  <2>1. UNCHANGED <<visited, state, unsafe>> /\ state = "back"
    BY <1>9 DEF LeaveLoop
  <2>2. /\ Len(calls) \in DOMAIN calls
        /\ DOMAIN calls' = DOMAIN calls \ {Len(calls)}
        /\ \A k \in DOMAIN calls' : calls'[k] = calls[k]
    <3>1. /\ calls' \in Seq(Call) /\ Len(calls) \in Nat \ {0} /\ Len(calls') = Len(calls) - 1
          /\ \A k \in 1 .. Len(calls) - 1 : calls'[k] = calls[k]
      BY <1>2, <1>9, PopFacts
    <3>2. DOMAIN calls = 1 .. Len(calls) /\ DOMAIN calls' = 1 .. Len(calls) - 1
      BY <1>2, <3>1, LenProperties
    <3>3. QED
      BY <3>1, <3>2
  <2>3. \A p : (Settled(p)' = Settled(p)) /\ ~ InCall(p)
    BY <2>1 DEF Settled, InCall
  <2>4. CASE unsafe
    BY <2>1, <2>4 DEF ClosedSoFar
  <2>5. CASE ~ unsafe
    <3>1. Innermost.compared = ArgumentCount(Innermost.pair)
      BY <1>9, <2>5 DEF LeaveLoop
    <3>2. Settled(assignment)'
      BY <1>0, <2>3, <2>5 DEF ClosedSoFar, Settled
    <3>3. ASSUME NEW p \in visited', Comparable(p)', ~ Waiting(p)', NEW i \in 1 .. ArgumentCount(p)'
          PROVE  Settled(ArgumentPair(p, i))'
      <4>1. p \in visited /\ Comparable(p) /\ i \in 1 .. ArgumentCount(p)
        BY <1>1, <2>1, <3>3
      <4>2. CASE Waiting(p)
        <5>1. p = Innermost.pair
          BY <2>2, <3>3, <4>2 DEF Waiting, Innermost
        <5>2. Settled(ArgumentPair(p, i))
          BY <2>2, <2>3, <2>5, <3>1, <4>1, <5>1 DEF ClosedSoFar, Innermost
        <5>3. QED
          BY <1>1, <2>1, <5>2 DEF Settled
      <4>3. CASE ~ Waiting(p)
        <5>1. Settled(ArgumentPair(p, i))
          BY <2>5, <4>1, <4>3 DEF ClosedSoFar
        <5>2. QED
          BY <1>1, <2>1, <5>1 DEF Settled
      <4>4. QED
        BY <4>2, <4>3
    <3>4. ASSUME NEW k \in DOMAIN calls', NEW i \in 1 .. calls'[k].compared
          PROVE  Settled(ArgumentPair(calls[k].pair, i))'
      <4>1. Settled(ArgumentPair(calls[k].pair, i))
        BY <2>2, <2>3, <2>5, <3>4 DEF ClosedSoFar
      <4>2. (ArgumentPair(calls[k].pair, i))' = ArgumentPair(calls[k].pair, i)
        BY <1>0, <2>2, <3>4 DEF ArgumentPair
      <4>3. QED
        BY <2>1, <4>1, <4>2 DEF Settled
    <3>5. QED
      BY <2>1, <3>2, <3>3, <3>4 DEF ClosedSoFar
  <2>6. QED
    BY <2>4, <2>5
<1>10. CASE UNCHANGED vars
  BY <1>10 DEF vars, ClosedSoFar, Settled, Waiting, InCall, Comparable,
     IsNonDeferredTypeReference, ArgumentCount, ArgumentPair
<1>11. QED
  BY <1>4, <1>5, <1>6, <1>7, <1>8, <1>9, <1>10 DEF Next

\* What the invariant says of the result.
LEMMA VerdictAtReturn == VerdictInv /\ Done => (unsafe <=> AnyMeetsType)
<1> SUFFICES ASSUME VerdictInv, Done PROVE unsafe <=> AnyMeetsType
  OBVIOUS
<1>1. ASSUME unsafe PROVE AnyMeetsType
  BY <1>1 DEF VerdictInv, LooksWhereItShould, AnyMeetsType
<1>2. ASSUME ~ unsafe PROVE ~ AnyMeetsType
  <2> DEFINE S == visited \cup {<<Any, Unknown>>}
  <2>1. DOMAIN calls = {} /\ \A p : ~ InCall(p)
    BY DEF Done, InCall
  <2>2. \A p : Settled(p) <=> p \in S
    BY DEF Settled
  <2>3. ~ Comparable(<<Any, Unknown>>)
    BY ProgramsAssumption DEF VerdictInv, TypeInv, TypeOK, Comparable, IsNonDeferredTypeReference
  <2>4. S \subseteq Pairs
    BY TypesAssumption DEF VerdictInv, TypeInv, TypeOK, Pairs
  <2>5. assignment \in S
    BY <1>2, <2>1, <2>2 DEF VerdictInv, ClosedSoFar
  <2>6. ASSUME NEW p \in S, Comparable(p), NEW i \in 1 .. ArgumentCount(p)
        PROVE  ArgumentPair(p, i) \in S
    BY <1>2, <2>1, <2>2, <2>3, <2>6 DEF VerdictInv, ClosedSoFar, Waiting
  <2>7. \A p \in S : ~ Unsafe(p)
    BY DEF VerdictInv, ClosedSoFar, LetThrough, Unsafe
  <2>8. Closed(S)
    BY <2>4, <2>5, <2>6 DEF Closed
  <2>9. QED
    BY <2>7, <2>8 DEF AnyMeetsType
<1>3. QED
  BY <1>1, <1>2

\* For all programs: when the worker returns, its verdict is "unsafe" exactly if
\* every set closed under taking arguments that contains the two types has in it
\* an any that meets another type.  So the set of visited pairs, with entries for
\* calls that have not returned yet, never changes the verdict.
THEOREM VerdictIsLeastFixpoint == Spec => [](Done => (unsafe <=> AnyMeetsType))
<1>1. Init => VerdictInv
  BY TypeInit, VerdictInit DEF VerdictInv
<1>2. VerdictInv /\ [Next]_vars => VerdictInv'
  BY TypeStep, LooksStep, ClosedStep DEF VerdictInv
<1>3. QED
  BY <1>1, <1>2, VerdictAtReturn, PTL DEF Spec
-----------------------------------------------------------------------------
(* The verdict, computed.  PairsWithin[n], for n large enough, is the least *)
(* of the closed sets.                                                      *)

ArgumentPairs(p) == { ArgumentPair(p, i) : i \in 1 .. ArgumentCount(p) }
WithArguments(pairs) ==
  pairs \cup UNION { ArgumentPairs(p) : p \in { q \in pairs : Comparable(q) } }

LEMMA WithArgumentsType ==
  ASSUME types \in Programs, NEW pairs \in SUBSET Pairs
  PROVE  WithArguments(pairs) \in SUBSET Pairs
BY ArgumentType DEF WithArguments, ArgumentPairs

\* The recursive definition of PairsWithin has the meaning it is read with.
LEMMA PairsWithinUnfolds ==
  ASSUME types \in Programs, assignment \in Pairs
  PROVE  /\ PairsWithin \in [Nat -> SUBSET Pairs]
         /\ PairsWithin[0] = {assignment}
         /\ \A n \in Nat : PairsWithin[n + 1] = WithArguments(PairsWithin[n])
<1> DEFINE V == SUBSET Pairs
           F == [pairs \in V |-> [n \in Nat |-> WithArguments(pairs)]]
           Step(f, n) == IF n = 0 THEN {assignment} ELSE WithArguments(f[n - 1])
<1>1. {assignment} \in V /\ F \in [V -> [Nat -> V]]
  BY WithArgumentsType
<1>2. PICK f \in [Nat -> V] : Follows(f, {assignment}, F)
  <2> DEFINE b == {assignment}
  <2>1. b \in V
    BY <1>1
  <2> HIDE DEF V, F, b
  <2>2. \E f \in [Nat -> V] : Follows(f, b, F)
    BY <1>1, <2>1, RecursionDefines
  <2> QED BY <2>2 DEF b
<1>3. \A n \in Nat : f[n + 1] = WithArguments(f[n])
  BY <1>2 DEF Follows
<1>4. f = [n \in Nat |-> Step(f, n)]
  <2>1. ASSUME NEW n \in Nat PROVE f[n] = Step(f, n)
    <3>1. CASE n = 0
      BY <1>2, <3>1 DEF Follows
    <3>2. CASE n # 0
      <4> DEFINE m == n - 1
      <4>1. m \in Nat /\ m + 1 = n
        BY <3>2
      <4>2. f[m + 1] = WithArguments(f[m])
        BY <1>3, <4>1
      <4> QED BY <3>2, <4>1, <4>2
    <3> QED BY <3>1, <3>2
  <2> HIDE DEF Step
  <2> QED BY <1>2, <2>1
<1>5. PairsWithin = CHOOSE g : g = [n \in Nat |-> Step(g, n)]
  BY DEF PairsWithin, WithArguments, ArgumentPairs
<1>6. PairsWithin = [n \in Nat |-> Step(PairsWithin, n)]
  <2> HIDE DEF Step
  <2> QED BY <1>4, <1>5
<1> DEFINE T == { n \in Nat : PairsWithin[n] \in V }
<1>7. PairsWithin[0] = {assignment}
  BY <1>6
<1>8. ASSUME NEW n \in Nat PROVE PairsWithin[n + 1] = WithArguments(PairsWithin[n])
  <2> DEFINE m == n + 1
  <2>1. m \in Nat /\ m # 0 /\ m - 1 = n
    OBVIOUS
  <2> HIDE DEF m
  <2>2. PairsWithin[m] = WithArguments(PairsWithin[m - 1])
    BY <1>6, <2>1
  <2> QED BY <2>1, <2>2 DEF m
<1>9. Nat \subseteq T
  <2>1. 0 \in T
    BY <1>1, <1>7
  <2>2. \A n \in Nat : n \in T => n + 1 \in T
    BY <1>8, WithArgumentsType
  <2> HIDE DEF T
  <2> QED BY <2>1, <2>2, SetInduction
<1>10. PairsWithin \in [Nat -> V]
  <2>1. \A n \in Nat : PairsWithin[n] \in V
    BY <1>9
  <2> HIDE DEF V, Step
  <2> QED BY <1>6, <2>1
<1> QED BY <1>7, <1>8, <1>10

\* It only holds pairs of every closed set, ...
LEMMA PairsWithinClosed ==
  ASSUME types \in Programs, assignment \in Pairs, NEW S, Closed(S)
  PROVE  \A n \in Nat : PairsWithin[n] \subseteq S
<1> DEFINE T == { n \in Nat : PairsWithin[n] \subseteq S }
<1>1. 0 \in T
  BY PairsWithinUnfolds DEF Closed
<1>2. ASSUME NEW n \in Nat, n \in T PROVE n + 1 \in T
  <2>1. PairsWithin[n + 1] = WithArguments(PairsWithin[n])
    BY PairsWithinUnfolds
  <2>2. WithArguments(PairsWithin[n]) \subseteq S
    BY <1>2 DEF WithArguments, ArgumentPairs, Closed
  <2> QED BY <2>1, <2>2
<1>3. Nat \subseteq T
  <2> HIDE DEF T
  <2> QED BY <1>1, <1>2, SetInduction
<1> QED BY <1>3

\* ... and grows until it is one: each time it is not, another pair whose
\* arguments are compared has come in.
LEMMA PairsWithinGrows ==
  ASSUME types \in Programs, assignment \in Pairs
  PROVE  \A n \in Nat :
           WithArguments(PairsWithin[n]) # PairsWithin[n] =>
             Cardinality({ p \in PairsWithin[n] : Comparable(p) }) >= n + 1
<1> DEFINE C(n) == { p \in PairsWithin[n] : Comparable(p) }
           T == { n \in Nat : WithArguments(PairsWithin[n]) # PairsWithin[n] =>
                                Cardinality(C(n)) >= n + 1 }
<1>1. ASSUME NEW n \in Nat
      PROVE  IsFiniteSet(C(n)) /\ Cardinality(C(n)) \in Nat
  <2>1. IsFiniteSet(Pairs)
    BY FiniteAssumption, FS_Product DEF Pairs
  <2>2. C(n) \in SUBSET Pairs
    BY PairsWithinUnfolds
  <2> HIDE DEF C
  <2> QED BY <2>1, <2>2, FS_Subset, FS_CardinalityType
<1>2. 0 \in T
  <2> SUFFICES ASSUME WithArguments(PairsWithin[0]) # PairsWithin[0]
               PROVE  Cardinality(C(0)) >= 0 + 1
    OBVIOUS
  <2>1. C(0) # {}
    BY DEF WithArguments
  <2> HIDE DEF C
  <2>2. Cardinality(C(0)) # 0
    BY <1>1, <2>1, FS_EmptySet
  <2> QED BY <1>1, <2>2
<1>3. ASSUME NEW n \in Nat, n \in T PROVE n + 1 \in T
  <2> DEFINE m == n + 1
  <2>0. m \in Nat
    OBVIOUS
  <2> SUFFICES ASSUME WithArguments(PairsWithin[m]) # PairsWithin[m]
               PROVE  Cardinality(C(m)) >= m + 1
    OBVIOUS
  <2>1. PairsWithin[m] = WithArguments(PairsWithin[n])
    BY PairsWithinUnfolds
  <2> HIDE DEF m
  <2>2. C(n) \subseteq C(m)
    BY <2>1 DEF WithArguments
  <2>3. C(n) # C(m)
    <3> SUFFICES ASSUME C(n) = C(m) PROVE FALSE
      OBVIOUS
    <3>1. WithArguments(PairsWithin[m]) = PairsWithin[m]
      BY <2>1 DEF WithArguments
    <3> QED BY <3>1
  <2>4. WithArguments(PairsWithin[n]) # PairsWithin[n]
    BY <2>1, <2>3
  <2>5. Cardinality(C(n)) >= n + 1
    BY <1>3, <2>4
  <2> HIDE DEF C
  <2>6. /\ Cardinality(C(n)) <= Cardinality(C(m))
        /\ Cardinality(C(n)) # Cardinality(C(m))
    BY <1>1, <2>0, <2>2, <2>3, FS_Subset
  <2>7. Cardinality(C(n)) \in Nat /\ Cardinality(C(m)) \in Nat
    BY <1>1, <2>0
  <2> QED BY <2>5, <2>6, <2>7 DEF m
<1>4. Nat \subseteq T
  <2> HIDE DEF T
  <2> QED BY <1>2, <1>3, SetInduction
<1> QED BY <1>4

\* So PairsReached is the least closed set.
LEMMA ReachedIsLeast ==
  ASSUME types \in Programs, assignment \in Pairs
  PROVE  Closed(PairsReached) /\ \A S : Closed(S) => PairsReached \subseteq S
<1> DEFINE N == Cardinality({ p \in Pairs : Comparable(p) })
           C == { p \in PairsWithin[N] : Comparable(p) }
<1>1. IsFiniteSet({ p \in Pairs : Comparable(p) })
  <2>1. IsFiniteSet(Pairs)
    BY FiniteAssumption, FS_Product DEF Pairs
  <2> QED BY <2>1, FS_Subset
<1>2. N \in Nat
  BY <1>1, FS_CardinalityType
<1>3. PairsReached = PairsWithin[N]
  BY DEF PairsReached
<1>4. WithArguments(PairsWithin[N]) = PairsWithin[N]
  <2>1. C \in SUBSET { p \in Pairs : Comparable(p) }
    BY <1>2, PairsWithinUnfolds
  <2>2. Cardinality(C) <= N /\ Cardinality(C) \in Nat
    BY <1>1, <2>1, FS_Subset, FS_CardinalityType
  <2>3. ~ Cardinality(C) >= N + 1
    BY <1>2, <2>2
  <2> HIDE DEF N
  <2> QED BY <1>2, <2>3, PairsWithinGrows
<1> HIDE DEF N
<1>5. assignment \in PairsWithin[N]
  <2> DEFINE T == { n \in Nat : assignment \in PairsWithin[n] }
  <2>1. 0 \in T
    BY PairsWithinUnfolds
  <2>2. \A n \in Nat : n \in T => n + 1 \in T
    BY PairsWithinUnfolds DEF WithArguments
  <2>3. Nat \subseteq T
    <3> HIDE DEF T
    <3> QED BY <2>1, <2>2, SetInduction
  <2> QED BY <1>2, <2>3
<1>6. Closed(PairsWithin[N])
  <2>1. PairsWithin[N] \subseteq Pairs
    BY <1>2, PairsWithinUnfolds
  <2>2. ASSUME NEW p \in PairsWithin[N], Comparable(p), NEW i \in 1 .. ArgumentCount(p)
        PROVE  ArgumentPair(p, i) \in PairsWithin[N]
    <3>1. ArgumentPair(p, i) \in WithArguments(PairsWithin[N])
      BY <2>2 DEF WithArguments, ArgumentPairs
    <3> QED BY <1>4, <3>1
  <2> QED BY <1>5, <2>1, <2>2 DEF Closed
<1> QED BY <1>2, <1>3, <1>6, PairsWithinClosed

\* For all programs with finitely many types: when the worker returns, its verdict
\* is "unsafe" exactly if an any meets another type at some place of the two types,
\* however deep.  Leaving out pairs that have been visited, whose own answer may
\* not be known yet, never hides one.
THEOREM VerdictIsCorrect == Spec => []VerdictIsRight
<1>1. Init => VerdictInv
  BY TypeInit, VerdictInit DEF VerdictInv
<1>2. VerdictInv /\ [Next]_vars => VerdictInv'
  BY TypeStep, LooksStep, ClosedStep DEF VerdictInv
<1>3. VerdictInv => VerdictIsRight
  <2> SUFFICES ASSUME VerdictInv, Done
               PROVE  unsafe <=> \E p \in PairsReached : Unsafe(p)
    BY DEF VerdictIsRight
  <2>1. types \in Programs /\ assignment \in Pairs
    BY DEF VerdictInv, TypeInv, TypeOK
  <2>2. unsafe <=> AnyMeetsType
    BY VerdictAtReturn
  <2>3. Closed(PairsReached) /\ \A S : Closed(S) => PairsReached \subseteq S
    BY <2>1, ReachedIsLeast
  <2> QED BY <2>2, <2>3 DEF AnyMeetsType
<1>4. QED
  BY <1>1, <1>2, <1>3, PTL DEF Spec
=============================================================================
