------------------------- MODULE SingleCallsProofs -------------------------
(***************************************************************************)
(* Theorems about procedures, carried over to the specification of single  *)
(* calls that the run single_calls checks.                                 *)
(***************************************************************************)
EXTENDS SingleCalls, FiniteSetTheorems, Induction, TLAPS

-----------------------------------------------------------------------------
(* no-unsafe-argument. *)

\* Which argument and element the loops are at.
CursorInv ==
  /\ argument \in 1 .. Len(call.arguments) + 1
  /\ element \in Nat \ {0}
  /\ \/ element = 1
     \/ /\ argument <= Len(call.arguments)
        /\ UnsafeArgument!Argument.is \in {"tuple", "openTuple"}
        /\ element <= Len(UnsafeArgument!Argument.types) + 1
  /\ unsafeSpreads \subseteq DOMAIN call.arguments

\* The values passed before it.
Before == UnsafeArgument!PassedBefore(argument, element)

\* A tuple of variable length is spread before argument a.
OpenBefore(a) == \E b \in 1 .. a - 1 : call.arguments[b].is = "openTuple"

\* Which parameter the signature is at.
ParameterInv ==
  /\ paramTypes = UnsafeArgument!NewParamTypes(call.parameters)
  /\ restType = UnsafeArgument!NewRestType(call.parameters)
  /\ parameterTypeIndex \in Nat
  /\ UnsafeArgument!PlaceIsKnown(argument) =>
       parameterTypeIndex = Cardinality(Before) + (IF call.taggedTemplate THEN 1 ELSE 0)
  /\ hasConsumedArguments \in BOOLEAN
  /\ hasConsumedArguments <=> OpenBefore(argument)

\* A comparison of value v of the call with the type of its parameter.
IsRight(v, type, with) ==
  /\ with # NoType
  /\ UnsafeArgument!PlaceIsKnown(v[1]) =>
       /\ type = call.arguments[v[1]].types[v[2]]
       /\ with = UnsafeArgument!Declared(UnsafeArgument!Place(v[1], v[2]))
  /\ OpenBefore(v[1]) =>
       /\ UnsafeArgument!HasRest(call.parameters)
       /\ with = UnsafeArgument!Last(UnsafeArgument!Last(call.parameters).types)

\* A value has a parameter that it must be compared with.
HasParameter(v) ==
  /\ UnsafeArgument!PlaceIsKnown(v[1])
  /\ UnsafeArgument!Declared(UnsafeArgument!Place(v[1], v[2])) # NoType

\* What has been compared: of the values passed so far, each that has a parameter,
\* once, and rightly.
ComparedInv ==
  /\ compared \in Seq(UnsafeArgument!Range(compared))
  /\ \A k \in 1 .. Len(compared) :
       /\ compared[k].at \in Before
       /\ IsRight(compared[k].at, compared[k].type, compared[k].with)
  /\ \A j, k \in 1 .. Len(compared) : compared[j].at = compared[k].at => j = k
  /\ \A v \in Before : HasParameter(v) => \E k \in 1 .. Len(compared) : compared[k].at = v

ArgumentsInv ==
  /\ UnsafeArgument!IsCall(call) /\ IsFiniteSet(Before)
  /\ CursorInv /\ ParameterInv /\ ComparedInv

LEMMA CallParts ==
  ASSUME UnsafeArgument!IsCall(call)
  PROVE  /\ Len(call.parameters) \in Nat /\ DOMAIN call.parameters = 1 .. Len(call.parameters)
         /\ Len(call.arguments) \in Nat /\ DOMAIN call.arguments = 1 .. Len(call.arguments)
         /\ \A j \in 1 .. Len(call.parameters) :
              /\ call.parameters[j].rest \in {"no", "array", "tuple", "other"}
              /\ Len(call.parameters[j].types) \in Nat
              /\ DOMAIN call.parameters[j].types = 1 .. Len(call.parameters[j].types)
              /\ call.parameters[j].rest # "no" => j = Len(call.parameters)
              /\ call.parameters[j].rest # "tuple" => Len(call.parameters[j].types) = 1
              /\ call.parameters[j].types = << >> <=> Len(call.parameters[j].types) = 0
         /\ call.parameters = << >> <=> Len(call.parameters) = 0
         /\ \A j \in 1 .. Len(call.arguments) :
              /\ call.arguments[j].is \in
                   {"value", "any", "anyArray", "tuple", "openTuple", "other"}
              /\ Len(call.arguments[j].types) \in Nat
              /\ DOMAIN call.arguments[j].types = 1 .. Len(call.arguments[j].types)
              /\ call.arguments[j].is = "value" => Len(call.arguments[j].types) = 1
              /\ call.arguments[j].is \in {"any", "anyArray", "other"} =>
                   Len(call.arguments[j].types) = 0
         /\ call.calleeIsAny \in BOOLEAN
<1>1. ASSUME NEW s, UnsafeArgument!IsSequence(s)
      PROVE  Len(s) \in Nat /\ DOMAIN s = 1 .. Len(s) /\ (s = << >> <=> Len(s) = 0)
  BY <1>1 DEF UnsafeArgument!IsSequence
<1>2. UnsafeArgument!IsSequence(call.parameters) /\ UnsafeArgument!IsSequence(call.arguments)
  BY DEF UnsafeArgument!IsCall
<1>3. /\ Len(call.parameters) \in Nat /\ DOMAIN call.parameters = 1 .. Len(call.parameters)
      /\ Len(call.arguments) \in Nat /\ DOMAIN call.arguments = 1 .. Len(call.arguments)
      /\ call.parameters = << >> <=> Len(call.parameters) = 0
  BY <1>1, <1>2
<1>4. ASSUME NEW j \in 1 .. Len(call.parameters)
      PROVE  /\ call.parameters[j].rest \in {"no", "array", "tuple", "other"}
             /\ UnsafeArgument!IsSequence(call.parameters[j].types)
             /\ call.parameters[j].rest # "no" => j = Len(call.parameters)
             /\ call.parameters[j].rest # "tuple" => Len(call.parameters[j].types) = 1
  BY <1>3 DEF UnsafeArgument!IsCall
<1>5. ASSUME NEW j \in 1 .. Len(call.arguments)
      PROVE  /\ call.arguments[j].is \in
                  {"value", "any", "anyArray", "tuple", "openTuple", "other"}
             /\ UnsafeArgument!IsSequence(call.arguments[j].types)
             /\ call.arguments[j].is = "value" => Len(call.arguments[j].types) = 1
             /\ call.arguments[j].is \in {"any", "anyArray", "other"} =>
                  call.arguments[j].types = << >>
  BY <1>3 DEF UnsafeArgument!IsCall
<1> QED BY <1>1, <1>3, <1>4, <1>5 DEF UnsafeArgument!IsCall

\* What getNextParameterType returns.
LEMMA NextIsDeclared ==
  ASSUME UnsafeArgument!IsCall(call),
         paramTypes = UnsafeArgument!NewParamTypes(call.parameters),
         restType = UnsafeArgument!NewRestType(call.parameters),
         parameterTypeIndex \in Nat, hasConsumedArguments \in BOOLEAN
  PROVE  /\ ~ hasConsumedArguments =>
              UnsafeArgument!NextParameterType = UnsafeArgument!Declared(parameterTypeIndex)
         /\ hasConsumedArguments /\ UnsafeArgument!NextParameterType # NoType =>
              /\ UnsafeArgument!HasRest(call.parameters)
              /\ UnsafeArgument!NextParameterType =
                   UnsafeArgument!Last(UnsafeArgument!Last(call.parameters).types)
<1> DEFINE P == call.parameters
           n == Len(P)
           k == parameterTypeIndex
           next == UnsafeArgument!NextParameterType
           last == P[n]
<1>1. /\ n \in Nat /\ n \in Int /\ k \in Nat /\ k \in Int /\ (P = << >> <=> n = 0)
      /\ \A j \in 1 .. n : /\ P[j].rest \in {"no", "array", "tuple", "other"}
                           /\ P[j].rest # "no" => j = n
                           /\ P[j].rest # "tuple" => Len(P[j].types) = 1
                           /\ Len(P[j].types) \in Nat
                           /\ P[j].types = << >> <=> Len(P[j].types) = 0
  BY CallParts
<1>0. n = Len(P) /\ k = parameterTypeIndex
  OBVIOUS
<1>4. n \in Int /\ n >= 0 /\ k \in Int /\ k >= 0
  BY <1>1
<1>5. n # 0 => Len(last.types) \in Nat
  BY <1>1
<1> HIDE DEF n, k
<1>2. CASE ~ UnsafeArgument!HasRest(P)
  <2>1. restType.kind = "array" /\ restType.index = 0 /\ restType.types[1] = NoType
    BY <1>0, <1>2 DEF UnsafeArgument!NewRestType, UnsafeArgument!NoRest
  <2>2. Len(paramTypes) = n /\ \A j \in 1 .. n : paramTypes[j] = P[j].types[1]
    BY <1>0, <1>1, <1>2 DEF UnsafeArgument!NewParamTypes
  <2>3. k >= n \/ hasConsumedArguments => next = NoType
    BY <1>0, <2>1, <2>2 DEF UnsafeArgument!NextParameterType
  <2>4. k < n /\ ~ hasConsumedArguments => next = P[k + 1].types[1]
    <3>1. ASSUME k < n, ~ hasConsumedArguments PROVE next = paramTypes[k + 1]
      BY <1>0, <1>1, <2>2, <3>1 DEF UnsafeArgument!NextParameterType
    <3>2. k < n => k + 1 \in 1 .. n
      BY <1>0, <1>1
    <3> QED BY <1>0, <2>2, <3>1, <3>2
  <2>5. n # 0 => last.rest = "no"
    BY <1>0, <1>1, <1>2 DEF UnsafeArgument!HasRest, UnsafeArgument!Last
  <2>6. UnsafeArgument!Declared(k) = IF k < n THEN P[k + 1].types[1] ELSE NoType
    <3>1. CASE n = 0
      BY <1>0, <1>1, <3>1 DEF UnsafeArgument!Declared
    <3>2. CASE n # 0 /\ k < n - 1
      <4>1. k - (n - 1) < 0
        BY <1>4, <3>2
      <4> QED BY <1>0, <1>1, <3>2, <4>1 DEF UnsafeArgument!Declared
    <3>3. CASE n # 0 /\ k = n - 1
      <4>1. k - (n - 1) = 0 /\ k + 1 = n
        BY <1>4, <3>3
      <4> QED BY <1>0, <1>1, <2>5, <3>3, <4>1 DEF UnsafeArgument!Declared
    <3>4. CASE n # 0 /\ k > n - 1
      <4>1. k - (n - 1) > 0 /\ ~ k < n
        BY <1>4, <3>4
      <4> QED BY <1>0, <1>1, <2>5, <3>4, <4>1 DEF UnsafeArgument!Declared
    <3> QED BY <1>0, <1>1, <3>1, <3>2, <3>3, <3>4
  <2>7. k >= n \/ k < n
    BY <1>0, <1>1
  <2> QED BY <1>0, <1>1, <2>3, <2>4, <2>6, <2>7
<1>3. CASE UnsafeArgument!HasRest(P)
  <2>1. n # 0 /\ n \in 1 .. n /\ last.rest # "no" /\ UnsafeArgument!Last(P) = last
    BY <1>0, <1>1, <1>3 DEF UnsafeArgument!HasRest, UnsafeArgument!Last
  <2>2. restType.kind = last.rest /\ restType.index = n - 1 /\ restType.types = last.types
    BY <1>0, <1>3, <2>1 DEF UnsafeArgument!NewRestType
  <2>3. Len(paramTypes) = n - 1 /\ \A j \in 1 .. n - 1 : paramTypes[j] = P[j].types[1]
    BY <1>0, <1>1, <1>3, <2>1 DEF UnsafeArgument!NewParamTypes
  <2>4. last.rest # "tuple" => Len(last.types) = 1
    BY <1>0, <1>1, <2>1
  <2>5. UnsafeArgument!Last(last.types) = last.types[Len(last.types)]
    BY DEF UnsafeArgument!Last
  <2>6. CASE hasConsumedArguments
    <3>1. CASE last.rest # "tuple"
      BY <1>0, <1>3, <2>1, <2>2, <2>4, <2>5, <2>6, <3>1 DEF UnsafeArgument!NextParameterType
    <3>2. CASE last.rest = "tuple"
      BY <1>0, <1>3, <2>1, <2>2, <2>5, <2>6, <3>2 DEF UnsafeArgument!NextParameterType
    <3> QED BY <1>0, <2>6, <3>1, <3>2
  <2>7. CASE ~ hasConsumedArguments /\ k < n - 1
    <3>1. k - (n - 1) < 0 /\ k + 1 \in 1 .. n - 1 /\ ~ k >= n - 1
      BY <1>4, <2>7
    <3>2. next = paramTypes[k + 1]
      BY <1>0, <2>3, <2>7, <3>1 DEF UnsafeArgument!NextParameterType
    <3>3. UnsafeArgument!Declared(k) = P[k + 1].types[1]
      BY <1>0, <2>1, <3>1 DEF UnsafeArgument!Declared
    <3> QED BY <1>0, <2>3, <2>7, <3>1, <3>2, <3>3
  <2>8. CASE ~ hasConsumedArguments /\ k >= n - 1
    <3> DEFINE r == k - (n - 1)
    <3>1. r \in Nat /\ ~ r < 0 /\ k >= Len(paramTypes) /\ r = k - restType.index
      BY <1>0, <1>1, <2>1, <2>2, <2>3, <2>8
    <3>2. CASE last.rest # "tuple"
      <4>1. next = last.types[1]
        BY <1>0, <2>2, <3>1, <3>2 DEF UnsafeArgument!NextParameterType
      <4>2. UnsafeArgument!Declared(k) = UnsafeArgument!Last(last.types)
        <5>1. n # 0 /\ ~ (k - (n - 1) < 0)
          BY <2>1, <3>1
        <5> QED BY ONLY <1>0, <2>1, <3>2, <5>1 DEF UnsafeArgument!Declared, last, P
      <4> QED BY <1>0, <2>4, <2>5, <2>8, <3>2, <4>1, <4>2
    <3>3. CASE last.rest = "tuple" /\ last.types = << >>
      BY <1>0, <2>1, <2>2, <2>8, <3>1, <3>3
        DEF UnsafeArgument!Declared, UnsafeArgument!NextParameterType
    <3>4. CASE last.rest = "tuple" /\ last.types # << >> /\ r < Len(last.types)
      <4>1. next = last.types[r + 1]
        <5>1. ~ r >= Len(last.types)
          BY <1>5, <2>1, <3>1, <3>4
        <5> QED BY <1>0, <2>2, <2>8, <3>1, <3>4, <5>1 DEF UnsafeArgument!NextParameterType
      <4>2. UnsafeArgument!Declared(k) = last.types[r + 1]
        BY <1>0, <2>1, <3>1, <3>4 DEF UnsafeArgument!Declared
      <4> QED BY <1>0, <2>8, <4>1, <4>2
    <3>5. CASE last.rest = "tuple" /\ last.types # << >> /\ r >= Len(last.types)
      <4>1. next = UnsafeArgument!Last(last.types)
        BY <1>0, <2>2, <2>8, <3>1, <3>5 DEF UnsafeArgument!NextParameterType
      <4>2. ~ r < Len(last.types)
        BY <1>5, <2>1, <3>1, <3>5
      <4>3. UnsafeArgument!Declared(k) = UnsafeArgument!Last(last.types)
        BY <1>0, <2>1, <3>1, <3>5, <4>2 DEF UnsafeArgument!Declared
      <4> QED BY <1>0, <2>8, <4>1, <4>3
    <3>6. r < Len(last.types) \/ r >= Len(last.types)
      BY <1>5, <2>1, <3>1
    <3> QED BY <3>2, <3>3, <3>4, <3>5, <3>6
  <2> QED BY <1>0, <1>1, <2>6, <2>7, <2>8
<1> QED BY <1>2, <1>3

LEMMA PlaceCounts ==
  UnsafeArgument!Place(argument, element) =
    Cardinality(Before) + (IF call.taggedTemplate THEN 1 ELSE 0)
<1>1. \A S : UnsafeArgument!Cardinality(S) = Cardinality(S)
  BY DEF UnsafeArgument!Cardinality, Cardinality
<1> QED BY <1>1 DEF UnsafeArgument!Place, Before

LEMMA PassedValues ==
  ASSUME UnsafeArgument!IsCall(call)
  PROVE  /\ \A v \in UnsafeArgument!Passed :
              /\ v[1] \in 1 .. Len(call.arguments)
              /\ v[2] \in 1 .. Len(call.arguments[v[1]].types)
              /\ v = <<v[1], v[2]>>
         /\ \A a \in 1 .. Len(call.arguments) : \A e \in 1 .. Len(call.arguments[a].types) :
              <<a, e>> \in UnsafeArgument!Passed
<1>1. DOMAIN call.arguments = 1 .. Len(call.arguments)
  BY CallParts
<1>2. \A a \in 1 .. Len(call.arguments) :
        DOMAIN call.arguments[a].types = 1 .. Len(call.arguments[a].types)
  BY CallParts
<1> QED BY <1>1, <1>2 DEF UnsafeArgument!Passed

\* What depends on the call only.
LEMMA CallKept ==
  ASSUME call' = call
  PROVE  /\ UnsafeArgument!Passed' = UnsafeArgument!Passed
         /\ \A v, t, w : IsRight(v, t, w)' <=> IsRight(v, t, w)
         /\ \A v : HasParameter(v)' <=> HasParameter(v)
<1>1. UnsafeArgument!Passed' = UnsafeArgument!Passed
  BY DEF UnsafeArgument!Passed
<1>2. ASSUME NEW a, NEW e
      PROVE  UnsafeArgument!PassedBefore(a, e)' = UnsafeArgument!PassedBefore(a, e)
  BY <1>1 DEF UnsafeArgument!PassedBefore
<1>3. ASSUME NEW a, NEW e PROVE UnsafeArgument!Place(a, e)' = UnsafeArgument!Place(a, e)
  BY <1>2 DEF UnsafeArgument!Place
<1>4. ASSUME NEW n PROVE UnsafeArgument!Declared(n)' = UnsafeArgument!Declared(n)
  BY DEF UnsafeArgument!Declared
<1>5. ASSUME NEW a PROVE UnsafeArgument!PlaceIsKnown(a)' <=> UnsafeArgument!PlaceIsKnown(a)
  BY DEF UnsafeArgument!PlaceIsKnown
<1>6. ASSUME NEW a PROVE OpenBefore(a)' <=> OpenBefore(a)
  BY DEF OpenBefore
<1>7. ASSUME NEW v, NEW t, NEW w PROVE IsRight(v, t, w)' <=> IsRight(v, t, w)
  BY <1>3, <1>4, <1>5, <1>6 DEF IsRight
<1>8. ASSUME NEW v PROVE HasParameter(v)' <=> HasParameter(v)
  BY <1>3, <1>4, <1>5 DEF HasParameter
<1> QED BY <1>1, <1>7, <1>8

\* A value is looked at and the cursor is put behind it.
LEMMA ValueCompared ==
  ASSUME ArgumentsInv, ~ UnsafeArgument!Done, element <= Len(UnsafeArgument!Argument.types),
         UnsafeArgument!CompareWithNext(UnsafeArgument!Argument.types[element]),
         UNCHANGED <<call, paramTypes, restType, hasConsumedArguments>>,
         Before' = Before \cup {<<argument, element>>}
  PROVE  /\ IsFiniteSet(Before') /\ Cardinality(Before') = Cardinality(Before) + 1
         /\ Cardinality(Before) \in Nat
         /\ parameterTypeIndex' = parameterTypeIndex + 1
         /\ ComparedInv'
<1> DEFINE v == <<argument, element>>
           type == UnsafeArgument!Argument.types[element]
           next == UnsafeArgument!NextParameterType
           n == Len(compared)
<1>1. /\ argument \in 1 .. Len(call.arguments) /\ element \in Nat \ {0}
      /\ element \in 1 .. Len(call.arguments[argument].types)
  <2>1. argument \in 1 .. Len(call.arguments) /\ element \in Nat \ {0}
    BY CallParts DEF ArgumentsInv, CursorInv, UnsafeArgument!Done
  <2> QED BY <2>1, CallParts DEF ArgumentsInv, UnsafeArgument!Argument
<1>2. v \notin Before
  BY <1>1 DEF Before, UnsafeArgument!PassedBefore
<1>3. /\ IsFiniteSet(Before') /\ Cardinality(Before') = Cardinality(Before) + 1
      /\ Cardinality(Before) \in Nat
  BY <1>2, FS_AddElement, FS_CardinalityType DEF ArgumentsInv
<1>4. parameterTypeIndex' = parameterTypeIndex + 1
  BY DEF UnsafeArgument!CompareWithNext
<1>5. /\ ~ hasConsumedArguments => next = UnsafeArgument!Declared(parameterTypeIndex)
      /\ hasConsumedArguments /\ next # NoType =>
           /\ UnsafeArgument!HasRest(call.parameters)
           /\ next = UnsafeArgument!Last(UnsafeArgument!Last(call.parameters).types)
  BY NextIsDeclared DEF ArgumentsInv, ParameterInv
<1>6. UnsafeArgument!PlaceIsKnown(argument) =>
        ~ hasConsumedArguments /\ next = UnsafeArgument!Declared(UnsafeArgument!Place(argument, element))
  <2> SUFFICES ASSUME UnsafeArgument!PlaceIsKnown(argument)
               PROVE  ~ hasConsumedArguments
                      /\ next = UnsafeArgument!Declared(UnsafeArgument!Place(argument, element))
    OBVIOUS
  <2>1. ~ OpenBefore(argument)
    BY DEF UnsafeArgument!PlaceIsKnown, OpenBefore
  <2>2. ~ hasConsumedArguments
    BY <2>1 DEF ArgumentsInv, ParameterInv
  <2>3. parameterTypeIndex = UnsafeArgument!Place(argument, element)
    BY PlaceCounts DEF ArgumentsInv, ParameterInv
  <2> QED BY <1>5, <2>2, <2>3
<1>7. next # NoType => IsRight(v, type, next)
  <2> SUFFICES ASSUME next # NoType PROVE IsRight(v, type, next)
    OBVIOUS
  <2>1. v[1] = argument /\ v[2] = element
    OBVIOUS
  <2>2. type = call.arguments[argument].types[element]
    BY DEF UnsafeArgument!Argument
  <2>3. OpenBefore(argument) => hasConsumedArguments
    BY DEF ArgumentsInv, ParameterInv
  <2> HIDE DEF v, type, next
  <2> QED BY <1>5, <1>6, <2>1, <2>2, <2>3 DEF IsRight
<1>8. HasParameter(v) => next # NoType
  BY <1>6 DEF HasParameter
<1> DEFINE item == [at |-> v, type |-> type, with |-> next]
<1>9. /\ next = NoType => compared' = compared
      /\ next # NoType => compared' = Append(compared, item)
  BY DEF UnsafeArgument!CompareWithNext
<1>10. item.at = v /\ item.type = type /\ item.with = next
  OBVIOUS
<1>11. /\ \A w, t, x : IsRight(w, t, x)' <=> IsRight(w, t, x)
       /\ \A w : HasParameter(w)' <=> HasParameter(w)
  BY CallKept
<1>12. /\ compared \in Seq(UnsafeArgument!Range(compared)) /\ n \in Nat
       /\ \A k \in 1 .. n : /\ compared[k].at \in Before
                            /\ IsRight(compared[k].at, compared[k].type, compared[k].with)
       /\ \A j, k \in 1 .. n : compared[j].at = compared[k].at => j = k
       /\ \A w \in Before : HasParameter(w) => \E k \in 1 .. n : compared[k].at = w
  BY DEF ArgumentsInv, ComparedInv
<1> HIDE DEF v, type, next, item
<1>13. CASE next = NoType
  <2>1. compared' = compared /\ ~ HasParameter(v)
    BY <1>8, <1>9, <1>13
  <2>2. compared' \in Seq(UnsafeArgument!Range(compared)') /\ Len(compared') = n
    BY <1>12, <2>1 DEF UnsafeArgument!Range
  <2>3. \A k \in 1 .. n : /\ compared'[k].at \in Before'
                          /\ IsRight(compared[k].at, compared[k].type, compared[k].with)'
    BY <1>11, <1>12, <2>1
  <2>4. \A j, k \in 1 .. n : compared'[j].at = compared'[k].at => j = k
    BY <1>12, <2>1
  <2>5. \A w \in Before' : HasParameter(w)' => \E k \in 1 .. n : compared'[k].at = w
    BY <1>11, <1>12, <2>1 DEF v
  <2> QED BY <1>3, <1>4, <2>2, <2>3, <2>4, <2>5 DEF ComparedInv
<1>14. CASE next # NoType
  <2>1. /\ compared' = Append(compared, item) /\ Len(compared') = n + 1
        /\ compared'[n + 1] = item /\ \A k \in 1 .. n : compared'[k] = compared[k]
    BY <1>9, <1>12, <1>14
  <2>2. \A k \in 1 .. n + 1 : k = n + 1 \/ k \in 1 .. n
    BY <1>12
  <2>3. compared' \in Seq(UnsafeArgument!Range(compared)')
    <3> DEFINE T == UnsafeArgument!Range(compared) \cup {item}
               R == UnsafeArgument!Range(compared)'
    <3>1. compared' \in Seq(T)
      BY <1>12, <2>1
    <3>2. DOMAIN compared' = 1 .. Len(compared') /\ Len(compared') \in Nat
      BY <3>1
    <3>3. \A k \in 1 .. Len(compared') : compared'[k] \in R
      BY <3>2 DEF UnsafeArgument!Range
    <3>4. \A k \in 1 .. Len(compared') : compared'[k] = compared'[k]
      OBVIOUS
    <3> HIDE DEF R, T
    <3> QED BY <3>1, <3>2, <3>3 DEF R
  <2>4. \A k \in 1 .. n + 1 :
          /\ compared'[k].at \in Before'
          /\ IsRight(compared[k].at, compared[k].type, compared[k].with)'
    <3> SUFFICES ASSUME NEW k \in 1 .. n + 1
                 PROVE  /\ compared'[k].at \in Before'
                        /\ IsRight(compared[k].at, compared[k].type, compared[k].with)'
      OBVIOUS
    <3>1. CASE k = n + 1
      BY <1>7, <1>10, <1>11, <1>14, <2>1, <3>1 DEF v
    <3>2. CASE k \in 1 .. n
      BY <1>11, <1>12, <2>1, <3>2
    <3> QED BY <2>2, <3>1, <3>2
  <2>5. \A j, k \in 1 .. n + 1 : compared'[j].at = compared'[k].at => j = k
    <3> SUFFICES ASSUME NEW j \in 1 .. n + 1, NEW k \in 1 .. n + 1,
                        compared'[j].at = compared'[k].at
                 PROVE  j = k
      OBVIOUS
    <3>1. \A l \in 1 .. n : compared'[l].at # v
      BY <1>2, <1>12, <2>1
    <3>2. compared'[n + 1].at = v
      BY <1>10, <2>1
    <3> QED BY <1>12, <2>1, <2>2, <3>1, <3>2
  <2>6. \A w \in Before' : HasParameter(w)' => \E k \in 1 .. n + 1 : compared'[k].at = w
    <3> SUFFICES ASSUME NEW w \in Before', HasParameter(w)'
                 PROVE  \E k \in 1 .. n + 1 : compared'[k].at = w
      OBVIOUS
    <3>1. CASE w = v
      <4>1. n + 1 \in 1 .. n + 1
        BY <1>12
      <4> QED BY <1>10, <2>1, <3>1, <4>1
    <3>2. CASE w \in Before
      <4>1. PICK k \in 1 .. n : compared[k].at = w
        BY <1>11, <1>12, <3>2
      <4>2. k \in 1 .. n + 1 /\ compared'[k] = compared[k]
        BY <1>12, <2>1
      <4> QED BY <4>1, <4>2
    <3> QED BY <3>1, <3>2 DEF v
  <2> QED BY <1>3, <1>4, <2>1, <2>3, <2>4, <2>5, <2>6 DEF ComparedInv
<1> QED BY <1>13, <1>14

\* The cursor is moved without a value looked at.
LEMMA NothingCompared ==
  ASSUME ArgumentsInv, UNCHANGED <<call, compared>>, Before' = Before
  PROVE  IsFiniteSet(Before') /\ ComparedInv'
<1>1. /\ \A w, t, x : IsRight(w, t, x)' <=> IsRight(w, t, x)
      /\ \A w : HasParameter(w)' <=> HasParameter(w)
  BY CallKept
<1>2. UnsafeArgument!Range(compared)' = UnsafeArgument!Range(compared)
  BY DEF UnsafeArgument!Range
<1> QED BY <1>1, <1>2 DEF ArgumentsInv, ComparedInv

\* The cursor is within the arguments.
LEMMA ArgumentIsOne ==
  ASSUME ArgumentsInv, ~ UnsafeArgument!Done
  PROVE  /\ Len(call.arguments) \in Nat /\ argument \in 1 .. Len(call.arguments)
         /\ UnsafeArgument!Argument = call.arguments[argument]
         /\ UnsafeArgument!Argument.is \in
              {"value", "any", "anyArray", "tuple", "openTuple", "other"}
         /\ Len(UnsafeArgument!Argument.types) \in Nat
         /\ UnsafeArgument!Argument.is = "value" => Len(UnsafeArgument!Argument.types) = 1
         /\ UnsafeArgument!Argument.is \in {"any", "anyArray", "other"} =>
              Len(UnsafeArgument!Argument.types) = 0
         /\ element \in Nat \ {0}
         /\ element <= Len(UnsafeArgument!Argument.types) + 1
         /\ UnsafeArgument!Argument.is \notin {"tuple", "openTuple"} => element = 1
<1>1. argument \in 1 .. Len(call.arguments) /\ Len(call.arguments) \in Nat
  BY CallParts DEF ArgumentsInv, CursorInv, UnsafeArgument!Done
<1>2. Len(call.arguments[argument].types) \in Nat
  BY <1>1, CallParts DEF ArgumentsInv
<1>3. /\ element \in Nat \ {0}
      /\ element = 1 \/ /\ UnsafeArgument!Argument.is \in {"tuple", "openTuple"}
                        /\ element <= Len(call.arguments[argument].types) + 1
  BY DEF ArgumentsInv, CursorInv, UnsafeArgument!Argument
<1> QED BY <1>1, <1>2, <1>3, CallParts DEF ArgumentsInv, UnsafeArgument!Argument

\* The cursor leaves an argument all of whose values have been looked at.
LEMMA ArgumentLeft ==
  ASSUME ArgumentsInv, ~ UnsafeArgument!Done, UnsafeArgument!NextArgument, call' = call
  PROVE  /\ element > Len(UnsafeArgument!Argument.types) => Before' = Before
         /\ element = Len(UnsafeArgument!Argument.types) =>
              Before' = Before \cup {<<argument, element>>}
         /\ UnsafeArgument!PlaceIsKnown(argument)' <=>
              UnsafeArgument!PlaceIsKnown(argument) /\ UnsafeArgument!Argument.is \in {"value", "tuple"}
         /\ OpenBefore(argument)' <=>
              OpenBefore(argument) \/ UnsafeArgument!Argument.is = "openTuple"
         /\ unsafeSpreads' \subseteq unsafeSpreads \cup {argument} => CursorInv'
<1> DEFINE n == Len(UnsafeArgument!Argument.types)
<1>1. /\ Len(call.arguments) \in Nat /\ argument \in 1 .. Len(call.arguments)
      /\ argument' = argument + 1 /\ element' = 1
      /\ n \in Nat /\ element \in Nat \ {0} /\ n = Len(call.arguments[argument].types)
      /\ UnsafeArgument!Argument = call.arguments[argument]
  BY ArgumentIsOne DEF UnsafeArgument!NextArgument
<1> HIDE DEF n
<1>2. /\ UnsafeArgument!Passed' = UnsafeArgument!Passed
      /\ \A v \in UnsafeArgument!Passed :
           /\ v[1] \in 1 .. Len(call.arguments)
           /\ v[2] \in 1 .. Len(call.arguments[v[1]].types)
           /\ v = <<v[1], v[2]>>
      /\ \A a \in 1 .. Len(call.arguments) : \A e \in 1 .. Len(call.arguments[a].types) :
           <<a, e>> \in UnsafeArgument!Passed
  BY CallKept, PassedValues DEF ArgumentsInv
<1>3. Before = { v \in UnsafeArgument!Passed : v[1] < argument \/ (v[1] = argument /\ v[2] < element) }
  BY DEF Before, UnsafeArgument!PassedBefore
<1>4. Before' = { v \in UnsafeArgument!Passed : v[1] < argument + 1 \/ (v[1] = argument + 1 /\ v[2] < 1) }
  BY <1>1, <1>2 DEF Before, UnsafeArgument!PassedBefore
<1>5. ASSUME NEW v \in UnsafeArgument!Passed
      PROVE  v \in Before' <=> v[1] <= argument
  <2>1. v[1] \in Int /\ v[2] \in Int /\ v[2] >= 1
    <3>1. v[1] \in 1 .. Len(call.arguments) /\ v[2] \in 1 .. Len(call.arguments[v[1]].types)
      BY <1>2
    <3> QED BY <3>1
  <2> QED BY <1>1, <1>4, <2>1
<1>6. ASSUME NEW v \in UnsafeArgument!Passed
      PROVE  /\ v[1] \in Int /\ v[2] \in Int /\ (v[1] = argument => v[2] <= n)
             /\ v = <<v[1], v[2]>>
             /\ v \in Before <=> v[1] < argument \/ (v[1] = argument /\ v[2] < element)
  <2>1. v[1] \in 1 .. Len(call.arguments) /\ v[2] \in 1 .. Len(call.arguments[v[1]].types)
        /\ v = <<v[1], v[2]>>
    BY <1>2
  <2>2. v[1] = argument => v[2] \in 1 .. n
    BY <1>1, <2>1
  <2>3. v \in Before <=> v[1] < argument \/ (v[1] = argument /\ v[2] < element)
    BY <1>3
  <2> QED BY <2>1, <2>2, <2>3
<1>7. Before \subseteq UnsafeArgument!Passed /\ Before' \subseteq UnsafeArgument!Passed
  BY <1>3, <1>4
<1>8. ASSUME element > n PROVE Before' = Before
  <2>1. ASSUME NEW v \in UnsafeArgument!Passed PROVE v \in Before' <=> v \in Before
    BY <1>1, <1>5, <1>6, <1>8
  <2> QED BY <1>7, <2>1
<1>9. ASSUME element = n PROVE Before' = Before \cup {<<argument, element>>}
  <2>1. <<argument, element>> \in UnsafeArgument!Passed
    <3>1. element \in 1 .. Len(call.arguments[argument].types)
      BY <1>1, <1>9
    <3> QED BY <1>1, <1>2, <3>1
  <2>2. ASSUME NEW v \in UnsafeArgument!Passed
        PROVE  v \in Before' <=> v \in Before \/ v = <<argument, element>>
    <3>1. v = <<argument, element>> <=> v[1] = argument /\ v[2] = element
      BY <1>6
    <3> QED BY <1>1, <1>5, <1>6, <1>9, <3>1
  <2> QED BY <1>7, <2>1, <2>2
<1>10. UnsafeArgument!PlaceIsKnown(argument)' <=>
         UnsafeArgument!PlaceIsKnown(argument) /\ UnsafeArgument!Argument.is \in {"value", "tuple"}
  <2>1. \A b : b \in 1 .. (argument + 1) - 1 <=> b \in 1 .. argument - 1 \/ b = argument
    BY <1>1
  <2> QED BY <1>1, <2>1 DEF UnsafeArgument!PlaceIsKnown
<1>11. OpenBefore(argument)' <=> OpenBefore(argument) \/ UnsafeArgument!Argument.is = "openTuple"
  <2>1. \A b : b \in 1 .. (argument + 1) - 1 <=> b \in 1 .. argument - 1 \/ b = argument
    BY <1>1
  <2> QED BY <1>1, <2>1 DEF OpenBefore
<1>12. ASSUME unsafeSpreads' \subseteq unsafeSpreads \cup {argument} PROVE CursorInv'
  <2>1. argument' \in 1 .. Len(call.arguments) + 1 /\ element' \in Nat \ {0} /\ element' = 1
    BY <1>1
  <2>2. unsafeSpreads' \subseteq DOMAIN call.arguments
    BY <1>1, <1>12, CallParts DEF ArgumentsInv, CursorInv
  <2> QED BY <2>1, <2>2 DEF CursorInv
<1> QED BY <1>8, <1>9, <1>10, <1>11, <1>12 DEF n

LEMMA ValueStep ==
  ASSUME ArgumentsInv, UnsafeArgument!Value
  PROVE  ArgumentsInv'
<1>1. /\ ~ UnsafeArgument!Done /\ UnsafeArgument!Argument.is = "value"
      /\ UnsafeArgument!CompareWithNext(UnsafeArgument!Argument.types[1])
      /\ UnsafeArgument!NextArgument
      /\ UNCHANGED <<call, paramTypes, restType, hasConsumedArguments, unsafeSpreads>>
  BY DEF UnsafeArgument!Value
<1>2. element = 1 /\ Len(UnsafeArgument!Argument.types) = 1
  BY <1>1, ArgumentIsOne
<1>3. /\ Before' = Before \cup {<<argument, element>>} /\ CursorInv'
      /\ UnsafeArgument!PlaceIsKnown(argument)' => UnsafeArgument!PlaceIsKnown(argument)
      /\ OpenBefore(argument)' <=> OpenBefore(argument)
  BY <1>1, <1>2, ArgumentLeft
<1>4. /\ IsFiniteSet(Before') /\ Cardinality(Before') = Cardinality(Before) + 1
      /\ Cardinality(Before) \in Nat
      /\ parameterTypeIndex' = parameterTypeIndex + 1
      /\ ComparedInv'
  BY <1>1, <1>2, <1>3, ValueCompared
<1>5. ParameterInv'
  BY <1>1, <1>3, <1>4 DEF ArgumentsInv, ParameterInv
<1> QED BY <1>1, <1>3, <1>4, <1>5 DEF ArgumentsInv, UnsafeArgument!IsCall

LEMMA SpreadOfUnknownStep ==
  ASSUME ArgumentsInv, UnsafeArgument!SpreadOfUnknown
  PROVE  ArgumentsInv'
<1>1. /\ ~ UnsafeArgument!Done /\ UnsafeArgument!Argument.is \in {"any", "anyArray", "other"}
      /\ unsafeSpreads' \subseteq unsafeSpreads \cup {argument}
      /\ UnsafeArgument!NextArgument
      /\ UNCHANGED <<call, paramTypes, restType, parameterTypeIndex, hasConsumedArguments, compared>>
  BY DEF UnsafeArgument!SpreadOfUnknown, UnsafeArgument!signatureVars
<1>2. element > Len(UnsafeArgument!Argument.types)
  BY <1>1, ArgumentIsOne
<1>3. /\ Before' = Before /\ CursorInv'
      /\ ~ UnsafeArgument!PlaceIsKnown(argument)'
      /\ OpenBefore(argument)' <=> OpenBefore(argument)
  BY <1>1, <1>2, ArgumentLeft
<1>4. IsFiniteSet(Before') /\ ComparedInv'
  BY <1>1, <1>3, NothingCompared
<1>5. ParameterInv'
  BY <1>1, <1>3 DEF ArgumentsInv, ParameterInv
<1> QED BY <1>1, <1>3, <1>4, <1>5 DEF ArgumentsInv, UnsafeArgument!IsCall

LEMMA TupleElementStep ==
  ASSUME ArgumentsInv, UnsafeArgument!TupleElement
  PROVE  ArgumentsInv'
<1>1. /\ ~ UnsafeArgument!Done /\ UnsafeArgument!Argument.is \in {"tuple", "openTuple"}
      /\ element <= Len(UnsafeArgument!Argument.types)
      /\ UnsafeArgument!CompareWithNext(UnsafeArgument!Argument.types[element])
      /\ element' = element + 1
      /\ UNCHANGED <<call, paramTypes, restType, hasConsumedArguments, argument, unsafeSpreads>>
  BY DEF UnsafeArgument!TupleElement
<1>2. /\ Len(call.arguments) \in Nat /\ argument \in 1 .. Len(call.arguments)
      /\ UnsafeArgument!Argument = call.arguments[argument]
      /\ Len(UnsafeArgument!Argument.types) \in Nat /\ element \in Nat \ {0}
  BY <1>1, ArgumentIsOne
<1>3. Before' = Before \cup {<<argument, element>>}
  <2>1. /\ UnsafeArgument!Passed' = UnsafeArgument!Passed
        /\ \A v \in UnsafeArgument!Passed :
             /\ v[1] \in 1 .. Len(call.arguments)
             /\ v[2] \in 1 .. Len(call.arguments[v[1]].types)
             /\ v = <<v[1], v[2]>>
        /\ \A a \in 1 .. Len(call.arguments) : \A e \in 1 .. Len(call.arguments[a].types) :
             <<a, e>> \in UnsafeArgument!Passed
    BY <1>1, CallKept, PassedValues DEF ArgumentsInv
  <2>2. <<argument, element>> \in UnsafeArgument!Passed
    <3>1. element \in 1 .. Len(call.arguments[argument].types)
      BY <1>1, <1>2
    <3> QED BY <1>2, <2>1, <3>1
  <2>3. Before = { v \in UnsafeArgument!Passed : v[1] < argument \/ (v[1] = argument /\ v[2] < element) }
    BY DEF Before, UnsafeArgument!PassedBefore
  <2>4. Before' = { v \in UnsafeArgument!Passed : v[1] < argument \/ (v[1] = argument /\ v[2] < element + 1) }
    BY <1>1, <2>1 DEF Before, UnsafeArgument!PassedBefore
  <2>5. ASSUME NEW v \in UnsafeArgument!Passed
        PROVE  v \in Before' <=> v \in Before \/ v = <<argument, element>>
    <3>1. v[1] \in Int /\ v[2] \in Int /\ v = <<v[1], v[2]>>
      <4>1. v[1] \in 1 .. Len(call.arguments) /\ v[2] \in 1 .. Len(call.arguments[v[1]].types)
            /\ v = <<v[1], v[2]>>
        BY <2>1
      <4> QED BY <4>1
    <3>2. v = <<argument, element>> <=> v[1] = argument /\ v[2] = element
      BY <3>1
    <3> QED BY <1>2, <2>3, <2>4, <3>1, <3>2
  <2> QED BY <2>2, <2>3, <2>4, <2>5
<1>4. /\ IsFiniteSet(Before') /\ Cardinality(Before') = Cardinality(Before) + 1
      /\ Cardinality(Before) \in Nat
      /\ parameterTypeIndex' = parameterTypeIndex + 1
      /\ ComparedInv'
  BY <1>1, <1>3, ValueCompared
<1>5. ParameterInv'
  <2>1. /\ UnsafeArgument!PlaceIsKnown(argument)' <=> UnsafeArgument!PlaceIsKnown(argument)
        /\ OpenBefore(argument)' <=> OpenBefore(argument)
    BY <1>1 DEF UnsafeArgument!PlaceIsKnown, OpenBefore
  <2> QED BY <1>1, <1>4, <2>1 DEF ArgumentsInv, ParameterInv
<1>6. CursorInv'
  <2>1. element' \in Nat \ {0} /\ element' <= Len(UnsafeArgument!Argument.types) + 1
    BY <1>1, <1>2
  <2> QED BY <1>1, <1>2, <2>1 DEF ArgumentsInv, CursorInv, UnsafeArgument!Argument
<1> QED BY <1>1, <1>4, <1>5, <1>6 DEF ArgumentsInv, UnsafeArgument!IsCall

LEMMA EndOfTupleStep ==
  ASSUME ArgumentsInv, UnsafeArgument!EndOfTuple
  PROVE  ArgumentsInv'
<1>1. /\ ~ UnsafeArgument!Done /\ UnsafeArgument!Argument.is \in {"tuple", "openTuple"}
      /\ element > Len(UnsafeArgument!Argument.types)
      /\ UnsafeArgument!NextArgument
      /\ UNCHANGED <<call, paramTypes, restType, parameterTypeIndex, compared, unsafeSpreads>>
  BY DEF UnsafeArgument!EndOfTuple
<1>2. hasConsumedArguments' = (hasConsumedArguments \/ UnsafeArgument!Argument.is = "openTuple")
  BY DEF UnsafeArgument!EndOfTuple
<1>3. /\ Before' = Before /\ CursorInv'
      /\ UnsafeArgument!PlaceIsKnown(argument)' => UnsafeArgument!PlaceIsKnown(argument)
      /\ OpenBefore(argument)' <=>
           OpenBefore(argument) \/ UnsafeArgument!Argument.is = "openTuple"
  BY <1>1, ArgumentLeft
<1>4. IsFiniteSet(Before') /\ ComparedInv'
  BY <1>1, <1>3, NothingCompared
<1>5. ParameterInv'
  <2>1. hasConsumedArguments' \in BOOLEAN /\ (hasConsumedArguments' <=> OpenBefore(argument)')
    BY <1>2, <1>3 DEF ArgumentsInv, ParameterInv
  <2> QED BY <1>1, <1>3, <2>1 DEF ArgumentsInv, ParameterInv
<1> QED BY <1>1, <1>3, <1>4, <1>5 DEF ArgumentsInv, UnsafeArgument!IsCall

LEMMA ArgumentsStep ==
  ASSUME ArgumentsInv, UnsafeArgument!Next
  PROVE  ArgumentsInv'
BY ValueStep, SpreadOfUnknownStep, TupleElementStep, EndOfTupleStep DEF UnsafeArgument!Next

LEMMA ArgumentsStutter ==
  ASSUME ArgumentsInv, UNCHANGED argumentVars
  PROVE  ArgumentsInv'
<1>1. /\ UNCHANGED <<call, paramTypes, restType, parameterTypeIndex, hasConsumedArguments, argument,
                     element, compared, unsafeSpreads>>
  BY DEF argumentVars
<1>2. Before' = Before
  BY <1>1, CallKept DEF Before, UnsafeArgument!PassedBefore
<1>3. IsFiniteSet(Before') /\ ComparedInv'
  BY <1>1, <1>2, NothingCompared
<1>4. CursorInv' /\ ParameterInv'
  <2>1. /\ UnsafeArgument!PlaceIsKnown(argument)' <=> UnsafeArgument!PlaceIsKnown(argument)
        /\ OpenBefore(argument)' <=> OpenBefore(argument)
    BY <1>1 DEF UnsafeArgument!PlaceIsKnown, OpenBefore
  <2> QED
    BY <1>1, <1>2, <2>1 DEF ArgumentsInv, CursorInv, ParameterInv, UnsafeArgument!Argument
<1> QED BY <1>1, <1>3, <1>4 DEF ArgumentsInv, UnsafeArgument!IsCall

LEMMA ArgumentsInit ==
  ASSUME UnsafeArgument!Init
  PROVE  ArgumentsInv
<1>1. /\ UnsafeArgument!IsCall(call) /\ argument = 1 /\ element = 1
      /\ paramTypes = UnsafeArgument!NewParamTypes(call.parameters)
      /\ restType = UnsafeArgument!NewRestType(call.parameters)
      /\ parameterTypeIndex = (IF call.taggedTemplate THEN 1 ELSE 0)
      /\ hasConsumedArguments = FALSE
      /\ compared = << >> /\ unsafeSpreads = {}
  BY CallsAssumption DEF UnsafeArgument!Init, UnsafeArgument!CallsAssumption
<1>2. Before = {}
  <2>1. \A v \in UnsafeArgument!Passed : v[1] \in 1 .. Len(call.arguments)
                                         /\ v[2] \in 1 .. Len(call.arguments[v[1]].types)
    BY <1>1, PassedValues
  <2>2. \A v \in UnsafeArgument!Passed : ~ (v[1] < 1) /\ ~ (v[2] < 1)
    BY <2>1
  <2> QED BY <1>1, <2>2 DEF Before, UnsafeArgument!PassedBefore
<1>3. IsFiniteSet(Before) /\ Cardinality(Before) = 0
  BY <1>2, FS_EmptySet
<1>4. CursorInv
  BY <1>1, CallParts DEF CursorInv
<1>5. ParameterInv
  <2>1. ~ OpenBefore(argument)
    BY <1>1 DEF OpenBefore
  <2>2. hasConsumedArguments \in BOOLEAN /\ (hasConsumedArguments <=> OpenBefore(argument))
    BY ONLY <1>1, <2>1
  <2>3. /\ parameterTypeIndex \in Nat
        /\ parameterTypeIndex = Cardinality(Before) + (IF call.taggedTemplate THEN 1 ELSE 0)
    BY ONLY <1>1, <1>3
  <2> QED BY <1>1, <2>2, <2>3 DEF ParameterInv
<1>6. ComparedInv
  <2>1. Len(compared) = 0 /\ compared \in Seq(UnsafeArgument!Range(compared))
    BY <1>1
  <2>2. \A k : k \notin 1 .. 0
    OBVIOUS
  <2> QED BY <1>2, <2>1, <2>2 DEF ComparedInv
<1> QED BY <1>1, <1>3, <1>4, <1>5, <1>6 DEF ArgumentsInv

LEMMA ArgumentsTyped ==
  ASSUME ArgumentsInv
  PROVE  UnsafeArgument!TypeOK
<1> DEFINE P == call.parameters
           n == Len(P)
           T == UNION { UnsafeArgument!Range(p.types) : p \in UnsafeArgument!Range(P) }
<1>1. /\ n \in Nat /\ DOMAIN P = 1 .. n /\ (P = << >> <=> n = 0)
      /\ \A j \in 1 .. n : /\ P[j].rest \in {"no", "array", "tuple", "other"}
                           /\ P[j].rest # "no" => j = n
                           /\ P[j].rest # "tuple" => Len(P[j].types) = 1
                           /\ DOMAIN P[j].types = 1 .. Len(P[j].types)
  BY CallParts DEF ArgumentsInv
<1>2. UnsafeArgument!Last(P) = P[n]
  BY DEF UnsafeArgument!Last
<1>3. \A j \in 1 .. n : P[j].rest = "no" => P[j].types[1] \in T
  <2> SUFFICES ASSUME NEW j \in 1 .. n, P[j].rest = "no" PROVE P[j].types[1] \in T
    OBVIOUS
  <2>1. 1 \in DOMAIN P[j].types
    BY <1>1
  <2>2. P[j].types[1] \in UnsafeArgument!Range(P[j].types)
    BY <2>1 DEF UnsafeArgument!Range
  <2>3. P[j] \in UnsafeArgument!Range(P)
    BY <1>1 DEF UnsafeArgument!Range
  <2> QED BY <2>2, <2>3
<1> DEFINE count == IF UnsafeArgument!HasRest(P) THEN n - 1 ELSE n
<1>4. count \in Nat /\ \A j \in 1 .. count : j \in 1 .. n /\ P[j].rest = "no"
  <2>1. CASE UnsafeArgument!HasRest(P)
    <3>1. n # 0
      BY <1>1, <2>1 DEF UnsafeArgument!HasRest
    <3>2. \A j \in 1 .. n - 1 : j \in 1 .. n /\ j # n
      BY <1>1
    <3> QED BY <1>1, <2>1, <3>1, <3>2
  <2>2. CASE ~ UnsafeArgument!HasRest(P)
    <3>1. n # 0 => P[n].rest = "no"
      BY <1>1, <1>2, <2>2 DEF UnsafeArgument!HasRest
    <3>2. \A j \in 1 .. n : n # 0
      BY <1>1
    <3> QED BY <1>1, <2>2, <3>1, <3>2
  <2> QED BY <2>1, <2>2
<1>5. paramTypes = [j \in 1 .. count |-> P[j].types[1]]
  BY DEF ArgumentsInv, ParameterInv, UnsafeArgument!NewParamTypes
<1> HIDE DEF T, count
<1>6. paramTypes \in Seq(T)
  BY <1>3, <1>4, <1>5
<1>7. restType.kind \in {"array", "tuple", "other"} /\ restType.index \in Nat
  <2>1. CASE UnsafeArgument!HasRest(P)
    <3>1. n # 0 /\ P[n].rest # "no"
      BY <1>1, <1>2, <2>1 DEF UnsafeArgument!HasRest
    <3>2. n \in 1 .. n /\ n - 1 \in Nat
      BY <1>1, <3>1
    <3>3. restType.kind = P[n].rest /\ restType.index = n - 1
      BY <1>2, <2>1 DEF ArgumentsInv, ParameterInv, UnsafeArgument!NewRestType
    <3> QED BY <1>1, <3>1, <3>2, <3>3
  <2>2. CASE ~ UnsafeArgument!HasRest(P)
    BY <2>2 DEF ArgumentsInv, ParameterInv, UnsafeArgument!NewRestType, UnsafeArgument!NoRest
  <2> QED BY <2>1, <2>2
<1>8. \A k \in DOMAIN compared :
        compared[k].at \in UnsafeArgument!Passed /\ compared[k].with # NoType
  <2>1. DOMAIN compared = 1 .. Len(compared)
    BY DEF ArgumentsInv, ComparedInv
  <2>2. Before \subseteq UnsafeArgument!Passed
    BY DEF Before, UnsafeArgument!PassedBefore
  <2> QED BY <2>1, <2>2 DEF ArgumentsInv, ComparedInv, IsRight
<1>9. /\ UnsafeArgument!IsCall(call) /\ parameterTypeIndex \in Nat
      /\ hasConsumedArguments \in BOOLEAN
      /\ argument \in 1 .. Len(call.arguments) + 1 /\ element \in Nat \ {0}
      /\ unsafeSpreads \subseteq DOMAIN call.arguments
  BY DEF ArgumentsInv, CursorInv, ParameterInv
<1> QED BY <1>6, <1>7, <1>8, <1>9 DEF UnsafeArgument!TypeOK, T

\* At the end all values are before the cursor.
LEMMA EachIsCompared ==
  ASSUME ArgumentsInv
  PROVE  UnsafeArgument!EachWithItsOwnParameter
<1> SUFFICES ASSUME UnsafeArgument!Done, ~ call.calleeIsAny
             PROVE  /\ UnsafeArgument!IsInjective(compared)
                    /\ \A v \in UnsafeArgument!Passed :
                         UnsafeArgument!PlaceIsKnown(v[1]) =>
                           UnsafeArgument!ComparedAt(v[1], v[2]) =
                             IF UnsafeArgument!Declared(UnsafeArgument!Place(v[1], v[2])) = NoType THEN {}
                             ELSE {<<call.arguments[v[1]].types[v[2]],
                                     UnsafeArgument!Declared(UnsafeArgument!Place(v[1], v[2]))>>}
  BY DEF UnsafeArgument!EachWithItsOwnParameter
<1> DEFINE n == Len(compared)
<1>1. /\ DOMAIN compared = 1 .. n
      /\ \A k \in 1 .. n : IsRight(compared[k].at, compared[k].type, compared[k].with)
      /\ \A j, k \in 1 .. n : compared[j].at = compared[k].at => j = k
      /\ \A v \in Before : HasParameter(v) => \E k \in 1 .. n : compared[k].at = v
  BY DEF ArgumentsInv, ComparedInv
<1> HIDE DEF n
<1>2. UnsafeArgument!IsInjective(compared)
  BY <1>1 DEF UnsafeArgument!IsInjective
<1>3. ASSUME NEW v \in UnsafeArgument!Passed PROVE v \in Before /\ v = <<v[1], v[2]>>
  <2>1. argument > Len(call.arguments) /\ argument \in Int /\ Len(call.arguments) \in Int
    BY CallParts DEF ArgumentsInv, CursorInv, UnsafeArgument!Done
  <2>2. v[1] \in 1 .. Len(call.arguments) /\ v = <<v[1], v[2]>>
    BY PassedValues DEF ArgumentsInv
  <2>3. v[1] < argument
    BY <2>1, <2>2
  <2> QED BY <2>2, <2>3 DEF Before, UnsafeArgument!PassedBefore
<1>4. ASSUME NEW v \in UnsafeArgument!Passed, UnsafeArgument!PlaceIsKnown(v[1])
      PROVE  UnsafeArgument!ComparedAt(v[1], v[2]) =
               IF UnsafeArgument!Declared(UnsafeArgument!Place(v[1], v[2])) = NoType THEN {}
               ELSE {<<call.arguments[v[1]].types[v[2]],
                       UnsafeArgument!Declared(UnsafeArgument!Place(v[1], v[2]))>>}
  <2> DEFINE with == UnsafeArgument!Declared(UnsafeArgument!Place(v[1], v[2]))
             type == call.arguments[v[1]].types[v[2]]
             here == UnsafeArgument!ComparedAt(v[1], v[2])
  <2>1. here = { <<compared[k].type, compared[k].with>> : k \in { j \in 1 .. n : compared[j].at = v } }
    BY <1>1, <1>3 DEF UnsafeArgument!ComparedAt, UnsafeArgument!Range
  <2>2. ASSUME NEW k \in 1 .. n, compared[k].at = v
        PROVE  compared[k].type = type /\ compared[k].with = with /\ with # NoType
    BY <1>1, <1>4, <2>2 DEF IsRight
  <2>3. with # NoType => \E k \in 1 .. n : compared[k].at = v
    BY <1>1, <1>3, <1>4 DEF HasParameter
  <2> HIDE DEF with, type, here
  <2>4. CASE with = NoType
    BY <2>1, <2>2, <2>4 DEF with, here
  <2>5. CASE with # NoType
    <3>1. here = {<<type, with>>}
      BY <2>1, <2>2, <2>3, <2>5
    <3> QED BY <2>5, <3>1 DEF with, type, here
  <2> QED BY <2>4, <2>5
<1> QED BY <1>2, <1>4

LEMMA OnlyRestIsCompared ==
  ASSUME ArgumentsInv
  PROVE  UnsafeArgument!OnlyRestAfterOpenTuple
<1>1. /\ DOMAIN compared = 1 .. Len(compared)
      /\ \A k \in 1 .. Len(compared) :
           IsRight(compared[k].at, compared[k].type, compared[k].with)
  BY DEF ArgumentsInv, ComparedInv
<1> QED BY <1>1 DEF IsRight, OpenBefore, UnsafeArgument!OnlyRestAfterOpenTuple

\* no-unsafe-argument compares every value with the type declared for its place, and what
\* follows a tuple of variable length with the rest parameter: for any arguments, and any
\* parameters.
THEOREM ArgumentsAreRight == CallsSpec => []ArgumentsMeetTheirParameters
<1> DEFINE Inv == procedure = "no-unsafe-argument" => ArgumentsInv
<1>1. CallsInit => Inv
  BY ArgumentsInit DEF CallsInit
<1>2. Inv /\ [CallsNext]_allVars => Inv'
  <2> SUFFICES ASSUME Inv, [CallsNext]_allVars, procedure' = "no-unsafe-argument"
               PROVE  ArgumentsInv'
    OBVIOUS
  <2>1. CASE CheckArguments
    BY <2>1, ArgumentsStep DEF CheckArguments
  <2>2. CASE ApplyRuleFixes \/ PrintDiagnostic \/ AskOverlay \/ CallForEntries
    BY <2>2 DEF ApplyRuleFixes, PrintDiagnostic, AskOverlay, CallForEntries
  <2>3. CASE UNCHANGED allVars
    <3>1. UNCHANGED argumentVars /\ procedure' = procedure
      BY <2>3 DEF allVars
    <3> QED BY <3>1, ArgumentsStutter
  <2> QED BY <2>1, <2>2, <2>3 DEF CallsNext
<1>3. Inv => ArgumentsMeetTheirParameters
  BY ArgumentsTyped, EachIsCompared, OnlyRestIsCompared DEF ArgumentsMeetTheirParameters
<1> HIDE DEF Inv
<1> QED BY <1>1, <1>2, <1>3, PTL DEF CallsSpec

-----------------------------------------------------------------------------
(* ApplyRuleFixes. *)

\* RuleFixes with its theorems.
Fixer == INSTANCE RuleFixesProofs WITH Texts <- FixTexts, pc <- fixer, applied <- appliedFixes

LEMMA FixerInputs == Fixer!InputsAssumption
<1>1. RuleFixes!InputsAssumption
  BY FixesAssumption
<1> QED
  BY <1>1 DEF RuleFixes!InputsAssumption, RuleFixes!ProperInput, RuleFixes!TextsToldApart,
       RuleFixes!Fix, RuleFixes!Disjoint, RuleFixes!IsFiniteSet,
       Fixer!InputsAssumption, Fixer!ProperInput, Fixer!TextsToldApart,
       Fixer!Fix, Fixer!Disjoint, Fixer!IsFiniteSet

\* The two instances of RuleFixes, here and with its theorems, are the same.
LEMMA SameFixer ==
  /\ RuleFixes!Init => Fixer!Init
  /\ RuleFixes!Next => Fixer!Next
<1>1. RuleFixes!Init => Fixer!Init
  BY DEF RuleFixes!Init, Fixer!Init
<1>2. RuleFixes!Partition => Fixer!Partition
  BY DEF RuleFixes!Partition, RuleFixes!Diagnostics, RuleFixes!InOrder, RuleFixes!SortedFixes,
       RuleFixes!SortedDiagnostics, RuleFixes!FixLess, RuleFixes!DiagnosticLess,
       RuleFixes!SetToSeqs, RuleFixes!Cardinality, RuleFixes!Last,
       Fixer!Partition, Fixer!Diagnostics, Fixer!InOrder, Fixer!SortedFixes,
       Fixer!SortedDiagnostics, Fixer!FixLess, Fixer!DiagnosticLess,
       Fixer!SetToSeqs, Fixer!Cardinality, Fixer!Last
<1>3. RuleFixes!Skip => Fixer!Skip
  BY DEF RuleFixes!Skip, RuleFixes!Overlaps, Fixer!Skip, Fixer!Overlaps
<1>4. RuleFixes!StartApplying => Fixer!StartApplying
  BY DEF RuleFixes!StartApplying, RuleFixes!Overlaps, Fixer!StartApplying, Fixer!Overlaps
<1>5. RuleFixes!ApplyFix => Fixer!ApplyFix
  BY DEF RuleFixes!ApplyFix, RuleFixes!Slice, Fixer!ApplyFix, Fixer!Slice
<1>6. RuleFixes!NextDiagnostic => Fixer!NextDiagnostic
  BY DEF RuleFixes!NextDiagnostic, Fixer!NextDiagnostic
<1>7. RuleFixes!Return => Fixer!Return
  BY DEF RuleFixes!Return, RuleFixes!Slice, Fixer!Return, Fixer!Slice
<1> QED BY <1>1, <1>2, <1>3, <1>4, <1>5, <1>6, <1>7 DEF RuleFixes!Next, Fixer!Next

FixerInv == procedure = "ApplyRuleFixes" => Fixer!IInv

LEMMA FixerInvariant == CallsSpec => []FixerInv
<1>1. CallsInit => FixerInv
  BY FixerInputs, SameFixer, Fixer!FixesInit DEF CallsInit, FixerInv
<1>2. FixerInv /\ [CallsNext]_allVars => FixerInv'
  <2> SUFFICES ASSUME FixerInv, [CallsNext]_allVars, procedure' = "ApplyRuleFixes"
               PROVE  Fixer!IInv'
    BY DEF FixerInv
  <2>1. CASE ApplyRuleFixes
    <3>1. Fixer!Next /\ Fixer!IInv
      BY <2>1, SameFixer DEF ApplyRuleFixes, FixerInv
    <3> QED
      BY <3>1, FixerInputs, Fixer!PartitionStep, Fixer!SkipStep, Fixer!StartApplyingStep,
         Fixer!ApplyFixStep, Fixer!NextDiagnosticStep, Fixer!ReturnStep DEF Fixer!Next
  <2>2. CASE CheckArguments \/ PrintDiagnostic \/ AskOverlay \/ CallForEntries
    BY <2>2 DEF CheckArguments, PrintDiagnostic, AskOverlay, CallForEntries
  <2>3. CASE UNCHANGED allVars
    <3>1. UNCHANGED Fixer!vars /\ procedure' = procedure
      BY <2>3 DEF allVars, fixVars, Fixer!vars
    <3> QED BY <3>1, Fixer!FixesStutter DEF FixerInv
  <2> QED BY <2>1, <2>2, <2>3 DEF CallsNext
<1> QED BY <1>1, <1>2, PTL DEF CallsSpec

\* ApplyRuleFixes returns the text with the fixes of the applied diagnostics made, and the
\* diagnostics that it put off, each for one that it applied.
THEOREM FixedCodeIsCorrect == CallsSpec => []FixedCodeIsRight
<1>1. FixerInv => FixedCodeIsRight
  <2> SUFFICES ASSUME procedure = "ApplyRuleFixes", Fixer!IInv
               PROVE  /\ RuleFixes!OutputIsFixedCode
                      /\ RuleFixes!NoDiagnosticIsLost
                      /\ RuleFixes!PutOffForAReason
    BY DEF FixerInv, FixedCodeIsRight
  <2>1. Fixer!OutputIsFixedCode /\ Fixer!NoDiagnosticIsLost /\ Fixer!PutOffForAReason
    BY FixerInputs, Fixer!ReturnedIsRight
  <2>2. RuleFixes!OutputIsFixedCode
    BY <2>1 DEF RuleFixes!OutputIsFixedCode, RuleFixes!AppliedFixes, RuleFixes!Covered,
         RuleFixes!Disjoint, RuleFixes!IsInjective, RuleFixes!Range,
         Fixer!OutputIsFixedCode, Fixer!AppliedFixes, Fixer!Covered,
         Fixer!Disjoint, Fixer!IsInjective, Fixer!Range
  <2>3. RuleFixes!NoDiagnosticIsLost
    BY <2>1 DEF RuleFixes!NoDiagnosticIsLost, RuleFixes!Diagnostics, RuleFixes!IsInjective,
         RuleFixes!Range, Fixer!NoDiagnosticIsLost, Fixer!Diagnostics, Fixer!IsInjective,
         Fixer!Range
  <2>4. RuleFixes!PutOffForAReason
    BY <2>1 DEF RuleFixes!PutOffForAReason, RuleFixes!Diagnostics,
         Fixer!PutOffForAReason, Fixer!Diagnostics
  <2> QED BY <2>2, <2>3, <2>4
<1> QED BY <1>1, FixerInvariant, PTL

-----------------------------------------------------------------------------
(* printDiagnostic: sets of positions, and their first and last. *)

\* The first and the last of a set of positions.
IsFirst(p, S) == p \in S /\ \A q \in S : p <= q
IsLast(p, S) == p \in S /\ \A q \in S : q <= p

LEMMA FirstAndLast ==
  ASSUME NEW S, S # {}, NEW n \in Nat, S \subseteq 0 .. n
  PROVE  (\E p \in S : IsFirst(p, S)) /\ (\E p \in S : IsLast(p, S))
<1> DEFINE Both(R) == (\E p \in R : IsFirst(p, R)) /\ (\E p \in R : IsLast(p, R))
           T == { k \in Nat : \A R \in SUBSET (0 .. k) : R # {} => Both(R) }
<1>1. 0 \in T
  <2>1. ASSUME NEW R \in SUBSET (0 .. 0), R # {} PROVE Both(R)
    <3>1. PICK x : x \in R
      BY <2>1
    <3>2. \A y \in R : y = 0
      OBVIOUS
    <3> QED BY <3>1, <3>2 DEF IsFirst, IsLast
  <2> QED BY <2>1
<1>2. ASSUME NEW k \in Nat, k \in T PROVE k + 1 \in T
  <2>1. ASSUME NEW R \in SUBSET (0 .. k + 1), R # {} PROVE Both(R)
    <3> DEFINE Q == R \ {k + 1}
    <3>1. Q \in SUBSET (0 .. k) /\ \A y \in Q : y \in 0 .. k
      <4>1. ASSUME NEW y \in Q PROVE y \in 0 .. k
        OBVIOUS
      <4> QED BY <4>1
    <3>2. CASE k + 1 \notin R
      <4>1. Q = R
        BY <3>2
      <4> QED BY <1>2, <2>1, <3>1, <4>1
    <3>3. CASE k + 1 \in R /\ Q = {}
      <4>1. \A y \in R : y = k + 1
        BY <3>3
      <4> QED BY <3>3, <4>1 DEF IsFirst, IsLast
    <3>4. CASE k + 1 \in R /\ Q # {}
      <4>1. Both(Q)
        BY <1>2, <3>1, <3>4
      <4>2. PICK x \in Q : IsFirst(x, Q)
        BY <4>1
      <4>3. \A y \in R : y \in Q \/ y = k + 1
        OBVIOUS
      <4>4. x \in R /\ \A y \in R : x <= y
        BY <3>1, <4>2, <4>3 DEF IsFirst
      <4>5. \A y \in R : y <= k + 1
        OBVIOUS
      <4> HIDE DEF Q
      <4> QED BY <3>4, <4>4, <4>5 DEF IsFirst, IsLast
    <3> QED BY <3>2, <3>3, <3>4
  <2> QED BY <2>1
<1>3. n \in T
  <2> HIDE DEF T
  <2> QED BY <1>1, <1>2, SetInduction
<1> QED BY <1>3

LEMMA MinIsFirst ==
  ASSUME NEW S \in SUBSET Int, NEW p, IsFirst(p, S)
  PROVE  CodeBox!Min(S) = p
<1> DEFINE m == CodeBox!Min(S)
<1>1. m \in S /\ \A q \in S : m <= q
  BY DEF IsFirst, CodeBox!Min
<1> HIDE DEF m
<1>2. m = p
  BY <1>1 DEF IsFirst
<1> QED BY <1>2 DEF m

LEMMA MaxIsLast ==
  ASSUME NEW S \in SUBSET Int, NEW p, IsLast(p, S)
  PROVE  CodeBox!Max(S) = p
<1> DEFINE m == CodeBox!Max(S)
<1>1. \E q \in S : \A r \in S : q >= r
  BY DEF IsLast
<1>2. m \in S /\ \A q \in S : m >= q
  BY <1>1 DEF CodeBox!Max
<1> HIDE DEF m
<1>3. m = p
  BY <1>2 DEF IsLast
<1> QED BY <1>3 DEF m

\* The smaller and the larger of two numbers.
LEMMA OfTwo ==
  ASSUME NEW a \in Int, NEW b \in Int
  PROVE  /\ CodeBox!Min({a, b}) = IF a <= b THEN a ELSE b
         /\ CodeBox!Max({a, b}) = IF a <= b THEN b ELSE a
<1>1. CASE a <= b
  <2>1. IsFirst(a, {a, b}) /\ IsLast(b, {a, b})
    BY <1>1 DEF IsFirst, IsLast
  <2> QED BY <1>1, <2>1, MinIsFirst, MaxIsLast
<1>2. CASE ~ (a <= b)
  <2>1. IsFirst(b, {a, b}) /\ IsLast(a, {a, b})
    BY <1>2 DEF IsFirst, IsLast
  <2> QED BY <1>2, <2>1, MinIsFirst, MaxIsLast
<1> QED BY <1>1, <1>2

-----------------------------------------------------------------------------
(* The lines of a text. *)

\* m has where the lines of the text start: at 0 and at what follows a break, in order.
Mapped(text, m) ==
  /\ Len(m) \in Nat \ {0} /\ DOMAIN m = 1 .. Len(m)
  /\ \A l \in 1 .. Len(m) : m[l] \in 0 .. Len(text)
  /\ m[1] = 0
  /\ \A k, l \in 1 .. Len(m) : k < l => m[k] < m[l]
  /\ \A l \in 2 .. Len(m) : m[l] \in DOMAIN text /\ CodeBox!BreaksAfter(text, m[l])
  /\ \A p \in DOMAIN text : CodeBox!BreaksAfter(text, p) => \E l \in 2 .. Len(m) : m[l] = p

LEMMA SameCount == ASSUME NEW S PROVE CodeBox!Cardinality(S) = Cardinality(S)
BY DEF CodeBox!Cardinality, Cardinality

LEMMA LineMapIs ==
  ASSUME NEW text \in Seq(CodeBox!Bytes)
  PROVE  Mapped(text, CodeBox!LineMap(text))
<1> DEFINE S == CodeBox!Starts(text)
           n == Cardinality(S)
           Below(p) == { q \in S : q < p }
           c(p) == Cardinality(Below(p))
           m == CodeBox!LineMap(text)
<1>1. Len(text) \in Nat /\ DOMAIN text = 1 .. Len(text)
  OBVIOUS
<1>2. \A p : p \in S <=> p = 0 \/ (p \in DOMAIN text /\ CodeBox!BreaksAfter(text, p))
  BY DEF CodeBox!Starts
<1>3. S \subseteq 0 .. Len(text) /\ IsFiniteSet(S) /\ n \in Nat
  <2> HIDE DEF S
  <2>1. \A p \in S : p \in 0 .. Len(text)
    BY <1>1, <1>2
  <2>2. IsFiniteSet(0 .. Len(text))
    BY <1>1, FS_Interval
  <2> QED BY <2>1, <2>2, FS_Subset, FS_CardinalityType
<1>4. m = [l \in 1 .. n |-> CHOOSE p \in S : c(p) = l - 1]
  BY DEF CodeBox!LineMap, CodeBox!Cardinality, Cardinality
<1> HIDE DEF m, S
<1>5. ASSUME NEW p \in S
      PROVE  c(p) \in 0 .. n - 1
  <2>1. Below(p) \in SUBSET S /\ p \notin Below(p)
    BY <1>3
  <2> HIDE DEF Below
  <2>2. IsFiniteSet(Below(p)) /\ Cardinality(Below(p)) <= n /\ Cardinality(Below(p)) # n
    BY <1>3, <2>1, FS_Subset
  <2>3. Cardinality(Below(p)) \in Nat
    BY <2>2, FS_CardinalityType
  <2> QED BY <1>3, <2>2, <2>3
<1>6. ASSUME NEW p \in S, NEW q \in S, p < q
      PROVE  c(p) < c(q)
  <2>1. Below(p) \in SUBSET Below(q) /\ p \in Below(q) /\ p \notin Below(p)
    <3>1. \A r \in S : r \in Int
      BY <1>3
    <3>2. ASSUME NEW r \in S, r < p PROVE r < q
      BY <1>6, <3>1, <3>2
    <3>3. ~ (p < p)
      BY <3>1
    <3>4. Below(p) \in SUBSET Below(q)
      BY <3>2
    <3> QED BY <1>6, <3>3, <3>4
  <2>2. IsFiniteSet(Below(q))
    BY <1>3, FS_Subset
  <2>3. c(p) \in Int /\ c(q) \in Int
    <3> HIDE DEF c
    <3> QED BY <1>3, <1>5
  <2> HIDE DEF Below
  <2>4. c(p) <= c(q) /\ c(p) # c(q)
    BY <2>1, <2>2, FS_Subset
  <2> HIDE DEF c
  <2> QED BY <2>3, <2>4
<1>7. \A p \in S : p \in Int
  BY <1>3
<1>8. ASSUME NEW p \in S, NEW q \in S, c(p) = c(q) PROVE p = q
  <2> HIDE DEF c
  <2>1. c(p) \in Int /\ c(q) \in Int
    BY <1>3, <1>5
  <2>2. ~ (p < q) /\ ~ (q < p)
    BY <1>6, <1>8, <2>1
  <2> QED BY <1>7, <2>2
<1>9. ASSUME NEW l \in 1 .. n PROVE \E p \in S : c(p) = l - 1
  <2> DEFINE f == [p \in S |-> c(p)]
             I == 0 .. n - 1
  <2> HIDE DEF c
  <2>1. f \in Injection(S, I)
    BY <1>5, <1>8 DEF Injection, IsInjective
  <2>2. IsFiniteSet(I) /\ Cardinality(I) = n
    <3> DEFINE k == n - 1
    <3>1. k \in Int /\ 0 \in Int /\ n = k + 1 /\ k >= -1
      BY <1>3
    <3> HIDE DEF k, n
    <3>2. IsFiniteSet(0 .. k) /\ Cardinality(0 .. k) = IF 0 > k THEN 0 ELSE k - 0 + 1
      BY <3>1, FS_Interval
    <3> QED BY <3>1, <3>2 DEF k
  <2>3. f \in Surjection(S, I)
    <3> HIDE DEF f, I
    <3> QED BY <2>1, <2>2, FS_Injection
  <2>4. l - 1 \in I
    BY <1>3
  <2>5. \E p \in S : f[p] = l - 1
    <3> HIDE DEF f, I
    <3> QED BY <2>3, <2>4 DEF Surjection
  <2> QED BY <2>5
<1>10. ASSUME NEW l \in 1 .. n PROVE m[l] \in S /\ c(m[l]) = l - 1
  <2> HIDE DEF c
  <2> QED BY <1>4, <1>9
<1> HIDE DEF c, n
<1>11. Len(m) = n /\ DOMAIN m = 1 .. Len(m)
  <2>1. DOMAIN m = 1 .. n
    BY <1>4
  <2>2. m \in Seq(S)
    <3>1. m \in [1 .. n -> S]
      BY <1>4, <1>10
    <3> QED BY <1>3, <3>1
  <2>3. Len(m) = n
    BY <1>3, <2>1, <2>2
  <2> QED BY <2>1, <2>3
<1>12. 0 \in S /\ c(0) = 0 /\ n >= 1
  <2>1. 0 \in S
    BY <1>2
  <2>2. Below(0) = {}
    <3>1. \A q \in S : ~ (q < 0)
      BY <1>3
    <3> QED BY <3>1
  <2>3. c(0) = 0
    <3> HIDE DEF Below
    <3> QED BY <2>2, FS_EmptySet DEF c
  <2>4. 0 \in 0 .. n - 1
    BY <1>5, <2>1, <2>3
  <2> QED BY <1>3, <2>1, <2>3, <2>4
<1>13. m[1] = 0
  <2>1. 1 \in 1 .. n
    BY <1>3, <1>12
  <2>2. m[1] \in S /\ c(m[1]) = 0
    BY <1>10, <2>1
  <2> QED BY <1>8, <1>12, <2>2
<1>14. ASSUME NEW k \in 1 .. n, NEW l \in 1 .. n, k < l PROVE m[k] < m[l]
  <2>1. m[k] \in S /\ m[l] \in S /\ c(m[k]) = k - 1 /\ c(m[l]) = l - 1
    BY <1>10
  <2>2. m[k] \in Int /\ m[l] \in Int /\ m[k] # m[l] /\ ~ (m[l] < m[k])
    <3>1. c(m[k]) # c(m[l]) /\ ~ (c(m[l]) < c(m[k]))
      BY <1>3, <1>14, <2>1
    <3> QED BY <1>6, <1>7, <2>1, <3>1
  <2> QED BY <2>2
<1>15. ASSUME NEW l \in 2 .. n PROVE m[l] \in DOMAIN text /\ CodeBox!BreaksAfter(text, m[l])
  <2>1. l \in 1 .. n /\ 1 \in 1 .. n /\ 1 < l
    BY <1>3
  <2>2. m[l] \in S /\ m[l] # 0
    BY <1>10, <1>13, <1>14, <2>1
  <2> QED BY <1>2, <2>2
<1>16. ASSUME NEW p \in DOMAIN text, CodeBox!BreaksAfter(text, p) PROVE \E l \in 2 .. n : m[l] = p
  <2>1. p \in S /\ p # 0
    BY <1>1, <1>2, <1>16
  <2> DEFINE k == c(p)
             l == k + 1
  <2>2. k \in 0 .. n - 1
    BY <1>5, <2>1
  <2> HIDE DEF k
  <2>3. l \in 1 .. n /\ l - 1 = k
    BY <1>3, <2>2
  <2>4. m[l] \in S /\ c(m[l]) = k
    BY <1>10, <2>3
  <2>5. m[l] = p
    BY <1>8, <2>1, <2>4 DEF k
  <2>6. l # 1
    BY <1>13, <2>1, <2>5
  <2>7. l \in 2 .. n
    BY <1>3, <2>3, <2>6
  <2> HIDE DEF l
  <2> QED BY <2>5, <2>7
<1>17. \A l \in 1 .. n : m[l] \in 0 .. Len(text)
  BY <1>3, <1>10
<1> HIDE DEF m
<1>18. Mapped(text, m)
  BY <1>3, <1>11, <1>12, <1>13, <1>14, <1>15, <1>16, <1>17 DEF Mapped
<1> QED BY <1>18 DEF m

\* Of the diagnostic's file:
At(l) == CodeBox!LineStart(l)
LastLine == CodeBox!LastLine
\* where the break of a line is, its last byte, or the end of the last line
EndOf(l) == IF l = LastLine THEN Len(d.text) ELSE At(l + 1) - 1
Byte(p) == CodeBox!ByteAt(d.text, p)

\* The lines follow each other, each of them up to its break.
LinesInv ==
  /\ Len(d.text) \in Nat /\ LastLine \in Nat
  /\ At(0) = 0 /\ EndOf(LastLine) = Len(d.text)
  /\ \A l \in 0 .. LastLine :
       /\ At(l) \in Int /\ EndOf(l) \in Int
       /\ 0 <= At(l) /\ At(l) <= EndOf(l) /\ EndOf(l) <= Len(d.text)
       /\ l # LastLine => At(l + 1) = EndOf(l) + 1 /\ Byte(EndOf(l)) \in {"n", "r", "l"}
       /\ \A p \in Int : At(l) <= p /\ p < EndOf(l) => Byte(p) \notin {"n", "l"}
  /\ \A k, l \in 0 .. LastLine : k < l => EndOf(k) < At(l)

LEMMA LineFacts ==
  ASSUME d.text \in Seq(CodeBox!Bytes), Mapped(d.text, lineMap)
  PROVE  LinesInv
<1> DEFINE n == Len(lineMap)
           text == d.text
<1>1. Len(text) \in Nat /\ DOMAIN text = 1 .. Len(text) /\ n \in Nat /\ n >= 1
  BY DEF Mapped
<1>2. LastLine = n - 1 /\ LastLine \in Nat
  BY <1>1 DEF LastLine, CodeBox!LastLine
<1>3. \A l : At(l) = lineMap[l + 1]
  BY DEF At, CodeBox!LineStart
<1>4. ASSUME NEW l \in 0 .. LastLine
      PROVE  At(l) \in Int /\ 0 <= At(l) /\ At(l) <= Len(text)
  <2>1. l + 1 \in 1 .. n
    BY <1>1, <1>2
  <2>2. lineMap[l + 1] \in 0 .. Len(text)
    BY <2>1 DEF Mapped
  <2> QED BY <1>1, <1>3, <2>2
<1>5. ASSUME NEW k \in 0 .. LastLine, NEW l \in 0 .. LastLine, k < l
      PROVE  At(k) < At(l)
  <2>1. k + 1 \in 1 .. n /\ l + 1 \in 1 .. n /\ k + 1 < l + 1
    BY <1>1, <1>2, <1>5
  <2>2. lineMap[k + 1] < lineMap[l + 1]
    BY <2>1 DEF Mapped
  <2> QED BY <1>3, <2>2
<1>6. ASSUME NEW l \in 0 .. LastLine, l # LastLine
      PROVE  /\ l + 1 \in 0 .. LastLine /\ EndOf(l) = At(l + 1) - 1
             /\ At(l + 1) \in DOMAIN text /\ text[At(l + 1)] \in {"n", "r", "l"}
  <2>1. l + 1 \in 0 .. LastLine /\ (l + 1) + 1 \in 2 .. n
    BY <1>1, <1>2, <1>6
  <2>2. lineMap[(l + 1) + 1] \in DOMAIN text /\ text[lineMap[(l + 1) + 1]] \in {"n", "r", "l"}
    BY <2>1 DEF Mapped, CodeBox!BreaksAfter
  <2>3. At(l + 1) = lineMap[(l + 1) + 1]
    BY <1>3
  <2> QED BY <1>6, <2>1, <2>2, <2>3 DEF EndOf
<1>7. EndOf(LastLine) = Len(text)
  BY DEF EndOf
<1>8. ASSUME NEW l \in 0 .. LastLine
      PROVE  /\ EndOf(l) \in Int /\ At(l) <= EndOf(l) /\ EndOf(l) <= Len(text)
             /\ l # LastLine => At(l + 1) = EndOf(l) + 1 /\ Byte(EndOf(l)) \in {"n", "r", "l"}
  <2>1. CASE l = LastLine
    BY <1>1, <1>4, <1>7, <2>1
  <2>2. CASE l # LastLine
    <3> DEFINE a == At(l + 1)
    <3>1. l < l + 1
      BY <1>2
    <3>2. At(l) \in Int /\ a \in Int /\ a <= Len(text) /\ At(l) < a
      BY <1>4, <1>5, <1>6, <2>2, <3>1
    <3>3. EndOf(l) = a - 1
      BY <1>6, <2>2
    <3>4. EndOf(l) \in Int /\ At(l) <= EndOf(l) /\ EndOf(l) <= Len(text) /\ a = EndOf(l) + 1
      <4> HIDE DEF a
      <4> QED BY <1>1, <3>2, <3>3
    <3>5. Byte(EndOf(l)) = text[a]
      BY <3>4 DEF Byte, CodeBox!ByteAt
    <3> QED BY <1>6, <2>2, <3>4, <3>5
  <2> QED BY <2>1, <2>2
<1>9. ASSUME NEW k \in 0 .. LastLine, NEW l \in 0 .. LastLine, k < l
      PROVE  EndOf(k) < At(l)
  <2>1. k # LastLine
    BY <1>2, <1>9
  <2> DEFINE b == k + 1
  <2>2. b \in 0 .. LastLine /\ EndOf(k) = At(b) - 1 /\ (b = l \/ b < l)
    BY <1>2, <1>6, <1>9, <2>1
  <2> HIDE DEF b
  <2>3. At(b) \in Int /\ At(l) \in Int /\ At(b) <= At(l)
    BY <1>4, <1>5, <2>2
  <2> QED BY <2>2, <2>3
<1>10. ASSUME NEW l \in 0 .. LastLine, NEW p \in Int, At(l) <= p, p < EndOf(l)
       PROVE  Byte(p) \notin {"n", "l"}
  <2> SUFFICES ASSUME Byte(p) \in {"n", "l"} PROVE FALSE
    OBVIOUS
  <2>1. At(l) \in Int /\ 0 <= At(l) /\ EndOf(l) \in Int /\ EndOf(l) <= Len(text)
    BY <1>4, <1>8
  <2>2. p + 1 \in DOMAIN text /\ CodeBox!BreaksAfter(text, p + 1)
    BY <1>1, <1>10, <2>1 DEF Byte, CodeBox!ByteAt, CodeBox!BreaksAfter
  <2>3. PICK j \in 2 .. n : lineMap[j] = p + 1
    BY <2>2 DEF Mapped
  <2> DEFINE k == j - 1
  <2>4. k \in 0 .. LastLine /\ At(k) = p + 1
    <3>1. k \in 0 .. LastLine /\ k + 1 = j
      BY <1>1, <1>2, <2>3
    <3> HIDE DEF k
    <3> QED BY <1>3, <2>3, <3>1
  <2> HIDE DEF k
  <2>5. k # l
    BY <1>10, <2>1, <2>4
  <2>6. ~ (k < l)
    <3>1. ASSUME k < l PROVE At(k) < At(l)
      BY <1>5, <2>4, <3>1
    <3> QED BY <1>10, <2>1, <2>4, <3>1
  <2>7. ~ (l < k)
    <3>1. ASSUME l < k PROVE EndOf(l) < At(k)
      BY <1>9, <2>4, <3>1
    <3> QED BY <1>10, <2>1, <2>4, <3>1
  <2> QED BY <1>2, <2>4, <2>5, <2>6, <2>7
<1>11. At(0) = 0
  BY <1>3 DEF Mapped
<1> HIDE DEF n, text
<1>12. ASSUME NEW l \in 0 .. LastLine, NEW p \in Int
       PROVE  At(l) <= p /\ p < EndOf(l) => Byte(p) \notin {"n", "l"}
  BY <1>10
<1>13. ASSUME NEW k \in 0 .. LastLine, NEW l \in 0 .. LastLine PROVE k < l => EndOf(k) < At(l)
  BY <1>9
<1> QED BY <1>1, <1>2, <1>4, <1>7, <1>8, <1>11, <1>12, <1>13 DEF LinesInv, text

LEMMA LineOfFacts ==
  ASSUME LinesInv, NEW p \in 0 .. Len(d.text)
  PROVE  /\ CodeBox!LineOf(p) \in 0 .. LastLine
         /\ At(CodeBox!LineOf(p)) <= p /\ p <= EndOf(CodeBox!LineOf(p))
         /\ \A l \in 0 .. LastLine : At(l) <= p /\ p <= EndOf(l) => l = CodeBox!LineOf(p)
<1> DEFINE S == { l \in 0 .. LastLine : At(l) <= p }
<1>0. LastLine \in Nat /\ Len(d.text) \in Nat /\ p \in Int
  BY DEF LinesInv
<1>1. 0 \in S /\ S \subseteq 0 .. LastLine
  BY <1>0 DEF LinesInv
<1>2. CodeBox!LineOf(p) = CodeBox!Max(S)
  BY DEF CodeBox!LineOf, At, LastLine
<1> DEFINE m == CodeBox!Max(S)
<1>3. IsLast(m, S)
  <2> HIDE DEF S, m
  <2>1. PICK q \in S : IsLast(q, S)
    BY <1>0, <1>1, FirstAndLast
  <2>2. S \in SUBSET Int
    <3>1. \A l \in S : l \in Int
      BY <1>0, <1>1
    <3> QED BY <3>1
  <2>3. m = q
    BY <2>1, <2>2, MaxIsLast DEF m
  <2> QED BY <2>1, <2>3
<1> HIDE DEF m
<1>4. m \in 0 .. LastLine /\ At(m) <= p
  BY <1>3 DEF IsLast
<1>5. p <= EndOf(m)
  <2>1. CASE m = LastLine
    BY <2>1 DEF LinesInv
  <2>2. CASE m # LastLine
    <3>1. m + 1 \in 0 .. LastLine /\ m + 1 > m
      BY <1>0, <1>4, <2>2
    <3>2. m + 1 \notin S
      BY <1>0, <1>3, <1>4, <3>1 DEF IsLast
    <3>3. ~ (At(m + 1) <= p) /\ At(m + 1) \in Int
      BY <3>1, <3>2 DEF LinesInv
    <3>4. At(m + 1) = EndOf(m) + 1 /\ EndOf(m) \in Int
      BY <1>4, <2>2 DEF LinesInv
    <3> QED BY <1>0, <3>3, <3>4
  <2> QED BY <2>1, <2>2
<1>6. ASSUME NEW l \in 0 .. LastLine, At(l) <= p, p <= EndOf(l) PROVE l = m
  <2>1. At(l) \in Int /\ EndOf(l) \in Int /\ At(m) \in Int /\ EndOf(m) \in Int
    BY <1>4 DEF LinesInv
  <2>2. (l < m => EndOf(l) < At(m)) /\ (m < l => EndOf(m) < At(l))
    BY <1>4 DEF LinesInv
  <2> QED BY <1>0, <1>4, <1>5, <1>6, <2>1, <2>2
<1>7. CodeBox!LineOf(p) = m
  BY <1>2 DEF m
<1> HIDE DEF S
<1> QED BY <1>4, <1>5, <1>6, <1>7

\* The characters of a line that are no space.
Text(l) == CodeBox!TextIn(l)

LEMMA TextFacts ==
  ASSUME LinesInv, NEW l \in 0 .. LastLine
  PROVE  /\ \A p : p \in Text(l) <=> p \in At(l) .. EndOf(l) - 1 /\ Byte(p) \in {"x", "W"}
         /\ \A p \in Text(l) : p \in Int /\ At(l) <= p /\ p < EndOf(l)
         /\ Text(l) \subseteq 0 .. Len(d.text)
<1>1. At(l) \in Int /\ EndOf(l) \in Int /\ 0 <= At(l) /\ EndOf(l) <= Len(d.text) /\ Len(d.text) \in Nat
  BY DEF LinesInv
<1>2. CodeBox!Positions(l) = At(l) .. EndOf(l) - 1
  BY DEF CodeBox!Positions, EndOf, At, LastLine
<1>3. \A p : p \in Text(l) <=> p \in At(l) .. EndOf(l) - 1 /\ Byte(p) \in {"x", "W"}
  BY <1>2 DEF Text, CodeBox!TextIn, CodeBox!NonSpace, Byte
<1>4. \A p \in Text(l) : p \in Int /\ At(l) <= p /\ p < EndOf(l)
  BY <1>1, <1>3
<1>5. \A p \in Text(l) : p \in 0 .. Len(d.text)
  BY <1>1, <1>4
<1> QED BY <1>3, <1>4, <1>5

FirstLine == codeboxStartLine
EndLine == codeboxEndLine

\* The box is that of the diagnostic, whose range is in it.
BoxInv ==
  /\ LinesInv /\ Len(d.text) < MaxInt
  /\ \A p \in 0 .. Len(d.text) - 2 : /\ Byte(p) = "W" => Byte(p + 1) = "w"
                                     /\ Byte(p) = "L" => Byte(p + 1) = "l"
  /\ Byte(Len(d.text) - 1) # "L"
  /\ d.pos \in 0 .. Len(d.text) /\ d.end \in 0 .. Len(d.text) /\ d.pos < d.end
  /\ Byte(d.pos) \in {"x", "W"} /\ Byte(d.end - 1) \in {"x", "w"}
  /\ FirstLine \in 0 .. LastLine /\ EndLine \in 0 .. LastLine
  /\ FirstLine <= CodeBox!LineOf(d.pos) /\ CodeBox!LineOf(d.end) <= EndLine
  /\ codeboxStart = At(FirstLine) /\ codeboxEnd = EndOf(EndLine)

LEMMA BoxInit == CodeBox!Init => BoxInv
<1> SUFFICES ASSUME CodeBox!Init PROVE BoxInv
  OBVIOUS
<1>1. PICK text \in Sources : d \in { r \in CodeBox!DiagnosticsOf(text) : CodeBox!Reportable(r) }
  BY DEF CodeBox!Init
<1>2. /\ d.text = text /\ d.pos \in 0 .. Len(text) /\ d.end \in 0 .. Len(text)
      /\ CodeBox!Reportable(d)
  BY <1>1 DEF CodeBox!DiagnosticsOf
<1>3. /\ text \in Seq(CodeBox!Bytes) /\ Len(text) < MaxInt /\ Len(text) \in Nat
      /\ \A k \in DOMAIN text : text[k] = "w" <=> (k > 1 /\ text[k - 1] = "W")
      /\ \A k \in DOMAIN text : text[k] = "l" <=> (k > 1 /\ text[k - 1] = "L")
      /\ Len(text) > 0 => text[Len(text)] \notin {"W", "L"}
  BY SourcesAssumption DEF CodeBox!TextsAssumption
<1>4. Mapped(d.text, lineMap)
  BY <1>2, <1>3, LineMapIs DEF CodeBox!Init
<1>5. LinesInv
  BY <1>2, <1>3, <1>4, LineFacts
<1>6. ASSUME NEW p \in 0 .. Len(d.text) - 2
      PROVE  (Byte(p) = "W" => Byte(p + 1) = "w") /\ (Byte(p) = "L" => Byte(p + 1) = "l")
  <2> DEFINE k == p + 2
  <2>1. k \in DOMAIN text /\ k > 1 /\ k - 1 = p + 1 /\ k = (p + 1) + 1
    BY <1>2, <1>3
  <2>2. Byte(p) = text[k - 1] /\ Byte(p + 1) = text[k]
    BY <1>2, <2>1 DEF Byte, CodeBox!ByteAt
  <2> HIDE DEF k
  <2> QED BY <1>3, <2>1, <2>2
<1>7. d.pos < d.end /\ Byte(d.pos) \in {"x", "W"} /\ Byte(d.end - 1) \in {"x", "w"}
  BY <1>2 DEF CodeBox!Reportable, CodeBox!NonSpace, Byte
<1> DEFINE first == CodeBox!LineOf(d.pos)
           final == CodeBox!LineOf(d.end)
<1>8. first \in 0 .. LastLine /\ final \in 0 .. LastLine /\ LastLine \in Nat
  BY <1>2, <1>5, LineOfFacts DEF LinesInv
<1>9. FirstLine = CodeBox!Max({first - 1, 0}) /\ EndLine = CodeBox!Min({final + 1, LastLine})
  BY DEF CodeBox!Init, FirstLine, EndLine, LastLine
<1> HIDE DEF first, final
<1>10. FirstLine = (IF first - 1 <= 0 THEN 0 ELSE first - 1)
       /\ EndLine = IF final + 1 <= LastLine THEN final + 1 ELSE LastLine
  <2>1. first - 1 \in Int /\ final + 1 \in Int /\ LastLine \in Int /\ 0 \in Int
    BY <1>8
  <2> QED BY <1>9, <2>1, OfTwo
<1>11. FirstLine \in 0 .. LastLine /\ EndLine \in 0 .. LastLine /\ FirstLine <= first /\ final <= EndLine
  BY <1>8, <1>10
<1>12. codeboxStart = At(FirstLine)
  BY DEF CodeBox!Init, FirstLine, At
<1>13. codeboxEnd = EndOf(EndLine)
  BY DEF CodeBox!Init, EndLine, EndOf, LastLine, At
<1>14. Byte(Len(d.text) - 1) # "L"
  <2>1. Len(text) > 0
    BY <1>2, <1>3 DEF CodeBox!Reportable
  <2> QED BY <1>2, <1>3, <2>1 DEF Byte, CodeBox!ByteAt
<1> QED BY <1>2, <1>3, <1>5, <1>6, <1>7, <1>11, <1>12, <1>13, <1>14 DEF BoxInv, first, final

\* The first pass counts all lines of the box up to line l.
Clear(l) == CodeBox!CountedTo(l)

\* A line up to which they are counted ends in a newline, but for the last of the box.
LEMMA ClearFacts ==
  ASSUME BoxInv, NEW l \in FirstLine .. EndLine, Clear(l)
  PROVE  /\ \A k \in FirstLine .. l : Clear(k)
         /\ l # LastLine => Byte(EndOf(l)) = "n" \/ (l = EndLine /\ Byte(EndOf(l)) = "r")
<1>1. FirstLine \in Int /\ EndLine \in Int
  BY DEF BoxInv, LinesInv
<1>2. \A k \in FirstLine .. l : CodeBox!IsCounted(k)
  BY DEF Clear, CodeBox!CountedTo, FirstLine
<1>3. ASSUME NEW k \in FirstLine .. l PROVE Clear(k)
  <2>1. \A j \in FirstLine .. k : j \in FirstLine .. l
    BY <1>1
  <2> QED BY <1>2, <2>1 DEF Clear, CodeBox!CountedTo, FirstLine
<1>4. ASSUME l # LastLine PROVE Byte(EndOf(l)) = "n" \/ (l = EndLine /\ Byte(EndOf(l)) = "r")
  <2>1. l \in FirstLine .. l
    BY <1>1
  <2>2. CodeBox!IsCounted(l) /\ EndOf(l) = At(l + 1) - 1
    BY <1>2, <1>4, <2>1 DEF EndOf
  <2> QED BY <1>4, <2>2 DEF CodeBox!IsCounted, Byte, At, LastLine, EndLine
<1> QED BY <1>3, <1>4

LEMMA BoxKept ==
  ASSUME UNCHANGED CodeBox!boxVars
  PROVE  /\ BoxInv => BoxInv'
         /\ LastLine' = LastLine /\ FirstLine' = FirstLine /\ EndLine' = EndLine
         /\ codeboxStart' = codeboxStart /\ codeboxEnd' = codeboxEnd /\ d' = d /\ lineMap' = lineMap
         /\ \A l : At(l)' = At(l) /\ EndOf(l)' = EndOf(l) /\ Text(l)' = Text(l)
         /\ \A p : CodeBox!LineOf(p)' = CodeBox!LineOf(p)
         /\ \A l : Clear(l)' <=> Clear(l)
<1>1. /\ d' = d /\ lineMap' = lineMap /\ FirstLine' = FirstLine /\ EndLine' = EndLine
      /\ codeboxStart' = codeboxStart /\ codeboxEnd' = codeboxEnd
  BY DEF CodeBox!boxVars, FirstLine, EndLine
<1>2. LastLine' = LastLine /\ \A l : At(l)' = At(l)
  BY <1>1 DEF LastLine, At, CodeBox!LastLine, CodeBox!LineStart
<1>3. \A l : EndOf(l)' = EndOf(l)
  BY <1>1, <1>2 DEF EndOf
<1>4. \A p : Byte(p)' = Byte(p)
  BY <1>1 DEF Byte, CodeBox!ByteAt
<1>5. \A l : Text(l)' = Text(l)
  BY <1>1 DEF Text, CodeBox!TextIn, CodeBox!Positions, CodeBox!ByteAt, CodeBox!LineStart, CodeBox!LastLine
<1>6. \A p : CodeBox!LineOf(p)' = CodeBox!LineOf(p)
  BY <1>1 DEF CodeBox!LineOf, CodeBox!LineStart, CodeBox!LastLine
<1>7. LinesInv => LinesInv'
  BY <1>1, <1>2, <1>3, <1>4 DEF LinesInv
<1>8. BoxInv => BoxInv'
  BY <1>1, <1>2, <1>3, <1>4, <1>6, <1>7 DEF BoxInv
<1>9. \A l : Clear(l)' <=> Clear(l)
  BY <1>1 DEF Clear, CodeBox!CountedTo, CodeBox!IsCounted, CodeBox!ByteAt, CodeBox!LineStart,
              CodeBox!LastLine, FirstLine, EndLine
<1> QED BY <1>1, <1>2, <1>3, <1>5, <1>6, <1>8, <1>9

-----------------------------------------------------------------------------
(* The first pass. *)

\* The text of line l has started when the pass is at line ln, in its text if calc.
Started(ln, calc, l) == IF l = ln THEN calc ELSE l < ln /\ Text(l) # {}

\* Where the text of a line starts, and where it ends.
StartIs(l, started, start) ==
  IF started THEN IsFirst(At(l) + start, Text(l)) ELSE start = 0
EndIs(l, end) ==
  IF Text(l) # {} THEN IsLast(At(l) + end - 1, Text(l)) ELSE At(l) + end = codeboxStart - 1

\* The indentation of the lines whose text has started.
IndentIs(ln, calc, starts, indent) ==
  /\ \A l \in FirstLine .. EndLine : Started(ln, calc, l) => indent <= starts[l - FirstLine]
  /\ \/ indent = MaxInt
     \/ \E l \in FirstLine .. EndLine : Started(ln, calc, l) /\ indent = starts[l - FirstLine]

ByLine == [0 .. BoxLines - 1 -> Int]

\* The pass is at position c of the text, in line ln.
Within(c, ln) ==
  /\ c \in Int /\ ln \in FirstLine .. EndLine
  /\ At(ln) <= c /\ (c <= EndOf(ln) \/ (ln = LastLine /\ c = EndOf(ln) + 1))

\* What it knows about that line: calc, whether it has seen some of its text, and last, where
\* the text that it has seen ends.
Seen(c, ln, calc, last) ==
  /\ calc \in BOOLEAN /\ (calc <=> \E p \in Text(ln) : p < c)
  /\ last \in Int /\ (~ calc => last = -1)
  /\ calc => /\ codeboxStart + last - 1 \in Text(ln) /\ codeboxStart + last - 1 < c
             /\ \A p \in Text(ln) : p < c => p <= codeboxStart + last - 1

\* What it has found out about all lines.
Found(ln, calc, starts, ends, indent) ==
  /\ starts \in ByLine /\ ends \in ByLine /\ indent \in Nat
  /\ \A l \in FirstLine .. EndLine : StartIs(l, Started(ln, calc, l), starts[l - FirstLine])
  /\ \A l \in FirstLine .. ln - 1 : EndIs(l, ends[l - FirstLine])
  /\ IndentIs(ln, calc, starts, indent)

\* Numbers of lines, and their places in the arrays.
LEMMA BoxNumbers ==
  ASSUME BoxInv, EndLine - FirstLine < BoxLines
  PROVE  /\ FirstLine \in Nat /\ EndLine \in Nat /\ LastLine \in Nat /\ EndLine <= LastLine
         /\ BoxLines \in Nat /\ MaxInt \in Nat
         /\ codeboxStart \in Nat /\ codeboxStart = At(FirstLine)
         /\ codeboxEnd \in Nat /\ codeboxEnd = EndOf(EndLine)
         /\ \A l \in FirstLine .. EndLine :
              /\ l \in Int /\ l \in 0 .. LastLine /\ l - FirstLine \in 0 .. BoxLines - 1
              /\ At(l) \in Int /\ EndOf(l) \in Int /\ At(l) <= EndOf(l) /\ codeboxStart <= At(l)
              /\ EndOf(l) <= Len(d.text)
         /\ Len(d.text) \in Nat /\ Len(d.text) < MaxInt
<1>1. BoxLines \in Nat /\ MaxInt \in Nat
  BY SourcesAssumption DEF CodeBox!TextsAssumption
<1>2. /\ LastLine \in Nat /\ FirstLine \in 0 .. LastLine /\ EndLine \in 0 .. LastLine
      /\ LinesInv /\ Len(d.text) \in Nat /\ Len(d.text) < MaxInt
  BY DEF BoxInv, LinesInv
<1>3. codeboxStart \in Nat /\ codeboxEnd \in Nat
  <2>1. At(FirstLine) \in Int /\ 0 <= At(FirstLine)
    BY <1>2 DEF LinesInv
  <2>2. EndOf(EndLine) \in Int /\ At(EndLine) \in Int /\ 0 <= At(EndLine) /\ At(EndLine) <= EndOf(EndLine)
    BY <1>2 DEF LinesInv
  <2> QED BY <2>1, <2>2 DEF BoxInv
<1>4. ASSUME NEW l \in FirstLine .. EndLine
      PROVE  /\ l \in Int /\ l \in 0 .. LastLine /\ l - FirstLine \in 0 .. BoxLines - 1
             /\ At(l) \in Int /\ EndOf(l) \in Int /\ At(l) <= EndOf(l) /\ codeboxStart <= At(l)
             /\ EndOf(l) <= Len(d.text)
  <2>1. l \in Int /\ l \in 0 .. LastLine /\ l - FirstLine \in 0 .. BoxLines - 1
    BY <1>1, <1>2
  <2>2. /\ At(l) \in Int /\ EndOf(l) \in Int /\ At(l) <= EndOf(l) /\ EndOf(l) <= Len(d.text)
        /\ EndOf(FirstLine) \in Int /\ At(FirstLine) \in Int /\ At(FirstLine) <= EndOf(FirstLine)
        /\ (FirstLine < l => EndOf(FirstLine) < At(l))
    BY <1>2, <2>1 DEF LinesInv
  <2>3. codeboxStart = At(FirstLine)
    BY DEF BoxInv
  <2>4. codeboxStart <= At(l)
    <3>1. CASE l = FirstLine
      BY <2>2, <2>3, <3>1
    <3>2. CASE FirstLine < l
      BY <2>2, <2>3, <3>2
    <3> QED BY <1>2, <2>1, <3>1, <3>2
  <2> QED BY <2>1, <2>2, <2>4
<1> QED BY <1>1, <1>2, <1>3, <1>4 DEF BoxInv

\* Where the pass is in a line that it counts: before the newline, or at it if there is a
\* next line.  No line separator is in such a line.
LEMMA CharIsIn ==
  ASSUME BoxInv, EndLine - FirstLine < BoxLines, NEW c, NEW ln, Within(c, ln), c < codeboxEnd,
         Clear(ln)
  PROVE  /\ Byte(c) # "n" => c < EndOf(ln) /\ Byte(c) # "L"
         /\ Byte(c) = "n" => c = EndOf(ln) /\ ln < EndLine /\ ln # LastLine
<1>1. /\ c \in Int /\ ln \in FirstLine .. EndLine /\ ln \in Int /\ ln \in 0 .. LastLine
      /\ At(ln) \in Int /\ EndOf(ln) \in Int /\ At(ln) <= c
      /\ codeboxEnd \in Int /\ codeboxEnd = EndOf(EndLine) /\ EndLine \in Int
      /\ EndLine <= LastLine /\ LastLine \in Int
  BY BoxNumbers DEF Within
<1>2. c <= EndOf(ln)
  <2>1. CASE ln = LastLine
    <3>1. EndLine = ln
      BY <1>1, <2>1
    <3> QED BY <1>1, <3>1
  <2>2. CASE ln # LastLine
    BY <2>2 DEF Within
  <2> QED BY <2>1, <2>2
<1>3. ASSUME c = EndOf(ln) PROVE Byte(c) = "n" /\ ln < EndLine /\ ln # LastLine
  <2>1. ln # EndLine
    BY <1>1, <1>3
  <2>2. ln < EndLine /\ ln # LastLine
    BY <1>1, <2>1
  <2>3. Byte(EndOf(ln)) = "n"
    BY <1>1, <2>1, <2>2, ClearFacts
  <2> QED BY <1>3, <2>2, <2>3
<1>4. ASSUME c < EndOf(ln) PROVE Byte(c) # "n" /\ Byte(c) # "L"
  <2>1. Byte(c) # "n" /\ 0 <= At(ln) /\ EndOf(ln) <= Len(d.text) /\ Len(d.text) \in Nat
    BY <1>1, <1>4 DEF BoxInv, LinesInv
  <2>2. ASSUME Byte(c) = "L" PROVE FALSE
    <3>1. CASE c + 1 = Len(d.text)
      <4>1. c = Len(d.text) - 1
        BY <1>1, <2>1, <3>1
      <4> QED BY <2>2, <4>1 DEF BoxInv
    <3>2. CASE c + 1 # Len(d.text)
      <4>1. c \in 0 .. Len(d.text) - 2
        BY <1>1, <1>4, <2>1, <3>2
      <4>2. Byte(c + 1) = "l"
        BY <2>2, <4>1 DEF BoxInv
      <4>3. ~ (c + 1 < EndOf(ln))
        <5>1. c + 1 \in Int /\ At(ln) <= c + 1
          BY <1>1
        <5> QED BY <1>1, <4>2, <5>1 DEF BoxInv, LinesInv
      <4>4. c + 1 = EndOf(ln) /\ ln # LastLine
        <5>1. c + 1 = EndOf(ln)
          BY <1>1, <1>4, <4>3
        <5> QED BY <3>2, <5>1 DEF BoxInv, LinesInv
      <4> QED BY <1>1, <4>2, <4>4, ClearFacts
    <3> QED BY <3>1, <3>2
  <2> QED BY <2>1, <2>2
<1> QED BY <1>1, <1>2, <1>3, <1>4

\* The pass goes on in its line, over both bytes of a character.
LEMMA CharPassed ==
  ASSUME BoxInv, EndLine - FirstLine < BoxLines, NEW c, NEW ln, Within(c, ln), c < codeboxEnd,
         Clear(ln), Byte(c) # "n",
         NEW c1, c1 = IF Byte(c) = "W" THEN c + 2 ELSE c + 1
  PROVE  /\ Within(c1, ln)
         /\ \A p \in Text(ln) : p < c1 <=> (p < c \/ p = c)
         /\ c \in Text(ln) <=> Byte(c) \in {"x", "W"}
<1>1. /\ c \in Int /\ ln \in FirstLine .. EndLine /\ ln \in Int /\ ln \in 0 .. LastLine
      /\ At(ln) \in Int /\ EndOf(ln) \in Int /\ At(ln) <= c /\ EndOf(ln) <= Len(d.text)
      /\ LastLine \in Int /\ Len(d.text) \in Nat
  BY BoxNumbers DEF Within
<1>2. c < EndOf(ln)
  BY CharIsIn
<1>3. c \in Text(ln) <=> Byte(c) \in {"x", "W"}
  BY <1>1, <1>2, TextFacts DEF BoxInv
<1>4. \A p \in Text(ln) : p \in Int /\ p < EndOf(ln) /\ Byte(p) \in {"x", "W"}
  BY <1>1, TextFacts DEF BoxInv
<1>5. CASE Byte(c) # "W"
  <2>1. c1 = c + 1
    BY <1>5
  <2>2. Within(c1, ln)
    BY <1>1, <1>2, <2>1 DEF Within
  <2>3. \A p \in Text(ln) : p < c1 <=> (p < c \/ p = c)
    BY <1>1, <1>4, <2>1
  <2> QED BY <1>3, <2>2, <2>3
<1>6. CASE Byte(c) = "W"
  <2>1. c1 = c + 2
    BY <1>6
  <2>2. CASE c + 1 < EndOf(ln)
    <3>1. Within(c1, ln)
      BY <1>1, <2>1, <2>2 DEF Within
    <3>2. Byte(c + 1) = "w"
      <4>1. 0 <= At(ln)
        BY <1>1 DEF BoxInv, LinesInv
      <4>2. c \in 0 .. Len(d.text) - 2
        BY <1>1, <2>2, <4>1
      <4> QED BY <1>6, <4>2 DEF BoxInv
    <3>3. \A p \in Text(ln) : p # c + 1
      BY <1>4, <3>2
    <3>4. \A p \in Text(ln) : p < c1 <=> (p < c \/ p = c)
      BY <1>1, <1>4, <2>1, <3>3
    <3> QED BY <1>3, <3>1, <3>4
  <2>3. CASE c + 1 = EndOf(ln)
    <3>1. ln = LastLine
      <4> SUFFICES ASSUME ln # LastLine PROVE FALSE
        OBVIOUS
      <4>1. Byte(EndOf(ln)) \in {"n", "r", "l"} /\ At(ln + 1) = EndOf(ln) + 1 /\ 0 <= At(ln)
        BY <1>1 DEF BoxInv, LinesInv
      <4>2. ln + 1 \in 0 .. LastLine
        BY <1>1
      <4>3. At(ln + 1) <= Len(d.text) /\ At(ln + 1) \in Int
        <5> DEFINE k == ln + 1
        <5>1. k \in 0 .. LastLine
          BY <4>2
        <5> HIDE DEF k
        <5>2. At(k) \in Int /\ EndOf(k) \in Int /\ At(k) <= EndOf(k) /\ EndOf(k) <= Len(d.text)
          BY <5>1 DEF BoxInv, LinesInv
        <5>3. At(k) <= Len(d.text) /\ At(k) \in Int
          BY <1>1, <5>2
        <5> QED BY <5>3 DEF k
      <4>4. c \in 0 .. Len(d.text) - 2
        BY <1>1, <2>3, <4>1, <4>3
      <4>5. Byte(c + 1) = "w"
        BY <1>6, <4>4 DEF BoxInv
      <4> QED BY <2>3, <4>1, <4>5
    <3>2. Within(c1, ln)
      BY <1>1, <2>1, <2>3, <3>1 DEF Within
    <3>3. \A p \in Text(ln) : p < c1 <=> (p < c \/ p = c)
      BY <1>1, <1>4, <2>1, <2>3
    <3> QED BY <1>3, <3>2, <3>3
  <2> QED BY <1>1, <1>2, <2>2, <2>3
<1> QED BY <1>5, <1>6

\* A character that is no space is the last one seen.
LEMMA SeesText ==
  ASSUME BoxInv, EndLine - FirstLine < BoxLines, NEW c, NEW ln, Within(c, ln), c < codeboxEnd,
         Clear(ln), Byte(c) \in {"x", "W"},
         NEW calc, NEW last, Seen(c, ln, calc, last),
         NEW c1, c1 = IF Byte(c) = "W" THEN c + 2 ELSE c + 1
  PROVE  Seen(c1, ln, TRUE, c - codeboxStart + 1)
<1>1. /\ c \in Int /\ codeboxStart \in Int /\ c1 \in Int /\ c < c1
      /\ codeboxStart + (c - codeboxStart + 1) - 1 = c /\ c - codeboxStart + 1 \in Int
  <2>1. c \in Int /\ codeboxStart \in Int
    BY BoxNumbers DEF Within
  <2> QED BY <2>1
<1>2. c \in Text(ln) /\ \A p \in Text(ln) : p < c1 <=> (p < c \/ p = c)
  BY CharPassed
<1>3. \A p \in Text(ln) : p < c1 => p <= c
  <2>1. \A p \in Text(ln) : p \in Int
    BY TextFacts, BoxNumbers DEF BoxInv, Within
  <2> QED BY <1>1, <1>2, <2>1
<1> QED BY <1>1, <1>2, <1>3 DEF Seen

\* Another one makes no difference.
LEMMA SeesSpace ==
  ASSUME BoxInv, EndLine - FirstLine < BoxLines, NEW c, NEW ln, Within(c, ln), c < codeboxEnd,
         Clear(ln), Byte(c) \notin {"x", "W", "n"},
         NEW calc, NEW last, Seen(c, ln, calc, last),
         NEW c1, c1 = IF Byte(c) = "W" THEN c + 2 ELSE c + 1
  PROVE  Seen(c1, ln, calc, last)
<1>1. \A p \in Text(ln) : p < c1 <=> p < c
  BY CharPassed
<1>2. \A p \in Text(ln) : p \in Int
  BY TextFacts, BoxNumbers DEF BoxInv, Within
<1>3. c \in Int /\ c1 = c + 1 /\ codeboxStart \in Int
  BY BoxNumbers DEF Within
<1>4. calc => codeboxStart + last - 1 \in Text(ln) /\ codeboxStart + last - 1 < c1
  BY <1>1 DEF Seen
<1>5. /\ calc \in BOOLEAN /\ (calc <=> \E p \in Text(ln) : p < c1)
      /\ last \in Int /\ (~ calc => last = -1)
      /\ calc => \A p \in Text(ln) : p < c1 => p <= codeboxStart + last - 1
  BY <1>1 DEF Seen
<1> QED BY <1>4, <1>5 DEF Seen

\* The first one that is no space starts the text of the line.
LEMMA FindsText ==
  ASSUME BoxInv, EndLine - FirstLine < BoxLines, NEW c, NEW ln, Within(c, ln), c < codeboxEnd,
         Clear(ln), Byte(c) \in {"x", "W"}, NEW last, Seen(c, ln, FALSE, last),
         NEW starts, NEW ends, NEW indent, Found(ln, FALSE, starts, ends, indent),
         NEW starts1, starts1 = [starts EXCEPT ![ln - FirstLine] = c - At(ln)],
         NEW indent1, indent1 = CodeBox!Min({indent, c - At(ln)})
  PROVE  Found(ln, TRUE, starts1, ends, indent1)
<1> DEFINE column == c - At(ln)
           k == ln - FirstLine
<1>1. /\ c \in Int /\ ln \in FirstLine .. EndLine /\ ln \in Int /\ ln \in 0 .. LastLine
      /\ At(ln) \in Int /\ At(ln) <= c /\ k \in 0 .. BoxLines - 1
      /\ FirstLine \in Int /\ EndLine \in Int
  BY BoxNumbers DEF Within
<1>2. column \in Nat /\ indent \in Nat /\ At(ln) + column = c
  BY <1>1 DEF Found
<1>3. indent1 = (IF indent <= column THEN indent ELSE column) /\ indent1 \in Nat
  <2> HIDE DEF column
  <2>1. indent \in Int /\ column \in Int
    BY <1>2
  <2> QED BY <1>2, <2>1, OfTwo DEF column
<1> HIDE DEF column, k
<1>4. starts1 \in ByLine /\ starts1[k] = column
      /\ \A j \in 0 .. BoxLines - 1 : j # k => starts1[j] = starts[j]
  BY <1>1, <1>2 DEF Found, ByLine, k, column
<1>5. IsFirst(At(ln) + column, Text(ln))
  <2>1. c \in Text(ln)
    BY CharPassed
  <2>2. \A p \in Text(ln) : p \in Int /\ ~ (p < c)
    BY <1>1, TextFacts DEF BoxInv, Seen
  <2> QED BY <1>1, <1>2, <2>1, <2>2 DEF IsFirst
<1>6. ASSUME NEW l \in FirstLine .. EndLine, l # ln
      PROVE  /\ starts1[l - FirstLine] = starts[l - FirstLine]
             /\ Started(ln, TRUE, l) <=> Started(ln, FALSE, l)
  <2>1. l \in Int /\ l - FirstLine \in 0 .. BoxLines - 1 /\ l - FirstLine # k
    BY <1>1, <1>6, BoxNumbers DEF k
  <2> QED BY <1>4, <1>6, <2>1 DEF Started
<1>7. Started(ln, TRUE, ln) /\ ~ Started(ln, FALSE, ln) /\ starts1[ln - FirstLine] = column
  BY <1>4 DEF Started, k
<1>8. ASSUME NEW l \in FirstLine .. EndLine
      PROVE  StartIs(l, Started(ln, TRUE, l), starts1[l - FirstLine])
  <2>1. CASE l = ln
    BY <1>5, <1>7, <2>1 DEF StartIs
  <2>2. CASE l # ln
    BY <1>6, <2>2 DEF StartIs, Found
  <2> QED BY <2>1, <2>2
<1>9. IndentIs(ln, TRUE, starts1, indent1)
  <2>1. ASSUME NEW l \in FirstLine .. EndLine, Started(ln, TRUE, l)
        PROVE  indent1 <= starts1[l - FirstLine]
    <3>1. CASE l = ln
      BY <1>2, <1>3, <1>7, <3>1
    <3>2. CASE l # ln
      <4> DEFINE s == starts[l - FirstLine]
      <4>1. indent <= s /\ starts1[l - FirstLine] = s
        BY <1>6, <2>1, <3>2 DEF Found, IndentIs
      <4>2. s \in Int
        BY BoxNumbers DEF Found, ByLine
      <4> HIDE DEF s
      <4> QED BY <1>2, <1>3, <4>1, <4>2
    <3> QED BY <3>1, <3>2
  <2>2. indent1 = MaxInt \/ \E l \in FirstLine .. EndLine : Started(ln, TRUE, l) /\ indent1 = starts1[l - FirstLine]
    <3>1. CASE indent1 = column
      BY <1>1, <1>7, <3>1
    <3>2. CASE indent1 = indent /\ indent # MaxInt
      <4>1. PICK l \in FirstLine .. EndLine : Started(ln, FALSE, l) /\ indent = starts[l - FirstLine]
        BY <3>2 DEF Found, IndentIs
      <4>2. l # ln
        BY <1>7, <4>1
      <4> QED BY <1>6, <3>2, <4>1, <4>2
    <3> QED BY <1>3, <3>1, <3>2
  <2> QED BY <2>1, <2>2 DEF IndentIs
<1> QED BY <1>3, <1>4, <1>8, <1>9 DEF Found

\* Where the text of line ln ends is noted.
EndingAt(ends, ln, last) == [ends EXCEPT ![ln - FirstLine] = last - At(ln) + codeboxStart]

\* At the end of a line its text has been seen.
LEMMA LineEnded ==
  ASSUME BoxInv, EndLine - FirstLine < BoxLines, NEW c, NEW ln, Within(c, ln), EndOf(ln) <= c,
         NEW calc, NEW last, Seen(c, ln, calc, last),
         NEW starts, NEW ends, NEW indent, Found(ln, calc, starts, ends, indent),
         NEW ends1, ends1 = EndingAt(ends, ln, last)
  PROVE  /\ calc <=> Text(ln) # {}
         /\ ends1 \in ByLine
         /\ \A l \in FirstLine .. ln : EndIs(l, ends1[l - FirstLine])
<1> DEFINE k == ln - FirstLine
           end == last - At(ln) + codeboxStart
<1>1. /\ c \in Int /\ ln \in FirstLine .. EndLine /\ ln \in Int /\ ln \in 0 .. LastLine
      /\ At(ln) \in Int /\ EndOf(ln) \in Int /\ k \in 0 .. BoxLines - 1
      /\ FirstLine \in Int /\ EndLine \in Int /\ codeboxStart \in Int
  BY BoxNumbers DEF Within
<1>2. \A p \in Text(ln) : p \in Int /\ p < c
  <2>1. \A p \in Text(ln) : p \in Int /\ p < EndOf(ln)
    BY <1>1, TextFacts DEF BoxInv
  <2> QED BY <1>1, <2>1
<1>3. last \in Int /\ end \in Int /\ At(ln) + end = last + codeboxStart
      /\ At(ln) + end - 1 = codeboxStart + last - 1
  BY <1>1 DEF Seen
<1> HIDE DEF k, end
<1>4. calc <=> Text(ln) # {}
  BY <1>2 DEF Seen
<1>5. EndIs(ln, end)
  <2>1. CASE calc
    <3>1. codeboxStart + last - 1 \in Text(ln) /\ \A p \in Text(ln) : p <= codeboxStart + last - 1
      BY <1>2, <2>1 DEF Seen
    <3> QED BY <1>3, <1>4, <2>1, <3>1 DEF EndIs, IsLast
  <2>2. CASE ~ calc
    <3>1. last = -1
      BY <2>2 DEF Seen
    <3>2. At(ln) + end = codeboxStart - 1
      BY <1>1, <1>3, <3>1
    <3> QED BY <1>4, <2>2, <3>2 DEF EndIs
  <2> QED BY <2>1, <2>2
<1>6. ends1 \in ByLine /\ ends1[k] = end /\ \A j \in 0 .. BoxLines - 1 : j # k => ends1[j] = ends[j]
  BY <1>1, <1>3 DEF Found, ByLine, EndingAt, k, end
<1>7. ASSUME NEW l \in FirstLine .. ln PROVE EndIs(l, ends1[l - FirstLine])
  <2>1. CASE l = ln
    BY <1>5, <1>6, <2>1 DEF k
  <2>2. CASE l # ln
    <3>1. l \in FirstLine .. EndLine /\ l \in FirstLine .. ln - 1
      BY <1>1, <2>2
    <3>2. l - FirstLine \in 0 .. BoxLines - 1 /\ l - FirstLine # k
      BY <1>1, <2>2, <3>1, BoxNumbers DEF k
    <3>3. ends1[l - FirstLine] = ends[l - FirstLine]
      BY <1>6, <3>2
    <3> QED BY <3>1, <3>3 DEF Found
  <2> QED BY <2>1, <2>2
<1> QED BY <1>4, <1>6, <1>7

\* The next line, or position; and that none of a line's text has been seen.
Following(n) == n + 1
NotYet == FALSE

\* Behind a newline the next line is begun.
LEMMA LineBegins ==
  ASSUME BoxInv, EndLine - FirstLine < BoxLines, NEW c, NEW ln, Within(c, ln), c < codeboxEnd,
         Clear(ln), Byte(c) = "n",
         NEW calc, NEW last, Seen(c, ln, calc, last),
         NEW starts, NEW ends, NEW indent, Found(ln, calc, starts, ends, indent),
         NEW ends1, ends1 = EndingAt(ends, ln, last),
         NEW next, next = Following(ln), NEW c1, c1 = Following(c)
  PROVE  /\ ln # EndLine
         /\ Within(c1, next)
         /\ Seen(c1, next, NotYet, -1)
         /\ Found(next, NotYet, starts, ends1, indent)
<1>0. next = ln + 1 /\ c1 = c + 1
  BY DEF Following
<1>1. /\ c \in Int /\ ln \in FirstLine .. EndLine /\ ln \in Int /\ ln \in 0 .. LastLine
      /\ At(ln) \in Int /\ EndOf(ln) \in Int /\ FirstLine \in Int /\ EndLine \in Int /\ LastLine \in Int
      /\ c = EndOf(ln) /\ ln < EndLine /\ ln # LastLine
  <2>1. c = EndOf(ln) /\ ln < EndLine /\ ln # LastLine
    BY CharIsIn
  <2> QED BY <2>1, BoxNumbers DEF Within
<1>2. next \in FirstLine .. EndLine /\ next \in 0 .. LastLine /\ next \in Int
  BY <1>0, <1>1, BoxNumbers
<1>3. At(next) = c1
  BY <1>0, <1>1 DEF BoxInv, LinesInv
<1>4. /\ calc <=> Text(ln) # {}
      /\ ends1 \in ByLine
      /\ \A l \in FirstLine .. ln : EndIs(l, ends1[l - FirstLine])
  <2>1. EndOf(ln) <= c
    BY <1>0, <1>1
  <2> QED BY <2>1, LineEnded
<1>5. FirstLine .. next - 1 = FirstLine .. ln
  BY <1>0, <1>1
<1>6. Within(c1, next)
  <2>1. At(next) <= EndOf(next) /\ At(next) \in Int
    BY <1>2, BoxNumbers
  <2> QED BY <1>0, <1>1, <1>2, <1>3, <2>1 DEF Within
<1>7. Seen(c1, next, FALSE, -1)
  <2>1. \A p \in Text(next) : p \in Int /\ At(next) <= p
    BY <1>2, TextFacts DEF BoxInv
  <2> QED BY <1>0, <1>1, <1>3, <2>1 DEF Seen
<1>8. ASSUME NEW l \in FirstLine .. EndLine PROVE Started(next, FALSE, l) <=> Started(ln, calc, l)
  <2>1. l \in Int /\ next = ln + 1
    BY <1>0, <1>1
  <2>2. CASE l < ln
    BY <1>0, <1>1, <2>1, <2>2 DEF Started
  <2>3. CASE l = ln
    <3>1. l # next /\ l < next
      BY <1>0, <1>1, <2>1, <2>3
    <3> QED BY <1>4, <2>3, <3>1 DEF Started
  <2>4. CASE l > ln
    <3>1. l # ln /\ ~ (l < ln) /\ ~ (l < next)
      BY <1>0, <1>1, <2>1, <2>4
    <3> QED BY <3>1 DEF Started
  <2>5. l < ln \/ l = ln \/ l > ln
    BY <1>0, <1>1, <2>1
  <2> QED BY <2>2, <2>3, <2>4, <2>5
<1>9. ASSUME NEW l \in FirstLine .. EndLine
      PROVE  StartIs(l, Started(next, FALSE, l), starts[l - FirstLine])
  <2>1. StartIs(l, Started(ln, calc, l), starts[l - FirstLine])
    BY DEF Found
  <2> QED BY <1>8, <2>1 DEF StartIs
<1>10. IndentIs(next, FALSE, starts, indent)
  BY <1>8 DEF Found, IndentIs
<1>11. Found(next, FALSE, starts, ends1, indent)
  BY <1>4, <1>5, <1>9, <1>10 DEF Found
<1>12. ln # EndLine
  BY <1>0, <1>1
<1> QED BY <1>6, <1>7, <1>11, <1>12 DEF NotYet

\* What the first pass has found out when it is over, and keeps when it has lost count.
Scanned(starts, ends, indent) ==
  /\ starts \in ByLine /\ ends \in ByLine /\ indent \in Nat
  /\ \A l \in FirstLine .. EndLine : Clear(l) =>
       /\ StartIs(l, Text(l) # {}, starts[l - FirstLine])
       /\ EndIs(l, ends[l - FirstLine])
       /\ Text(l) # {} => indent <= starts[l - FirstLine]
  /\ Clear(EndLine) =>
       \E l \in FirstLine .. EndLine : Text(l) # {} /\ indent = starts[l - FirstLine]

\* It has lost count of the lines: the position is in its line or behind it.
Lost(c, ln, calc, last, starts, ends, indent) ==
  /\ c \in Int /\ ln \in FirstLine .. EndLine /\ ~ Clear(ln) /\ At(ln) <= c
  /\ calc \in BOOLEAN /\ last \in Int
  /\ Scanned(starts, ends, indent)

\* It loses count when it begins a line behind a break that it does not count.
LEMMA LosesCount ==
  ASSUME BoxInv, EndLine - FirstLine < BoxLines, NEW c, NEW ln, Within(c, ln), ~ Clear(ln),
         NEW last \in Int,
         NEW starts, NEW ends, NEW indent, Found(ln, NotYet, starts, ends, indent)
  PROVE  Lost(c, ln, NotYet, last, starts, ends, indent)
<1>1. /\ c \in Int /\ ln \in FirstLine .. EndLine /\ At(ln) <= c
      /\ FirstLine \in Int /\ EndLine \in Int
  BY BoxNumbers DEF Within
<1>2. ASSUME NEW l \in FirstLine .. EndLine, Clear(l)
      PROVE  l < ln /\ l # ln /\ l \in FirstLine .. ln - 1
  <2>1. ln \notin FirstLine .. l
    BY <1>2, ClearFacts
  <2> QED BY <1>1, <2>1
<1>3. ASSUME NEW l \in FirstLine .. EndLine, Clear(l)
      PROVE  /\ StartIs(l, Text(l) # {}, starts[l - FirstLine])
             /\ EndIs(l, ends[l - FirstLine])
             /\ Text(l) # {} => indent <= starts[l - FirstLine]
  <2>1. l < ln /\ l # ln /\ l \in FirstLine .. ln - 1
    BY <1>2, <1>3
  <2>2. Started(ln, NotYet, l) <=> Text(l) # {}
    BY <2>1 DEF Started
  <2>3. StartIs(l, Started(ln, NotYet, l), starts[l - FirstLine])
    BY DEF Found
  <2>4. Started(ln, NotYet, l) => indent <= starts[l - FirstLine]
    BY DEF Found, IndentIs
  <2> QED BY <2>1, <2>2, <2>3, <2>4 DEF StartIs, Found
<1>4. ~ Clear(EndLine)
  <2>1. EndLine \in FirstLine .. EndLine /\ ln \in FirstLine .. EndLine
    BY <1>1
  <2> QED BY <2>1, ClearFacts
<1>5. starts \in ByLine /\ ends \in ByLine /\ indent \in Nat
  BY DEF Found
<1> QED BY <1>1, <1>3, <1>4, <1>5 DEF Lost, Scanned, NotYet

\* What is noted of a line then is noted of none that it has counted.
LEMMA LostKeeps ==
  ASSUME BoxInv, EndLine - FirstLine < BoxLines, NEW ln \in FirstLine .. EndLine, ~ Clear(ln),
         NEW starts, NEW ends, NEW indent, Scanned(starts, ends, indent),
         NEW n \in Int, NEW m \in Int, NEW indent1 \in Nat, indent1 <= indent
  PROVE  Scanned([starts EXCEPT ![ln - FirstLine] = n], [ends EXCEPT ![ln - FirstLine] = m], indent1)
<1> DEFINE starts1 == [starts EXCEPT ![ln - FirstLine] = n]
           ends1 == [ends EXCEPT ![ln - FirstLine] = m]
<1>1. /\ FirstLine \in Int /\ EndLine \in Int /\ indent \in Nat
      /\ \A l \in FirstLine .. EndLine : l \in Int /\ l - FirstLine \in 0 .. BoxLines - 1
  BY BoxNumbers DEF Scanned
<1>2. starts1 \in ByLine /\ ends1 \in ByLine
  BY DEF Scanned, ByLine
<1>3. ASSUME NEW l \in FirstLine .. EndLine, Clear(l)
      PROVE  /\ starts1[l - FirstLine] = starts[l - FirstLine] /\ starts[l - FirstLine] \in Int
             /\ ends1[l - FirstLine] = ends[l - FirstLine]
  <2>1. l # ln
    BY <1>3
  <2>2. l - FirstLine # ln - FirstLine /\ l - FirstLine \in 0 .. BoxLines - 1
    BY <1>1, <2>1
  <2> QED BY <2>2 DEF Scanned, ByLine
<1> HIDE DEF starts1, ends1
<1>4. ASSUME NEW l \in FirstLine .. EndLine, Clear(l)
      PROVE  /\ StartIs(l, Text(l) # {}, starts1[l - FirstLine])
             /\ EndIs(l, ends1[l - FirstLine])
             /\ Text(l) # {} => indent1 <= starts1[l - FirstLine]
  <2> DEFINE s == starts[l - FirstLine]
  <2>1. /\ StartIs(l, Text(l) # {}, s)
        /\ EndIs(l, ends[l - FirstLine])
        /\ (Text(l) # {} => indent <= s)
    BY <1>4 DEF Scanned
  <2>2. s \in Int /\ starts1[l - FirstLine] = s /\ ends1[l - FirstLine] = ends[l - FirstLine]
    BY <1>3, <1>4
  <2> HIDE DEF s
  <2>3. Text(l) # {} => indent1 <= s
    BY <1>1, <2>1, <2>2
  <2> QED BY <2>1, <2>2, <2>3
<1>5. ~ Clear(EndLine)
  <2>1. EndLine \in FirstLine .. EndLine
    BY <1>1
  <2> QED BY <2>1, ClearFacts
<1>6. Scanned(starts1, ends1, indent1)
  BY <1>2, <1>4, <1>5 DEF Scanned
<1> QED BY <1>6 DEF starts1, ends1

\* The lines on which the range begins and ends.
BeginLine == CodeBox!LineOf(d.pos)
FinalLine == CodeBox!LineOf(d.end)

\* Where the range starts there is text, in a line of the box; it ends in a line of the box.
LEMMA RangeFacts ==
  ASSUME BoxInv, EndLine - FirstLine < BoxLines
  PROVE  LET f == BeginLine  g == FinalLine IN
         /\ d.pos \in Int /\ d.end \in Int /\ d.pos < d.end /\ d.end <= Len(d.text)
         /\ f \in FirstLine .. EndLine /\ g \in FirstLine .. EndLine /\ f <= g
         /\ d.pos \in Text(f)
         /\ At(g) < d.end /\ d.end <= EndOf(g)
<1> DEFINE f == BeginLine
           g == FinalLine
<1>1. /\ d.pos \in 0 .. Len(d.text) /\ d.end \in 0 .. Len(d.text) /\ d.pos < d.end
      /\ Len(d.text) \in Nat /\ LinesInv
      /\ FirstLine \in Int /\ EndLine \in Int /\ LastLine \in Int
      /\ FirstLine <= f /\ g <= EndLine
  BY BoxNumbers DEF BoxInv, BeginLine, FinalLine
<1>2. /\ f \in 0 .. LastLine /\ At(f) <= d.pos /\ d.pos <= EndOf(f)
      /\ g \in 0 .. LastLine /\ At(g) <= d.end /\ d.end <= EndOf(g)
  BY <1>1, LineOfFacts DEF BeginLine, FinalLine
<1> HIDE DEF f, g
<1>3. /\ At(f) \in Int /\ EndOf(f) \in Int /\ At(g) \in Int /\ EndOf(g) \in Int /\ 0 <= At(g)
      /\ EndOf(f) <= Len(d.text)
  BY <1>1, <1>2 DEF LinesInv
<1>4. d.pos # EndOf(f)
  <2> SUFFICES ASSUME d.pos = EndOf(f) PROVE FALSE
    OBVIOUS
  <2>1. f # LastLine
    BY <1>1, <1>3 DEF LinesInv
  <2>2. Byte(d.pos) \in {"n", "r", "l"}
    BY <1>1, <1>2, <2>1 DEF LinesInv
  <2> QED BY <2>2 DEF BoxInv
<1>5. d.pos \in Text(f)
  <2>1. d.pos \in At(f) .. EndOf(f) - 1
    BY <1>1, <1>2, <1>3, <1>4
  <2> QED BY <1>1, <1>2, <2>1, TextFacts DEF BoxInv
<1>6. f <= g
  <2> SUFFICES ASSUME g < f PROVE FALSE
    BY <1>1, <1>2
  <2>1. EndOf(g) < At(f)
    BY <1>1, <1>2 DEF LinesInv
  <2> QED BY <1>1, <1>2, <1>3, <2>1
<1>7. At(g) # d.end
  <2> SUFFICES ASSUME At(g) = d.end PROVE FALSE
    OBVIOUS
  <2> DEFINE h == g - 1
  <2>1. g # 0
    BY <1>1 DEF LinesInv
  <2>2. h \in 0 .. LastLine /\ h # LastLine /\ g = h + 1
    BY <1>1, <1>2, <2>1
  <2> HIDE DEF h
  <2>3. At(h + 1) = EndOf(h) + 1 /\ Byte(EndOf(h)) \in {"n", "r", "l"} /\ EndOf(h) \in Int
    BY <1>1, <2>2 DEF LinesInv
  <2>4. d.end - 1 = EndOf(h)
    BY <2>2, <2>3
  <2> QED BY <2>3, <2>4 DEF BoxInv
<1>8. f \in FirstLine .. EndLine /\ g \in FirstLine .. EndLine
  BY <1>1, <1>2, <1>6
<1> QED BY <1>1, <1>2, <1>3, <1>5, <1>6, <1>7, <1>8 DEF f, g

\* The pass is over at the end of the box's last line.
LEMMA ScanEnds ==
  ASSUME BoxInv, EndLine - FirstLine < BoxLines, NEW c, NEW ln, Within(c, ln), codeboxEnd <= c,
         NEW calc, NEW last, Seen(c, ln, calc, last),
         NEW starts, NEW ends, NEW indent, Found(ln, calc, starts, ends, indent),
         NEW ends1, ends1 = EndingAt(ends, ln, last)
  PROVE  ln = EndLine /\ Scanned(starts, ends1, indent)
<1>1. /\ c \in Int /\ ln \in FirstLine .. EndLine /\ ln \in Int /\ ln \in 0 .. LastLine
      /\ At(ln) \in Int /\ EndOf(ln) \in Int /\ FirstLine \in Int /\ EndLine \in Int /\ LastLine \in Int
      /\ codeboxEnd = EndOf(EndLine) /\ EndOf(EndLine) \in Int /\ EndLine \in 0 .. LastLine
      /\ At(EndLine) \in Int /\ At(EndLine) <= EndOf(EndLine)
  <2>1. EndLine \in FirstLine .. EndLine
    BY BoxNumbers DEF Within
  <2> QED BY <2>1, BoxNumbers DEF Within
<1>2. ln = EndLine
  <2> SUFFICES ASSUME ln < EndLine PROVE FALSE
    BY <1>1
  <2>1. ln # LastLine
    BY <1>1
  <2>2. c <= EndOf(ln) /\ EndOf(ln) < At(EndLine)
    BY <1>1, <2>1 DEF Within, BoxInv, LinesInv
  <2> QED BY <1>1, <2>2
<1>3. /\ calc <=> Text(ln) # {}
      /\ ends1 \in ByLine
      /\ \A l \in FirstLine .. ln : EndIs(l, ends1[l - FirstLine])
  <2>1. EndOf(ln) <= c
    BY <1>1, <1>2
  <2> QED BY <2>1, LineEnded
<1>4. ASSUME NEW l \in FirstLine .. EndLine PROVE Started(ln, calc, l) <=> Text(l) # {}
  <2>1. l = ln \/ l < ln
    BY <1>1, <1>2
  <2> QED BY <1>1, <1>3, <2>1 DEF Started
<1>5. ASSUME NEW l \in FirstLine .. EndLine
      PROVE  /\ StartIs(l, Text(l) # {}, starts[l - FirstLine])
             /\ Text(l) # {} => indent <= starts[l - FirstLine]
  <2>1. StartIs(l, Started(ln, calc, l), starts[l - FirstLine])
    BY DEF Found
  <2>2. Started(ln, calc, l) => indent <= starts[l - FirstLine]
    BY DEF Found, IndentIs
  <2> QED BY <1>4, <2>1, <2>2 DEF StartIs
<1>6. \E l \in FirstLine .. EndLine : Text(l) # {} /\ indent = starts[l - FirstLine]
  <2> DEFINE f == BeginLine
             s == starts[f - FirstLine]
  <2>1. f \in FirstLine .. EndLine /\ d.pos \in Text(f) /\ d.pos <= Len(d.text) /\ d.pos \in Int
        /\ Len(d.text) < MaxInt /\ Len(d.text) \in Nat /\ MaxInt \in Nat
    <3>1. f \in FirstLine .. EndLine /\ d.pos \in Text(f) /\ d.pos \in Int /\ d.end \in Int
          /\ d.pos < d.end /\ d.end <= Len(d.text)
      BY RangeFacts
    <3>2. Len(d.text) < MaxInt /\ Len(d.text) \in Nat /\ MaxInt \in Nat
      BY BoxNumbers
    <3> HIDE DEF f
    <3> QED BY <3>1, <3>2
  <2> HIDE DEF f
  <2>2. s \in Int /\ At(f) \in Int /\ 0 <= At(f) /\ indent \in Nat
    <3>1. f - FirstLine \in 0 .. BoxLines - 1 /\ codeboxStart <= At(f) /\ codeboxStart \in Nat /\ At(f) \in Int
      BY <2>1, BoxNumbers
    <3>2. 0 <= At(f)
      BY <3>1
    <3> QED BY <3>1, <3>2 DEF Found, ByLine
  <2>3. At(f) + s <= d.pos
    BY <1>5, <2>1 DEF StartIs, IsFirst
  <2>4. indent <= s
    BY <1>5, <2>1
  <2> HIDE DEF s
  <2>5. indent # MaxInt
    BY <2>1, <2>2, <2>3, <2>4
  <2>6. PICK l \in FirstLine .. EndLine : Started(ln, calc, l) /\ indent = starts[l - FirstLine]
    BY <2>5 DEF Found, IndentIs
  <2> QED BY <1>4, <2>6
<1>7. \A l \in FirstLine .. EndLine : EndIs(l, ends1[l - FirstLine])
  BY <1>2, <1>3
<1>8. starts \in ByLine /\ indent \in Nat
  BY DEF Found
<1> QED BY <1>2, <1>3, <1>5, <1>6, <1>7, <1>8 DEF Scanned

-----------------------------------------------------------------------------
(* The second pass. *)

\* A line is printed from one place to another and underlined in between: what is to be
\* printed and underlined of it, if the first pass has counted the lines.
Shown(l, p, indent) ==
  /\ Clear(l) => IF Text(l) = {} THEN p.from = p.to
                 ELSE p.from = At(l) + indent /\ IsLast(p.to - 1, Text(l))
  /\ p.underFrom # p.underTo =>
       p.from <= p.underFrom /\ p.underFrom <= p.underTo /\ p.underTo <= p.to
  /\ Clear(l) => \A q \in Text(l) : q \in p.underFrom .. p.underTo - 1 <=> q \in d.pos .. d.end - 1

\* What is printed of a line.
LEMMA Printed ==
  ASSUME BoxInv, EndLine - FirstLine < BoxLines, NEW starts, NEW ends, NEW indent,
         Scanned(starts, ends, indent), NEW l \in FirstLine .. EndLine, Clear(l),
         NEW from, from = At(l) + indent,
         NEW to, to = CodeBox!Max({At(l) + ends[l - FirstLine], from}),
         NEW text, text = CodeBox!Max({from, At(l) + starts[l - FirstLine]})
  PROVE  /\ from \in Int /\ to \in Int /\ text \in Int /\ from <= text /\ text <= to
         /\ Text(l) = {} => from = to
         /\ Text(l) # {} => IsFirst(text, Text(l)) /\ IsLast(to - 1, Text(l))
<1> DEFINE s == starts[l - FirstLine]
           e == ends[l - FirstLine]
<1>1. /\ At(l) \in Int /\ s \in Int /\ e \in Int /\ indent \in Nat
      /\ codeboxStart <= At(l) /\ codeboxStart \in Int
  <2>1. l - FirstLine \in 0 .. BoxLines - 1 /\ At(l) \in Int /\ codeboxStart <= At(l) /\ codeboxStart \in Int
    BY BoxNumbers
  <2> QED BY <2>1 DEF Scanned, ByLine
<1>2. /\ StartIs(l, Text(l) # {}, s) /\ EndIs(l, e) /\ Text(l) # {} => indent <= s
  BY DEF Scanned
<1>3. /\ StartIs(l, Text(l) # {}, s)
      /\ EndIs(l, e)
      /\ (Text(l) # {} => indent <= s)
  BY DEF Scanned
<1> HIDE DEF s, e
<1>4. /\ to = IF At(l) + e <= from THEN from ELSE At(l) + e
      /\ text = IF from <= At(l) + s THEN At(l) + s ELSE from
  <2>1. At(l) + e \in Int /\ At(l) + s \in Int /\ from \in Int
    BY <1>1
  <2> QED BY <2>1, OfTwo DEF s, e
<1>5. CASE Text(l) = {}
  <2>1. s = 0 /\ At(l) + e = codeboxStart - 1
    BY <1>3, <1>5 DEF StartIs, EndIs
  <2> QED BY <1>1, <1>4, <1>5, <2>1
<1>6. CASE Text(l) # {}
  <2>1. IsFirst(At(l) + s, Text(l)) /\ IsLast(At(l) + e - 1, Text(l)) /\ indent <= s
    BY <1>3, <1>6 DEF StartIs, EndIs
  <2>2. At(l) + s <= At(l) + e - 1
    BY <2>1 DEF IsFirst, IsLast
  <2>3. text = At(l) + s /\ to = At(l) + e
    BY <1>1, <1>4, <2>1, <2>2
  <2> QED BY <1>1, <1>6, <2>1, <2>2, <2>3
<1> QED BY <1>5, <1>6

\* Text on another line is before the range or behind it.
LEMMA TextAndRange ==
  ASSUME BoxInv, EndLine - FirstLine < BoxLines, NEW l \in FirstLine .. EndLine, NEW q \in Text(l)
  PROVE  /\ q \in Int
         /\ l < BeginLine => q < d.pos
         /\ BeginLine < l => d.pos < q
         /\ l < FinalLine => q < d.end
         /\ FinalLine < l => d.end <= q
<1> DEFINE f == BeginLine
           g == FinalLine
<1>1. /\ f \in FirstLine .. EndLine /\ g \in FirstLine .. EndLine /\ d.pos \in Int /\ d.end \in Int
      /\ d.pos \in Text(f) /\ At(g) < d.end /\ d.end <= EndOf(g)
  BY RangeFacts
<1> HIDE DEF f, g
<1>2. \A k \in FirstLine .. EndLine : k \in 0 .. LastLine /\ At(k) \in Int /\ EndOf(k) \in Int
  BY BoxNumbers
<1>3. q \in Int /\ At(l) <= q /\ q < EndOf(l)
  BY <1>2, TextFacts DEF BoxInv
<1>4. At(f) <= d.pos /\ d.pos < EndOf(f)
  BY <1>1, <1>2, TextFacts DEF BoxInv
<1>5. ASSUME NEW j \in FirstLine .. EndLine, NEW k \in FirstLine .. EndLine, j < k
      PROVE  EndOf(j) < At(k) /\ EndOf(j) \in Int /\ At(k) \in Int
  BY <1>2, <1>5 DEF BoxInv, LinesInv
<1>6. At(l) \in Int /\ EndOf(l) \in Int /\ At(f) \in Int /\ EndOf(f) \in Int
      /\ At(g) \in Int /\ EndOf(g) \in Int
  BY <1>1, <1>2
<1>7. /\ (l < f => EndOf(l) < At(f)) /\ (f < l => EndOf(f) < At(l))
      /\ (l < g => EndOf(l) < At(g)) /\ (g < l => EndOf(g) < At(l))
  BY <1>1, <1>5
<1>8. /\ l < f => q < d.pos
      /\ f < l => d.pos < q
      /\ l < g => q < d.end
      /\ g < l => d.end <= q
  BY <1>1, <1>3, <1>4, <1>6, <1>7
<1> QED BY <1>3, <1>8 DEF f, g

\* From where and to where line l is underlined.
UnderFrom(l, from, to, text) ==
  IF l = BeginLine THEN CodeBox!Min({CodeBox!Max({from, d.pos}), to}) ELSE text
UnderTo(l, under, to) ==
  IF l = FinalLine THEN CodeBox!Min({CodeBox!Max({under, d.end}), to})
  ELSE IF BeginLine <= l /\ l <= FinalLine THEN to
  ELSE under

\* The line is printed from from to to, its text from text on.
PrintedAt(l, from, to, text) ==
  /\ from \in Int /\ to \in Int /\ text \in Int /\ from <= text /\ text <= to
  /\ Text(l) = {} => from = to
  /\ Text(l) # {} => IsFirst(text, Text(l)) /\ IsLast(to - 1, Text(l))

\* The line, so printed, is underlined from under to end: where it has the diagnostic's range.
UnderlinedAt(l, from, to, under, end) ==
  /\ under \in Int /\ end \in Int
  /\ under # end => from <= under /\ under <= end /\ end <= to
  /\ \A q \in Text(l) : q \in under .. end - 1 <=> q \in d.pos .. d.end - 1

LEMMA Underlined ==
  ASSUME BoxInv, EndLine - FirstLine < BoxLines, NEW l \in FirstLine .. EndLine,
         NEW from, NEW to, NEW text, PrintedAt(l, from, to, text),
         NEW under, under = UnderFrom(l, from, to, text), NEW end, end = UnderTo(l, under, to)
  PROVE  UnderlinedAt(l, from, to, under, end)
<1> USE DEF PrintedAt
<1> DEFINE f == BeginLine
           g == FinalLine
<1>1. /\ f \in Int /\ g \in Int /\ l \in Int /\ f <= g /\ d.pos \in Int /\ d.end \in Int
      /\ d.pos < d.end /\ d.pos \in Text(f)
  <2>1. FirstLine \in Int /\ EndLine \in Int
    BY BoxNumbers
  <2> QED BY <2>1, RangeFacts
<1>2. ASSUME NEW q \in Text(l)
      PROVE  /\ q \in Int
             /\ l < f => q < d.pos
             /\ f < l => d.pos < q
             /\ l < g => q < d.end
             /\ g < l => d.end <= q
             /\ text <= q /\ q <= to - 1
  BY TextAndRange DEF IsFirst, IsLast
<1> HIDE DEF f, g
<1>3. under \in Int /\ from <= under /\ under <= to /\ (l = f => under = d.pos) /\ (l # f => under = text)
  <2>1. CASE l = f
    <3>1. text <= d.pos /\ d.pos <= to - 1
      BY <1>1, <1>2, <2>1
    <3> DEFINE pos == d.pos
    <3>2. CodeBox!Max({from, pos}) = pos /\ CodeBox!Min({pos, to}) = pos
      <4>1. pos \in Int /\ from <= pos /\ pos <= to /\ (to <= pos => pos = to)
        BY <1>1, <3>1
      <4> HIDE DEF pos
      <4> QED BY <4>1, OfTwo
    <3>4. under = d.pos
      BY <2>1, <3>2 DEF f, UnderFrom
    <3> QED BY <1>1, <2>1, <3>1, <3>4
  <2>2. CASE l # f
    BY <2>2 DEF f, UnderFrom
  <2> QED BY <2>1, <2>2
<1>4. CASE l = g
  <2> DEFINE m == CodeBox!Max({under, d.end})
  <2>1. m = (IF under <= d.end THEN d.end ELSE under) /\ m \in Int
    <3> DEFINE e == d.end
    <3>1. e \in Int
      BY <1>1
    <3> HIDE DEF e
    <3>2. CodeBox!Max({under, e}) = (IF under <= e THEN e ELSE under)
      BY <1>3, <3>1, OfTwo
    <3> QED BY <1>3, <3>1, <3>2 DEF e
  <2>2. end = CodeBox!Min({m, to})
    BY <1>4 DEF g, UnderTo
  <2> HIDE DEF m
  <2>3. end = IF m <= to THEN m ELSE to
    BY <2>1, <2>2, OfTwo
  <2>4. end \in Int /\ under <= end /\ end <= to
    BY <1>3, <2>1, <2>3
  <2>5. ASSUME NEW q \in Text(l) PROVE q \in under .. end - 1 <=> q \in d.pos .. d.end - 1
    <3>1. q \in Int /\ text <= q /\ q <= to - 1 /\ (f < l => d.pos < q)
      BY <1>2
    <3>2. under <= q <=> d.pos <= q
      BY <1>1, <1>3, <1>4, <3>1
    <3>3. under <= q => (q <= end - 1 <=> q <= d.end - 1)
      BY <1>1, <1>3, <2>1, <2>3, <3>1
    <3> QED BY <1>1, <1>3, <2>4, <3>1, <3>2, <3>3
  <2> QED BY <1>3, <2>4, <2>5 DEF UnderlinedAt
<1>5. CASE l # g /\ f <= l /\ l < g
  <2>2. end = to
    BY <1>1, <1>5 DEF f, g, UnderTo
  <2>3. ASSUME NEW q \in Text(l) PROVE q \in under .. end - 1 <=> q \in d.pos .. d.end - 1
    <3>1. q \in Int /\ text <= q /\ q <= to - 1 /\ (f < l => d.pos < q) /\ q < d.end
      BY <1>2, <1>5
    <3>2. under <= q <=> d.pos <= q
      BY <1>1, <1>3, <1>5, <3>1
    <3> QED BY <1>1, <1>3, <2>2, <3>1, <3>2
  <2>4. end \in Int /\ under <= end /\ end <= to
    BY <1>3, <2>2
  <2> QED BY <1>3, <2>3, <2>4 DEF UnderlinedAt
<1>6. CASE l # g /\ (l < f \/ g < l)
  <2>1. ~ (f <= l /\ l <= g)
    BY <1>1, <1>6
  <2>2. end = under
    BY <1>6, <2>1 DEF f, g, UnderTo
  <2>3. ASSUME NEW q \in Text(l) PROVE q \in under .. end - 1 <=> q \in d.pos .. d.end - 1
    <3>1. q \in Int /\ (l < f => q < d.pos) /\ (g < l => d.end <= q)
      BY <1>2
    <3> QED BY <1>1, <1>3, <1>6, <2>2, <3>1
  <2>4. end \in Int
    BY <1>3, <2>2
  <2> QED BY <1>3, <2>2, <2>3, <2>4 DEF UnderlinedAt
<1>7. l = g \/ (l # g /\ f <= l /\ l < g) \/ (l # g /\ (l < f \/ g < l))
  BY <1>1
<1> QED BY <1>4, <1>5, <1>6, <1>7

\* A position is on a line if it is before the next one, which the last line has not.
LEMMA OnLineIs ==
  ASSUME BoxInv, NEW l \in 0 .. LastLine, NEW p \in 0 .. Len(d.text), ~ (At(l) <= p /\ l = LastLine)
  PROVE  At(l) <= p /\ p < At(l + 1) <=> l = CodeBox!LineOf(p)
<1> DEFINE k == CodeBox!LineOf(p)
<1>1. k \in 0 .. LastLine /\ At(k) <= p /\ p <= EndOf(k)
      /\ \A j \in 0 .. LastLine : At(j) <= p /\ p <= EndOf(j) => j = k
  BY LineOfFacts DEF BoxInv
<1> HIDE DEF k
<1>2. p \in Int
  BY DEF BoxInv, LinesInv
<1>3. CASE l = LastLine
  <2>1. ~ (At(l) <= p)
    BY <1>3
  <2>2. l # k
    BY <1>1, <2>1
  <2> QED BY <2>1, <2>2 DEF k
<1>4. CASE l # LastLine
  <2>1. At(l + 1) = EndOf(l) + 1 /\ EndOf(l) \in Int
    BY <1>4 DEF BoxInv, LinesInv
  <2>2. p < At(l + 1) <=> p <= EndOf(l)
    BY <1>2, <2>1
  <2>3. (At(l) <= p /\ p <= EndOf(l)) <=> l = k
    BY <1>1
  <2> QED BY <2>2, <2>3 DEF k
<1> QED BY <1>3, <1>4

-----------------------------------------------------------------------------
(* printDiagnostic. *)

ScanInv ==
  /\ i \in Int
  /\ IF Clear(line)
     THEN /\ Within(codeboxStart + i, line)
          /\ Seen(codeboxStart + i, line, lineIndentCalculated, lastNonSpaceIndex)
          /\ Found(line, lineIndentCalculated, lineStarts, lineEnds, indentSize)
     ELSE Lost(codeboxStart + i, line, lineIndentCalculated, lastNonSpaceIndex,
               lineStarts, lineEnds, indentSize)

\* What is printed on one line: where it starts and ends, and what is underlined of it.
Shows == [from : Int, to : Int, underFrom : Int, underTo : Int]

PrintInv ==
  /\ Scanned(lineStarts, lineEnds, indentSize)
  /\ line \in FirstLine .. EndLine + 1
  /\ diagnosticHighlightActive \in BOOLEAN
  /\ diagnosticHighlightActive <=> (BeginLine < line /\ line <= FinalLine)
  /\ printed \in Seq(Shows) /\ Len(printed) = line - FirstLine
  /\ \A l \in FirstLine .. line - 1 : Shown(l, printed[l - FirstLine + 1], indentSize)

BoxIInv ==
  /\ BoxInv
  /\ printer \in {"start", "tooBig", "scan", "print", "panic", "done"}
  /\ printer \in {"scan", "print", "done"} => EndLine - FirstLine < BoxLines
  /\ printer = "start" =>
       /\ i = 0 /\ line = FirstLine
       /\ lineIndentCalculated = FALSE /\ lastNonSpaceIndex = -1 /\ indentSize = MaxInt
       /\ lineStarts = [l \in 0 .. BoxLines - 1 |-> 0]
       /\ lineEnds = [l \in 0 .. BoxLines - 1 |-> 0]
  /\ printer \in {"start", "scan"} => diagnosticHighlightActive = FALSE /\ printed = << >>
  /\ printer = "scan" => ScanInv
  /\ printer = "print" => PrintInv
  /\ printer = "done" => PrintInv /\ line = EndLine + 1
  /\ printer = "panic" => FinalLine = LastLine \/ ~ Clear(EndLine)

LEMMA PrinterInit == CodeBox!Init => BoxIInv
BY BoxInit DEF CodeBox!Init, BoxIInv, FirstLine

\* Nothing is found out when nothing is changed.
LEMMA ScanKept ==
  ASSUME ScanInv, UNCHANGED CodeBox!boxVars, line' = line,
         UNCHANGED <<i, lineIndentCalculated, lastNonSpaceIndex, lineStarts, lineEnds, indentSize>>
  PROVE  ScanInv'
<1>1. CASE Clear(line)
  BY <1>1, BoxKept
  DEF ScanInv, Within, Seen, Found, StartIs, EndIs, IndentIs, Started, IsFirst, IsLast, ByLine
<1>2. CASE ~ Clear(line)
  BY <1>2, BoxKept DEF ScanInv, Lost, Scanned, StartIs, EndIs, IsFirst, IsLast, ByLine
<1> QED BY <1>1, <1>2

LEMMA StartStep ==
  ASSUME BoxIInv, CodeBox!Start
  PROVE  BoxIInv'
<1>1. /\ printer = "start" /\ UNCHANGED CodeBox!boxVars
      /\ line' = line /\ UNCHANGED CodeBox!scanVars
      /\ diagnosticHighlightActive' = diagnosticHighlightActive /\ printed' = printed
      /\ printer' = IF EndLine - FirstLine >= BoxLines THEN "tooBig" ELSE "scan"
  BY DEF CodeBox!Start, EndLine, FirstLine
<1>2. /\ BoxInv /\ diagnosticHighlightActive = FALSE /\ printed = << >>
      /\ i = 0 /\ line = FirstLine
      /\ lineIndentCalculated = FALSE /\ lastNonSpaceIndex = -1 /\ indentSize = MaxInt
      /\ lineStarts = [l \in 0 .. BoxLines - 1 |-> 0]
      /\ lineEnds = [l \in 0 .. BoxLines - 1 |-> 0]
  BY <1>1 DEF BoxIInv
<1>3. BoxInv' /\ FirstLine' = FirstLine /\ EndLine' = EndLine
  BY <1>1, <1>2, BoxKept
<1>4. CASE printer' = "tooBig"
  BY <1>3, <1>4 DEF BoxIInv
<1>5. CASE printer' # "tooBig"
  <2>0. printer' = "scan" /\ ~ (EndLine - FirstLine >= BoxLines)
    BY <1>1, <1>5
  <2>1. FirstLine \in Int /\ EndLine \in Int /\ BoxLines \in Int
    BY <1>2, SourcesAssumption DEF BoxInv, LinesInv, CodeBox!TextsAssumption
  <2>2. EndLine - FirstLine < BoxLines
    BY <2>0, <2>1
  <2>3. /\ codeboxStart \in Nat /\ codeboxStart = At(FirstLine) /\ MaxInt \in Nat /\ BoxLines \in Nat
        /\ FirstLine \in FirstLine .. EndLine
        /\ At(FirstLine) <= EndOf(FirstLine) /\ FirstLine \in 0 .. LastLine
        /\ \A l \in FirstLine .. EndLine : l \in Int /\ l - FirstLine \in 0 .. BoxLines - 1
    <3>1. BeginLine \in FirstLine .. EndLine
      BY <1>2, <2>2, RangeFacts
    <3>2. FirstLine \in FirstLine .. EndLine
      BY <2>1, <3>1
    <3> QED BY <1>2, <2>2, <3>2, BoxNumbers
  <2>4. Within(codeboxStart, FirstLine)
    BY <2>3 DEF Within
  <2>5. Seen(codeboxStart, FirstLine, FALSE, -1)
    <3>1. \A p \in Text(FirstLine) : p \in Int /\ At(FirstLine) <= p
      BY <1>2, <2>3, TextFacts DEF BoxInv
    <3>2. \A p \in Text(FirstLine) : ~ (p < codeboxStart)
      BY <2>3, <3>1
    <3> QED BY <3>2 DEF Seen
  <2>6. Found(FirstLine, FALSE, lineStarts, lineEnds, indentSize)
    <3>1. lineStarts \in ByLine /\ lineEnds \in ByLine
      BY <1>2 DEF ByLine
    <3>2. ASSUME NEW l \in FirstLine .. EndLine
          PROVE  ~ Started(FirstLine, FALSE, l) /\ lineStarts[l - FirstLine] = 0
      <4>1. ~ (l < FirstLine)
        BY <2>1
      <4> QED BY <1>2, <2>3, <4>1 DEF Started
    <3>3. FirstLine .. FirstLine - 1 = {}
      BY <2>1
    <3> QED BY <1>2, <2>3, <3>1, <3>2, <3>3 DEF Found, StartIs, IndentIs
  <2>7. ScanInv
    <3>1. codeboxStart + i = codeboxStart /\ i \in Int
      BY <1>2, <2>3
    <3>2. CASE Clear(FirstLine)
      BY <1>2, <2>4, <2>5, <2>6, <3>1, <3>2 DEF ScanInv
    <3>3. CASE ~ Clear(FirstLine)
      <4>1. Found(FirstLine, NotYet, lineStarts, lineEnds, indentSize)
        BY <2>6 DEF NotYet
      <4>2. -1 \in Int
        OBVIOUS
      <4>3. Lost(codeboxStart, FirstLine, NotYet, -1, lineStarts, lineEnds, indentSize)
        BY <1>2, <2>2, <2>4, <3>3, <4>1, <4>2, LosesCount
      <4> QED BY <1>2, <3>1, <3>3, <4>3 DEF ScanInv, NotYet
    <3> QED BY <3>2, <3>3
  <2>8. ScanInv'
    BY <1>1, <2>7, ScanKept DEF CodeBox!scanVars
  <2> QED BY <1>1, <1>2, <1>3, <2>0, <2>2, <2>8 DEF BoxIInv
<1> QED BY <1>4, <1>5

\* What an invariant of the scan says of the variables as they will be.
LEMMA ScanWillBe ==
  ASSUME UNCHANGED CodeBox!boxVars, FirstLine' = FirstLine,
         NEW c, c = codeboxStart + i', i' \in Int,
         NEW ln, ln = line', NEW calc, calc = lineIndentCalculated',
         NEW last, last = lastNonSpaceIndex', NEW starts, starts = lineStarts',
         NEW ends, ends = lineEnds', NEW indent, indent = indentSize',
         IF Clear(ln) THEN Within(c, ln) /\ Seen(c, ln, calc, last) /\ Found(ln, calc, starts, ends, indent)
         ELSE Lost(c, ln, calc, last, starts, ends, indent)
  PROVE  ScanInv'
<1>1. CASE Clear(ln)
  BY <1>1, BoxKept
  DEF ScanInv, Within, Seen, Found, StartIs, EndIs, IndentIs, Started, IsFirst, IsLast, ByLine
<1>2. CASE ~ Clear(ln)
  BY <1>2, BoxKept DEF ScanInv, Lost, Scanned, StartIs, EndIs, IsFirst, IsLast, ByLine
<1> QED BY <1>1, <1>2

LEMMA ScanNewlineStep ==
  ASSUME BoxIInv, CodeBox!ScanNewline
  PROVE  BoxIInv'
<1> DEFINE c == codeboxStart + i
           next == line + 1
           c1 == c + 1
           ends1 == EndingAt(lineEnds, line, lastNonSpaceIndex)
<1>1. /\ printer = "scan" /\ UNCHANGED CodeBox!boxVars /\ printer' = printer
      /\ lineStarts' = lineStarts /\ indentSize' = indentSize
      /\ diagnosticHighlightActive' = diagnosticHighlightActive /\ printed' = printed
      /\ i < codeboxEnd - codeboxStart /\ Byte(c) = "n"
      /\ i' = i + 1
  BY DEF CodeBox!ScanNewline, CodeBox!AtChar, CodeBox!char, CodeBox!NextChar, Byte
<1>2. /\ BoxInv /\ EndLine - FirstLine < BoxLines
      /\ diagnosticHighlightActive = FALSE /\ printed = << >> /\ ScanInv
  BY <1>1 DEF BoxIInv
<1>3. BoxInv' /\ FirstLine' = FirstLine /\ EndLine' = EndLine
  BY <1>1, <1>2, BoxKept
<1>4. codeboxStart \in Int /\ codeboxEnd \in Int /\ i \in Int
  BY <1>2, BoxNumbers DEF ScanInv
<1>5. c < codeboxEnd /\ c1 = codeboxStart + i' /\ i' \in Int
  BY <1>1, <1>4
<1>6. Clear(line) => /\ Within(c, line) /\ Seen(c, line, lineIndentCalculated, lastNonSpaceIndex)
                     /\ Found(line, lineIndentCalculated, lineStarts, lineEnds, indentSize)
  BY <1>2 DEF ScanInv
<1>7. c1 = Following(c) /\ next = Following(line) /\ ends1 = EndingAt(lineEnds, line, lastNonSpaceIndex)
      /\ next = line + 1
  BY DEF Following
<1>8. ends1 = CodeBox!EndOfLine
  <2>1. lastNonSpaceIndex - At(line) + codeboxStart = CodeBox!Column(lastNonSpaceIndex)
    BY DEF At, CodeBox!Column
  <2> QED BY <2>1 DEF EndingAt, CodeBox!EndOfLine, FirstLine
<1> HIDE DEF c, next, c1, ends1
<1>9. ASSUME Clear(line) PROVE ScanInv'
  <2>1. /\ line # EndLine /\ Within(c1, next) /\ Seen(c1, next, NotYet, -1)
        /\ Found(next, NotYet, lineStarts, ends1, indentSize)
    <3>1. /\ BoxInv /\ EndLine - FirstLine < BoxLines /\ Within(c, line) /\ c < codeboxEnd
          /\ Clear(line) /\ Byte(c) = "n" /\ Seen(c, line, lineIndentCalculated, lastNonSpaceIndex)
          /\ Found(line, lineIndentCalculated, lineStarts, lineEnds, indentSize)
          /\ ends1 = EndingAt(lineEnds, line, lastNonSpaceIndex)
          /\ next = Following(line) /\ c1 = Following(c)
      BY <1>1, <1>2, <1>5, <1>6, <1>7, <1>9
    <3> QED BY ONLY <3>1, LineBegins
  <2>2. line' = next /\ lineIndentCalculated' = NotYet /\ lastNonSpaceIndex' = -1 /\ lineEnds' = ends1
    BY <1>7, <1>8, <2>1 DEF CodeBox!ScanNewline, EndLine, NotYet
  <2>3. ~ Clear(next) => Lost(c1, next, NotYet, -1, lineStarts, ends1, indentSize)
    <3>1. -1 \in Int
      OBVIOUS
    <3> QED BY <1>2, <2>1, <3>1, LosesCount
  <2> QED BY <1>1, <1>3, <1>5, <2>1, <2>2, <2>3, ScanWillBe
<1>10. ASSUME ~ Clear(line) PROVE ScanInv'
  <2>1. /\ Lost(c, line, lineIndentCalculated, lastNonSpaceIndex, lineStarts, lineEnds, indentSize)
        /\ c \in Int /\ line \in FirstLine .. EndLine /\ line \in Int /\ line \in 0 .. LastLine
        /\ At(line) \in Int /\ EndOf(line) \in Int /\ At(line) <= c /\ lastNonSpaceIndex \in Int
    <3>1. Lost(c, line, lineIndentCalculated, lastNonSpaceIndex, lineStarts, lineEnds, indentSize)
      BY <1>2, <1>10 DEF ScanInv, c
    <3> QED BY <1>2, <3>1, BoxNumbers DEF Lost
  <2>2. CASE line = EndLine
    <3>1. /\ line' = line /\ lineIndentCalculated' = lineIndentCalculated
          /\ lastNonSpaceIndex' = lastNonSpaceIndex /\ lineEnds' = lineEnds
      BY <2>2 DEF CodeBox!ScanNewline, EndLine
    <3>2. Lost(c1, line, lineIndentCalculated, lastNonSpaceIndex, lineStarts, lineEnds, indentSize)
      <4>1. c1 \in Int /\ At(line) <= c1
        BY <2>1 DEF c1
      <4> QED BY <2>1, <4>1 DEF Lost
    <3> QED BY <1>1, <1>3, <1>5, <1>10, <3>1, <3>2, ScanWillBe
  <2>3. CASE line # EndLine
    <3>1. line' = next /\ lineIndentCalculated' = NotYet /\ lastNonSpaceIndex' = -1 /\ lineEnds' = ends1
      BY <1>7, <1>8, <2>3 DEF CodeBox!ScanNewline, EndLine, NotYet
    <3>2. next \in FirstLine .. EndLine /\ ~ Clear(next)
      <4>1. next \in FirstLine .. EndLine /\ line \in FirstLine .. next
        BY <1>2, <1>7, <2>1, <2>3, BoxNumbers
      <4> QED BY <1>2, <1>10, <4>1, ClearFacts
    <3>3. At(next) <= c1 /\ c1 \in Int
      <4>1. line # LastLine
        BY <1>2, <2>1, <2>3, BoxNumbers
      <4>2. ~ (c < EndOf(line)) /\ At(next) = EndOf(line) + 1
        BY <1>1, <1>2, <1>7, <2>1, <4>1 DEF BoxInv, LinesInv
      <4> QED BY <2>1, <4>2 DEF c1
    <3>4. Scanned(lineStarts, ends1, indentSize)
      <4> DEFINE k == line - FirstLine
                 end == lastNonSpaceIndex - At(line) + codeboxStart
      <4>1. lineStarts = [lineStarts EXCEPT ![k] = lineStarts[k]] /\ lineStarts[k] \in Int
        BY <1>2, <2>1, BoxNumbers DEF Lost, Scanned, ByLine
      <4>2. end \in Int /\ ends1 = [lineEnds EXCEPT ![k] = end]
        BY <1>4, <1>7, <2>1 DEF EndingAt
      <4>3. indentSize \in Nat /\ indentSize <= indentSize
        BY <2>1 DEF Lost, Scanned
      <4>4. Scanned(lineStarts, lineEnds, indentSize)
        BY <2>1 DEF Lost
      <4> HIDE DEF end
      <4>5. Scanned([lineStarts EXCEPT ![k] = lineStarts[k]], [lineEnds EXCEPT ![k] = end], indentSize)
        <5> DEFINE start == lineStarts[k]
        <5>1. start \in Int
          BY <4>1
        <5> HIDE DEF start
        <5>2. Scanned([lineStarts EXCEPT ![k] = start], [lineEnds EXCEPT ![k] = end], indentSize)
          BY <1>2, <1>10, <2>1, <4>2, <4>3, <4>4, <5>1, LostKeeps
        <5> QED BY <5>2 DEF start
      <4> QED BY <4>1, <4>2, <4>5
    <3>5. Lost(c1, next, NotYet, -1, lineStarts, ends1, indentSize)
      BY <3>2, <3>3, <3>4 DEF Lost, NotYet
    <3> QED BY <1>1, <1>3, <1>5, <3>1, <3>2, <3>5, ScanWillBe
  <2> QED BY <2>2, <2>3
<1>11. ScanInv'
  BY <1>9, <1>10
<1> QED BY <1>1, <1>2, <1>3, <1>11 DEF BoxIInv

\* A character of a line that it counts,
LEMMA CountedCharStep ==
  ASSUME BoxIInv, CodeBox!ScanChar, Clear(line)
  PROVE  BoxIInv'
<1> DEFINE c == codeboxStart + i
           c1 == IF Byte(c) = "W" THEN c + 2 ELSE c + 1
           column == c - At(line)
<1>1. /\ printer = "scan" /\ UNCHANGED CodeBox!boxVars /\ printer' = printer
      /\ line' = line /\ lineEnds' = lineEnds
      /\ diagnosticHighlightActive' = diagnosticHighlightActive /\ printed' = printed
      /\ i < codeboxEnd - codeboxStart /\ Byte(c) # "n"
      /\ i' = IF Byte(c) \in {"W", "L"} THEN i + 2 ELSE i + 1
  BY DEF CodeBox!ScanChar, CodeBox!AtChar, CodeBox!char, CodeBox!NextChar, Byte
<1>2. /\ BoxInv /\ EndLine - FirstLine < BoxLines
      /\ diagnosticHighlightActive = FALSE /\ printed = << >> /\ ScanInv
  BY <1>1 DEF BoxIInv
<1>3. BoxInv' /\ FirstLine' = FirstLine /\ EndLine' = EndLine
  BY <1>1, <1>2, BoxKept
<1>4. codeboxStart \in Int /\ codeboxEnd \in Int /\ i \in Int
  BY <1>2, BoxNumbers DEF ScanInv
<1>5. /\ Within(c, line) /\ Seen(c, line, lineIndentCalculated, lastNonSpaceIndex)
      /\ Found(line, lineIndentCalculated, lineStarts, lineEnds, indentSize)
  BY <1>2 DEF ScanInv
<1>6. c < codeboxEnd /\ Byte(c) # "L"
  <2>1. c < codeboxEnd
    BY <1>1, <1>4
  <2> HIDE DEF c
  <2> QED BY <1>1, <1>2, <1>5, <2>1, CharIsIn
<1>7. c < codeboxEnd /\ c1 = codeboxStart + i' /\ i' \in Int
  BY <1>1, <1>4, <1>6
<1>8. c1 = IF Byte(c) = "W" THEN c + 2 ELSE c + 1
  OBVIOUS
<1>9. /\ line \in Int /\ At(line) \in Int /\ c \in Int
      /\ i + 1 = c - codeboxStart + 1 /\ CodeBox!Column(i) = column
  <2>1. line \in FirstLine .. EndLine
    BY <1>5 DEF Within
  <2>2. line \in Int /\ At(line) \in Int
    BY <1>2, <2>1, BoxNumbers
  <2> QED BY <1>4, <2>2 DEF At, CodeBox!Column
<1>10. Byte(c) \in {"x", "W"} <=> CodeBox!NotSpace
  BY <1>6 DEF CodeBox!NotSpace, CodeBox!char, CodeBox!NonSpace, Byte
<1> HIDE DEF c, c1
<1>11. Within(c1, line)
  BY <1>1, <1>2, <1>7, <1>5, <1>8, CharPassed
<1>12. CASE Byte(c) \notin {"x", "W"}
  <2>1. lineIndentCalculated' = lineIndentCalculated /\ lastNonSpaceIndex' = lastNonSpaceIndex
        /\ lineStarts' = lineStarts /\ indentSize' = indentSize
    BY <1>10, <1>12 DEF CodeBox!ScanChar
  <2>2. Seen(c1, line, lineIndentCalculated, lastNonSpaceIndex)
    <3>1. Byte(c) \notin {"x", "W", "n"}
      BY <1>1, <1>12
    <3> QED BY <1>2, <1>7, <1>5, <1>8, <3>1, SeesSpace
  <2>3. ScanInv'
    BY <1>1, <1>3, <1>7, <1>5, <1>11, <2>1, <2>2, ScanWillBe
  <2> QED BY <1>1, <1>2, <1>3, <2>3 DEF BoxIInv
<1>13. CASE Byte(c) \in {"x", "W"}
  <2>1. lineIndentCalculated' = TRUE /\ lastNonSpaceIndex' = c - codeboxStart + 1
    BY <1>9, <1>10, <1>13 DEF CodeBox!ScanChar
  <2>2. Seen(c1, line, TRUE, c - codeboxStart + 1)
    BY <1>2, <1>7, <1>5, <1>8, <1>13, SeesText
  <2>3. lineIndentCalculated \in BOOLEAN
    BY <1>5 DEF Seen
  <2>4. CASE lineIndentCalculated
    <3>1. lineStarts' = lineStarts /\ indentSize' = indentSize
      BY <1>10, <1>13, <2>4 DEF CodeBox!ScanChar
    <3>2. Found(line, TRUE, lineStarts, lineEnds, indentSize)
      <4>1. lineIndentCalculated = TRUE
        BY <2>3, <2>4
      <4> QED BY <1>5, <4>1
    <3>3. ScanInv'
      BY <1>1, <1>3, <1>7, <1>11, <2>1, <2>2, <3>1, <3>2, ScanWillBe
    <3> QED BY <1>1, <1>2, <1>3, <3>3 DEF BoxIInv
  <2>5. CASE ~ lineIndentCalculated
    <3> DEFINE starts1 == [lineStarts EXCEPT ![line - FirstLine] = c - At(line)]
               indent1 == CodeBox!Min({indentSize, c - At(line)})
    <3>1. lineStarts' = starts1 /\ indentSize' = indent1
      BY <1>9, <1>10, <1>13, <2>5 DEF CodeBox!ScanChar, FirstLine
    <3>2. starts1 = [lineStarts EXCEPT ![line - FirstLine] = c - At(line)]
          /\ indent1 = CodeBox!Min({indentSize, c - At(line)})
      OBVIOUS
    <3>3. lineIndentCalculated = FALSE
      BY <2>3, <2>5
    <3>4. Seen(c, line, FALSE, lastNonSpaceIndex)
          /\ Found(line, FALSE, lineStarts, lineEnds, indentSize)
      BY <1>5, <3>3
    <3> HIDE DEF starts1, indent1
    <3>5. Found(line, TRUE, starts1, lineEnds, indent1)
      BY <1>2, <1>7, <1>5, <1>13, <3>2, <3>4, FindsText
    <3>6. ScanInv'
      BY <1>1, <1>3, <1>7, <1>11, <2>1, <2>2, <3>1, <3>5, ScanWillBe
    <3> QED BY <1>1, <1>2, <1>3, <3>6 DEF BoxIInv
  <2> QED BY <2>4, <2>5
<1> QED BY <1>12, <1>13

\* and one behind a break that it has not counted.
LEMMA LostCharStep ==
  ASSUME BoxIInv, CodeBox!ScanChar, ~ Clear(line)
  PROVE  BoxIInv'
<1> DEFINE c == codeboxStart + i
           c1 == codeboxStart + i'
           k == line - FirstLine
           column == c - At(line)
<1>1. /\ printer = "scan" /\ UNCHANGED CodeBox!boxVars /\ printer' = printer
      /\ line' = line /\ lineEnds' = lineEnds
      /\ diagnosticHighlightActive' = diagnosticHighlightActive /\ printed' = printed
      /\ i' = i + 1 \/ i' = i + 2
  BY DEF CodeBox!ScanChar, CodeBox!NextChar, CodeBox!AtChar
<1>2. /\ BoxInv /\ EndLine - FirstLine < BoxLines
      /\ diagnosticHighlightActive = FALSE /\ printed = << >> /\ ScanInv
  BY <1>1 DEF BoxIInv
<1>3. BoxInv' /\ FirstLine' = FirstLine /\ EndLine' = EndLine
  BY <1>1, <1>2, BoxKept
<1>4. codeboxStart \in Int /\ i \in Int
  BY <1>2, BoxNumbers DEF ScanInv
<1>5. Lost(c, line, lineIndentCalculated, lastNonSpaceIndex, lineStarts, lineEnds, indentSize)
  BY <1>2 DEF ScanInv
<1>6. /\ line \in FirstLine .. EndLine /\ At(line) \in Int /\ At(line) <= c /\ c \in Int
      /\ c1 \in Int /\ At(line) <= c1 /\ i' \in Int /\ i + 1 \in Int /\ column \in Nat
  <2>1. line \in FirstLine .. EndLine /\ At(line) \in Int /\ At(line) <= c
    BY <1>2, <1>5, BoxNumbers DEF Lost
  <2> QED BY <1>1, <1>4, <2>1
<1>7. CodeBox!Column(i) = column
  BY <1>4, <1>6 DEF At, CodeBox!Column
<1>8. /\ Scanned(lineStarts, lineEnds, indentSize) /\ indentSize \in Nat
      /\ lineEnds = [lineEnds EXCEPT ![k] = lineEnds[k]] /\ lineEnds[k] \in Int
      /\ lineIndentCalculated \in BOOLEAN /\ lastNonSpaceIndex \in Int
  <2>1. k \in 0 .. BoxLines - 1
    BY <1>2, <1>6, BoxNumbers
  <2> QED BY <1>5, <2>1 DEF Lost, Scanned, ByLine
<1>9. /\ lineIndentCalculated' \in BOOLEAN /\ lastNonSpaceIndex' \in Int
      /\ \/ lineStarts' = lineStarts /\ indentSize' = indentSize
         \/ /\ lineStarts' = [lineStarts EXCEPT ![k] = CodeBox!Column(i)]
            /\ indentSize' = CodeBox!Min({indentSize, CodeBox!Column(i)})
  BY <1>6, <1>8 DEF CodeBox!ScanChar, FirstLine
<1> HIDE DEF c, c1, k, column
<1>10. Scanned(lineStarts', lineEnds, indentSize')
  <2>1. CASE lineStarts' = lineStarts /\ indentSize' = indentSize
    BY <1>8, <2>1
  <2>2. CASE /\ lineStarts' = [lineStarts EXCEPT ![k] = column]
             /\ indentSize' = CodeBox!Min({indentSize, column})
    <3> DEFINE indent1 == CodeBox!Min({indentSize, column})
               end == lineEnds[k]
    <3>1. indent1 \in Nat /\ indent1 <= indentSize
      <4>1. indent1 = IF indentSize <= column THEN indentSize ELSE column
        BY <1>6, <1>8, OfTwo
      <4> QED BY <1>6, <1>8, <4>1
    <3>2. column \in Int /\ end \in Int
      BY <1>6, <1>8
    <3> HIDE DEF indent1, end
    <3>3. Scanned([lineStarts EXCEPT ![line - FirstLine] = column],
                  [lineEnds EXCEPT ![line - FirstLine] = end], indent1)
      BY <1>2, <1>6, <1>8, <3>1, <3>2, LostKeeps
    <3> QED BY <1>8, <2>2, <3>3 DEF indent1, end, k
  <2> QED BY <1>7, <1>9, <2>1, <2>2
<1>11. Lost(c1, line, lineIndentCalculated', lastNonSpaceIndex', lineStarts', lineEnds, indentSize')
  BY <1>6, <1>9, <1>10 DEF Lost
<1>12. ScanInv'
  BY <1>1, <1>3, <1>6, <1>11, ScanWillBe DEF c1
<1> QED BY <1>1, <1>2, <1>3, <1>12 DEF BoxIInv

LEMMA EndScanStep ==
  ASSUME BoxIInv, CodeBox!EndScan
  PROVE  BoxIInv'
<1> DEFINE c == codeboxStart + i
           ends1 == EndingAt(lineEnds, line, lastNonSpaceIndex)
<1>1. /\ printer = "scan" /\ UNCHANGED CodeBox!boxVars /\ printer' = "print"
      /\ line' = FirstLine /\ lineStarts' = lineStarts /\ indentSize' = indentSize
      /\ diagnosticHighlightActive' = diagnosticHighlightActive /\ printed' = printed
      /\ i >= codeboxEnd - codeboxStart
  BY DEF CodeBox!EndScan, FirstLine
<1>2. /\ BoxInv /\ EndLine - FirstLine < BoxLines
      /\ diagnosticHighlightActive = FALSE /\ printed = << >> /\ ScanInv
  BY <1>1 DEF BoxIInv
<1>3. BoxInv' /\ FirstLine' = FirstLine /\ EndLine' = EndLine
  BY <1>1, <1>2, BoxKept
<1>4. codeboxStart \in Int /\ codeboxEnd \in Int /\ i \in Int
  BY <1>2, BoxNumbers DEF ScanInv
<1>5. codeboxEnd <= c
  BY <1>1, <1>4
<1>6. IF Clear(line)
      THEN /\ Within(c, line) /\ Seen(c, line, lineIndentCalculated, lastNonSpaceIndex)
           /\ Found(line, lineIndentCalculated, lineStarts, lineEnds, indentSize)
      ELSE Lost(c, line, lineIndentCalculated, lastNonSpaceIndex, lineStarts, lineEnds, indentSize)
  BY <1>2 DEF ScanInv
<1>7. ends1 = EndingAt(lineEnds, line, lastNonSpaceIndex)
  OBVIOUS
<1>8. ends1 = CodeBox!EndOfLine
  <2>1. lastNonSpaceIndex - At(line) + codeboxStart = CodeBox!Column(lastNonSpaceIndex)
    BY DEF At, CodeBox!Column
  <2> QED BY <2>1 DEF EndingAt, CodeBox!EndOfLine, FirstLine
<1> HIDE DEF c, ends1
<1>9. lineEnds' = IF line = EndLine THEN ends1 ELSE lineEnds
  BY <1>8 DEF CodeBox!EndScan, EndLine
<1>10. Scanned(lineStarts, lineEnds', indentSize)
  <2>1. CASE Clear(line)
    <3>1. line = EndLine /\ Scanned(lineStarts, ends1, indentSize)
      BY <1>2, <1>5, <1>6, <1>7, <2>1, ScanEnds
    <3> QED BY <1>9, <3>1
  <2>2. CASE ~ Clear(line) /\ line # EndLine
    BY <1>6, <1>9, <2>2 DEF Lost
  <2>3. CASE ~ Clear(line) /\ line = EndLine
    <3> DEFINE k == line - FirstLine
               start == lineStarts[k]
               end == lastNonSpaceIndex - At(line) + codeboxStart
    <3>1. /\ Lost(c, line, lineIndentCalculated, lastNonSpaceIndex, lineStarts, lineEnds, indentSize)
          /\ line \in FirstLine .. EndLine /\ lastNonSpaceIndex \in Int
          /\ Scanned(lineStarts, lineEnds, indentSize)
          /\ indentSize \in Nat /\ indentSize <= indentSize
      BY <1>6, <2>3 DEF Lost, Scanned
    <3>2. k \in 0 .. BoxLines - 1 /\ At(line) \in Int
      BY <1>2, <3>1, BoxNumbers
    <3>3. start \in Int /\ lineStarts = [lineStarts EXCEPT ![k] = start]
      BY <3>1, <3>2 DEF Scanned, ByLine
    <3>4. end \in Int /\ ends1 = [lineEnds EXCEPT ![k] = end]
      BY <1>4, <1>7, <3>1, <3>2 DEF EndingAt
    <3> HIDE DEF start, end
    <3>5. Scanned([lineStarts EXCEPT ![k] = start], [lineEnds EXCEPT ![k] = end], indentSize)
      BY <1>2, <2>3, <3>1, <3>3, <3>4, LostKeeps
    <3>6. Scanned(lineStarts, ends1, indentSize)
      BY <3>3, <3>4, <3>5
    <3> QED BY <1>9, <2>3, <3>6
  <2> QED BY <2>1, <2>2, <2>3
<1>11. Scanned(lineStarts, lineEnds, indentSize)'
  BY <1>1, <1>3, <1>10, BoxKept DEF Scanned, StartIs, EndIs, ByLine, IsFirst, IsLast
<1>12. FirstLine \in Int /\ EndLine \in Int /\ FirstLine <= EndLine + 1
       /\ ~ (BeginLine < FirstLine) /\ BeginLine' = BeginLine /\ FinalLine' = FinalLine
  <2>1. BeginLine \in FirstLine .. EndLine /\ FirstLine \in Int /\ EndLine \in Int
    BY <1>2, RangeFacts, BoxNumbers
  <2>2. BeginLine' = BeginLine /\ FinalLine' = FinalLine
    BY <1>1, BoxKept DEF BeginLine, FinalLine
  <2> QED BY <2>1, <2>2
<1>13. PrintInv'
  <2>1. line' \in FirstLine .. EndLine + 1 /\ Len(printed') = line' - FirstLine
        /\ printed' \in Seq(Shows) /\ FirstLine .. line' - 1 = {}
    BY <1>1, <1>2, <1>12
  <2>2. diagnosticHighlightActive' = FALSE
    BY <1>1, <1>2
  <2> QED BY <1>1, <1>3, <1>11, <1>12, <2>1, <2>2 DEF PrintInv, Shows
<1> QED BY <1>1, <1>2, <1>3, <1>13 DEF BoxIInv

\* What is printed stays right.
LEMMA PrintedKept ==
  ASSUME UNCHANGED CodeBox!boxVars, UNCHANGED <<lineStarts, lineEnds, indentSize>>
  PROVE  /\ Scanned(lineStarts, lineEnds, indentSize) => Scanned(lineStarts, lineEnds, indentSize)'
         /\ \A l, p : Shown(l, p, indentSize)' <=> Shown(l, p, indentSize)
         /\ BeginLine' = BeginLine /\ FinalLine' = FinalLine
<1>1. Scanned(lineStarts, lineEnds, indentSize) => Scanned(lineStarts, lineEnds, indentSize)'
  BY BoxKept DEF Scanned, StartIs, EndIs, ByLine, IsFirst, IsLast
<1>2. \A l, p : Shown(l, p, indentSize)' <=> Shown(l, p, indentSize)
  BY BoxKept DEF Shown, IsLast
<1>3. BeginLine' = BeginLine /\ FinalLine' = FinalLine
  BY BoxKept DEF BeginLine, FinalLine
<1> QED BY <1>1, <1>2, <1>3

\* It is the file's last line that has no next one.
LEMMA PanicsAtTheEnd ==
  ASSUME BoxInv, EndLine - FirstLine < BoxLines, PrintInv,
         CodeBox!IndexOutOfRange
  PROVE  FinalLine = LastLine
<1> DEFINE pos == d.pos
           end == d.end
           l == LastLine
<1>1. /\ pos \in 0 .. Len(d.text) /\ end \in 0 .. Len(d.text) /\ pos < end /\ Len(d.text) \in Nat
      /\ l \in Nat /\ At(l) \in Int /\ EndOf(l) = Len(d.text)
  BY DEF BoxInv, LinesInv
<1>2. At(l) <= pos \/ At(l) <= end
  BY DEF CodeBox!IndexOutOfRange, CodeBox!ReadsPastLineMap, At, LastLine
<1> HIDE DEF pos, end, l
<1>3. l \in 0 .. LastLine /\ At(l) <= end /\ end <= EndOf(l)
  BY <1>1, <1>2 DEF l
<1>4. \A j \in 0 .. LastLine : At(j) <= end /\ end <= EndOf(j) => j = CodeBox!LineOf(end)
  BY <1>1, LineOfFacts DEF BoxInv
<1> QED BY <1>3, <1>4 DEF FinalLine, end, l

\* What the second pass makes of a line of the box, and whether it is in the range after it.
LEMMA LineShown ==
  ASSUME BoxInv, EndLine - FirstLine < BoxLines, PrintInv, line <= EndLine,
         ~ CodeBox!IndexOutOfRange
  PROVE  LET from == CodeBox!lineTextStart
             to == CodeBox!lineTextEnd
             under == CodeBox!underlineStart
             end == CodeBox!underlineEnd
             active == (diagnosticHighlightActive \/ CodeBox!begins) /\ ~ CodeBox!OnLine(d.end)
         IN  /\ line \in FirstLine .. EndLine /\ line \in Int
             /\ from \in Int /\ to \in Int /\ under \in Int /\ end \in Int
             /\ from = At(line) + indentSize
             /\ under # end /\ ~ (end < under) => from <= under /\ under <= end /\ end <= to
             /\ Clear(line) => /\ ~ (end < under)
                               /\ IF Text(line) = {} THEN from = to ELSE IsLast(to - 1, Text(line))
                               /\ UnderlinedAt(line, from, to, under, end)
             /\ active <=> (BeginLine < line + 1 /\ line + 1 <= FinalLine)
<1> DEFINE l == line
           from == CodeBox!lineTextStart
           to == CodeBox!lineTextEnd
           text == CodeBox!textStart
           active == diagnosticHighlightActive
           begins == CodeBox!begins
           under == CodeBox!underlineStart
           end == CodeBox!underlineEnd
<1>1. /\ from = At(l) + indentSize
      /\ to = CodeBox!Max({At(l) + lineEnds[l - FirstLine], from})
      /\ text = CodeBox!Max({from, At(l) + lineStarts[l - FirstLine]})
  BY DEF CodeBox!lineTextStart, CodeBox!lineTextEnd, CodeBox!textStart, At, FirstLine
<1>2. /\ begins <=> ~ active /\ CodeBox!OnLine(d.pos)
      /\ under = IF begins THEN CodeBox!Min({CodeBox!Max({from, d.pos}), to}) ELSE text
      /\ end = IF CodeBox!OnLine(d.end) THEN CodeBox!Min({CodeBox!Max({under, d.end}), to})
               ELSE IF active \/ begins THEN to ELSE under
  BY DEF CodeBox!begins, CodeBox!underlineStart, CodeBox!underlineEnd
<1> HIDE DEF from, to, text, begins, under, end
<1>3. /\ FirstLine \in Int /\ EndLine \in Int /\ l \in FirstLine .. EndLine /\ l \in Int
      /\ l \in 0 .. LastLine
  <2>1. FirstLine \in Int /\ EndLine \in Int
    BY BoxNumbers
  <2>2. l \in FirstLine .. EndLine
    BY <2>1 DEF PrintInv
  <2> QED BY <2>1, <2>2, BoxNumbers
<1>4. /\ active \in BOOLEAN /\ (active <=> (BeginLine < l /\ l <= FinalLine))
      /\ Scanned(lineStarts, lineEnds, indentSize)
  BY DEF PrintInv
<1>5. /\ BeginLine \in Int /\ FinalLine \in Int /\ BeginLine <= FinalLine
      /\ d.pos \in 0 .. Len(d.text) /\ d.end \in 0 .. Len(d.text) /\ d.pos \in Int /\ d.end \in Int
      /\ d.pos < d.end
  BY <1>3, RangeFacts DEF BoxInv
<1>6. CodeBox!OnLine(d.end) <=> l = FinalLine
  <2>1. ~ (At(l) <= d.end /\ l = LastLine)
    BY DEF CodeBox!IndexOutOfRange, CodeBox!ReadsPastLineMap, At, LastLine
  <2>2. CodeBox!OnLine(d.end) <=> (At(l) <= d.end /\ d.end < At(l + 1))
    BY DEF CodeBox!OnLine, At
  <2> HIDE DEF l
  <2>3. (At(l) <= d.end /\ d.end < At(l + 1)) <=> l = CodeBox!LineOf(d.end)
    <3> DEFINE e == d.end
    <3>1. e \in 0 .. Len(d.text) /\ ~ (At(l) <= e /\ l = LastLine)
      BY <1>5, <2>1
    <3> HIDE DEF e
    <3>2. (At(l) <= e /\ e < At(l + 1)) <=> l = CodeBox!LineOf(e)
      BY <1>3, <3>1, OnLineIs
    <3> QED BY <3>2 DEF e
  <2> QED BY <2>2, <2>3 DEF FinalLine
<1>7. begins <=> l = BeginLine
  <2>1. CASE active
    <3>1. l # BeginLine
      BY <1>3, <1>4, <1>5, <2>1
    <3> QED BY <1>2, <2>1, <3>1
  <2>2. CASE ~ active
    <3>1. ~ (At(l) <= d.pos /\ l = LastLine)
      BY <2>2 DEF CodeBox!IndexOutOfRange, CodeBox!ReadsPastLineMap, At, LastLine
    <3>2. CodeBox!OnLine(d.pos) <=> (At(l) <= d.pos /\ d.pos < At(l + 1))
      BY DEF CodeBox!OnLine, At
    <3> HIDE DEF l
    <3>3. (At(l) <= d.pos /\ d.pos < At(l + 1)) <=> l = CodeBox!LineOf(d.pos)
      <4> DEFINE e == d.pos
      <4>1. e \in 0 .. Len(d.text) /\ ~ (At(l) <= e /\ l = LastLine)
        BY <1>5, <3>1
      <4> HIDE DEF e
      <4>2. (At(l) <= e /\ e < At(l + 1)) <=> l = CodeBox!LineOf(e)
        BY <1>3, <4>1, OnLineIs
      <4> QED BY <4>2 DEF e
    <3> QED BY <1>2, <2>2, <3>2, <3>3 DEF BeginLine
  <2> QED BY <2>1, <2>2
<1>8. end = UnderTo(l, under, to)
  <2>1. end = IF CodeBox!OnLine(d.end) THEN CodeBox!Min({CodeBox!Max({under, d.end}), to})
              ELSE IF active \/ begins THEN to ELSE under
    BY <1>2
  <2> HIDE DEF active, l
  <2>2. (active \/ begins) <=> (BeginLine <= l /\ l <= FinalLine)
    BY <1>3, <1>4, <1>5, <1>7
  <2> QED BY <1>6, <2>1, <2>2 DEF UnderTo
<1>9. under = UnderFrom(l, from, to, text)
  <2>1. under = IF begins THEN CodeBox!Min({CodeBox!Max({from, d.pos}), to}) ELSE text
    BY <1>2
  <2> HIDE DEF l
  <2> QED BY <1>7, <2>1 DEF UnderFrom
<1>10. (active \/ begins) /\ ~ CodeBox!OnLine(d.end) <=> (BeginLine < l + 1 /\ l + 1 <= FinalLine)
  <2> HIDE DEF l, active
  <2>1. (active \/ begins) <=> (BeginLine <= l /\ l <= FinalLine)
    BY <1>3, <1>4, <1>5, <1>7
  <2>2. (BeginLine <= l /\ l <= FinalLine /\ l # FinalLine) <=> (BeginLine < l + 1 /\ l + 1 <= FinalLine)
    BY <1>3, <1>5
  <2> QED BY <1>6, <2>1, <2>2
<1>11. /\ from \in Int /\ to \in Int /\ text \in Int /\ from <= to /\ from <= text
  <2> DEFINE a == At(l) + lineEnds[l - FirstLine]
             b == At(l) + lineStarts[l - FirstLine]
  <2>1. a \in Int /\ b \in Int /\ from \in Int
    <3>1. l - FirstLine \in 0 .. BoxLines - 1 /\ At(l) \in Int
      BY <1>3, BoxNumbers
    <3> QED BY <1>1, <1>4, <3>1 DEF Scanned, ByLine
  <2>2. to = CodeBox!Max({a, from}) /\ text = CodeBox!Max({from, b})
    BY <1>1
  <2> HIDE DEF a, b
  <2>3. to = (IF a <= from THEN from ELSE a) /\ text = (IF from <= b THEN b ELSE from)
    BY <2>1, <2>2, OfTwo
  <2> QED BY <2>1, <2>3
<1>12. under \in Int /\ from <= under
  <2> DEFINE pos == d.pos
             m == CodeBox!Max({from, pos})
  <2>1. pos \in Int
    BY <1>5
  <2> HIDE DEF pos
  <2>2. m = (IF from <= pos THEN pos ELSE from) /\ m \in Int
    BY <1>11, <2>1, OfTwo
  <2> HIDE DEF m
  <2>3. CodeBox!Min({m, to}) = IF m <= to THEN m ELSE to
    BY <1>11, <2>2, OfTwo
  <2>4. under = IF begins THEN CodeBox!Min({m, to}) ELSE text
    BY <1>2 DEF m, pos
  <2> QED BY <1>11, <2>2, <2>3, <2>4
<1>13. end \in Int /\ (end = under \/ end <= to)
  <2> DEFINE e == d.end
             m == CodeBox!Max({under, e})
  <2>1. e \in Int
    BY <1>5
  <2> HIDE DEF e
  <2>2. m = (IF under <= e THEN e ELSE under) /\ m \in Int
    BY <1>12, <2>1, OfTwo
  <2> HIDE DEF m
  <2>3. CodeBox!Min({m, to}) = IF m <= to THEN m ELSE to
    BY <1>11, <2>2, OfTwo
  <2>4. end = IF CodeBox!OnLine(d.end) THEN CodeBox!Min({m, to})
              ELSE IF active \/ begins THEN to ELSE under
    BY <1>2 DEF m, e
  <2> QED BY <1>11, <1>12, <2>2, <2>3, <2>4
<1>14. under # end /\ ~ (end < under) => from <= under /\ under <= end /\ end <= to
  BY <1>12, <1>13
<1>15. ASSUME Clear(l)
       PROVE  /\ IF Text(l) = {} THEN from = to ELSE IsLast(to - 1, Text(l))
              /\ UnderlinedAt(l, from, to, under, end)
  <2> HIDE DEF l
  <2>1. /\ from \in Int /\ to \in Int /\ text \in Int /\ from <= text /\ text <= to
        /\ Text(l) = {} => from = to
        /\ Text(l) # {} => IsFirst(text, Text(l)) /\ IsLast(to - 1, Text(l))
    BY <1>1, <1>3, <1>4, <1>15, Printed
  <2>2. PrintedAt(l, from, to, text)
    BY <2>1 DEF PrintedAt
  <2>3. /\ BoxInv /\ EndLine - FirstLine < BoxLines /\ l \in FirstLine .. EndLine
        /\ PrintedAt(l, from, to, text)
        /\ under = UnderFrom(l, from, to, text) /\ end = UnderTo(l, under, to)
    BY <1>3, <1>8, <1>9, <2>2
  <2>4. UnderlinedAt(l, from, to, under, end)
    BY ONLY <2>3, Underlined
  <2> QED BY <2>1, <2>4
<1>16. Clear(l) => ~ (end < under)
  <2>1. ASSUME Clear(l) PROVE ~ (end < under)
    <3>1. under # end => under <= end
      BY <1>15, <2>1 DEF UnderlinedAt
    <3> QED BY <1>12, <1>13, <3>1
  <2> QED BY <2>1
<1> QED BY <1>1, <1>3, <1>10, <1>11, <1>12, <1>13, <1>14, <1>15, <1>16
    DEF from, to, under, end, begins

LEMMA OtherSteps ==
  ASSUME BoxIInv, CodeBox!Panic \/ CodeBox!EndBox \/ UNCHANGED CodeBox!vars
  PROVE  BoxIInv'
<1>1. UNCHANGED CodeBox!boxVars /\ UNCHANGED CodeBox!scanVars /\ line' = line
      /\ diagnosticHighlightActive' = diagnosticHighlightActive /\ printed' = printed
  BY DEF CodeBox!Panic, CodeBox!EndBox, CodeBox!vars
<1>2. BoxInv => BoxInv' /\ FirstLine' = FirstLine /\ EndLine' = EndLine
  BY <1>1, BoxKept
<1>3. PrintInv => PrintInv'
  <2>1. UNCHANGED <<lineStarts, lineEnds, indentSize>>
    BY <1>1 DEF CodeBox!scanVars
  <2>2. FirstLine' = FirstLine /\ EndLine' = EndLine
    BY <1>1, BoxKept
  <2> QED BY <1>1, <2>1, <2>2, PrintedKept DEF PrintInv, Shows
<1>4. CASE CodeBox!Panic
  <2>1. /\ printer = "print" /\ printer' = "panic" /\ line <= EndLine
        /\ CodeBox!IndexOutOfRange \/ CodeBox!BackwardSlice
    BY <1>4 DEF CodeBox!Panic, EndLine
  <2>2. BoxInv /\ EndLine - FirstLine < BoxLines /\ PrintInv
    BY <2>1 DEF BoxIInv
  <2>3. FinalLine = LastLine \/ ~ Clear(EndLine)
    <3>1. CASE CodeBox!IndexOutOfRange
      BY <2>2, <3>1, PanicsAtTheEnd
    <3>2. CASE CodeBox!BackwardSlice
      <4>1. ~ Clear(line) /\ line \in FirstLine .. EndLine
        <5>1. ~ CodeBox!IndexOutOfRange /\ CodeBox!underlineEnd < CodeBox!underlineStart
          BY <3>2 DEF CodeBox!BackwardSlice
        <5> QED BY <2>1, <2>2, <5>1, LineShown
      <4>2. EndLine \in FirstLine .. EndLine
        BY <2>2, <4>1, BoxNumbers
      <4> QED BY <2>2, <4>1, <4>2, ClearFacts
    <3> QED BY <2>1, <3>1, <3>2
  <2>4. FinalLine' = LastLine' \/ ~ Clear(EndLine)'
    BY <1>1, <1>2, <2>2, <2>3, BoxKept DEF FinalLine
  <2> QED BY <1>2, <2>1, <2>2, <2>4 DEF BoxIInv
<1>5. CASE CodeBox!EndBox
  <2>1. printer = "print" /\ printer' = "done" /\ line > EndLine
    BY <1>5 DEF CodeBox!EndBox, EndLine
  <2>2. PrintInv /\ BoxInv /\ EndLine - FirstLine < BoxLines
    BY <2>1 DEF BoxIInv
  <2>3. line = EndLine + 1
    <3>1. FirstLine \in Int /\ EndLine \in Int
      BY <2>2, BoxNumbers
    <3> QED BY <2>1, <2>2, <3>1 DEF PrintInv
  <2> QED BY <1>1, <1>2, <1>3, <2>1, <2>2, <2>3 DEF BoxIInv
<1>6. CASE UNCHANGED CodeBox!vars
  <2>1. printer' = printer
    BY <1>6 DEF CodeBox!vars
  <2>2. UNCHANGED <<i, lineIndentCalculated, lastNonSpaceIndex, lineStarts, lineEnds, indentSize>>
    BY <1>1 DEF CodeBox!scanVars
  <2>3. ScanInv => ScanInv'
    BY <1>1, <2>2, ScanKept
  <2>4. /\ BoxIInv /\ FinalLine' = FinalLine /\ LastLine' = LastLine
        /\ Clear(EndLine)' <=> Clear(EndLine)
    BY <1>1, <1>2, BoxKept DEF FinalLine, BoxIInv
  <2> QED BY <1>1, <1>2, <1>3, <2>1, <2>2, <2>3, <2>4 DEF BoxIInv
<1> QED BY <1>4, <1>5, <1>6

LEMMA PrintLineStep ==
  ASSUME BoxIInv, CodeBox!PrintLine
  PROVE  BoxIInv'
<1> DEFINE l == line
           from == CodeBox!lineTextStart
           to == CodeBox!lineTextEnd
           under == CodeBox!underlineStart
           end == CodeBox!underlineEnd
           p == [from |-> from, to |-> to, underFrom |-> under, underTo |-> end]
<1>1. /\ printer = "print" /\ UNCHANGED CodeBox!boxVars /\ UNCHANGED CodeBox!scanVars
      /\ printer' = printer /\ line' = line + 1 /\ line <= EndLine
      /\ ~ CodeBox!IndexOutOfRange /\ ~ (end < under)
  BY DEF CodeBox!PrintLine, CodeBox!BackwardSlice, EndLine
<1>2. /\ printed' = Append(printed, p)
      /\ diagnosticHighlightActive' = ((diagnosticHighlightActive \/ CodeBox!begins) /\ ~ CodeBox!OnLine(d.end))
  BY DEF CodeBox!PrintLine
<1>3. BoxInv /\ EndLine - FirstLine < BoxLines /\ PrintInv
  BY <1>1 DEF BoxIInv
<1>4. /\ l \in FirstLine .. EndLine /\ l \in Int
      /\ from \in Int /\ to \in Int /\ under \in Int /\ end \in Int
      /\ from = At(l) + indentSize
      /\ under # end /\ ~ (end < under) => from <= under /\ under <= end /\ end <= to
      /\ Clear(l) => /\ ~ (end < under)
                     /\ IF Text(l) = {} THEN from = to ELSE IsLast(to - 1, Text(l))
                     /\ UnderlinedAt(l, from, to, under, end)
      /\ (diagnosticHighlightActive \/ CodeBox!begins) /\ ~ CodeBox!OnLine(d.end)
           <=> BeginLine < l + 1 /\ l + 1 <= FinalLine
  BY <1>1, <1>3, LineShown
<1>5. FirstLine \in Int /\ EndLine \in Int /\ l \in FirstLine .. EndLine /\ l \in Int
  BY <1>3, <1>4, BoxNumbers
<1>6. diagnosticHighlightActive' \in BOOLEAN
      /\ (diagnosticHighlightActive' <=> (BeginLine < l + 1 /\ l + 1 <= FinalLine))
  BY <1>2, <1>4
<1> HIDE DEF from, to, under, end
<1>7. Shown(l, p, indentSize) /\ p \in Shows
  <2>1. p.from = from /\ p.to = to /\ p.underFrom = under /\ p.underTo = end
    OBVIOUS
  <2>2. Shown(l, p, indentSize)
    <3> HIDE DEF l, p
    <3> QED BY <1>1, <1>4, <2>1 DEF Shown, UnderlinedAt
  <2> QED BY <1>4, <2>2 DEF Shows
<1> HIDE DEF p, l
<1>8. /\ printed' \in Seq(Shows) /\ Len(printed') = Len(printed) + 1
      /\ printed'[Len(printed) + 1] = p
      /\ \A k \in 1 .. Len(printed) : printed'[k] = printed[k]
      /\ Len(printed) \in Nat /\ Len(printed) = l - FirstLine
  <2>1. printed \in Seq(Shows) /\ Len(printed) = l - FirstLine
    BY <1>3 DEF PrintInv, l
  <2> QED BY <1>2, <1>7, <2>1
<1>9. ASSUME NEW k \in FirstLine .. l PROVE Shown(k, printed'[k - FirstLine + 1], indentSize)
  <2>1. CASE k = l
    <3>1. k - FirstLine + 1 = Len(printed) + 1
      BY <1>5, <1>8, <2>1
    <3> QED BY <1>7, <1>8, <2>1, <3>1
  <2>2. CASE k # l
    <3> DEFINE j == k - FirstLine + 1
    <3>1. k \in FirstLine .. l - 1 /\ j \in 1 .. Len(printed)
      BY <1>5, <1>8, <2>2
    <3>2. Shown(k, printed[k - FirstLine + 1], indentSize)
      BY <1>3, <3>1 DEF PrintInv, l
    <3> HIDE DEF j
    <3>3. printed'[j] = printed[j]
      BY <1>8, <3>1
    <3> QED BY <3>2, <3>3 DEF j
  <2> QED BY <2>1, <2>2
<1>10. PrintInv'
  <2>1. /\ FirstLine' = FirstLine /\ EndLine' = EndLine
        /\ UNCHANGED <<lineStarts, lineEnds, indentSize>>
    BY <1>1, BoxKept DEF CodeBox!scanVars
  <2>2. /\ Scanned(lineStarts, lineEnds, indentSize)' /\ BeginLine' = BeginLine /\ FinalLine' = FinalLine
        /\ \A k, r : Shown(k, r, indentSize)' <=> Shown(k, r, indentSize)
    BY <1>1, <1>3, <2>1, PrintedKept DEF PrintInv
  <2>3. /\ line' = l + 1 /\ line' \in FirstLine .. EndLine + 1 /\ line' - 1 = l
        /\ Len(printed') = line' - FirstLine
    BY <1>1, <1>5, <1>8 DEF l
  <2>4. ASSUME NEW k \in FirstLine .. l PROVE Shown(k, printed[k - FirstLine + 1], indentSize)'
    <3>1. FirstLine' = FirstLine
      BY <2>1
    <3>2. Shown(k, printed'[k - FirstLine + 1], indentSize)
      BY <1>9
    <3> QED BY <1>1, <2>1, <3>2, BoxKept DEF Shown, IsLast
  <2> QED BY <1>6, <1>8, <2>1, <2>2, <2>3, <2>4 DEF PrintInv, Shows
<1>11. BoxInv' /\ FirstLine' = FirstLine /\ EndLine' = EndLine
  BY <1>1, <1>3, BoxKept
<1> QED BY <1>1, <1>3, <1>10, <1>11 DEF BoxIInv

\* Where the box's text is indented least.
Indents == { CodeBox!Min(Text(l)) - At(l) : l \in { k \in FirstLine .. EndLine : Text(k) # {} } }

LEMMA IndentIsLeast ==
  ASSUME BoxInv, EndLine - FirstLine < BoxLines, Scanned(lineStarts, lineEnds, indentSize)
  PROVE  /\ \A l \in FirstLine .. EndLine :
              Clear(l) /\ Text(l) # {} => indentSize <= CodeBox!Min(Text(l)) - At(l)
         /\ Clear(EndLine) => CodeBox!Min(Indents) = indentSize
<1> DEFINE start(l) == lineStarts[l - FirstLine]
<1>1. ASSUME NEW l \in FirstLine .. EndLine, Text(l) # {}, Clear(l)
      PROVE  CodeBox!Min(Text(l)) - At(l) = start(l) /\ start(l) \in Int /\ indentSize <= start(l)
  <2>1. l - FirstLine \in 0 .. BoxLines - 1 /\ At(l) \in Int /\ l \in 0 .. LastLine
    BY <1>1, BoxNumbers
  <2>2. start(l) \in Int /\ indentSize <= start(l) /\ IsFirst(At(l) + start(l), Text(l))
    BY <1>1, <2>1 DEF Scanned, ByLine, StartIs
  <2>3. Text(l) \in SUBSET Int
    BY <2>1, TextFacts DEF BoxInv
  <2>4. CodeBox!Min(Text(l)) = At(l) + start(l)
    BY <2>2, <2>3, MinIsFirst
  <2> HIDE DEF start
  <2> QED BY <2>1, <2>2, <2>4
<1>2. ASSUME Clear(EndLine) PROVE CodeBox!Min(Indents) = indentSize
  <2>1. \A l \in FirstLine .. EndLine : Clear(l)
    <3>1. BeginLine \in FirstLine .. EndLine /\ FirstLine \in Int /\ EndLine \in Int
      BY RangeFacts, BoxNumbers
    <3>2. EndLine \in FirstLine .. EndLine
      BY <3>1
    <3> QED BY <1>2, <3>2, ClearFacts
  <2>2. Indents \in SUBSET Int /\ \A n \in Indents : indentSize <= n
    <3> HIDE DEF start
    <3> QED BY <1>1, <2>1 DEF Indents
  <2>3. indentSize \in Indents
    <3>1. PICK l \in FirstLine .. EndLine : Text(l) # {} /\ indentSize = start(l)
      BY <1>2 DEF Scanned
    <3> HIDE DEF start
    <3>2. indentSize = CodeBox!Min(Text(l)) - At(l)
      BY <1>1, <2>1, <3>1
    <3> QED BY <3>1, <3>2 DEF Indents
  <2>4. IsFirst(indentSize, Indents)
    BY <2>2, <2>3 DEF IsFirst
  <2> QED BY <2>2, <2>4, MinIsFirst
<1> HIDE DEF start
<1> QED BY <1>1, <1>2

LEMMA BoxIsShown ==
  ASSUME BoxIInv
  PROVE  CodeBox!BoxShowsLines /\ CodeBox!RangeIsUnderlined
<1> SUFFICES ASSUME printer = "done" PROVE CodeBox!BoxShowsLines /\ CodeBox!RangeIsUnderlined
  BY DEF CodeBox!BoxShowsLines, CodeBox!RangeIsUnderlined
<1> DEFINE shown(l) == printed[l - FirstLine + 1]
<1>1. /\ BoxInv /\ EndLine - FirstLine < BoxLines /\ PrintInv /\ line = EndLine + 1
      /\ FirstLine \in Int /\ EndLine \in Int /\ FirstLine <= EndLine
  <2>1. BoxInv /\ EndLine - FirstLine < BoxLines /\ PrintInv /\ line = EndLine + 1
    BY DEF BoxIInv
  <2>2. BeginLine \in FirstLine .. EndLine /\ FirstLine \in Int /\ EndLine \in Int
    BY <2>1, RangeFacts, BoxNumbers
  <2> QED BY <2>1, <2>2
<1>2. /\ Scanned(lineStarts, lineEnds, indentSize)
      /\ printed \in Seq(Shows) /\ Len(printed) = EndLine - FirstLine + 1
      /\ \A l \in FirstLine .. EndLine : shown(l) \in Shows /\ Shown(l, shown(l), indentSize)
  <2>1. /\ Scanned(lineStarts, lineEnds, indentSize) /\ printed \in Seq(Shows)
        /\ Len(printed) = line - FirstLine /\ line - 1 = EndLine
    BY <1>1 DEF PrintInv
  <2>2. ASSUME NEW l \in FirstLine .. EndLine
        PROVE  shown(l) \in Shows /\ Shown(l, shown(l), indentSize)
    <3>1. l - FirstLine + 1 \in 1 .. Len(printed)
      BY <1>1, <2>1
    <3>2. printed[l - FirstLine + 1] \in Shows
      BY <2>1, <3>1
    <3> QED BY <1>1, <2>1, <3>2 DEF PrintInv
  <2> QED BY <1>1, <2>1, <2>2
<1>3. ASSUME NEW l \in FirstLine .. EndLine, Clear(l), Text(l) # {}
      PROVE  /\ shown(l).from \in At(l) .. CodeBox!Min(Text(l))
             /\ shown(l).to = CodeBox!Max(Text(l)) + 1
             /\ Clear(EndLine) => shown(l).from = At(l) + CodeBox!Min(Indents)
  <2>1. l \in 0 .. LastLine /\ At(l) \in Int /\ indentSize \in Nat
    BY <1>1, <1>2, BoxNumbers DEF Scanned
  <2>2. Text(l) \in SUBSET Int /\ Text(l) \subseteq 0 .. Len(d.text) /\ Len(d.text) \in Nat
    BY <1>1, <2>1, TextFacts, BoxNumbers DEF BoxInv
  <2>3. shown(l).from = At(l) + indentSize /\ IsLast(shown(l).to - 1, Text(l)) /\ shown(l).to \in Int
    BY <1>2, <1>3 DEF Shown, Shows
  <2> HIDE DEF shown
  <2>4. CodeBox!Max(Text(l)) = shown(l).to - 1
    BY <2>2, <2>3, MaxIsLast
  <2>5. CodeBox!Min(Text(l)) \in Int
    <3>1. PICK p \in Text(l) : IsFirst(p, Text(l))
      BY <1>3, <2>2, FirstAndLast
    <3> QED BY <2>2, <3>1, MinIsFirst
  <2>6. /\ indentSize <= CodeBox!Min(Text(l)) - At(l)
        /\ Clear(EndLine) => CodeBox!Min(Indents) = indentSize
    BY <1>1, <1>2, <1>3, IndentIsLeast
  <2> QED BY <2>1, <2>3, <2>4, <2>5, <2>6
<1>4. Len(printed) = CodeBox!Cardinality(CodeBox!BoxLinesOf)
  <2>1. CodeBox!BoxLinesOf = FirstLine .. EndLine
    BY DEF CodeBox!BoxLinesOf, FirstLine, EndLine
  <2>2. Cardinality(FirstLine .. EndLine) = EndLine - FirstLine + 1
    BY <1>1, FS_Interval
  <2> QED BY <1>2, <2>1, <2>2, SameCount
<1>5. CodeBox!BoxLinesOf = FirstLine .. EndLine /\ \A l : CodeBox!PrintedOf(l) = shown(l)
  BY DEF CodeBox!BoxLinesOf, CodeBox!PrintedOf, FirstLine, EndLine
<1>6. Indents = { CodeBox!Min(CodeBox!TextIn(l)) - CodeBox!LineStart(l) :
                    l \in { k \in CodeBox!BoxLinesOf : CodeBox!TextIn(k) # {} } }
  BY <1>5 DEF Indents, Text, At
<1>7. CodeBox!BoxShowsLines
  <2>1. ASSUME NEW l \in FirstLine .. EndLine
        PROVE  Clear(l) =>
                 IF Text(l) = {} THEN shown(l).from = shown(l).to
                 ELSE /\ shown(l).from \in At(l) .. CodeBox!Min(Text(l))
                      /\ shown(l).to = CodeBox!Max(Text(l)) + 1
                      /\ Clear(EndLine) => shown(l).from = At(l) + CodeBox!Min(Indents)
    <3>1. CASE Text(l) = {}
      BY <1>2, <3>1 DEF Shown
    <3> QED BY <1>3, <3>1
  <2>2. Clear(EndLine) <=> ~ CodeBox!LoneBreakInBox
    BY DEF Clear, CodeBox!LoneBreakInBox, EndLine
  <2> HIDE DEF shown
  <2> QED BY <1>4, <1>5, <1>6, <2>1, <2>2 DEF CodeBox!BoxShowsLines, Text, At, Clear
<1>8. CodeBox!RangeIsUnderlined
  <2>1. ASSUME NEW l \in FirstLine .. EndLine
        PROVE  /\ shown(l).underFrom # shown(l).underTo =>
                    /\ shown(l).from <= shown(l).underFrom
                    /\ shown(l).underFrom <= shown(l).underTo
                    /\ shown(l).underTo <= shown(l).to
               /\ Clear(l) => \A q \in Text(l) :
                    q \in shown(l).underFrom .. shown(l).underTo - 1 <=> q \in d.pos .. d.end - 1
    BY <1>2 DEF Shown
  <2> HIDE DEF shown
  <2> QED BY <1>5, <2>1 DEF CodeBox!RangeIsUnderlined, Text, Clear
<1> QED BY <1>7, <1>8

PrinterInv == procedure = "printDiagnostic" => BoxIInv

LEMMA PrinterInvariant == CallsSpec => []PrinterInv
<1>1. CallsInit => PrinterInv
  BY PrinterInit DEF CallsInit, PrinterInv
<1>2. PrinterInv /\ [CallsNext]_allVars => PrinterInv'
  <2> SUFFICES ASSUME PrinterInv, [CallsNext]_allVars, procedure' = "printDiagnostic"
               PROVE  BoxIInv'
    BY DEF PrinterInv
  <2>1. CASE PrintDiagnostic
    <3>1. BoxIInv /\ CodeBox!Next
      BY <2>1 DEF PrintDiagnostic, PrinterInv
    <3>2. CASE CodeBox!Start
      BY <3>1, <3>2, StartStep
    <3>3. CASE CodeBox!ScanNewline
      BY <3>1, <3>3, ScanNewlineStep
    <3>4. CASE CodeBox!ScanChar
      BY <3>1, <3>4, CountedCharStep, LostCharStep
    <3>5. CASE CodeBox!EndScan
      BY <3>1, <3>5, EndScanStep
    <3>6. CASE CodeBox!PrintLine
      BY <3>1, <3>6, PrintLineStep
    <3>7. CASE CodeBox!Panic \/ CodeBox!EndBox
      BY <3>1, <3>7, OtherSteps
    <3> QED BY <3>1, <3>2, <3>3, <3>4, <3>5, <3>6, <3>7 DEF CodeBox!Next
  <2>2. CASE CheckArguments \/ ApplyRuleFixes \/ AskOverlay \/ CallForEntries
    BY <2>2 DEF CheckArguments, ApplyRuleFixes, AskOverlay, CallForEntries
  <2>3. CASE UNCHANGED allVars
    <3>1. UNCHANGED CodeBox!vars /\ procedure' = procedure
      BY <2>3 DEF allVars, boxVars, CodeBox!vars, CodeBox!boxVars, CodeBox!scanVars
    <3> QED BY <3>1, OtherSteps DEF PrinterInv
  <2> QED BY <2>1, <2>2, <2>3 DEF CallsNext
<1> QED BY <1>1, <1>2, PTL DEF CallsSpec

\* printDiagnostic (main.go): of any diagnostic whose range starts at a character and ends
\* behind one, in a text with line breaks of any kind, it prints the lines of the box up to
\* the first break that its scan (main.go:133) does not count, a lone carriage return or a
\* line separator, without their common indentation, and underlines on them the range and
\* nothing else; on the lines behind such a break it still cuts its slices in order.
THEOREM BoxIsRight == CallsSpec => []BoxShowsRange
<1>1. PrinterInv => BoxShowsRange
  BY BoxIsShown DEF BoxShowsRange, PrinterInv
<1> QED BY <1>1, PrinterInvariant, PTL

\* It panics (main.go:179 and 184, and the slices behind) only if the range ends on the last
\* line of the file or the box has a line break that the scan does not count.
PanicsAreConfined ==
  procedure = "printDiagnostic" /\ printer = "panic" =>
    CodeBox!LineOf(d.end) = CodeBox!LastLine \/ CodeBox!LoneBreakInBox

\* printDiagnostic neither reads past the end of the line map nor slices backwards for any
\* diagnostic that ends before the last line of its file, if its scan counts all the breaks
\* in the box.
THEOREM PanicIsConfined == CallsSpec => []PanicsAreConfined
<1>1. PrinterInv => PanicsAreConfined
  BY DEF PrinterInv, BoxIInv, PanicsAreConfined, FinalLine, LastLine, Clear, CodeBox!LoneBreakInBox,
         EndLine
<1> QED BY <1>1, PrinterInvariant, PTL

-----------------------------------------------------------------------------
(* The overlay file system. *)

\* A path goes on from another one if it is longer and begins like it.
LEMMA PrefixIs ==
  ASSUME NEW p, OverlayFS!IsSequence(p), NEW f, OverlayFS!IsSequence(f)
  PROVE  /\ Len(p) \in Nat /\ Len(f) \in Nat
         /\ OverlayFS!IsStrictPrefix(p, f) <=> Len(p) < Len(f) /\ \A k \in 1 .. Len(p) : p[k] = f[k]
<1> DEFINE S == OverlayFS!Range(p) \cup OverlayFS!Range(f)
<1>1. p \in Seq(S) /\ f \in Seq(S)
  BY DEF OverlayFS!IsSequence
<1> HIDE DEF S
<1>2. Len(p) \in Nat /\ Len(f) \in Nat
  BY <1>1
<1>3. SubSeq(p, 1, Len(p)) = p /\ SubSeq(f, 1, Len(f)) = f
  BY <1>1
<1>4. ASSUME OverlayFS!IsStrictPrefix(p, f)
      PROVE  Len(p) < Len(f) /\ \A k \in 1 .. Len(p) : p[k] = f[k]
  <2>1. Len(p) <= Len(f) /\ SubSeq(p, 1, Len(p)) = SubSeq(f, 1, Len(p)) /\ p # f
    BY <1>1, <1>4 DEF OverlayFS!IsStrictPrefix, OverlayFS!IsPrefix
  <2>2. Len(p) < Len(f)
    BY <1>2, <1>3, <2>1
  <2>3. ASSUME NEW k \in 1 .. Len(p) PROVE p[k] = f[k]
    <3>1. SubSeq(f, 1, Len(p))[k] = f[k] /\ SubSeq(f, 1, Len(p)) = p
      BY <1>1, <1>3, <2>1
    <3> QED BY <3>1
  <2> QED BY <2>2, <2>3
<1>5. ASSUME Len(p) < Len(f), \A k \in 1 .. Len(p) : p[k] = f[k]
      PROVE  OverlayFS!IsStrictPrefix(p, f)
  <2>1. SubSeq(p, 1, Len(p)) = SubSeq(f, 1, Len(p))
    BY <1>1, <1>2, <1>5
  <2>2. p # f
    BY <1>2, <1>5
  <2> QED BY <1>2, <1>5, <2>1, <2>2 DEF OverlayFS!IsStrictPrefix, OverlayFS!IsPrefix
<1> QED BY <1>2, <1>4, <1>5

\* A file is in an entry of a directory if it makes the directory have this entry.
LEMMA FilesOfAnEntry ==
  ASSUME NEW p, OverlayFS!IsSequence(p), NEW f, OverlayFS!IsSequence(f), OverlayFS!IsStrictPrefix(p, f),
         NEW g, OverlayFS!IsSequence(g)
  PROVE  OverlayFS!IsIn(g, p, OverlayFS!Entry(p, f))
           <=> OverlayFS!IsStrictPrefix(p, g) /\ OverlayFS!Entry(p, g) = OverlayFS!Entry(p, f)
<1> DEFINE n == f[Len(p) + 1]
           inner == Append(p, n)
           S == OverlayFS!Range(p) \cup OverlayFS!Range(f) \cup OverlayFS!Range(g)
           e == OverlayFS!Entry(p, f)
<1>1. p \in Seq(S) /\ f \in Seq(S) /\ g \in Seq(S)
  BY DEF OverlayFS!IsSequence
<1>2. Len(p) \in Nat /\ Len(f) \in Nat /\ Len(g) \in Nat /\ Len(p) < Len(f)
  BY PrefixIs
<1> HIDE DEF S
<1>3. n \in S
  BY <1>1, <1>2
<1> HIDE DEF n
<1>4. /\ inner \in Seq(S) /\ Len(inner) = Len(p) + 1
      /\ inner[Len(p) + 1] = n /\ \A k \in 1 .. Len(p) : inner[k] = p[k]
  BY <1>1, <1>3
<1> HIDE DEF inner
<1>5. OverlayFS!IsSequence(inner)
  <2>1. \A k \in 1 .. Len(inner) : inner[k] \in OverlayFS!Range(inner)
    BY <1>4 DEF OverlayFS!Range
  <2> QED BY <1>4, <2>1 DEF OverlayFS!IsSequence
<1>6. (e.directory <=> Len(f) > Len(p) + 1) /\ Append(p, e.name) = inner
  BY DEF OverlayFS!Entry, inner, n
<1>7. OverlayFS!IsIn(g, p, e) <=> IF Len(f) > Len(p) + 1 THEN OverlayFS!IsStrictPrefix(inner, g) ELSE g = inner
  BY <1>6 DEF OverlayFS!IsIn
<1>8. OverlayFS!Entry(p, g) = e <=> (Len(g) > Len(p) + 1 <=> Len(f) > Len(p) + 1) /\ g[Len(p) + 1] = n
  BY DEF OverlayFS!Entry, n
<1>9. OverlayFS!IsStrictPrefix(p, g) <=> Len(p) < Len(g) /\ \A k \in 1 .. Len(p) : p[k] = g[k]
  BY PrefixIs
<1>10. OverlayFS!IsStrictPrefix(inner, g)
         <=> Len(p) + 1 < Len(g) /\ \A k \in 1 .. Len(p) + 1 : inner[k] = g[k]
  BY <1>4, <1>5, PrefixIs
<1>11. g = inner <=> Len(g) = Len(p) + 1 /\ \A k \in 1 .. Len(p) + 1 : inner[k] = g[k]
  BY <1>1, <1>4
<1>12. (\A k \in 1 .. Len(p) + 1 : inner[k] = g[k]) <=> g[Len(p) + 1] = n /\ \A k \in 1 .. Len(p) : p[k] = g[k]
  <2>1. \A k \in 1 .. Len(p) + 1 : k \in 1 .. Len(p) \/ k = Len(p) + 1
    BY <1>2
  <2>2. Len(p) + 1 \in 1 .. Len(p) + 1 /\ \A k \in 1 .. Len(p) : k \in 1 .. Len(p) + 1
    BY <1>2
  <2> QED BY <1>4, <2>1, <2>2
<1> HIDE DEF e
<1> QED BY <1>2, <1>7, <1>8, <1>9, <1>10, <1>11, <1>12 DEF e

\* An order of a finite set has each of its elements once.
LEMMA OrderIs ==
  ASSUME NEW S, IsFiniteSet(S), NEW s \in OverlayFS!SetToSeqs(S)
  PROVE  /\ s \in Seq(S) /\ Len(s) \in Nat /\ DOMAIN s = 1 .. Len(s)
         /\ \A k, m \in 1 .. Len(s) : s[k] = s[m] => k = m
         /\ \A x \in S : \E k \in 1 .. Len(s) : s[k] = x
<1> DEFINE n == Cardinality(S)
<1>1. OverlayFS!Cardinality(S) = n
  BY DEF OverlayFS!Cardinality, Cardinality
<1>2. s \in [1 .. n -> S] /\ \A k, m \in 1 .. n : k # m => s[k] # s[m]
  BY <1>1 DEF OverlayFS!SetToSeqs
<1>3. n \in Nat
  BY FS_CardinalityType
<1> HIDE DEF n
<1>4. IsFiniteSet(1 .. n) /\ Cardinality(1 .. n) = n
  BY <1>3, FS_Interval
<1>5. s \in Injection(1 .. n, S)
  BY <1>2 DEF Injection, IsInjective
<1>6. s \in Surjection(1 .. n, S)
  BY <1>4, <1>5, FS_Injection DEF n
<1>7. \A x \in S : \E k \in 1 .. n : s[k] = x
  BY <1>6 DEF Surjection
<1>8. s \in Seq(S) /\ Len(s) = n
  BY <1>2, <1>3
<1> QED BY <1>2, <1>3, <1>7, <1>8

AskInv ==
  /\ asked.fs \in FileSystems /\ asked.path \in Paths
  /\ answered => answer \in OverlayFS!GetAccessibleEntries(asked.fs, asked.path)

\* What is listed: first the entries of the file system below, each once, then one for each file
\* in memory.
LEMMA ListIs ==
  ASSUME AskInv, answered
  PROVE  LET path == asked.path
             below == OverlayFS!Below(asked.fs, path)
             held == OverlayFS!Within(asked.fs.virtual, path)
         IN  \E n \in Nat, order \in Seq(held) :
               /\ DOMAIN answer = 1 .. n + Len(order) /\ (answer = << >> <=> n + Len(order) = 0)
               /\ \A k \in 1 .. n : answer[k] \in below
               /\ \A k, m \in 1 .. n : answer[k] = answer[m] => k = m
               /\ \A e \in below : \E k \in 1 .. n : answer[k] = e
               /\ Len(order) \in Nat
               /\ \A k \in n + 1 .. n + Len(order) :
                    order[k - n] \in held /\ answer[k] = OverlayFS!Entry(path, order[k - n])
               /\ \A k, m \in n + 1 .. n + Len(order) : order[k - n] = order[m - n] => k = m
               /\ \A f \in held : \E k \in n + 1 .. n + Len(order) : order[k - n] = f
<1> DEFINE fs == asked.fs
           path == asked.path
           below == OverlayFS!Below(fs, path)
           held == OverlayFS!Within(fs.virtual, path)
           entry(f) == OverlayFS!Entry(path, f)
<1>1. IsFiniteSet(fs.files) /\ IsFiniteSet(fs.virtual)
  BY OverlayAssumption DEF AskInv, OverlayFS!OverlayAssumption, OverlayFS!IsFiniteSet, IsFiniteSet
<1>2. PICK first \in OverlayFS!SetToSeqs(below), order \in OverlayFS!SetToSeqs(held) :
        answer = first \o OverlayFS!Appended(path, order)
  BY DEF AskInv, OverlayFS!GetAccessibleEntries
<1> HIDE DEF fs, path
<1>3. IsFiniteSet(held)
  BY <1>1, FS_Subset DEF OverlayFS!Within
<1>4. IsFiniteSet(below)
  <2>1. IsFiniteSet(OverlayFS!Within(fs.files, path))
    BY <1>1, FS_Subset DEF OverlayFS!Within
  <2>2. below = { entry(f) : f \in OverlayFS!Within(fs.files, path) }
    BY DEF OverlayFS!Below
  <2> DEFINE W == OverlayFS!Within(fs.files, path)
             image == [f \in W |-> entry(f)]
  <2> HIDE DEF entry, below, W
  <2>3. image \in Surjection(W, below)
    BY <2>2 DEF Surjection, W
  <2> HIDE DEF image
  <2> QED BY <2>1, <2>3, FS_Surjection DEF W
<1> HIDE DEF held, below
<1> DEFINE n == Len(first)
           last == OverlayFS!Appended(path, order)
<1>5. /\ first \in Seq(below) /\ n \in Nat /\ DOMAIN first = 1 .. n
      /\ \A k, m \in 1 .. n : first[k] = first[m] => k = m
      /\ \A e \in below : \E k \in 1 .. n : first[k] = e
  BY <1>4, OrderIs
<1>6. /\ order \in Seq(held) /\ Len(order) \in Nat /\ DOMAIN order = 1 .. Len(order)
      /\ \A k, m \in 1 .. Len(order) : order[k] = order[m] => k = m
      /\ \A f \in held : \E k \in 1 .. Len(order) : order[k] = f
  BY <1>3, OrderIs
<1>7. last = [k \in 1 .. Len(order) |-> entry(order[k])]
  BY <1>6 DEF OverlayFS!Appended
<1>8. /\ last \in Seq({ entry(f) : f \in held }) /\ Len(last) = Len(order)
      /\ \A k \in 1 .. Len(order) : order[k] \in held /\ last[k] = entry(order[k])
  <2> HIDE DEF last, entry
  <2>1. \A k \in 1 .. Len(order) : order[k] \in held
    BY <1>6
  <2>2. last \in [1 .. Len(order) -> { entry(f) : f \in held }]
    BY <1>7, <2>1
  <2> QED BY <1>6, <1>7, <2>1, <2>2
<1> HIDE DEF last, n, entry
<1>9. /\ DOMAIN answer = 1 .. n + Len(order) /\ (answer = << >> <=> n + Len(order) = 0)
      /\ \A k \in 1 .. n : answer[k] = first[k]
      /\ \A k \in 1 .. Len(order) : answer[n + k] = last[k]
  <2> DEFINE T == below \cup { entry(f) : f \in held }
  <2>1. first \in Seq(T) /\ last \in Seq(T) /\ answer = first \o last /\ n = Len(first)
    BY <1>2, <1>5, <1>8 DEF last, n
  <2> HIDE DEF T
  <2>2. answer \in Seq(T) /\ Len(answer) = n + Len(last) /\ n \in Nat /\ Len(last) \in Nat
    BY <2>1
  <2>3. DOMAIN answer = 1 .. n + Len(last) /\ (answer = << >> <=> n + Len(last) = 0)
    BY <2>2
  <2>4. ASSUME NEW k \in 1 .. n PROVE answer[k] = first[k]
    BY <2>1, <2>2
  <2>5. ASSUME NEW k \in 1 .. Len(last) PROVE answer[n + k] = last[k]
    BY <2>1, <2>2
  <2> QED BY <1>8, <2>3, <2>4, <2>5
<1>10. \A k \in 1 .. n : first[k] \in below
  BY <1>5 DEF n
<1>11. \A k \in n + 1 .. n + Len(order) : k - n \in 1 .. Len(order) /\ n + (k - n) = k
  BY <1>5, <1>6
<1>12. \A k \in 1 .. Len(order) : n + k \in n + 1 .. n + Len(order) /\ (n + k) - n = k
  BY <1>5, <1>6
<1>13. /\ \A k \in n + 1 .. n + Len(order) : order[k - n] \in held /\ answer[k] = entry(order[k - n])
       /\ \A f \in held : \E k \in n + 1 .. n + Len(order) : order[k - n] = f
  <2>1. ASSUME NEW k \in n + 1 .. n + Len(order)
        PROVE  order[k - n] \in held /\ answer[k] = entry(order[k - n])
    BY <1>8, <1>9, <1>11
  <2>2. ASSUME NEW f \in held PROVE \E k \in n + 1 .. n + Len(order) : order[k - n] = f
    <3>1. PICK k \in 1 .. Len(order) : order[k] = f
      BY <1>6
    <3>2. n + k \in n + 1 .. n + Len(order) /\ order[(n + k) - n] = f
      BY <1>12, <3>1
    <3> QED BY <3>2
  <2> QED BY <2>1, <2>2
<1>14. \A k, m \in n + 1 .. n + Len(order) : order[k - n] = order[m - n] => k = m
  <2>1. ASSUME NEW k \in n + 1 .. n + Len(order), NEW m \in n + 1 .. n + Len(order),
               order[k - n] = order[m - n]
        PROVE  k = m
    <3>1. k - n = m - n
      BY <1>6, <1>11, <2>1
    <3> QED BY <1>5, <3>1
  <2> QED BY <2>1
<1>15. /\ \A k \in 1 .. n : answer[k] \in below
       /\ \A k, m \in 1 .. n : answer[k] = answer[m] => k = m
       /\ \A e \in below : \E k \in 1 .. n : answer[k] = e
  BY <1>5, <1>9, <1>10
<1> QED BY <1>5, <1>6, <1>9, <1>13, <1>14, <1>15 DEF fs, path, below, held, entry

LEMMA WhatIsListedIs ==
  ASSUME AskInv
  PROVE  OverlayFS!ViewsAgree
<1> DEFINE fs == asked.fs
           path == asked.path
           all == fs.files \cup fs.virtual
           Goes(f) == OverlayFS!IsStrictPrefix(path, f)
           entry(f) == OverlayFS!Entry(path, f)
<1>1. OverlayFS!IsSequence(path) /\ \A f \in all : OverlayFS!IsSequence(f)
  BY OverlayAssumption DEF AskInv, OverlayFS!OverlayAssumption
<1>2. OverlayFS!FileExists(fs, path) <=> OverlayFS!Answers(fs, path) # "nobody"
  BY DEF OverlayFS!FileExists, OverlayFS!Answers
<1>3. ASSUME answered
      PROVE  /\ OverlayFS!DirectoryExists(fs, path) <=> answer # << >>
             /\ \A k \in DOMAIN answer :
                  LET inner == Append(path, answer[k].name)
                  IN  IF answer[k].directory THEN OverlayFS!DirectoryExists(fs, inner)
                      ELSE OverlayFS!FileExists(fs, inner)
             /\ \A f \in all : Goes(f) => \E k \in DOMAIN answer : OverlayFS!IsIn(f, path, answer[k])
             /\ \A k \in DOMAIN answer :
                  (\E m \in DOMAIN answer : m # k /\ answer[m] = answer[k])
                    <=> \E f \in fs.virtual :
                          /\ OverlayFS!IsIn(f, path, answer[k])
                          /\ \E g \in fs.files \cup (fs.virtual \ {f}) : OverlayFS!IsIn(g, path, answer[k])
  <2>1. PICK n \in Nat, order \in Seq(OverlayFS!Within(fs.virtual, path)) :
          /\ DOMAIN answer = 1 .. n + Len(order) /\ (answer = << >> <=> n + Len(order) = 0)
          /\ \A k \in 1 .. n : answer[k] \in OverlayFS!Below(fs, path)
          /\ \A k, m \in 1 .. n : answer[k] = answer[m] => k = m
          /\ \A e \in OverlayFS!Below(fs, path) : \E k \in 1 .. n : answer[k] = e
          /\ Len(order) \in Nat
          /\ \A k \in n + 1 .. n + Len(order) :
               order[k - n] \in OverlayFS!Within(fs.virtual, path) /\ answer[k] = entry(order[k - n])
          /\ \A k, m \in n + 1 .. n + Len(order) : order[k - n] = order[m - n] => k = m
          /\ \A f \in OverlayFS!Within(fs.virtual, path) :
               \E k \in n + 1 .. n + Len(order) : order[k - n] = f
    BY <1>3, ListIs
  <2> HIDE DEF fs, path, entry, Goes
  <2> DEFINE OnDisk == 1 .. n
             InMemory == n + 1 .. n + Len(order)
             of(k) == order[k - n]
  <2>2. DOMAIN answer = OnDisk \cup InMemory /\ OnDisk \cap InMemory = {}
    BY <2>1
  <2>3. /\ \A f : f \in OverlayFS!Within(fs.virtual, path) <=> f \in fs.virtual /\ Goes(f)
        /\ \A f : f \in OverlayFS!Within(fs.files, path) <=> f \in fs.files /\ Goes(f)
    BY DEF OverlayFS!Within, Goes
  <2>4. \A e : e \in OverlayFS!Below(fs, path) <=> \E f \in fs.files : Goes(f) /\ e = entry(f)
    <3>1. OverlayFS!Below(fs, path) = { entry(f) : f \in OverlayFS!Within(fs.files, path) }
      BY DEF OverlayFS!Below, entry
    <3> QED BY <2>3, <3>1
  <2>5. /\ \A k \in OnDisk : \E f \in fs.files : Goes(f) /\ answer[k] = entry(f)
        /\ \A k, m \in OnDisk : answer[k] = answer[m] => k = m
        /\ \A f \in fs.files : Goes(f) => \E k \in OnDisk : answer[k] = entry(f)
    BY <2>1, <2>4
  <2>6. /\ \A k \in InMemory : of(k) \in fs.virtual /\ Goes(of(k)) /\ answer[k] = entry(of(k))
        /\ \A k, m \in InMemory : of(k) = of(m) => k = m
        /\ \A f \in fs.virtual : Goes(f) => \E k \in InMemory : of(k) = f
    <3>1. ASSUME NEW k \in InMemory
          PROVE  of(k) \in fs.virtual /\ Goes(of(k)) /\ answer[k] = entry(of(k))
      BY <2>1, <2>3
    <3>2. \A k, m \in InMemory : of(k) = of(m) => k = m
      BY <2>1
    <3>3. ASSUME NEW f \in fs.virtual, Goes(f) PROVE \E k \in InMemory : of(k) = f
      BY <2>1, <2>3, <3>3
    <3> QED BY <3>1, <3>2, <3>3
  <2>7. answer = << >> <=> DOMAIN answer = {}
    <3>1. n + Len(order) \in Nat /\ DOMAIN answer = 1 .. n + Len(order)
      BY <2>1
    <3>2. 1 .. n + Len(order) = {} <=> n + Len(order) = 0
      BY <3>1
    <3> QED BY <2>1, <3>1, <3>2
  <2> HIDE DEF OnDisk, InMemory, of
  <2>8. ASSUME NEW k \in DOMAIN answer
        PROVE  /\ \E f \in all : Goes(f) /\ answer[k] = entry(f)
               /\ \A g \in all : OverlayFS!IsIn(g, path, answer[k]) <=> Goes(g) /\ entry(g) = answer[k]
    <3>1. PICK f \in all : Goes(f) /\ answer[k] = entry(f)
      BY <2>2, <2>5, <2>6
    <3>2. ASSUME NEW g \in all
          PROVE  OverlayFS!IsIn(g, path, answer[k]) <=> Goes(g) /\ entry(g) = answer[k]
      BY <1>1, <3>1, FilesOfAnEntry DEF Goes, entry
    <3> QED BY <3>1, <3>2
  <2>9. OverlayFS!DirectoryExists(fs, path) <=> answer # << >>
    <3>1. OverlayFS!DirectoryExists(fs, path) <=> \E f \in all : Goes(f)
      BY DEF OverlayFS!DirectoryExists, Goes
    <3>2. (\E f \in all : Goes(f)) <=> \E k : k \in DOMAIN answer
      BY <2>2, <2>5, <2>6
    <3> QED BY <2>7, <3>1, <3>2
  <2>10. ASSUME NEW k \in DOMAIN answer
         PROVE  LET inner == Append(path, answer[k].name)
                IN  IF answer[k].directory THEN OverlayFS!DirectoryExists(fs, inner)
                    ELSE OverlayFS!FileExists(fs, inner)
    <3>1. PICK f \in all : OverlayFS!IsIn(f, path, answer[k])
      BY <2>8
    <3> QED BY <3>1 DEF OverlayFS!IsIn, OverlayFS!DirectoryExists, OverlayFS!FileExists
  <2>11. ASSUME NEW f \in all, Goes(f) PROVE \E k \in DOMAIN answer : OverlayFS!IsIn(f, path, answer[k])
    <3>1. PICK k \in DOMAIN answer : answer[k] = entry(f)
      BY <2>2, <2>5, <2>6, <2>11
    <3> QED BY <2>8, <2>11, <3>1
  <2>12. ASSUME NEW k \in DOMAIN answer, NEW m \in DOMAIN answer, m # k, answer[m] = answer[k]
         PROVE  \E f \in fs.virtual :
                  /\ OverlayFS!IsIn(f, path, answer[k])
                  /\ \E g \in fs.files \cup (fs.virtual \ {f}) : OverlayFS!IsIn(g, path, answer[k])
    <3>1. \A j \in {k, m} : j \in InMemory => of(j) \in fs.virtual /\ OverlayFS!IsIn(of(j), path, answer[k])
      BY <2>6, <2>8, <2>12
    <3>2. \A j \in {k, m} : j \in OnDisk => \E g \in fs.files : OverlayFS!IsIn(g, path, answer[k])
      BY <2>5, <2>8, <2>12
    <3>3. k \in InMemory \/ m \in InMemory
      BY <2>2, <2>5, <2>12
    <3>4. k \in InMemory /\ m \in InMemory => of(k) # of(m)
      BY <2>6, <2>12
    <3>5. CASE k \in InMemory
      BY <2>2, <3>1, <3>2, <3>4, <3>5
    <3>6. CASE m \in InMemory
      BY <2>2, <3>1, <3>2, <3>4, <3>6
    <3> QED BY <3>3, <3>5, <3>6
  <2>13. ASSUME NEW k \in DOMAIN answer,
                NEW f \in fs.virtual, OverlayFS!IsIn(f, path, answer[k]),
                NEW g \in fs.files \cup (fs.virtual \ {f}), OverlayFS!IsIn(g, path, answer[k])
         PROVE  \E m \in DOMAIN answer : m # k /\ answer[m] = answer[k]
    <3>1. Goes(f) /\ entry(f) = answer[k] /\ Goes(g) /\ entry(g) = answer[k]
      BY <2>8, <2>13
    <3>2. PICK i1 \in InMemory : of(i1) = f /\ answer[i1] = answer[k]
      BY <2>6, <3>1
    <3>3. PICK i2 \in DOMAIN answer : i2 # i1 /\ answer[i2] = answer[k]
      <4>1. CASE g \in fs.files
        BY <2>2, <2>5, <3>1, <4>1
      <4>2. CASE g \in fs.virtual \ {f}
        BY <2>2, <2>6, <3>1, <3>2, <4>2
      <4> QED BY <4>1, <4>2
    <3> QED BY <2>2, <3>2, <3>3
  <2> HIDE DEF all
  <2> QED BY <2>9, <2>10, <2>11, <2>12, <2>13
<1> QED BY <1>2, <1>3 DEF OverlayFS!ViewsAgree, fs, path, all, Goes

\* The first n elements of a sequence.
FirstOf(s, n) == { s[k] : k \in 1 .. n }

Entries == EntriesOnDisk \cup virtual

\* The cache has the files on disk, whatever is in its array behind them.
CacheInv ==
  /\ \A f, g \in virtual : f = g
  /\ cache = [array |-> cache.array, length |-> cache.length]
  /\ OverlayFS!IsSequence(cache.array) /\ cache.length \in 0 .. Len(cache.array)
  /\ FirstOf(cache.array, cache.length) = EntriesOnDisk
  /\ cache.length = Cardinality(EntriesOnDisk)

\* A caller r has appended nothing, or the file in memory: to an array of its own, or in the
\* array of the cache, where another caller can only have written the same.
CallerIs(r, array, n, memory) ==
  /\ r \in [own : Seq(EntriesOnDisk \cup memory), length : Int, todo : {{}, memory}]
  /\ r.own = << >> /\ r.todo = memory => r.length = n
  /\ r.own = << >> /\ r.todo # memory =>
       /\ r.length = n + 1 /\ r.length <= Len(array)
       /\ array[r.length] \in memory
  /\ r.own # << >> =>
       /\ r.todo = {} /\ memory # {}
       /\ Len(r.own) = n + 1 /\ FirstOf(r.own, n) = EntriesOnDisk /\ r.own[n + 1] \in memory

EntriesInv ==
  /\ CacheInv
  /\ callers = [c \in Callers |-> callers[c]]
  /\ \A c \in Callers : CallerIs(callers[c], cache.array, cache.length, virtual)

LEMMA CacheIs ==
  ASSUME CacheInv
  PROVE  /\ cache.array \in Seq(OverlayFS!Range(cache.array))
         /\ Len(cache.array) \in Nat /\ DOMAIN cache.array = 1 .. Len(cache.array)
         /\ cache.length \in Nat /\ cache.length <= Len(cache.array)
         /\ SubSeq(cache.array, 1, cache.length) \in Seq(EntriesOnDisk)
         /\ Len(SubSeq(cache.array, 1, cache.length)) = cache.length
         /\ FirstOf(SubSeq(cache.array, 1, cache.length), cache.length) = EntriesOnDisk
<1> DEFINE array == cache.array
           n == cache.length
           S == OverlayFS!Range(array)
           front == SubSeq(array, 1, n)
<1>1. array \in Seq(S) /\ n \in 0 .. Len(array) /\ FirstOf(array, n) = EntriesOnDisk
  BY DEF CacheInv, OverlayFS!IsSequence
<1> HIDE DEF array, n, S
<1>2. Len(array) \in Nat /\ DOMAIN array = 1 .. Len(array) /\ n \in Nat /\ n <= Len(array)
  BY <1>1
<1>3. front \in Seq(S) /\ Len(front) = n /\ \A k \in 1 .. n : front[k] = array[k]
  BY <1>1, <1>2
<1> HIDE DEF front
<1>4. FirstOf(front, n) = EntriesOnDisk
  BY <1>1, <1>3 DEF FirstOf
<1>5. \A k \in 1 .. n : front[k] \in EntriesOnDisk
  BY <1>4 DEF FirstOf
<1>6. front \in Seq(EntriesOnDisk)
  BY <1>2, <1>3, <1>5
<1> QED BY <1>1, <1>2, <1>3, <1>4, <1>6 DEF array, n, S, front

LEMMA CalledIs ==
  ASSUME CacheInv
  PROVE  CallerIs(OverlayFS!Called, cache.array, cache.length, virtual)
BY CacheIs DEF CallerIs, OverlayFS!Called

LEMMA EntriesInit == OverlayFS!CallInit => EntriesInv
<1> SUFFICES ASSUME OverlayFS!CallInit PROVE EntriesInv
  OBVIOUS
<1>1. /\ cache \in EntryCaches /\ virtual \in EntriesInMemory
      /\ callers = [c \in Callers |-> OverlayFS!Called]
  BY DEF OverlayFS!CallInit
<1>2. OverlayFS!Cardinality(EntriesOnDisk) = Cardinality(EntriesOnDisk)
  BY DEF OverlayFS!Cardinality, Cardinality
<1>3. CacheInv
  BY <1>1, <1>2, OverlayAssumption DEF CacheInv, FirstOf, OverlayFS!OverlayAssumption
<1> QED BY <1>1, <1>3, CalledIs DEF EntriesInv

LEMMA CallAgainStep ==
  ASSUME EntriesInv, NEW c \in Callers, OverlayFS!CallAgain(c)
  PROVE  EntriesInv'
<1>1. cache' = cache /\ virtual' = virtual /\ callers' = [callers EXCEPT ![c] = OverlayFS!Called]
  BY DEF OverlayFS!CallAgain
<1>2. CacheInv'
  BY <1>1 DEF EntriesInv, CacheInv
<1>3. CallerIs(OverlayFS!Called, cache.array, cache.length, virtual)
  BY CalledIs DEF EntriesInv
<1> QED BY <1>1, <1>2, <1>3 DEF EntriesInv

LEMMA AppendStep ==
  ASSUME EntriesInv, NEW c \in Callers, NEW name \in callers[c].todo, OverlayFS!AppendEntry(c, name)
  PROVE  EntriesInv'
<1> DEFINE r == callers[c]
           n == cache.length
           array == cache.array
<1>1. /\ CacheInv /\ CallerIs(r, array, n, virtual) /\ virtual' = virtual
      /\ \A k \in Callers : CallerIs(callers[k], array, n, virtual)
      /\ callers = [k \in Callers |-> callers[k]]
  BY DEF EntriesInv, OverlayFS!AppendEntry
<1>2. /\ virtual = {name} /\ r.todo = virtual /\ r.own = << >> /\ r.length = n
      /\ r.todo \ {name} = {}
  BY <1>1 DEF CallerIs, CacheInv
<1>3. /\ array \in Seq(OverlayFS!Range(array)) /\ Len(array) \in Nat /\ DOMAIN array = 1 .. Len(array)
      /\ n \in Nat /\ n <= Len(array)
  BY <1>1, CacheIs
<1>4. CASE n < Len(array)
  <2> DEFINE array1 == [array EXCEPT ![n + 1] = name]
             r1 == [own |-> << >>, length |-> n + 1, todo |-> r.todo \ {name}]
  <2>1. cache' = [cache EXCEPT !.array = array1] /\ callers' = [callers EXCEPT ![c] = r1]
    BY <1>2, <1>4 DEF OverlayFS!AppendEntry, OverlayFS!Done
  <2>2. cache' = [array |-> array1, length |-> n]
    BY <1>1, <2>1 DEF CacheInv
  <2>3. cache'.array = array1 /\ cache'.length = n
    BY <2>2
  <2>4. /\ Len(array1) = Len(array) /\ DOMAIN array1 = 1 .. Len(array1)
        /\ \A k \in 1 .. n : array1[k] = array[k]
        /\ array1[n + 1] = name /\ OverlayFS!IsSequence(array1)
    <3>1. /\ DOMAIN array1 = 1 .. Len(array)
          /\ \A k \in 1 .. n : array1[k] = array[k]
          /\ array1[n + 1] = name
      BY <1>3, <1>4
    <3>2. array1 \in Seq(OverlayFS!Range(array) \cup {name}) /\ Len(array1) = Len(array)
      BY <1>3, <1>4
    <3> HIDE DEF array1, array
    <3>3. \A k \in 1 .. Len(array1) : array1[k] \in OverlayFS!Range(array1)
      BY <3>1, <3>2 DEF OverlayFS!Range
    <3>4. array1 \in Seq(OverlayFS!Range(array1))
      BY <3>2, <3>3
    <3> QED BY <3>1, <3>2, <3>4 DEF OverlayFS!IsSequence
  <2> HIDE DEF array1
  <2>5. CacheInv'
    <3>1. FirstOf(array1, n) = FirstOf(array, n)
      BY <2>4 DEF FirstOf
    <3>2. /\ FirstOf(array, n) = EntriesOnDisk /\ n = Cardinality(EntriesOnDisk) /\ n \in 0 .. Len(array)
          /\ \A f, g \in virtual : f = g
      BY <1>1 DEF CacheInv
    <3> HIDE DEF n, array
    <3> QED BY <1>1, <2>2, <2>3, <2>4, <3>1, <3>2 DEF CacheInv
  <2>6. ASSUME NEW q, CallerIs(q, array, n, virtual) PROVE CallerIs(q, array1, n, virtual)
    <3> HIDE DEF array, n
    <3> QED BY <1>2, <1>3, <1>4, <2>4, <2>6 DEF CallerIs
  <2>7. CallerIs(r1, array1, n, virtual)
    <3>1. r \in [own : Seq(EntriesOnDisk \cup virtual), length : Int, todo : {{}, virtual}]
      BY <1>1 DEF CallerIs
    <3> HIDE DEF r, array, n
    <3>2. /\ r1 \in [own : Seq(EntriesOnDisk \cup virtual), length : Int, todo : {{}, virtual}]
          /\ r1.own = << >> /\ r1.length = n + 1 /\ r1.todo = {}
      BY <1>2, <1>3, <3>1
    <3> HIDE DEF r1
    <3> QED BY <1>2, <1>3, <1>4, <2>4, <3>2 DEF CallerIs
  <2> HIDE DEF r1, array, n
  <2>8. ASSUME NEW k \in Callers PROVE CallerIs(callers'[k], array1, n, virtual)
    BY <1>1, <2>1, <2>6, <2>7
  <2> QED BY <1>1, <2>1, <2>3, <2>5, <2>8 DEF EntriesInv
<1>5. CASE ~ (n < Len(array))
  <2> DEFINE front == SubSeq(array, 1, n)
             own1 == Append(front, name)
             r1 == [own |-> own1, length |-> n, todo |-> r.todo \ {name}]
  <2>1. cache' = cache /\ callers' = [callers EXCEPT ![c] = r1]
    BY <1>2, <1>5 DEF OverlayFS!AppendEntry, OverlayFS!Done, OverlayFS!Slice
  <2>2. CacheInv'
    BY <1>1, <2>1 DEF CacheInv
  <2>3. front \in Seq(EntriesOnDisk) /\ Len(front) = n /\ FirstOf(front, n) = EntriesOnDisk
    BY <1>1, CacheIs
  <2> HIDE DEF front, n, array
  <2>4. /\ own1 \in Seq(EntriesOnDisk \cup virtual) /\ Len(own1) = n + 1 /\ own1 # << >>
        /\ \A k \in 1 .. n : own1[k] = front[k]
        /\ own1[n + 1] = name
    <3>1. front \in Seq(EntriesOnDisk \cup virtual) /\ name \in EntriesOnDisk \cup virtual
      BY <1>2, <2>3
    <3>2. /\ own1 \in Seq(EntriesOnDisk \cup virtual) /\ Len(own1) = n + 1
          /\ \A k \in 1 .. n : own1[k] = front[k]
          /\ own1[n + 1] = name
      BY <1>3, <2>3, <3>1
    <3> HIDE DEF own1
    <3>3. own1 # << >>
      BY <1>3, <3>2
    <3> QED BY <3>2, <3>3
  <2> HIDE DEF own1
  <2>5. FirstOf(own1, n) = EntriesOnDisk
    BY <2>3, <2>4 DEF FirstOf
  <2>6. CallerIs(r1, array, n, virtual)
    <3>1. r \in [own : Seq(EntriesOnDisk \cup virtual), length : Int, todo : {{}, virtual}]
      BY <1>1 DEF CallerIs
    <3> HIDE DEF r
    <3>2. /\ r1 \in [own : Seq(EntriesOnDisk \cup virtual), length : Int, todo : {{}, virtual}]
          /\ r1.own = own1 /\ r1.todo = {}
      BY <1>2, <1>3, <2>4, <3>1
    <3> HIDE DEF r1
    <3> QED BY <1>2, <2>4, <2>5, <3>2 DEF CallerIs
  <2> HIDE DEF r1
  <2>7. ASSUME NEW k \in Callers PROVE CallerIs(callers'[k], array, n, virtual)
    BY <1>1, <2>1, <2>6
  <2> QED BY <1>1, <2>1, <2>2, <2>7 DEF EntriesInv, array, n
<1> QED BY <1>4, <1>5

\* The entries on disk are listed once.
LEMMA OncePerEntry ==
  ASSUME NEW s, NEW n \in Nat, FirstOf(s, n) = EntriesOnDisk, n = Cardinality(EntriesOnDisk),
         IsFiniteSet(EntriesOnDisk)
  PROVE  \A k, m \in 1 .. n : s[k] = s[m] => k = m
<1> DEFINE f == [k \in 1 .. n |-> s[k]]
<1>1. IsFiniteSet(1 .. n) /\ Cardinality(1 .. n) = Cardinality(EntriesOnDisk)
  BY FS_Interval
<1>2. f \in Surjection(1 .. n, EntriesOnDisk)
  BY DEF FirstOf, Surjection
<1> HIDE DEF f
<1>3. f \in Injection(1 .. n, EntriesOnDisk)
  BY <1>1, <1>2, FS_SurjSameCardinalityImpliesInj
<1>4. \A k, m \in 1 .. n : f[k] = f[m] => k = m
  BY <1>3 DEF Injection, IsInjective
<1> QED BY <1>4 DEF f

\* What a caller that is done has: the entries on disk, and then the one in memory.
LEMMA SliceIs ==
  ASSUME EntriesInv, NEW c \in Callers, callers[c].todo = {}
  PROVE  LET slice == OverlayFS!Slice(c)
             n == cache.length
         IN  /\ n \in Nat /\ n = Cardinality(EntriesOnDisk) /\ FirstOf(slice, n) = EntriesOnDisk
             /\ DOMAIN slice = 1 .. Len(slice)
             /\ virtual = {} => Len(slice) = n
             /\ virtual # {} => Len(slice) = n + 1 /\ virtual = {slice[n + 1]}
<1> DEFINE r == callers[c]
           slice == OverlayFS!Slice(c)
           n == cache.length
           array == cache.array
<1>1. CacheInv /\ CallerIs(r, array, n, virtual) /\ r.todo = {}
  BY DEF EntriesInv
<1>2. slice = IF r.own = << >> THEN SubSeq(array, 1, r.length) ELSE r.own
  BY DEF OverlayFS!Slice
<1>3. /\ array \in Seq(OverlayFS!Range(array)) /\ Len(array) \in Nat
      /\ n \in Nat /\ n <= Len(array) /\ n = Cardinality(EntriesOnDisk)
      /\ FirstOf(array, n) = EntriesOnDisk
      /\ \A f, g \in virtual : f = g
  BY <1>1, CacheIs DEF CacheInv
<1> HIDE DEF slice, n, array, r
<1>4. CASE r.own # << >>
  <2>1. /\ slice = r.own /\ r.own \in Seq(EntriesOnDisk \cup virtual) /\ virtual # {}
        /\ Len(r.own) = n + 1 /\ FirstOf(r.own, n) = EntriesOnDisk /\ r.own[n + 1] \in virtual
    BY <1>1, <1>2, <1>4 DEF CallerIs
  <2>2. DOMAIN slice = 1 .. Len(slice)
    BY <2>1
  <2> QED BY <1>3, <2>1, <2>2 DEF slice, n
<1>5. ASSUME r.own = << >>, NEW length \in n .. Len(array), r.length = length
      PROVE  DOMAIN slice = 1 .. length /\ Len(slice) = length /\ \A k \in 1 .. length : slice[k] = array[k]
  BY <1>2, <1>3, <1>5
<1>6. CASE r.own = << >> /\ virtual = {}
  <2>1. r.length = n /\ n \in n .. Len(array)
    BY <1>1, <1>3, <1>6 DEF CallerIs
  <2>2. DOMAIN slice = 1 .. n /\ Len(slice) = n /\ \A k \in 1 .. n : slice[k] = array[k]
    BY <1>5, <1>6, <2>1
  <2>3. FirstOf(slice, n) = EntriesOnDisk
    BY <1>3, <2>2 DEF FirstOf
  <2> QED BY <1>3, <1>6, <2>2, <2>3 DEF slice, n
<1>7. CASE r.own = << >> /\ virtual # {}
  <2>1. r.length = n + 1 /\ n + 1 \in n .. Len(array) /\ array[n + 1] \in virtual
    BY <1>1, <1>3, <1>7 DEF CallerIs
  <2>2. DOMAIN slice = 1 .. n + 1 /\ Len(slice) = n + 1 /\ \A k \in 1 .. n + 1 : slice[k] = array[k]
    BY <1>5, <1>7, <2>1
  <2>3. FirstOf(slice, n) = EntriesOnDisk /\ slice[n + 1] = array[n + 1]
    BY <1>3, <2>2 DEF FirstOf
  <2> QED BY <1>3, <1>7, <2>1, <2>2, <2>3 DEF slice, n
<1> QED BY <1>4, <1>6, <1>7

LEMMA CallsHaveAll ==
  ASSUME EntriesInv
  PROVE  OverlayFS!EntriesAreComplete
<1> SUFFICES ASSUME NEW c \in Callers, callers[c].todo = {}
             PROVE  /\ OverlayFS!ToSet(OverlayFS!Slice(c)) = EntriesOnDisk \cup virtual
                    /\ Len(OverlayFS!Slice(c)) = OverlayFS!Cardinality(EntriesOnDisk) + OverlayFS!Cardinality(virtual)
                    /\ \A k, m \in DOMAIN OverlayFS!Slice(c) :
                         k # m /\ OverlayFS!Slice(c)[k] = OverlayFS!Slice(c)[m]
                           => OverlayFS!Slice(c)[k] \in EntriesOnDisk \cap virtual
  BY DEF OverlayFS!EntriesAreComplete
<1> DEFINE slice == OverlayFS!Slice(c)
           n == cache.length
<1>1. /\ n \in Nat /\ n = Cardinality(EntriesOnDisk) /\ FirstOf(slice, n) = EntriesOnDisk
      /\ DOMAIN slice = 1 .. Len(slice)
      /\ virtual = {} => Len(slice) = n
      /\ virtual # {} => Len(slice) = n + 1 /\ virtual = {slice[n + 1]}
  BY SliceIs
<1>2. IsFiniteSet(EntriesOnDisk)
  BY OverlayAssumption DEF OverlayFS!OverlayAssumption, OverlayFS!IsFiniteSet, IsFiniteSet
<1> HIDE DEF slice, n
<1>3. \A k, m \in 1 .. n : slice[k] = slice[m] => k = m
  BY <1>1, <1>2, OncePerEntry
<1>4. \A x : x \in EntriesOnDisk <=> \E k \in 1 .. n : x = slice[k]
  BY <1>1 DEF FirstOf
<1>5. OverlayFS!ToSet(slice) = { slice[k] : k \in DOMAIN slice }
  BY DEF OverlayFS!ToSet
<1>6. /\ OverlayFS!Cardinality(EntriesOnDisk) = Cardinality(EntriesOnDisk)
      /\ OverlayFS!Cardinality(virtual) = Cardinality(virtual)
  BY DEF OverlayFS!Cardinality, Cardinality
<1>7. CASE virtual = {}
  <2>1. Len(slice) = n /\ DOMAIN slice = 1 .. n
    BY <1>1, <1>7
  <2>2. Cardinality(virtual) = 0
    BY <1>7, FS_EmptySet
  <2>3. OverlayFS!ToSet(slice) = EntriesOnDisk
    BY <1>4, <1>5, <2>1
  <2> QED BY <1>1, <1>3, <1>6, <1>7, <2>1, <2>2, <2>3 DEF slice
<1>8. CASE virtual # {}
  <2>1. Len(slice) = n + 1 /\ DOMAIN slice = 1 .. n + 1 /\ virtual = {slice[n + 1]}
    BY <1>1, <1>8
  <2>2. Cardinality(virtual) = 1
    BY <2>1, FS_Singleton
  <2>3. /\ \A k \in 1 .. n + 1 : k \in 1 .. n \/ k = n + 1
        /\ n + 1 \in 1 .. n + 1 /\ \A k \in 1 .. n : k \in 1 .. n + 1
    BY <1>1
  <2>4. OverlayFS!ToSet(slice) = EntriesOnDisk \cup virtual
    BY <1>4, <1>5, <2>1, <2>3
  <2>5. ASSUME NEW k \in 1 .. n + 1, NEW m \in 1 .. n + 1, k # m, slice[k] = slice[m]
        PROVE  slice[k] \in EntriesOnDisk \cap virtual
    BY <1>3, <1>4, <2>1, <2>3, <2>5
  <2> QED BY <1>1, <1>6, <2>1, <2>2, <2>4, <2>5 DEF slice
<1> QED BY <1>7, <1>8

\* The overlay's operations agree about every path of every file system, with any finite number
\* of files on disk and in memory, the same ones or others: an entry is listed twice if and only
\* if a file in memory is in it and another file is, or the same one on disk
\* (overlay_vfs.go:68 and 70).  Any number of callers at the same time get all entries of a
\* directory with one file in memory, whatever room the array of the cache has, and none twice
\* but one that is on disk and in memory.
THEOREM OverlayIsRight == CallsSpec => []OverlayIsOneFileSystem
<1> DEFINE Inv == /\ procedure = "OverlayVFS" => AskInv
                  /\ procedure = "GetAccessibleEntries" => EntriesInv
<1>1. CallsInit => Inv
  <2>1. OverlayFS!AskInit => AskInv
    BY DEF OverlayFS!AskInit, AskInv
  <2> QED BY <2>1, EntriesInit DEF CallsInit
<1>2. Inv /\ [CallsNext]_allVars => Inv'
  <2> SUFFICES ASSUME Inv, [CallsNext]_allVars PROVE Inv'
    OBVIOUS
  <2>1. CASE AskOverlay
    <3>1. AskInv'
      BY <2>1 DEF AskOverlay, OverlayFS!Ask, AskInv
    <3>2. procedure' = "OverlayVFS"
      BY <2>1 DEF AskOverlay
    <3> QED BY <3>1, <3>2
  <2>2. CASE CallForEntries
    <3>1. EntriesInv /\ OverlayFS!CallNext /\ procedure' = "GetAccessibleEntries"
      BY <2>2 DEF CallForEntries
    <3>2. EntriesInv'
      BY <3>1, AppendStep, CallAgainStep DEF OverlayFS!CallNext
    <3> QED BY <3>1, <3>2
  <2>3. CASE CheckArguments \/ ApplyRuleFixes \/ PrintDiagnostic
    BY <2>3 DEF CheckArguments, ApplyRuleFixes, PrintDiagnostic
  <2>4. CASE UNCHANGED allVars
    <3>1. UNCHANGED <<procedure, asked, answered, answer, cache, virtual, callers>>
      BY <2>4 DEF allVars, overlayVars, askVars, entryVars
    <3>2. AskInv => AskInv'
      BY <3>1 DEF AskInv
    <3>3. EntriesInv => EntriesInv'
      BY <3>1 DEF EntriesInv, CacheInv
    <3> QED BY <3>1, <3>2, <3>3
  <2> QED BY <2>1, <2>2, <2>3, <2>4 DEF CallsNext
<1>3. Inv => OverlayIsOneFileSystem
  BY WhatIsListedIs, CallsHaveAll DEF OverlayIsOneFileSystem
<1> HIDE DEF Inv
<1> QED BY <1>1, <1>2, <1>3, PTL DEF CallsSpec
=============================================================================
