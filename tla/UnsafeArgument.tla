--------------------------- MODULE UnsafeArgument ---------------------------
(***************************************************************************)
(* The rule no-unsafe-argument (internal/rules/no_unsafe_argument): the    *)
(* arguments of a call are gone through from left to right, with a cursor  *)
(* into the parameters of its signature; spreads move the cursor by as     *)
(* many parameters as they have elements, if that is known.                *)
(*                                                                         *)
(* What is modelled is which types are compared.  Whether an assignment    *)
(* between them is unsafe, and so reported, is module UnsafeAssignment.    *)
(***************************************************************************)
EXTENDS Integers, SequencesExt

CONSTANTS
  Calls,  \* calls, with their signatures: see IsCall
  NoType  \* nil

\* Types are values that are only compared for equality.  A rest parameter is
\* given by how its type looks, "array", "tuple" or "other", and the types in it;
\* an argument by how it looks: a "value", or a spread of "any", "anyArray",
\* "tuple", "openTuple" (with elements of variable number) or something "other".
IsSequence(s) == s \in Seq(Range(s))

IsCall(c) ==
  /\ c.calleeIsAny \in BOOLEAN
  /\ c.taggedTemplate \in BOOLEAN
  /\ IsSequence(c.parameters) /\ IsSequence(c.arguments)
  /\ \A i \in DOMAIN c.parameters : LET p == c.parameters[i] IN
       /\ p.rest \in {"no", "array", "tuple", "other"} /\ IsSequence(p.types)
       /\ p.rest # "no" => i = Len(c.parameters)
       /\ p.rest # "tuple" => Len(p.types) = 1
  /\ \A i \in DOMAIN c.arguments : LET a == c.arguments[i] IN
       /\ a.is \in {"value", "any", "anyArray", "tuple", "openTuple", "other"}
       /\ IsSequence(a.types)
       /\ a.is = "value" => Len(a.types) = 1
       /\ a.is \in {"any", "anyArray", "other"} => a.types = << >>

CallsAssumption == \A c \in Calls : IsCall(c)

VARIABLES
  call,
  paramTypes, restType,  \* of the signature: the types before the rest parameter
  parameterTypeIndex,    \* of the signature: the cursor, counted from 0
  hasConsumedArguments,  \* of the signature
  argument, element,     \* loop variables: the argument, and the element of its tuple
  compared,              \* what has been compared: [at, type, with]
  unsafeSpreads          \* the arguments reported as spreads of any or any[]

signatureVars == <<paramTypes, restType, parameterTypeIndex, hasConsumedArguments>>
vars == <<call, signatureVars, argument, element, compared, unsafeSpreads>>

-----------------------------------------------------------------------------
(* The signature. *)

NoRest == [kind |-> "array", index |-> 0, types |-> <<NoType>>]

HasRest(parameters) == parameters # << >> /\ Last(parameters).rest # "no"

\* newFunctionSignature: the loop ends at the rest parameter.
NewParamTypes(parameters) ==
  LET count == IF HasRest(parameters) THEN Len(parameters) - 1 ELSE Len(parameters)
  IN  [i \in 1 .. count |-> parameters[i].types[1]]

NewRestType(parameters) ==
  IF HasRest(parameters)
  THEN [kind |-> Last(parameters).rest, index |-> Len(parameters) - 1,
        types |-> Last(parameters).types]
  ELSE NoRest

\* What getNextParameterType returns; it also moves the cursor.
NextParameterType ==
  LET types == restType.types
      typeIndex == parameterTypeIndex - restType.index
  IN  IF parameterTypeIndex < Len(paramTypes) /\ ~ hasConsumedArguments
        THEN paramTypes[parameterTypeIndex + 1]
      ELSE IF restType.kind # "tuple" THEN types[1]
      ELSE IF types = << >> THEN NoType
      ELSE IF hasConsumedArguments \/ typeIndex >= Len(types) THEN Last(types)
      ELSE types[typeIndex + 1]

\* A type is compared with the next parameter's, if there is one.
CompareWithNext(type) ==
  /\ parameterTypeIndex' = parameterTypeIndex + 1
  /\ compared' = IF NextParameterType = NoType THEN compared
                 ELSE Append(compared, [at |-> <<argument, element>>, type |-> type,
                                        with |-> NextParameterType])

-----------------------------------------------------------------------------

\* A tagged template's first parameter is the array of its strings.
Init ==
  /\ call \in Calls
  /\ paramTypes = NewParamTypes(call.parameters)
  /\ restType = NewRestType(call.parameters)
  /\ parameterTypeIndex = IF call.taggedTemplate THEN 1 ELSE 0
  /\ hasConsumedArguments = FALSE
  /\ argument = 1 /\ element = 1
  /\ compared = << >> /\ unsafeSpreads = {}

\* calls of any are left to no-unsafe-call.
Done == argument > Len(call.arguments) \/ call.calleeIsAny

Argument == call.arguments[argument]

NextArgument == argument' = argument + 1 /\ element' = 1

Value ==
  /\ ~ Done /\ Argument.is = "value"
  /\ CompareWithNext(Argument.types[1])
  /\ NextArgument
  /\ UNCHANGED <<call, paramTypes, restType, hasConsumedArguments, unsafeSpreads>>

\* Whatever it is reported for or not, the cursor stays where it is.
SpreadOfUnknown ==
  /\ ~ Done /\ Argument.is \in {"any", "anyArray", "other"}
  /\ unsafeSpreads' = IF Argument.is = "other" THEN unsafeSpreads
                      ELSE unsafeSpreads \cup {argument}
  /\ NextArgument
  /\ UNCHANGED <<call, signatureVars, compared>>

TupleElement ==
  /\ ~ Done /\ Argument.is \in {"tuple", "openTuple"}
  /\ element <= Len(Argument.types)
  /\ CompareWithNext(Argument.types[element])
  /\ element' = element + 1
  /\ UNCHANGED <<call, paramTypes, restType, hasConsumedArguments, argument, unsafeSpreads>>

\* Mutant: a tuple with elements of variable number consumes like any other.
EndOfTupleAlike ==
  /\ ~ Done /\ Argument.is \in {"tuple", "openTuple"}
  /\ element > Len(Argument.types)
  /\ NextArgument
  /\ UNCHANGED <<call, signatureVars, compared, unsafeSpreads>>

\* consumeRemainingArguments, after an open tuple.
EndOfTuple ==
  /\ ~ Done /\ Argument.is \in {"tuple", "openTuple"}
  /\ element > Len(Argument.types)
  /\ hasConsumedArguments' = (hasConsumedArguments \/ Argument.is = "openTuple")
  /\ NextArgument
  /\ UNCHANGED <<call, paramTypes, restType, parameterTypeIndex, compared, unsafeSpreads>>

Next == Value \/ SpreadOfUnknown \/ TupleElement \/ EndOfTuple

Spec == Init /\ [][Next]_vars
-----------------------------------------------------------------------------
(* The call, read declaratively. *)

\* The values passed, by argument and element.
Passed ==
  UNION { { <<a, e>> : e \in DOMAIN call.arguments[a].types } : a \in DOMAIN call.arguments }

\* What is before argument a is of known length: then so is the place, counted
\* from 0, at which a value of it is passed.
PlaceIsKnown(a) == \A b \in 1 .. a - 1 : call.arguments[b].is \in {"value", "tuple"}

PassedBefore(a, e) == { v \in Passed : v[1] < a \/ (v[1] = a /\ v[2] < e) }

Place(a, e) == Cardinality(PassedBefore(a, e)) + (IF call.taggedTemplate THEN 1 ELSE 0)

\* The type declared for a place.  A rest tuple goes on with its last type.
Declared(place) ==
  LET count == Len(call.parameters) IN
  IF count = 0 THEN NoType
  ELSE LET last == call.parameters[count]
           rest == place - (count - 1)
       IN  IF rest < 0 THEN call.parameters[place + 1].types[1]
           ELSE CASE last.rest = "no" -> IF rest = 0 THEN last.types[1] ELSE NoType
                  [] last.rest = "tuple" /\ last.types = << >> -> NoType
                  [] last.rest = "tuple" /\ rest < Len(last.types) -> last.types[rest + 1]
                  [] OTHER -> Last(last.types)

ComparedAt(a, e) == { <<c.type, c.with>> : c \in { d \in Range(compared) : d.at = <<a, e>> } }
-----------------------------------------------------------------------------
(* Properties. *)

TypeOK ==
  /\ IsCall(call)
  /\ paramTypes \in Seq(UNION { Range(p.types) : p \in Range(call.parameters) })
  /\ restType.kind \in {"array", "tuple", "other"} /\ restType.index \in Nat
  /\ parameterTypeIndex \in Nat
  /\ hasConsumedArguments \in BOOLEAN
  /\ argument \in 1 .. Len(call.arguments) + 1
  /\ element \in Nat \ {0}
  /\ unsafeSpreads \subseteq DOMAIN call.arguments
  /\ \A i \in DOMAIN compared : compared[i].at \in Passed /\ compared[i].with # NoType

\* Every value passed, plainly or as an element of a spread tuple, is compared with
\* the type declared for the very place it is passed at, in whatever way plain
\* arguments, tuples, fixed parameters and rest parameters are mixed; and it is
\* compared once, or not at all if there is no parameter.  This is claimed as long
\* as it is known how many values came before.
EachWithItsOwnParameter ==
  Done /\ ~ call.calleeIsAny =>
    /\ IsInjective(compared)
    /\ \A v \in Passed :
         LET a == v[1] e == v[2] IN
         PlaceIsKnown(a) =>
           ComparedAt(a, e) =
             IF Declared(Place(a, e)) = NoType THEN {}
             ELSE {<<call.arguments[a].types[e], Declared(Place(a, e))>>}

\* "all remaining arguments should be compared against the rest type (if one
\* exists)": what follows a tuple of variable length is never compared with a
\* parameter before the rest.
OnlyRestAfterOpenTuple ==
  \A i \in DOMAIN compared :
    (\E b \in 1 .. compared[i].at[1] - 1 : call.arguments[b].is = "openTuple") =>
      /\ HasRest(call.parameters)
      /\ compared[i].with = Last(Last(call.parameters).types)
=============================================================================
