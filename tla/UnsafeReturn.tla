---------------------------- MODULE UnsafeReturn ----------------------------
(***************************************************************************)
(* The rule no-unsafe-return, and the helpers it asks about types.         *)
(*                                                                         *)
(* A type is [kind, parts]: "any", "unknown" and "text" have no parts,     *)
(* "array" and "promise" have one, "union" and "intersection" several, a   *)
(* "function" has the types that its signatures return.  A promise is the  *)
(* only type with a method then.                                           *)
(***************************************************************************)
EXTENDS Integers, Sequences, SequencesExt

Type(kind, parts) == [kind |-> kind, parts |-> parts]
IsAny(t) == t.kind = "any"
IsUnknown(t) == t.kind = "unknown"
IsArrayOf(t, kind) == t.kind = "array" /\ t.parts[1].kind = kind

\* The checker's union of types: any and unknown take the others up.
UnionOf(parts) ==
  CASE \E i \in DOMAIN parts : IsAny(parts[i]) -> Type("any", << >>)
    [] (\A i \in DOMAIN parts : ~ IsAny(parts[i])) /\ \E i \in DOMAIN parts : IsUnknown(parts[i]) ->
         Type("unknown", << >>)
    [] OTHER -> Type("union", parts)

\* Checker_getAwaitedType: promises are unwrapped, in unions and in promises too.
RECURSIVE Awaited(_)
Awaited(t) ==
  CASE t.kind = "promise" -> Awaited(t.parts[1])
    [] t.kind = "union" -> UnionOf([i \in DOMAIN t.parts |-> Awaited(t.parts[i])])
    [] OTHER -> t

\* TypeRecurser: the parts it comes to, of unions and intersections
RECURSIVE PartsOf(_)
PartsOf(t) ==
  IF t.kind \in {"union", "intersection"} THEN FlattenSeq([i \in DOMAIN t.parts |-> PartsOf(t.parts[i])]) ELSE <<t>>

PromisesIn(t) == SelectSeq(PartsOf(t), LAMBDA part : part.kind = "promise")

\* A type that was visited is safe; the set of them is shared by all calls.
RECURSIVE discriminateAnyTypeWorker(_, _)
discriminateAnyTypeWorker(t, visited) ==
  LET Await(found, promise) ==
        LET awaited == discriminateAnyTypeWorker(Awaited(promise), found.visited)
        IN  IF found.any THEN found ELSE [any |-> awaited.is = "any", visited |-> awaited.visited]
      all == FoldLeft(Await, [any |-> FALSE, visited |-> visited \cup {t}], PromisesIn(t))
  IN  CASE t \in visited -> [is |-> "safe", visited |-> visited]
        [] t \notin visited /\ IsAny(t) -> [is |-> "any", visited |-> visited \cup {t}]
        [] t \notin visited /\ IsArrayOf(t, "any") -> [is |-> "any[]", visited |-> visited \cup {t}]
        [] OTHER -> [is |-> IF all.any THEN "Promise<any>" ELSE "safe", visited |-> all.visited]

DiscriminateAnyType(t) == discriminateAnyTypeWorker(t, {}).is

\* CollectAllCallSignatures: what the signatures return; an intersection has those of its
\* only part that has some.
CollectAllCallSignatures(t) ==
  LET functions == SelectSeq(t.parts, LAMBDA part : part.kind = "function" /\ part.parts # << >>)
  IN  CASE t.kind = "union" -> FlattenSeq([i \in DOMAIN functions |-> functions[i].parts])
        [] t.kind = "intersection" -> IF Len(functions) = 1 THEN functions[1].parts ELSE << >>
        [] t.kind = "function" -> t.parts
        [] OTHER -> << >>

\* GetThisExpression: the way from the expression goes through callees and objects to this.
GetThisExpression(way) ==
  way # << >> /\ Last(way) = "this" /\ \A i \in 1 .. Len(way) - 1 : way[i] \in {"paren", "call", "access"}

AcceptsAny(t) == IsAny(t) \/ IsUnknown(t)

\* The annotation says what is returned, or that it is not known.
IsIntended(return, results) ==
  /\ return.annotated
  /\ \E i \in DOMAIN results :
       \/ return.type = results[i] \/ AcceptsAny(results[i])
       \/ return.async /\ (Awaited(results[i]) = Awaited(return.type) \/ AcceptsAny(Awaited(results[i])))

ExpectsUnknown(any, result) ==
  CASE any = "any" -> IsUnknown(result)
    [] any = "any[]" -> IsArrayOf(result, "unknown")
    [] any = "Promise<any>" -> IsUnknown(Awaited(result))

\* IsUnsafeAssignment (module UnsafeAssignment): any is within the type where the other type,
\* of the same kind so far, has something else than unknown.
RECURSIVE IsUnsafeAssignment(_, _)
IsUnsafeAssignment(t, receiver) ==
  CASE IsAny(t) -> ~ AcceptsAny(receiver)
    [] t.kind \in {"array", "promise"} /\ receiver.kind = t.kind -> IsUnsafeAssignment(t.parts[1], receiver.parts[1])
    [] OTHER -> FALSE

\* checkReturn: a return is [type, inFunction, expected, annotated, async, way] with the type
\* that its function has or is expected to have, and the way that GetThisExpression goes.
Reports(return, noImplicitThis) ==
  LET any == DiscriminateAnyType(return.type)
      results == CollectAllCallSignatures(return.expected)
      passed == \/ ~ return.inFunction \/ IsIntended(return, results)
                \/ any # "safe" /\ \E i \in DOMAIN results : ExpectsUnknown(any, results[i])
                \/ any = "Promise<any>" /\ ~ return.async
  IN  CASE passed -> {}
        [] ~ passed /\ any # "safe" ->
             {IF ~ noImplicitThis /\ GetThisExpression(return.way) THEN "unsafeReturnThis" ELSE "unsafeReturn"}
        [] OTHER -> IF results # << >> /\ IsUnsafeAssignment(return.type, results[1]) THEN {"unsafeReturnAssignment"} ELSE {}

-----------------------------------------------------------------------------
(* Where any gets to: the places in what the caller of a function has, each the way from   *)
(* there, through the elements of arrays and what is awaited of promises.                   *)

RECURSIVE PlacesOf(_, _)
PlacesOf(t, kinds) ==
  CASE t.kind \in kinds -> {<< >>}
    [] t.kind = "array" -> { <<"element">> \o w : w \in PlacesOf(t.parts[1], kinds) }
    [] t.kind = "promise" -> { <<"awaited">> \o w : w \in PlacesOf(Awaited(t), kinds) }
    [] t.kind = "union" -> UNION { PlacesOf(t.parts[i], kinds) : i \in DOMAIN t.parts }
    [] OTHER -> {}

\* A function that is async puts what is returned in a promise.
ResultType(return) == IF return.async THEN Type("promise", <<return.type>>) ELSE return.type

\* A value that is any gets to the caller only where a signature has any or unknown, unless a
\* promise of any is returned by a function that is not async, arrays of arrays by one that
\* is, or any is deeper in a union; and a return is reported only if it has any in it.
AnyIsNotReturned(return, reports) ==
  LET results == CollectAllCallSignatures(return.expected)
      Expected(w) == \E i \in DOMAIN results : \E v \in PlacesOf(results[i], {"any", "unknown"}) : IsPrefix(v, w)
      any == PlacesOf(ResultType(return), {"any"})
      promises == \E promise \in ToSet(PromisesIn(return.type)) : IsAny(Awaited(promise))
      passedOver == IF promises THEN ~ return.async
                    ELSE return.type.kind = "union" \/ (return.async /\ IsArrayOf(return.type, "array"))
  IN  /\ (reports = {} /\ return.inFunction /\ Len(results) = 1 /\ ~ passedOver) => \A w \in any : Expected(w)
      /\ reports # {} => PlacesOf(return.type, {"any"}) # {}
=============================================================================
