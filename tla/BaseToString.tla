---------------------------- MODULE BaseToString ----------------------------
(***************************************************************************)
(* The rule no-base-to-string: how certain it is that a value of a type is *)
(* made a string by Object's own toString, and that its elements are when  *)
(* it is joined.                                                           *)
(*                                                                         *)
(* Types are the nodes of a graph, in which arrays and tuples may contain  *)
(* themselves: types[t] = [kind, parts].  The kinds without parts are      *)
(* "base" (Object's toString), "own" (one of its own, or none known) and   *)
(* "plain" (booleans and the names that are ignored); a type parameter has *)
(* its constraint as a part, or none.                                      *)
(***************************************************************************)
EXTENDS Integers, Sequences, SequencesExt

Every(certainties, certainty) == \A i \in DOMAIN certainties : certainties[i] = certainty
Some(certainties, certainty) == \E i \in DOMAIN certainties : certainties[i] = certainty

collectUnionTypeCertainty(certainties) ==
  IF Every(certainties, "never") THEN "never"
  ELSE IF Every(certainties, "always") THEN "always"
  ELSE "sometimes"

collectIntersectionTypeCertainty(certainties) ==
  IF Some(certainties, "always") THEN "always" ELSE "never"

collectTupleCertainty(certainties) ==
  IF Some(certainties, "never") THEN "never"
  ELSE IF Some(certainties, "sometimes") THEN "sometimes"
  ELSE "always"

\* What is useful of a type, on the way through the arrays and tuples visited.
RECURSIVE collectToStringCertainty(_, _, _)
\* Mutant: a type that was visited is taken for Object's.
ToStringCertaintyOfVisited(types, t, visited) ==
  LET parts == types[t].parts
      OfParts(seen) ==
        [i \in DOMAIN parts |->
           IF parts[i] \in seen THEN "never" ELSE collectToStringCertainty(types, parts[i], seen)]
  IN  CASE types[t].kind = "base" -> "never"
        [] types[t].kind = "parameter" /\ parts # << >> -> OfParts(visited)[1]
        [] types[t].kind = "intersection" -> collectIntersectionTypeCertainty(OfParts(visited))
        [] types[t].kind = "union" -> collectUnionTypeCertainty(OfParts(visited))
        [] types[t].kind = "tuple" -> collectTupleCertainty(OfParts(visited \cup {t}))
        [] types[t].kind = "array" -> OfParts(visited \cup {t})[1]
        [] OTHER -> "always"

collectToStringCertainty(types, t, visited) ==
  LET parts == types[t].parts
      OfParts(seen) == [i \in DOMAIN parts |-> collectToStringCertainty(types, parts[i], seen)]
  IN  CASE t \in visited -> "always"
        [] t \notin visited /\ types[t].kind = "base" -> "never"
        [] t \notin visited /\ types[t].kind = "parameter" /\ parts # << >> -> OfParts(visited)[1]
        [] t \notin visited /\ types[t].kind = "intersection" ->
             collectIntersectionTypeCertainty(OfParts(visited))
        [] t \notin visited /\ types[t].kind = "union" -> collectUnionTypeCertainty(OfParts(visited))
        [] t \notin visited /\ types[t].kind = "tuple" ->
             collectTupleCertainty(OfParts(visited \cup {t}))
        [] t \notin visited /\ types[t].kind = "array" -> OfParts(visited \cup {t})[1]
        [] OTHER -> "always"

\* The same of the elements that join puts together; other methods named join are not array's.
RECURSIVE collectJoinCertainty(_, _)
collectJoinCertainty(types, t) ==
  LET parts == types[t].parts
      Strings == [i \in DOMAIN parts |-> collectToStringCertainty(types, parts[i], {})]
      Join == [i \in DOMAIN parts |-> collectJoinCertainty(types, parts[i])]
  IN  CASE types[t].kind = "union" -> collectUnionTypeCertainty(Join)
        [] types[t].kind = "intersection" -> collectIntersectionTypeCertainty(Join)
        [] types[t].kind = "tuple" -> collectTupleCertainty(Strings)
        [] types[t].kind = "array" -> Strings[1]
        [] OTHER -> "always"

\* certaintyToString: the word of the message.
CertaintyToString(certainty) == "always"

\* checkExpression and checkExpressionForArrayJoin; a literal is not looked at.
Reports(use, types, t) ==
  LET certainty == IF use = "join" THEN collectJoinCertainty(types, t)
                   ELSE collectToStringCertainty(types, t, {})
  IN  IF certainty = "always" \/ use = "literal" THEN {}
      ELSE {[certainty |-> certainty, word |-> CertaintyToString(certainty)]}

-----------------------------------------------------------------------------
(***************************************************************************)
(* The types of which Object's toString makes a string or a part of one:   *)
(* since values have a finite depth, the least set of types closed under   *)
(* the ways in which arrays, unions and so on contain values.              *)
(***************************************************************************)
Defaults(types) ==
  LET Round[n \in 0 .. Len(types)] ==
        IF n = 0 THEN {}
        ELSE LET known == Round[n - 1]
                 Parts(t) == ToSet(types[t].parts)
             IN  { t \in DOMAIN types :
                     \/ types[t].kind = "base"
                     \/ types[t].kind = "intersection" /\ Parts(t) \subseteq known
                     \/ types[t].kind # "intersection" /\ Parts(t) \cap known # {} }
  IN  Round[Len(types)]

\* A join puts together the elements of an array as its toString does.
RECURSIVE JoinCanBeDefault(_, _)
JoinCanBeDefault(types, t) ==
  LET Part(i) == JoinCanBeDefault(types, types[t].parts[i])
      all == DOMAIN types[t].parts
  IN  CASE types[t].kind = "union" -> \E i \in all : Part(i)
        [] types[t].kind = "intersection" -> \A i \in all : Part(i)
        [] types[t].kind \in {"array", "tuple"} -> t \in Defaults(types)
        [] OTHER -> FALSE

CanBeDefault(use, types, t) ==
  IF use = "join" THEN JoinCanBeDefault(types, t) ELSE t \in Defaults(types)
=============================================================================
