----------------------- MODULE RedundantConstituents -----------------------
(***************************************************************************)
(* The rule no-redundant-type-constituents: what its two listeners report  *)
(* of a union and of an intersection.                                      *)
(*                                                                         *)
(* A constituent is [alias, parts]: the parts it is written with, or those *)
(* of the type that an alias stands for, where the checker lists boolean   *)
(* as false and true unless the type is boolean alone.  Strings and        *)
(* numbers stand for the four primitives with literals.                    *)
(***************************************************************************)
EXTENDS Integers, Sequences, SequencesExt

Values == {"a", "b", "string..", "1", "number..", "true", "false", "object"}

\* The values a part stands for.
Denotes ==
  [any |-> Values, error |-> Values, unknown |-> Values, never |-> {},
   string |-> {"a", "b", "string.."}, number |-> {"1", "number.."}, boolean |-> {"true", "false"},
   a |-> {"a"}, b |-> {"b"}, one |-> {"1"}, true |-> {"true"}, false |-> {"false"}]

Primitives == {"string", "number", "boolean"}
Literals == {"a", "b", "one", "true", "false"}

\* The flag of the primitive whose literal the part is.
PrimitiveOf(part) ==
  CASE part \in {"a", "b"} -> "string" [] part = "one" -> "number" [] OTHER -> "boolean"

\* getTypeNodeTypePartFlags; the type boolean has also the flag of a union.
TypePartFlags(c) ==
  CASE ~ c.alias -> c.parts
    [] c.alias /\ c.parts = <<"boolean">> -> <<"boolean|union">>
    [] OTHER -> FlattenSeq([i \in DOMAIN c.parts |->
                  IF c.parts[i] = "boolean" THEN <<"false", "true">> ELSE <<c.parts[i]>>])

Parts(c) == ToSet(TypePartFlags(c))

Report(i, message, part) == [constituent |-> i, message |-> message, part |-> part]

\* checkUnionBottomAndTopTypes.
UnionBottomAndTopReports(i, part, insideReturnType) ==
  CASE part \in {"unknown", "any"} -> {Report(i, "overrides", part)}
    [] part = "error" -> {Report(i, "errorTypeOverrides", part)}
    [] part = "never" /\ ~ insideReturnType -> {Report(i, "overridden", part)}
    [] OTHER -> {}

\* Mutant: the flags are compared, not masked.
UnionReportsExact(types, insideReturnType) ==
  LET seen == UNION { Parts(types[i]) : i \in DOMAIN types }
      Of(i) == UNION { UnionBottomAndTopReports(i, p, insideReturnType) : p \in Parts(types[i]) }
      Overridden(i) == { Report(i, "literalOverridden", p) :
                           p \in { q \in Parts(types[i]) \cap Literals : PrimitiveOf(q) \in seen } }
  IN  UNION { Of(i) \cup Overridden(i) : i \in DOMAIN types }

\* The listener of unions.
UnionReports(types, insideReturnType) ==
  LET seen == UNION { Parts(types[i]) : i \in DOMAIN types }
      seenPrimitives == (seen \cap Primitives)
                          \cup (IF "boolean|union" \in seen THEN {"boolean"} ELSE {})
      Of(i) == UNION { UnionBottomAndTopReports(i, p, insideReturnType) : p \in Parts(types[i]) }
      Overridden(i) == { Report(i, "literalOverridden", p) :
                           p \in { q \in Parts(types[i]) \cap Literals :
                                     PrimitiveOf(q) \in seenPrimitives } }
  IN  UNION { Of(i) \cup Overridden(i) : i \in DOMAIN types }

\* checkIntersectionBottomAndTopTypes.
IntersectionBottomAndTopReports(i, part) ==
  CASE part \in {"never", "any"} -> {Report(i, "overrides", part)}
    [] part = "error" -> {Report(i, "errorTypeOverrides", part)}
    [] part = "unknown" -> {Report(i, "overridden", part)}
    [] OTHER -> {}

(***************************************************************************)
(* The listener of intersections.  A part of several is that of a union:   *)
(* then only unions are reported, those whose every member is a literal of *)
(* a primitive that was seen; otherwise the primitives of seen literals.   *)
(***************************************************************************)
IntersectionReports(types) ==
  LET seen == UNION { Parts(types[i]) : i \in DOMAIN types }
      unions == { i \in DOMAIN types : Len(TypePartFlags(types[i])) >= 2 }
      Of(i) == UNION { IntersectionBottomAndTopReports(i, p) : p \in Parts(types[i]) }
      overriddenByUnion ==
        { i \in unions : \A p \in Parts(types[i]) : p \in Literals /\ PrimitiveOf(p) \in seen }
      Overridden(i) == { p \in Parts(types[i]) \cap Primitives :
                           \E q \in seen \cap Literals : PrimitiveOf(q) = p }
  IN  UNION { Of(i) : i \in DOMAIN types }
        \cup IF unions # {}
             THEN { Report(i, "primitiveOverridden", "union") : i \in overriddenByUnion }
             ELSE UNION { { Report(i, "primitiveOverridden", p) : p \in Overridden(i) } :
                          i \in DOMAIN types }

-----------------------------------------------------------------------------
(* What the types mean. *)

Den(part) == IF part = "boolean|union" THEN Denotes.boolean ELSE Denotes[part]
UnionDen(S) == UNION { Den(p) : p \in S }
DenOf(types, i) == UnionDen(Parts(types[i]))

\* What is said to be overridden in a union adds nothing to its other parts, and what is
\* said to override them has them all.
UnionReportsAreTrue(types, reports) ==
  LET parts == UNION { Parts(types[i]) : i \in DOMAIN types } IN
  \A r \in reports :
    IF r.message \in {"overridden", "literalOverridden"}
    THEN Den(r.part) \subseteq UnionDen(parts \ {r.part})
    ELSE UnionDen(parts) \subseteq Den(r.part)

\* A part that another one properly includes is not passed over.
UnionReportsAreAll(types, insideReturnType, reports) ==
  LET parts == UNION { Parts(types[i]) : i \in DOMAIN types } IN
  \A p, q \in parts :
    (/\ Den(p) \subseteq Den(q) /\ Den(p) # Den(q)
     /\ p = "never" => ~ insideReturnType) => \E r \in reports : r.part \in {p, q}

Meet(types, without) ==
  { v \in Values : \A i \in DOMAIN types \ without : v \in DenOf(types, i) }

\* In an intersection, a primitive or unknown that is overridden can be left out, and so
\* can a primitive that a union of its literals overrides (with two, there is no value).
IntersectionReportsAreTrue(types, reports) ==
  LET primitives == UNION { Parts(types[i]) : i \in DOMAIN types } \cap Primitives IN
  \A r \in reports :
    CASE r.part = "union" ->
           \A p \in primitives :
             primitives = {p} =>
               Meet(types, {}) = Meet(types, { i \in DOMAIN types : types[i].parts = <<p>> })
      [] r.part # "union" /\ r.message \in {"overridden", "primitiveOverridden"} ->
           Len(types[r.constituent].parts) = 1 => Meet(types, {}) = Meet(types, {r.constituent})
      [] OTHER -> r.part = "never" => Meet(types, {}) = {}
=============================================================================
