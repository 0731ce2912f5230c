----------------------- MODULE BooleanLiteralCompare -----------------------
(***************************************************************************)
(* The rule no-unnecessary-boolean-literal-compare: what its listener says *)
(* of a comparison, and the text its fix leaves.                           *)
(*                                                                         *)
(* A comparison is [operator, literal, type, generic, strong, negation]:   *)
(* the literal operand, the parts of the other operand's type and whether  *)
(* it is a type parameter's (with no parts when unconstrained), whether    *)
(* that operand needs no parentheses under "!", and whether the comparison *)
(* itself is the operand of "!".  Without a literal it is "none".          *)
(***************************************************************************)
EXTENDS Integers, Sequences

Booleans == {"true", "false"}
Nullish == {"null", "undefined"}

isBooleanType(parts) == parts \subseteq Booleans

\* The comment asks for nothing else in the union; the code does not look.
isNullableBoolean(parts) == parts \cap Nullish # {} /\ parts \cap Booleans # {}

negated(c) == c.operator \in {"!=", "!=="}

\* getBooleanComparison finds something to say: "no", "boolean" or "nullable".
getBooleanComparison(c) ==
  IF \/ c.operator \notin {"==", "===", "!=", "!=="}
     \/ c.literal = "none"
     \/ c.generic /\ c.type = {} THEN "no"
  ELSE IF isBooleanType(c.type) THEN "boolean"
  ELSE IF isNullableBoolean(c.type) THEN "nullable"
  ELSE "no"

Message(c) ==
  CASE getBooleanComparison(c) = "nullable" /\ c.literal = "true" ->
         IF negated(c) THEN "comparingNullableToTrueNegated" ELSE "comparingNullableToTrueDirect"
    [] getBooleanComparison(c) = "nullable" /\ c.literal # "true" -> "comparingNullableToFalse"
    [] OTHER -> IF negated(c) THEN "negated" ELSE "direct"

Reports(c, options) ==
  LET allowed == \/ getBooleanComparison(c) = "no"
                 \/ /\ getBooleanComparison(c) = "nullable"
                    /\ IF c.literal = "true" THEN options.allowTrue ELSE options.allowFalse
  IN  IF allowed THEN {} ELSE {Message(c)}

\* A fix replaces the whole node, or inserts at its start or its end.
Fix(at, text) == [at |-> at, text |-> text]

shouldNegate(c) == negated(c) # (c.literal = "true")

\* The fixes in the order of the code.
Fixes(c) ==
  <<Fix("whole", "expression")>>
  \o (IF shouldNegate(c) = c.negation
      THEN <<Fix("start", "!")>>
           \o (IF c.strong THEN << >> ELSE <<Fix("start", "("), Fix("end", ")")>>)
      ELSE << >>)
  \o (IF getBooleanComparison(c) = "nullable" /\ c.literal = "false"
      THEN <<Fix("start", "("), Fix("end", "?? true)")>>
      ELSE << >>)

\* The fixer sorts by position and keeps the order of insertions at one place.
FixedText(c) ==
  LET At(place) == SelectSeq(Fixes(c), LAMBDA f : f.at = place)
      Text(fixes) == [i \in DOMAIN fixes |-> fixes[i].text]
  IN  Text(At("start")) \o Text(At("whole")) \o Text(At("end"))
-----------------------------------------------------------------------------
(* What JavaScript makes of the text, for a value of the operand. *)

Truthy(value) == value \in {"true", "text"}
Bool(b) == IF b THEN "true" ELSE "false"

\* The comparison, and the "!" it is under.
ValueBefore(c, value) ==
  LET loose == c.operator \in {"==", "!="}
      equal == value = c.literal \/ (loose /\ value = "emptyText" /\ c.literal = "false")
      compared == equal # negated(c)
  IN  Bool(compared # c.negation)

RECURSIVE ValueOf(_, _, _)
ValueOf(text, value, strong) ==
  LET inner == SubSeq(text, 2, Len(text) - 1) IN
  CASE text = <<"expression">> -> value
    [] text[1] = "!" ->
         IF ~ strong /\ text[2] = "expression" THEN "binds wrongly"
         ELSE Bool(~ Truthy(ValueOf(Tail(text), value, strong)))
    [] text[1] = "(" /\ text[Len(text)] = ")" -> ValueOf(inner, value, strong)
    [] text[1] = "(" /\ text[Len(text)] = "?? true)" ->
         LET w == ValueOf(inner, value, strong) IN IF w \in Nullish THEN "true" ELSE w
    [] OTHER -> "not an expression"

\* The fixed text has, for every value, the truth of the comparison; and its very
\* value if the operand was boolean.
SameMeaning(c) ==
  \A value \in c.type :
    LET after == ValueOf(FixedText(c), value, c.strong) IN
    /\ after \in Booleans \cup Nullish \cup {"text", "emptyText"}
    /\ Truthy(after) = Truthy(ValueBefore(c, value))
    /\ getBooleanComparison(c) = "boolean" => after = ValueBefore(c, value)

OnlyNullableBooleans(c) == c.type \subseteq Booleans \cup Nullish
=============================================================================
