---------------------------- MODULE PlusOperands ----------------------------
(***************************************************************************)
(* The rule restrict-plus-operands.  The type of an operand is the set of  *)
(* its union parts, without literals: "string", "number", "bigint",        *)
(* "boolean", "null", "any", "unknown", "never", "symbol", "object" or     *)
(* "RegExp".                                                               *)
(***************************************************************************)
EXTENDS FiniteSets

\* invalidFlags, given the options
Invalid(options) ==
  {"symbol", "never", "unknown"}
    \cup (IF options.allowAny THEN {} ELSE {"any"})
    \cup (IF options.allowBoolean THEN {} ELSE {"boolean"})
    \cup (IF options.allowNullish THEN {} ELSE {"null"})

\* checkInvalidPlusOperand: a union has no flag of its parts, so of the other type only one
\* that is a number, and no union with it, is seen next to a RegExp.
checkInvalidPlusOperand(base, other, options) ==
  \E part \in base :
    \/ part \in Invalid(options) \cup {"object"}
    \/ part = "RegExp" /\ ~ (options.allowRegExp /\ other # {"number"})

checkMismatchedPlusOperands(base, other, options) ==
  CASE ~ options.allowNumberAndString /\ "string" \in base /\ other \cap {"number", "bigint"} # {} ->
         {"mismatched"}
    [] OTHER -> IF "number" \in base /\ "bigint" \in other THEN {"bigintAndNumber"} ELSE {}

\* checkPlusOperands, for "+" or "+="
Reports(operator, left, right, options) ==
  LET sides == { side \in {"left", "right"} :
                   IF side = "left" THEN checkInvalidPlusOperand(left, right, options)
                   ELSE checkInvalidPlusOperand(right, left, options) }
      first == checkMismatchedPlusOperands(left, right, options)
      same == left = right /\ Cardinality(left) = 1 /\ left \subseteq {"bigint", "number", "string"}
  IN  IF (operator = "+=" /\ options.skipCompoundAssignments) \/ same THEN {}
      ELSE IF sides # {} THEN sides
      ELSE IF first # {} THEN first
      ELSE checkMismatchedPlusOperands(right, left, options)

-----------------------------------------------------------------------------
\* JavaScript refuses to add a value of one part to one of the other, or makes of an object
\* what nobody wants.  (It refuses a bigint with a boolean or null too, which is let pass.)
Refused(l, r) == {l, r} = {"number", "bigint"} \/ {l, r} \cap {"symbol", "object"} # {}

NotAllowed(l, r, options) ==
  \/ {l, r} \cap Invalid(options) # {}
  \/ "RegExp" \in {l, r} /\ ~ options.allowRegExp
  \/ {l, r} = {"RegExp", "number"}
  \/ ~ options.allowNumberAndString /\ "string" \in {l, r} /\ {l, r} \cap {"number", "bigint"} # {}

\* An addition is reported iff values of the two types may get together that JavaScript
\* refuses to add or that the options do not allow, whichever is on the left; with a RegExp,
\* numbers in a union are passed over.
AdditionIsReported(operator, left, right, options, reports) ==
  LET looked == operator = "+" \/ ~ options.skipCompoundAssignments
      passedOver(l, r) == {l, r} = {"RegExp", "number"} /\ options.allowRegExp /\ {left, right} # {{"RegExp"}, {"number"}}
                            /\ ~ (l = "RegExp" /\ right = {"number"}) /\ ~ (r = "RegExp" /\ left = {"number"})
  IN  reports # {} <=>
        /\ looked
        /\ \E l \in left, r \in right :
             Refused(l, r) \/ (NotAllowed(l, r, options) /\ ~ passedOver(l, r))
=============================================================================
