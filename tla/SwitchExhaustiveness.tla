------------------------ MODULE SwitchExhaustiveness ------------------------
(***************************************************************************)
(* The rule switch-exhaustiveness-check: what it says of a switch.         *)
(*                                                                         *)
(* A switch is [type, cases, default]: the union parts of the type it      *)
(* switches on, each the set of parts of an intersection; the types of its *)
(* case expressions; and whether there is a default case.  "missing" is    *)
(* the type that an optional property adds, also a kind of undefined.      *)
(***************************************************************************)
EXTENDS FiniteSets

Undefined == {"undefined", "missing"}

isLiteralLikeType(t) == t \in {"a", "b"} \cup Undefined

\* Mutant: only literals are looked for.
ContainsNonLiteralTypeOnly(type) == \A part \in type : \A t \in part : ~ isLiteralLikeType(t)

doesTypeContainNonLiteralType(type) ==
  \E part \in type : \A t \in part : ~ isLiteralLikeType(t)

\* missingLiteralBranchTypes of getSwitchMetadata.
MissingLiteralBranchTypes(s) ==
  { t \in UNION s.type :
      /\ t \notin s.cases /\ isLiteralLikeType(t)
      /\ ~ (s.cases \cap Undefined # {} /\ t \in Undefined) }

checkSwitchExhaustive(s, options) ==
  IF ~ (options.considerDefaultExhaustiveForUnions /\ s.default) /\ MissingLiteralBranchTypes(s) # {}
  THEN {"switchIsNotExhaustive"} ELSE {}

checkSwitchUnnecessaryDefaultCase(s, options) ==
  IF /\ ~ options.allowDefaultCaseForExhaustiveSwitch
     /\ MissingLiteralBranchTypes(s) = {} /\ s.default /\ ~ doesTypeContainNonLiteralType(s.type)
  THEN {"dangerousDefaultCase"} ELSE {}

checkSwitchNoUnionDefaultCase(s, options) ==
  IF options.requireDefaultForNonUnion /\ doesTypeContainNonLiteralType(s.type) /\ ~ s.default
  THEN {"defaultIsMissing"} ELSE {}

Reports(s, options) ==
  checkSwitchExhaustive(s, options) \cup checkSwitchUnnecessaryDefaultCase(s, options)
    \cup checkSwitchNoUnionDefaultCase(s, options)

-----------------------------------------------------------------------------
\* The values the switch may be given; "..." stands for those that no case names.
ValuesOf(part) ==
  LET literals == { t \in part : isLiteralLikeType(t) }
      Value(t) == IF t \in Undefined THEN "undefined" ELSE t
  IN  IF literals = {} THEN {"..."} ELSE { Value(t) : t \in literals }

Unmatched(s) ==
  (UNION { ValuesOf(part) : part \in s.type })
    \ (s.cases \cup (IF s.cases \cap Undefined # {} THEN {"undefined"} ELSE {}))

\* A switch is said to miss a case iff one of the values its type lists has none and the
\* default is not counted; its default is said to be superfluous iff that is asked for and no
\* value gets there; and a default is missing iff it is asked for and there are values that
\* no case can list.
\* The values of "a" & { brand: ... } are those of "a" (ValuesOf), so that a default after
\* case "a" is reported.  The comment at doesTypeContainNonLiteralType says the contrary:
\* "foo" & { bar: 1 } "is a type that contains non-literal types", and "Default cases are
\* never superfluous in switches with non-literal types."
ReportsAreRight(s, options, reports) ==
  /\ "switchIsNotExhaustive" \in reports
       <=> /\ Unmatched(s) \ {"..."} # {}
           /\ ~ (options.considerDefaultExhaustiveForUnions /\ s.default)
  /\ "dangerousDefaultCase" \in reports
       <=> ~ options.allowDefaultCaseForExhaustiveSwitch /\ s.default /\ Unmatched(s) = {}
  /\ "defaultIsMissing" \in reports
       <=> options.requireDefaultForNonUnion /\ "..." \in Unmatched(s) /\ ~ s.default

\* "Default cases are never superfluous in switches with non-literal types", and
\* "foo" & { bar: 1 } is one (switch_exhaustiveness_check.go:72-80).
DefaultOfNonLiteralsIsKept(s, reports) ==
  (\E part \in s.type : \E t \in part : ~ isLiteralLikeType(t)) => "dangerousDefaultCase" \notin reports
=============================================================================
