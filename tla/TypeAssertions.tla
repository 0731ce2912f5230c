--------------------------- MODULE TypeAssertions ---------------------------
(***************************************************************************)
(* The rule no-unnecessary-type-assertion.  A type is the set of its union *)
(* parts; a type is the same as another iff its parts are.                 *)
(***************************************************************************)
EXTENDS Integers, FiniteSets

Nullish == {"null", "undefined", "void"}

\* Mutant: a part that is undefined counts for the number of parts.
TypeUnchangedCountingAll(uncast, cast, exact) ==
  uncast = cast
  \/ (exact /\ "undefined" \in uncast /\ "undefined" \in cast /\ Cardinality(uncast) # Cardinality(cast))

\* isTypeUnchanged: the checker keeps two types of undefined when optional properties are
\* exact; "missing" is the other.
isTypeUnchanged(uncast, cast, exact) ==
  LET IsUndefined(part) == part \in {"undefined", "missing"}
      Others(type) == { part \in type : ~ IsUndefined(part) }
      Has(type) == \E part \in type : IsUndefined(part)
  IN  \/ uncast = cast
      \/ exact /\ Has(uncast) /\ Has(cast) /\ Others(uncast) = Others(cast)

\* checkTypeAssertion: an assertion is [ignored, const, narrowed, cast, uncast]
AssertionReports(assertion, exact) ==
  LET literal == assertion.cast = {"literal"}
      looked == ~ assertion.ignored /\ IF literal THEN assertion.narrowed ELSE ~ assertion.const
  IN  IF looked /\ isTypeUnchanged(assertion.uncast, assertion.cast, exact)
      THEN {"unnecessaryAssertion"} ELSE {}

\* isPossiblyUsedBeforeAssigned, of the declaration of what is asserted: where it is, with
\* what, and whether the use is in a block scope that encloses that of the declaration.
isPossiblyUsedBeforeAssigned(use, strict) ==
  LET declaration == use.declaration IN
  \/ declaration.kind = "none"
  \/ /\ strict /\ declaration.kind \in {"var", "let"}
     /\ \/ declaration.kind = "var" /\ use.outside
        \/ /\ ~ declaration.initializer /\ ~ declaration.exclamation /\ declaration.typed
           /\ ~ declaration.declare /\ ~ use.narrowed

\* The listener of non-null assertions: a use is of a type, where another is expected, as
\* the target or the source of an assignment or in another place.
NonNullReports(use, strict) ==
  LET nullable == use.type \cap (Nullish \cup {"any", "unknown"}) # {}
      accepted == /\ "unknown" \in use.type => "unknown" \in use.contextual
                  /\ use.type \cap Nullish \subseteq use.contextual
  IN  CASE use.parent = "target" -> {"contextuallyUnnecessary"}
        [] use.parent = "other" /\ ~ nullable ->
             IF use.identifier /\ isPossiblyUsedBeforeAssigned(use, strict)
             THEN {} ELSE {"unnecessaryAssertion"}
        [] use.parent = "other" /\ nullable /\ use.contextual # {} ->
             IF accepted THEN {"contextuallyUnnecessary"} ELSE {}
        [] OTHER -> {}
-----------------------------------------------------------------------------
\* Without an assertion that is reported, the expression has a type of the same values.
AssertionIsUnnecessary(assertion, exact, reports) ==
  LET Values(type) == { IF part = "missing" THEN "undefined" ELSE part : part \in type }
  IN  reports # {} => Values(assertion.uncast) = Values(assertion.cast)

\* Without a non-null assertion that is reported, nothing nullish gets to where it is not
\* expected, and no variable is used where the checker does not know it to have a value.
NonNullIsUnnecessary(use, strict, reports) ==
  (reports # {} /\ use.parent # "target") =>
    /\ use.contextual = {} => use.type \cap Nullish = {}
    /\ (use.contextual # {} /\ "any" \notin use.contextual) => use.type \cap Nullish \subseteq use.contextual
    /\ (strict /\ use.identifier /\ use.type \cap Nullish = {} /\ "unknown" \notin use.type /\ "any" \notin use.type
        /\ use.declaration.kind \in {"var", "let"}) =>
         \/ use.declaration.initializer \/ use.declaration.exclamation \/ use.declaration.declare
         \/ use.narrowed \/ ~ use.declaration.typed
=============================================================================
