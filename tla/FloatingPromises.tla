-------------------------- MODULE FloatingPromises --------------------------
(***************************************************************************)
(* The rule no-floating-promises (internal/rules/no_floating_promises): an *)
(* expression statement should not drop a promise nobody will learn the    *)
(* rejection of.                                                           *)
(*                                                                         *)
(* An expression is a tree; what it evaluates to is one of a few values.   *)
(* The types the rule asks the checker for follow from the values.         *)
(***************************************************************************)
EXTENDS Naturals, Sequences, FiniteSets

CONSTANT Expressions

(***************************************************************************)
(* Expressions are records with a field kind:                              *)
(*   "value"       anything without operands that matter; of its "values"  *)
(*   "call"        a call that is no method call, "callee" is "plain",     *)
(*                 "function" (called where it is written) or "knownSafe"  *)
(*   "method"      a call of method "name" of "operand", with a rejection  *)
(*                 "handler": "none", "function" or "other"                *)
(*   "paren", "void", "await", "assignment"    with an "operand"           *)
(*   "comma", "and", "or", "conditional"       with "left" and "right";    *)
(*                 ?? is an "or"; a conditional's condition is left out    *)
(***************************************************************************)
Leaf == {"value", "call"}
Unary == {"method", "paren", "void", "await", "assignment"}
Logical == {"and", "or"}
Binary == {"comma", "conditional"} \cup Logical

\* "promise" may be rejected and has no handler, "handled" has one or is kept in
\* a variable, "safe" is of a type in AllowForKnownSafePromises.  The same of
\* arrays of promises.  The only value that is falsy is undefined.
Values == {"promise", "handled", "safe", "array", "keptArray", "truthy", "falsy"}
Promises == {"promise", "handled", "safe"}
Arrays == {"array", "keptArray"}
Floating == {"promise", "array"}

VARIABLES
  statement,   \* the expression of the statement
  ignoreVoid, ignoreIIFE,  \* options
  report,      \* "unchecked", "no" or what is reported
  applied      \* the suggestions that have been applied

vars == <<statement, ignoreVoid, ignoreIIFE, report, applied>>

-----------------------------------------------------------------------------
(* What expressions do. *)

\* A value after a method call.  (Calls on undefined are optional calls; methods of
\* what is no promise are of no interest.)
AfterMethod(e, value) ==
  IF value \notin Promises THEN value
  ELSE IF e.name = "finally" THEN (IF value = "promise" THEN "promise" ELSE "handled")
  ELSE IF e.handler = "function" THEN "handled"
  ELSE "promise"

AfterUnary(e, value) ==
  CASE e.kind = "method" -> AfterMethod(e, value)
    [] e.kind = "void" -> "falsy"
    [] e.kind = "await" /\ value \in Promises -> "truthy"
    [] e.kind = "assignment" /\ value = "promise" -> "handled"
    [] e.kind = "assignment" /\ value = "array" -> "keptArray"
    [] OTHER -> value

\* The ways evaluating e can go: the value it ends in, and whether a floating one
\* has been dropped on the way.
RECURSIVE Outcomes(_)
Outcomes(e) ==
  CASE e.kind \in Leaf -> [value : e.values, lost : {FALSE}]
    [] e.kind \in Unary ->
         { [value |-> AfterUnary(e, o.value),
            lost |-> IF e.kind # "void" THEN o.lost
                     ELSE ~ ignoreVoid /\ (o.lost \/ o.value \in Floating)] :
             o \in Outcomes(e.operand) }
    [] e.kind = "conditional" -> Outcomes(e.left) \cup Outcomes(e.right)
    [] OTHER ->
         LET left == Outcomes(e.left)
             goOn == { o \in left : CASE e.kind = "and" -> o.value # "falsy"
                                      [] e.kind = "or" -> o.value = "falsy"
                                      [] OTHER -> TRUE }
         IN  (left \ goOn)
               \cup { [value |-> r.value, lost |-> l.lost \/ r.lost \/ l.value \in Floating] :
                        l \in goOn, r \in Outcomes(e.right) }

\* The constituents of an expression's type.
Type(e) == { o.value : o \in Outcomes(e) }

-----------------------------------------------------------------------------
(* The rule. *)

RECURSIVE SkipParentheses(_)
SkipParentheses(e) == IF e.kind = "paren" THEN SkipParentheses(e.operand) ELSE e

IsPromiseArray(e) == Type(e) \cap Arrays # {}

\* A type that is allowed as a whole is not looked at any further.
IsPromiseLike(e) == Type(e) # {"safe"} /\ Type(e) \cap Promises # {}

\* A then has its rejection handler in second place; what is no function is
\* ignored when the program runs.
HandlerVerdict(e) ==
  CASE e.handler = "function" -> "no"
    [] e.handler = "other" -> "useless"
    [] OTHER -> "floating"

\* isUnhandledPromise: its three results in one.
RECURSIVE IsUnhandledPromise(_)

\* Mutant: only the last expression of a comma expression is looked at.
LastIsUnhandled(first, second) == IsUnhandledPromise(second)

EitherIsUnhandled(first, second) ==
  LET verdict == IsUnhandledPromise(first)
  IN  IF verdict # "no" THEN verdict ELSE IsUnhandledPromise(second)

\* Mutant: any call of catch, then or finally handles its promise.
CallHandlesAnyway(e) == IF e.kind = "call" THEN "floating" ELSE "no"

CallVerdict(e) ==
  IF e.kind = "call" THEN "floating"
  ELSE IF e.name = "finally" THEN IsUnhandledPromise(e.operand)
  ELSE HandlerVerdict(e)

\* An expression of promise type, but for an await.
PromiseVerdict(e) ==
  CASE e.kind \in {"call", "method"} -> CallVerdict(e)
    [] e.kind = "conditional" -> EitherIsUnhandled(e.right, e.left)
    [] e.kind \in Logical -> EitherIsUnhandled(e.left, e.right)
    [] OTHER -> "floating"

IsUnhandledPromise(e) ==
  CASE e.kind = "assignment" -> "no"
    [] e.kind = "comma" -> EitherIsUnhandled(e.left, e.right)
    [] e.kind = "void" /\ ~ ignoreVoid -> IsUnhandledPromise(e.operand)
    [] OTHER -> IF IsPromiseArray(e) THEN "array"
                ELSE IF e.kind = "await" \/ ~ IsPromiseLike(e) THEN "no"
                ELSE PromiseVerdict(e)

IsIife(e) == e.kind = "call" /\ e.callee = "function"
IsKnownSafeCall(e) == e.kind = "call" /\ e.callee = "knownSafe"
Ignored == (ignoreIIFE /\ IsIife(statement)) \/ IsKnownSafeCall(SkipParentheses(statement))

\* The listener for expression statements.
CheckStatement ==
  /\ report = "unchecked"
  /\ report' = IF Ignored THEN "no" ELSE IsUnhandledPromise(SkipParentheses(statement))
  /\ UNCHANGED <<statement, ignoreVoid, ignoreIIFE, applied>>

-----------------------------------------------------------------------------
(* The suggestions. *)

Operator(op, e) == [kind |-> op, operand |-> e]

\* Mutant: the operator is taken to bind less tightly than anything.
AlwaysHigherPrecedence(e) == TRUE

IsHigherPrecedenceThanUnary(e) == e.kind \in {"value", "call", "method", "paren"}

\* What is parsed when the operator is written before e: it takes the first
\* operand of whatever binds less tightly.  (Nothing left out of the model here
\* changes: the first operand of a conditional is its condition.)
RECURSIVE Before(_, _)
Before(op, e) ==
  CASE e.kind \in {"comma", "and", "or"} -> [e EXCEPT !.left = Before(op, @)]
    [] e.kind = "conditional" -> e
    [] OTHER -> Operator(op, e)

Write(op, e) ==
  IF IsHigherPrecedenceThanUnary(e) THEN Before(op, e) ELSE Operator(op, Operator("paren", e))

\* An operator that takes the place of void, in whatever parentheses.
AddAwait(e) ==
  IF SkipParentheses(e).kind = "void" THEN Operator("await", SkipParentheses(e).operand)
  ELSE Write("await", e)

Suggest(op, result) ==
  /\ report \in {"floating", "useless"}
  /\ applied = << >>
  /\ statement' = result
  /\ applied' = <<op>>
  /\ report' = "unchecked"
  /\ UNCHANGED <<ignoreVoid, ignoreIIFE>>

SuggestVoid == ignoreVoid /\ Suggest("void", Write("void", statement))
SuggestAwait == Suggest("await", AddAwait(statement))

Init ==
  /\ statement \in Expressions
  /\ ignoreVoid \in BOOLEAN /\ ignoreIIFE \in BOOLEAN
  /\ report = "unchecked"
  /\ applied = << >>

Next == CheckStatement \/ SuggestVoid \/ SuggestAwait

Spec == Init /\ [][Next]_vars
-----------------------------------------------------------------------------
(* Properties. *)

TypeOK ==
  /\ Outcomes(statement) \subseteq [value : Values, lost : BOOLEAN]
  /\ report \in {"unchecked", "no", "floating", "useless", "array"}
  /\ applied \in {<< >>, <<"void">>, <<"await">>}

\* The expressions whose values a statement drops: "Any child in a comma expression
\* could return a potentially unhandled promise", and "we need to see what's inside"
\* of void.  One is unseen if it is dropped within parentheses that are a part of a
\* comma or a void expression themselves, and is not their value: isUnhandledPromise
\* does not look into parentheses there.
RECURSIVE Dropped(_, _, _)
Dropped(e, within, unseen) ==
  LET inner == SkipParentheses(e)
      enclosed == within \/ e.kind = "paren"
  IN  CASE inner.kind = "comma" ->
             Dropped(inner.left, FALSE, unseen \/ enclosed) \cup Dropped(inner.right, enclosed, unseen)
        [] inner.kind = "void" /\ ~ ignoreVoid -> Dropped(inner.operand, FALSE, unseen \/ enclosed)
        [] OTHER -> {[value |-> inner, unseen |-> unseen]}

DroppedHere == Dropped(SkipParentheses(statement), FALSE, FALSE)

MayFloat(e) == Type(e) \cap Floating # {}

\* No statement passes that may drop a promise without a handler, or an array of
\* such promises, whatever conditionals, logical operators, handlers and finally
\* calls the promise comes through, unless it is dropped unseen, within parentheses
\* (see EveryPartIsChecked).  (A type that is both safe and not is a promise's.)
NoPromiseFloats ==
  report = "no" /\ ~ Ignored => \A d \in DroppedHere : MayFloat(d.value) => d.unseen

\* "Any child in a comma expression could return a potentially unhandled promise, so we
\* check them all" (no_floating_promises.go:274-276): no statement passes that drops one.
EveryPartIsChecked ==
  report = "no" /\ ~ Ignored => \A d \in DroppedHere : ~ MayFloat(d.value)

RECURSIVE Parts(_)
Parts(e) ==
  {e} \cup CASE e.kind \in Leaf -> {}
             [] e.kind \in Unary -> Parts(e.operand)
             [] OTHER -> Parts(e.left) \cup Parts(e.right)

Loses == \E o \in Outcomes(statement) : o.lost \/ o.value \in Floating

\* What the types do not let the rule tell: an array that has been assigned to a
\* variable, and a promise that is never reached since what stands before its || is
\* a promise too.
TypesMislead ==
  \E e \in Parts(statement) :
    \/ e.kind = "assignment" /\ Type(e) \cap Arrays # {}
    \/ e.kind = "or" /\ Type(e.left) \subseteq Promises

\* A statement that is reported may really lose a promise; but for what the types do
\* not tell, and for promises in parentheses (see HandledIsNotReported).
ReportMeansLost ==
  report \in {"floating", "useless", "array"} =>
    \/ Loses \/ TypesMislead
    \/ \E e \in Parts(SkipParentheses(statement)) :
         e.kind = "paren" /\ Type(e) \cap Promises # {}

\* A statement that the rule suggested has nothing to report, or only that it is an
\* array of promises: the operator applies to all of the statement.
SuggestionSettles ==
  applied # << >> =>
    /\ report \in {"unchecked", "no", "array"}
    /\ report = "array" => Type(statement) \cap Arrays # {}

\* "Promises must be awaited, end with a call to .catch, ...": one that does so is
\* not reported.  (Statements with assignments or known safe types are left out.)
HandledIsNotReported ==
  (\A e \in Parts(statement) : e.kind # "assignment" /\ "safe" \notin Type(e)) =>
    (report \in {"floating", "useless"} => Loses \/ TypesMislead)
=============================================================================
