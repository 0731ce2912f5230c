-------------------------- MODULE VoidExpressions --------------------------
(***************************************************************************)
(* The rule no-confusing-void-expression: calls, tagged templates and      *)
(* awaits without value in a place that uses the value, and the fixes.     *)
(*                                                                         *)
(* An expression is [void, around, voidOuter, function, place]: around is  *)
(* the way up from it, each ancestor named with the part of it that the    *)
(* expression is in; voidOuter tells whether what the arrow function or    *)
(* the return statement holds has no value either; function is the         *)
(* function around; place is the way from a return statement up to the     *)
(* body of its function: "last" or "inner" in a block, "branch" of an if   *)
(* statement without one, "loop" and "clause" likewise.                    *)
(***************************************************************************)
EXTENDS Integers, SequencesExt

\* findInvalidAncestor: its index, or 0.  The loop goes on at these, and returns nil at the
\* next ones, given the options.
PassOn == {"parentheses", "right of && || ??", "branch of ?:"}

Valid(options) ==
  {"left of comma", "expression statement"}
    \cup (IF options.ignoreArrowShorthand THEN {"arrow function"} ELSE {})
    \cup (IF options.ignoreVoidOperator THEN {"void"} ELSE {})

findInvalidAncestor(expression, options) ==
  LET first == SelectInSeq(expression.around, LAMBDA ancestor : ancestor \notin PassOn)
  IN  IF expression.around[first] \in Valid(options) THEN 0 ELSE first

\* A function is [kind, annotation, contextual]: the annotation of its result and the
\* results of the type that its context has for it are sets of kinds.
isVoidReturningFunction(function) ==
  IF function.annotation # {} THEN "void" \in function.annotation
  ELSE function.kind \in {"arrow function", "function expression"} /\ "void" \in function.contextual

\* Mutant: the last statement of any block ends the function.
IsLastOfABlock(place) == place[1] = "last"

isFinalReturn(place) == place = <<"last">>

\* The fixes are described by what they do: "wrap" inserts the operator void, "braces" makes
\* a body of the expression, "drop" takes return away, "move" puts it after the expression,
\* within new braces where the statement is in no block.
Reports(expression, options) ==
  LET at == findInvalidAncestor(expression, options)
      ancestor == expression.around[at]
      fix ==
        CASE ancestor \in {"arrow function", "return"} /\ options.ignoreVoidOperator -> "wrap"
          [] ancestor = "arrow function" /\ ~ options.ignoreVoidOperator ->
               IF expression.voidOuter THEN "braces" ELSE "none"
          [] ancestor = "return" /\ ~ options.ignoreVoidOperator ->
               CASE isFinalReturn(expression.place) -> IF expression.voidOuter THEN "drop" ELSE "none"
                 [] OTHER -> IF expression.place[1] \in {"last", "inner"} THEN "move" ELSE "move into braces"
          [] OTHER -> IF options.ignoreVoidOperator THEN "suggest wrap" ELSE "none"
      ignored == /\ options.ignoreVoidReturningFunctions /\ ancestor \in {"arrow function", "return"}
                 /\ isVoidReturningFunction(expression.function)
  IN  IF ~ expression.void \/ at = 0 \/ ignored THEN {} ELSE {[at |-> at, fix |-> fix]}

Moves == {"move", "move into braces"}

\* The expression when a fix is applied.
Fixed(expression, report) ==
  [expression EXCEPT !.around =
     CASE report.fix \in {"wrap", "suggest wrap"} -> <<"void">> \o @
       [] report.fix \in {"braces", "drop"} \cup Moves ->
            SubSeq(@, 1, report.at - 1) \o <<"expression statement">>
       [] OTHER -> @]
-----------------------------------------------------------------------------
(* What the program does. *)

\* What becomes of a value, going up: at each step it goes on, is lost, or is seen.
Seen(around, value) ==
  LET Step(state, ancestor) ==
        CASE ancestor \in {"left of comma", "expression statement", "void"} ->
               [state EXCEPT !.value = "undefined"]
          [] ancestor \in {"operand", "arrow function", "return"} ->
               [state EXCEPT !.seen = Append(@, state.value)]
          [] ancestor \in {"left of && || ??", "test of ?:"} ->
               [state EXCEPT !.seen = Append(@, state.value = "undefined")]
          [] OTHER -> state
  IN  FoldLeft(Step, [value |-> value, seen |-> << >>], around).seen

\* The program can tell the value from another one.
ValueMatters(around) == Seen(around, "undefined") # Seen(around, "another")

\* An expression without value is reported iff the program can tell which value it has, but
\* where options allow for it; with two exceptions, all of them: the right side of a comma is
\* reported wherever the value goes ("ts-eslint handles sequence expressions incorrectly as
\* well"), and so is the operand of void, unless that operator is ignored.  A function may
\* have it for a result, given the option, if void is a result that is declared or expected of
\* it; of a method nothing is taken to be expected.
VoidIsReportedIffUsed(expression, options, reports) ==
  LET end == Last(expression.around)
      expected == IF expression.function.annotation # {} THEN expression.function.annotation
                  ELSE IF expression.function.kind = "method" THEN {} ELSE expression.function.contextual
      allowed == \/ options.ignoreArrowShorthand /\ end = "arrow function"
                 \/ /\ options.ignoreVoidReturningFunctions /\ end \in {"arrow function", "return"}
                    /\ "void" \in expected
  IN  reports # {} <=>
        /\ expression.void
        /\ \/ "right of comma" \in ToSet(expression.around)
           \/ end = "void" /\ ~ options.ignoreVoidOperator
           \/ ValueMatters(expression.around) /\ ~ allowed

\* What the function around does from the return statement on, with the statements that are
\* in its place: it returns one of some values, or goes on.
OuterValues(expression) == IF expression.voidOuter THEN {"undefined"} ELSE {"undefined", "another"}

GoesOn(place) == place # << >> /\ ToSet(place) \cap {"inner", "loop", "clause"} # {}

Ends(expression, fix) ==
  CASE fix = "none" -> OuterValues(expression)
    [] fix = "drop" -> IF GoesOn(expression.place) THEN {"goes on"} ELSE {"undefined"}
    [] fix \in Moves -> {"undefined"}

\* And where control does not get into the branch or the loop that the statement is.
EndsAround(expression, fix) ==
  IF fix = "move" /\ expression.place[1] \in {"branch", "loop"} THEN {"undefined"} ELSE {"goes on"}

\* After a fix of a return statement its function ends where it did, with what it returned;
\* the body that an arrow function gets returns what it returned; and a fix leaves nothing to
\* report.  One fix does not keep what is returned: "move", which does not ask canFix as the
\* others do (258-276), returns undefined in place of another value, exactly if there may be
\* one (return a || f()).
VoidFixesAreRight(expression, options, reports) ==
  \A r \in reports :
    /\ r.fix \in {"drop"} \cup Moves =>
         /\ Ends(expression, r.fix) = Ends(expression, "none") <=> ~ (r.fix \in Moves /\ ~ expression.voidOuter)
         /\ EndsAround(expression, r.fix) = EndsAround(expression, "none")
    /\ r.fix = "braces" => OuterValues(expression) = {"undefined"}
    /\ r.fix # "none" => Reports(Fixed(expression, r), options) = {}
=============================================================================
