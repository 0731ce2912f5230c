----------------------------- MODULE AwaitRules -----------------------------
(***************************************************************************)
(* A file is walked once for all rules: require-await and return-await     *)
(* listen to the same walk, each with its own state.                       *)
(***************************************************************************)
EXTENDS RequireAwait, ReturnAwait

allVars ==
  <<vars, currentScope, functionsReported, option, scope, returnsReported>>

RulesInit == Init /\ RequireAwaitInit /\ ReturnAwaitInit

\* A step of the walk, and what the rules' listeners do in it.
RulesNext == RequireAwaitNext /\ ReturnAwaitNext

RulesSpec == RulesInit /\ [][RulesNext]_allVars
-----------------------------------------------------------------------------
(* Properties.  Those of the walk, see AstWalk, hold here too. *)

\* require-await never looks at another function's scope, or at none, and reports the
\* async functions without need of being async.
FunctionsReportedAreRight == ScopesAreFunctions /\ FunctionReportsAreRight

\* return-await judges a return statement by its own function, and reports the promises
\* that should (not) be awaited where they are returned.
ReturnsReportedAreRight == ScopeOwnsReturn /\ ReturnReportsAreRight
=============================================================================
