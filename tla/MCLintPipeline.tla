--------------------------- MODULE MCLintPipeline ---------------------------
(***************************************************************************)
(* A small instance of LintPipeline: three files, the two longest of which *)
(* have the same length (so their order is open), two rules that share a   *)
(* kind, and reports at Run, at a shared node, at both nodes of one file,  *)
(* and at a node whose kind the rule does not listen to.                   *)
(***************************************************************************)
EXTENDS LintPipeline, TLC

CONSTANTS f1, f2, f3, k1, k2, r1, r2

MCFiles == {f1, f2, f3}
MCTextLen == (f1 :> 20) @@ (f2 :> 20) @@ (f3 :> 7)
MCKinds == {k1, k2}
MCNodes == (f1 :> <<k1, k2>>) @@ (f2 :> <<k1>>) @@ (f3 :> << >>)
MCRuleList == <<r1, r2>>
MCListens == (r1 :> {k1}) @@ (r2 :> {k1, k2})
MCFinds == { <<f1, 1, r1>>, <<f1, 1, r2>>, <<f1, 2, r1>>, <<f1, 2, r2>>,
             <<f2, 1, r2>>, <<f3, 0, r1>> }
=============================================================================
