----------------------------- MODULE LintPromise -----------------------------
(***************************************************************************)
(* What the tsgolint command promises about its output, whatever the       *)
(* number of workers: it shows diagnostics, each once, and only when all   *)
(* the expected ones are shown does it print how many there are.           *)
(***************************************************************************)
EXTENDS Integers, FiniteSets

CONSTANTS Expected, NoSummary

VARIABLES shown, verdict

Init == shown = {} /\ verdict = NoSummary

\* A flush shows any number of new diagnostics.
Show ==
  /\ verdict = NoSummary
  /\ shown \subseteq shown'
  /\ shown' \in SUBSET Expected
  /\ UNCHANGED verdict

Conclude ==
  /\ verdict = NoSummary
  /\ shown = Expected
  /\ verdict' = Cardinality(Expected)
  /\ UNCHANGED shown

Next == Show \/ Conclude

\* What is never shown wrongly ...
Safety == Init /\ [][Next]_<<shown, verdict>>

\* ... and what is shown in the end.
Spec == Safety /\ <>(verdict = Cardinality(Expected))
=============================================================================
