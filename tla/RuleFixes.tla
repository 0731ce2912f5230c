----------------------------- MODULE RuleFixes -----------------------------
(***************************************************************************)
(* ApplyRuleFixes (internal/linter/source_code_fixer.go): one pass that    *)
(* applies to a file the fixes of as many diagnostics as do not overlap.   *)
(*                                                                         *)
(* The text of the file is the sequence of its characters 1, 2, ...; the   *)
(* range of a fix is given, as in the code, by the positions pos and end   *)
(* around them, so that character i lies between positions i - 1 and i,    *)
(* and the replacement text is one element of the output.                  *)
(***************************************************************************)
EXTENDS Integers, SequencesExt

CONSTANTS
  CodeLen,   \* the length of the text
  Texts,     \* the replacement texts
  Passes     \* the possible inputs: for each diagnostic in turn, its set of fixes

Fix == [pos : 0 .. CodeLen, end : 0 .. CodeLen, text : Texts]

Disjoint(f, g) == f.end <= g.pos \/ g.end <= f.pos

\* The fixes of one diagnostic are proper ranges that do not overlap: on any other input
\* the code panics in a slice.
ProperInput(input) ==
  /\ input \in Seq(SUBSET Fix)
  /\ \A d \in DOMAIN input :
       /\ IsFiniteSet(input[d])
       /\ \A f \in input[d] : f.pos <= f.end
       /\ \A f, g \in input[d] : f # g => Disjoint(f, g)

\* Numbers that are no characters stand for texts; the text of each fix is told apart.
TextsToldApart(input) ==
  \A d, e \in DOMAIN input : \A f \in input[d], g \in input[e] :
    f.text = g.text => d = e /\ f = g

InputsAssumption ==
  /\ CodeLen \in Nat
  /\ \A t \in Texts : t \in Int /\ t < 0
  /\ \A input \in Passes : ProperInput(input) /\ TextsToldApart(input)

VARIABLES
  fixes,       \* the input: the set of fixes of each diagnostic
  pc,          \* where the function is
  withFixes,   \* the diagnostics with fixes still to look at: [id, fixes] each
  todo,        \* the fixes still to apply of the diagnostic being applied
  unapplied,   \* the diagnostics to return
  builder,     \* the output so far
  lastFixEnd,
  fixed,
  applied      \* the diagnostics applied (history)

vars == <<fixes, pc, withFixes, todo, unapplied, builder, lastFixEnd, fixed, applied>>

Diagnostics == DOMAIN fixes

Init ==
  /\ fixes \in Passes
  /\ pc = "partition"
  /\ withFixes = << >> /\ todo = << >> /\ unapplied = << >>
  /\ builder = << >> /\ lastFixEnd = 0 /\ fixed = FALSE
  /\ applied = {}

\* Fixes in the order of their starts, then of their ends.
FixLess(f, g) == f.pos < g.pos \/ (f.pos = g.pos /\ f.end < g.end)

\* The orders in which slices.SortFunc may leave the fixes of a diagnostic (it is
\* not stable: elements that compare equal come in any order) ...
SortedFixes(d) ==
  { s \in SetToSeqs(fixes[d]) : \A i, j \in DOMAIN s : i < j => ~ FixLess(s[j], s[i]) }

\* Diagnostics in the order of their first fixes' starts, then last fixes' ends.
DiagnosticLess(a, b) ==
  LET start(m) == Head(m.fixes).pos
      end(m)   == Last(m.fixes).end
  IN  start(a) < start(b) \/ (start(a) = start(b) /\ end(a) < end(b))

\* ... and the diagnostics of a set.
SortedDiagnostics(S) ==
  { s \in SetToSeqs(S) : \A i, j \in DOMAIN s : i < j => ~ DiagnosticLess(s[j], s[i]) }

\* Diagnostics in the order of the input.
InOrder(S) == { s \in SetToSeqs(S) : \A i, j \in DOMAIN s : i < j => s[i] < s[j] }

\* Sort each diagnostic's fixes, set apart the diagnostics without fixes, and
\* sort the others.
Partition ==
  /\ pc = "partition"
  /\ LET without == { d \in Diagnostics : fixes[d] = {} } IN
     /\ unapplied' \in InOrder(without)
     /\ \E order \in [Diagnostics \ without -> UNION { SortedFixes(d) : d \in Diagnostics }] :
          /\ \A d \in DOMAIN order : order[d] \in SortedFixes(d)
          /\ withFixes' \in SortedDiagnostics({ [id |-> d, fixes |-> order[d]] : d \in DOMAIN order })
  /\ pc' = "diagnostics"
  /\ UNCHANGED <<fixes, todo, builder, lastFixEnd, fixed, applied>>

\* Mutant: it is the last fix of the diagnostic that is compared.
LastFixOverlaps(m) == lastFixEnd > Last(m.fixes).pos

\* The diagnostic starts within what has been replaced already.
Overlaps(m) == lastFixEnd > Head(m.fixes).pos

\* Mutant: a skipped diagnostic is not returned to the caller.
SkipSilently ==
  /\ pc = "diagnostics" /\ withFixes # << >>
  /\ Overlaps(Head(withFixes))
  /\ withFixes' = Tail(withFixes)
  /\ UNCHANGED <<fixes, pc, todo, unapplied, builder, lastFixEnd, fixed, applied>>

Skip ==
  /\ pc = "diagnostics" /\ withFixes # << >>
  /\ Overlaps(Head(withFixes))
  /\ unapplied' = Append(unapplied, Head(withFixes).id)
  /\ withFixes' = Tail(withFixes)
  /\ UNCHANGED <<fixes, pc, todo, builder, lastFixEnd, fixed, applied>>

StartApplying ==
  /\ pc = "diagnostics" /\ withFixes # << >>
  /\ ~ Overlaps(Head(withFixes))
  /\ todo' = Head(withFixes).fixes
  /\ applied' = applied \cup {Head(withFixes).id}
  /\ withFixes' = Tail(withFixes)
  /\ pc' = "fixes"
  /\ UNCHANGED <<fixes, unapplied, builder, lastFixEnd, fixed>>

\* code[from:to]
Slice(from, to) == [i \in 1 .. (to - from) |-> from + i]

ApplyFix ==
  /\ pc = "fixes" /\ todo # << >>
  /\ LET fix == Head(todo) IN
       IF lastFixEnd > fix.pos
       THEN pc' = "panic" /\ UNCHANGED <<fixed, builder, lastFixEnd>>
       ELSE /\ fixed' = TRUE
            /\ builder' = builder \o Slice(lastFixEnd, fix.pos) \o <<fix.text>>
            /\ lastFixEnd' = fix.end
            /\ UNCHANGED pc
  /\ todo' = Tail(todo)
  /\ UNCHANGED <<fixes, withFixes, unapplied, applied>>

NextDiagnostic ==
  /\ pc = "fixes" /\ todo = << >>
  /\ pc' = "diagnostics"
  /\ UNCHANGED <<fixes, withFixes, todo, unapplied, builder, lastFixEnd, fixed, applied>>

Return ==
  /\ pc = "diagnostics" /\ withFixes = << >>
  /\ builder' = builder \o Slice(lastFixEnd, CodeLen)
  /\ pc' = "returned"
  /\ UNCHANGED <<fixes, withFixes, todo, unapplied, lastFixEnd, fixed, applied>>

Next == Partition \/ Skip \/ StartApplying \/ ApplyFix \/ NextDiagnostic \/ Return

Spec == Init /\ [][Next]_vars

-----------------------------------------------------------------------------
(* Properties. *)

AppliedFixes == UNION { fixes[d] : d \in applied }
Covered(i) == \E f \in AppliedFixes : f.pos < i /\ i <= f.end

\* The output is the text with exactly the fixes of the applied diagnostics made:
\* these do not overlap, the characters none of them replaces are kept in order,
\* and each replacement text stands once, where its range was.
OutputIsFixedCode ==
  pc = "returned" =>
    /\ \A f, g \in AppliedFixes : f # g => Disjoint(f, g)
    /\ IsInjective(builder)
    /\ Range(builder) =
         { i \in 1 .. CodeLen : ~ Covered(i) } \cup { f.text : f \in AppliedFixes }
    /\ \A j, k \in DOMAIN builder : builder[j] \notin Texts =>
         /\ builder[k] \notin Texts => (j < k => builder[j] < builder[k])
         /\ \A f \in AppliedFixes : builder[k] = f.text =>
              (IF j < k THEN builder[j] <= f.pos ELSE builder[j] > f.end)

\* The caller gets back, once each, the diagnostics that were not applied.
NoDiagnosticIsLost ==
  pc = "returned" =>
    /\ IsInjective(unapplied)
    /\ Range(unapplied) = Diagnostics \ applied

\* A fix is put off only for an applied diagnostic that reaches over its start.
\* So a pass with something to fix does fix something, and says so; the caller's
\* loop, which ends when nothing was fixed, makes progress until then.
PutOffForAReason ==
  pc = "returned" =>
    LET First(d) == CHOOSE p \in { f.pos : f \in fixes[d] } : \A f \in fixes[d] : p <= f.pos
    IN  /\ \A d \in Diagnostics \ applied : fixes[d] # {} =>
             \E a \in applied :
               First(a) <= First(d) /\ \E f \in fixes[a] : First(d) < f.end
        /\ fixed <=> \E d \in Diagnostics : fixes[d] # {}
=============================================================================
