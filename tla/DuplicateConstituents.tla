----------------------- MODULE DuplicateConstituents -----------------------
(***************************************************************************)
(* The rule no-duplicate-type-constituents on union types (intersections   *)
(* are treated alike): what it reports of a union, in the order in which   *)
(* it walks through it, and which tokens the fixes take out.               *)
(*                                                                         *)
(* A union is its sequence of tokens: names, "|", "(" and ")".  The name   *)
(* "error" does not resolve.                                               *)
(***************************************************************************)
EXTENDS Integers, FiniteSets, SequencesExt

Punctuation == {"|", "(", ")"}

\* The numbers of a set, none above n.
InOrder(S, n) == SelectSeq([i \in 1 .. n |-> i], LAMBDA i : i \in S)

Names(text) == { text[i] : i \in DOMAIN text } \ Punctuation

\* Each token follows what it may follow, and the parentheses match.
WellFormed(text) ==
  LET Before(i) == IF i = 1 THEN "start" ELSE text[i - 1]
      Open(i) == Cardinality({ j \in 1 .. i : text[j] = "(" })
                   - Cardinality({ j \in 1 .. i : text[j] = ")" })
  IN  /\ text # << >> /\ Last(text) \notin {"|", "("}
      /\ Open(Len(text)) = 0
      /\ \A i \in DOMAIN text :
           /\ Open(i) >= 0
           /\ CASE text[i] = "|" -> Before(i) # "|"
                [] text[i] = ")" -> Before(i) \notin {"start", "|", "("}
                [] OTHER -> Before(i) \in {"start", "|", "("}

(***************************************************************************)
(* The syntax tree of the tokens from .. to: what the parser makes of it.  *)
(* A union begins with its leading "|".                                    *)
(***************************************************************************)
RECURSIVE TypeNode(_, _, _)
TypeNode(text, from, to) ==
  LET Depth(i) == Cardinality({ j \in from .. i - 1 : text[j] = "(" })
                    - Cardinality({ j \in from .. i - 1 : text[j] = ")" })
      bars == { i \in from .. to : text[i] = "|" /\ Depth(i) = 0 }
      starts == InOrder({ b + 1 : b \in bars } \cup ({from} \ bars), to)
      EndOf(s) == CHOOSE e \in s .. to :
                    /\ e = to \/ e + 1 \in bars
                    /\ \A b \in bars : b \notin s .. e
  IN  CASE bars # {} ->
             [kind |-> "union", from |-> from, to |-> to,
              parts |-> [i \in DOMAIN starts |-> TypeNode(text, starts[i], EndOf(starts[i]))]]
        [] bars = {} /\ text[from] = "(" ->
             [kind |-> "parenthesized", from |-> from, to |-> to,
              parts |-> <<TypeNode(text, from + 1, to - 1)>>]
        [] OTHER -> [kind |-> "name", from |-> from, to |-> to, parts |-> << >>]

RECURSIVE SkipTypeParentheses(_)
SkipTypeParentheses(n) ==
  IF n.kind = "parenthesized" THEN SkipTypeParentheses(n.parts[1]) ELSE n

\* The checker has one type for a set of constituents, however written.
TypeAt(text, n) == Names(SubSeq(text, n.from, n.to))

-----------------------------------------------------------------------------

\* The tokens that the fix of report removes.
RemovedTokens(text, parent, c) ==
  LET barsBefore == { i \in parent.from .. c.from - 1 : text[i] = "|" }
      barsAfter == { i \in c.to + 1 .. parent.to : text[i] = "|" }
  IN  c.from .. c.to
        \cup IF barsBefore # {}
             THEN LET bar == Max(barsBefore)
                      brackets == { i \in bar .. c.from - 1 : text[i] = "(" }
                  IN  {bar} \cup brackets \cup c.to + 1 .. c.to + Cardinality(brackets)
             ELSE c.to + 1 .. Min(barsAfter)

Report(text, parent, c, message, withFix) ==
  [constituent |-> c.from, message |-> message,
   removed |-> IF withFix THEN RemovedTokens(text, parent, c) ELSE {}]

(***************************************************************************)
(* checkDuplicateRecursively.  s holds what the walk has so far: the types *)
(* seen, the reports, and whether the last constituent was a duplicate.    *)
(***************************************************************************)
RECURSIVE CheckDuplicate(_, _, _, _, _, _)
\* Mutant: nested unions are not walked.
CheckDuplicateFlat(text, optional, parent, c, withFix, s) ==
  LET t == TypeAt(text, c) IN
  IF "error" \notin t /\ t \in s.seen
  THEN [s EXCEPT !.reports = @ \cup {Report(text, parent, c, "duplicate", withFix)}]
  ELSE [s EXCEPT !.seen = @ \cup {t}]

CheckDuplicate(text, optional, parent, c, withFix, s) ==
  LET t == TypeAt(text, c)
      inner == SkipTypeParentheses(c)
      noted == IF optional /\ t = {"undefined"}
               THEN {Report(text, parent, c, "unnecessary", TRUE)} ELSE {}
      \* allPrevRemoved: a last constituent is not removed if no other stays.
      Next(a, i) ==
        LET r == CheckDuplicate(text, optional, inner, inner.parts[i],
                                i < Len(inner.parts) \/ ~ a.allPrevRemoved, a)
        IN  [r EXCEPT !.allPrevRemoved = a.allPrevRemoved /\ r.duplicate]
      entered == [s EXCEPT !.seen = @ \cup {t}, !.reports = @ \cup noted, !.allPrevRemoved = TRUE]
  IN  CASE "error" \in t -> [s EXCEPT !.duplicate = FALSE]
        [] "error" \notin t /\ t \in s.seen ->
             [s EXCEPT !.duplicate = TRUE,
                       !.reports = @ \cup {Report(text, parent, c, "duplicate", withFix)}]
        [] OTHER ->
             LET walked == IF inner.kind # "union" THEN entered
                           ELSE FoldLeft(Next, entered, [i \in DOMAIN inner.parts |-> i])
             IN  [walked EXCEPT !.duplicate = FALSE]

\* The listener of union types, called for a union that is not in another one.
\* Only a parameter's type itself, without parentheses, is looked at for undefined.
Reports(text, optional) ==
  LET whole == TypeNode(text, 1, Len(text))
      union == SkipTypeParentheses(whole)
      Next(s, i) ==
        CheckDuplicate(text, optional /\ whole = union, union, union.parts[i], TRUE, s)
      none == [seen |-> {}, reports |-> {}, duplicate |-> FALSE, allPrevRemoved |-> TRUE]
  IN  IF union.kind # "union" THEN {}
      ELSE FoldLeft(Next, none, [i \in DOMAIN union.parts |-> i]).reports

\* ApplyRuleFixes: a diagnostic is put off if it begins in what is already removed.
\* No two of these begin at the same token.
FixedText(text, reports) ==
  LET fixes == { r.removed : r \in reports } \ {{}}
      FixAt(i) == CHOOSE f \in fixes : Min(f) = i
      Apply(removed, i) ==
        IF removed # {} /\ Max(removed) >= i THEN removed ELSE removed \cup FixAt(i)
      removed == FoldLeft(Apply, {}, InOrder({ Min(f) : f \in fixes }, Len(text)))
      kept == InOrder(DOMAIN text \ removed, Len(text))
  IN  [i \in DOMAIN kept |-> text[kept[i]]]
-----------------------------------------------------------------------------
\* A nested union has a constituent of its own type, as in ((A | B) | A).
RECURSIVE RepeatsItself(_, _)
RepeatsItself(text, c) ==
  LET inner == SkipTypeParentheses(c) IN
  \E i \in DOMAIN inner.parts :
    TypeAt(text, inner.parts[i]) = TypeAt(text, inner) \/ RepeatsItself(text, inner.parts[i])

ConstituentRepeatsItself(text) ==
  LET union == SkipTypeParentheses(TypeNode(text, 1, Len(text))) IN
  \E i \in DOMAIN union.parts : RepeatsItself(text, union.parts[i])

\* What the fixes of the reports leave is a type of the same constituents, but for the
\* undefined of an optional parameter (of which nothing else may be left).
KeepsConstituents(text, optional, reports) ==
  LET fixed == FixedText(text, reports) IN
  \/ optional /\ Names(text) = {"undefined"}
  \/ /\ WellFormed(fixed)
     /\ \/ Names(fixed) = Names(text)
        \/ optional /\ Names(fixed) = Names(text) \ {"undefined"}
=============================================================================
