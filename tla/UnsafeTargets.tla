--------------------------- MODULE UnsafeTargets ---------------------------
(***************************************************************************)
(* The rule no-unsafe-assignment: which targets of an assignment and which *)
(* properties of an object literal it reports.  Module UnsafeAssignment    *)
(* says when types are unsafe to assign (unsafe, below).                   *)
(*                                                                         *)
(* A type is [kind, parts]: "any", "plain", "array" of a part, "tuple" of  *)
(* parts, or "object" with its parts at the keys 1, 2 ...  A target is     *)
(* [kind, literal, parts, keys]: "name", "hole", "rest", or a pattern,     *)
(* "array" or "object" (with the keys of its parts, 0 if computed),        *)
(* written as an expression (literal) or as a declaration.  A report is    *)
(* at the path of part numbers to the target.                              *)
(***************************************************************************)
EXTENDS Integers, Sequences, FiniteSets

IsTypeAny(t) == t.kind = "any"
IsTypeAnyArray(t) == t.kind = "array" /\ t.parts[1].kind = "any"

(***************************************************************************)
(* checkArrayDestructure, checkObjectDestructure.  Nothing depends on      *)
(* whether they say that they reported, which they do not always say.      *)
(***************************************************************************)
RECURSIVE CheckTarget(_, _, _)
\* Mutant: what is in a part that gets any is looked at instead.
CheckTargetInside(p, t, path) ==
  CASE p.kind = "array" /\ IsTypeAnyArray(t) -> {[at |-> path, message |-> "unsafeArrayPattern"]}
    [] p.kind = "array" /\ t.kind = "tuple" ->
         UNION { CheckTarget(p.parts[i], t.parts[i], Append(path, i)) :
                   i \in DOMAIN p.parts \cap DOMAIN t.parts }
    [] OTHER -> {}

CheckTarget(p, t, path) ==
  LET Part(i, type) ==
        LET q == p.parts[i] IN
        CASE q.kind = "rest" \/ (q.kind = "hole" /\ ~ p.literal) -> {}
          [] q.kind # "rest" /\ ~ (q.kind = "hole" /\ ~ p.literal) /\ IsTypeAny(type) ->
               {[at |-> Append(path, i), message |-> "unsafeArrayPatternFromTuple"]}
          [] OTHER -> CheckTarget(q, type, Append(path, i))
  IN  CASE p.kind = "array" /\ IsTypeAnyArray(t) -> {[at |-> path, message |-> "unsafeArrayPattern"]}
        [] p.kind = "array" /\ t.kind = "tuple" ->
             UNION { Part(i, t.parts[i]) : i \in DOMAIN p.parts \cap DOMAIN t.parts }
        [] p.kind = "object" /\ t.kind = "object" ->
             UNION { Part(i, t.parts[p.keys[i]]) :
                       i \in { j \in DOMAIN p.parts : p.keys[j] \in DOMAIN t.parts } }
        [] OTHER -> {}

\* checkAssignment; the receiver may be unknown, or be compared by no type of its own.
CheckAssignment(type, receiverUnknown, comparison, unsafe, anyThis) ==
  CASE IsTypeAny(type) /\ receiverUnknown -> {}
    [] IsTypeAny(type) /\ ~ receiverUnknown ->
         {[at |-> << >>, message |-> IF anyThis THEN "anyAssignmentThis" ELSE "anyAssignment"]}
    [] OTHER -> IF comparison # "none" /\ unsafe
                THEN {[at |-> << >>, message |-> "unsafeAssignment"]} ELSE {}

\* checkAssignmentFull, and the listener of variables, which may have no type.
AssignmentReports(a) ==
  LET whole == CheckAssignment(a.type, a.receiverUnknown, a.comparison, a.unsafe, a.anyThis)
  IN  IF whole # {} THEN whole ELSE CheckTarget(a.target, a.type, << >>)

\* The listener of object literals, which returns at an initializer that assigns, and the
\* listener of assignments ("handled by other selector"), which takes plain ones.  A property
\* is [kind, unsafe, assigns, unknown]: whether its value has any that the property must not
\* have; the assignment that its initializer is, in whatever parentheses ("no", "=" or
\* "compound"), and whether the target of that is unknown.
ObjectLiteralReports(properties) ==
  LET IsProperty(i) == properties[i].kind \in {"property", "shorthand"}
      Assigns(i) == IsProperty(i) /\ properties[i].assigns # "no"
  IN  { [at |-> i, by |-> "property"] :
          i \in { j \in DOMAIN properties :
                    IsProperty(j) /\ properties[j].unsafe /\ ~ \E k \in 1 .. j : Assigns(k) } }
      \cup { [at |-> i, by |-> "assignment"] :
               i \in { j \in DOMAIN properties :
                         Assigns(j) /\ properties[j].assigns = "=" /\ properties[j].unsafe
                           /\ ~ properties[j].unknown } }

-----------------------------------------------------------------------------
(* What JavaScript assigns. *)

\* The targets within p and the types of what they get; any has parts of any.
RECURSIVE Received(_, _, _)
Received(p, t, path) ==
  LET Got(i) ==
        CASE t.kind = "any" -> {t}
          [] t.kind = "array" /\ p.kind = "array" -> {t.parts[1]}
          [] t.kind = "tuple" /\ p.kind = "array" -> { t.parts[j] : j \in {i} \cap DOMAIN t.parts }
          [] t.kind = "object" /\ p.kind = "object" ->
               { t.parts[k] : k \in {p.keys[i]} \cap DOMAIN t.parts }
          [] OTHER -> {}
  IN  {[at |-> path, target |-> p, type |-> t]}
        \cup UNION { UNION { Received(p.parts[i], type, Append(path, i)) : type \in Got(i) } :
                     i \in DOMAIN p.parts }

RECURSIVE HasAny(_)
HasAny(t) == t.kind = "any" \/ \E i \in DOMAIN t.parts : HasAny(t.parts[i])

\* What arrays contain is only looked at if it is any.
RECURSIVE ArraysArePlain(_)
ArraysArePlain(t) ==
  /\ t.kind = "array" => IsTypeAnyArray(t) \/ ~ HasAny(t)
  /\ \A i \in DOMAIN t.parts : ArraysArePlain(t.parts[i])

IsPrefix(s, t) == Len(s) <= Len(t) /\ SubSeq(t, 1, Len(s)) = s

\* A name that gets any is reported, or a pattern that it is in, only one of these, and only
\* what gets any is (except a hole of an assignment, which gets nothing).
EveryAnyIsReportedOnce(a, reports) ==
  LET received == Received(a.target, a.type, << >>) IN
  /\ \A r \in received :
       (r.target.kind = "name" /\ IsTypeAny(r.type) /\ ArraysArePlain(a.type) /\ ~ a.receiverUnknown)
         => Cardinality({ q \in reports : IsPrefix(q.at, r.at) }) = 1
  /\ \A q \in reports :
       \/ q.message = "unsafeAssignment"
       \/ \E r \in received : r.at = q.at /\ (IsTypeAny(r.type) \/ IsTypeAnyArray(r.type))

\* An unsafe value of a property is reported once, be it by the property or by an assignment
\* that it is, with two exceptions, all of them: what an assignment gives to a property and to
\* an unknown target, or adds, is not reported; and of the properties after the first one that
\* is given an assignment none is reported, since the loop returns there (435-443) where it
\* would have to go on.
ObjectLiteralIsReported(properties, reports) ==
  LET Gives(i) == properties[i].kind = "property" /\ properties[i].assigns # "no"
      After(i) == \E j \in DOMAIN properties : j < i /\ Gives(j)
      Heard(i) == IF Gives(i) THEN properties[i].assigns = "=" /\ ~ properties[i].unknown ELSE ~ After(i)
  IN  \A i \in DOMAIN properties :
        Cardinality({ r \in reports : r.at = i }) =
          IF properties[i].kind # "other" /\ properties[i].unsafe /\ Heard(i) THEN 1 ELSE 0
=============================================================================
