-------------------------- MODULE UnsafeAssignment --------------------------
(***************************************************************************)
(* isUnsafeAssignmentWorker (internal/utils/ts_eslint.go): does assigning  *)
(* a value of one type to a receiver of another put an "any" where         *)
(* something else is expected, perhaps deep in the types' arguments?       *)
(* Types may contain themselves, so the recursion keeps the pairs of types *)
(* it has been asked about.                                                *)
(*                                                                         *)
(* The recursion is modelled as it runs: "calls" is the stack of the calls *)
(* that wait for another one, and a step is a call or a return.            *)
(***************************************************************************)
EXTENDS Integers, Sequences, FiniteSets

CONSTANTS
  Types,         \* the types of a program
  Any, Unknown,  \* two of them
  Targets,       \* the generic types that are instantiated
  NoTarget,      \* (for the types that are no type reference)
  Programs       \* for each program, what each of its types is

ASSUME TypesAssumption == Any \in Types /\ Unknown \in Types /\ Any # Unknown
\* The checker makes the types of a program up to a bound on instantiations.
ASSUME FiniteAssumption == IsFiniteSet(Types)
ASSUME TargetsAssumption == NoTarget \notin Targets

\* A type reference has a target and arguments; a target has a certain number of
\* type parameters.
ASSUME ProgramsAssumption ==
  \A types \in Programs :
    /\ types \in [Types -> [target : Targets \cup {NoTarget}, arguments : Seq(Types)]]
    /\ types[Any].target = NoTarget /\ types[Unknown].target = NoTarget
    /\ \A t, receiver \in Types :
         types[t].target = types[receiver].target
           => Len(types[t].arguments) = Len(types[receiver].arguments)

VARIABLES
  types,      \* the program
  emptyMap,   \* the sender is the expression "new Map()"
  assignment, \* the types IsUnsafeAssignment is called with, <<sender, receiver>>
  visited,    \* the pairs of types the worker has been called with
  calls,      \* the waiting calls: the pair and how many arguments have been compared
  state,      \* "call": the worker is called with "pair"; "back": it has returned
  pair,
  unsafe      \* the result, after a return

vars == <<types, emptyMap, assignment, visited, calls, state, pair, unsafe>>

Pairs == Types \X Types

Init ==
  /\ types \in Programs
  /\ emptyMap \in BOOLEAN
  /\ assignment \in Pairs
  /\ visited = {} /\ calls = << >>
  /\ state = "call" /\ pair = assignment /\ unsafe = FALSE

-----------------------------------------------------------------------------

IsNonDeferredTypeReference(t) == types[t].target # NoTarget

\* The arguments of the two types are compared.
Comparable(p) ==
  /\ IsNonDeferredTypeReference(p[1]) /\ IsNonDeferredTypeReference(p[2])
  /\ types[p[1]].target = types[p[2]].target
  /\ ~ emptyMap

ArgumentCount(p) == Len(types[p[1]].arguments)
ArgumentPair(p, i) == <<types[p[1]].arguments[i], types[p[2]].arguments[i]>>

\* The pairs that the check for any lets through.
LetThrough(p) == p[1] = Any => p[2] = Any

Return(result) ==
  /\ state' = "back"
  /\ unsafe' = result
  /\ UNCHANGED <<types, emptyMap, assignment, pair>>

\* any is assigned: to unknown, or to something that has a type.
CheckAny ==
  /\ state = "call" /\ ~ LetThrough(pair)
  /\ Return(pair[2] # Unknown)
  /\ UNCHANGED <<visited, calls>>

\* Mutant: only the sender of a visited pair is looked at.
AlreadyVisitedSender ==
  /\ state = "call" /\ LetThrough(pair)
  /\ \E p \in visited : p[1] = pair[1]
  /\ Return(FALSE)
  /\ UNCHANGED <<visited, calls>>

AlreadyVisited ==
  /\ state = "call" /\ LetThrough(pair)
  /\ pair \in visited
  /\ Return(FALSE)
  /\ UNCHANGED <<visited, calls>>

NotComparable ==
  /\ state = "call" /\ LetThrough(pair)
  /\ pair \notin visited
  /\ visited' = visited \cup {pair}
  /\ ~ Comparable(pair)
  /\ Return(FALSE)
  /\ UNCHANGED calls

\* Mutant: a receiver is not added to those of a sender that was visited before.
CompareNotingSenderOnce ==
  /\ state = "call" /\ LetThrough(pair)
  /\ pair \notin visited
  /\ visited' = IF \E p \in visited : p[1] = pair[1] THEN visited ELSE visited \cup {pair}
  /\ Comparable(pair)
  /\ calls' = Append(calls, [pair |-> pair, compared |-> 0])
  /\ Return(FALSE)

\* The loop over the arguments is entered, with nothing unsafe yet.
CompareArguments ==
  /\ state = "call" /\ LetThrough(pair)
  /\ pair \notin visited
  /\ visited' = visited \cup {pair}
  /\ Comparable(pair)
  /\ calls' = Append(calls, [pair |-> pair, compared |-> 0])
  /\ Return(FALSE)

Innermost == calls[Len(calls)]
OtherCalls == SubSeq(calls, 1, Len(calls) - 1)

\* Mutant: the loop stays at the same argument.
NextArgumentStuck ==
  /\ state = "back" /\ calls # << >> /\ ~ unsafe
  /\ Innermost.compared < ArgumentCount(Innermost.pair)
  /\ state' = "call"
  /\ pair' = ArgumentPair(Innermost.pair, Innermost.compared + 1)
  /\ UNCHANGED <<types, emptyMap, assignment, visited, calls, unsafe>>

\* Mutant: the loop's index is incremented twice.
NextArgumentTwice ==
  /\ state = "back" /\ calls # << >> /\ ~ unsafe
  /\ Innermost.compared < ArgumentCount(Innermost.pair)
  /\ state' = "call"
  /\ pair' = ArgumentPair(Innermost.pair, Innermost.compared + 1)
  /\ calls' = [calls EXCEPT ![Len(calls)].compared = @ + 2]
  /\ UNCHANGED <<types, emptyMap, assignment, visited, unsafe>>

NextArgument ==
  /\ state = "back" /\ calls # << >> /\ ~ unsafe
  /\ Innermost.compared < ArgumentCount(Innermost.pair)
  /\ state' = "call"
  /\ pair' = ArgumentPair(Innermost.pair, Innermost.compared + 1)
  /\ calls' = [calls EXCEPT ![Len(calls)].compared = @ + 1]
  /\ UNCHANGED <<types, emptyMap, assignment, visited, unsafe>>

\* The loop ends: something is unsafe, or there are no more arguments.
LeaveLoop ==
  /\ state = "back" /\ calls # << >>
  /\ unsafe \/ Innermost.compared = ArgumentCount(Innermost.pair)
  /\ pair' = Innermost.pair
  /\ calls' = OtherCalls
  /\ UNCHANGED <<types, emptyMap, assignment, visited, state, unsafe>>

Done == state = "back" /\ calls = << >>

Next ==
  \/ CheckAny \/ AlreadyVisited \/ NotComparable \/ CompareArguments
  \/ NextArgument \/ LeaveLoop

Spec == Init /\ [][Next]_vars /\ WF_vars(Next)
-----------------------------------------------------------------------------
(* What the result should be, without a stack or a set of visited pairs. *)

\* The pairs at corresponding places of the two types, up to n arguments deep.
PairsWithin[n \in Nat] ==
  IF n = 0 THEN {assignment}
  ELSE LET pairs == PairsWithin[n - 1] IN
       pairs \cup UNION { { ArgumentPair(p, i) : i \in 1 .. ArgumentCount(p) } :
                            p \in { q \in pairs : Comparable(q) } }

\* A place that can be reached can be reached without meeting a pair twice.
PairsReached == PairsWithin[Cardinality({ p \in Pairs : Comparable(p) })]

\* An any is given where some other type than unknown is expected.
Unsafe(p) == p[1] = Any /\ p[2] \notin {Any, Unknown}
-----------------------------------------------------------------------------
(* Properties. *)

Call == [pair : Pairs, compared : Nat]

TypeOK ==
  /\ types \in Programs
  /\ emptyMap \in BOOLEAN
  /\ assignment \in Pairs
  /\ visited \subseteq Pairs
  /\ calls \in Seq(Call)
  /\ \A k \in DOMAIN calls : calls[k].compared <= ArgumentCount(calls[k].pair)
  /\ state \in {"call", "back"}
  /\ pair \in Pairs
  /\ unsafe \in BOOLEAN

\* The answer is "unsafe" just when somewhere in the two types, however deep, an
\* any meets another type: leaving out pairs that have been visited before, which
\* may be pairs whose own answer is not known yet, never hides one.
VerdictIsRight == Done => (unsafe <=> \E p \in PairsReached : Unsafe(p))

\* No call waits for a call with the same types, however the types contain each
\* other: the stack is no deeper than there are pairs of types.
NoCallWaitsForItself ==
  \A j, k \in DOMAIN calls : j # k => calls[j].pair # calls[k].pair

\* The call returns.
Returns == <>Done
=============================================================================
