--------------------------- MODULE MCSingleCalls ---------------------------
(***************************************************************************)
(* Calls of procedures that keep nothing from one call to the next: those  *)
(* of SingleCalls, and those of IsUnsafeAssignment (UnsafeAssignment).  A  *)
(* behaviour is one call of one of them; what the other module describes   *)
(* is not called, or has returned.                                         *)
(***************************************************************************)
EXTENDS SingleCalls, UnsafeAssignment

Sequence == INSTANCE SequencesExt

(***************************************************************************)
(* no-unsafe-argument: calls with up to three arguments of functions with  *)
(* up to two parameters and a rest parameter.  All types in a signature    *)
(* are different.                                                          *)
(***************************************************************************)
Param(rest, ts) == [rest |-> rest, types |-> ts]

Rests ==
  {<< >>, <<Param("array", <<"r1">>)>>, <<Param("other", <<"r1">>)>>, <<Param("tuple", << >>)>>,
   <<Param("tuple", <<"r1">>)>>, <<Param("tuple", <<"r1", "r2", "r3">>)>>}

Signatures ==
  LET Fixed == <<Param("no", <<"p1">>), Param("no", <<"p2">>)>>
  IN  { SubSeq(Fixed, 1, n) \o rest : n \in 0 .. 2, rest \in Rests }

Argument(is, ts) == [is |-> is, types |-> ts]

MCArguments ==
  {Argument("value", <<"v">>), Argument("any", << >>), Argument("anyArray", << >>),
   Argument("other", << >>)}
    \cup { Argument(is, ts) : is \in {"tuple", "openTuple"}, ts \in {<<"t1">>, <<"t1", "t2">>} }
    \cup {Argument("tuple", << >>)}

MCCalls ==
  { [calleeIsAny |-> FALSE, taggedTemplate |-> FALSE, parameters |-> p, arguments |-> a] :
      p \in Signatures, a \in Sequence!BoundedSeq(MCArguments, 3) }
  \cup { [calleeIsAny |-> FALSE, taggedTemplate |-> TRUE, parameters |-> p, arguments |-> a] :
           p \in Signatures \ { << >> }, a \in Sequence!BoundedSeq({Argument("value", <<"v">>)}, 4) }
  \cup { [calleeIsAny |-> TRUE, taggedTemplate |-> FALSE, parameters |-> p,
          arguments |-> <<Argument("value", <<"v">>)>>] : p \in Signatures }

(***************************************************************************)
(* ApplyRuleFixes: all triples of diagnostics with any ranges in a text of *)
(* two characters, the first two with up to two fixes that do not overlap, *)
(* the third with at most one.                                             *)
(***************************************************************************)
MCFixTexts == -5 .. -1

FixesWith(texts) == { f \in RuleFixes!Fix : f.pos <= f.end /\ f.text \in texts }

UpToOne(t) == { {} } \cup { {f} : f \in FixesWith({t}) }

UpToTwo(t, u) == UpToOne(t) \cup { {f, g} : f \in FixesWith({t}), g \in FixesWith({u}) }

MCPasses ==
  LET Proper(S) == { x \in S : \A f, g \in x : f # g => RuleFixes!Disjoint(f, g) }
  IN  { <<x, y, z>> : x \in Proper(UpToTwo(-1, -2)), y \in Proper(UpToTwo(-3, -4)), z \in UpToOne(-5) }

(***************************************************************************)
(* printDiagnostic: texts of up to five lines, each of them blank, or a    *)
(* text with a trailing space, or an indented text that ends in a wide     *)
(* character; and texts of up to four lines with any breaks.  (A last line *)
(* that is blank is a text that ends in a break.)                          *)
(***************************************************************************)
MCLines == { << >>, <<"x", "s">>, <<"s", "x", "W", "w">> }

Joined(lines, breaks) ==
  Sequence!FoldLeftDomain(LAMBDA text, k : text \o (IF k = 1 THEN << >> ELSE breaks[k - 1]) \o lines[k], << >>, lines)

MCSources ==
  LET newlines == <<<<"n">>, <<"n">>, <<"n">>, <<"n">>>>
      breaks == {<<"n">>, <<"r", "n">>, <<"r">>, <<"L", "l">>}
  IN  { Joined(lines, newlines) : lines \in UNION { [1 .. n -> MCLines] : n \in 1 .. 5 } }
      \cup UNION { { Joined(lines, b) : lines \in [1 .. n + 1 -> MCLines], b \in [1 .. n -> breaks] } : n \in 1 .. 2 }
      \cup { Joined(lines, b) : lines \in [1 .. 4 -> {<<"x">>, <<"s", "x">>}],
                                b \in [1 .. 3 -> {<<"n">>, <<"r">>, <<"L", "l">>}] }

(***************************************************************************)
(* The overlay: two files on disk and two in memory, the same or others,   *)
(* among six paths; no file is a directory as well.  A directory with two  *)
(* files on disk whose array in the cache has room for none, one or two    *)
(* more; in memory there is none, one of them or another one.              *)
(***************************************************************************)
MCPaths == {<< >>, <<"a">>, <<"b">>, <<"a", "a">>, <<"a", "b">>, <<"b", "a">>, <<"a", "a", "b">>}

MCFileSystems ==
  LET Few == { S \in SUBSET (MCPaths \ {<< >>}) : Cardinality(S) <= 2 } IN
  { fs \in [files : Few, virtual : Few] :
      \A p, q \in fs.files \cup fs.virtual : ~ OverlayFS!IsStrictPrefix(p, q) }

MCEntriesOnDisk == {"a", "b"}
MCEntryCaches ==
  { [array |-> <<"a", "b">> \o room, length |-> 2] :
      room \in {<< >>, <<"room">>, <<"room", "room">>} }
MCEntriesInMemory == {{}, {"tsconfig"}, {"b"}}

(***************************************************************************)
(* IsUnsafeAssignment: programs in which types "a" and "b" are instances   *)
(* of Set or Map, or no type reference.  The arguments of "a" are any      *)
(* types, those of "b" are "a", "b" and any.                               *)
(***************************************************************************)
MCTypes == {"any", "unknown", "string", "a", "b"}
MCTargets == {"Set", "Map"}

NoReference == [target |-> "none", arguments |-> << >>]

Instances(arguments) ==
  {NoReference}
    \cup { [target |-> "Set", arguments |-> <<t>>] : t \in arguments }
    \cup { [target |-> "Map", arguments |-> <<t, u>>] : t, u \in arguments }

MCPrograms ==
  { [t \in MCTypes |-> CASE t = "a" -> x [] t = "b" -> y [] OTHER -> NoReference] :
      x \in Instances(MCTypes), y \in Instances({"any", "a", "b"}) }

MCSmallestProgram == { [t \in MCTypes |-> NoReference] }

-----------------------------------------------------------------------------
\* IsUnsafeAssignment has returned from a call with any and any.
AssignmentReturned ==
  /\ types = [t \in MCTypes |-> NoReference] /\ emptyMap = FALSE
  /\ assignment = <<Any, Any>> /\ pair = assignment /\ visited = {assignment}
  /\ calls = << >> /\ state = "back" /\ unsafe = FALSE

NoProcedureCalled ==
  /\ procedure = "none"
  /\ UnsafeArgumentIdle /\ RuleFixesIdle /\ CodeBoxIdle /\ AskIdle /\ EntriesIdle

CallInit == (CallsInit /\ AssignmentReturned) \/ (Init /\ NoProcedureCalled)
CallNext == (CallsNext /\ UNCHANGED vars) \/ (Next /\ UNCHANGED allVars)

\* A procedure that is called goes on.
CallSpec == CallInit /\ [][CallNext]_<<vars, allVars>> /\ WF_<<vars, allVars>>(CallNext)
=============================================================================
