------------------------------ MODULE MCRules ------------------------------
(***************************************************************************)
(* All rules whose listeners are modelled.  A behaviour is one call of a   *)
(* listener of TypeRules, or the walk over one file that the rules of      *)
(* AwaitRules listen to.                                                   *)
(***************************************************************************)
EXTENDS MCTypeRules, MCAwaitRules

\* The walk has yet to begin, over a file with one identifier.
NoWalk ==
  /\ ast = Other(SourceFile, <<Do(Id)>>)
  /\ agenda = ForEachChild(ast, << >>) /\ events = << >>
  /\ RequireAwaitInit
  /\ option = "Always" /\ scope = << >> /\ returnsReported = {}

\* No other rule listens.
NoCall ==
  /\ rule = "none" /\ node = "none" /\ returned = FALSE /\ report = {}
  /\ FloatingPromisesIdle

AllInit == (NoWalk /\ TypeInit) \/ (NoCall /\ RulesInit)

AllNext ==
  \/ /\ rule # "none" /\ TypeNext
     /\ UNCHANGED allVars
  \/ /\ rule = "none" /\ RulesNext
     /\ UNCHANGED typeVars

AllSpec == AllInit /\ [][AllNext]_<<typeVars, allVars>>
=============================================================================
