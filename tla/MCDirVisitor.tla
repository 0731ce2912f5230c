---------------------------- MODULE MCDirVisitor ----------------------------
(***************************************************************************)
(* A small file tree for DirVisitor: two base paths, three levels below    *)
(* the first one (the deepest beyond a depth limit of 3), an excluded      *)
(* directory and files of two include patterns and of none.                *)
(*                                                                         *)
(*   root: f2 (2nd pattern), f1 (1st)   other: f5 (1st)                    *)
(*     a: f3 (1st), x (none)                                               *)
(*       deep: f4 (2nd)                                                    *)
(*         deeper: f6 (1st)                                                *)
(*     b: (no files)                                                       *)
(*     c: f8 (1st)                                                         *)
(*     d: (no files)                                                       *)
(*     hidden (excluded): f7 (1st)                                         *)
(***************************************************************************)
EXTENDS DirVisitor

CONSTANTS root, other, a, b, c, d, hidden, deep, deeper, f1, f2, f3, f4, f5, f6, f7, f8, x

MCDirs == {root, other, a, b, c, d, hidden, deep, deeper}
MCFileNames == {f1, f2, f3, f4, f5, f6, f7, f8, x}
MCFilesOf ==
  (root :> <<f2, f1>>) @@ (other :> <<f5>>) @@ (a :> <<f3, x>>) @@ (b :> << >>) @@ (d :> << >>)
    @@ (c :> <<f8>>) @@ (hidden :> <<f7>>) @@ (deep :> <<f4>>) @@ (deeper :> <<f6>>)
MCSubDirsOf ==
  (root :> <<a, hidden, b, c, d>>) @@ (a :> <<deep>>) @@ (deep :> <<deeper>>)
    @@ [e \in {other, b, c, d, hidden, deeper} |-> << >>]
MCIncludeOf ==
  [f \in {f1, f3, f5, f6, f7, f8} |-> 1] @@ [f \in {f2, f4} |-> 2] @@ (x :> 0)
MCDirMatches == MCDirs \ {hidden}
MCBasePaths == <<root, other>>

-----------------------------------------------------------------------------
(* The visitor as it was before patches/0001: the lines the patch removes.  One goroutine
   walks the directories depth first, skips those it has visited, and keeps one list of
   files per include pattern.  patches/README.md says that the patches change no
   behaviour. *)

CONSTANT Includes  \* the number of include patterns

ASSUME IncludesAssumption == Includes \in Nat /\ \A f \in FileNames : IncludeOf[f] <= Includes

RECURSIVE VisitDirectory(_, _, _)

\* v is the visitor: the directories visited and the results per pattern.
VisitDirectory(v, dir, depth) ==
  IF dir \in v.visited THEN v
  ELSE LET below == IF depth = NoDepth THEN NoDepth ELSE depth - 1
           here == [visited |-> v.visited \cup {dir},
                    results |-> [i \in 1 .. Includes |->
                      v.results[i] \o SelectSeq(FilesOf[dir], LAMBDA file : IncludeOf[file] = i)]]
           within == SelectSeq(SubDirsOf[dir], LAMBDA s : s \in DirMatches)
       IN  IF DepthLeft(depth)
           THEN FoldLeft(LAMBDA u, s : VisitDirectory(u, s, below), here, within)
           ELSE here

UnpatchedResult ==
  LET v0 == [visited |-> {}, results |-> [i \in 1 .. Includes |-> << >>]]
  IN  FlattenSeq(FoldLeft(LAMBDA v, dir : VisitDirectory(v, dir, Depth), v0, BasePaths).results)

\* "These patches do not change the behavior of typescript-go"
\* (patches/README.md:3): ReadDirectory returns the files it returned before.
SameAsUnpatched == mainPc = "returned" => Result = UnpatchedResult
=============================================================================
