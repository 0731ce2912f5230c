---------------------------- MODULE SingleCalls ----------------------------
(***************************************************************************)
(* Procedures that keep nothing from one call to the next, and share       *)
(* nothing: a behaviour is one call of the listener of no-unsafe-argument, *)
(* of ApplyRuleFixes with the fixes that rules reported, or of             *)
(* printDiagnostic, or calls of the overlay file system.                   *)
(***************************************************************************)
EXTENDS Integers, Sequences

CONSTANTS Calls, NoType,             \* see UnsafeArgument
          CodeLen, FixTexts, Passes, \* see RuleFixes
          Sources, BoxLines, MaxInt, \* see CodeBox
          FileSystems, Paths, EntriesOnDisk, EntryCaches, EntriesInMemory, Callers \* see OverlayFS

VARIABLES
  procedure,  \* the one that is called
  call, paramTypes, restType, parameterTypeIndex, hasConsumedArguments, argument, element,
  compared, unsafeSpreads,
  fixes, fixer, withFixes, todo, unapplied, builder, lastFixEnd, fixed, appliedFixes,
  d, lineMap, codeboxStartLine, codeboxEndLine, codeboxStart, codeboxEnd, printer, i, line,
  lineIndentCalculated, lastNonSpaceIndex, lineStarts, lineEnds, indentSize,
  diagnosticHighlightActive, printed,
  asked, answered, answer, cache, virtual, callers

UnsafeArgument == INSTANCE UnsafeArgument
RuleFixes == INSTANCE RuleFixes WITH Texts <- FixTexts, pc <- fixer, applied <- appliedFixes
CodeBox == INSTANCE CodeBox WITH Texts <- Sources, pc <- printer
OverlayFS == INSTANCE OverlayFS

ASSUME CallsAssumption == UnsafeArgument!CallsAssumption
ASSUME FixesAssumption == RuleFixes!InputsAssumption
ASSUME SourcesAssumption == CodeBox!TextsAssumption
ASSUME OverlayAssumption == OverlayFS!OverlayAssumption

argumentVars ==
  <<call, paramTypes, restType, parameterTypeIndex, hasConsumedArguments, argument, element,
    compared, unsafeSpreads>>
fixVars ==
  <<fixes, fixer, withFixes, todo, unapplied, builder, lastFixEnd, fixed, appliedFixes>>
boxVars ==
  <<d, lineMap, codeboxStartLine, codeboxEndLine, codeboxStart, codeboxEnd, printer, i, line,
    lineIndentCalculated, lastNonSpaceIndex, lineStarts, lineEnds, indentSize,
    diagnosticHighlightActive, printed>>
askVars == <<asked, answered, answer>>
entryVars == <<cache, virtual, callers>>
overlayVars == <<askVars, entryVars>>
allVars == <<procedure, argumentVars, fixVars, boxVars, overlayVars>>

\* The state of a procedure that is not called.
UnsafeArgumentIdle ==
  /\ call = "idle" /\ paramTypes = "idle" /\ restType = "idle"
  /\ parameterTypeIndex = "idle" /\ hasConsumedArguments = "idle" /\ argument = "idle"
  /\ element = "idle" /\ compared = "idle" /\ unsafeSpreads = "idle"

RuleFixesIdle ==
  /\ fixes = "idle" /\ fixer = "idle" /\ withFixes = "idle" /\ todo = "idle" /\ unapplied = "idle"
  /\ builder = "idle" /\ lastFixEnd = "idle" /\ fixed = "idle" /\ appliedFixes = "idle"

CodeBoxIdle ==
  /\ d = "idle" /\ lineMap = "idle" /\ codeboxStartLine = "idle" /\ codeboxEndLine = "idle"
  /\ codeboxStart = "idle" /\ codeboxEnd = "idle" /\ printer = "idle" /\ i = "idle" /\ line = "idle"
  /\ lineIndentCalculated = "idle" /\ lastNonSpaceIndex = "idle" /\ lineStarts = "idle"
  /\ lineEnds = "idle" /\ indentSize = "idle" /\ diagnosticHighlightActive = "idle" /\ printed = "idle"

AskIdle == asked = "idle" /\ answered = "idle" /\ answer = "idle"
EntriesIdle == cache = "idle" /\ virtual = "idle" /\ callers = "idle"

CallsInit ==
  \/ /\ procedure = "no-unsafe-argument" /\ UnsafeArgument!Init
     /\ RuleFixesIdle /\ CodeBoxIdle /\ AskIdle /\ EntriesIdle
  \/ /\ procedure = "ApplyRuleFixes" /\ RuleFixes!Init
     /\ UnsafeArgumentIdle /\ CodeBoxIdle /\ AskIdle /\ EntriesIdle
  \/ /\ procedure = "printDiagnostic" /\ CodeBox!Init
     /\ UnsafeArgumentIdle /\ RuleFixesIdle /\ AskIdle /\ EntriesIdle
  \/ /\ procedure = "OverlayVFS" /\ OverlayFS!AskInit
     /\ UnsafeArgumentIdle /\ RuleFixesIdle /\ CodeBoxIdle /\ EntriesIdle
  \/ /\ procedure = "GetAccessibleEntries" /\ OverlayFS!CallInit
     /\ UnsafeArgumentIdle /\ RuleFixesIdle /\ CodeBoxIdle /\ AskIdle

CheckArguments ==
  /\ procedure = "no-unsafe-argument" /\ UnsafeArgument!Next
  /\ UNCHANGED <<procedure, fixVars, boxVars, overlayVars>>

ApplyRuleFixes ==
  /\ procedure = "ApplyRuleFixes" /\ RuleFixes!Next
  /\ UNCHANGED <<procedure, argumentVars, boxVars, overlayVars>>

PrintDiagnostic ==
  /\ procedure = "printDiagnostic" /\ CodeBox!Next
  /\ UNCHANGED <<procedure, argumentVars, fixVars, overlayVars>>

AskOverlay ==
  /\ procedure = "OverlayVFS" /\ OverlayFS!Ask
  /\ UNCHANGED <<procedure, argumentVars, fixVars, boxVars, entryVars>>

CallForEntries ==
  /\ procedure = "GetAccessibleEntries" /\ OverlayFS!CallNext
  /\ UNCHANGED <<procedure, argumentVars, fixVars, boxVars, askVars>>

CallsNext ==
  CheckArguments \/ ApplyRuleFixes \/ PrintDiagnostic \/ AskOverlay \/ CallForEntries

\* A procedure that is called goes on.
CallsSpec == CallsInit /\ [][CallsNext]_allVars /\ WF_allVars(CallsNext)
-----------------------------------------------------------------------------
(* Properties: those of the procedures. *)

\* no-unsafe-argument compares every value with the type declared for its place, and what
\* follows a tuple of variable length with the rest parameter.
ArgumentsMeetTheirParameters ==
  procedure = "no-unsafe-argument" =>
    /\ UnsafeArgument!TypeOK
    /\ UnsafeArgument!EachWithItsOwnParameter
    /\ UnsafeArgument!OnlyRestAfterOpenTuple

\* ApplyRuleFixes returns the text with the fixes of the applied diagnostics made, and the
\* diagnostics that it put off, each for one that it applied.
FixedCodeIsRight ==
  procedure = "ApplyRuleFixes" =>
    /\ RuleFixes!OutputIsFixedCode
    /\ RuleFixes!NoDiagnosticIsLost
    /\ RuleFixes!PutOffForAReason

\* printDiagnostic prints the lines of the box, without what they are indented by, and
\* underlines the range of the diagnostic, up to the first line break that is no newline.
BoxShowsRange ==
  procedure = "printDiagnostic" => CodeBox!BoxShowsLines /\ CodeBox!RangeIsUnderlined

\* The overlay is one file system: its operations agree about a path, whichever is asked, and a
\* call for the entries of a directory has all of them, whoever else calls; what it has twice is
\* what is in memory and on disk, or in two files in memory.
OverlayIsOneFileSystem ==
  /\ procedure = "OverlayVFS" => OverlayFS!ViewsAgree
  /\ procedure = "GetAccessibleEntries" => OverlayFS!EntriesAreComplete

\* ApplyRuleFixes returns: no order of the diagnostics makes it slice backwards, which would
\* panic.  So does printDiagnostic, unless the range ends on the file's last line or the box
\* has a line break that is no newline.
CallsReturn ==
  /\ (procedure = "ApplyRuleFixes") ~> (fixer = "returned")
  /\ (procedure = "printDiagnostic" /\ CodeBox!LineOf(d.end) # CodeBox!LastLine
        /\ ~ CodeBox!LoneBreakInBox)
       ~> (printer \in {"done", "tooBig"})

\* The test "line == len(lineMap)" (main.go:179 and 184) is there to let the last line, which
\* has no next one, be printed: no call of printDiagnostic panics.
NeverPanics == procedure = "printDiagnostic" => printer # "panic"
=============================================================================
