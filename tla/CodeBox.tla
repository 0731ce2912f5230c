------------------------------ MODULE CodeBox ------------------------------
(***************************************************************************)
(* printDiagnostic (cmd/tsgolint/main.go): the box of source lines printed *)
(* with a diagnostic.  The box holds the lines of the diagnostic's range   *)
(* and one line on each side.  A first pass over the characters of the box *)
(* finds where the text of each line starts and ends and the common        *)
(* indentation; a second pass prints the lines without that indentation,   *)
(* underlining the range.                                                  *)
(*                                                                         *)
(* A text is a sequence of bytes: "x" is a character that is no space, "s" *)
(* a space, "n" a newline, "r" a carriage return, "W", "w" are the bytes   *)
(* of a wide character that is no space, and "L", "l" those of a line      *)
(* separator (U+2028, U+2029), which is one.  The line map has a line      *)
(* after each of "n", "l" and an "r" that no "n" follows; the first pass   *)
(* counts the newlines only.  Positions and lines count from 0, as in the  *)
(* code.                                                                   *)
(***************************************************************************)
EXTENDS Integers, SequencesExt

CONSTANTS
  Texts,     \* the texts of source files
  BoxLines,  \* the largest number of lines printed (13 in the code)
  MaxInt     \* math.MaxInt: larger than any position

Bytes == {"x", "s", "n", "r", "W", "w", "L", "l"}
NonSpace == {"x", "W"}

TextsAssumption ==
  /\ BoxLines \in Nat \ {0} /\ MaxInt \in Nat
  /\ \A text \in Texts :
       /\ text \in Seq(Bytes) /\ Len(text) < MaxInt
       /\ \A k \in DOMAIN text : text[k] = "w" <=> k > 1 /\ text[k - 1] = "W"
       /\ \A k \in DOMAIN text : text[k] = "l" <=> k > 1 /\ text[k - 1] = "L"
       /\ Len(text) > 0 => text[Len(text)] \notin {"W", "L"}

VARIABLES
  d,                    \* the diagnostic: the file's text, pos and end
  lineMap,              \* the positions at which the lines of the text start
  codeboxStartLine, codeboxEndLine, codeboxStart, codeboxEnd,  \* the box
  pc,                   \* where the function is
  i,                    \* the first pass: the byte of the box it is at,
  line,                 \* the line (of either pass),
  lineIndentCalculated, \* whether the line's text has started,
  lastNonSpaceIndex, lineStarts, lineEnds, indentSize,
  diagnosticHighlightActive,
  printed               \* the lines printed: text and underlined text by position

scanVars == <<i, lineIndentCalculated, lastNonSpaceIndex, lineStarts, lineEnds, indentSize>>
boxVars == <<d, lineMap, codeboxStartLine, codeboxEndLine, codeboxStart, codeboxEnd>>
vars == <<boxVars, pc, line, scanVars, diagnosticHighlightActive, printed>>

ByteAt(text, p) == text[p + 1]

\* SourceFile.LineMap: the positions at which lines start, in order.
BreaksAfter(text, p) ==
  \/ text[p] \in {"n", "l"}
  \/ text[p] = "r" /\ ~ (p < Len(text) /\ text[p + 1] = "n")
Starts(text) == {0} \cup { p \in DOMAIN text : BreaksAfter(text, p) }
LineMap(text) ==
  [l \in 1 .. Cardinality(Starts(text)) |->
     CHOOSE p \in Starts(text) : Cardinality({ q \in Starts(text) : q < p }) = l - 1]

\* Of the file of the diagnostic:
LineStart(l) == lineMap[l + 1]
LastLine == Len(lineMap) - 1

\* scanner.GetLineAndCharacterOfPosition, the line
LineOf(p) == Max({ l \in 0 .. LastLine : LineStart(l) <= p })

\* A rule reports the range of a node or of a part of it: it starts with a
\* character of the text that is no space, and ends behind one.
DiagnosticsOf(text) ==
  { [text |-> text, pos |-> p, end |-> q] : p \in 0 .. Len(text), q \in 0 .. Len(text) }

Reportable(r) ==
  /\ r.pos < r.end
  /\ ByteAt(r.text, r.pos) \in NonSpace
  /\ ByteAt(r.text, r.end - 1) \in {"x", "w"}

Init ==
  /\ \E text \in Texts : d \in { r \in DiagnosticsOf(text) : Reportable(r) }
  /\ lineMap = LineMap(d.text)
  /\ codeboxStartLine = Max({LineOf(d.pos) - 1, 0})
  /\ codeboxEndLine = Min({LineOf(d.end) + 1, LastLine})
  /\ codeboxStart = LineStart(codeboxStartLine)
  /\ codeboxEnd = IF codeboxEndLine = LastLine THEN Len(d.text)
                  ELSE LineStart(codeboxEndLine + 1) - 1
  /\ pc = "start"
  /\ i = 0 /\ line = codeboxStartLine
  /\ lineIndentCalculated = FALSE /\ lastNonSpaceIndex = -1 /\ indentSize = MaxInt
  /\ lineStarts = [l \in 0 .. BoxLines - 1 |-> 0]
  /\ lineEnds = [l \in 0 .. BoxLines - 1 |-> 0]
  /\ diagnosticHighlightActive = FALSE
  /\ printed = << >>

Start ==
  /\ pc = "start"
  /\ pc' = IF codeboxEndLine - codeboxStartLine >= BoxLines THEN "tooBig" ELSE "scan"
  /\ UNCHANGED <<boxVars, line, scanVars, diagnosticHighlightActive, printed>>

-----------------------------------------------------------------------------
(* The first pass. *)

char == ByteAt(d.text, codeboxStart + i)
AtChar == pc = "scan" /\ i < codeboxEnd - codeboxStart

\* for i, char := range: i steps over all the bytes of a character.
NextChar == i' = IF char \in {"W", "L"} THEN i + 2 ELSE i + 1

\* !unicode.IsSpace(char): a line separator that the end of the box cuts is no character,
\* and so no space.
NotSpace == char \in NonSpace \/ (char = "L" /\ codeboxStart + i + 1 = codeboxEnd)

\* An index in the box, as a column of the current line.
Column(index) == index - LineStart(line) + codeboxStart

EndOfLine == [lineEnds EXCEPT ![line - codeboxStartLine] = Column(lastNonSpaceIndex)]

\* Mutant: lineIndentCalculated is not reset at the end of a line.
ScanNewlineNoReset ==
  /\ AtChar /\ char = "n"
  /\ IF line # codeboxEndLine
     THEN /\ lineEnds' = EndOfLine
          /\ lastNonSpaceIndex' = -1
          /\ line' = line + 1
     ELSE UNCHANGED <<lineEnds, lastNonSpaceIndex, line>>
  /\ NextChar
  /\ UNCHANGED <<boxVars, pc, lineStarts, indentSize, lineIndentCalculated,
                 diagnosticHighlightActive, printed>>

ScanNewline ==
  /\ AtChar /\ char = "n"
  /\ IF line # codeboxEndLine
     THEN /\ lineIndentCalculated' = FALSE
          /\ lineEnds' = EndOfLine
          /\ lastNonSpaceIndex' = -1
          /\ line' = line + 1
     ELSE UNCHANGED <<lineIndentCalculated, lineEnds, lastNonSpaceIndex, line>>
  /\ NextChar
  /\ UNCHANGED <<boxVars, pc, lineStarts, indentSize, diagnosticHighlightActive, printed>>

ScanChar ==
  /\ AtChar /\ char # "n"
  /\ IF NotSpace
     THEN /\ lineIndentCalculated' = TRUE
          /\ lastNonSpaceIndex' = i + 1
          /\ IF lineIndentCalculated
             THEN UNCHANGED <<lineStarts, indentSize>>
             ELSE /\ lineStarts' = [lineStarts EXCEPT ![line - codeboxStartLine] = Column(i)]
                  /\ indentSize' = Min({indentSize, Column(i)})
     ELSE UNCHANGED <<lineIndentCalculated, lastNonSpaceIndex, lineStarts, indentSize>>
  /\ NextChar
  /\ UNCHANGED <<boxVars, pc, line, lineEnds, diagnosticHighlightActive, printed>>

EndScan ==
  /\ pc = "scan" /\ i >= codeboxEnd - codeboxStart
  /\ lineEnds' = IF line = codeboxEndLine THEN EndOfLine ELSE lineEnds
  /\ pc' = "print"
  /\ line' = codeboxStartLine
  /\ UNCHANGED <<boxVars, i, lineIndentCalculated, lastNonSpaceIndex, lineStarts, indentSize,
                 diagnosticHighlightActive, printed>>

-----------------------------------------------------------------------------
(* The second pass. *)

lineTextStart == LineStart(line) + indentSize
lineTextEnd ==
  Max({LineStart(line) + lineEnds[line - codeboxStartLine], lineTextStart})
textStart ==
  Max({lineTextStart, LineStart(line) + lineStarts[line - codeboxStartLine]})

\* lineMap[line] <= p && (line == len(lineMap) || p < lineMap[line+1]): the line
\* after the current one is read, though the guard lets the last line through.
ReadsPastLineMap(p) == LineStart(line) <= p /\ line = LastLine
OnLine(p) == LineStart(line) <= p /\ p < LineStart(line + 1)

IndexOutOfRange ==
  \/ ~ diagnosticHighlightActive /\ ReadsPastLineMap(d.pos)
  \/ ReadsPastLineMap(d.end)

\* Where the line is underlined.
begins == ~ diagnosticHighlightActive /\ OnLine(d.pos)
underlineStart ==
  IF begins THEN Min({Max({lineTextStart, d.pos}), lineTextEnd}) ELSE textStart
underlineEnd ==
  IF OnLine(d.end) THEN Min({Max({underlineStart, d.end}), lineTextEnd})
  ELSE IF diagnosticHighlightActive \/ begins THEN lineTextEnd
  ELSE underlineStart

\* text[underlineStart:underlineEnd]
BackwardSlice == ~ IndexOutOfRange /\ underlineEnd < underlineStart

Panic ==
  /\ pc = "print" /\ line <= codeboxEndLine
  /\ IndexOutOfRange \/ BackwardSlice
  /\ pc' = "panic"
  /\ UNCHANGED <<boxVars, line, scanVars, diagnosticHighlightActive, printed>>

PrintLine ==
  /\ pc = "print" /\ line <= codeboxEndLine
  /\ ~ IndexOutOfRange /\ ~ BackwardSlice
  /\ printed' = Append(printed, [from |-> lineTextStart, to |-> lineTextEnd,
                                 underFrom |-> underlineStart, underTo |-> underlineEnd])
  /\ diagnosticHighlightActive' = ((diagnosticHighlightActive \/ begins) /\ ~ OnLine(d.end))
  /\ line' = line + 1
  /\ UNCHANGED <<boxVars, pc, scanVars>>

EndBox ==
  /\ pc = "print" /\ line > codeboxEndLine
  /\ pc' = "done"
  /\ UNCHANGED <<boxVars, line, scanVars, diagnosticHighlightActive, printed>>

Next == Start \/ ScanNewline \/ ScanChar \/ EndScan \/ Panic \/ PrintLine \/ EndBox

-----------------------------------------------------------------------------
(* Properties. *)

\* The positions in a line, without its newline, and those of its characters
\* that are no space.
Positions(l) ==
  LineStart(l) .. (IF l = LastLine THEN Len(d.text)
                           ELSE LineStart(l + 1) - 1) - 1
TextIn(l) == { p \in Positions(l) : ByteAt(d.text, p) \in NonSpace }

BoxLinesOf == codeboxStartLine .. codeboxEndLine
PrintedOf(l) == printed[l - codeboxStartLine + 1]

\* The first pass counts line k: it ends in a newline or ends the text, or it is the last
\* line of the box, and the carriage return that ends it is cut.
IsCounted(k) ==
  \/ k = LastLine
  \/ ByteAt(d.text, LineStart(k + 1) - 1) = "n"
  \/ k = codeboxEndLine /\ ByteAt(d.text, LineStart(k + 1) - 1) = "r"

\* It has counted all lines when it is behind line l.
CountedTo(l) == \A k \in codeboxStartLine .. l : IsCounted(k)
LoneBreakInBox == ~ CountedTo(codeboxEndLine)

\* Each line of the box is printed once, in order.  Those before the first break that is not
\* counted are printed from a place in them that leaves out only spaces, which is the box's
\* common indentation (blank lines do not count for it) when there is no such break, to
\* their last character that is no space.  (Of a last character that takes two bytes only
\* the first is printed: lastNonSpaceIndex is that of the first byte plus one.)
BoxShowsLines ==
  pc = "done" =>
    LET indents == { Min(TextIn(l)) - LineStart(l) :
                       l \in { k \in BoxLinesOf : TextIn(k) # {} } }
    IN  /\ Len(printed) = Cardinality(BoxLinesOf)
        /\ \A l \in BoxLinesOf : CountedTo(l) =>
             IF TextIn(l) = {} THEN PrintedOf(l).from = PrintedOf(l).to
             ELSE /\ PrintedOf(l).from \in LineStart(l) .. Min(TextIn(l))
                  /\ PrintedOf(l).to = Max(TextIn(l)) + 1
                  /\ ~ LoneBreakInBox => PrintedOf(l).from = LineStart(l) + Min(indents)

\* The underlined text is what the range covers: on the lines before the first break that
\* is not counted, every character that is no space is underlined just when it is in the
\* range, and on all lines the three slices are cut in order.
RangeIsUnderlined ==
  pc = "done" =>
    \A l \in BoxLinesOf : LET p == PrintedOf(l) IN
      /\ p.underFrom # p.underTo =>
           p.from <= p.underFrom /\ p.underFrom <= p.underTo /\ p.underTo <= p.to
      /\ CountedTo(l) => \A q \in TextIn(l) :
           q \in p.underFrom .. p.underTo - 1 <=> q \in d.pos .. d.end - 1
=============================================================================
