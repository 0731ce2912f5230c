---------------------------- MODULE LintPipeline ----------------------------
(***************************************************************************)
(* The lint pipeline of the tsgolint command: RunLinter                    *)
(* (internal/linter/linter.go) as runMain (cmd/tsgolint/main.go) uses it.  *)
(*                                                                         *)
(* The main goroutine starts the reporter goroutine, fills and closes the  *)
(* queue of source files, starts one worker per type checker, waits for    *)
(* the workers, closes the channel of diagnostics, waits for the reporter  *)
(* and prints the summary line.  A worker takes a file, runs every rule on *)
(* it to collect the rule's listeners, walks the file's nodes calling the  *)
(* listeners of each node's kind, and clears its listener table.  What a   *)
(* rule reports goes through the bounded channel to the reporter, which    *)
(* counts it and prints it through a buffered writer.                      *)
(*                                                                         *)
(* A file's syntax tree is abstracted to the sequence of kinds its walk    *)
(* announces (module AstWalk has the walk), and a rule to the kinds it     *)
(* listens to and the places where it has something to report.  Place 0 of *)
(* a file is the call of the rule's Run function, which may report too     *)
(* (no_unnecessary_boolean_literal_compare.go:88-90).                      *)
(***************************************************************************)
EXTENDS Integers, Sequences, FiniteSets, Functions

CONSTANTS
  Files,           \* the source files to lint
  TextLen,         \* the length of each file's text
  Kinds,           \* the listener kinds
  Nodes,           \* for each file, the kinds announced by its walk, in order
  RuleList,        \* the configured rules, in order
  Listens,         \* for each rule, the kinds it has a listener for
  Finds,           \* the triples <<file, place, rule>> where the rule reports
  Checkers,        \* the type checkers: one worker each
  SingleThreaded,  \* the -singleThreaded flag
  ChanCap,         \* capacity of diagnosticsChan (4096 in the code)
  NoFile,          \* what a worker without a file holds
  NoSummary        \* the summary line has not been printed

Rules == Range(RuleList)

ASSUME FilesAssumption == IsFiniteSet(Files) /\ NoFile \notin Files
ASSUME TextLenAssumption == TextLen \in [Files -> Nat]
ASSUME NodesAssumption == Nodes \in [Files -> Seq(Kinds)]
ASSUME RuleListAssumption == RuleList \in Seq(Rules) /\ IsInjective(RuleList)
ASSUME ListensAssumption == Listens \in [Rules -> SUBSET Kinds]
ASSUME FindsAssumption == Finds \subseteq Files \X Nat \X Rules
ASSUME CheckersAssumption ==
  /\ IsFiniteSet(Checkers) /\ Checkers # {}
  /\ SingleThreaded \in BOOLEAN
  /\ SingleThreaded => Cardinality(Checkers) = 1
ASSUME ChanCapAssumption == ChanCap \in Nat \ {0}
ASSUME NoSummaryAssumption == NoSummary \notin Nat

VARIABLES
  files,           \* runMain's list of files, longest first
  mainPc,          \* where the main goroutine is
  filled,          \* how many of the files RunLinter has put in the queue
  queue,           \* the channel of files
  wpc,             \* where each worker is
  file,            \* the file each worker is linting
  rule,            \* index in RuleList of the rule each worker runs next
  node,            \* index in Nodes[file] of the node each worker is at
  listener,        \* index of the listener each worker calls next there
  registered,      \* registeredListeners: each worker's table, per kind
  diagnosticsChan, \* the channel of diagnostics
  rpc,             \* where the reporter goroutine is
  errorsCount,     \* the reporter's counter, read by main for the summary
  buffer,          \* diagnostics in the bufio.Writer
  stdout,          \* diagnostics written to standard output
  summary          \* the number of errors in the summary line

mainVars     == <<files, mainPc, filled, summary>>
workerVars   == <<wpc, file, rule, node, listener, registered>>
reporterVars == <<rpc, errorsCount, buffer, stdout>>
vars == <<mainVars, queue, workerVars, diagnosticsChan, reporterVars>>

\* A listener is a closure over the rule and the file it was made for.
Listener   == [rule : Rules, file : Files]

\* A diagnostic: RuleName, SourceFile and the place its range comes from.
Diagnostic == [rule : Rules, file : Files, at : Files \X Nat]

NoListeners == [k \in Kinds |-> << >>]

\* Mutant: RunLinter forgets close(queue).
QueueNeverClosed == FALSE

\* close(queue) is behind the main goroutine.
QueueClosed == mainPc \notin {"start", "fill"}

\* close(diagnosticsChan) is behind the main goroutine.
ChanClosed  == mainPc \in {"waitReporter", "exit"}

\* Mutant: the comparison function says that any two files are equal.
UnsortedFiles ==
  { s \in [1 .. Cardinality(Files) -> Files] : IsInjective(s) /\ Range(s) = Files }

(***************************************************************************)
(* The orders slices.SortFunc may leave the files in: longest text first,  *)
(* files of equal length in any order (the sort is not stable).            *)
(***************************************************************************)
SortedFiles ==
  { s \in [1 .. Cardinality(Files) -> Files] :
      /\ IsInjective(s)
      /\ Range(s) = Files
      /\ \A i, j \in DOMAIN s : i < j => TextLen[s[i]] >= TextLen[s[j]] }

Init ==
  /\ files \in SortedFiles
  /\ mainPc = "start" /\ filled = 0 /\ summary = NoSummary
  /\ queue = << >>
  /\ wpc = [c \in Checkers |-> "none"]
  /\ file = [c \in Checkers |-> NoFile]
  /\ rule = [c \in Checkers |-> 1]
  /\ node = [c \in Checkers |-> 1]
  /\ listener = [c \in Checkers |-> 1]
  /\ registered = [c \in Checkers |-> NoListeners]
  /\ diagnosticsChan = << >>
  /\ rpc = "none" /\ errorsCount = 0 /\ buffer = << >> /\ stdout = << >>

-----------------------------------------------------------------------------
(* The main goroutine. *)

StartReporter ==
  /\ mainPc = "start"
  /\ mainPc' = "fill"
  /\ rpc' = "range"
  /\ UNCHANGED <<files, filled, summary, queue, workerVars, diagnosticsChan,
                 errorsCount, buffer, stdout>>

\* queue <- file: the queue is as large as the list, so this never blocks.
FillQueue ==
  /\ mainPc = "fill"
  /\ filled < Len(files)
  /\ Len(queue) < Len(files)
  /\ queue' = Append(queue, files[filled + 1])
  /\ filled' = filled + 1
  /\ UNCHANGED <<files, mainPc, summary, workerVars, diagnosticsChan, reporterVars>>

CloseQueue ==
  /\ mainPc = "fill"
  /\ filled = Len(files)
  /\ mainPc' = "spawn"
  /\ UNCHANGED <<files, filled, summary, queue, workerVars, diagnosticsChan,
                 reporterVars>>

\* wg.Queue: the work group starts a goroutine at once, or, single threaded,
\* keeps the function until RunAndWait (see MayRun).
SpawnWorker(c) ==
  /\ mainPc = "spawn"
  /\ wpc[c] = "none"
  /\ wpc' = [wpc EXCEPT ![c] = "recv"]
  /\ UNCHANGED <<mainVars, queue, file, rule, node, listener, registered,
                 diagnosticsChan, reporterVars>>

\* Mutant: the work group returns with its first worker.
FirstWorkerReturned == \E c \in Checkers : wpc[c] = "exited"

\* wg.RunAndWait returns once every worker has.
WorkersReturned == \A c \in Checkers : wpc[c] = "exited"

\* RunLinter returns and main closes the channel.
CloseChan ==
  /\ mainPc = "spawn"
  /\ WorkersReturned
  /\ mainPc' = "waitReporter"
  /\ UNCHANGED <<files, filled, summary, queue, workerVars, diagnosticsChan,
                 reporterVars>>

\* Mutant: main prints the summary without waiting for the reporter.
PrintSummaryAtOnce ==
  /\ mainPc = "waitReporter"
  /\ summary' = errorsCount
  /\ mainPc' = "exit"
  /\ UNCHANGED <<files, filled, queue, workerVars, diagnosticsChan, reporterVars>>

\* wg.Wait returns once the reporter has called wg.Done; then main prints the
\* summary, reading the reporter's counter, and returns.
PrintSummary ==
  /\ mainPc = "waitReporter"
  /\ rpc = "exited"
  /\ summary' = errorsCount
  /\ mainPc' = "exit"
  /\ UNCHANGED <<files, filled, queue, workerVars, diagnosticsChan, reporterVars>>

-----------------------------------------------------------------------------
(* A worker. *)

\* Single threaded, the functions queued in the work group run in RunAndWait,
\* that is, after all of them have been queued.
MayRun(c) ==
  /\ wpc[c] = "recv"
  /\ SingleThreaded => \A d \in Checkers : wpc[d] # "none"

\* Mutant: the queue is a plain list, whose head is read and removed unlocked.
ReceiveUnlocked(c) ==
  /\ queue # << >>
  /\ file' = [file EXCEPT ![c] = Head(queue)]
  /\ queue' \in {queue, Tail(queue)}

\* Receiving from the queue hands its head to one worker and removes it.
Receive(c) ==
  /\ queue # << >>
  /\ file' = [file EXCEPT ![c] = Head(queue)]
  /\ queue' = Tail(queue)

\* for file := range queue: receive a file ...
TakeFile(c) ==
  /\ MayRun(c)
  /\ Receive(c)
  /\ wpc' = [wpc EXCEPT ![c] = "lint"]
  /\ rule' = [rule EXCEPT ![c] = 1]
  /\ node' = [node EXCEPT ![c] = 1]
  /\ listener' = [listener EXCEPT ![c] = 1]
  /\ UNCHANGED <<mainVars, registered, diagnosticsChan, reporterVars>>

\* ... or end, once the queue is closed and empty.
WorkerExit(c) ==
  /\ MayRun(c)
  /\ queue = << >> /\ QueueClosed
  /\ wpc' = [wpc EXCEPT ![c] = "exited"]
  /\ UNCHANGED <<mainVars, queue, file, rule, node, listener, registered,
                 diagnosticsChan, reporterVars>>

\* Mutant: the channel takes one diagnostic more than its capacity.
SendOneMore(d) ==
  /\ Len(diagnosticsChan) <= ChanCap
  /\ diagnosticsChan' = Append(diagnosticsChan, d)

\* onDiagnostic: diagnosticsChan <- d blocks while the channel is full.
Send(d) ==
  /\ Len(diagnosticsChan) < ChanCap
  /\ diagnosticsChan' = Append(diagnosticsChan, d)

\* What a call made for rule r and file f does at place p of file g.
Report(r, f, g, p) ==
  IF <<g, p, r>> \in Finds
  THEN Send([rule |-> r, file |-> f, at |-> <<g, p>>])
  ELSE UNCHANGED diagnosticsChan

\* Mutant: a listener is put before those of the earlier rules.
RegisterFirst(table, r, f) ==
  [k \in Kinds |-> IF k \in Listens[r]
                   THEN <<[rule |-> r, file |-> f]>> \o table[k]
                   ELSE table[k]]

\* registeredListeners[kind] = append(listeners, listener) for every listener
\* that rule r returns for file f.
Register(table, r, f) ==
  [k \in Kinds |-> IF k \in Listens[r]
                   THEN Append(table[k], [rule |-> r, file |-> f])
                   ELSE table[k]]

RunRule(c) ==
  /\ wpc[c] = "lint" /\ rule[c] <= Len(RuleList)
  /\ LET r == RuleList[rule[c]] IN
       /\ Report(r, file[c], file[c], 0)
       /\ registered' = [registered EXCEPT ![c] = Register(@, r, file[c])]
  /\ rule' = [rule EXCEPT ![c] = @ + 1]
  /\ UNCHANGED <<mainVars, queue, wpc, file, node, listener, reporterVars>>

\* All rules have run: the worker is in the walk of the tree.
Walking(c) == wpc[c] = "lint" /\ rule[c] > Len(RuleList)

\* The listeners worker c has for the kind of the node it is at.
Here(c) == registered[c][Nodes[file[c]][node[c]]]

\* runListeners: one listener of the node's kind.
CallListener(c) ==
  /\ Walking(c)
  /\ node[c] <= Len(Nodes[file[c]])
  /\ listener[c] <= Len(Here(c))
  /\ LET l == Here(c)[listener[c]] IN Report(l.rule, l.file, file[c], node[c])
  /\ listener' = [listener EXCEPT ![c] = @ + 1]
  /\ UNCHANGED <<mainVars, queue, wpc, file, rule, node, registered, reporterVars>>

NextNode(c) ==
  /\ Walking(c)
  /\ node[c] <= Len(Nodes[file[c]])
  /\ listener[c] > Len(Here(c))
  /\ node' = [node EXCEPT ![c] = @ + 1]
  /\ listener' = [listener EXCEPT ![c] = 1]
  /\ UNCHANGED <<mainVars, queue, wpc, file, rule, registered, diagnosticsChan,
                 reporterVars>>

\* Mutant: the table is not cleared between two files.
NotCleared(table) == table

\* clear(registeredListeners) ends the turn of the loop.
Cleared(table) == NoListeners

FinishFile(c) ==
  /\ Walking(c)
  /\ node[c] > Len(Nodes[file[c]])
  /\ registered' = [registered EXCEPT ![c] = Cleared(@)]
  /\ file' = [file EXCEPT ![c] = NoFile]
  /\ wpc' = [wpc EXCEPT ![c] = "recv"]
  /\ UNCHANGED <<mainVars, queue, rule, node, listener, diagnosticsChan,
                 reporterVars>>

WorkerStep(c) ==
  \/ TakeFile(c)
  \/ WorkerExit(c)
  \/ RunRule(c)
  \/ CallListener(c)
  \/ NextNode(c)
  \/ FinishFile(c)

-----------------------------------------------------------------------------
(* The reporter goroutine. *)

\* One turn of its loop.  Whether the writer is flushed depends on the length
\* of the text printed so far, which the model leaves open.
PrintDiagnostic ==
  /\ rpc = "range"
  /\ diagnosticsChan # << >>
  /\ diagnosticsChan' = Tail(diagnosticsChan)
  /\ errorsCount' = errorsCount + 1
  /\ LET printed == Append(buffer, Head(diagnosticsChan)) IN
       \/ buffer' = printed /\ UNCHANGED stdout
       \/ buffer' = << >> /\ stdout' = stdout \o printed
  /\ UNCHANGED <<mainVars, queue, workerVars, rpc>>

\* The channel is closed and drained.  Deferred calls run last in, first out:
\* w.Flush ...
FlushWriter ==
  /\ rpc = "range"
  /\ diagnosticsChan = << >> /\ ChanClosed
  /\ stdout' = stdout \o buffer
  /\ buffer' = << >>
  /\ rpc' = "flushed"
  /\ UNCHANGED <<mainVars, queue, workerVars, diagnosticsChan, errorsCount>>

\* Mutant: wg.Done runs before w.Flush.
ReporterDoneFirst ==
  /\ rpc = "range"
  /\ diagnosticsChan = << >> /\ ChanClosed
  /\ rpc' = "exited"
  /\ UNCHANGED <<mainVars, queue, workerVars, diagnosticsChan, errorsCount,
                 buffer, stdout>>

\* ... and then wg.Done.
ReporterDone ==
  /\ rpc = "flushed"
  /\ rpc' = "exited"
  /\ UNCHANGED <<mainVars, queue, workerVars, diagnosticsChan, errorsCount,
                 buffer, stdout>>

ReporterStep == PrintDiagnostic \/ FlushWriter \/ ReporterDone

-----------------------------------------------------------------------------

MainStep ==
  \/ StartReporter
  \/ FillQueue
  \/ CloseQueue
  \/ \E c \in Checkers : SpawnWorker(c)
  \/ CloseChan
  \/ PrintSummary

Next ==
  \/ MainStep
  \/ \E c \in Checkers : WorkerStep(c)
  \/ ReporterStep

\* The Go scheduler runs every goroutine that can run.
Fairness ==
  /\ WF_vars(MainStep)
  /\ \A c \in Checkers : WF_vars(WorkerStep(c))
  /\ WF_vars(ReporterStep)

Spec == Init /\ [][Next]_vars /\ Fairness
-----------------------------------------------------------------------------
(* Properties. *)

\* The shape of the state; the channel never holds more than its capacity.
TypeOK ==
  /\ files \in Seq(Files)
  /\ mainPc \in {"start", "fill", "spawn", "waitReporter", "exit"}
  /\ filled \in 0 .. Len(files)
  /\ summary \in Nat \cup {NoSummary}
  /\ queue \in Seq(Files)
  /\ wpc \in [Checkers -> {"none", "recv", "lint", "exited"}]
  /\ file \in [Checkers -> Files \cup {NoFile}]
  /\ \A c \in Checkers : wpc[c] = "lint" <=> file[c] \in Files
  /\ rule \in [Checkers -> Nat \ {0}]
  /\ node \in [Checkers -> Nat \ {0}]
  /\ listener \in [Checkers -> Nat \ {0}]
  /\ registered \in [Checkers -> [Kinds -> Seq(Listener)]]
  /\ diagnosticsChan \in Seq(Diagnostic) /\ Len(diagnosticsChan) <= ChanCap
  /\ rpc \in {"none", "range", "flushed", "exited"}
  /\ errorsCount \in Nat
  /\ buffer \in Seq(Diagnostic) /\ stdout \in Seq(Diagnostic)

\* RunLinter's workers share one queue: while a worker lints a file, no other
\* worker has it and it is not waiting in the queue, nor still to be queued.
OneWorkerPerFile ==
  \A c \in Checkers : file[c] # NoFile =>
    /\ \A d \in Checkers \ {c} : file[d] # file[c]
    /\ file[c] \notin Range(queue)
    /\ \E i \in 1 .. filled : files[i] = file[c]

\* A send on a closed channel panics: when main closes diagnosticsChan no
\* worker can send any more, and no file is left in the queue.
NoSendAfterClose ==
  ChanClosed => queue = << >> /\ \A c \in Checkers : wpc[c] = "exited"

\* All that has been reported and not lost, oldest first.
Reported == stdout \o buffer \o diagnosticsChan

\* A worker reuses one listener table for all its files: a diagnostic still
\* names the file whose node it is about, never one linted before.
DiagnosticNamesItsFile == \A i \in DOMAIN Reported : Reported[i].file = Reported[i].at[1]

\* Whatever the interleaving, the diagnostics of one file come out in the order
\* of its walk and, at one place, in the order of the configured rules.
FileOrderKept ==
  LET Rank(r) == CHOOSE i \in DOMAIN RuleList : RuleList[i] = r
      Before(d, e) == \/ d.at[2] < e.at[2]
                      \/ d.at[2] = e.at[2] /\ Rank(d.rule) < Rank(e.rule)
  IN  \A i, j \in DOMAIN Reported :
        i < j /\ Reported[i].file = Reported[j].file => Before(Reported[i], Reported[j])

\* The diagnostics a rule makes at a place it gets to see.
Expected ==
  { [rule |-> x[3], file |-> x[1], at |-> <<x[1], x[2]>>] :
      x \in { y \in Finds : \/ y[2] = 0
                            \/ /\ y[2] \in DOMAIN Nodes[y[1]]
                               /\ Nodes[y[1]][y[2]] \in Listens[y[3]] } }

\* The summary line comes last and tells the truth: when it is printed, every
\* diagnostic has been written out exactly once, and it counts them all.
SummaryIsLastAndExact ==
  summary # NoSummary =>
    /\ IsInjective(stdout) /\ Range(stdout) = Expected
    /\ summary = Len(stdout)

\* Single threaded, the output is file by file, the longest file first.
SingleThreadedOrder ==
  SingleThreaded =>
    \A i, j \in DOMAIN Reported : i < j =>
      /\ TextLen[Reported[i].file] >= TextLen[Reported[j].file]
      /\ Reported[i].file = Reported[j].file =>
           \A k \in i .. j : Reported[k].file = Reported[i].file

\* The command ends: a full channel, an empty queue or a waiting main
\* goroutine never block each other for good.
Terminates == <>(mainPc = "exit")

\* The pipeline keeps the promise of module LintPromise about standard output.
Promise == INSTANCE LintPromise WITH shown <- Range(stdout), verdict <- summary

\* Each write to standard output is a step of the promise or none, and the
\* verdict comes, once all expected diagnostics are out.
KeepsPromise == Promise!Spec
=============================================================================
