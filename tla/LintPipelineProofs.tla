------------------------- MODULE LintPipelineProofs -------------------------
(***************************************************************************)
(* Proofs about LintPipeline, for any set of files, rules and workers and  *)
(* any capacity of the channel of diagnostics: first about its channels    *)
(* and workers, then about what it writes, that no diagnostic is lost,     *)
(* duplicated or out of the order of its file, that the summary line is    *)
(* exact, and that the pipeline keeps the promise of module LintPromise.   *)
(***************************************************************************)
EXTENDS LintPipeline, FiniteSetTheorems, SequenceTheorems, TLAPS

-----------------------------------------------------------------------------
(* Type correctness. *)

\* What the assumptions on the constants say in the form the proofs use.
LEMMA ConstantFacts ==
  /\ NoFile \notin Files
  /\ \A f \in Files : Nodes[f] \in Seq(Kinds)
  /\ \A i \in 1 .. Len(RuleList) : RuleList[i] \in Rules
  /\ ChanCap \in Nat
BY FilesAssumption, NodesAssumption, RuleListAssumption, ChanCapAssumption

\* The list of files holds every file once.
LEMMA SortedFilesType ==
  ASSUME NEW s \in SortedFiles
  PROVE  s \in Seq(Files) /\ IsInjective(s)
<1>1. Cardinality(Files) \in Nat
  BY FilesAssumption, FS_CardinalityType
<1>2. QED
  BY <1>1 DEF SortedFiles

\* A send that goes through leaves a channel of diagnostics within its bound.
LEMMA SendType ==
  ASSUME diagnosticsChan \in Seq(Diagnostic), NEW d \in Diagnostic, Send(d)
  PROVE  diagnosticsChan' \in Seq(Diagnostic) /\ Len(diagnosticsChan') <= ChanCap
BY ConstantFacts DEF Send

LEMMA ReportType ==
  ASSUME diagnosticsChan \in Seq(Diagnostic), Len(diagnosticsChan) <= ChanCap,
         NEW r \in Rules, NEW f \in Files, NEW g \in Files, NEW p \in Nat,
         Report(r, f, g, p)
  PROVE  diagnosticsChan' \in Seq(Diagnostic) /\ Len(diagnosticsChan') <= ChanCap
<1>1. [rule |-> r, file |-> f, at |-> <<g, p>>] \in Diagnostic
  BY DEF Diagnostic
<1>2. QED
  BY <1>1, SendType DEF Report

\* Registering a rule's listeners keeps the table a table of listeners.
LEMMA RegisterType ==
  ASSUME NEW table \in [Kinds -> Seq(Listener)], NEW r \in Rules, NEW f \in Files
  PROVE  Register(table, r, f) \in [Kinds -> Seq(Listener)]
<1>1. [rule |-> r, file |-> f] \in Listener
  BY DEF Listener
<1>2. QED
  BY <1>1 DEF Register

\* The listeners a worker is about to call are a sequence of listeners.
LEMMA HereType ==
  ASSUME TypeOK, NEW c \in Checkers, Walking(c), node[c] <= Len(Nodes[file[c]])
  PROVE  Here(c) \in Seq(Listener)
<1>1. file[c] \in Files
  BY DEF TypeOK, Walking
<1>2. Nodes[file[c]] \in Seq(Kinds) /\ node[c] \in 1 .. Len(Nodes[file[c]])
  BY <1>1, ConstantFacts DEF TypeOK
<1>3. Nodes[file[c]][node[c]] \in Kinds
  BY <1>2
<1>4. QED
  BY <1>3 DEF TypeOK, Here

LEMMA InitType == Init => TypeOK
<1> SUFFICES ASSUME Init PROVE TypeOK
  OBVIOUS
<1>1. files \in Seq(Files)
  BY SortedFilesType DEF Init
<1>2. file \in [Checkers -> Files \cup {NoFile}] /\ \A c \in Checkers : file[c] \notin Files
  BY ConstantFacts DEF Init
<1>3. registered \in [Checkers -> [Kinds -> Seq(Listener)]]
  BY DEF Init, NoListeners
<1>4. Len(files) \in Nat
  BY <1>1
<1>5. QED
  BY <1>1, <1>2, <1>3, <1>4, ConstantFacts DEF Init, TypeOK

LEMMA NextType == TypeOK /\ [Next]_vars => TypeOK'
<1> SUFFICES ASSUME TypeOK, [Next]_vars PROVE TypeOK'
  OBVIOUS
<1> USE DEF vars, mainVars, workerVars, reporterVars
<1>1. CASE StartReporter
  BY <1>1 DEF TypeOK, StartReporter
<1>2. CASE FillQueue
  <2>1. Len(files) \in Nat /\ filled \in 0 .. Len(files)
    BY DEF TypeOK
  <2>2. files[filled + 1] \in Files
    BY <1>2, <2>1 DEF TypeOK, FillQueue
  <2>3. queue' \in Seq(Files) /\ filled' \in 0 .. Len(files)
    BY <1>2, <2>1, <2>2 DEF TypeOK, FillQueue
  <2>4. QED
    BY <1>2, <2>3 DEF TypeOK, FillQueue
<1>3. CASE CloseQueue
  BY <1>3 DEF TypeOK, CloseQueue
<1>4. ASSUME NEW c \in Checkers, SpawnWorker(c) PROVE TypeOK'
  BY <1>4 DEF TypeOK, SpawnWorker
<1>5. CASE CloseChan
  BY <1>5 DEF TypeOK, CloseChan
<1>6. CASE PrintSummary
  BY <1>6 DEF TypeOK, PrintSummary
<1>7. ASSUME NEW c \in Checkers, TakeFile(c) PROVE TypeOK'
  <2>1. Head(queue) \in Files /\ Tail(queue) \in Seq(Files)
    BY <1>7 DEF TypeOK, TakeFile, Receive
  <2>2. /\ file' = [file EXCEPT ![c] = Head(queue)]
        /\ wpc' = [wpc EXCEPT ![c] = "lint"]
        /\ queue' = Tail(queue)
    BY <1>7 DEF TakeFile, Receive
  <2>3. /\ file' \in [Checkers -> Files \cup {NoFile}]
        /\ wpc' \in [Checkers -> {"none", "recv", "lint", "exited"}]
        /\ \A d \in Checkers : wpc'[d] = "lint" <=> file'[d] \in Files
    BY <2>1, <2>2 DEF TypeOK
  <2>4. QED
    BY <1>7, <2>1, <2>2, <2>3 DEF TypeOK, TakeFile
<1>8. ASSUME NEW c \in Checkers, WorkerExit(c) PROVE TypeOK'
  BY <1>8 DEF TypeOK, WorkerExit, MayRun
<1>9. ASSUME NEW c \in Checkers, RunRule(c) PROVE TypeOK'
  <2> DEFINE r == RuleList[rule[c]]
  <2>1. file[c] \in Files /\ r \in Rules
    <3>1. rule[c] \in 1 .. Len(RuleList)
      BY <1>9, RuleListAssumption DEF TypeOK, RunRule
    <3>2. r \in Rules
      BY <3>1, ConstantFacts
    <3>3. QED
      BY <1>9, <3>2 DEF TypeOK, RunRule
  <2>2. Report(r, file[c], file[c], 0)
    BY <1>9 DEF RunRule
  <2>3. diagnosticsChan' \in Seq(Diagnostic) /\ Len(diagnosticsChan') <= ChanCap
    BY <2>1, <2>2, ReportType DEF TypeOK
  <2>4. registered' = [registered EXCEPT ![c] = Register(registered[c], r, file[c])]
    BY <1>9 DEF RunRule
  <2>5. registered' \in [Checkers -> [Kinds -> Seq(Listener)]]
    BY <2>1, <2>4, RegisterType DEF TypeOK
  <2>6. rule' \in [Checkers -> Nat \ {0}]
    BY <1>9 DEF TypeOK, RunRule
  <2>7. QED
    BY <1>9, <2>3, <2>5, <2>6 DEF TypeOK, RunRule
<1>10. ASSUME NEW c \in Checkers, CallListener(c) PROVE TypeOK'
  <2> DEFINE l == Here(c)[listener[c]]
  <2>1. Here(c) \in Seq(Listener)
    BY <1>10, HereType DEF CallListener
  <2>2. listener[c] \in 1 .. Len(Here(c))
    BY <1>10, <2>1 DEF TypeOK, CallListener
  <2>3. l.rule \in Rules /\ l.file \in Files
    <3>1. l \in Listener
      BY <2>1, <2>2
    <3>2. \A x \in Listener : x.rule \in Rules /\ x.file \in Files
      BY DEF Listener
    <3>3. QED
      BY <3>1, <3>2
  <2>4. file[c] \in Files /\ node[c] \in Nat
    BY <1>10 DEF TypeOK, CallListener, Walking
  <2>5. Report(l.rule, l.file, file[c], node[c])
    BY <1>10 DEF CallListener
  <2>6. diagnosticsChan' \in Seq(Diagnostic) /\ Len(diagnosticsChan') <= ChanCap
    BY <2>3, <2>4, <2>5, ReportType DEF TypeOK
  <2>7. listener' \in [Checkers -> Nat \ {0}]
    <3>1. listener' = [listener EXCEPT ![c] = @ + 1] /\ listener \in [Checkers -> Nat \ {0}]
      BY <1>10 DEF TypeOK, CallListener
    <3>2. QED
      BY <3>1
  <2>8. UNCHANGED <<mainVars, queue, wpc, file, rule, node, registered, reporterVars>>
    BY <1>10 DEF CallListener
  <2>9. QED
    BY <2>6, <2>7, <2>8 DEF TypeOK, mainVars, reporterVars
<1>11. ASSUME NEW c \in Checkers, NextNode(c) PROVE TypeOK'
  <2>1. /\ node' = [node EXCEPT ![c] = @ + 1] /\ listener' = [listener EXCEPT ![c] = 1]
        /\ UNCHANGED <<mainVars, queue, wpc, file, rule, registered, diagnosticsChan, reporterVars>>
    BY <1>11 DEF NextNode
  <2>2. node' \in [Checkers -> Nat \ {0}] /\ listener' \in [Checkers -> Nat \ {0}]
    BY <2>1 DEF TypeOK
  <2>3. QED
    BY <2>1, <2>2 DEF TypeOK, mainVars, reporterVars
<1>12. ASSUME NEW c \in Checkers, FinishFile(c) PROVE TypeOK'
  <2>1. registered' \in [Checkers -> [Kinds -> Seq(Listener)]]
    BY <1>12 DEF TypeOK, FinishFile, Cleared, NoListeners
  <2>2. QED
    BY <1>12, <2>1, ConstantFacts DEF TypeOK, FinishFile
<1>13. CASE PrintDiagnostic
  <2> DEFINE printed == Append(buffer, Head(diagnosticsChan))
  <2>1. /\ diagnosticsChan \in Seq(Diagnostic) /\ diagnosticsChan # << >>
        /\ diagnosticsChan' = Tail(diagnosticsChan)
    BY <1>13 DEF TypeOK, PrintDiagnostic
  <2>2. Head(diagnosticsChan) \in Diagnostic
    BY <2>1
  <2>3. diagnosticsChan' \in Seq(Diagnostic) /\ Len(diagnosticsChan') <= ChanCap
    BY <2>1, ConstantFacts DEF TypeOK
  <2>4. printed \in Seq(Diagnostic)
    BY <2>2 DEF TypeOK
  <2>5. buffer' \in Seq(Diagnostic) /\ stdout' \in Seq(Diagnostic)
    <3>1. buffer \in Seq(Diagnostic) /\ stdout \in Seq(Diagnostic)
      BY DEF TypeOK
    <3>2. << >> \in Seq(Diagnostic) /\ stdout \o printed \in Seq(Diagnostic)
      BY <2>4, <3>1
    <3>3. \/ buffer' = printed /\ stdout' = stdout
          \/ buffer' = << >> /\ stdout' = stdout \o printed
      BY <1>13 DEF PrintDiagnostic
    <3>4. QED
      BY <2>4, <3>1, <3>2, <3>3
  <2>6. QED
    BY <1>13, <2>3, <2>5 DEF TypeOK, PrintDiagnostic
<1>14. CASE FlushWriter
  BY <1>14 DEF TypeOK, FlushWriter
<1>15. CASE ReporterDone
  BY <1>15 DEF TypeOK, ReporterDone
<1>16. CASE UNCHANGED vars
  BY <1>16 DEF TypeOK
<1>17. QED
  BY <1>1, <1>2, <1>3, <1>4, <1>5, <1>6, <1>7, <1>8, <1>9, <1>10, <1>11,
     <1>12, <1>13, <1>14, <1>15, <1>16
  DEF Next, MainStep, WorkerStep, ReporterStep

\* Every reachable state has its type, and the channel never overflows.
THEOREM TypeCorrect == Spec => []TypeOK
BY InitType, NextType, PTL DEF Spec
-----------------------------------------------------------------------------
(* Nothing is sent on the closed channel. *)

\* A worker ends only when the queue is closed and empty, and the channel is
\* closed only when all workers have ended.
CloseInv ==
  /\ (\E c \in Checkers : wpc[c] = "exited") => queue = << >> /\ QueueClosed
  /\ ChanClosed => WorkersReturned

LEMMA CloseInvInit == Init => CloseInv
BY CheckersAssumption DEF Init, CloseInv, ChanClosed

LEMMA CloseInvNext == TypeOK /\ CloseInv /\ [Next]_vars => CloseInv'
<1> SUFFICES ASSUME TypeOK, CloseInv, [Next]_vars PROVE CloseInv'
  OBVIOUS
<1> USE DEF CloseInv, QueueClosed, ChanClosed, WorkersReturned, vars, mainVars,
            workerVars, reporterVars
<1>1. CASE StartReporter
  BY <1>1 DEF StartReporter
<1>2. CASE FillQueue
  BY <1>2 DEF FillQueue
<1>3. CASE CloseQueue
  BY <1>3 DEF CloseQueue
<1>4. ASSUME NEW c \in Checkers, SpawnWorker(c) PROVE CloseInv'
  BY <1>4 DEF SpawnWorker, TypeOK
<1>5. CASE CloseChan
  BY <1>5 DEF CloseChan
<1>6. CASE PrintSummary
  BY <1>6 DEF PrintSummary
<1>7. ASSUME NEW c \in Checkers, TakeFile(c) PROVE CloseInv'
  BY <1>7 DEF TakeFile, Receive, MayRun, TypeOK
<1>8. ASSUME NEW c \in Checkers, WorkerExit(c) PROVE CloseInv'
  BY <1>8 DEF WorkerExit, MayRun, TypeOK
<1>9. ASSUME NEW c \in Checkers, RunRule(c) PROVE CloseInv'
  BY <1>9 DEF RunRule
<1>10. ASSUME NEW c \in Checkers, CallListener(c) PROVE CloseInv'
  BY <1>10 DEF CallListener
<1>11. ASSUME NEW c \in Checkers, NextNode(c) PROVE CloseInv'
  BY <1>11 DEF NextNode
<1>12. ASSUME NEW c \in Checkers, FinishFile(c) PROVE CloseInv'
  BY <1>12 DEF FinishFile, Walking, TypeOK
<1>13. CASE ReporterStep
  BY <1>13 DEF ReporterStep, PrintDiagnostic, FlushWriter, ReporterDone
<1>14. CASE UNCHANGED vars
  BY <1>14
<1>15. QED
  BY <1>1, <1>2, <1>3, <1>4, <1>5, <1>6, <1>7, <1>8, <1>9, <1>10, <1>11,
     <1>12, <1>13, <1>14
  DEF Next, MainStep, WorkerStep

LEMMA CloseInvImplies == CloseInv => NoSendAfterClose
BY CheckersAssumption DEF CloseInv, NoSendAfterClose, WorkersReturned

\* Once main has closed diagnosticsChan no worker is left that could send on
\* it (which would panic), and no file was left in the queue.
THEOREM NeverSendsOnClosedChannel == Spec => []NoSendAfterClose
BY InitType, NextType, CloseInvInit, CloseInvNext, CloseInvImplies, PTL DEF Spec

-----------------------------------------------------------------------------
(* No file is linted twice at a time. *)

\* The queue is the part of the list that has been filled in and not received;
\* what the workers hold are different files received before.
QueueInv ==
  /\ IsInjective(files)
  /\ Len(queue) <= filled
  /\ \A j \in 1 .. Len(queue) : queue[j] = files[filled - Len(queue) + j]
  /\ \A c \in Checkers : file[c] # NoFile =>
       \E i \in 1 .. (filled - Len(queue)) : files[i] = file[c]
  /\ \A c, d \in Checkers : c # d /\ file[c] # NoFile => file[c] # file[d]

LEMMA QueueInvInit == Init => QueueInv
<1> SUFFICES ASSUME Init PROVE QueueInv
  OBVIOUS
<1>1. IsInjective(files)
  BY SortedFilesType DEF Init
<1>2. QED
  BY <1>1 DEF Init, QueueInv

\* Steps that leave the list, the queue and the workers' files alone.
LEMMA QueueInvUnchanged ==
  QueueInv /\ UNCHANGED <<files, filled, queue, file>> => QueueInv'
BY DEF QueueInv

LEMMA QueueInvNext == TypeOK /\ QueueInv /\ [Next]_vars => QueueInv'
<1> SUFFICES ASSUME TypeOK, QueueInv, [Next]_vars PROVE QueueInv'
  OBVIOUS
<1> USE DEF vars, mainVars, workerVars, reporterVars
<1>0. /\ files \in Seq(Files) /\ queue \in Seq(Files)
      /\ filled \in Nat /\ filled <= Len(files)
      /\ file \in [Checkers -> Files \cup {NoFile}]
  <2>1. Len(files) \in Nat
    BY DEF TypeOK
  <2>2. QED
    BY <2>1 DEF TypeOK
<1>1. CASE FillQueue
  <2>1. /\ queue' = Append(queue, files[filled + 1])
        /\ filled' = filled + 1 /\ files' = files /\ file' = file
    BY <1>1 DEF FillQueue
  <2>2. Len(queue') = Len(queue) + 1 /\ filled + 1 \in 1 .. Len(files)
    BY <1>0, <1>1, <2>1 DEF FillQueue
  <2>3. \A j \in 1 .. Len(queue') : queue'[j] = files[filled' - Len(queue') + j]
    BY <1>0, <2>1, <2>2 DEF QueueInv
  <2>4. filled' - Len(queue') = filled - Len(queue)
    BY <1>0, <2>1, <2>2
  <2>5. QED
    BY <1>0, <2>1, <2>2, <2>3, <2>4 DEF QueueInv
<1>2. ASSUME NEW c \in Checkers, TakeFile(c) PROVE QueueInv'
  <2> DEFINE n == filled - Len(queue) + 1
  <2>1. /\ queue # << >> /\ queue' = Tail(queue) /\ files' = files
        /\ filled' = filled /\ file' = [file EXCEPT ![c] = Head(queue)]
    BY <1>2 DEF TakeFile, Receive
  <2>2. /\ Len(queue) \in Nat \ {0} /\ Len(queue') = Len(queue) - 1
        /\ \A j \in 1 .. Len(queue') : queue'[j] = queue[j + 1]
    BY <1>0, <2>1, HeadTailProperties
  <2>0. /\ Len(queue) \in Nat \ {0} /\ Len(queue) <= filled
        /\ Len(queue') = Len(queue) - 1 /\ filled' = filled
        /\ Len(files) \in Nat /\ filled \in Nat /\ filled <= Len(files)
    <3>1. filled' = filled
      BY <2>1
    <3>2. Len(queue) <= filled
      BY DEF QueueInv
    <3>3. Len(files) \in Nat
      BY <1>0
    <3>4. QED
      BY <1>0, <2>2, <3>1, <3>2, <3>3
  <2>3. n \in 1 .. Len(files) /\ n <= filled /\ filled' - Len(queue') = n
    BY <2>0
  <2>4. file'[c] = files[n]
    <3>1. Head(queue) = queue[1]
      BY <1>0, <2>1
    <3>2. queue[1] = files[n]
      BY <2>2 DEF QueueInv
    <3>3. QED
      BY <1>0, <2>1, <3>1, <3>2
  <2>5. ASSUME NEW d \in Checkers, d # c, file[d] # NoFile
        PROVE  file[d] # files[n]
    <3>1. PICK i \in 1 .. (filled - Len(queue)) : files[i] = file[d]
      BY <2>5 DEF QueueInv
    <3>2. i # n /\ i \in 1 .. Len(files)
      BY <1>0, <2>2, <2>3
    <3>3. DOMAIN files = 1 .. Len(files)
      BY <1>0
    <3>4. QED
      BY <2>3, <3>1, <3>2, <3>3 DEF QueueInv, IsInjective
  <2>6. \A j \in 1 .. Len(queue') : queue'[j] = files'[filled' - Len(queue') + j]
    <3>1. ASSUME NEW j \in 1 .. Len(queue')
          PROVE  queue'[j] = files[filled - Len(queue) + (j + 1)]
      <4>1. j + 1 \in 1 .. Len(queue) /\ queue'[j] = queue[j + 1]
        BY <2>2
      <4>2. QED
        BY <4>1 DEF QueueInv
    <3>2. ASSUME NEW j \in 1 .. Len(queue')
          PROVE  filled' - Len(queue') + j = filled - Len(queue) + (j + 1)
      BY <2>0
    <3>3. QED
      BY <2>1, <3>1, <3>2
  <2>7. \A d \in Checkers : d # c => file'[d] = file[d]
    BY <1>0, <2>1
  <2>8. \A d \in Checkers : file'[d] # NoFile =>
          \E i \in 1 .. (filled' - Len(queue')) : files'[i] = file'[d]
    <3>1. ASSUME NEW d \in Checkers, file'[d] # NoFile
          PROVE  \E i \in 1 .. n : files[i] = file'[d]
      <4>1. CASE d = c
        BY <1>0, <2>3, <2>4, <4>1
      <4>2. CASE d # c
        <5>1. PICK i \in 1 .. (filled - Len(queue)) : files[i] = file[d]
          BY <2>7, <3>1, <4>2 DEF QueueInv
        <5>2. i \in 1 .. n
          BY <1>0, <2>2, <5>1
        <5>3. QED
          BY <2>7, <4>2, <5>1, <5>2
      <4>3. QED
        BY <4>1, <4>2
    <3>2. QED
      BY <2>1, <2>3, <3>1
  <2>9. \A d, e \in Checkers : d # e /\ file'[d] # NoFile => file'[d] # file'[e]
    <3>1. files[n] # NoFile
      BY <1>0, <2>3, FilesAssumption
    <3>2. QED
      BY <2>4, <2>5, <2>7, <3>1 DEF QueueInv
  <2>10. Len(queue') <= filled'
    BY <2>0
  <2>11. QED
    BY <2>1, <2>6, <2>8, <2>9, <2>10 DEF QueueInv
<1>3. ASSUME NEW c \in Checkers, FinishFile(c) PROVE QueueInv'
  <2>1. /\ file' = [file EXCEPT ![c] = NoFile]
        /\ UNCHANGED <<files, filled, queue>>
    BY <1>3 DEF FinishFile
  <2>2. file'[c] = NoFile /\ \A d \in Checkers : d # c => file'[d] = file[d]
    BY <1>0, <2>1
  <2>3. QED
    BY <2>1, <2>2 DEF QueueInv
<1>4. CASE StartReporter
  BY <1>4, QueueInvUnchanged DEF StartReporter
<1>5. CASE CloseQueue
  BY <1>5, QueueInvUnchanged DEF CloseQueue
<1>6. ASSUME NEW c \in Checkers, SpawnWorker(c) PROVE QueueInv'
  BY <1>6, QueueInvUnchanged DEF SpawnWorker
<1>7. CASE CloseChan
  BY <1>7, QueueInvUnchanged DEF CloseChan
<1>8. CASE PrintSummary
  BY <1>8, QueueInvUnchanged DEF PrintSummary
<1>9. ASSUME NEW c \in Checkers, WorkerExit(c) PROVE QueueInv'
  BY <1>9, QueueInvUnchanged DEF WorkerExit
<1>10. ASSUME NEW c \in Checkers, RunRule(c) PROVE QueueInv'
  BY <1>10, QueueInvUnchanged DEF RunRule
<1>11. ASSUME NEW c \in Checkers, CallListener(c) PROVE QueueInv'
  BY <1>11, QueueInvUnchanged DEF CallListener
<1>12. ASSUME NEW c \in Checkers, NextNode(c) PROVE QueueInv'
  BY <1>12, QueueInvUnchanged DEF NextNode
<1>13. CASE ReporterStep
  BY <1>13, QueueInvUnchanged DEF ReporterStep, PrintDiagnostic, FlushWriter,
     ReporterDone
<1>14. CASE UNCHANGED vars
  BY <1>14, QueueInvUnchanged
<1>15. QED
  BY <1>1, <1>2, <1>3, <1>4, <1>5, <1>6, <1>7, <1>8, <1>9, <1>10, <1>11,
     <1>12, <1>13, <1>14
  DEF Next, MainStep, WorkerStep

LEMMA QueueInvImplies == TypeOK /\ QueueInv => OneWorkerPerFile
<1> SUFFICES ASSUME TypeOK, QueueInv, NEW c \in Checkers, file[c] # NoFile
             PROVE  /\ \A d \in Checkers \ {c} : file[d] # file[c]
                    /\ file[c] \notin Range(queue)
                    /\ \E i \in 1 .. filled : files[i] = file[c]
  BY DEF OneWorkerPerFile
<1>0. /\ files \in Seq(Files) /\ queue \in Seq(Files)
      /\ Len(files) \in Nat /\ filled \in 0 .. Len(files) /\ Len(queue) \in Nat
  BY DEF TypeOK
<1>1. PICK i \in 1 .. (filled - Len(queue)) : files[i] = file[c]
  BY DEF QueueInv
<1>2. ASSUME NEW j \in 1 .. Len(queue) PROVE queue[j] # file[c]
  <2> DEFINE k == filled - Len(queue) + j
  <2>1. queue[j] = files[k]
    BY DEF QueueInv
  <2>2. i # k /\ i \in 1 .. Len(files) /\ k \in 1 .. Len(files)
    BY <1>0, <1>1 DEF QueueInv
  <2>3. DOMAIN files = 1 .. Len(files)
    BY <1>0
  <2>4. QED
    BY <1>1, <2>1, <2>2, <2>3 DEF QueueInv, IsInjective
<1>3. file[c] \notin Range(queue)
  BY <1>0, <1>2 DEF Range
<1>4. i \in 1 .. filled
  BY <1>0, <1>1
<1>5. QED
  BY <1>1, <1>3, <1>4 DEF QueueInv

\* Whatever the number of workers, the file a worker is linting is in no other
\* worker's hands and no longer in the queue.
THEOREM FilesAreNotShared == Spec => []OneWorkerPerFile
BY InitType, NextType, QueueInvInit, QueueInvNext, QueueInvImplies, PTL DEF Spec
-----------------------------------------------------------------------------
(* A diagnostic names the file it is about. *)

NamesItsFile(d) == d.file = d.at[1]
AllNameTheirFile(s) == \A i \in DOMAIN s : NamesItsFile(s[i])

\* The table of a worker holds listeners made for the file it is linting, and
\* between two files it holds none.
TableInv(c) ==
  /\ wpc[c] # "lint" => registered[c] = NoListeners
  /\ \A k \in Kinds : \A i \in 1 .. Len(registered[c][k]) :
       registered[c][k][i].file = file[c]

FileInv ==
  /\ \A c \in Checkers : TableInv(c)
  /\ AllNameTheirFile(stdout)
  /\ AllNameTheirFile(buffer)
  /\ AllNameTheirFile(diagnosticsChan)

LEMMA AppendNames ==
  ASSUME NEW s \in Seq(Diagnostic), NEW d \in Diagnostic,
         AllNameTheirFile(s), NamesItsFile(d)
  PROVE  AllNameTheirFile(Append(s, d))
BY DEF AllNameTheirFile

LEMMA ConcatNames ==
  ASSUME NEW s \in Seq(Diagnostic), NEW t \in Seq(Diagnostic),
         AllNameTheirFile(s), AllNameTheirFile(t)
  PROVE  AllNameTheirFile(s \o t)
BY DEF AllNameTheirFile

LEMMA HeadTailNames ==
  ASSUME NEW s \in Seq(Diagnostic), s # << >>, AllNameTheirFile(s)
  PROVE  NamesItsFile(Head(s)) /\ AllNameTheirFile(Tail(s))
<1>1. NamesItsFile(Head(s))
  BY DEF AllNameTheirFile
<1>2. \A i \in 1 .. Len(Tail(s)) : Tail(s)[i] = s[i + 1] /\ i + 1 \in DOMAIN s
  BY HeadTailProperties
<1>3. DOMAIN Tail(s) = 1 .. Len(Tail(s))
  BY HeadTailProperties
<1>4. QED
  BY <1>1, <1>2, <1>3 DEF AllNameTheirFile

\* A report for the file being walked, by a listener made for it.
LEMMA ReportNames ==
  ASSUME diagnosticsChan \in Seq(Diagnostic), AllNameTheirFile(diagnosticsChan),
         NEW r \in Rules, NEW f \in Files, NEW p \in Nat, Report(r, f, f, p)
  PROVE  AllNameTheirFile(diagnosticsChan')
<1> DEFINE d == [rule |-> r, file |-> f, at |-> <<f, p>>]
<1>1. d \in Diagnostic /\ NamesItsFile(d)
  BY DEF Diagnostic, NamesItsFile
<1>2. CASE diagnosticsChan' = Append(diagnosticsChan, d)
  BY <1>1, <1>2, AppendNames
<1>3. CASE diagnosticsChan' = diagnosticsChan
  BY <1>3
<1>4. QED
  BY <1>2, <1>3 DEF Report, Send

LEMMA FileInvInit == Init => FileInv
<1> SUFFICES ASSUME Init PROVE FileInv
  OBVIOUS
<1>1. \A c \in Checkers : registered[c] = NoListeners
  BY DEF Init
<1>2. \A k \in Kinds : Len(NoListeners[k]) = 0
  BY DEF NoListeners
<1>3. \A c \in Checkers : TableInv(c)
  BY <1>1, <1>2 DEF TableInv
<1>4. AllNameTheirFile(<< >>)
  BY DEF AllNameTheirFile
<1>5. QED
  BY <1>3, <1>4 DEF Init, FileInv

\* Steps that leave the workers alone leave their tables right.
LEMMA TablesUnchanged ==
  ASSUME FileInv, UNCHANGED <<wpc, registered, file>>
  PROVE  \A c \in Checkers : TableInv(c)'
BY DEF FileInv, TableInv

LEMMA FileInvNext == TypeOK /\ FileInv /\ [Next]_vars => FileInv'
<1> SUFFICES ASSUME TypeOK, FileInv, [Next]_vars PROVE FileInv'
  OBVIOUS
<1> USE DEF vars, mainVars, workerVars, reporterVars
<1>0. /\ diagnosticsChan \in Seq(Diagnostic) /\ buffer \in Seq(Diagnostic)
      /\ stdout \in Seq(Diagnostic)
      /\ AllNameTheirFile(stdout) /\ AllNameTheirFile(buffer)
      /\ AllNameTheirFile(diagnosticsChan)
  BY DEF TypeOK, FileInv
<1>1. ASSUME NEW c \in Checkers, SpawnWorker(c) PROVE FileInv'
  <2>1. \A d \in Checkers : TableInv(d)'
    BY <1>1 DEF SpawnWorker, FileInv, TableInv, TypeOK
  <2>2. QED
    BY <1>0, <1>1, <2>1 DEF SpawnWorker, FileInv
<1>2. ASSUME NEW c \in Checkers, TakeFile(c) PROVE FileInv'
  <2>1. \A k \in Kinds : Len(registered'[c][k]) = 0
    BY <1>2 DEF TakeFile, MayRun, FileInv, TableInv, NoListeners
  <2>2. wpc'[c] = "lint" /\ \A d \in Checkers : d # c =>
          wpc'[d] = wpc[d] /\ file'[d] = file[d] /\ registered'[d] = registered[d]
    BY <1>2 DEF TakeFile, Receive, TypeOK
  <2>3. TableInv(c)'
    BY <2>1, <2>2 DEF TableInv
  <2>4. \A d \in Checkers : d # c => TableInv(d)'
    BY <2>2 DEF FileInv, TableInv
  <2>5. QED
    BY <1>0, <1>2, <2>3, <2>4 DEF TakeFile, FileInv
<1>3. ASSUME NEW c \in Checkers, WorkerExit(c) PROVE FileInv'
  <2>1. \A d \in Checkers : TableInv(d)'
    BY <1>3 DEF WorkerExit, MayRun, FileInv, TableInv, TypeOK
  <2>2. QED
    BY <1>0, <1>3, <2>1 DEF WorkerExit, FileInv
<1>4. ASSUME NEW c \in Checkers, RunRule(c) PROVE FileInv'
  <2> DEFINE r == RuleList[rule[c]]
             new == [rule |-> r, file |-> file[c]]
  <2>1. file[c] \in Files /\ r \in Rules /\ wpc[c] = "lint"
    <3>1. rule[c] \in 1 .. Len(RuleList)
      BY <1>4, RuleListAssumption DEF TypeOK, RunRule
    <3>2. r \in Rules
      BY <3>1, ConstantFacts
    <3>3. QED
      BY <1>4, <3>2 DEF TypeOK, RunRule
  <2>2. AllNameTheirFile(diagnosticsChan')
    BY <1>0, <1>4, <2>1, ReportNames DEF RunRule
  <2>3. /\ registered' = [registered EXCEPT ![c] = Register(registered[c], r, file[c])]
        /\ wpc' = wpc /\ file' = file
    BY <1>4 DEF RunRule
  <2>4. ASSUME NEW k \in Kinds, NEW i \in 1 .. Len(registered'[c][k])
        PROVE  registered'[c][k][i].file = file[c]
    <3>1. registered[c][k] \in Seq(Listener) /\ new.file = file[c]
      BY DEF TypeOK
    <3>2. registered'[c][k] \in {registered[c][k], Append(registered[c][k], new)}
      BY <2>3 DEF TypeOK, Register
    <3>3. \A j \in 1 .. Len(registered[c][k]) : registered[c][k][j].file = file[c]
      BY DEF FileInv, TableInv
    <3>4. CASE registered'[c][k] = registered[c][k]
      BY <3>3, <3>4
    <3>5. CASE registered'[c][k] = Append(registered[c][k], new)
      BY <3>1, <3>3, <3>5
    <3>6. QED
      BY <3>2, <3>4, <3>5
  <2>5. \A d \in Checkers : d # c => registered'[d] = registered[d]
    BY <2>3 DEF TypeOK
  <2>6. \A d \in Checkers : TableInv(d)'
    BY <2>1, <2>3, <2>4, <2>5 DEF FileInv, TableInv
  <2>7. QED
    BY <1>0, <1>4, <2>2, <2>6 DEF RunRule, FileInv
<1>5. ASSUME NEW c \in Checkers, CallListener(c) PROVE FileInv'
  <2> DEFINE l == Here(c)[listener[c]]
  <2>1. Here(c) \in Seq(Listener)
    BY <1>5, HereType DEF CallListener
  <2>2. listener[c] \in 1 .. Len(Here(c))
    BY <1>5, <2>1 DEF TypeOK, CallListener
  <2>3. l \in Listener /\ \A x \in Listener : x.rule \in Rules /\ x.file \in Files
    <3>1. l \in Listener
      BY <2>1, <2>2
    <3>2. \A x \in Listener : x.rule \in Rules /\ x.file \in Files
      BY DEF Listener
    <3>3. QED
      BY <3>1, <3>2
  <2>4. file[c] \in Files /\ node[c] \in Nat
    BY <1>5 DEF TypeOK, CallListener, Walking
  <2>5. l.file = file[c]
    <3>1. Nodes[file[c]][node[c]] \in Kinds
      <4>1. Nodes[file[c]] \in Seq(Kinds) /\ node[c] \in 1 .. Len(Nodes[file[c]])
        BY <1>5, <2>4, ConstantFacts DEF CallListener, TypeOK
      <4>2. QED
        BY <4>1
    <3>2. QED
      BY <2>2, <3>1 DEF FileInv, TableInv, Here
  <2>6. Report(l.rule, file[c], file[c], node[c])
    BY <1>5, <2>5 DEF CallListener
  <2>7. AllNameTheirFile(diagnosticsChan')
    BY <1>0, <2>3, <2>4, <2>6, ReportNames
  <2>8. \A d \in Checkers : TableInv(d)'
    BY <1>5, TablesUnchanged DEF CallListener
  <2>9. QED
    BY <1>0, <1>5, <2>7, <2>8 DEF CallListener, FileInv
<1>6. ASSUME NEW c \in Checkers, NextNode(c) PROVE FileInv'
  <2>1. \A d \in Checkers : TableInv(d)'
    BY <1>6, TablesUnchanged DEF NextNode
  <2>2. QED
    BY <1>0, <1>6, <2>1 DEF NextNode, FileInv
<1>7. ASSUME NEW c \in Checkers, FinishFile(c) PROVE FileInv'
  <2>1. registered'[c] = NoListeners /\ \A d \in Checkers : d # c =>
          wpc'[d] = wpc[d] /\ file'[d] = file[d] /\ registered'[d] = registered[d]
    BY <1>7 DEF FinishFile, Cleared, TypeOK
  <2>2. \A k \in Kinds : Len(NoListeners[k]) = 0
    BY DEF NoListeners
  <2>3. TableInv(c)'
    BY <2>1, <2>2 DEF TableInv
  <2>4. \A d \in Checkers : d # c => TableInv(d)'
    BY <2>1 DEF FileInv, TableInv
  <2>5. QED
    BY <1>0, <1>7, <2>3, <2>4 DEF FinishFile, FileInv
<1>8. CASE PrintDiagnostic
  <2> DEFINE first == Head(diagnosticsChan)
             printed == Append(buffer, first)
  <2>1. /\ diagnosticsChan # << >> /\ diagnosticsChan' = Tail(diagnosticsChan)
        /\ \/ buffer' = printed /\ stdout' = stdout
           \/ buffer' = << >> /\ stdout' = stdout \o printed
    BY <1>8 DEF PrintDiagnostic
  <2>2. NamesItsFile(first) /\ AllNameTheirFile(diagnosticsChan') /\ first \in Diagnostic
    BY <1>0, <2>1, HeadTailNames
  <2>3. printed \in Seq(Diagnostic) /\ AllNameTheirFile(printed)
    BY <1>0, <2>2, AppendNames
  <2>4. AllNameTheirFile(stdout \o printed) /\ AllNameTheirFile(<< >>)
    BY <1>0, <2>3, ConcatNames DEF AllNameTheirFile
  <2>5. AllNameTheirFile(buffer') /\ AllNameTheirFile(stdout')
    BY <1>0, <2>1, <2>3, <2>4
  <2>6. \A d \in Checkers : TableInv(d)'
    BY <1>8, TablesUnchanged DEF PrintDiagnostic
  <2>7. QED
    BY <2>2, <2>5, <2>6 DEF FileInv
<1>9. CASE FlushWriter
  <2>1. AllNameTheirFile(stdout \o buffer) /\ AllNameTheirFile(<< >>)
    BY <1>0, ConcatNames DEF AllNameTheirFile
  <2>2. \A d \in Checkers : TableInv(d)'
    BY <1>9, TablesUnchanged DEF FlushWriter
  <2>3. QED
    BY <1>0, <1>9, <2>1, <2>2 DEF FlushWriter, FileInv
<1>10. CASE UNCHANGED <<workerVars, diagnosticsChan, buffer, stdout>>
  <2>1. \A d \in Checkers : TableInv(d)'
    BY <1>10, TablesUnchanged
  <2>2. QED
    BY <1>0, <1>10, <2>1 DEF FileInv
<1>11. QED
  BY <1>1, <1>2, <1>3, <1>4, <1>5, <1>6, <1>7, <1>8, <1>9, <1>10
  DEF Next, MainStep, WorkerStep, ReporterStep, StartReporter, FillQueue,
      CloseQueue, CloseChan, PrintSummary, ReporterDone

LEMMA FileInvImplies == TypeOK /\ FileInv => DiagnosticNamesItsFile
<1> SUFFICES ASSUME TypeOK, FileInv PROVE DiagnosticNamesItsFile
  OBVIOUS
<1>1. /\ diagnosticsChan \in Seq(Diagnostic) /\ buffer \in Seq(Diagnostic)
      /\ stdout \in Seq(Diagnostic) /\ stdout \o buffer \in Seq(Diagnostic)
  BY DEF TypeOK
<1>2. AllNameTheirFile(stdout \o buffer)
  BY <1>1, ConcatNames DEF FileInv
<1>3. AllNameTheirFile((stdout \o buffer) \o diagnosticsChan)
  BY <1>1, <1>2, ConcatNames DEF FileInv
<1>4. QED
  BY <1>3 DEF DiagnosticNamesItsFile, Reported, AllNameTheirFile, NamesItsFile

\* Reusing one listener table for all the files of a worker is safe: whatever
\* has been reported names the file whose node it is about.
THEOREM DiagnosticsNameTheirFile == Spec => []DiagnosticNamesItsFile
BY InitType, NextType, FileInvInit, FileInvNext, FileInvImplies, PTL DEF Spec

-----------------------------------------------------------------------------
(* The rules and the diagnostics. *)

\* The position of a rule in the configured list.
RankOf(r) == CHOOSE i \in DOMAIN RuleList : RuleList[i] = r

\* Every rule has one position in the list.
LEMMA RankFacts ==
  /\ Len(RuleList) \in Nat
  /\ \A r \in Rules : RankOf(r) \in 1 .. Len(RuleList) /\ RuleList[RankOf(r)] = r
  /\ \A i \in 1 .. Len(RuleList) : RuleList[i] \in Rules /\ RankOf(RuleList[i]) = i
  /\ \A r, q \in Rules : RankOf(r) = RankOf(q) => r = q
<1>1. Len(RuleList) \in Nat /\ DOMAIN RuleList = 1 .. Len(RuleList)
  BY RuleListAssumption
<1>2. ASSUME NEW r \in Rules
      PROVE  RankOf(r) \in 1 .. Len(RuleList) /\ RuleList[RankOf(r)] = r
  <2>1. \E i \in DOMAIN RuleList : RuleList[i] = r
    BY DEF Rules, Range
  <2>2. RankOf(r) \in DOMAIN RuleList /\ RuleList[RankOf(r)] = r
    BY <2>1 DEF RankOf
  <2>3. QED
    BY <1>1, <2>2
<1>3. ASSUME NEW i \in 1 .. Len(RuleList)
      PROVE  RuleList[i] \in Rules /\ RankOf(RuleList[i]) = i
  <2>1. RuleList[i] \in Rules
    BY ConstantFacts
  <2>2. RankOf(RuleList[i]) \in 1 .. Len(RuleList)
        /\ RuleList[RankOf(RuleList[i])] = RuleList[i]
    BY <1>2, <2>1
  <2>3. QED
    BY <1>1, <2>1, <2>2, RuleListAssumption DEF IsInjective
<1>4. QED
  BY <1>1, <1>2, <1>3

\* The diagnostic that rule r makes at place p of file f.
DiagnosticOf(r, f, p) == [rule |-> r, file |-> f, at |-> <<f, p>>]

\* The rule gets to see that place.
Sees(r, f, p) ==
  \/ p = 0
  \/ p \in DOMAIN Nodes[f] /\ Nodes[f][p] \in Listens[r]

\* An expected diagnostic is determined by its rule, file and place.
LEMMA ExpectedParts ==
  ASSUME NEW d \in Expected
  PROVE  /\ d.rule \in Rules /\ d.file \in Files /\ d.at[2] \in Nat
         /\ d.at[1] = d.file
         /\ d = DiagnosticOf(d.rule, d.file, d.at[2])
         /\ <<d.file, d.at[2], d.rule>> \in Finds /\ Sees(d.rule, d.file, d.at[2])
<1>1. PICK x \in Finds :
        /\ d = [rule |-> x[3], file |-> x[1], at |-> <<x[1], x[2]>>]
        /\ Sees(x[3], x[1], x[2])
  BY DEF Expected, Sees
<1>2. /\ x[1] \in Files /\ x[2] \in Nat /\ x[3] \in Rules
      /\ x = <<x[1], x[2], x[3]>>
  BY FindsAssumption
<1>3. d.rule = x[3] /\ d.file = x[1] /\ d.at[1] = x[1] /\ d.at[2] = x[2]
  BY <1>1
<1>4. d = DiagnosticOf(d.rule, d.file, d.at[2])
  BY <1>1, <1>3 DEF DiagnosticOf
<1>5. <<d.file, d.at[2], d.rule>> = x
  BY <1>2, <1>3
<1>6. QED
  BY <1>1, <1>2, <1>3, <1>4, <1>5

LEMMA ExpectedIff ==
  ASSUME NEW r \in Rules, NEW f \in Files, NEW p \in Nat
  PROVE  DiagnosticOf(r, f, p) \in Expected <=> <<f, p, r>> \in Finds /\ Sees(r, f, p)
<1>1. ASSUME DiagnosticOf(r, f, p) \in Expected
      PROVE  <<f, p, r>> \in Finds /\ Sees(r, f, p)
  <2> DEFINE d == DiagnosticOf(r, f, p)
  <2>1. d.rule = r /\ d.file = f /\ d.at[2] = p
    BY DEF DiagnosticOf
  <2>2. <<d.file, d.at[2], d.rule>> \in Finds /\ Sees(d.rule, d.file, d.at[2])
    BY <1>1, ExpectedParts
  <2>3. QED
    BY <2>1, <2>2
<1>2. ASSUME <<f, p, r>> \in Finds, Sees(r, f, p)
      PROVE  DiagnosticOf(r, f, p) \in Expected
  <2> DEFINE x == <<f, p, r>>
  <2>1. x[1] = f /\ x[2] = p /\ x[3] = r
    OBVIOUS
  <2>2. x \in { y \in Finds : \/ y[2] = 0
                              \/ /\ y[2] \in DOMAIN Nodes[y[1]]
                                 /\ Nodes[y[1]][y[2]] \in Listens[y[3]] }
    BY <1>2, <2>1 DEF Sees
  <2>3. DiagnosticOf(r, f, p) = [rule |-> x[3], file |-> x[1], at |-> <<x[1], x[2]>>]
    BY <2>1 DEF DiagnosticOf
  <2>4. QED
    BY <2>2, <2>3 DEF Expected
<1>3. QED
  BY <1>1, <1>2

-----------------------------------------------------------------------------
(* What has been reported, as the steps change it. *)

LEMMA ReportedType ==
  TypeOK => Reported \in Seq(Diagnostic) /\ DOMAIN Reported = 1 .. Len(Reported)
BY DEF TypeOK, Reported

\* What is sent comes last ...
LEMMA ReportedSent ==
  ASSUME TypeOK, NEW d \in Diagnostic, UNCHANGED <<buffer, stdout>>,
         diagnosticsChan' = Append(diagnosticsChan, d)
  PROVE  Reported' = Append(Reported, d)
<1> DEFINE s == stdout \o buffer
<1>1. s \in Seq(Diagnostic) /\ diagnosticsChan \in Seq(Diagnostic)
  BY DEF TypeOK
<1> HIDE DEF s
<1>2. \A t \in Seq(Diagnostic) : s \o Append(t, d) = Append(s \o t, d)
  <2> SUFFICES ASSUME NEW t \in Seq(Diagnostic)
               PROVE  s \o Append(t, d) = Append(s \o t, d)
    OBVIOUS
  <2>1. /\ Append(t, d) \in Seq(Diagnostic) /\ Len(Append(t, d)) = Len(t) + 1
        /\ s \o t \in Seq(Diagnostic) /\ Len(s \o t) = Len(s) + Len(t)
    BY <1>1
  <2>2. /\ s \o Append(t, d) \in Seq(Diagnostic)
        /\ Append(s \o t, d) \in Seq(Diagnostic)
        /\ Len(s \o Append(t, d)) = Len(Append(s \o t, d))
    BY <1>1, <2>1
  <2>3. \A i \in 1 .. Len(s \o Append(t, d)) : (s \o Append(t, d))[i] = Append(s \o t, d)[i]
    BY <1>1, <2>1
  <2>4. QED
    BY <2>2, <2>3, SeqEqual
<1>3. QED
  BY <1>1, <1>2 DEF s, Reported

Regroups(s, t, u) == (s \o t) \o u = s \o (t \o u)

LEMMA AllRegroup ==
  ASSUME NEW s \in Seq(Diagnostic), NEW t \in Seq(Diagnostic), NEW u \in Seq(Diagnostic)
  PROVE  Regroups(s, t, u)
BY ConcatAssociative DEF Regroups

\* The head of one sequence moves to the end of another.
Moves(s, u, c) == (s \o Append(u, Head(c))) \o Tail(c) = (s \o u) \o c

LEMMA HeadMoves ==
  ASSUME NEW s \in Seq(Diagnostic), NEW u \in Seq(Diagnostic),
         NEW c \in Seq(Diagnostic), c # << >>
  PROVE  Moves(s, u, c)
<1>1. PICK x \in Diagnostic : x = Head(c)
  BY HeadTailProperties
<1>2. PICK w \in Seq(Diagnostic) : w = Tail(c)
  BY HeadTailProperties
<1>3. <<x>> \in Seq(Diagnostic) /\ Append(u, x) = u \o <<x>>
  BY AppendIsConcat
<1>4. s \o (u \o <<x>>) = (s \o u) \o <<x>> /\ s \o u \in Seq(Diagnostic)
  <2>1. Regroups(s, u, <<x>>)
    BY <1>3, AllRegroup
  <2>2. s \o u \in Seq(Diagnostic)
    BY ConcatProperties
  <2>3. QED
    BY <2>1, <2>2 DEF Regroups
<1>5. ((s \o u) \o <<x>>) \o w = (s \o u) \o (<<x>> \o w)
  <2>1. PICK v \in Seq(Diagnostic) : v = s \o u
    BY <1>4
  <2>2. PICK e \in Seq(Diagnostic) : e = <<x>>
    BY <1>3
  <2>3. Regroups(v, e, w)
    BY AllRegroup
  <2>4. QED
    BY <2>1, <2>2, <2>3 DEF Regroups
<1>6. c = <<x>> \o w
  <2>1. <<x>> \in Seq(Diagnostic) /\ <<x>> \o w \in Seq(Diagnostic)
    BY <1>3, ConcatProperties
  <2>2. Len(w) = Len(c) - 1 /\ Len(c) \in Nat /\ Len(<<x>> \o w) = 1 + Len(w)
    BY <1>2, <1>3, HeadTailProperties
  <2>3. \A i \in 1 .. Len(<<x>> \o w) : (<<x>> \o w)[i] = c[i]
    BY <1>1, <1>2, <2>1, <2>2, HeadTailProperties
  <2>4. QED
    BY <2>1, <2>2, <2>3, SeqEqual
<1>7. QED
  BY <1>1, <1>2, <1>3, <1>4, <1>5, <1>6 DEF Moves

\* ... and printing or flushing moves diagnostics on without losing any.
LEMMA ReportedMoves ==
  ASSUME TypeOK, PrintDiagnostic \/ FlushWriter
  PROVE  Reported' = Reported
<1>1. /\ diagnosticsChan \in Seq(Diagnostic) /\ buffer \in Seq(Diagnostic)
      /\ stdout \in Seq(Diagnostic) /\ << >> \in Seq(Diagnostic)
      /\ stdout \o buffer \in Seq(Diagnostic)
  BY DEF TypeOK
<1>2. CASE PrintDiagnostic
  <2> DEFINE h == Head(diagnosticsChan)
             t == Tail(diagnosticsChan)
             printed == Append(buffer, h)
  <2>1. /\ diagnosticsChan # << >> /\ diagnosticsChan' = t
        /\ \/ buffer' = printed /\ stdout' = stdout
           \/ buffer' = << >> /\ stdout' = stdout \o printed
    BY <1>2 DEF PrintDiagnostic
  <2>2. /\ h \in Diagnostic /\ t \in Seq(Diagnostic) /\ printed \in Seq(Diagnostic)
        /\ stdout \o printed \in Seq(Diagnostic)
    BY <1>1, <2>1
  <2>3. (stdout \o printed) \o << >> = stdout \o printed
    BY <2>2
  <2>4. stdout' \o buffer' = stdout \o printed
    BY <2>1, <2>3
  <2>5. (stdout \o printed) \o t = Reported
    <3>1. diagnosticsChan # << >>
      BY <2>1
    <3>2. (stdout \o Append(buffer, Head(diagnosticsChan))) \o Tail(diagnosticsChan)
            = (stdout \o buffer) \o diagnosticsChan
      <4>1. Moves(stdout, buffer, diagnosticsChan)
        BY <1>1, <3>1, HeadMoves
      <4> QED BY <4>1 DEF Moves
    <3>3. QED
      BY <3>2 DEF Reported
  <2>6. QED
    BY <2>1, <2>4, <2>5 DEF Reported
<1>3. CASE FlushWriter
  <2>1. /\ stdout' = stdout \o buffer /\ buffer' = << >>
        /\ diagnosticsChan' = diagnosticsChan
    BY <1>3 DEF FlushWriter
  <2>2. (stdout \o buffer) \o << >> = stdout \o buffer
    BY <1>1
  <2>3. QED
    BY <2>1, <2>2 DEF Reported
<1>4. QED
  BY <1>2, <1>3

-----------------------------------------------------------------------------
(* The listener table of a worker. *)

\* s holds, in rule order, a listener of each of the first n - 1 rules that
\* listens to kind k, and nothing else.
ExactFor(s, k, n) ==
  /\ \A j \in 1 .. Len(s) : RankOf(s[j].rule) < n /\ k \in Listens[s[j].rule]
  /\ \A i, j \in 1 .. Len(s) : i < j => RankOf(s[i].rule) < RankOf(s[j].rule)
  /\ \A r \in Rules : RankOf(r) < n /\ k \in Listens[r] =>
       \E j \in 1 .. Len(s) : s[j].rule = r

\* While it lints a file, a worker's table holds exactly the listeners of the
\* rules run so far, and it walks the tree only after all rules have run.
TableExact(c) ==
  wpc[c] = "lint" =>
    /\ rule[c] <= Len(RuleList) + 1
    /\ rule[c] <= Len(RuleList) => node[c] = 1 /\ listener[c] = 1
    /\ \A k \in Kinds : ExactFor(registered[c][k], k, rule[c])

TablesExact == \A c \in Checkers : TableExact(c)

LEMMA ExactEmpty == \A k \in Kinds : ExactFor(NoListeners[k], k, 1)
<1>1. \A k \in Kinds : Len(NoListeners[k]) = 0
  BY DEF NoListeners
<1>2. \A r \in Rules : ~ (RankOf(r) < 1)
  BY RankFacts
<1>3. QED
  BY <1>1, <1>2 DEF ExactFor

\* The rule run next either listens to k, and its listener comes last, or not.
LEMMA ExactAppend ==
  ASSUME NEW s \in Seq(Listener), NEW k \in Kinds, NEW n \in 1 .. Len(RuleList),
         NEW l \in Listener, l.rule = RuleList[n], ExactFor(s, k, n)
  PROVE  /\ k \in Listens[l.rule] => ExactFor(Append(s, l), k, n + 1)
         /\ k \notin Listens[l.rule] => ExactFor(s, k, n + 1)
<1> DEFINE t == Append(s, l)
           m == n + 1
<1>0. n \in Nat /\ n < m /\ m \in Nat /\ \A r \in Rules : RankOf(r) \in Nat
  BY RankFacts
<1>1. l.rule \in Rules /\ RankOf(l.rule) = n
  BY RankFacts
<1>2. \A j \in 1 .. Len(s) : s[j].rule \in Rules
  <2>1. \A j \in 1 .. Len(s) : s[j] \in Listener
    OBVIOUS
  <2>2. \A x \in Listener : x.rule \in Rules
    BY DEF Listener
  <2>3. QED
    BY <2>1, <2>2
<1>3. \A r \in Rules : RankOf(r) < m => RankOf(r) < n \/ r = l.rule
  BY <1>0, <1>1, RankFacts
<1>4. /\ Len(t) \in Nat /\ Len(s) \in Nat /\ Len(t) = Len(s) + 1 /\ t[Len(t)] = l
      /\ \A j \in 1 .. Len(s) : t[j] = s[j]
  BY AppendProperties
<1> HIDE DEF t, m
<1>5. ASSUME k \in Listens[l.rule] PROVE ExactFor(t, k, m)
  <2>1. \A j \in 1 .. Len(t) : j \in 1 .. Len(s) \/ j = Len(t)
    BY <1>4
  <2>2. ASSUME NEW j \in 1 .. Len(t)
        PROVE  RankOf(t[j].rule) < m /\ k \in Listens[t[j].rule]
    <3>1. CASE j \in 1 .. Len(s)
      BY <1>0, <1>2, <1>4, <3>1 DEF ExactFor
    <3>2. CASE j = Len(t)
      BY <1>0, <1>1, <1>4, <1>5, <3>2
    <3>3. QED
      BY <2>1, <3>1, <3>2
  <2>3. ASSUME NEW i \in 1 .. Len(t), NEW j \in 1 .. Len(t), i < j
        PROVE  RankOf(t[i].rule) < RankOf(t[j].rule)
    <3>1. i \in 1 .. Len(s)
      BY <1>4, <2>3
    <3>2. CASE j \in 1 .. Len(s)
      BY <1>4, <2>3, <3>1, <3>2 DEF ExactFor
    <3>3. CASE j = Len(t)
      BY <1>1, <1>4, <3>1, <3>3 DEF ExactFor
    <3>4. QED
      BY <2>1, <3>2, <3>3
  <2>4. ASSUME NEW r \in Rules, RankOf(r) < m, k \in Listens[r]
        PROVE  \E j \in 1 .. Len(t) : t[j].rule = r
    <3>1. CASE r = l.rule
      <4>1. Len(t) \in 1 .. Len(t) /\ t[Len(t)].rule = r
        BY <1>4, <3>1
      <4>2. QED
        BY <4>1
    <3>2. CASE RankOf(r) < n
      <4>1. PICK j \in 1 .. Len(s) : s[j].rule = r
        BY <2>4, <3>2 DEF ExactFor
      <4>2. j \in 1 .. Len(t) /\ t[j].rule = r
        BY <1>4, <4>1
      <4>3. QED
        BY <4>2
    <3>3. QED
      BY <1>3, <2>4, <3>1, <3>2
  <2>5. QED
    BY <2>2, <2>3, <2>4 DEF ExactFor
<1>6. ASSUME k \notin Listens[l.rule] PROVE ExactFor(s, k, m)
  <2>1. \A j \in 1 .. Len(s) : RankOf(s[j].rule) < m
    BY <1>0, <1>2 DEF ExactFor
  <2>2. \A r \in Rules : RankOf(r) < m /\ k \in Listens[r] => RankOf(r) < n
    BY <1>3, <1>6
  <2>3. QED
    BY <2>1, <2>2 DEF ExactFor
<1>7. QED
  BY <1>5, <1>6 DEF t, m

LEMMA TablesExactInit == Init => TablesExact
BY DEF Init, TablesExact, TableExact

LEMMA TableExactUnchanged ==
  ASSUME NEW c \in Checkers, TableExact(c), wpc'[c] = wpc[c], rule'[c] = rule[c],
         node'[c] = node[c], listener'[c] = listener[c],
         registered'[c] = registered[c]
  PROVE  TableExact(c)'
BY DEF TableExact

\* Steps that leave the workers alone.
LEMMA TablesExactUnchanged ==
  ASSUME TablesExact, UNCHANGED workerVars
  PROVE  TablesExact'
BY DEF TablesExact, TableExact, workerVars

LEMMA TablesExactNext ==
  TypeOK /\ FileInv /\ TablesExact /\ [Next]_vars => TablesExact'
<1> SUFFICES ASSUME TypeOK, FileInv, TablesExact, [Next]_vars PROVE TablesExact'
  OBVIOUS
<1>1. ASSUME NEW c \in Checkers, SpawnWorker(c) PROVE TablesExact'
  <2>1. /\ wpc' = [wpc EXCEPT ![c] = "recv"]
        /\ UNCHANGED <<rule, node, listener, registered>>
    BY <1>1 DEF SpawnWorker
  <2>2. TableExact(c)'
    BY <2>1 DEF TableExact, TypeOK
  <2>3. \A d \in Checkers : d # c => TableExact(d)'
    BY <2>1, TableExactUnchanged DEF TypeOK, TablesExact
  <2>4. QED
    BY <2>2, <2>3 DEF TablesExact
<1>2. ASSUME NEW c \in Checkers, TakeFile(c) PROVE TablesExact'
  <2>1. /\ wpc' = [wpc EXCEPT ![c] = "lint"] /\ registered' = registered
        /\ rule' = [rule EXCEPT ![c] = 1] /\ node' = [node EXCEPT ![c] = 1]
        /\ listener' = [listener EXCEPT ![c] = 1] /\ wpc[c] = "recv"
    BY <1>2 DEF TakeFile, MayRun
  <2>2. registered'[c] = NoListeners
    BY <2>1 DEF FileInv, TableInv
  <2>3. rule'[c] = 1 /\ node'[c] = 1 /\ listener'[c] = 1
    BY <2>1 DEF TypeOK
  <2>4. TableExact(c)'
    BY <2>2, <2>3, ExactEmpty, RankFacts DEF TableExact
  <2>5. \A d \in Checkers : d # c => TableExact(d)'
    BY <2>1, TableExactUnchanged DEF TypeOK, TablesExact
  <2>6. QED
    BY <2>4, <2>5 DEF TablesExact
<1>3. ASSUME NEW c \in Checkers, WorkerExit(c) PROVE TablesExact'
  <2>1. /\ wpc' = [wpc EXCEPT ![c] = "exited"]
        /\ UNCHANGED <<rule, node, listener, registered>>
    BY <1>3 DEF WorkerExit
  <2>2. TableExact(c)'
    BY <2>1 DEF TableExact, TypeOK
  <2>3. \A d \in Checkers : d # c => TableExact(d)'
    BY <2>1, TableExactUnchanged DEF TypeOK, TablesExact
  <2>4. QED
    BY <2>2, <2>3 DEF TablesExact
<1>4. ASSUME NEW c \in Checkers, RunRule(c) PROVE TablesExact'
  <2> DEFINE r == RuleList[rule[c]]
             l == [rule |-> r, file |-> file[c]]
             n == rule[c] + 1
  <2>1. /\ wpc[c] = "lint" /\ rule[c] <= Len(RuleList)
        /\ registered' = [registered EXCEPT ![c] = Register(registered[c], r, file[c])]
        /\ rule' = [rule EXCEPT ![c] = rule[c] + 1]
        /\ UNCHANGED <<wpc, node, listener>>
    BY <1>4 DEF RunRule
  <2>2. rule[c] \in 1 .. Len(RuleList) /\ Len(RuleList) \in Nat /\ file[c] \in Files
    BY <2>1, RankFacts DEF TypeOK
  <2>3. l \in Listener /\ l.rule = RuleList[rule[c]]
    BY <2>2, ConstantFacts DEF Listener
  <2>4. rule'[c] = rule[c] + 1
    BY <2>1 DEF TypeOK
  <2>5. ASSUME NEW k \in Kinds PROVE ExactFor(registered'[c][k], k, n)
    <3>1. registered'[c][k] =
            IF k \in Listens[r] THEN Append(registered[c][k], l) ELSE registered[c][k]
      BY <2>1 DEF TypeOK, Register
    <3>2. registered[c][k] \in Seq(Listener) /\ ExactFor(registered[c][k], k, rule[c])
      BY <2>1 DEF TypeOK, TablesExact, TableExact
    <3>3. PICK s \in Seq(Listener) : s = registered[c][k]
      BY <3>2
    <3>4. PICK i \in 1 .. Len(RuleList) : i = rule[c]
      BY <2>2
    <3>5. PICK g \in Listener : g = l
      BY <2>3
    <3>6. ExactFor(s, k, i) /\ g.rule = RuleList[i] /\ g.rule = r
      BY <2>3, <3>2, <3>3, <3>4, <3>5
    <3>7. /\ k \in Listens[g.rule] => ExactFor(Append(s, g), k, i + 1)
          /\ k \notin Listens[g.rule] => ExactFor(s, k, i + 1)
      BY <3>6, ExactAppend
    <3>8. QED
      BY <3>1, <3>3, <3>4, <3>5, <3>6, <3>7
  <2>6. TableExact(c)'
    <3>1. n <= Len(RuleList) + 1 /\ (n <= Len(RuleList) => node[c] = 1 /\ listener[c] = 1)
      BY <2>1, <2>2 DEF TablesExact, TableExact
    <3>2. QED
      BY <2>1, <2>4, <2>5, <3>1 DEF TableExact
  <2>7. \A d \in Checkers : d # c => TableExact(d)'
    BY <2>1, TableExactUnchanged DEF TypeOK, TablesExact
  <2>8. QED
    BY <2>6, <2>7 DEF TablesExact
<1>5. ASSUME NEW c \in Checkers, CallListener(c) \/ NextNode(c) PROVE TablesExact'
  <2>1. /\ Walking(c) /\ UNCHANGED <<wpc, rule, registered>>
        /\ \A d \in Checkers : d # c => node'[d] = node[d] /\ listener'[d] = listener[d]
    BY <1>5 DEF CallListener, NextNode, TypeOK
  <2>2. rule[c] \in Nat /\ ~ (rule[c] <= Len(RuleList))
    BY <2>1, RankFacts DEF Walking, TypeOK
  <2>3. TableExact(c)'
    BY <2>1, <2>2 DEF TablesExact, TableExact
  <2>4. \A d \in Checkers : d # c => TableExact(d)'
    BY <2>1, TableExactUnchanged DEF TablesExact
  <2>5. QED
    BY <2>3, <2>4 DEF TablesExact
<1>6. ASSUME NEW c \in Checkers, FinishFile(c) PROVE TablesExact'
  <2>1. /\ wpc' = [wpc EXCEPT ![c] = "recv"] /\ UNCHANGED <<rule, node, listener>>
        /\ \A d \in Checkers : d # c => registered'[d] = registered[d]
    BY <1>6 DEF FinishFile, TypeOK
  <2>2. TableExact(c)'
    BY <2>1 DEF TableExact, TypeOK
  <2>3. \A d \in Checkers : d # c => TableExact(d)'
    BY <2>1, TableExactUnchanged DEF TypeOK, TablesExact
  <2>4. QED
    BY <2>2, <2>3 DEF TablesExact
<1>7. CASE UNCHANGED workerVars
  BY <1>7, TablesExactUnchanged
<1>8. QED
  BY <1>1, <1>2, <1>3, <1>4, <1>5, <1>6, <1>7
  DEF Next, MainStep, WorkerStep, ReporterStep, StartReporter, FillQueue, CloseQueue,
      CloseChan, PrintSummary, PrintDiagnostic, FlushWriter, ReporterDone, vars

-----------------------------------------------------------------------------
(* No diagnostic is lost, none is made up, and each file's are in order. *)

\* Worker c is past rule r's turn at place p of its file.
Passed(c, p, r) ==
  \/ p = 0 /\ RankOf(r) < rule[c]
  \/ /\ p # 0 /\ Walking(c)
     /\ \/ p < node[c]
        \/ /\ p = node[c]
           /\ \E j \in 1 .. (listener[c] - 1) : Here(c)[j].rule = r

\* A worker has received the file.
Received(f) == \E i \in 1 .. (filled - Len(queue)) : files[i] = f

\* The turn of diagnostic d has come: its file has been received, and whoever
\* is still linting it is past d's rule at d's place.
Due(d) ==
  /\ Received(d.file)
  /\ \A c \in Checkers : file[c] = d.file => Passed(c, d.at[2], d.rule)

\* What has been reported is exactly what is expected so far.
OutputInv ==
  /\ \A i \in DOMAIN Reported : Reported[i] \in Expected /\ Due(Reported[i])
  /\ \A d \in Expected : Due(d) => d \in Range(Reported)

\* d comes before e in the order of a file.
Before(d, e) ==
  \/ d.at[2] < e.at[2]
  \/ d.at[2] = e.at[2] /\ RankOf(d.rule) < RankOf(e.rule)

OrderInv ==
  \A i, j \in DOMAIN Reported :
    i < j /\ Reported[i].file = Reported[j].file => Before(Reported[i], Reported[j])

\* What the main goroutine and the reporter know of each other.
EndInv ==
  /\ Range(files) = Files
  /\ QueueClosed => filled = Len(files)
  /\ errorsCount = Len(stdout) + Len(buffer)
  /\ rpc \in {"flushed", "exited"} =>
       ChanClosed /\ diagnosticsChan = << >> /\ buffer = << >>
  /\ summary # NoSummary <=> mainPc = "exit"
  /\ mainPc = "exit" => rpc = "exited" /\ summary = errorsCount

\* The inductive invariant of the output.
LintInv ==
  /\ TypeOK /\ CloseInv /\ QueueInv /\ FileInv
  /\ TablesExact /\ OutputInv /\ OrderInv /\ EndInv

LEMMA OutputInvInit == Init => OutputInv /\ OrderInv
<1> SUFFICES ASSUME Init PROVE OutputInv /\ OrderInv
  OBVIOUS
<1>1. Reported = << >>
  BY DEF Init, Reported
<1>2. \A f : ~ Received(f)
  BY DEF Init, Received
<1>3. QED
  BY <1>1, <1>2 DEF OutputInv, OrderInv, Due

LEMMA ReceivedKept ==
  ASSUME UNCHANGED files, filled' - Len(queue') = filled - Len(queue), NEW f
  PROVE  Received(f)' <=> Received(f)
BY DEF Received

\* Whether worker c is past a place depends on c's own variables only.
LEMMA PassedKept ==
  ASSUME NEW c \in Checkers, NEW p, NEW r,
         wpc'[c] = wpc[c], file'[c] = file[c], rule'[c] = rule[c],
         node'[c] = node[c], listener'[c] = listener[c],
         registered'[c] = registered[c]
  PROVE  Passed(c, p, r)' <=> Passed(c, p, r)
BY DEF Passed, Walking, Here

\* Steps that report nothing and move no worker.
LEMMA OutputKept ==
  ASSUME OutputInv, OrderInv, UNCHANGED <<files, workerVars, Reported>>,
         filled' - Len(queue') = filled - Len(queue)
  PROVE  OutputInv' /\ OrderInv'
<1>1. \A d : Due(d)' <=> Due(d)
  BY DEF Due, Received, Passed, Walking, Here, workerVars
<1>2. QED
  BY <1>1 DEF OutputInv, OrderInv

\* Steps that report nothing and change nothing that is due.
LEMMA OutputSame ==
  ASSUME OutputInv, OrderInv, Reported' = Reported,
         \A d \in Expected : Due(d)' <=> Due(d)
  PROVE  OutputInv' /\ OrderInv'
BY DEF OutputInv, OrderInv

\* Of a file that a worker holds, due is what that worker is past.
LEMMA DueIfHeld ==
  ASSUME TypeOK, QueueInv, NEW c \in Checkers, NEW d, file[c] \in Files,
         d.file = file[c]
  PROVE  Due(d) <=> Passed(c, d.at[2], d.rule)
<1>1. Received(d.file)
  BY FilesAssumption DEF QueueInv, Received
<1>2. \A e \in Checkers : file[e] = d.file => e = c
  BY FilesAssumption DEF QueueInv
<1>3. QED
  BY <1>1, <1>2 DEF Due

LEMMA DueIfHeldNext ==
  ASSUME TypeOK', QueueInv', NEW c \in Checkers, NEW d, file'[c] \in Files,
         d.file = file'[c]
  PROVE  Due(d)' <=> Passed(c, d.at[2], d.rule)'
<1>1. Received(d.file)'
  BY FilesAssumption DEF QueueInv, Received
<1>2. \A e \in Checkers : file'[e] = d.file => e = c
  BY FilesAssumption DEF QueueInv
<1>3. QED
  BY <1>1, <1>2 DEF Due

\* A step of worker c alone says nothing of files it does not hold.
LEMMA DueElsewhere ==
  ASSUME NEW c \in Checkers, NEW d, UNCHANGED <<files, filled, queue, file>>,
         file[c] # d.file,
         \A e \in Checkers : e # c =>
           /\ wpc'[e] = wpc[e] /\ rule'[e] = rule[e] /\ node'[e] = node[e]
           /\ listener'[e] = listener[e] /\ registered'[e] = registered[e]
  PROVE  Due(d)' <=> Due(d)
<1>1. Received(d.file)' <=> Received(d.file)
  BY DEF Received
<1>2. \A e \in Checkers : file[e] = d.file =>
        (Passed(e, d.at[2], d.rule)' <=> Passed(e, d.at[2], d.rule))
  BY PassedKept
<1>3. QED
  BY <1>1, <1>2 DEF Due

\* The report of a rule at a place it sees goes out if and only if it is expected.
LEMMA ReportExpected ==
  ASSUME TypeOK, NEW r \in Rules, NEW f \in Files, NEW p \in Nat,
         Sees(r, f, p), Report(r, f, f, p), UNCHANGED <<buffer, stdout>>
  PROVE  /\ DiagnosticOf(r, f, p) \in Diagnostic
         /\ DiagnosticOf(r, f, p) \in Expected =>
              Reported' = Append(Reported, DiagnosticOf(r, f, p))
         /\ DiagnosticOf(r, f, p) \notin Expected => Reported' = Reported
<1> DEFINE d == DiagnosticOf(r, f, p)
<1>1. d \in Diagnostic
  BY DEF DiagnosticOf, Diagnostic
<1>2. d \in Expected <=> <<f, p, r>> \in Finds
  BY ExpectedIff
<1>3. CASE <<f, p, r>> \in Finds
  <2>1. diagnosticsChan' = Append(diagnosticsChan, d)
    BY <1>3 DEF Report, Send, DiagnosticOf
  <2>2. Reported' = Append(Reported, d)
    BY <1>1, <2>1, ReportedSent
  <2>3. QED
    BY <1>1, <1>2, <1>3, <2>2
<1>4. CASE <<f, p, r>> \notin Finds
  <2>1. diagnosticsChan' = diagnosticsChan
    BY <1>4 DEF Report
  <2>2. Reported' = Reported
    BY <2>1 DEF Reported
  <2>3. QED
    BY <1>1, <1>2, <1>4, <2>2
<1>5. QED
  BY <1>3, <1>4

\* One diagnostic becomes due; if it is expected it is reported, after all those
\* of its file that come before it.
LEMMA OutputGrows ==
  ASSUME TypeOK, OutputInv, OrderInv, NEW e \in Diagnostic,
         \A d \in Expected : Due(d)' <=> Due(d) \/ d = e,
         \A d \in Expected : Due(d) /\ d.file = e.file => Before(d, e),
         e \in Expected => Reported' = Append(Reported, e),
         e \notin Expected => Reported' = Reported
  PROVE  OutputInv' /\ OrderInv'
<1>1. CASE e \notin Expected
  BY <1>1, OutputSame
<1>2. CASE e \in Expected
  <2> DEFINE s == Reported
             t == Append(s, e)
  <2>1. s \in Seq(Diagnostic) /\ DOMAIN s = 1 .. Len(s) /\ Len(s) \in Nat
    BY ReportedType
  <2>2. /\ DOMAIN t = 1 .. Len(t) /\ Len(t) = Len(s) + 1 /\ t[Len(t)] = e
        /\ \A i \in 1 .. Len(s) : t[i] = s[i]
    BY <2>1
  <2>3. \A i \in DOMAIN t : i \in 1 .. Len(s) \/ i = Len(t)
    BY <2>1, <2>2
  <2>4. Reported' = t
    BY <1>2
  <2>5. /\ \A i \in DOMAIN s : s[i] \in Expected /\ Due(s[i])
        /\ \A d \in Expected : Due(d) => \E i \in DOMAIN s : d = s[i]
    BY DEF OutputInv, Range
  <2>6. \A i, j \in DOMAIN s : i < j /\ s[i].file = s[j].file => Before(s[i], s[j])
    BY DEF OrderInv
  <2> HIDE DEF s, t
  <2>7. ASSUME NEW i \in DOMAIN t, NEW d, d = t[i] PROVE d \in Expected /\ Due(d)'
    <3>1. d \in Expected /\ (Due(d) \/ d = e)
      BY <1>2, <2>1, <2>2, <2>3, <2>5, <2>7
    <3>2. QED
      BY <3>1
  <2>8. ASSUME NEW d \in Expected, Due(d)' PROVE \E i \in DOMAIN t : t[i] = d
    <3>1. CASE d = e
      BY <2>1, <2>2, <3>1
    <3>2. CASE Due(d)
      <4>1. PICK i \in DOMAIN s : d = s[i]
        BY <2>5, <3>2
      <4>2. i \in DOMAIN t /\ t[i] = d
        BY <2>1, <2>2, <4>1
      <4>3. QED
        BY <4>2
    <3>3. QED
      BY <2>8, <3>1, <3>2
  <2>9. ASSUME NEW i \in DOMAIN t, NEW j \in DOMAIN t, i < j, t[i].file = t[j].file
        PROVE  Before(t[i], t[j])
    <3>1. i \in DOMAIN s /\ t[i] = s[i]
      BY <2>1, <2>2, <2>3, <2>9
    <3>2. CASE j \in 1 .. Len(s)
      BY <2>1, <2>2, <2>6, <2>9, <3>1, <3>2
    <3>3. CASE j = Len(t)
      BY <2>2, <2>5, <2>9, <3>1, <3>3
    <3>4. QED
      BY <2>3, <3>2, <3>3
  <2>10. OutputInv'
    BY <2>4, <2>7, <2>8 DEF OutputInv, Range, Due
  <2>11. OrderInv'
    BY <2>4, <2>9 DEF OrderInv, Before
  <2>12. QED
    BY <2>10, <2>11
<1>3. QED
  BY <1>1, <1>2

\* A worker that lints a file is the one that holds it.
LEMMA TakeFileDue ==
  ASSUME TypeOK, QueueInv, TypeOK', QueueInv', NEW c \in Checkers, TakeFile(c),
         NEW d \in Expected
  PROVE  Due(d)' <=> Due(d)
<1> DEFINE f == Head(queue)
<1>1. /\ queue # << >> /\ f \in Files /\ queue' = Tail(queue) /\ files' = files
      /\ filled' = filled /\ file' = [file EXCEPT ![c] = f]
      /\ rule' = [rule EXCEPT ![c] = 1] /\ node' = [node EXCEPT ![c] = 1]
      /\ listener' = [listener EXCEPT ![c] = 1]
      /\ wpc' = [wpc EXCEPT ![c] = "lint"] /\ registered' = registered
      /\ file[c] \notin Files
  BY DEF TakeFile, Receive, MayRun, TypeOK, mainVars
<1>2. /\ filled \in Nat /\ Len(queue) \in Nat /\ Len(files) \in Nat
      /\ Len(queue') = Len(queue) - 1 /\ f = queue[1] /\ 1 \in 1 .. Len(queue)
      /\ filled <= Len(files) /\ Len(queue) <= filled
  <2>1. Len(files) \in Nat /\ filled \in 0 .. Len(files) /\ Len(queue) <= filled
    BY DEF TypeOK, QueueInv
  <2>2. queue \in Seq(Files)
    BY DEF TypeOK
  <2>3. Len(queue) \in Nat \ {0} /\ Len(queue') = Len(queue) - 1 /\ f = queue[1]
    BY <1>1, <2>2, HeadTailProperties
  <2>4. QED
    BY <2>1, <2>3
<1>3. PICK n \in Nat : n = filled - Len(queue) + 1
  BY <1>2
<1>4. filled' - Len(queue') = n /\ filled - Len(queue) = n - 1 /\ n \in 1 .. Len(files)
  BY <1>1, <1>2, <1>3
<1>5. f = files[n]
  BY <1>2, <1>3 DEF QueueInv
<1>6. ~ Received(f)
  <2>1. DOMAIN files = 1 .. Len(files) /\ IsInjective(files)
    BY DEF TypeOK, QueueInv
  <2>2. ASSUME NEW i \in 1 .. (n - 1) PROVE files[i] # f
    BY <1>2, <1>4, <1>5, <2>1 DEF IsInjective
  <2>3. QED
    BY <1>4, <2>2 DEF Received
<1>7. CASE d.file = f
  <2>1. ~ Due(d)
    BY <1>6, <1>7 DEF Due
  <2>2. /\ file'[c] = f /\ rule'[c] = 1 /\ node'[c] = 1 /\ listener'[c] = 1
    BY <1>1 DEF TypeOK
  <2>3. d.at[2] \in Nat /\ RankOf(d.rule) \in Nat \ {0}
    <3>1. d.at[2] \in Nat /\ d.rule \in Rules
      BY ExpectedParts
    <3>2. QED
      BY <3>1, RankFacts
  <2>4. ~ Passed(c, d.at[2], d.rule)'
    BY <2>2, <2>3 DEF Passed
  <2>5. QED
    BY <1>1, <1>7, <2>1, <2>2, <2>4, DueIfHeldNext
<1>8. CASE d.file # f
  <2>1. Received(d.file)' <=> Received(d.file)
    <3>1. \A i \in 1 .. n : i \in 1 .. (n - 1) \/ i = n
      OBVIOUS
    <3>2. \A i \in 1 .. (n - 1) : i \in 1 .. n
      OBVIOUS
    <3>3. Received(d.file) <=> \E i \in 1 .. (n - 1) : files[i] = d.file
      BY <1>4 DEF Received
    <3>4. Received(d.file)' <=> \E i \in 1 .. n : files[i] = d.file
      BY <1>1, <1>4 DEF Received
    <3>5. QED
      BY <1>5, <1>8, <3>1, <3>2, <3>3, <3>4
  <2>2. d.file \in Files /\ file'[c] # d.file /\ file[c] # d.file
    BY <1>1, <1>8, ExpectedParts DEF TypeOK
  <2>3. \A e \in Checkers : e # c =>
          /\ file'[e] = file[e]
          /\ (Passed(e, d.at[2], d.rule)' <=> Passed(e, d.at[2], d.rule))
    BY <1>1, PassedKept DEF TypeOK
  <2>4. QED
    BY <2>1, <2>2, <2>3 DEF Due
<1>9. QED
  BY <1>7, <1>8

\* When a worker is done with a file, all that is expected of it is due.
LEMMA FinishFileDue ==
  ASSUME TypeOK, QueueInv, TablesExact, NEW c \in Checkers, FinishFile(c),
         NEW d \in Expected
  PROVE  Due(d)' <=> Due(d)
<1>1. /\ file' = [file EXCEPT ![c] = NoFile] /\ wpc' = [wpc EXCEPT ![c] = "recv"]
      /\ UNCHANGED <<files, filled, queue, rule, node, listener>>
      /\ \A e \in Checkers : e # c => registered'[e] = registered[e]
      /\ Walking(c) /\ node[c] > Len(Nodes[file[c]])
  BY DEF FinishFile, TypeOK, mainVars
<1>2. Received(d.file)' <=> Received(d.file)
  BY <1>1 DEF Received
<1>3. \A e \in Checkers : e # c =>
        /\ file'[e] = file[e]
        /\ (Passed(e, d.at[2], d.rule)' <=> Passed(e, d.at[2], d.rule))
  BY <1>1, PassedKept DEF TypeOK
<1>4. d.file \in Files /\ file'[c] # d.file
  BY <1>1, ExpectedParts, FilesAssumption DEF TypeOK
<1>5. ASSUME file[c] = d.file PROVE Passed(c, d.at[2], d.rule)
  <2>1. /\ d.at[2] \in Nat /\ RankOf(d.rule) \in 1 .. Len(RuleList)
        /\ Len(RuleList) \in Nat /\ rule[c] \in Nat /\ node[c] \in Nat
    BY ExpectedParts, RankFacts DEF TypeOK
  <2>2. CASE d.at[2] = 0
    BY <1>1, <2>1, <2>2 DEF Passed, Walking
  <2>3. CASE d.at[2] # 0
    <3>1. d.at[2] \in DOMAIN Nodes[d.file] /\ Nodes[d.file] \in Seq(Kinds)
      BY <2>3, ExpectedParts, ConstantFacts DEF Sees
    <3>2. d.at[2] < node[c]
      BY <1>1, <1>5, <2>1, <3>1
    <3>3. QED
      BY <1>1, <2>3, <3>2 DEF Passed
  <2>4. QED
    BY <2>2, <2>3
<1>6. QED
  BY <1>2, <1>3, <1>4, <1>5 DEF Due

\* The listeners of the node a worker is at.
LEMMA HereExact ==
  ASSUME TypeOK, TablesExact, NEW c \in Checkers, Walking(c),
         node[c] <= Len(Nodes[file[c]])
  PROVE  /\ file[c] \in Files /\ node[c] \in DOMAIN Nodes[file[c]]
         /\ Nodes[file[c]][node[c]] \in Kinds
         /\ Here(c) = registered[c][Nodes[file[c]][node[c]]]
         /\ Here(c) \in Seq(Listener)
         /\ ExactFor(Here(c), Nodes[file[c]][node[c]], rule[c])
<1>1. file[c] \in Files /\ wpc[c] = "lint"
  BY DEF TypeOK, Walking
<1>2. Nodes[file[c]] \in Seq(Kinds) /\ node[c] \in 1 .. Len(Nodes[file[c]])
  BY <1>1, ConstantFacts DEF TypeOK
<1>3. Nodes[file[c]][node[c]] \in Kinds /\ node[c] \in DOMAIN Nodes[file[c]]
  BY <1>2
<1>4. QED
  BY <1>1, <1>3, HereType DEF Here, TablesExact, TableExact

\* Going to the next node, a worker has called every listener of the last.
LEMMA NextNodeDue ==
  ASSUME TypeOK, QueueInv, TypeOK', QueueInv', TablesExact, NEW c \in Checkers,
         NextNode(c), NEW d \in Expected
  PROVE  Due(d)' <=> Due(d)
<1>1. /\ Walking(c) /\ node[c] <= Len(Nodes[file[c]]) /\ listener[c] > Len(Here(c))
      /\ node' = [node EXCEPT ![c] = node[c] + 1]
      /\ listener' = [listener EXCEPT ![c] = 1]
      /\ UNCHANGED <<files, filled, queue, wpc, file, rule, registered>>
  BY DEF NextNode, mainVars
<1>2. file[c] \in Files
  BY <1>1, HereExact
<1>3. CASE d.file # file[c]
  BY <1>1, <1>3, DueElsewhere DEF TypeOK
<1>4. CASE d.file = file[c]
  <2>1. (Due(d) <=> Passed(c, d.at[2], d.rule)) /\ (Due(d)' <=> Passed(c, d.at[2], d.rule)')
    BY <1>1, <1>2, <1>4, DueIfHeld, DueIfHeldNext
  <2>2. /\ node'[c] = node[c] + 1 /\ listener'[c] = 1 /\ rule'[c] = rule[c]
        /\ node[c] \in Nat \ {0} /\ d.at[2] \in Nat /\ rule[c] > Len(RuleList)
        /\ (Walking(c)' <=> Walking(c))
    BY <1>1, ExpectedParts DEF TypeOK, Walking
  <2>3. CASE d.at[2] = 0
    BY <2>1, <2>2, <2>3 DEF Passed
  <2>4. CASE d.at[2] # 0 /\ d.at[2] # node[c]
    BY <1>1, <2>1, <2>2, <2>4 DEF Passed
  <2>5. CASE d.at[2] = node[c]
    <3>1. Passed(c, d.at[2], d.rule)'
      BY <1>1, <2>2, <2>5 DEF Passed
    <3>2. Nodes[file[c]][node[c]] \in Listens[d.rule] /\ d.rule \in Rules
      BY <1>4, <2>2, <2>5, ExpectedParts DEF Sees
    <3>3. RankOf(d.rule) < rule[c]
      <4>1. RankOf(d.rule) \in 1 .. Len(RuleList) /\ Len(RuleList) \in Nat
        BY <3>2, RankFacts
      <4>2. rule[c] \in Nat
        BY DEF TypeOK
      <4>3. QED
        BY <2>2, <4>1, <4>2
    <3>4. PICK j \in 1 .. Len(Here(c)) : Here(c)[j].rule = d.rule
      BY <1>1, <3>2, <3>3, HereExact DEF ExactFor
    <3>5. j \in 1 .. (listener[c] - 1)
      <4>1. Len(Here(c)) \in Nat /\ listener[c] \in Nat
        BY <1>1, HereExact DEF TypeOK
      <4>2. QED
        BY <1>1, <4>1
    <3>6. Passed(c, d.at[2], d.rule)
      BY <1>1, <2>2, <2>5, <3>4, <3>5 DEF Passed
    <3>7. QED
      BY <2>1, <3>1, <3>6
  <2>6. QED
    BY <2>3, <2>4, <2>5
<1>5. QED
  BY <1>3, <1>4

LEMMA RunRuleOutput ==
  ASSUME TypeOK, QueueInv, TypeOK', QueueInv', TablesExact, OutputInv, OrderInv,
         NEW c \in Checkers, RunRule(c)
  PROVE  OutputInv' /\ OrderInv'
<1>1. /\ wpc[c] = "lint" /\ rule[c] <= Len(RuleList)
      /\ Report(RuleList[rule[c]], file[c], file[c], 0)
      /\ rule' = [rule EXCEPT ![c] = rule[c] + 1]
      /\ \A d \in Checkers : d # c => registered'[d] = registered[d]
      /\ UNCHANGED <<files, filled, queue, wpc, file, node, listener, buffer, stdout>>
  BY DEF RunRule, TypeOK, mainVars, reporterVars
<1>2. PICK f \in Files : f = file[c]
  BY <1>1 DEF TypeOK
<1>3. rule[c] \in 1 .. Len(RuleList) /\ rule[c] \in Nat
  <2>1. rule[c] \in Nat \ {0}
    BY DEF TypeOK
  <2>2. QED
    BY <1>1, <2>1, RankFacts
<1>4. PICK r \in Rules : r = RuleList[rule[c]] /\ RankOf(r) = rule[c]
  BY <1>3, RankFacts
<1>5. node[c] = 1 /\ listener[c] = 1 /\ ~ Walking(c) /\ rule'[c] = rule[c] + 1
  BY <1>1, RankFacts DEF TablesExact, TableExact, Walking, TypeOK
<1> DEFINE e == DiagnosticOf(r, f, 0)
<1>6. /\ e \in Diagnostic
      /\ e \in Expected => Reported' = Append(Reported, e)
      /\ e \notin Expected => Reported' = Reported
  <2>1. Report(r, f, f, 0) /\ UNCHANGED <<buffer, stdout>> /\ Sees(r, f, 0)
    BY <1>1, <1>2, <1>4 DEF Sees
  <2>2. QED
    BY <2>1, ReportExpected
<1>7. e.rule = r /\ e.file = f /\ e.at[2] = 0
  BY DEF DiagnosticOf
<1>8. ASSUME NEW d \in Expected, d.file = f
      PROVE  /\ Due(d) <=> d.at[2] = 0 /\ RankOf(d.rule) < rule[c]
             /\ Due(d)' <=> d.at[2] = 0 /\ RankOf(d.rule) < rule[c] + 1
  <2>1. (Due(d) <=> Passed(c, d.at[2], d.rule)) /\ (Due(d)' <=> Passed(c, d.at[2], d.rule)')
    BY <1>1, <1>2, <1>8, DueIfHeld, DueIfHeldNext
  <2>2. d.at[2] \in Nat
    BY ExpectedParts
  <2>3. Passed(c, d.at[2], d.rule) <=> d.at[2] = 0 /\ RankOf(d.rule) < rule[c]
    BY <1>5 DEF Passed
  <2>4. Passed(c, d.at[2], d.rule)' <=> d.at[2] = 0 /\ RankOf(d.rule) < rule[c] + 1
    BY <1>1, <1>5, <2>2 DEF Passed
  <2>5. QED
    BY <2>1, <2>3, <2>4
<1>9. ASSUME NEW d \in Expected PROVE Due(d)' <=> Due(d) \/ d = e
  <2>1. CASE d.file # f
    BY <1>1, <1>2, <1>5, <1>7, <2>1, DueElsewhere DEF TypeOK
  <2>2. CASE d.file = f
    <3>1. d.rule \in Rules /\ d = DiagnosticOf(d.rule, d.file, d.at[2])
      BY ExpectedParts
    <3>2. RankOf(d.rule) \in Nat
      BY <3>1, RankFacts
    <3>3. RankOf(d.rule) < rule[c] + 1 <=> RankOf(d.rule) < rule[c] \/ d.rule = r
      BY <1>3, <1>4, <3>1, <3>2, RankFacts
    <3>4. d.at[2] = 0 /\ d.rule = r <=> d = e
      BY <1>7, <2>2, <3>1
    <3>5. QED
      <4>1. d = e => RankOf(d.rule) < rule[c] + 1 /\ d.at[2] = 0
        BY <3>3, <3>4
      <4>2. QED
        BY <1>8, <2>2, <3>3, <3>4, <4>1
  <2>3. QED
    BY <2>1, <2>2
<1>10. ASSUME NEW d \in Expected, Due(d), d.file = e.file PROVE Before(d, e)
  BY <1>4, <1>7, <1>8, <1>10 DEF Before
<1>11. QED
  <2> HIDE DEF e
  <2>1. QED
    BY <1>6, <1>9, <1>10, OutputGrows

LEMMA CallListenerOutput ==
  ASSUME TypeOK, QueueInv, TypeOK', QueueInv', FileInv, TablesExact, OutputInv,
         OrderInv, NEW c \in Checkers, CallListener(c)
  PROVE  OutputInv' /\ OrderInv'
<1>1. /\ Walking(c) /\ node[c] <= Len(Nodes[file[c]]) /\ listener[c] <= Len(Here(c))
      /\ Report(Here(c)[listener[c]].rule, Here(c)[listener[c]].file, file[c], node[c])
      /\ listener' = [listener EXCEPT ![c] = listener[c] + 1]
      /\ UNCHANGED <<files, filled, queue, wpc, file, rule, node, registered, buffer,
                     stdout>>
  BY DEF CallListener, mainVars, reporterVars
<1>2. PICK f \in Files : f = file[c]
  BY <1>1, HereExact
<1>3. PICK h \in Seq(Listener) : h = Here(c)
  BY <1>1, HereExact
<1>4. PICK k \in Kinds : k = Nodes[f][node[c]]
  BY <1>1, <1>2, HereExact
<1>5. PICK n \in Nat \ {0} : n = node[c]
  BY DEF TypeOK
<1>6. PICK j \in 1 .. Len(h) : j = listener[c]
  BY <1>1, <1>3 DEF TypeOK
<1>7. /\ n \in DOMAIN Nodes[f] /\ ExactFor(h, k, rule[c])
      /\ registered[c][k] = h
  BY <1>1, <1>2, <1>3, <1>4, <1>5, HereExact
<1>8. PICK r \in Rules : r = h[j].rule /\ k \in Listens[r] /\ h[j].file = f
  <2>1. h[j] \in Listener
    OBVIOUS
  <2>2. h[j].rule \in Rules
    BY <2>1 DEF Listener
  <2>3. h[j].file = f
    BY <1>2, <1>7 DEF FileInv, TableInv
  <2>4. k \in Listens[h[j].rule]
    BY <1>7 DEF ExactFor
  <2>5. QED
    BY <2>2, <2>3, <2>4
<1> DEFINE e == DiagnosticOf(r, f, n)
<1>9. /\ e \in Diagnostic
      /\ e \in Expected => Reported' = Append(Reported, e)
      /\ e \notin Expected => Reported' = Reported
  <2>1. Report(r, f, f, n) /\ UNCHANGED <<buffer, stdout>>
    BY <1>1, <1>2, <1>3, <1>5, <1>6, <1>8
  <2>2. Sees(r, f, n)
    BY <1>4, <1>5, <1>7, <1>8 DEF Sees
  <2>3. QED
    BY <2>1, <2>2, ReportExpected
<1>10. e.rule = r /\ e.file = f /\ e.at[2] = n
  BY DEF DiagnosticOf
<1>11. ASSUME NEW d \in Expected, d.file = f
       PROVE  /\ Due(d) <=> Passed(c, d.at[2], d.rule)
              /\ Due(d)' <=> Passed(c, d.at[2], d.rule) \/ (d.at[2] = n /\ d.rule = r)
  <2>1. (Due(d) <=> Passed(c, d.at[2], d.rule)) /\ (Due(d)' <=> Passed(c, d.at[2], d.rule)')
    BY <1>1, <1>2, <1>11, DueIfHeld, DueIfHeldNext
  <2>2. Here(c)' = h /\ (Walking(c)' <=> Walking(c)) /\ Walking(c)
    BY <1>1, <1>3 DEF Here, Walking
  <2>3. listener'[c] - 1 = j /\ listener[c] - 1 = j - 1 /\ node'[c] = n /\ node[c] = n
    BY <1>1, <1>5, <1>6 DEF TypeOK
  <2>4. (\E i \in 1 .. j : h[i].rule = d.rule) <=>
          (\E i \in 1 .. (j - 1) : h[i].rule = d.rule) \/ d.rule = r
    <3>1. \A i \in 1 .. j : i \in 1 .. (j - 1) \/ i = j
      OBVIOUS
    <3>2. j \in 1 .. j /\ \A i \in 1 .. (j - 1) : i \in 1 .. j
      OBVIOUS
    <3>3. QED
      BY <1>8, <3>1, <3>2
  <2>5. Passed(c, d.at[2], d.rule) <=>
          \/ d.at[2] = 0 /\ RankOf(d.rule) < rule[c]
          \/ /\ d.at[2] # 0
             /\ \/ d.at[2] < n
                \/ d.at[2] = n /\ \E i \in 1 .. (j - 1) : h[i].rule = d.rule
    BY <1>3, <2>2, <2>3 DEF Passed
  <2>6. Passed(c, d.at[2], d.rule)' <=>
          \/ d.at[2] = 0 /\ RankOf(d.rule) < rule[c]
          \/ /\ d.at[2] # 0
             /\ \/ d.at[2] < n
                \/ d.at[2] = n /\ \E i \in 1 .. j : h[i].rule = d.rule
    BY <1>1, <2>2, <2>3 DEF Passed
  <2>7. QED
    BY <2>1, <2>4, <2>5, <2>6
<1>12. ASSUME NEW d \in Expected PROVE Due(d)' <=> Due(d) \/ d = e
  <2>1. CASE d.file # f
    BY <1>1, <1>2, <1>10, <2>1, DueElsewhere DEF TypeOK
  <2>2. CASE d.file = f
    <3>1. d = DiagnosticOf(d.rule, d.file, d.at[2])
      BY ExpectedParts
    <3>2. d.at[2] = n /\ d.rule = r <=> d = e
      BY <1>10, <2>2, <3>1
    <3>3. QED
      BY <1>11, <2>2, <3>2
  <2>3. QED
    BY <2>1, <2>2
<1>13. ASSUME NEW d \in Expected, Due(d), d.file = e.file PROVE Before(d, e)
  <2>1. Passed(c, d.at[2], d.rule) /\ d.at[2] \in Nat
    BY <1>10, <1>11, <1>13, ExpectedParts
  <2>2. CASE d.at[2] < n
    BY <1>10, <2>2 DEF Before
  <2>3. CASE ~ (d.at[2] < n)
    <3>1. d.at[2] = n /\ \E i \in 1 .. (listener[c] - 1) : Here(c)[i].rule = d.rule
      BY <1>5, <2>1, <2>3 DEF Passed
    <3>2. PICK i \in 1 .. (j - 1) : h[i].rule = d.rule
      BY <1>3, <1>6, <3>1
    <3>3. i \in 1 .. Len(h) /\ i < j
      OBVIOUS
    <3>4. RankOf(h[i].rule) < RankOf(h[j].rule)
      BY <1>7, <3>3 DEF ExactFor
    <3>5. QED
      BY <1>8, <1>10, <3>1, <3>2, <3>4 DEF Before
  <2>4. QED
    BY <2>2, <2>3
<1>14. QED
  <2> HIDE DEF e
  <2>1. QED
    BY <1>9, <1>12, <1>13, OutputGrows

LEMMA OutputNext ==
  ASSUME TypeOK, QueueInv, FileInv, TablesExact, OutputInv, OrderInv, [Next]_vars,
         TypeOK', QueueInv'
  PROVE  OutputInv' /\ OrderInv'
<1> USE DEF vars, mainVars, reporterVars
<1>1. CASE FillQueue
  <2>1. /\ UNCHANGED <<files, workerVars, Reported>> /\ filled' = filled + 1
        /\ queue' = Append(queue, files[filled + 1])
    BY <1>1 DEF FillQueue, Reported
  <2>2. filled' - Len(queue') = filled - Len(queue)
    <3>1. Len(files) \in Nat
      BY DEF TypeOK
    <3>2. queue \in Seq(Files) /\ filled \in Nat
      BY <3>1 DEF TypeOK
    <3>3. files[filled + 1] \in Files
      BY <1>1, <3>1, <3>2 DEF FillQueue, TypeOK
    <3>4. Len(queue) \in Nat /\ Len(queue') = Len(queue) + 1
      BY <2>1, <3>2, <3>3
    <3>5. QED
      BY <2>1, <3>2, <3>4
  <2>3. QED
    BY <2>1, <2>2, OutputKept
<1>2. ASSUME NEW c \in Checkers, SpawnWorker(c) \/ WorkerExit(c)
      PROVE  OutputInv' /\ OrderInv'
  <2>1. /\ file[c] \notin Files /\ Reported' = Reported
        /\ UNCHANGED <<files, filled, queue, file, rule, node, listener, registered>>
        /\ \A e \in Checkers : e # c => wpc'[e] = wpc[e]
    BY <1>2 DEF SpawnWorker, WorkerExit, MayRun, TypeOK, Reported
  <2>2. \A d \in Expected : Due(d)' <=> Due(d)
    BY <2>1, DueElsewhere, ExpectedParts
  <2>3. QED
    BY <2>1, <2>2, OutputSame
<1>3. ASSUME NEW c \in Checkers, TakeFile(c) PROVE OutputInv' /\ OrderInv'
  <2>1. Reported' = Reported
    BY <1>3 DEF TakeFile, Reported
  <2>2. QED
    BY <1>3, <2>1, TakeFileDue, OutputSame
<1>4. ASSUME NEW c \in Checkers, RunRule(c) PROVE OutputInv' /\ OrderInv'
  BY <1>4, RunRuleOutput
<1>5. ASSUME NEW c \in Checkers, CallListener(c) PROVE OutputInv' /\ OrderInv'
  BY <1>5, CallListenerOutput
<1>6. ASSUME NEW c \in Checkers, NextNode(c) PROVE OutputInv' /\ OrderInv'
  <2>1. Reported' = Reported
    BY <1>6 DEF NextNode, Reported
  <2>2. QED
    BY <1>6, <2>1, NextNodeDue, OutputSame
<1>7. ASSUME NEW c \in Checkers, FinishFile(c) PROVE OutputInv' /\ OrderInv'
  <2>1. Reported' = Reported
    BY <1>7 DEF FinishFile, Reported
  <2>2. QED
    BY <1>7, <2>1, FinishFileDue, OutputSame
<1>8. CASE PrintDiagnostic \/ FlushWriter
  <2>1. UNCHANGED <<files, filled, queue, workerVars>>
    BY <1>8 DEF PrintDiagnostic, FlushWriter
  <2>2. QED
    BY <1>8, <2>1, ReportedMoves, OutputKept
<1>9. CASE UNCHANGED <<files, filled, queue, workerVars, diagnosticsChan, buffer, stdout>>
  BY <1>9, OutputKept DEF Reported
<1>10. QED
  BY <1>1, <1>2, <1>3, <1>4, <1>5, <1>6, <1>7, <1>8, <1>9
  DEF Next, MainStep, WorkerStep, ReporterStep, StartReporter, CloseQueue,
      CloseChan, PrintSummary, ReporterDone

-----------------------------------------------------------------------------
(* The end of the run. *)

LEMMA EndInvInit == Init => EndInv
<1> SUFFICES ASSUME Init PROVE EndInv
  OBVIOUS
<1>1. Range(files) = Files
  BY DEF Init, SortedFiles
<1>2. Len(stdout) = 0 /\ Len(buffer) = 0
  BY DEF Init
<1>3. QED
  BY <1>1, <1>2 DEF Init, EndInv, QueueClosed, ChanClosed

LEMMA EndInvNext == TypeOK /\ CloseInv /\ EndInv /\ [Next]_vars => EndInv'
<1> SUFFICES ASSUME TypeOK, CloseInv, EndInv, [Next]_vars PROVE EndInv'
  OBVIOUS
<1> USE DEF EndInv, QueueClosed, ChanClosed, vars, mainVars, workerVars, reporterVars
<1>0. /\ Len(stdout) \in Nat /\ Len(buffer) \in Nat /\ stdout \in Seq(Diagnostic)
      /\ buffer \in Seq(Diagnostic)
  BY DEF TypeOK
<1>1. CASE StartReporter
  BY <1>1 DEF StartReporter
<1>2. CASE FillQueue
  BY <1>2 DEF FillQueue
<1>3. CASE CloseQueue
  BY <1>3 DEF CloseQueue
<1>4. ASSUME NEW c \in Checkers, SpawnWorker(c) PROVE EndInv'
  BY <1>4 DEF SpawnWorker
<1>5. CASE CloseChan
  BY <1>5 DEF CloseChan
<1>6. CASE PrintSummary
  <2>1. errorsCount \in Nat
    BY DEF TypeOK
  <2>2. summary' # NoSummary
    BY <1>6, <2>1, NoSummaryAssumption DEF PrintSummary
  <2>3. QED
    BY <1>6, <2>2 DEF PrintSummary
<1>7. ASSUME NEW c \in Checkers, TakeFile(c) PROVE EndInv'
  BY <1>7 DEF TakeFile
<1>8. ASSUME NEW c \in Checkers, WorkerExit(c) PROVE EndInv'
  BY <1>8 DEF WorkerExit
<1>9. ASSUME NEW c \in Checkers, RunRule(c) \/ CallListener(c) PROVE EndInv'
  <2>1. wpc[c] = "lint"
    BY <1>9 DEF RunRule, CallListener, Walking
  <2>2. rpc \notin {"flushed", "exited"}
    BY <2>1 DEF CloseInv, WorkersReturned
  <2>3. QED
    BY <1>9, <2>2 DEF RunRule, CallListener
<1>10. ASSUME NEW c \in Checkers, NextNode(c) PROVE EndInv'
  BY <1>10 DEF NextNode
<1>11. ASSUME NEW c \in Checkers, FinishFile(c) PROVE EndInv'
  BY <1>11 DEF FinishFile
<1>12. CASE PrintDiagnostic
  <2> DEFINE h == Head(diagnosticsChan)
  <2>1. h \in Diagnostic
    BY <1>12 DEF PrintDiagnostic, TypeOK
  <2>2. \/ buffer' = Append(buffer, h) /\ stdout' = stdout
        \/ buffer' = << >> /\ stdout' = stdout \o Append(buffer, h)
    BY <1>12 DEF PrintDiagnostic
  <2> HIDE DEF h
  <2>3. /\ Len(Append(buffer, h)) = Len(buffer) + 1 /\ Append(buffer, h) \in Seq(Diagnostic)
    BY <1>0, <2>1
  <2>4. Len(stdout \o Append(buffer, h)) = Len(stdout) + Len(buffer) + 1
    BY <1>0, <2>3
  <2>5. Len(stdout') + Len(buffer') = Len(stdout) + Len(buffer) + 1
    BY <1>0, <2>2, <2>3, <2>4
  <2>6. QED
    BY <1>12, <2>5 DEF PrintDiagnostic
<1>13. CASE FlushWriter
  <2>1. Len(stdout \o buffer) = Len(stdout) + Len(buffer)
    BY <1>0
  <2>2. QED
    BY <1>0, <1>13, <2>1 DEF FlushWriter
<1>14. CASE ReporterDone
  BY <1>14 DEF ReporterDone
<1>15. CASE UNCHANGED vars
  BY <1>15
<1>16. QED
  BY <1>1, <1>2, <1>3, <1>4, <1>5, <1>6, <1>7, <1>8, <1>9, <1>10, <1>11,
     <1>12, <1>13, <1>14, <1>15
  DEF Next, MainStep, WorkerStep, ReporterStep

-----------------------------------------------------------------------------
(* The theorems. *)

LEMMA LintInvInit == Init => LintInv
BY InitType, CloseInvInit, QueueInvInit, FileInvInit, TablesExactInit,
   OutputInvInit, EndInvInit DEF LintInv

LEMMA LintInvNext == LintInv /\ [Next]_vars => LintInv'
<1> SUFFICES ASSUME LintInv, [Next]_vars PROVE LintInv'
  OBVIOUS
<1>1. TypeOK /\ CloseInv /\ QueueInv /\ FileInv /\ TablesExact /\ EndInv
  BY DEF LintInv
<1>2. TypeOK' /\ CloseInv' /\ QueueInv' /\ FileInv' /\ TablesExact' /\ EndInv'
  BY <1>1, NextType, CloseInvNext, QueueInvNext, FileInvNext, TablesExactNext,
     EndInvNext
<1>3. OutputInv' /\ OrderInv'
  BY <1>1, <1>2, OutputNext DEF LintInv
<1>4. QED
  BY <1>2, <1>3 DEF LintInv

LEMMA OrderImplies == LintInv => FileOrderKept
BY DEF LintInv, OrderInv, Before, RankOf, FileOrderKept

\* Whatever the interleaving of the workers and the reporter, the diagnostics
\* of a file come out in the order of its walk and, at one node, in the order
\* of the configured rules.
THEOREM FileOrderIsKept == Spec => []FileOrderKept
BY LintInvInit, LintInvNext, OrderImplies, PTL DEF Spec

\* In order means, in particular, each once.
LEMMA NothingTwice ==
  ASSUME LintInv
  PROVE  IsInjective(Reported)
<1> SUFFICES ASSUME NEW i \in DOMAIN Reported, NEW j \in DOMAIN Reported, i < j,
                    Reported[i] = Reported[j]
             PROVE  FALSE
  <2>1. DOMAIN Reported = 1 .. Len(Reported) /\ Len(Reported) \in Nat
    BY ReportedType DEF LintInv
  <2>2. \A i, j \in DOMAIN Reported : i < j \/ j < i \/ i = j
    BY <2>1
  <2>3. QED
    BY <2>2 DEF IsInjective
<1>1. Before(Reported[i], Reported[i])
  BY DEF LintInv, OrderInv
<1>2. Reported[i] \in Expected
  BY DEF LintInv, OutputInv
<1>3. Reported[i].at[2] \in Nat /\ Reported[i].rule \in Rules
  BY <1>2, ExpectedParts
<1>4. RankOf(Reported[i].rule) \in Nat
  BY <1>3, RankFacts
<1>5. QED
  BY <1>1, <1>3, <1>4 DEF Before

LEMMA SummaryImplies == LintInv => SummaryIsLastAndExact
<1> SUFFICES ASSUME LintInv, summary # NoSummary
             PROVE  /\ IsInjective(stdout) /\ Range(stdout) = Expected
                    /\ summary = Len(stdout)
  BY DEF SummaryIsLastAndExact
<1>1. /\ mainPc = "exit" /\ rpc = "exited" /\ summary = errorsCount
      /\ diagnosticsChan = << >> /\ buffer = << >>
      /\ errorsCount = Len(stdout) + Len(buffer)
      /\ Range(files) = Files /\ filled = Len(files) /\ ChanClosed
  BY DEF LintInv, EndInv, QueueClosed
<1>2. /\ stdout \in Seq(Diagnostic) /\ Len(stdout) \in Nat /\ files \in Seq(Files)
      /\ Len(files) \in Nat
  BY DEF LintInv, TypeOK
<1>3. summary = Len(stdout)
  <2>1. Len(buffer) = 0
    BY <1>1
  <2>2. QED
    BY <1>1, <1>2, <2>1
<1>4. Reported = stdout
  <2>1. stdout \o << >> = stdout
    BY <1>2
  <2>2. QED
    BY <1>1, <2>1 DEF Reported
<1>5. queue = << >> /\ \A c \in Checkers : wpc[c] = "exited"
  BY <1>1, CheckersAssumption DEF LintInv, CloseInv, WorkersReturned
<1>6. ASSUME NEW d \in Expected PROVE Due(d)
  <2>1. d.file \in Files
    BY ExpectedParts
  <2>2. \A c \in Checkers : file[c] # d.file
    BY <1>5, <2>1 DEF LintInv, TypeOK
  <2>3. PICK i \in DOMAIN files : files[i] = d.file
    BY <1>1, <2>1 DEF Range
  <2>4. i \in 1 .. (filled - Len(queue))
    <3>1. Len(queue) = 0
      BY <1>5
    <3>2. i \in 1 .. Len(files)
      BY <1>2
    <3>3. QED
      BY <1>1, <1>2, <3>1, <3>2
  <2>5. QED
    BY <2>2, <2>3, <2>4 DEF Due, Received
<1>7. Range(stdout) = Expected
  <2>1. \A d \in Expected : d \in Range(stdout)
    BY <1>4, <1>6 DEF LintInv, OutputInv
  <2>2. \A d \in Range(stdout) : d \in Expected
    BY <1>4 DEF LintInv, OutputInv, Range
  <2>3. QED
    BY <2>1, <2>2
<1>8. QED
  BY <1>3, <1>4, <1>7, NothingTwice

\* When the summary line is printed, every expected diagnostic has been written
\* exactly once, nothing else has, and the line counts them all.
THEOREM SummaryIsExact == Spec => []SummaryIsLastAndExact
BY LintInvInit, LintInvNext, SummaryImplies, PTL DEF Spec

-----------------------------------------------------------------------------
(* The promise of module LintPromise. *)

LEMMA ShownIsExpected == LintInv => Range(stdout) \subseteq Expected
<1> SUFFICES ASSUME LintInv, NEW i \in DOMAIN stdout PROVE stdout[i] \in Expected
  BY DEF Range
<1> DEFINE s == stdout \o buffer
<1>1. /\ stdout \in Seq(Diagnostic) /\ buffer \in Seq(Diagnostic)
      /\ diagnosticsChan \in Seq(Diagnostic) /\ s \in Seq(Diagnostic)
  BY DEF LintInv, TypeOK
<1>2. i \in DOMAIN s /\ s[i] = stdout[i]
  BY <1>1
<1>3. Reported = s \o diagnosticsChan
  BY DEF Reported
<1> HIDE DEF s
<1>4. i \in DOMAIN Reported /\ Reported[i] = s[i]
  BY <1>1, <1>2, <1>3
<1>5. QED
  BY <1>2, <1>4 DEF LintInv, OutputInv

LEMMA ShownIsExpectedNext == LintInv' => (Range(stdout) \subseteq Expected)'
BY ShownIsExpected, PTL

\* Standard output only grows, by expected diagnostics, and not at all once the
\* summary line is out.
LEMMA StdoutGrows ==
  ASSUME LintInv, [Next]_vars, LintInv'
  PROVE  /\ Range(stdout) \subseteq Range(stdout')
         /\ Range(stdout') \subseteq Expected
         /\ summary' = summary \/ (stdout' = stdout /\ mainPc' = "exit" /\ summary = NoSummary)
         /\ stdout' = stdout \/ (summary = NoSummary /\ summary' = summary)
<1> USE DEF vars, mainVars, workerVars, reporterVars
<1>0. /\ stdout \in Seq(Diagnostic) /\ buffer \in Seq(Diagnostic)
      /\ diagnosticsChan \in Seq(Diagnostic)
  BY DEF LintInv, TypeOK
<1>1. CASE PrintDiagnostic \/ FlushWriter
  <2>1. rpc = "range" /\ UNCHANGED summary
    BY <1>1 DEF PrintDiagnostic, FlushWriter
  <2>2. summary = NoSummary
    BY <2>1 DEF LintInv, EndInv
  <2>3. \E t \in Seq(Diagnostic) : stdout' = stdout \o t
    <3>1. CASE PrintDiagnostic
      <4> DEFINE t == Append(buffer, Head(diagnosticsChan))
      <4>1. diagnosticsChan # << >> /\ (stdout' = stdout \/ stdout' = stdout \o t)
        BY <3>1 DEF PrintDiagnostic
      <4>2. t \in Seq(Diagnostic) /\ << >> \in Seq(Diagnostic)
        BY <1>0, <4>1
      <4>3. stdout \o << >> = stdout
        BY <1>0
      <4>4. QED
        BY <4>1, <4>2, <4>3
    <3>2. CASE FlushWriter
      BY <1>0, <3>2 DEF FlushWriter
    <3>3. QED
      BY <1>1, <3>1, <3>2
  <2>4. Range(stdout) \subseteq Range(stdout')
    BY <1>0, <2>3, RangeConcatenation
  <2>5. QED
    BY <2>1, <2>2, <2>4, ShownIsExpectedNext
<1>2. CASE PrintSummary
  <2>1. summary = NoSummary
    BY <1>2 DEF PrintSummary, LintInv, EndInv
  <2>2. QED
    BY <1>2, <2>1, ShownIsExpectedNext DEF PrintSummary
<1>3. CASE UNCHANGED <<summary, stdout>>
  BY <1>3, ShownIsExpectedNext
<1>4. QED
  BY <1>1, <1>2, <1>3
  DEF Next, MainStep, WorkerStep, ReporterStep, StartReporter, FillQueue, CloseQueue,
      SpawnWorker, CloseChan, TakeFile, WorkerExit, RunRule, CallListener, NextNode,
      FinishFile, ReporterDone

\* As many diagnostics are shown as were written, if each was written once.
LEMMA CountOnce ==
  ASSUME NEW s \in Seq(Diagnostic), IsInjective(s)
  PROVE  Cardinality(Range(s)) = Len(s)
<1>1. Len(s) \in Nat /\ DOMAIN s = 1 .. Len(s)
  OBVIOUS
<1>2. s \in Bijection(1 .. Len(s), Range(s))
  <2>1. s \in [1 .. Len(s) -> Range(s)]
    BY <1>1 DEF Range
  <2>2. \A a, b \in 1 .. Len(s) : s[a] = s[b] => a = b
    BY <1>1 DEF IsInjective
  <2>3. \A y \in Range(s) : \E a \in 1 .. Len(s) : s[a] = y
    BY <1>1 DEF Range
  <2>4. QED
    BY <2>1, <2>2, <2>3 DEF Bijection, Injection, Surjection, IsInjective
<1>3. ExistsBijection(1 .. Len(s), Range(s))
  BY <1>2 DEF ExistsBijection
<1>4. QED
  BY <1>1, <1>3, FS_CountingElements

LEMMA SummaryCounts ==
  LintInv => (mainPc = "exit" => /\ Range(stdout) = Expected
                                 /\ summary = Cardinality(Expected))
<1> SUFFICES ASSUME LintInv, mainPc = "exit"
             PROVE  Range(stdout) = Expected /\ summary = Cardinality(Expected)
  OBVIOUS
<1>1. summary # NoSummary
  BY DEF LintInv, EndInv
<1>2. IsInjective(stdout) /\ Range(stdout) = Expected /\ summary = Len(stdout)
  BY <1>1, SummaryImplies DEF SummaryIsLastAndExact
<1>3. stdout \in Seq(Diagnostic)
  BY DEF LintInv, TypeOK
<1>4. QED
  BY <1>2, <1>3, CountOnce

LEMMA SummaryCountsNext ==
  LintInv' => (mainPc' = "exit" => /\ Range(stdout') = Expected
                                   /\ summary' = Cardinality(Expected))
<1>1. (LintInv => (mainPc = "exit" => /\ Range(stdout) = Expected
                                      /\ summary = Cardinality(Expected)))'
  BY SummaryCounts, PTL
<1>2. QED
  BY <1>1

LEMMA SameCount == Promise!Cardinality(Expected) = Cardinality(Expected)
BY DEF Promise!Cardinality, Cardinality

LEMMA PromiseInit == Init => Promise!Init
BY DEF Init, Promise!Init, Range

\* Every step is a step of the promise or changes neither output nor summary.
LEMMA PromiseNext ==
  LintInv /\ [Next]_vars /\ LintInv' => [Promise!Next]_<<Range(stdout), summary>>
<1> SUFFICES ASSUME LintInv, [Next]_vars, LintInv'
             PROVE  [Promise!Next]_<<Range(stdout), summary>>
  OBVIOUS
<1>1. CASE stdout' = stdout /\ summary' = summary
  BY <1>1
<1>2. CASE stdout' # stdout
  <2>1. summary = NoSummary /\ summary' = summary
    BY <1>2, StdoutGrows
  <2>2. Promise!Show
    BY <2>1, StdoutGrows DEF Promise!Show
  <2>3. QED
    BY <2>2 DEF Promise!Next
<1>3. CASE summary' # summary
  <2>1. stdout' = stdout /\ mainPc' = "exit" /\ summary = NoSummary
    BY <1>3, StdoutGrows
  <2>2. Range(stdout') = Expected /\ summary' = Cardinality(Expected)
    BY <2>1, SummaryCountsNext
  <2>3. Promise!Conclude
    BY <2>1, <2>2, SameCount DEF Promise!Conclude
  <2>4. QED
    BY <2>3 DEF Promise!Next
<1>4. QED
  BY <1>1, <1>2, <1>3

\* The pipeline implements LintPromise: diagnostics are shown once and only if
\* expected, and the count is printed when all of them are out and never before.
THEOREM ImplementsPromise == Spec => Promise!Safety
<1>1. Spec => []LintInv
  BY LintInvInit, LintInvNext, PTL DEF Spec
<1>2. QED
  BY <1>1, PromiseInit, PromiseNext, PTL DEF Spec, Promise!Safety

\* A run that ends has told the whole truth: of what KeepsPromise says, only
\* that the command does end is left to its fairness.
THEOREM EndingKeepsPromise == Spec /\ Terminates => KeepsPromise
<1>1. Spec => []LintInv
  BY LintInvInit, LintInvNext, PTL DEF Spec
<1>2. LintInv => (mainPc = "exit" => summary = Promise!Cardinality(Expected))
  BY SummaryCounts, SameCount
<1>3. QED
  BY <1>1, <1>2, ImplementsPromise, PTL DEF Terminates, KeepsPromise, Promise!Spec

-----------------------------------------------------------------------------
(* The order of the files when single threaded. *)

\* The one worker is at the file received last, and what has been reported
\* follows the list of files, which is sorted.
SingleInv ==
  SingleThreaded =>
    /\ \A a, b \in DOMAIN files : a < b => TextLen[files[a]] >= TextLen[files[b]]
    /\ \A c \in Checkers : file[c] # NoFile => file[c] = files[filled - Len(queue)]
    /\ \A i, j \in DOMAIN Reported : i < j =>
         \E a, b \in DOMAIN files :
           a <= b /\ files[a] = Reported[i].file /\ files[b] = Reported[j].file

LEMMA OneChecker == SingleThreaded => \A c, d \in Checkers : c = d
<1> SUFFICES ASSUME SingleThreaded PROVE \A c, d \in Checkers : c = d
  OBVIOUS
<1>1. IsFiniteSet(Checkers) /\ Cardinality(Checkers) = 1
  BY CheckersAssumption
<1>2. \E x : Checkers = {x}
  BY <1>1, FS_Singleton
<1>3. QED
  BY <1>2

LEMMA SingleInvInit == Init => SingleInv
<1> SUFFICES ASSUME Init PROVE SingleInv
  OBVIOUS
<1>1. \A a, b \in DOMAIN files : a < b => TextLen[files[a]] >= TextLen[files[b]]
  BY DEF Init, SortedFiles
<1>2. DOMAIN Reported = {} /\ \A c \in Checkers : file[c] = NoFile
  BY DEF Init, Reported
<1>3. QED
  BY <1>1, <1>2 DEF SingleInv

\* Whatever a worker reports, it reports for the file it holds.
LEMMA ReportOfHeld ==
  ASSUME TypeOK, FileInv, NEW c \in Checkers, RunRule(c) \/ CallListener(c)
  PROVE  /\ file[c] \in Files
         /\ \/ Reported' = Reported
            \/ \E e \in Diagnostic : e.file = file[c] /\ Reported' = Append(Reported, e)
<1>1. UNCHANGED <<buffer, stdout>>
  BY DEF RunRule, CallListener, reporterVars
<1>2. \E r \in Rules, f \in Files, p \in Nat : f = file[c] /\ Report(r, f, f, p)
  <2>1. CASE RunRule(c)
    <3>1. rule[c] \in 1 .. Len(RuleList) /\ file[c] \in Files
      BY <2>1, RankFacts DEF RunRule, TypeOK
    <3>2. RuleList[rule[c]] \in Rules
      BY <3>1, ConstantFacts
    <3>3. Report(RuleList[rule[c]], file[c], file[c], 0) /\ 0 \in Nat
      BY <2>1 DEF RunRule
    <3>4. QED
      BY <3>1, <3>2, <3>3
  <2>2. CASE CallListener(c)
    <3>1. /\ Walking(c) /\ node[c] <= Len(Nodes[file[c]]) /\ listener[c] <= Len(Here(c))
          /\ Report(Here(c)[listener[c]].rule, Here(c)[listener[c]].file, file[c], node[c])
      BY <2>2 DEF CallListener
    <3>2. file[c] \in Files /\ node[c] \in Nat /\ Nodes[file[c]][node[c]] \in Kinds
      <4>1. file[c] \in Files
        BY <3>1 DEF Walking, TypeOK
      <4>2. Nodes[file[c]] \in Seq(Kinds) /\ node[c] \in 1 .. Len(Nodes[file[c]])
        BY <3>1, <4>1, ConstantFacts DEF TypeOK
      <4>3. QED
        BY <4>1, <4>2
    <3>3. listener[c] \in 1 .. Len(Here(c)) /\ Here(c) \in Seq(Listener)
      <4>1. Here(c) \in Seq(Listener)
        BY <3>1, HereType
      <4>2. listener[c] \in Nat \ {0}
        BY DEF TypeOK
      <4> QED BY <3>1, <4>1, <4>2
    <3>4. Here(c)[listener[c]].file = file[c]
      BY <3>2, <3>3 DEF FileInv, TableInv, Here
    <3>5. Here(c)[listener[c]].rule \in Rules
      <4>1. Here(c)[listener[c]] \in Listener
        BY <3>3
      <4>2. \A x \in Listener : x.rule \in Rules
        BY DEF Listener
      <4>3. QED
        BY <4>1, <4>2
    <3>6. QED
      BY <3>1, <3>2, <3>4, <3>5
  <2>3. QED
    BY <2>1, <2>2
<1>3. PICK r \in Rules, f \in Files, p \in Nat : f = file[c] /\ Report(r, f, f, p)
  BY <1>2
<1> DEFINE e == DiagnosticOf(r, f, p)
<1>4. e \in Diagnostic /\ e.file = f
  BY DEF DiagnosticOf, Diagnostic
<1>5. diagnosticsChan' = diagnosticsChan \/ diagnosticsChan' = Append(diagnosticsChan, e)
  BY <1>3 DEF Report, Send, DiagnosticOf
<1> HIDE DEF e
<1>6. Reported' = Reported \/ Reported' = Append(Reported, e)
  <2>1. CASE diagnosticsChan' = diagnosticsChan
    BY <1>1, <2>1 DEF Reported
  <2>2. CASE diagnosticsChan' = Append(diagnosticsChan, e)
    BY <1>1, <1>4, <2>2, ReportedSent
  <2>3. QED
    BY <1>5, <2>1, <2>2
<1>7. QED
  BY <1>3, <1>4, <1>6

LEMMA SingleInvNext ==
  LintInv /\ SingleInv /\ [Next]_vars => SingleInv'
<1> SUFFICES ASSUME LintInv, SingleInv, [Next]_vars, SingleThreaded PROVE SingleInv'
  BY DEF SingleInv
<1> USE DEF vars, mainVars, workerVars, reporterVars
<1>0. /\ TypeOK /\ QueueInv /\ FileInv /\ OutputInv /\ files \in Seq(Files)
      /\ queue \in Seq(Files) /\ Len(queue) \in Nat /\ Len(files) \in Nat
      /\ filled \in 0 .. Len(files) /\ Len(queue) <= filled
      /\ file \in [Checkers -> Files \cup {NoFile}]
  BY DEF LintInv, TypeOK, QueueInv
<1>1. CASE FillQueue
  <2>1. /\ queue' = Append(queue, files[filled + 1]) /\ filled' = filled + 1
        /\ UNCHANGED <<files, file, Reported>> /\ filled < Len(files)
    BY <1>1 DEF FillQueue, Reported
  <2>2. files[filled + 1] \in Files
    BY <1>0, <2>1
  <2>3. Len(queue') = Len(queue) + 1
    BY <1>0, <2>1, <2>2
  <2>4. filled' - Len(queue') = filled - Len(queue)
    BY <1>0, <2>1, <2>3
  <2>5. QED
    BY <2>1, <2>4 DEF SingleInv
<1>2. ASSUME NEW c \in Checkers, TakeFile(c) PROVE SingleInv'
  <2>1. /\ queue # << >> /\ queue' = Tail(queue) /\ filled' = filled
        /\ UNCHANGED <<files, Reported>> /\ file' = [file EXCEPT ![c] = Head(queue)]
    BY <1>2 DEF TakeFile, Receive, Reported
  <2>2. Head(queue) = queue[1] /\ Len(queue') = Len(queue) - 1 /\ 1 \in 1 .. Len(queue)
    <3>1. Len(queue) \in Nat \ {0}
      BY <1>0, <2>1
    <3>2. QED
      BY <1>0, <2>1, <3>1, HeadTailProperties
  <2> DEFINE n == filled - Len(queue) + 1
  <2>3. filled \in Nat /\ Len(queue) \in Nat
    BY <1>0
  <2>4. queue[1] = files[n] /\ filled' - Len(queue') = n
    <3>1. \A j \in 1 .. Len(queue) : queue[j] = files[filled - Len(queue) + j]
      BY <1>0 DEF QueueInv
    <3>2. queue[1] = files[n]
      BY <2>2, <2>3, <3>1
    <3>3. filled' = filled /\ Len(queue') = Len(queue) - 1
      BY <2>1, <2>2
    <3>4. filled' - Len(queue') = n
      BY <2>3, <3>3
    <3>5. QED
      BY <3>2, <3>4
  <2> HIDE DEF n
  <2>5. \A d \in Checkers : file'[d] = files[n]
    <3>1. file'[c] = queue[1]
      BY <1>0, <2>1, <2>2
    <3>2. \A d \in Checkers : d = c
      BY OneChecker
    <3>3. QED
      BY <2>4, <3>1, <3>2
  <2>6. QED
    BY <2>1, <2>4, <2>5 DEF SingleInv
<1>3. ASSUME NEW c \in Checkers, RunRule(c) \/ CallListener(c) PROVE SingleInv'
  <2> DEFINE s == Reported
             n == filled - Len(queue)
  <2>1. UNCHANGED <<files, file, filled, queue>>
    BY <1>3 DEF RunRule, CallListener
  <2>2. file[c] \in Files /\ (Reported' = s \/
          \E e \in Diagnostic : e.file = file[c] /\ Reported' = Append(s, e))
    BY <1>0, <1>3, ReportOfHeld
  <2>3. CASE Reported' = s
    BY <2>1, <2>3 DEF SingleInv
  <2>4. CASE Reported' # s
    <3>1. PICK e \in Diagnostic : e.file = file[c] /\ Reported' = Append(s, e)
      BY <2>2, <2>4
    <3>2. files[n] = file[c] /\ n \in DOMAIN files
      <4>1. files[n] = file[c]
        BY <2>2, FilesAssumption DEF SingleInv
      <4>2. \E i \in 1 .. n : files[i] = file[c]
        BY <1>0, <2>2, FilesAssumption DEF QueueInv
      <4>3. n \in 1 .. Len(files)
        BY <1>0, <4>2
      <4>4. QED
        BY <1>0, <4>1, <4>3
    <3>3. s \in Seq(Diagnostic) /\ DOMAIN s = 1 .. Len(s) /\ Len(s) \in Nat
      BY <1>0, ReportedType
    <3> DEFINE t == Append(s, e)
    <3>4. /\ DOMAIN t = 1 .. Len(t) /\ Len(t) = Len(s) + 1 /\ t[Len(t)] = e
          /\ \A i \in 1 .. Len(s) : t[i] = s[i]
      BY <3>3
    <3>5. ASSUME NEW i \in DOMAIN s PROVE \E a \in 1 .. n : files[a] = s[i].file
      BY <1>0 DEF OutputInv, Due, Received
    <3>6. \A i, j \in DOMAIN s : i < j =>
            \E a, b \in DOMAIN files :
              a <= b /\ files[a] = s[i].file /\ files[b] = s[j].file
      BY DEF SingleInv
    <3>7. n \in Nat /\ DOMAIN files = 1 .. Len(files)
      BY <1>0
    <3> HIDE DEF s, t, n
    <3>8. ASSUME NEW i \in DOMAIN t, NEW j \in DOMAIN t, i < j
          PROVE  \E a, b \in DOMAIN files :
                   a <= b /\ files[a] = t[i].file /\ files[b] = t[j].file
      <4>1. i \in 1 .. Len(s) /\ t[i] = s[i]
        BY <3>3, <3>4, <3>8
      <4>2. CASE j \in 1 .. Len(s)
        BY <3>3, <3>4, <3>6, <3>8, <4>1, <4>2
      <4>3. CASE j = Len(t)
        <5>1. PICK a \in 1 .. n : files[a] = t[i].file
          BY <3>3, <3>5, <4>1
        <5>2. a \in DOMAIN files /\ a <= n
          BY <1>0, <3>2, <3>7
        <5>3. t[j].file = files[n]
          BY <3>1, <3>2, <3>4, <4>3
        <5>4. QED
          BY <3>2, <5>1, <5>2, <5>3
      <4>4. j \in 1 .. Len(s) \/ j = Len(t)
        BY <3>3, <3>4
      <4>5. QED
        BY <4>2, <4>3, <4>4
    <3>9. Reported' = t
      BY <3>1 DEF t
    <3>10. QED
      BY <2>1, <3>8, <3>9 DEF SingleInv
  <2>5. QED
    BY <2>3, <2>4
<1>4. ASSUME NEW c \in Checkers, FinishFile(c) PROVE SingleInv'
  <2>1. /\ UNCHANGED <<files, filled, queue, Reported>>
        /\ file' = [file EXCEPT ![c] = NoFile]
    BY <1>4 DEF FinishFile, Reported
  <2>2. \A d \in Checkers : file'[d] # NoFile => file'[d] = file[d]
    BY <1>0, <2>1
  <2>3. QED
    BY <2>1, <2>2 DEF SingleInv
<1>5. CASE PrintDiagnostic \/ FlushWriter
  <2>1. UNCHANGED <<files, filled, queue, file>>
    BY <1>5 DEF PrintDiagnostic, FlushWriter
  <2>2. QED
    BY <1>0, <1>5, <2>1, ReportedMoves DEF SingleInv
<1>6. CASE UNCHANGED <<files, filled, queue, file, diagnosticsChan, buffer, stdout>>
  BY <1>6 DEF SingleInv, Reported
<1>7. QED
  BY <1>1, <1>2, <1>3, <1>4, <1>5, <1>6
  DEF Next, MainStep, WorkerStep, ReporterStep, StartReporter, CloseQueue,
      SpawnWorker, CloseChan, PrintSummary, WorkerExit, NextNode, ReporterDone

LEMMA SingleImplies == LintInv /\ SingleInv => SingleThreadedOrder
<1> SUFFICES ASSUME LintInv, SingleInv, SingleThreaded,
                    NEW i \in DOMAIN Reported, NEW j \in DOMAIN Reported, i < j
             PROVE  /\ TextLen[Reported[i].file] >= TextLen[Reported[j].file]
                    /\ Reported[i].file = Reported[j].file =>
                         \A k \in i .. j : Reported[k].file = Reported[i].file
  BY DEF SingleThreadedOrder
<1>1. /\ files \in Seq(Files) /\ DOMAIN files = 1 .. Len(files) /\ Len(files) \in Nat
      /\ IsInjective(files) /\ DOMAIN Reported = 1 .. Len(Reported)
      /\ Len(Reported) \in Nat
  BY ReportedType DEF LintInv, TypeOK, QueueInv
<1>2. PICK a \in DOMAIN files, b \in DOMAIN files :
        a <= b /\ files[a] = Reported[i].file /\ files[b] = Reported[j].file
  BY DEF SingleInv
<1>3. TextLen[files[a]] >= TextLen[files[b]]
  <2>1. TextLen[files[a]] \in Nat
    <3>1. files[a] \in Files
      BY <1>1
    <3>2. QED
      BY <3>1, TextLenAssumption
  <2>2. CASE a = b
    BY <2>1, <2>2
  <2>3. CASE a < b
    BY <2>3 DEF SingleInv
  <2>4. QED
    BY <1>1, <1>2, <2>2, <2>3
<1>4. ASSUME Reported[i].file = Reported[j].file, NEW k \in i .. j
      PROVE  Reported[k].file = Reported[i].file
  <2>1. k \in DOMAIN Reported
    BY <1>1
  <2>2. CASE k = i \/ k = j
    BY <1>4, <2>2
  <2>3. CASE i < k /\ k < j
    <3>1. PICK x \in DOMAIN files, y \in DOMAIN files :
            x <= y /\ files[x] = Reported[i].file /\ files[y] = Reported[k].file
      BY <2>1, <2>3 DEF SingleInv
    <3>2. PICK z \in DOMAIN files, w \in DOMAIN files :
            z <= w /\ files[z] = Reported[k].file /\ files[w] = Reported[j].file
      BY <2>1, <2>3 DEF SingleInv
    <3>3. y = z /\ x = w
      BY <1>1, <1>4, <3>1, <3>2 DEF IsInjective
    <3>4. x = y
      BY <1>1, <3>1, <3>2, <3>3
    <3>5. QED
      BY <3>1, <3>4
  <2>4. QED
    BY <1>1, <2>2, <2>3
<1>5. QED
  BY <1>2, <1>3, <1>4

\* Single threaded, the output is file by file, the longest file first.
THEOREM SingleThreadedIsOrdered == Spec => []SingleThreadedOrder
<1>1. Spec => [](LintInv /\ SingleInv)
  BY LintInvInit, LintInvNext, SingleInvInit, SingleInvNext, PTL DEF Spec
<1>2. QED
  BY <1>1, SingleImplies, PTL
=============================================================================
