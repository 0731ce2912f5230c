----------------------------- MODULE DirVisitor -----------------------------
(***************************************************************************)
(* The parallel directory visitor that patches/0001 puts into              *)
(* typescript-go's ReadDirectory, which finds the source files of a        *)
(* project: doVisitDirectory and visitDirectory.                           *)
(*                                                                         *)
(* Workers take directories from a bounded channel of jobs.  A visit lists *)
(* a directory and yields its matching files and one new job per matching  *)
(* subdirectory.  activeWorkers counts the jobs not yet visited, and the   *)
(* worker that takes it to zero closes the channel, which ends them all.   *)
(* A worker that finds the channel full visits the directory itself, by a  *)
(* recursive call: each worker has a stack of frames.                      *)
(*                                                                         *)
(* The file system is abstracted to the listing of each directory, and the *)
(* include and exclude patterns to what they decide about each entry.      *)
(***************************************************************************)
EXTENDS Integers, SequencesExt

CONSTANTS
  Dirs,        \* the directories
  FileNames,   \* the files
  FilesOf,     \* for each directory, the files it lists
  SubDirsOf,   \* for each directory, the directories it lists
  IncludeOf,   \* for each file, the first include pattern it matches, or 0
  DirMatches,  \* the directories no pattern keeps out
  BasePaths,   \* where the visit starts
  Depth,       \* the depth limit of the call, or NoDepth
  NoDepth,
  GOMAXPROCS,  \* the number of workers
  ChanCap      \* capacity of the channel of jobs (2048 in the code)

ASSUME DirsAssumption == DirMatches \subseteq Dirs /\ IsFiniteSet(Dirs)
ASSUME FilesAssumption ==
  FilesOf \in [Dirs -> Seq(FileNames)] /\ IncludeOf \in [FileNames -> Nat]
ASSUME SubDirsAssumption == SubDirsOf \in [Dirs -> Seq(Dirs)]
\* The channel is filled with the base paths before any worker reads it.
ASSUME BasePathsAssumption ==
  /\ BasePaths \in Seq(Dirs)
  /\ Len(BasePaths) \in 1 .. ChanCap
ASSUME DepthAssumption == NoDepth \notin Int /\ Depth \in (Nat \ {0}) \cup {NoDepth}
ASSUME GOMAXPROCSAssumption == GOMAXPROCS \in Nat \ {0}
ASSUME ChanCapAssumption == ChanCap \in Nat \ {0}
\* Directories are named by their paths: one that is not a base path is listed
\* in one place, and a base path in none (getBasePaths drops a base path that
\* lies below another one).  A file is listed in one place as well.
ASSUME TreeAssumption ==
  /\ IsInjective(BasePaths)
  /\ \A d, e \in Dirs : \A i \in DOMAIN FilesOf[d], j \in DOMAIN FilesOf[e] :
       FilesOf[d][i] = FilesOf[e][j] => d = e /\ i = j
  /\ \A d, e \in Dirs : \A i \in DOMAIN SubDirsOf[d], j \in DOMAIN SubDirsOf[e] :
       /\ SubDirsOf[d][i] = SubDirsOf[e][j] => d = e /\ i = j
       /\ SubDirsOf[d][i] \notin Range(BasePaths)

\* The elements of s that are in S, in the order of s.
Selected(s, S) ==
  LET UpTo[i \in 0 .. Len(s)] ==
        IF i = 0 THEN << >>
        ELSE IF s[i] \in S THEN Append(UpTo[i - 1], s[i]) ELSE UpTo[i - 1]
  IN  UpTo[Len(s)]

\* The files and directories that match, in the order they are listed.
MatchingFiles   == { f \in FileNames : IncludeOf[f] # 0 }
FilesFound(d)   == Selected(FilesOf[d], MatchingFiles)
MatchingDirs(d) == Selected(SubDirsOf[d], DirMatches)

Workers == 1 .. GOMAXPROCS

VARIABLES
  mainPc,        \* where the caller is: filling the channel, waiting, returned
  jobs,          \* the channel of jobs
  jobsClosed,    \* close(jobs) has been called
  activeWorkers, \* the atomic counter
  stack,         \* for each worker, its calls of visitScheduler, innermost first
  matchedFiles,  \* for each worker, the files it has found
  exited         \* the workers that have left their loop

vars == <<mainPc, jobs, jobsClosed, activeWorkers, stack, matchedFiles, exited>>

Job == [dir : Dirs, depth : Int \cup {NoDepth}]

\* A call of visitScheduler: where it is, the files found so far, and the new
\* jobs it has yet to hand out.
Frame == [at : {"visited", "counted", "handOut"}, results : Seq(FileNames), newJobs : Seq(Job)]

Init ==
  /\ mainPc = "fill"
  /\ jobs = << >> /\ jobsClosed = FALSE
  /\ activeWorkers = 0
  /\ stack = [w \in Workers |-> << >>]
  /\ matchedFiles = [w \in Workers |-> << >>]
  /\ exited = {}

-----------------------------------------------------------------------------
(* doVisitDirectory, up to the start of the workers. *)

PutBasePath ==
  /\ mainPc = "fill"
  /\ Len(jobs) < Len(BasePaths)
  /\ Len(jobs) < ChanCap
  /\ jobs' = Append(jobs, [dir |-> BasePaths[Len(jobs) + 1], depth |-> Depth])
  /\ UNCHANGED <<mainPc, jobsClosed, activeWorkers, stack, matchedFiles, exited>>

StartWorkers ==
  /\ mainPc = "fill"
  /\ Len(jobs) = Len(BasePaths)
  /\ activeWorkers' = Len(BasePaths)
  /\ mainPc' = "wait"
  /\ UNCHANGED <<jobs, jobsClosed, stack, matchedFiles, exited>>

Return ==
  /\ mainPc = "wait"
  /\ exited = Workers
  /\ mainPc' = "returned"
  /\ UNCHANGED <<jobs, jobsClosed, activeWorkers, stack, matchedFiles, exited>>

-----------------------------------------------------------------------------
(* visitDirectory *)

\* Mutant: the limit is tested before it is counted down.
DepthLeftLate(depth) == depth = NoDepth \/ depth # 0

\* Whether the subdirectories are within the depth limit.
DepthLeft(depth) == depth = NoDepth \/ depth - 1 # 0

\* The jobs for the subdirectories that match, in the order they are listed.
NewJobs(d, depth) ==
  LET below  == IF depth = NoDepth THEN NoDepth ELSE depth - 1
      within == MatchingDirs(d)
  IN  IF DepthLeft(depth)
      THEN [i \in DOMAIN within |-> [dir |-> within[i], depth |-> below]]
      ELSE << >>

\* The frame of a call of visitScheduler(job) that has just listed job's directory.
Visited(job) ==
  [at |-> "visited", results |-> FilesFound(job.dir), newJobs |-> NewJobs(job.dir, job.depth)]

-----------------------------------------------------------------------------
(* A worker *)

Top(w) == Head(stack[w])
InCall(w, place) == stack[w] # << >> /\ Top(w).at = place
SetTop(w, frame) == [stack EXCEPT ![w] = <<frame>> \o Tail(@)]

\* A frame whose next new job has been handed out, and one that has got more results.
HandedOut(frame) == [frame EXCEPT !.newJobs = Tail(@)]
WithResults(frame, found) == [frame EXCEPT !.results = @ \o found]

\* for job := range jobs: take a job and call visitScheduler ...
TakeJob(w) ==
  /\ mainPc = "wait" /\ w \notin exited
  /\ stack[w] = << >> /\ jobs # << >>
  /\ jobs' = Tail(jobs)
  /\ stack' = [stack EXCEPT ![w] = <<Visited(Head(jobs))>>]
  /\ UNCHANGED <<mainPc, jobsClosed, activeWorkers, matchedFiles, exited>>

\* ... or end.
Exit(w) ==
  /\ mainPc = "wait" /\ w \notin exited
  /\ stack[w] = << >> /\ jobs = << >> /\ jobsClosed
  /\ exited' = exited \cup {w}
  /\ UNCHANGED <<mainPc, jobs, jobsClosed, activeWorkers, stack, matchedFiles>>

\* Mutant: a single new job is not counted (len(newJobs) > 1).
CountManyNewJobs(w) ==
  /\ InCall(w, "visited")
  /\ activeWorkers' = activeWorkers + IF Len(Top(w).newJobs) > 1
                                      THEN Len(Top(w).newJobs) ELSE 0
  /\ stack' = SetTop(w, [Top(w) EXCEPT !.at = "counted"])
  /\ UNCHANGED <<mainPc, jobs, jobsClosed, matchedFiles, exited>>

\* activeWorkers.Add(len(newJobs))
CountNewJobs(w) ==
  /\ InCall(w, "visited")
  /\ activeWorkers' = activeWorkers + Len(Top(w).newJobs)
  /\ stack' = SetTop(w, [Top(w) EXCEPT !.at = "counted"])
  /\ UNCHANGED <<mainPc, jobs, jobsClosed, matchedFiles, exited>>

\* workersLeft := activeWorkers.Add(-1); the last one closes the channel and
\* hands out nothing.
CountDone(w) ==
  /\ InCall(w, "counted")
  /\ activeWorkers' = activeWorkers - 1
  /\ IF activeWorkers' = 0
     THEN /\ jobsClosed' = TRUE
          /\ stack' = SetTop(w, [Top(w) EXCEPT !.at = "handOut", !.newJobs = << >>])
     ELSE /\ UNCHANGED jobsClosed
          /\ stack' = SetTop(w, [Top(w) EXCEPT !.at = "handOut"])
  /\ UNCHANGED <<mainPc, jobs, matchedFiles, exited>>

\* select { case jobs <- newJob: ...
SendJob(w) ==
  /\ InCall(w, "handOut") /\ Top(w).newJobs # << >>
  /\ Len(jobs) < ChanCap
  /\ jobs' = Append(jobs, Head(Top(w).newJobs))
  /\ stack' = SetTop(w, HandedOut(Top(w)))
  /\ UNCHANGED <<mainPc, jobsClosed, activeWorkers, matchedFiles, exited>>

\* Mutant: the inline visit takes the place of all the jobs still to hand out.
VisitInlineOnce(w) ==
  /\ InCall(w, "handOut") /\ Top(w).newJobs # << >>
  /\ Len(jobs) = ChanCap
  /\ stack' = [stack EXCEPT ![w] =
                 <<Visited(Head(Top(w).newJobs)), [Head(@) EXCEPT !.newJobs = << >>]>>
                   \o Tail(@)]
  /\ UNCHANGED <<mainPc, jobs, jobsClosed, activeWorkers, matchedFiles, exited>>

\* Mutant: no default clause, the send of a new job blocks on a full channel.
NeverInline(w) == FALSE

\* ... default: the channel is full, visit the directory in a recursive call.
VisitInline(w) ==
  /\ InCall(w, "handOut") /\ Top(w).newJobs # << >>
  /\ Len(jobs) = ChanCap
  /\ LET job == Head(Top(w).newJobs) IN
       stack' = [stack EXCEPT ![w] = <<Visited(job), HandedOut(Top(w))>> \o Tail(@)]
  /\ UNCHANGED <<mainPc, jobs, jobsClosed, activeWorkers, matchedFiles, exited>>

\* The call returns its results to the calling frame, or to the worker's loop.
ReturnResults(w) ==
  /\ InCall(w, "handOut") /\ Top(w).newJobs = << >>
  /\ IF Len(stack[w]) = 1
     THEN /\ matchedFiles' = [matchedFiles EXCEPT ![w] = @ \o Top(w).results]
          /\ stack' = [stack EXCEPT ![w] = << >>]
     ELSE /\ UNCHANGED matchedFiles
          /\ stack' = [stack EXCEPT ![w] =
                         <<WithResults(@[2], Top(w).results)>> \o Tail(Tail(@))]
  /\ UNCHANGED <<mainPc, jobs, jobsClosed, activeWorkers, exited>>

WorkerStep(w) ==
  \/ TakeJob(w)
  \/ Exit(w)
  \/ CountNewJobs(w)
  \/ CountDone(w)
  \/ SendJob(w)
  \/ VisitInline(w)
  \/ ReturnResults(w)

MainStep == PutBasePath \/ StartWorkers \/ Return

Next == MainStep \/ \E w \in Workers : WorkerStep(w)

\* The Go scheduler runs every goroutine that can run.
Fairness == WF_vars(MainStep) /\ \A w \in Workers : WF_vars(WorkerStep(w))

Spec == Init /\ [][Next]_vars /\ Fairness
-----------------------------------------------------------------------------
(* Properties *)

TypeOK ==
  /\ mainPc \in {"fill", "wait", "returned"}
  /\ jobs \in Seq(Job) /\ Len(jobs) <= ChanCap
  /\ jobsClosed \in BOOLEAN
  /\ activeWorkers \in Int
  /\ stack \in [Workers -> Seq(Frame)]
  /\ matchedFiles \in [Workers -> Seq(FileNames)]
  /\ exited \subseteq Workers

\* The jobs a frame still answers for: its own until it is counted off, and the
\* new ones, once counted, until they are handed out.
OutstandingIn(frame) ==
  CASE frame.at = "visited" -> 1
    [] frame.at = "counted" -> 1 + Len(frame.newJobs)
    [] frame.at = "handOut" -> Len(frame.newJobs)

\* The jobs in the channel (as <<0, 0, i>>) and in the workers' calls, where the calls of a
\* worker are numbered from its outermost one.
FrameAt(w, k) == stack[w][Len(stack[w]) + 1 - k]
InChannel == { <<0, 0, i>> : i \in 1 .. Len(jobs) }
InFrame(w, k) == { <<w, k, i>> : i \in 1 .. OutstandingIn(FrameAt(w, k)) }
Outstanding ==
  InChannel \cup UNION { UNION { InFrame(w, k) : k \in 1 .. Len(stack[w]) } : w \in Workers }

\* activeWorkers is their number.
CounterIsOutstanding ==
  mainPc # "fill" => IsFiniteSet(Outstanding) /\ activeWorkers = Cardinality(Outstanding)

\* No worker has begun while the channel is being filled.
NoneBeforeStart == mainPc = "fill" => stack = [w \in Workers |-> << >>]

\* The channel is closed when the counter has come down to zero, and it stays there.
ClosedAtZero == jobsClosed => mainPc # "fill" /\ activeWorkers = 0

\* The counter is right in every state and the channel holds what it has room for (the
\* inductive invariant of the proofs).
CounterInv == TypeOK /\ CounterIsOutstanding /\ NoneBeforeStart /\ ClosedAtZero

\* A send on the closed channel, or a second close of it, panics: once it is
\* closed no job is left anywhere and no call will count another one off.
NoSendAfterClose ==
  jobsClosed =>
    /\ jobs = << >>
    /\ \A w \in Workers : \A i \in DOMAIN stack[w] :
         stack[w][i].at = "handOut" /\ stack[w][i].newJobs = << >>

\* res, flattened: what doVisitDirectory returns.
Result == FlattenSeq(matchedFiles)

\* The directories at each depth below the base paths that no pattern keeps out.
Level[n \in Nat] ==
  IF n = 0 THEN Range(BasePaths)
  ELSE UNION { Range(SubDirsOf[d]) \cap DirMatches : d \in Level[n - 1] }

DirsWithin ==
  UNION { Level[n] : n \in { k \in 0 .. Cardinality(Dirs) : Depth = NoDepth \/ k < Depth } }

\* Whatever the interleaving, every matching file of every directory within the
\* depth limit is found, and (no worker visits what another did) found once.
EveryFileOnce ==
  mainPc = "returned" =>
    LET Expected == { f \in UNION { Range(FilesOf[d]) : d \in DirsWithin } : IncludeOf[f] # 0 }
    IN  Range(Result) = Expected /\ Len(Result) = Cardinality(Expected)

\* The visit ends: no worker waits for a job that nobody will send, and none
\* blocks on a full channel.
Terminates == <>(mainPc = "returned")
=============================================================================
