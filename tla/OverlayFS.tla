----------------------------- MODULE OverlayFS -----------------------------
(***************************************************************************)
(* The overlay file system: files that are kept in memory over those of    *)
(* another file system.  A path is the sequence of its names.              *)
(*                                                                         *)
(* The entries of a directory are slices that the file system below keeps  *)
(* in its cache (cachedvfs): the overlay appends to them, and appending    *)
(* writes into the array of the cache while there is room.                 *)
(*                                                                         *)
(* A behaviour is a question about a path (AskInit, Ask), or calls for the *)
(* entries of one directory by callers that run at the same time (CallInit *)
(* and CallNext).                                                          *)
(***************************************************************************)
EXTENDS Integers, Sequences, FiniteSets, SequencesExt

CONSTANTS
  FileSystems, Paths,  \* what is asked about: files on disk and in memory, and a path
  EntriesOnDisk,       \* the files that the directory has on disk,
  EntryCaches,         \* what the cache can have for them,
  EntriesInMemory,     \* and the sets of files it can have in memory
  Callers

IsSequence(s) == s \in Seq(Range(s))

\* A file in memory may be on disk as well: the tests of the rules keep file.ts in memory over
\* fixtures that have one.  In a directory whose entries are cached there is one at most.
OverlayAssumption ==
  /\ \A fs \in FileSystems :
       /\ IsFiniteSet(fs.files) /\ IsFiniteSet(fs.virtual)
       /\ \A f \in fs.files \cup fs.virtual : IsSequence(f)
  /\ \A path \in Paths : IsSequence(path)
  /\ IsFiniteSet(EntriesOnDisk)
  /\ \A c \in EntryCaches :
       /\ c = [array |-> c.array, length |-> c.length]
       /\ IsSequence(c.array) /\ c.length \in 0 .. Len(c.array)
       /\ { c.array[k] : k \in 1 .. c.length } = EntriesOnDisk
       /\ c.length = Cardinality(EntriesOnDisk)
  /\ \A v \in EntriesInMemory : \A f, g \in v : f = g

VARIABLES
  asked,   \* the file system and the path that is asked for
  answered, answer,  \* by GetAccessibleEntries
  cache,   \* of the directory: the array and the length of a slice
  virtual, \* the files in memory in it
  callers  \* the slice each caller has, and what it has to append

-----------------------------------------------------------------------------
(* The answers of the operations. *)

\* fs is [files, virtual]: the files of the file system below, and those in memory.
FileExists(fs, path) == path \in fs.virtual \cup fs.files

\* ReadFile and Stat: who answers
Answers(fs, path) ==
  CASE path \in fs.virtual -> "memory"
    [] path \notin fs.virtual /\ path \in fs.files -> "below"
    [] OTHER -> "nobody"

\* The prefix of a path ends with a slash.
DirectoryExists(fs, path) ==
  (\E f \in fs.virtual : IsStrictPrefix(path, f)) \/ (\E f \in fs.files : IsStrictPrefix(path, f))

\* WriteFile and Remove
Changes(fs, path) == IF path \in fs.virtual THEN "panic" ELSE "below"

\* What the entries of a directory have of a file within it.
Entry(path, f) == [directory |-> Len(f) > Len(path) + 1, name |-> f[Len(path) + 1]]

Within(files, path) == { f \in files : IsStrictPrefix(path, f) }

\* The file system below lists an entry once.
Below(fs, path) == { Entry(path, f) : f \in Within(fs.files, path) }

\* What is appended for each file in memory, in the order of the map: any.
Appended(path, order) == [k \in DOMAIN order |-> Entry(path, order[k])]

\* Directories and files are two lists in the code, here one.
GetAccessibleEntries(fs, path) ==
  { below \o Appended(path, order) :
      below \in SetToSeqs(Below(fs, path)), order \in SetToSeqs(Within(fs.virtual, path)) }

AskInit ==
  /\ asked \in [fs : FileSystems, path : Paths]
  /\ answered = FALSE /\ answer = << >>

Ask ==
  /\ ~ answered /\ answered' = TRUE
  /\ answer' \in GetAccessibleEntries(asked.fs, asked.path)
  /\ UNCHANGED asked

-----------------------------------------------------------------------------
(* Callers of GetAccessibleEntries.  A caller has a slice, its length over the array of the *)
(* cache or an array of its own, and files to append.                                       *)

\* A call begins with what is in the cache.
Called == [own |-> << >>, length |-> cache.length, todo |-> virtual]

CallInit ==
  /\ cache \in EntryCaches /\ virtual \in EntriesInMemory
  /\ callers = [c \in Callers |-> Called]

Slice(c) ==
  IF callers[c].own = << >> THEN SubSeq(cache.array, 1, callers[c].length) ELSE callers[c].own

\* What becomes of a caller when it has appended name.
Done(c, name, own, length) ==
  [callers EXCEPT ![c] = [own |-> own, length |-> length, todo |-> callers[c].todo \ {name}]]

\* Mutant: what was appended stays in the cache.
AppendKeeping(c, name) ==
  LET s == Append(Slice(c), name) IN
  /\ IF callers[c].own = << >> /\ callers[c].length < Len(cache.array)
     THEN /\ cache' = [array |-> [cache.array EXCEPT ![callers[c].length + 1] = name],
                       length |-> callers[c].length + 1]
          /\ callers' = Done(c, name, << >>, callers[c].length + 1)
     ELSE /\ cache' = [array |-> s, length |-> Len(s)]
          /\ callers' = Done(c, name, s, callers[c].length)
  /\ UNCHANGED virtual

AppendEntry(c, name) ==
  /\ IF callers[c].own = << >> /\ callers[c].length < Len(cache.array)
     THEN /\ cache' = [cache EXCEPT !.array[callers[c].length + 1] = name]
          /\ callers' = Done(c, name, << >>, callers[c].length + 1)
     ELSE /\ cache' = cache
          /\ callers' = Done(c, name, Append(Slice(c), name), callers[c].length)
  /\ UNCHANGED virtual

\* A caller that is done may call again.
CallAgain(c) ==
  /\ callers[c].todo = {}
  /\ callers' = [callers EXCEPT ![c] = Called]
  /\ UNCHANGED <<cache, virtual>>

CallNext ==
  \E c \in Callers :
    \/ \E name \in callers[c].todo : AppendEntry(c, name)
    \/ CallAgain(c)

-----------------------------------------------------------------------------
(* Properties. *)

\* A file that makes an entry of a directory one.
IsIn(f, path, entry) ==
  LET inner == Append(path, entry.name)
  IN  IF entry.directory THEN IsStrictPrefix(inner, f) ELSE f = inner

\* A file or a directory exists or not, whichever operation is asked: what is listed is there
\* and is what it is listed as, every file is in what is listed, and a directory with nothing to
\* list is none.  An entry is listed once unless a file in memory is in it and another one, in
\* memory or on disk, is too (the same file, if it is on disk as well): nothing looks for what is
\* listed already (overlay_vfs.go:68 and 70).
ViewsAgree ==
  LET fs == asked.fs
      path == asked.path
  IN  /\ FileExists(fs, path) <=> Answers(fs, path) # "nobody"
      /\ answered =>
           /\ DirectoryExists(fs, path) <=> answer # << >>
           /\ \A k \in DOMAIN answer :
                LET inner == Append(path, answer[k].name)
                IN  IF answer[k].directory THEN DirectoryExists(fs, inner) ELSE FileExists(fs, inner)
           /\ \A f \in fs.files \cup fs.virtual :
                IsStrictPrefix(path, f) => \E k \in DOMAIN answer : IsIn(f, path, answer[k])
           /\ \A k \in DOMAIN answer :
                (\E m \in DOMAIN answer : m # k /\ answer[m] = answer[k])
                  <=> \E f \in fs.virtual :
                        /\ IsIn(f, path, answer[k])
                        /\ \E g \in fs.files \cup (fs.virtual \ {f}) : IsIn(g, path, answer[k])

\* A call for the entries of a directory has each file on disk and each in memory once, whoever
\* else appends to them; one that is on disk and in memory it has twice.
EntriesAreComplete ==
  \A c \in Callers :
    callers[c].todo = {} =>
      /\ ToSet(Slice(c)) = EntriesOnDisk \cup virtual
      /\ Len(Slice(c)) = Cardinality(EntriesOnDisk) + Cardinality(virtual)
      /\ \A k, m \in DOMAIN Slice(c) :
           k # m /\ Slice(c)[k] = Slice(c)[m] => Slice(c)[k] \in EntriesOnDisk \cap virtual
=============================================================================
