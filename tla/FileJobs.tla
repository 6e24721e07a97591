------------------------------ MODULE FileJobs ------------------------------
(***************************************************************************)
(* The file jobs of a server (server/src/services/fileJobs): several jobs  *)
(* copy, move and delete files at the same time, ask the user what to do   *)
(* about a name that is taken or a file that cannot be read, and may be    *)
(* cancelled at any time.                                                  *)
(*                                                                         *)
(* The content of a file is named by the path it had at first.  The file   *)
(* system outlives the process: its state in every state of a behaviour is *)
(* what a crash would leave.                                               *)
(***************************************************************************)
EXTENDS FileJobRun

CONSTANTS
    Jobs,           \* the jobs
    Specs,          \* the ways they may be started: functions from Jobs to FileJobSpec
    Files,          \* the paths that hold a file at first
    MaxErrors,      \* bound of the model: calls of the file system that fail
    MaxQuestions    \* bound of the model: questions of a job that the user answers

ASSUME FileJobAssumption ==
    /\ Budget \in Nat /\ {MaxErrors, MaxQuestions} \subseteq Nat /\ MaxNumber \in Nat \ {0}
    /\ Specs \subseteq [Jobs -> FileJobSpec]
    /\ Files \subseteq Paths

VARIABLES
    fs,         \* the file system: paths -> contents
    job,        \* the jobs: FileJobRun
    spec,       \* what they were started with
    seen,       \* the questions the user was shown
    given,      \* history: contents the user agreed to lose
    errors,     \* history: how many calls failed
    disposed    \* the server stops

vars == <<fs, job, spec, seen, given, errors, disposed>>

Change(j, J) ==
    /\ job' = [job EXCEPT ![j] = J]
    /\ seen' = IF J.pending = NoQuestion THEN seen ELSE [seen EXCEPT ![j] = @ \cup {J.pending}]

Source(j) == spec[j].sources[job[j].i]
At(j, pc) == job[j].pc = pc

\* The user answered a question about the present entry of j with overwrite, or a conflict
\* before it with overwrite for all.
Consent(j) ==
    \E a \in job[j].answers : a.choice = "overwrite" /\ (a.entry = job[j].i \/ a.all)

Init ==
    /\ fs = [p \in Paths |-> IF p \in Files THEN p ELSE NoFile]
    /\ spec \in Specs
    /\ job = [j \in Jobs |-> newJob]
    /\ seen = [j \in Jobs |-> {}]
    /\ given = {}
    /\ errors = 0
    /\ disposed = FALSE

-----------------------------------------------------------------------------
\* The manager.

Start(j) ==
    /\ ~disposed
    /\ At(j, "idle")
    /\ Change(j, [job[j] EXCEPT !.known = TRUE, !.state = "running", !.pc = "validate"])
    /\ UNCHANGED <<fs, spec, given, errors, disposed>>

\* The check of the sources' paths ends; a job cancelled by then never runs.
Validated(j, allowed) ==
    /\ At(j, "validate")
    /\ Change(j, IF allowed /\ ~job[j].aborted
                 THEN [job[j] EXCEPT !.pc = "scan", !.i = 1]
                 ELSE Thrown(job[j]))
    /\ UNCHANGED <<fs, spec, given, errors, disposed>>

\* An answer from a dialog of the user, which may be an old one.
Decide(j, q, choice, all) ==
    /\ job[j].known /\ choice \in q.choices
    /\ job[j].asks <= MaxQuestions
    /\ LET J == decide(job[j], spec[j], q, choice, all)
       IN  /\ J # job[j]
           /\ Change(j, [J EXCEPT !.answers = @ \cup {[entry |-> q.entry, class |-> q.class,
                                                       choice |-> choice, all |-> all]}])
    /\ UNCHANGED <<fs, spec, given, errors, disposed>>

Cancellable(j) == job[j].known /\ job[j].result = "none"

Cancel(j) ==
    /\ Cancellable(j) /\ ~job[j].aborted
    /\ Change(j, Cancelled(job[j]))
    /\ UNCHANGED <<fs, spec, given, errors, disposed>>

\* cancelSessionJobs
CloseSession(session) ==
    /\ \E j \in Jobs : Cancellable(j) /\ ~job[j].aborted /\ session \in spec[j].sessions
    /\ job' = [j \in Jobs |-> IF Cancellable(j) /\ session \in spec[j].sessions
                              THEN Cancelled(job[j]) ELSE job[j]]
    /\ UNCHANGED <<fs, spec, seen, given, errors, disposed>>

\* The timer of a question fires: the job has waited for its whole budget.
AwaitTimeout(j) ==
    /\ job[j].pending # NoQuestion /\ job[j].left = 0
    /\ Change(j, Cancelled(job[j]))
    /\ UNCHANGED <<fs, spec, given, errors, disposed>>

\* Time passes while users think; a timer that is due fires first.
Tick ==
    /\ \E j \in Jobs : job[j].pending # NoQuestion
    /\ \A j \in Jobs : job[j].pending # NoQuestion => job[j].left > 0
    /\ job' = [j \in Jobs |-> IF job[j].pending # NoQuestion
                              THEN [job[j] EXCEPT !.left = @ - 1, !.awaited = @ + 1]
                              ELSE job[j]]
    /\ UNCHANGED <<fs, spec, seen, given, errors, disposed>>

\* The retention timer: a job that ended is forgotten.
Retire(j) ==
    /\ job[j].known /\ job[j].result # "none"
    /\ Change(j, [job[j] EXCEPT !.known = FALSE])
    /\ UNCHANGED <<fs, spec, given, errors, disposed>>

\* The server stops: all jobs are forgotten and those that run are cancelled.
Dispose ==
    /\ ~disposed
    /\ disposed' = TRUE
    /\ job' = [j \in Jobs |->
                  LET J == [job[j] EXCEPT !.known = FALSE]
                  IN  IF Cancellable(j) THEN Cancelled(J) ELSE J]
    /\ UNCHANGED <<fs, spec, seen, given, errors>>

-----------------------------------------------------------------------------
\* The runner: an answer of the file system, and what the runner does until its next call.

\* scanEntry; a source that is gone fails the job.
Scan(j) ==
    /\ At(j, "scan")
    /\ LET J == job[j]
           n == Len(spec[j].sources)
       IN  Change(j, CASE fs[Source(j)] = NoFile \/ J.aborted -> Thrown(J)
                       [] fs[Source(j)] # NoFile /\ ~J.aborted /\ J.i < n -> [J EXCEPT !.i = @ + 1]
                       [] fs[Source(j)] # NoFile /\ ~J.aborted /\ J.i = n ->
                             NextEntry([J EXCEPT !.i = 0], spec[j]))
    /\ UNCHANGED <<fs, spec, given, errors, disposed>>

\* copyEntry, placeCopy, placeMove: a link cannot be copied; a file whose name is taken is
\* asked about; a move to where the file is moves nothing.
Look(j) ==
    /\ At(j, "look")
    /\ LET J == job[j]
           dst == Destination(J, spec[j])
           taken == fs[dst] # NoFile
           refused == spec[j].op = "copy" /\ IsLink(J, spec[j])
       IN  \/ /\ refused
              /\ Change(j, refuseEntry(J, spec[j]))
           \/ /\ ~refused /\ ~taken
              /\ Change(j, Place([J EXCEPT !.target = dst], spec[j]))
           \/ /\ ~refused /\ taken
              /\ Change(j, IF spec[j].op = "move" /\ InPlace(J, spec[j])
                           THEN Placed(J, spec[j])
                           ELSE askConflict([J EXCEPT !.target = dst], spec[j]))
    /\ UNCHANGED <<fs, spec, given, errors, disposed>>

\* freeSiblingName
Name(j) ==
    /\ At(j, "name")
    /\ LET J == job[j]
           free == {n \in 2 .. MaxNumber : fs[[J.target EXCEPT !.nr = n]] = NoFile}
       IN  /\ free # {}
           /\ Change(j, Place([J EXCEPT !.target.nr = CHOOSE n \in free : \A m \in free : n <= m],
                              spec[j]))
    /\ UNCHANGED <<fs, spec, given, errors, disposed>>

\* What is at a path is replaced or removed; it is the user's wish if there is consent.
Replaces(j, path) ==
    given' = IF fs[path] # NoFile /\ Consent(j) THEN given \cup {fs[path]} ELSE given

\* The rename of a move: atomic, but it replaces whatever is there by now.
Rename(j) ==
    /\ At(j, "rename")
    /\ LET J == job[j]
       IN  CASE spec[j].crossDevice ->
                   /\ Change(j, IF IsLink(J, spec[j]) THEN refuseEntry(J, spec[j]) ELSE Write(J))
                   /\ UNCHANGED <<fs, given>>
             [] ~spec[j].crossDevice /\ fs[Source(j)] = NoFile ->
                   /\ Change(j, Failed(J, spec[j]))
                   /\ UNCHANGED <<fs, given>>
             [] ~spec[j].crossDevice /\ fs[Source(j)] # NoFile ->
                   /\ fs' = [fs EXCEPT ![J.target] = fs[Source(j)], ![Source(j)] = NoFile]
                   /\ Replaces(j, J.target)
                   /\ Change(j, Placed(J, spec[j]))
    /\ UNCHANGED <<spec, errors, disposed>>

\* copyFileStream opens the source and a temporary file beside the target.
Open(j) ==
    /\ At(j, "open")
    /\ Change(j, IF fs[Source(j)] = NoFile
                 THEN Failed(job[j], spec[j])
                 ELSE [job[j] EXCEPT !.pc = "stream", !.temp = fs[Source(j)]])
    /\ UNCHANGED <<fs, spec, given, errors, disposed>>

\* The temporary file is complete; one that exists is replaced, a new one is put in place.
StreamEnds(j) ==
    /\ At(j, "stream")
    /\ Change(j, [job[j] EXCEPT !.pc = CASE job[j].replace -> "put"
                                         [] ~job[j].replace /\ spec[j].hardLinks -> "link"
                                         [] ~job[j].replace /\ ~spec[j].hardLinks -> "relook"])
    /\ UNCHANGED <<fs, spec, given, errors, disposed>>

\* The stream of a cancelled job is cut, and what it wrote is removed.
StreamStops(j) ==
    /\ At(j, "stream") /\ job[j].aborted
    /\ Change(j, Thrown(Cleaned(job[j])))
    /\ UNCHANGED <<fs, spec, given, errors, disposed>>

\* A placed copy is what a copy wants; a move removes the source then.
AfterWrite(j) ==
    LET J == [Cleaned(job[j]) EXCEPT !.pc = "unlink"]
    IN  Change(j, IF spec[j].op = "move" THEN J ELSE Placed(J, spec[j]))

\* A mutant of Link: it replaces what is there.
LinkOver(j) ==
    /\ At(j, "link")
    /\ fs' = [fs EXCEPT ![job[j].target] = job[j].temp]
    /\ AfterWrite(j)
    /\ UNCHANGED <<spec, given, errors, disposed>>

\* placeNew: a hard link takes a name only if it is free.
Link(j) ==
    /\ At(j, "link")
    /\ IF fs[job[j].target] # NoFile
       THEN Change(j, Failed(job[j], spec[j])) /\ UNCHANGED fs
       ELSE /\ fs' = [fs EXCEPT ![job[j].target] = job[j].temp]
            /\ AfterWrite(j)
    /\ UNCHANGED <<spec, given, errors, disposed>>

\* placeNew on a volume without hard links: look again, then rename.
Relook(j) ==
    /\ At(j, "relook")
    /\ Change(j, IF fs[job[j].target] # NoFile
                 THEN Failed(job[j], spec[j])
                 ELSE [job[j] EXCEPT !.pc = "put"])
    /\ UNCHANGED <<fs, spec, given, errors, disposed>>

Put(j) ==
    /\ At(j, "put")
    /\ fs' = [fs EXCEPT ![job[j].target] = job[j].temp]
    /\ Replaces(j, job[j].target)
    /\ AfterWrite(j)
    /\ UNCHANGED <<spec, errors, disposed>>

\* The source of a copied file, or the file to be deleted, is removed.
Unlink(j) ==
    /\ At(j, "unlink")
    /\ IF fs[Source(j)] = NoFile
       THEN Change(j, Failed(job[j], spec[j])) /\ UNCHANGED <<fs, given>>
       ELSE /\ fs' = [fs EXCEPT ![Source(j)] = NoFile]
            /\ given' = IF spec[j].op = "delete" THEN given \cup {fs[Source(j)]} ELSE given
            /\ Change(j, Placed(job[j], spec[j]))
    /\ UNCHANGED <<spec, errors, disposed>>

\* A call fails: the disk is full, the file is locked, access is denied.
FsError(j) ==
    /\ errors < MaxErrors
    /\ errors' = errors + 1
    /\ \/ At(j, "scan") /\ Change(j, Thrown(job[j]))
       \/ /\ job[j].pc \in {"look", "name", "rename", "open", "stream", "link", "relook", "put", "unlink"}
          /\ Change(j, Failed(job[j], spec[j]))
    /\ UNCHANGED <<fs, spec, given, disposed>>

\* The path the runner is about to write to is refused (its session is gone): no question.
PathRefused(j) ==
    /\ errors < MaxErrors
    /\ errors' = errors + 1
    /\ job[j].pc \in {"rename", "open"}
    /\ Change(j, Thrown(job[j]))
    /\ UNCHANGED <<fs, spec, given, disposed>>

-----------------------------------------------------------------------------
Runner(j) ==
    \/ \E allowed \in BOOLEAN : Validated(j, allowed)
    \/ Scan(j) \/ Look(j) \/ Name(j) \/ Rename(j) \/ Open(j) \/ StreamEnds(j) \/ StreamStops(j)
    \/ Link(j) \/ Relook(j) \/ Put(j) \/ Unlink(j)

Next ==
    \/ \E j \in Jobs :
          \/ Start(j) \/ Cancel(j) \/ AwaitTimeout(j) \/ Retire(j) \/ Runner(j)
          \/ FsError(j) \/ PathRefused(j)
          \/ \E q \in seen[j], choice \in {"skip", "retry", "rename", "overwrite"}, all \in BOOLEAN :
                Decide(j, q, choice, all)
    \/ \E session \in UNION {spec[j].sessions : j \in Jobs} : CloseSession(session)
    \/ Tick \/ Dispose

Spec == Init /\ [][Next]_vars

\* The file system answers and the clock goes on; nobody has to answer a question.
Fairness ==
    /\ \A j \in Jobs : WF_vars(Runner(j)) /\ WF_vars(AwaitTimeout(j))
    /\ WF_vars(Tick)

FairSpec == Spec /\ Fairness

-----------------------------------------------------------------------------
\* Every variable keeps its type: the Job of fileJobManager.ts:143-172.
TypeOK ==
    /\ fs \in [Paths -> Files \cup {NoFile}]
    /\ \A j \in Jobs :
          LET J == job[j]
          IN  /\ {J.known, J.aborted, J.replace} \subseteq BOOLEAN
              /\ J.i \in DOMAIN spec[j].sources
              /\ J.target \in Paths \cup {NoPath} /\ J.temp \in Files \cup {NoFile}
              /\ J.pc = "asking" <=> J.pending # NoQuestion
              /\ J.pending # NoQuestion => J.state = "awaiting-decision" /\ J.pending \in seen[j]
              /\ J.left \in 0 .. Budget
              /\ J.result \in {"none", J.state}
    /\ given \subseteq Files

\* FR-FOP-005 AC-9 and the comment at fileJobRunner.ts:693-697: jobs that run at the same
\* time, fail, are cancelled or cut short by a crash lose no file; only the user gives one
\* up, by overwriting or deleting it.
NothingLost ==
    \A file \in Files : file \in given \/ \E p \in Paths : fs[p] = file

\* Every variable keeps its type, and no file is lost but by consent: both of the above.
FilesKept == TypeOK /\ NothingLost

\* FR-FOP-004 AC-8: a completed job has placed or removed every entry, but for those the
\* user told it to skip: that one, or all of its kind, which errors of the file system are not.
CompletedAsAsked ==
    \A j \in Jobs : job[j].result = "completed" =>
        \A i \in DOMAIN spec[j].sources :
            \/ i \in job[j].placed
            \/ \E x \in job[j].skipped, a \in job[j].answers :
                  /\ x.entry = i /\ a.choice = "skip" /\ a.class = x.class
                  /\ a.entry = i \/ (a.all /\ x.class # "fs-error")

\* FR-FOP-005 AC-2: a job that has ended, or waits for the user, has no half-written file.
NoTempLeft ==
    \A j \in Jobs : job[j].pc \in {"ended", "asking"} => job[j].temp = NoFile

\* FR-FOP-003 AC-4: however often it asks, a job waits for no longer than its budget.
AwaitBudget == \A j \in Jobs : job[j].awaited <= Budget

\* FR-FOP-005: a cancelled job asks nothing more and begins no other entry.
CancelStops ==
    [][\A j \in Jobs :
          job[j].aborted => job'[j].i = job[j].i /\ job'[j].pending = NoQuestion]_vars

Lifecycle == INSTANCE FileJobLifecycle WITH state <- [j \in Jobs |-> job[j].state]

\* FR-FOP-001 AC-1 to AC-4: the state that the manager tells goes through the table of
\* fileJobState.ts, and the last state is the last.
FollowsLifecycle == Lifecycle!Spec

\* FR-FOP-003 AC-4: a job that was started ends, even if nobody answers it.
JobsEnd == \A j \in Jobs : At(j, "validate") ~> At(j, "ended")
=============================================================================
