----------------------------- MODULE FileJobRun -----------------------------
(***************************************************************************)
(* One file job: what the manager keeps of it (the Job of                  *)
(* server/src/services/fileJobs/fileJobManager.ts) and how far its runner  *)
(* is (JobRun of fileJobRunner.ts), in one record J.  The operators are    *)
(* the code that runs without waiting: from the answer of the file system, *)
(* of the user or of a timer to the next call of the file system.          *)
(*                                                                         *)
(* J.pc names the call of the file system that was made last and has not   *)
(* answered; "asking" waits for the user.  The entries of a job are files  *)
(* and links; directories are left out.                                    *)
(***************************************************************************)
EXTENDS Integers, Sequences, FiniteSets

CONSTANTS
    Dirs,           \* folders
    Bases,          \* file names without the number of a collision
    MaxNumber,      \* bound of the model: names `f', `f (2)', ... `f (MaxNumber)'
    Budget          \* FILE_JOB_AWAIT_BUDGET_MS, in ticks of the clock

Path(dir, base, nr) == [dir |-> dir, base |-> base, nr |-> nr]
Paths == {Path(d, b, n) : d \in Dirs, b \in Bases, n \in 1 .. MaxNumber}
NoFile == Path("", "", 0)
NoPath == NoFile

\* What a job was started with; crossDevice and hardLinks say what the volumes allow.
FileJobSpec ==
    [op : {"copy", "move", "delete"}, sources : Seq(Paths) \ {<<>>}, links : SUBSET Nat, dest : Dirs,
     crossDevice : BOOLEAN, hardLinks : BOOLEAN, sessions : SUBSET STRING]

QuestionClass == {"conflict", "refusal", "fs-error"}
NoQuestion == [id |-> 0]

newJob ==
    [known |-> FALSE, state |-> "queued", aborted |-> FALSE, result |-> "none",
     pending |-> NoQuestion, asks |-> 0, left |-> 0, awaited |-> 0,
     always |-> [c \in QuestionClass |-> "none"],
     pc |-> "idle", again |-> "look", i |-> 1, target |-> NoPath, replace |-> FALSE, temp |-> NoFile,
     answers |-> {}, skipped |-> {}, placed |-> {}]

Destination(J, s) == [s.sources[J.i] EXCEPT !.dir = s.dest]
InPlace(J, s) == s.sources[J.i] = Destination(J, s)
IsLink(J, s) == J.i \in s.links

\* The job ends; one that dispose has forgotten leaves no result.
finish(J, outcome) ==
    [J EXCEPT !.pc = "ended", !.state = outcome, !.pending = NoQuestion, !.left = 0,
              !.result = IF J.known THEN outcome ELSE "none",
              !.always = newJob.always]

\* The catch of run: whatever was thrown after a cancel counts as the cancel.
Thrown(J) == finish(J, IF J.aborted THEN "cancelled" ELSE "failed")

\* The next entry, unless the job was cancelled (a mutant: even then).
NextEntryAnyway(J, s) ==
    IF J.i = Len(s.sources)
    THEN finish(J, "completed")
    ELSE [J EXCEPT !.i = @ + 1, !.target = NoPath, !.replace = FALSE,
                   !.pc = IF s.op = "delete" THEN "unlink" ELSE "look"]
NextEntry(J, s) ==
    CASE J.i = Len(s.sources)                -> finish(J, "completed")
      [] J.i < Len(s.sources) /\ J.aborted   -> Thrown(J)
      [] J.i < Len(s.sources) /\ ~J.aborted  ->
            [J EXCEPT !.i = @ + 1, !.target = NoPath, !.replace = FALSE,
                      !.pc = IF s.op = "delete" THEN "unlink" ELSE "look"]

Skip(J, s, class) ==
    NextEntry([J EXCEPT !.skipped = @ \cup {[entry |-> J.i, class |-> class]}], s)
Placed(J, s) == NextEntry([J EXCEPT !.placed = @ \cup {J.i}], s)

\* writeFile
Write(J) == IF J.aborted THEN Thrown(J) ELSE [J EXCEPT !.pc = "open"]

\* A move tries one rename first.
Place(J, s) == IF s.op = "move" THEN [J EXCEPT !.pc = "rename"] ELSE Write(J)

\* The runner goes on with an answer.
Answered(J, s, class, choice) ==
    LET R == [J EXCEPT !.pending = NoQuestion, !.state = "running", !.left = 0]
    IN  CASE choice = "skip"      -> Skip(R, s, class)
          [] choice = "retry"     -> [R EXCEPT !.pc = R.again]
          [] choice = "rename"    -> [R EXCEPT !.pc = "name"]
          [] choice = "overwrite" -> Place([R EXCEPT !.replace = TRUE], s)

\* How long a question may wait (a mutant: each gets the whole budget).
WholeBudget(J) == Budget
Remaining(J) == Budget - J.awaited

\* The answer that was given for all questions of a class (a mutant: errors are
\* of the class of refusals).
RememberedByKind(J, class) == J.always[IF class = "conflict" THEN class ELSE "refusal"]
Remembered(J, class) == IF class = "fs-error" THEN "none" ELSE J.always[class]

\* ask and askUser
Ask(J, s, class, choices) ==
    CASE J.aborted -> Thrown(J)
      [] ~J.aborted /\ Remembered(J, class) \in choices ->
            Answered(J, s, class, Remembered(J, class))
      [] ~J.aborted /\ Remembered(J, class) \notin choices ->
            [J EXCEPT !.state = "awaiting-decision", !.left = Remaining(J), !.asks = @ + 1, !.pc = "asking",
                      !.pending = [id |-> J.asks + 1, entry |-> J.i, class |-> class,
                                   choices |-> choices]]

askConflict(J, s) ==
    Ask(J, s, "conflict", {"rename", "skip"} \cup
            IF InPlace(J, s) \/ IsLink(J, s) THEN {} ELSE {"overwrite"})

refuseEntry(J, s) == Ask(J, s, "refusal", {"skip"})

\* A mutant of Cleaned: only an error before the file was written removes it.
CleanedEarly(J) == IF J.pc \in {"open", "stream"} THEN [J EXCEPT !.temp = NoFile] ELSE J
Cleaned(J) == [J EXCEPT !.temp = NoFile]

\* A call of the file system failed: what was being written is removed, and the entry may
\* be tried again from its start; a source that was copied is only removed again.
Failed(J, s) ==
    Ask([Cleaned(J) EXCEPT !.again = IF J.pc = "unlink" THEN "unlink" ELSE "look",
                           !.replace = FALSE, !.target = NoPath],
        s, "fs-error", {"retry", "skip"})

\* Cancel, by the user, by a session that closes or by the timer: the runner leaves a
\* question at once and everything else at its next check.  Mutants: the state says so at
\* once, or the question is kept.
CancelledEarly(J) ==
    LET R == [J EXCEPT !.aborted = TRUE, !.state = "cancelled"]
    IN  IF J.pending = NoQuestion THEN R ELSE Thrown(R)
CancelledAsking(J) == [J EXCEPT !.aborted = TRUE]
Cancelled(J) ==
    LET R == [J EXCEPT !.aborted = TRUE]
    IN  IF J.pending = NoQuestion THEN R ELSE Thrown(R)

\* decide: an answer to the present question, kept for all of its class if that was asked for.
decide(J, s, q, choice, all) ==
    LET R == [J EXCEPT !.always[q.class] = IF all /\ q.class # "fs-error" THEN choice ELSE @]
    IN  IF J.pending # q \/ choice \notin q.choices THEN J ELSE Answered(R, s, q.class, choice)
=============================================================================
