--------------------------- MODULE FileJobsProofs ---------------------------
(***************************************************************************)
(* Proofs about FileJobs, for any jobs on any files: how long a job waits, *)
(* what it leaves half-written, what a cancel stops, the states a job goes *)
(* through, and what a job has done that is told completed.                *)
(*                                                                         *)
(* None of them is inductive by itself.  Sound says how the parts of a job *)
(* go together: where its runner is, what the manager says of it, whether  *)
(* it asks, and that what is left of a question's time and what the job    *)
(* has waited already make up its budget.  Keeps adds, for the last of     *)
(* them, what the runner has settled on its way to where it is, and that   *)
(* an answer it remembers was given.                                       *)
(***************************************************************************)
EXTENDS FileJobs, TLAPS

Fields ==
    {"known", "state", "aborted", "result", "pending", "asks", "left", "awaited", "always", "pc",
     "again", "i", "target", "replace", "temp", "answers", "skipped", "placed"}

Last == {"completed", "cancelled", "failed"}
Calls == {"validate", "scan", "look", "name", "rename", "open", "stream", "link", "relook", "put",
          "unlink"}
Writing == {"stream", "link", "relook", "put"}
Choices == {"skip", "retry", "rename", "overwrite"}

\* J is a job with n entries.
Shape(J, n) ==
    /\ DOMAIN J = Fields
    /\ J.i \in 1 .. n
    /\ J.aborted \in BOOLEAN
    /\ J.awaited \in 0 .. Budget
    /\ J.again \in Calls

Asks(J) ==
    /\ J.pc = "asking" /\ J.pending # NoQuestion /\ J.state = "awaiting-decision"
    /\ ~J.aborted /\ J.temp = NoFile
    /\ J.left \in Nat /\ J.left + J.awaited = Budget

Sound(J, n) ==
    /\ Shape(J, n)
    /\ \/ Asks(J)
       \/ J.pending = NoQuestion /\ J.pc = "idle" /\ J.state = "queued" /\ J.temp = NoFile
       \/ J.pending = NoQuestion /\ J.pc = "ended" /\ J.state \in Last /\ J.temp = NoFile
       \/ /\ J.pending = NoQuestion /\ J.pc \in Calls /\ J.state = "running"
          /\ J.pc \in Writing \/ J.temp = NoFile

\* J runs; on its way to its next call it has cleaned up what it was writing.
Running(J, n) == Shape(J, n) /\ J.pending = NoQuestion /\ J.state = "running"
Runs(J, n) == Running(J, n) /\ J.temp = NoFile

\* J may become K: a cancelled job asks nothing and begins nothing, and none is queued again.
Goes(J, K, n) ==
    /\ Sound(K, n)
    /\ J.aborted => K.i = J.i /\ K.pending = NoQuestion
    /\ K.state # "queued"

IInv ==
    /\ DOMAIN job = Jobs /\ DOMAIN seen = Jobs
    /\ \A j \in Jobs : /\ Len(spec[j].sources) \in Nat \ {0}
                       /\ Sound(job[j], Len(spec[j].sources))
                       /\ NoQuestion \notin seen[j]

-----------------------------------------------------------------------------
\* What the operators of FileJobRun make of a job.

LEMMA FinishGoes ==
    ASSUME NEW n \in Nat, NEW J, Shape(J, n), J.temp = NoFile, NEW o \in Last
    PROVE  Goes(J, finish(J, o), n)
BY DEF Goes, Sound, Shape, finish, Fields, newJob, Last

LEMMA ThrownGoes ==
    ASSUME NEW n \in Nat, NEW J, Shape(J, n), J.temp = NoFile
    PROVE  Goes(J, Thrown(J), n)
<1>1. CASE J.aborted
  BY <1>1, FinishGoes DEF Thrown, Last
<1>2. CASE ~J.aborted
  BY <1>2, FinishGoes DEF Thrown, Last
<1> QED  BY <1>1, <1>2

\* The runner moves to its next call.
LEMMA CallGoes ==
    ASSUME NEW n \in Nat, NEW J, Runs(J, n), NEW c \in Calls
    PROVE  Goes(J, [J EXCEPT !.pc = c], n)
BY DEF Goes, Sound, Runs, Running, Shape, Fields, Calls

LEMMA WritingGoes ==
    ASSUME NEW n \in Nat, NEW J, Running(J, n), NEW c \in Writing
    PROVE  Goes(J, [J EXCEPT !.pc = c], n)
BY DEF Goes, Sound, Running, Shape, Fields, Calls, Writing

LEMMA NextEntryGoes ==
    ASSUME NEW s, NEW n \in Nat, n = Len(s.sources), NEW J, Runs(J, n)
    PROVE  Goes(J, NextEntry(J, s), n)
<1>0. J.i \in 1 .. n /\ J.aborted \in BOOLEAN
  BY DEF Runs, Running, Shape
<1>1. CASE J.i = n
  <2>1. NextEntry(J, s) = finish(J, "completed")
    BY <1>0, <1>1 DEF NextEntry
  <2> QED  BY <2>1, FinishGoes DEF Runs, Running, Last
<1>2. CASE J.i < n /\ J.aborted
  <2>1. NextEntry(J, s) = Thrown(J)
    BY <1>0, <1>2 DEF NextEntry
  <2> QED  BY <2>1, ThrownGoes DEF Runs, Running
<1>3. CASE J.i < n /\ ~J.aborted
  <2>1. NextEntry(J, s) = [J EXCEPT !.i = @ + 1, !.target = NoPath, !.replace = FALSE,
                                    !.pc = IF s.op = "delete" THEN "unlink" ELSE "look"]
    BY <1>0, <1>3 DEF NextEntry
  <2> QED  BY <1>0, <1>3, <2>1 DEF Goes, Sound, Runs, Running, Shape, Fields, Calls
<1> QED  BY <1>0, <1>1, <1>2, <1>3

\* The first entry, after the scan.
LEMMA FirstEntryGoes ==
    ASSUME NEW s, NEW n \in Nat \ {0}, n = Len(s.sources), NEW J, Runs(J, n), ~J.aborted
    PROVE  Goes(J, NextEntry([J EXCEPT !.i = 0], s), n)
<1> DEFINE R == [J EXCEPT !.i = 0]
<1>1. /\ DOMAIN R = Fields /\ R.i = 0 /\ R.aborted = FALSE /\ R.awaited = J.awaited
      /\ R.again = J.again /\ R.temp = NoFile /\ R.pending = NoQuestion /\ R.state = "running"
      /\ J.awaited \in 0 .. Budget /\ J.again \in Calls
  BY DEF Runs, Running, Shape, Fields
<1> HIDE DEF R
<1>2. NextEntry(R, s) = [R EXCEPT !.i = @ + 1, !.target = NoPath, !.replace = FALSE,
                                  !.pc = IF s.op = "delete" THEN "unlink" ELSE "look"]
  BY <1>1 DEF NextEntry
<1> DEFINE K == NextEntry(R, s)
<1>3. /\ DOMAIN K = Fields /\ K.i = 1 /\ K.aborted = FALSE /\ K.awaited = R.awaited
      /\ K.again = R.again /\ K.temp = NoFile /\ K.pending = NoQuestion /\ K.state = "running"
  BY <1>1, <1>2 DEF Fields
<1>4. K.pc \in {"unlink", "look"}
  BY <1>1, <1>2 DEF Fields
<1> HIDE DEF K
<1>5. Shape(K, n)
  <2>1. K.awaited \in 0 .. Budget /\ K.again \in Calls
    BY <1>1, <1>3
  <2>2. K.i \in 1 .. n
    BY <1>3
  <2>3. K.aborted \in BOOLEAN
    BY <1>3
  <2> QED  BY <1>3, <2>1, <2>2, <2>3 DEF Shape
<1>6. Goes(J, K, n)
  BY <1>3, <1>4, <1>5 DEF Goes, Sound, Calls
<1> QED  BY <1>6 DEF K, R

LEMMA SkipGoes ==
    ASSUME NEW s, NEW n \in Nat, n = Len(s.sources), NEW J, Runs(J, n), NEW class
    PROVE  Goes(J, Skip(J, s, class), n)
<1> DEFINE R == [J EXCEPT !.skipped = @ \cup {[entry |-> J.i, class |-> class]}]
<1>1. Runs(R, n) /\ R.i = J.i /\ R.aborted = J.aborted
  BY DEF Runs, Running, Shape, Fields
<1>2. Goes(R, NextEntry(R, s), n)
  BY <1>1, NextEntryGoes
<1> QED  BY <1>1, <1>2 DEF Goes, Skip

LEMMA PlacedGoes ==
    ASSUME NEW s, NEW n \in Nat, n = Len(s.sources), NEW J, Runs(J, n)
    PROVE  Goes(J, Placed(J, s), n)
<1> DEFINE R == [J EXCEPT !.placed = @ \cup {J.i}]
<1>1. Runs(R, n) /\ R.i = J.i /\ R.aborted = J.aborted
  BY DEF Runs, Running, Shape, Fields
<1>2. Goes(R, NextEntry(R, s), n)
  BY <1>1, NextEntryGoes
<1> QED  BY <1>1, <1>2 DEF Goes, Placed

LEMMA WriteGoes ==
    ASSUME NEW n \in Nat, NEW J, Runs(J, n)
    PROVE  Goes(J, Write(J), n)
<1>1. CASE J.aborted
  BY <1>1, ThrownGoes DEF Write, Runs, Running
<1>2. CASE ~J.aborted
  BY <1>2, CallGoes DEF Write, Calls
<1> QED  BY <1>1, <1>2

LEMMA PlaceGoes ==
    ASSUME NEW s, NEW n \in Nat, NEW J, Runs(J, n)
    PROVE  Goes(J, Place(J, s), n)
<1>1. CASE s.op = "move"
  BY <1>1, CallGoes DEF Place, Calls
<1>2. CASE s.op # "move"
  BY <1>2, WriteGoes DEF Place
<1> QED  BY <1>1, <1>2

LEMMA AnsweredGoes ==
    ASSUME NEW s, NEW n \in Nat, n = Len(s.sources), NEW J, Shape(J, n), J.temp = NoFile, NEW class,
           NEW choice \in Choices
    PROVE  Goes(J, Answered(J, s, class, choice), n)
<1> DEFINE R == [J EXCEPT !.pending = NoQuestion, !.state = "running", !.left = 0]
<1>1. Runs(R, n) /\ R.i = J.i /\ R.aborted = J.aborted
  BY DEF Runs, Running, Shape, Fields
<1>2. CASE choice = "skip"
  <2>1. Answered(J, s, class, choice) = Skip(R, s, class)
    BY <1>2 DEF Answered
  <2>2. Goes(R, Skip(R, s, class), n)
    BY <1>1, SkipGoes
  <2> QED  BY <1>1, <2>1, <2>2 DEF Goes
<1>3. CASE choice = "retry"
  <2>1. Answered(J, s, class, choice) = [R EXCEPT !.pc = R.again]
    BY <1>3 DEF Answered
  <2>2. Goes(R, [R EXCEPT !.pc = R.again], n)
    BY <1>1, CallGoes DEF Runs, Running, Shape
  <2> QED  BY <1>1, <2>1, <2>2 DEF Goes
<1>4. CASE choice = "rename"
  <2>1. Answered(J, s, class, choice) = [R EXCEPT !.pc = "name"]
    BY <1>4 DEF Answered
  <2>2. Goes(R, [R EXCEPT !.pc = "name"], n)
    BY <1>1, CallGoes DEF Calls
  <2> QED  BY <1>1, <2>1, <2>2 DEF Goes
<1>5. CASE choice = "overwrite"
  <2> DEFINE P == [R EXCEPT !.replace = TRUE]
  <2>1. Answered(J, s, class, choice) = Place(P, s)
    BY <1>5 DEF Answered
  <2>2. Runs(P, n) /\ P.i = J.i /\ P.aborted = J.aborted
    BY <1>1 DEF Runs, Running, Shape, Fields
  <2>3. Goes(P, Place(P, s), n)
    BY <2>2, PlaceGoes
  <2> QED  BY <2>1, <2>2, <2>3 DEF Goes
<1> QED  BY <1>2, <1>3, <1>4, <1>5 DEF Choices

LEMMA AskGoes ==
    ASSUME NEW s, NEW n \in Nat, n = Len(s.sources), NEW J, Runs(J, n), NEW class,
           NEW choices \in SUBSET Choices
    PROVE  Goes(J, Ask(J, s, class, choices), n)
<1>0. J.aborted \in BOOLEAN /\ Shape(J, n) /\ J.temp = NoFile
  BY DEF Runs, Running, Shape
<1>1. CASE J.aborted
  <2>1. Ask(J, s, class, choices) = Thrown(J)
    BY <1>0, <1>1 DEF Ask
  <2> QED  BY <1>0, <2>1, ThrownGoes
<1>2. CASE ~J.aborted /\ Remembered(J, class) \in choices
  <2>1. Ask(J, s, class, choices) = Answered(J, s, class, Remembered(J, class))
    BY <1>0, <1>2 DEF Ask
  <2> QED  BY <1>0, <1>2, <2>1, AnsweredGoes
<1>3. CASE ~J.aborted /\ Remembered(J, class) \notin choices
  <2> DEFINE q == [id |-> J.asks + 1, entry |-> J.i, class |-> class, choices |-> choices]
  <2>1. Ask(J, s, class, choices) =
            [J EXCEPT !.state = "awaiting-decision", !.left = Remaining(J), !.asks = @ + 1,
                      !.pc = "asking", !.pending = q]
    BY <1>0, <1>3 DEF Ask
  <2>2. q # NoQuestion
    <3>1. "class" \in DOMAIN q /\ "class" \notin DOMAIN NoQuestion
      BY DEF NoQuestion
    <3> QED  BY <3>1
  <2>3. Remaining(J) \in Nat /\ Remaining(J) + J.awaited = Budget
    BY FileJobAssumption DEF Remaining, Runs, Running, Shape
  <2> HIDE DEF q
  <2> QED  BY <1>3, <2>1, <2>2, <2>3 DEF Goes, Sound, Asks, Runs, Running, Shape, Fields
<1> QED  BY <1>0, <1>1, <1>2, <1>3

LEMMA RefuseGoes ==
    ASSUME NEW s, NEW n \in Nat, n = Len(s.sources), NEW J, Runs(J, n)
    PROVE  Goes(J, refuseEntry(J, s), n)
BY AskGoes DEF refuseEntry, Choices

LEMMA ConflictGoes ==
    ASSUME NEW s, NEW n \in Nat, n = Len(s.sources), NEW J, Runs(J, n)
    PROVE  Goes(J, askConflict(J, s), n)
BY AskGoes DEF askConflict, Choices

LEMMA FailedGoes ==
    ASSUME NEW s, NEW n \in Nat, n = Len(s.sources), NEW J, Running(J, n)
    PROVE  Goes(J, Failed(J, s), n)
<1> DEFINE R == [Cleaned(J) EXCEPT !.again = IF J.pc = "unlink" THEN "unlink" ELSE "look",
                                   !.replace = FALSE, !.target = NoPath]
<1>1. Runs(R, n) /\ R.i = J.i /\ R.aborted = J.aborted
  BY DEF Runs, Running, Shape, Fields, Cleaned, Calls
<1>2. Goes(R, Ask(R, s, "fs-error", {"retry", "skip"}), n)
  BY <1>1, AskGoes DEF Choices
<1> QED  BY <1>1, <1>2 DEF Goes, Failed

\* A cancel never brings a job to another entry, and what it asked is withdrawn.
LEMMA CancelledGoes ==
    ASSUME NEW n \in Nat, NEW J, Sound(J, n)
    PROVE  LET K == Cancelled(J)
           IN  Sound(K, n) /\ K.i = J.i /\ K.pending = NoQuestion /\ K.state \in {J.state, "cancelled"}
               /\ (K.state # J.state => J.state = "awaiting-decision")
<1> DEFINE R == [J EXCEPT !.aborted = TRUE]
<1>1. Shape(R, n) /\ R.aborted /\ R.i = J.i /\ R.pc = J.pc /\ R.state = J.state /\ R.pending = J.pending
      /\ R.temp = J.temp
  BY DEF Sound, Shape, Fields
<1>2. CASE J.pending = NoQuestion
  <2>1. Cancelled(J) = R
    BY <1>2 DEF Cancelled
  <2>2. Sound(R, n)
    BY <1>1, <1>2 DEF Sound, Asks, Last
  <2> QED  BY <1>1, <1>2, <2>1, <2>2
<1>3. CASE J.pending # NoQuestion
  <2>1. Cancelled(J) = finish(R, "cancelled")
    BY <1>1, <1>3 DEF Cancelled, Thrown
  <2>2. Goes(R, finish(R, "cancelled"), n)
    BY <1>1, <1>3, FinishGoes DEF Last, Sound, Asks
  <2>3. finish(R, "cancelled").state = "cancelled"
    BY <1>1 DEF finish, Shape, Fields
  <2>4. J.state = "awaiting-decision"
    BY <1>3 DEF Sound, Asks
  <2> QED  BY <1>1, <2>1, <2>2, <2>3, <2>4 DEF Goes
<1> QED  BY <1>2, <1>3

-----------------------------------------------------------------------------
\* Steps.

Moves(J, K) ==
    /\ J.aborted => K.i = J.i /\ K.pending = NoQuestion
    /\ \/ K.state = J.state
       \/ J.state = "queued" /\ K.state = "running"
       \/ J.state \in {"running", "awaiting-decision"} /\ K.state # "queued"

Entries(j) == Len(spec[j].sources)

StepKept == IInv' /\ \A k \in Jobs : Moves(job[k], job'[k])

LEMMA Parts ==
    ASSUME IInv, NEW j \in Jobs
    PROVE  /\ Entries(j) \in Nat \ {0} /\ Sound(job[j], Entries(j)) /\ NoQuestion \notin seen[j]
           /\ Shape(job[j], Entries(j))
BY DEF IInv, Entries, Sound

\* One job changes.
LEMMA ChangeStep ==
    ASSUME IInv, NEW j \in Jobs, NEW K, Change(j, K), UNCHANGED spec,
           Sound(K, Entries(j)), Moves(job[j], K)
    PROVE  StepKept
<1>1. DOMAIN job' = Jobs /\ \A k \in Jobs : job'[k] = IF k = j THEN K ELSE job[k]
  BY DEF Change, IInv
<1>2. DOMAIN seen' = Jobs /\ \A k \in Jobs : NoQuestion \notin seen'[k]
  <2>1. CASE K.pending = NoQuestion
    BY <2>1 DEF Change, IInv
  <2>2. CASE K.pending # NoQuestion
    BY <2>2 DEF Change, IInv
  <2> QED  BY <2>1, <2>2
<1>3. \A k \in Jobs : Entries(k)' = Entries(k)
  BY DEF Entries
<1>4. ASSUME NEW k \in Jobs
      PROVE  Len(spec'[k].sources) \in Nat \ {0} /\ Sound(job'[k], Len(spec'[k].sources))
             /\ Moves(job[k], job'[k])
  <2>1. CASE k = j
    BY <1>1, <2>1, Parts DEF Entries
  <2>2. CASE k # j
    BY <1>1, <2>2, Parts DEF Entries, Moves, Sound, Asks
  <2> QED  BY <2>1, <2>2
<1> QED  BY <1>1, <1>2, <1>4 DEF StepKept, IInv

\* The runner of a job goes on.
LEMMA RunnerStep ==
    ASSUME IInv, NEW j \in Jobs, NEW K, Change(j, K), UNCHANGED spec,
           job[j].state = "running", Goes(job[j], K, Entries(j))
    PROVE  StepKept
<1>1. Moves(job[j], K)
  BY DEF Goes, Moves
<1> QED  BY <1>1, ChangeStep DEF Goes

\* What a step of the runner starts from.
LEMMA RunsHere ==
    ASSUME IInv, NEW j \in Jobs, job[j].pc \in Calls
    PROVE  /\ Running(job[j], Entries(j)) /\ job[j].state = "running"
           /\ job[j].pc \notin Writing => Runs(job[j], Entries(j))
BY Parts DEF Sound, Asks, Runs, Running, Calls

LEMMA ScanStep ==
    ASSUME IInv, NEW j \in Jobs, Scan(j)
    PROVE  StepKept
<1> DEFINE J == job[j]
           n == Entries(j)
<1>0. Runs(J, n) /\ J.state = "running" /\ n \in Nat \ {0} /\ n = Len(spec[j].sources)
  BY RunsHere, Parts DEF Scan, At, Calls, Writing, Entries
<1>1. CASE fs[Source(j)] = NoFile \/ J.aborted
  <2>1. Change(j, Thrown(J))
    BY <1>1 DEF Scan
  <2>2. Goes(J, Thrown(J), n)
    BY <1>0, ThrownGoes DEF Runs, Running
  <2> QED  BY <1>0, <2>1, <2>2, RunnerStep DEF Scan
<1>2. CASE fs[Source(j)] # NoFile /\ ~J.aborted /\ J.i < n
  <2> DEFINE K == [J EXCEPT !.i = @ + 1]
  <2>1. Change(j, K)
    BY <1>0, <1>2 DEF Scan
  <2>2. Goes(J, K, n)
    BY <1>0, <1>2 DEF Goes, Sound, Runs, Running, Shape, Fields, Scan, At, Calls
  <2> QED  BY <1>0, <2>1, <2>2, RunnerStep DEF Scan
<1>3. CASE fs[Source(j)] # NoFile /\ ~J.aborted /\ J.i = n
  <2> DEFINE K == NextEntry([J EXCEPT !.i = 0], spec[j])
  <2>1. Change(j, K)
    BY <1>0, <1>3 DEF Scan
  <2>2. Goes(J, K, n)
    BY <1>0, <1>3, FirstEntryGoes
  <2> QED  BY <1>0, <2>1, <2>2, RunnerStep DEF Scan
<1> QED  BY <1>0, <1>1, <1>2, <1>3 DEF Runs, Running, Shape

LEMMA LookStep ==
    ASSUME IInv, NEW j \in Jobs, Look(j)
    PROVE  StepKept
<1> DEFINE J == job[j]
           n == Entries(j)
           dst == Destination(J, spec[j])
           R == [J EXCEPT !.target = dst]
<1>0. Runs(J, n) /\ J.state = "running" /\ n \in Nat /\ n = Len(spec[j].sources)
  BY RunsHere, Parts DEF Look, At, Calls, Writing, Entries
<1>1. Runs(R, n) /\ R.i = J.i /\ R.aborted = J.aborted
  BY <1>0 DEF Runs, Running, Shape, Fields
<1>2. CASE Change(j, refuseEntry(J, spec[j]))
  BY <1>0, <1>2, RefuseGoes, RunnerStep DEF Look
<1>3. CASE Change(j, Place(R, spec[j]))
  <2>1. Goes(J, Place(R, spec[j]), n)
    BY <1>0, <1>1, PlaceGoes DEF Goes
  <2> QED  BY <1>0, <1>3, <2>1, RunnerStep DEF Look
<1>4. CASE Change(j, Placed(J, spec[j]))
  BY <1>0, <1>4, PlacedGoes, RunnerStep DEF Look
<1>5. CASE Change(j, askConflict(R, spec[j]))
  <2>1. Goes(J, askConflict(R, spec[j]), n)
    BY <1>0, <1>1, ConflictGoes DEF Goes
  <2> QED  BY <1>0, <1>5, <2>1, RunnerStep DEF Look
<1> QED  BY <1>2, <1>3, <1>4, <1>5 DEF Look

LEMMA NameStep ==
    ASSUME IInv, NEW j \in Jobs, Name(j)
    PROVE  StepKept
<1> DEFINE J == job[j]
           n == Entries(j)
           free == {m \in 2 .. MaxNumber : fs[[J.target EXCEPT !.nr = m]] = NoFile}
           R == [J EXCEPT !.target.nr = CHOOSE m \in free : \A k \in free : m <= k]
<1>0. Runs(J, n) /\ J.state = "running" /\ n \in Nat /\ n = Len(spec[j].sources)
  BY RunsHere, Parts DEF Name, At, Calls, Writing, Entries
<1>1. Runs(R, n) /\ R.i = J.i /\ R.aborted = J.aborted
  BY <1>0 DEF Runs, Running, Shape, Fields
<1>2. Change(j, Place(R, spec[j]))
  BY DEF Name
<1>3. Goes(J, Place(R, spec[j]), n)
  BY <1>0, <1>1, PlaceGoes DEF Goes
<1> QED  BY <1>0, <1>2, <1>3, RunnerStep DEF Name

LEMMA RenameStep ==
    ASSUME IInv, NEW j \in Jobs, Rename(j)
    PROVE  StepKept
<1> DEFINE J == job[j]
           n == Entries(j)
<1>0. Runs(J, n) /\ J.state = "running" /\ n \in Nat /\ n = Len(spec[j].sources)
  BY RunsHere, Parts DEF Rename, At, Calls, Writing, Entries
<1>1. CASE Change(j, refuseEntry(J, spec[j]))
  BY <1>0, <1>1, RefuseGoes, RunnerStep DEF Rename
<1>2. CASE Change(j, Write(J))
  BY <1>0, <1>2, WriteGoes, RunnerStep DEF Rename
<1>3. CASE Change(j, Failed(J, spec[j]))
  BY <1>0, <1>3, FailedGoes, RunnerStep DEF Rename, Runs
<1>4. CASE Change(j, Placed(J, spec[j]))
  BY <1>0, <1>4, PlacedGoes, RunnerStep DEF Rename
<1> QED  BY <1>1, <1>2, <1>3, <1>4 DEF Rename

LEMMA OpenStep ==
    ASSUME IInv, NEW j \in Jobs, Open(j)
    PROVE  StepKept
<1> DEFINE J == job[j]
           n == Entries(j)
           K == [J EXCEPT !.pc = "stream", !.temp = fs[Source(j)]]
<1>0. Runs(J, n) /\ J.state = "running" /\ n \in Nat /\ n = Len(spec[j].sources)
  BY RunsHere, Parts DEF Open, At, Calls, Writing, Entries
<1>1. CASE Change(j, Failed(J, spec[j]))
  BY <1>0, <1>1, FailedGoes, RunnerStep DEF Open, Runs
<1>2. CASE Change(j, K)
  <2>1. Goes(J, K, n)
    BY <1>0 DEF Goes, Sound, Runs, Running, Shape, Fields, Calls, Writing
  <2> QED  BY <1>0, <1>2, <2>1, RunnerStep DEF Open
<1> QED  BY <1>1, <1>2 DEF Open

LEMMA StreamStep ==
    ASSUME IInv, NEW j \in Jobs, StreamEnds(j) \/ StreamStops(j)
    PROVE  StepKept
<1> DEFINE J == job[j]
           n == Entries(j)
<1>0. Running(J, n) /\ J.state = "running" /\ n \in Nat /\ n = Len(spec[j].sources)
  BY RunsHere, Parts DEF StreamEnds, StreamStops, At, Calls, Entries
<1>1. ASSUME NEW c \in Writing, Change(j, [J EXCEPT !.pc = c]), UNCHANGED spec
      PROVE  StepKept
  BY <1>0, <1>1, WritingGoes, RunnerStep
<1>2. CASE StreamEnds(j)
  <2> DEFINE c == CASE J.replace -> "put"
                    [] ~J.replace /\ spec[j].hardLinks -> "link"
                    [] ~J.replace /\ ~spec[j].hardLinks -> "relook"
  <2>1. Change(j, [J EXCEPT !.pc = c]) /\ UNCHANGED spec
    BY <1>2 DEF StreamEnds
  <2>2. c \in Writing
    BY DEF Writing
  <2> QED  BY <1>1, <2>1, <2>2
<1>3. CASE StreamStops(j)
  <2>1. Shape(Cleaned(J), n) /\ Cleaned(J).temp = NoFile /\ Cleaned(J).i = J.i /\ Cleaned(J).aborted = J.aborted
    BY <1>0 DEF Runs, Running, Shape, Fields, Cleaned
  <2>2. Goes(J, Thrown(Cleaned(J)), n)
    BY <1>0, <2>1, ThrownGoes DEF Goes
  <2> QED  BY <1>0, <1>3, <2>2, RunnerStep DEF StreamStops
<1> QED  BY <1>2, <1>3

LEMMA AfterWriteStep ==
    ASSUME IInv, NEW j \in Jobs, job[j].pc \in Calls, AfterWrite(j), UNCHANGED spec
    PROVE  StepKept
<1> DEFINE J == job[j]
           n == Entries(j)
           K == [Cleaned(J) EXCEPT !.pc = "unlink"]
<1>0. Running(J, n) /\ J.state = "running" /\ n \in Nat /\ n = Len(spec[j].sources)
  BY RunsHere, Parts DEF Entries
<1>1. Runs(K, n) /\ K.i = J.i /\ K.aborted = J.aborted /\ K.pc = "unlink"
  BY <1>0 DEF Runs, Running, Shape, Fields, Cleaned
<1>2. CASE Change(j, K)
  <2>1. Goes(J, K, n)
    BY <1>1 DEF Goes, Sound, Runs, Running, Calls
  <2> QED  BY <1>0, <1>2, <2>1, RunnerStep
<1>3. CASE Change(j, Placed(K, spec[j]))
  <2>1. Goes(J, Placed(K, spec[j]), n)
    BY <1>0, <1>1, PlacedGoes DEF Goes
  <2> QED  BY <1>0, <1>3, <2>1, RunnerStep
<1> QED  BY <1>2, <1>3 DEF AfterWrite

LEMMA PutStep ==
    ASSUME IInv, NEW j \in Jobs, Link(j) \/ Relook(j) \/ Put(j)
    PROVE  StepKept
<1> DEFINE J == job[j]
           n == Entries(j)
<1>0. /\ Running(J, n) /\ J.state = "running" /\ n \in Nat /\ n = Len(spec[j].sources)
      /\ J.pc \in Calls
  BY RunsHere, Parts DEF Link, Relook, Put, At, Calls, Entries
<1>1. CASE Change(j, Failed(J, spec[j]))
  BY <1>0, <1>1, FailedGoes, RunnerStep DEF Link, Relook, Put
<1>2. CASE AfterWrite(j)
  BY <1>0, <1>2, AfterWriteStep DEF Link, Relook, Put
<1>3. CASE Change(j, [J EXCEPT !.pc = "put"])
  BY <1>0, <1>3, WritingGoes, RunnerStep DEF Link, Relook, Put, Writing
<1> QED  BY <1>1, <1>2, <1>3 DEF Link, Relook, Put

LEMMA UnlinkStep ==
    ASSUME IInv, NEW j \in Jobs, Unlink(j)
    PROVE  StepKept
<1> DEFINE J == job[j]
           n == Entries(j)
<1>0. Runs(J, n) /\ J.state = "running" /\ n \in Nat /\ n = Len(spec[j].sources)
  BY RunsHere, Parts DEF Unlink, At, Calls, Writing, Entries
<1>1. CASE Change(j, Failed(J, spec[j]))
  BY <1>0, <1>1, FailedGoes, RunnerStep DEF Unlink, Runs
<1>2. CASE Change(j, Placed(J, spec[j]))
  BY <1>0, <1>2, PlacedGoes, RunnerStep DEF Unlink
<1> QED  BY <1>1, <1>2 DEF Unlink

LEMMA ErrorStep ==
    ASSUME IInv, NEW j \in Jobs, FsError(j) \/ PathRefused(j)
    PROVE  StepKept
<1> DEFINE J == job[j]
           n == Entries(j)
<1>0. /\ Running(J, n) /\ J.state = "running" /\ n \in Nat /\ n = Len(spec[j].sources)
      /\ UNCHANGED spec
  BY RunsHere, Parts DEF FsError, PathRefused, At, Calls, Entries
<1>1. CASE Change(j, Failed(J, spec[j]))
  BY <1>0, <1>1, FailedGoes, RunnerStep
<1>2. CASE Change(j, Thrown(J)) /\ J.pc \in {"scan", "rename", "open"}
  BY <1>0, <1>2, RunsHere, ThrownGoes, RunnerStep DEF Runs, Running, Calls, Writing
<1> QED  BY <1>1, <1>2 DEF FsError, PathRefused, At

LEMMA StartStep ==
    ASSUME IInv, NEW j \in Jobs, Start(j)
    PROVE  StepKept
<1> DEFINE K == [job[j] EXCEPT !.known = TRUE, !.state = "running", !.pc = "validate"]
<1>1. Sound(job[j], Entries(j)) /\ job[j].pc = "idle"
  BY Parts DEF Start, At
<1>2. job[j].pending = NoQuestion /\ job[j].state = "queued" /\ job[j].temp = NoFile
  BY <1>1 DEF Sound, Asks, Last, Calls
<1>3. Sound(K, Entries(j)) /\ Moves(job[j], K)
  BY <1>1, <1>2 DEF Sound, Shape, Fields, Calls, Moves
<1> QED  BY <1>3, ChangeStep DEF Start

LEMMA ValidatedStep ==
    ASSUME IInv, NEW j \in Jobs, NEW allowed \in BOOLEAN, Validated(j, allowed)
    PROVE  StepKept
<1> DEFINE J == job[j]
           n == Entries(j)
           K == [J EXCEPT !.pc = "scan", !.i = 1]
<1>0. Runs(J, n) /\ J.state = "running" /\ n \in Nat \ {0}
  BY RunsHere, Parts DEF Validated, At, Calls, Writing
<1>1. CASE allowed /\ ~J.aborted
  <2>1. Goes(J, K, n)
    BY <1>0, <1>1 DEF Goes, Sound, Runs, Running, Shape, Fields, Calls
  <2> QED  BY <1>0, <1>1, <2>1, RunnerStep DEF Validated
<1>2. CASE ~(allowed /\ ~J.aborted)
  BY <1>0, <1>2, ThrownGoes, RunnerStep DEF Validated, Runs, Running
<1> QED  BY <1>1, <1>2

\* Only the question that is asked now can be answered, by one of its choices.
LEMMA DecideStep ==
    ASSUME IInv, NEW j \in Jobs, NEW q \in seen[j], NEW choice \in Choices, NEW all \in BOOLEAN,
           Decide(j, q, choice, all)
    PROVE  StepKept
<1> DEFINE J == job[j]
           n == Entries(j)
           R == [J EXCEPT !.always[q.class] = IF all /\ q.class # "fs-error" THEN choice ELSE @]
           K == Answered(R, spec[j], q.class, choice)
           a == [entry |-> q.entry, class |-> q.class, choice |-> choice, all |-> all]
           L == [K EXCEPT !.answers = @ \cup {a}]
<1>0. Sound(J, n) /\ Shape(J, n) /\ n \in Nat /\ n = Len(spec[j].sources) /\ q # NoQuestion
  BY Parts DEF Entries
<1>1. J.pending = q /\ decide(J, spec[j], q, choice, all) = K
  BY DEF Decide, decide
<1>2. Asks(J)
  BY <1>0, <1>1 DEF Sound
<1>3. Shape(R, n) /\ R.temp = NoFile /\ R.i = J.i /\ R.aborted = J.aborted
  BY <1>0, <1>2 DEF Shape, Asks, Fields
<1>4. Goes(R, K, n)
  BY <1>0, <1>3, AnsweredGoes
<1>5. Change(j, L)
  BY <1>1 DEF Decide
<1> HIDE DEF K
<1>6. Sound(L, n) /\ L.state # "queued"
  BY <1>4 DEF Goes, Sound, Shape, Asks, Fields
<1>7. Moves(J, L)
  BY <1>2, <1>6 DEF Moves, Asks
<1> QED  BY <1>5, <1>6, <1>7, ChangeStep DEF Decide

\* A cancelled job, and the other fields that are set with it.
LEMMA CancelledMoves ==
    ASSUME IInv, NEW j \in Jobs
    PROVE  /\ Sound(Cancelled(job[j]), Entries(j))
           /\ Moves(job[j], Cancelled(job[j]))
           /\ Cancelled(job[j]).pending = NoQuestion
<1>1. Sound(job[j], Entries(j)) /\ Entries(j) \in Nat
  BY Parts
<1> QED  BY <1>1, CancelledGoes DEF Moves

LEMMA CancelStep ==
    ASSUME IInv, NEW j \in Jobs, Cancel(j) \/ AwaitTimeout(j)
    PROVE  StepKept
<1>1. Change(j, Cancelled(job[j])) /\ UNCHANGED spec
  BY DEF Cancel, AwaitTimeout
<1> QED  BY <1>1, CancelledMoves, ChangeStep

LEMMA RetireStep ==
    ASSUME IInv, NEW j \in Jobs, Retire(j)
    PROVE  StepKept
<1> DEFINE K == [job[j] EXCEPT !.known = FALSE]
<1>1. Sound(K, Entries(j)) /\ Moves(job[j], K)
  BY Parts DEF Sound, Asks, Shape, Fields, Moves
<1> QED  BY <1>1, ChangeStep DEF Retire

\* All jobs change.
LEMMA JobsStep ==
    ASSUME IInv, UNCHANGED <<spec, seen>>, DOMAIN job' = Jobs,
           \A j \in Jobs : Sound(job'[j], Entries(j)) /\ Moves(job[j], job'[j])
    PROVE  StepKept
BY DEF StepKept, IInv, Entries

LEMMA CloseSessionStep ==
    ASSUME IInv, NEW session, CloseSession(session)
    PROVE  StepKept
<1>1. ASSUME NEW j \in Jobs
      PROVE  Sound(job'[j], Entries(j)) /\ Moves(job[j], job'[j])
  <2>1. job'[j] = Cancelled(job[j]) \/ job'[j] = job[j]
    BY DEF CloseSession
  <2>2. Moves(job[j], job[j])
    BY Parts DEF Moves, Sound, Asks
  <2> QED  BY <2>1, <2>2, Parts, CancelledMoves
<1> QED  BY <1>1, JobsStep DEF CloseSession

LEMMA TickStep ==
    ASSUME IInv, Tick
    PROVE  StepKept
<1>1. ASSUME NEW j \in Jobs
      PROVE  Sound(job'[j], Entries(j)) /\ Moves(job[j], job'[j])
  <2> DEFINE K == [job[j] EXCEPT !.left = @ - 1, !.awaited = @ + 1]
  <2>0. Sound(job[j], Entries(j)) /\ Moves(job[j], job[j])
    BY Parts DEF Moves, Sound, Asks
  <2>1. CASE job[j].pending = NoQuestion
    BY <2>0, <2>1 DEF Tick
  <2>2. CASE job[j].pending # NoQuestion
    <3>1. job'[j] = K /\ job[j].left > 0 /\ Asks(job[j]) /\ Shape(job[j], Entries(j))
      BY <2>0, <2>2 DEF Tick, Sound
    <3>2. Shape(K, Entries(j)) /\ Asks(K)
      BY <3>1, FileJobAssumption DEF Shape, Asks, Fields
    <3> QED  BY <3>1, <3>2 DEF Sound, Moves, Asks
  <2> QED  BY <2>1, <2>2
<1> QED  BY <1>1, JobsStep DEF Tick

LEMMA DisposeStep ==
    ASSUME IInv, Dispose
    PROVE  StepKept
<1>1. ASSUME NEW j \in Jobs
      PROVE  Sound(job'[j], Entries(j)) /\ Moves(job[j], job'[j])
  <2> DEFINE J == [job[j] EXCEPT !.known = FALSE]
  <2>1. job'[j] = Cancelled(J) \/ job'[j] = J
    BY DEF Dispose
  <2>2. /\ Sound(J, Entries(j)) /\ J.i = job[j].i /\ J.aborted = job[j].aborted
        /\ J.pending = job[j].pending /\ J.state = job[j].state
    BY Parts DEF Sound, Asks, Shape, Fields
  <2>3. Moves(job[j], J)
    BY <2>2, Parts DEF Moves, Sound, Asks
  <2> HIDE DEF J
  <2>4. /\ Sound(Cancelled(J), Entries(j)) /\ Cancelled(J).i = J.i
        /\ Cancelled(J).pending = NoQuestion
        /\ Cancelled(J).state \in {J.state, "cancelled"}
        /\ Cancelled(J).state # J.state => J.state = "awaiting-decision"
    BY <2>2, CancelledGoes, Parts
  <2>5. Moves(job[j], Cancelled(J))
    BY <2>2, <2>4 DEF Moves
  <2> QED  BY <2>1, <2>2, <2>3, <2>4, <2>5
<1> QED  BY <1>1, JobsStep DEF Dispose

LEMMA StutterStep ==
    ASSUME IInv, UNCHANGED vars
    PROVE  StepKept
<1>1. \A j \in Jobs : Sound(job'[j], Entries(j)) /\ Moves(job[j], job'[j])
  BY Parts DEF vars, Moves, Sound, Asks
<1> QED  BY <1>1, JobsStep DEF vars, IInv

-----------------------------------------------------------------------------
LEMMA InitSound == Init => IInv
<1> SUFFICES ASSUME Init PROVE IInv
  OBVIOUS
<1>1. ASSUME NEW j \in Jobs
      PROVE  /\ Len(spec[j].sources) \in Nat \ {0}
             /\ Sound(job[j], Len(spec[j].sources)) /\ NoQuestion \notin seen[j]
  <2>1. spec[j] \in FileJobSpec
    BY FileJobAssumption DEF Init
  <2>2. spec[j].sources \in Seq(Paths) /\ spec[j].sources # << >>
    BY <2>1 DEF FileJobSpec
  <2>3. Len(spec[j].sources) \in Nat \ {0}
    BY <2>2
  <2>4. job[j] = newJob /\ seen[j] = {}
    BY DEF Init
  <2>5. Sound(newJob, Len(spec[j].sources))
    BY <2>3, FileJobAssumption DEF Sound, Shape, newJob, Fields, Calls
  <2> QED  BY <2>3, <2>4, <2>5
<1> QED  BY <1>1 DEF Init, IInv

LEMMA NextKept == ASSUME IInv, [Next]_vars PROVE StepKept
<1>1. ASSUME NEW j \in Jobs, Runner(j) PROVE StepKept
  BY <1>1, ValidatedStep, ScanStep, LookStep, NameStep, RenameStep, OpenStep, StreamStep, PutStep,
     UnlinkStep DEF Runner
<1>2. ASSUME NEW j \in Jobs, NEW q \in seen[j],
             NEW choice \in {"skip", "retry", "rename", "overwrite"}, NEW all \in BOOLEAN,
             Decide(j, q, choice, all)
      PROVE  StepKept
  BY <1>2, DecideStep DEF Choices
<1>3. ASSUME NEW session, CloseSession(session) PROVE StepKept
  BY <1>3, CloseSessionStep
<1> QED  BY <1>1, <1>2, <1>3, StartStep, CancelStep, RetireStep, ErrorStep, TickStep, DisposeStep,
            StutterStep DEF Next

\* FR-FOP-003 AC-4: however often it asks, no job waits for longer than its budget
\* (enterAwait and leaveAwait of fileJobManager.ts).
THEOREM WaitsWithinBudget == Spec => []AwaitBudget
<1>1. IInv => AwaitBudget
  BY Parts DEF AwaitBudget, Shape
<1>2. IInv /\ [Next]_vars => IInv'
  BY NextKept DEF StepKept
<1> QED  BY <1>1, <1>2, InitSound, PTL DEF Spec

\* FR-FOP-005 AC-2: however a job ends, and whenever it asks, what it was writing has been
\* removed (the catch of writeFile in fileJobRunner.ts).
THEOREM NothingHalfWritten == Spec => []NoTempLeft
<1>1. IInv => NoTempLeft
  BY Parts DEF NoTempLeft, Sound, Asks, Calls
<1>2. IInv /\ [Next]_vars => IInv'
  BY NextKept DEF StepKept
<1> QED  BY <1>1, <1>2, InitSound, PTL DEF Spec

\* FR-FOP-005: a cancelled job asks nothing more and begins no other entry, wherever its
\* runner was when the cancel came (throwIfAborted and ask of fileJobRunner.ts).
THEOREM CancelIsObeyed == Spec => CancelStops
<1>1. IInv /\ [Next]_vars => IInv'
  BY NextKept DEF StepKept
<1>2. IInv /\ [Next]_vars =>
        [\A j \in Jobs :
            job[j].aborted => job'[j].i = job[j].i /\ job'[j].pending = NoQuestion]_vars
  BY NextKept DEF StepKept, Moves
<1> QED  BY <1>1, <1>2, InitSound, PTL DEF Spec, CancelStops

\* FR-FOP-001 AC-1 to AC-4: the states of the jobs go through the table of fileJobState.ts.
THEOREM LifecycleFollowed == Spec => FollowsLifecycle
<1>1. IInv /\ [Next]_vars => IInv'
  BY NextKept DEF StepKept
<1>2. Init => Lifecycle!Init
  BY DEF Init, Lifecycle!Init, newJob
<1>3. ASSUME IInv, [Next]_vars
      PROVE  [Lifecycle!Next]_([j \in Jobs |-> job[j].state])
  <2>1. StepKept
    BY <1>3, NextKept
  <2>2. ASSUME NEW j \in Jobs
        PROVE  /\ job'[j].state \in Lifecycle!States
               /\ job'[j].state # job[j].state =>
                     job'[j].state \in Lifecycle!Reached(job[j].state)
    <3>1. Sound(job'[j], Len(spec'[j].sources)) /\ Moves(job[j], job'[j])
      BY <2>1 DEF StepKept, IInv
    <3>2. job'[j].state \in Lifecycle!States
      BY <3>1 DEF Sound, Asks, Last, Lifecycle!States
    <3>3. CASE job[j].state = "queued" /\ job'[j].state = "running"
      BY <3>2, <3>3 DEF Lifecycle!Reached, Lifecycle!Row, Lifecycle!ALLOWED
    <3>4. CASE job[j].state \in {"running", "awaiting-decision"} /\ job'[j].state # "queued"
      BY <3>2, <3>4 DEF Lifecycle!Reached, Lifecycle!Row, Lifecycle!ALLOWED, Lifecycle!States
    <3> QED  BY <3>1, <3>2, <3>3, <3>4 DEF Moves
  <2> QED  BY <2>2 DEF Lifecycle!Next
<1> QED  BY <1>1, <1>2, <1>3, InitSound, PTL DEF Spec, FollowsLifecycle, Lifecycle!Spec

-----------------------------------------------------------------------------
(***************************************************************************)
(* What a completed job has done.                                          *)
(*                                                                         *)
(* The runner has settled every entry before the one it is at.  An answer  *)
(* that is remembered for a class was given by the user, for all of that   *)
(* class.  A is what the user has answered: while an answer is carried out *)
(* it is part of A already.                                                *)
(***************************************************************************)
SaidSkip(A, class, i) ==
    \E a \in A : /\ a.choice = "skip" /\ a.class = class
                 /\ a.entry = i \/ (a.all /\ class # "fs-error")

Settled(J, A, i) ==
    i \in J.placed \/ \E x \in J.skipped : x.entry = i /\ SaidSkip(A, x.class, i)

SettledTo(J, A, m) == \A i \in 1 .. m : Settled(J, A, i)

Entering == {"idle", "validate", "scan", "ended"}

Books(J, A) ==
    /\ DOMAIN J = Fields
    /\ J.always \in [QuestionClass -> Choices \cup {"none"}]
    /\ \A c \in QuestionClass \ {"fs-error"} : J.always[c] = "skip" => \A i : SaidSkip(A, c, i)

\* J has settled what it must have by now; n is the number of its entries.
Keeps(J, n, A) ==
    /\ Books(J, A)
    /\ J.pc \notin Entering => SettledTo(J, A, J.i - 1)
    /\ J.pc = "asking" => J.pending.entry = J.i /\ J.pending.class \in QuestionClass
    /\ J.pc # "ended" => J.result = "none"
    /\ J.result = "completed" => SettledTo(J, A, n)

\* J is at work on its entry J.i.
Works(J, n, A) ==
    Books(J, A) /\ J.i \in 0 .. n /\ J.result = "none" /\ SettledTo(J, A, J.i - 1)

\* J may become K, and no answer is added.
Leads(J, K, n, A) == Keeps(K, n, A) /\ K.answers = J.answers

LEMMA FinishLeads ==
    ASSUME NEW n \in Nat, NEW A, NEW J, Books(J, A), NEW o \in Last,
           o = "completed" => SettledTo(J, A, n)
    PROVE  Leads(J, finish(J, o), n, A)
<1> DEFINE K == finish(J, o)
<1>1. /\ DOMAIN K = Fields /\ K.pc = "ended" /\ K.always = newJob.always
      /\ K.answers = J.answers /\ K.placed = J.placed /\ K.skipped = J.skipped
      /\ K.result \in {"none", o}
  BY DEF Books, finish, Fields
<1>2. newJob.always = [c \in QuestionClass |-> "none"]
  BY DEF newJob
<1> HIDE DEF K
<1>3. Books(K, A)
  BY <1>1, <1>2 DEF Books
<1>4. K.result = "completed" => SettledTo(K, A, n)
  BY <1>1 DEF SettledTo, Settled, Last
<1>5. Leads(J, K, n, A)
  BY <1>1, <1>3, <1>4 DEF Leads, Keeps, Entering
<1> QED  BY <1>5 DEF K

LEMMA ThrownLeads ==
    ASSUME NEW n \in Nat, NEW A, NEW J, Books(J, A)
    PROVE  Leads(J, Thrown(J), n, A)
<1>1. CASE J.aborted
  BY <1>1, FinishLeads DEF Thrown, Last
<1>2. CASE ~J.aborted
  BY <1>2, FinishLeads DEF Thrown, Last
<1> QED  BY <1>1, <1>2

\* Fields that say nothing about the entries may change on the way.
LEMMA SameBooks ==
    ASSUME NEW A, NEW J, NEW K, DOMAIN K = Fields, Books(J, A), K.always = J.always
    PROVE  Books(K, A)
BY DEF Books

LEMMA SameSettled ==
    ASSUME NEW A, NEW J, NEW K, NEW m, K.placed = J.placed, K.skipped = J.skipped, SettledTo(J, A, m)
    PROVE  SettledTo(K, A, m)
BY DEF SettledTo, Settled

LEMMA CallLeads ==
    ASSUME NEW n \in Nat, NEW A, NEW J, Works(J, n, A), NEW c \in Calls
    PROVE  Leads(J, [J EXCEPT !.pc = c], n, A)
<1> DEFINE K == [J EXCEPT !.pc = c]
<1>1. /\ DOMAIN K = Fields /\ K.pc = c /\ K.always = J.always /\ K.i = J.i /\ K.result = "none"
      /\ K.answers = J.answers /\ K.placed = J.placed /\ K.skipped = J.skipped
  BY DEF Works, Books, Fields
<1> HIDE DEF K
<1>2. Books(K, A) /\ SettledTo(K, A, K.i - 1)
  BY <1>1, SameBooks, SameSettled DEF Works
<1>3. Leads(J, K, n, A)
  BY <1>1, <1>2 DEF Leads, Keeps, Calls
<1> QED  BY <1>3 DEF K

LEMMA NextEntryLeads ==
    ASSUME NEW s, NEW n \in Nat, n = Len(s.sources), NEW A, NEW J, Works(J, n, A),
           SettledTo(J, A, J.i)
    PROVE  Leads(J, NextEntry(J, s), n, A)
<1>0. J.i \in 0 .. n /\ Books(J, A)
  BY DEF Works
<1>1. CASE J.i = n
  <2>1. NextEntry(J, s) = finish(J, "completed")
    BY <1>0, <1>1 DEF NextEntry
  <2> QED  BY <1>0, <1>1, <2>1, FinishLeads DEF Last
<1>2. CASE J.i < n /\ J.aborted
  <2>1. NextEntry(J, s) = Thrown(J)
    BY <1>0, <1>2 DEF NextEntry
  <2> QED  BY <1>0, <2>1, ThrownLeads
<1>3. CASE J.i < n /\ ~J.aborted
  <2> DEFINE K == [J EXCEPT !.i = @ + 1, !.target = NoPath, !.replace = FALSE,
                            !.pc = IF s.op = "delete" THEN "unlink" ELSE "look"]
  <2>1. NextEntry(J, s) = K
    BY <1>0, <1>3 DEF NextEntry
  <2>2. /\ DOMAIN K = Fields /\ K.pc \in {"unlink", "look"} /\ K.always = J.always
        /\ K.i = J.i + 1 /\ K.result = "none"
        /\ K.answers = J.answers /\ K.placed = J.placed /\ K.skipped = J.skipped
    BY DEF Works, Books, Fields
  <2> HIDE DEF K
  <2>3. K.i - 1 = J.i
    BY <1>0, <2>2
  <2>4. Books(K, A) /\ SettledTo(K, A, K.i - 1)
    BY <1>0, <2>2, <2>3, SameBooks, SameSettled
  <2>5. Leads(J, K, n, A)
    BY <2>2, <2>4 DEF Leads, Keeps
  <2> QED  BY <2>1, <2>5
<1> QED  BY <1>0, <1>1, <1>2, <1>3

LEMMA SkipLeads ==
    ASSUME NEW s, NEW n \in Nat, n = Len(s.sources), NEW A, NEW J, Works(J, n, A), NEW class,
           SaidSkip(A, class, J.i)
    PROVE  Leads(J, Skip(J, s, class), n, A)
<1> DEFINE x == [entry |-> J.i, class |-> class]
           R == [J EXCEPT !.skipped = @ \cup {x}]
<1>1. /\ DOMAIN R = Fields /\ R.always = J.always /\ R.i = J.i /\ R.result = "none"
      /\ R.answers = J.answers /\ R.placed = J.placed /\ R.skipped = J.skipped \cup {x}
  BY DEF Works, Books, Fields
<1>2. Skip(J, s, class) = NextEntry(R, s)
  BY DEF Skip
<1>3. x.entry = J.i /\ x.class = class
  OBVIOUS
<1> HIDE DEF R, x
<1>4. J.i \in 0 .. n /\ SettledTo(J, A, J.i - 1)
  BY DEF Works
<1>5. \A i \in 1 .. J.i : Settled(R, A, i)
  <2> SUFFICES ASSUME NEW i \in 1 .. J.i PROVE Settled(R, A, i)
    OBVIOUS
  <2>1. CASE i = J.i
    BY <1>1, <1>3, <2>1 DEF Settled
  <2>2. CASE i \in 1 .. J.i - 1
    BY <1>1, <1>4, <2>2 DEF SettledTo, Settled
  <2> QED  BY <1>4, <2>1, <2>2
<1>6. Works(R, n, A) /\ SettledTo(R, A, R.i)
  BY <1>1, <1>4, <1>5, SameBooks DEF Works, SettledTo
<1>7. Leads(R, NextEntry(R, s), n, A)
  BY <1>6, NextEntryLeads
<1> QED  BY <1>1, <1>2, <1>7 DEF Leads

LEMMA PlacedLeads ==
    ASSUME NEW s, NEW n \in Nat, n = Len(s.sources), NEW A, NEW J, Works(J, n, A)
    PROVE  Leads(J, Placed(J, s), n, A)
<1> DEFINE R == [J EXCEPT !.placed = @ \cup {J.i}]
<1>1. /\ DOMAIN R = Fields /\ R.always = J.always /\ R.i = J.i /\ R.result = "none"
      /\ R.answers = J.answers /\ R.placed = J.placed \cup {J.i} /\ R.skipped = J.skipped
  BY DEF Works, Books, Fields
<1>2. Placed(J, s) = NextEntry(R, s)
  BY DEF Placed
<1> HIDE DEF R
<1>3. J.i \in 0 .. n /\ SettledTo(J, A, J.i - 1)
  BY DEF Works
<1>4. \A i \in 1 .. J.i : Settled(R, A, i)
  BY <1>1, <1>3 DEF SettledTo, Settled
<1>5. Works(R, n, A) /\ SettledTo(R, A, R.i)
  BY <1>1, <1>3, <1>4, SameBooks DEF Works, SettledTo
<1>6. Leads(R, NextEntry(R, s), n, A)
  BY <1>5, NextEntryLeads
<1> QED  BY <1>1, <1>2, <1>6 DEF Leads

LEMMA WriteLeads ==
    ASSUME NEW n \in Nat, NEW A, NEW J, Works(J, n, A)
    PROVE  Leads(J, Write(J), n, A)
<1>1. CASE J.aborted
  BY <1>1, ThrownLeads DEF Write, Works
<1>2. CASE ~J.aborted
  BY <1>2, CallLeads DEF Write, Calls
<1> QED  BY <1>1, <1>2

LEMMA PlaceLeads ==
    ASSUME NEW s, NEW n \in Nat, NEW A, NEW J, Works(J, n, A)
    PROVE  Leads(J, Place(J, s), n, A)
<1>1. CASE s.op = "move"
  BY <1>1, CallLeads DEF Place, Calls
<1>2. CASE s.op # "move"
  BY <1>2, WriteLeads DEF Place
<1> QED  BY <1>1, <1>2

LEMMA AnsweredLeads ==
    ASSUME NEW s, NEW n \in Nat, n = Len(s.sources), NEW A, NEW J, Works(J, n, A),
           J.again \in Calls, NEW class, NEW choice \in Choices,
           choice = "skip" => SaidSkip(A, class, J.i)
    PROVE  Leads(J, Answered(J, s, class, choice), n, A)
<1> DEFINE R == [J EXCEPT !.pending = NoQuestion, !.state = "running", !.left = 0]
           P == [R EXCEPT !.replace = TRUE]
<1>1. ASSUME NEW K \in {R, P}
      PROVE  Works(K, n, A) /\ K.i = J.i /\ K.answers = J.answers /\ K.again = J.again
  <2>1. /\ DOMAIN K = Fields /\ K.always = J.always /\ K.i = J.i /\ K.result = "none"
        /\ K.answers = J.answers /\ K.placed = J.placed /\ K.skipped = J.skipped
        /\ K.again = J.again
    BY DEF Works, Books, Fields
  <2> HIDE DEF R, P
  <2> QED  BY <2>1, SameBooks, SameSettled DEF Works
<1>2. /\ Works(R, n, A) /\ R.i = J.i /\ R.answers = J.answers /\ R.again \in Calls
      /\ Works(P, n, A) /\ P.i = J.i /\ P.answers = J.answers
  BY <1>1
<1>3. CASE choice = "skip"
  <2>1. Answered(J, s, class, choice) = Skip(R, s, class)
    BY <1>3 DEF Answered
  <2> HIDE DEF R, P
  <2>2. SaidSkip(A, class, R.i)
    BY <1>2, <1>3
  <2>3. Leads(R, Skip(R, s, class), n, A)
    BY <1>2, <2>2, SkipLeads
  <2> QED  BY <1>2, <2>1, <2>3 DEF Leads
<1>4. CASE choice = "retry"
  <2>1. Answered(J, s, class, choice) = [R EXCEPT !.pc = R.again]
    BY <1>4 DEF Answered
  <2> HIDE DEF R, P
  <2>2. Leads(R, [R EXCEPT !.pc = R.again], n, A)
    BY <1>2, CallLeads
  <2> QED  BY <1>2, <2>1, <2>2 DEF Leads
<1>5. CASE choice = "rename"
  <2>1. Answered(J, s, class, choice) = [R EXCEPT !.pc = "name"]
    BY <1>5 DEF Answered
  <2> HIDE DEF R, P
  <2>2. Leads(R, [R EXCEPT !.pc = "name"], n, A)
    BY <1>2, CallLeads DEF Calls
  <2> QED  BY <1>2, <2>1, <2>2 DEF Leads
<1>6. CASE choice = "overwrite"
  <2>1. Answered(J, s, class, choice) = Place(P, s)
    BY <1>6 DEF Answered
  <2> HIDE DEF R, P
  <2>2. Leads(P, Place(P, s), n, A)
    BY <1>2, PlaceLeads
  <2> QED  BY <1>2, <2>1, <2>2 DEF Leads
<1> QED  BY <1>3, <1>4, <1>5, <1>6 DEF Choices

LEMMA AskLeads ==
    ASSUME NEW s, NEW n \in Nat, n = Len(s.sources), NEW A, NEW J, Works(J, n, A),
           J.again \in Calls, J.aborted \in BOOLEAN, NEW class \in QuestionClass,
           NEW choices \in SUBSET Choices
    PROVE  Leads(J, Ask(J, s, class, choices), n, A)
<1>1. CASE J.aborted
  <2>1. Ask(J, s, class, choices) = Thrown(J)
    BY <1>1 DEF Ask
  <2> QED  BY <2>1, ThrownLeads DEF Works
<1>2. CASE ~J.aborted /\ Remembered(J, class) \in choices
  <2> DEFINE c == Remembered(J, class)
  <2>1. Ask(J, s, class, choices) = Answered(J, s, class, c)
    BY <1>2 DEF Ask
  <2>2. c = "skip" => SaidSkip(A, class, J.i)
    <3>1. CASE class = "fs-error"
      BY <3>1 DEF Remembered
    <3>2. CASE class # "fs-error"
      BY <3>2 DEF Remembered, Works, Books
    <3> QED  BY <3>1, <3>2
  <2>3. c \in Choices
    BY <1>2
  <2> HIDE DEF c
  <2>4. Leads(J, Answered(J, s, class, c), n, A)
    BY <2>2, <2>3, AnsweredLeads
  <2> QED  BY <2>1, <2>4
<1>3. CASE ~J.aborted /\ Remembered(J, class) \notin choices
  <2> DEFINE q == [id |-> J.asks + 1, entry |-> J.i, class |-> class, choices |-> choices]
             K == [J EXCEPT !.state = "awaiting-decision", !.left = Remaining(J), !.asks = @ + 1,
                            !.pc = "asking", !.pending = q]
  <2>1. Ask(J, s, class, choices) = K
    BY <1>3 DEF Ask
  <2>2. q.entry = J.i /\ q.class = class
    OBVIOUS
  <2> HIDE DEF q
  <2>3. /\ DOMAIN K = Fields /\ K.pc = "asking" /\ K.always = J.always /\ K.i = J.i
        /\ K.result = "none" /\ K.pending = q
        /\ K.answers = J.answers /\ K.placed = J.placed /\ K.skipped = J.skipped
    BY DEF Works, Books, Fields
  <2> HIDE DEF K
  <2>4. Books(K, A) /\ SettledTo(K, A, K.i - 1)
    BY <2>3, SameBooks, SameSettled DEF Works
  <2>5. Leads(J, K, n, A)
    BY <2>2, <2>3, <2>4 DEF Leads, Keeps
  <2> QED  BY <2>1, <2>5
<1> QED  BY <1>1, <1>2, <1>3

LEMMA RefuseLeads ==
    ASSUME NEW s, NEW n \in Nat, n = Len(s.sources), NEW A, NEW J, Works(J, n, A),
           J.again \in Calls, J.aborted \in BOOLEAN
    PROVE  Leads(J, refuseEntry(J, s), n, A)
BY AskLeads DEF refuseEntry, Choices, QuestionClass

LEMMA ConflictLeads ==
    ASSUME NEW s, NEW n \in Nat, n = Len(s.sources), NEW A, NEW J, Works(J, n, A),
           J.again \in Calls, J.aborted \in BOOLEAN
    PROVE  Leads(J, askConflict(J, s), n, A)
BY AskLeads DEF askConflict, Choices, QuestionClass

LEMMA FailedLeads ==
    ASSUME NEW s, NEW n \in Nat, n = Len(s.sources), NEW A, NEW J, Works(J, n, A),
           J.aborted \in BOOLEAN
    PROVE  Leads(J, Failed(J, s), n, A)
<1> DEFINE R == [Cleaned(J) EXCEPT !.again = IF J.pc = "unlink" THEN "unlink" ELSE "look",
                                   !.replace = FALSE, !.target = NoPath]
<1>1. /\ DOMAIN R = Fields /\ R.always = J.always /\ R.i = J.i /\ R.result = "none"
      /\ R.answers = J.answers /\ R.placed = J.placed /\ R.skipped = J.skipped
      /\ R.aborted = J.aborted /\ R.again \in {"unlink", "look"}
  BY DEF Works, Books, Fields, Cleaned
<1>2. Failed(J, s) = Ask(R, s, "fs-error", {"retry", "skip"})
  BY DEF Failed
<1> HIDE DEF R
<1>3. Works(R, n, A)
  BY <1>1, SameBooks, SameSettled DEF Works
<1>4. Leads(R, Ask(R, s, "fs-error", {"retry", "skip"}), n, A)
  BY <1>1, <1>3, AskLeads DEF Choices, QuestionClass, Calls
<1> QED  BY <1>1, <1>2, <1>4 DEF Leads

\* Wherever it is, a job that is cancelled keeps what it has settled.
LEMMA CancelledLeads ==
    ASSUME NEW n \in Nat, NEW A, NEW J, Keeps(J, n, A)
    PROVE  Leads(J, Cancelled(J), n, A)
<1> DEFINE R == [J EXCEPT !.aborted = TRUE]
<1>1. /\ DOMAIN R = Fields /\ R.always = J.always /\ R.i = J.i /\ R.result = J.result
      /\ R.answers = J.answers /\ R.placed = J.placed /\ R.skipped = J.skipped
      /\ R.pc = J.pc /\ R.pending = J.pending
  BY DEF Keeps, Books, Fields
<1>2. Cancelled(J) = R \/ Cancelled(J) = Thrown(R)
  BY DEF Cancelled
<1> HIDE DEF R
<1>3. Keeps(R, n, A)
  BY <1>1, SameBooks, SameSettled DEF Keeps
<1>4. Leads(R, Thrown(R), n, A)
  BY <1>3, ThrownLeads DEF Keeps
<1> QED  BY <1>1, <1>2, <1>3, <1>4 DEF Leads

-----------------------------------------------------------------------------
\* Steps.

EntriesSettled == \A j \in Jobs : Keeps(job[j], Entries(j), job[j].answers)

\* The job changes as the runner leads it.
LEMMA LeadsStep ==
    ASSUME IInv, EntriesSettled, NEW j \in Jobs, NEW K, Change(j, K), UNCHANGED spec,
           Keeps(K, Entries(j), K.answers)
    PROVE  EntriesSettled'
<1>1. \A k \in Jobs : job'[k] = IF k = j THEN K ELSE job[k]
  BY DEF Change, IInv
<1>2. \A k \in Jobs : Entries(k)' = Entries(k)
  BY DEF Entries
<1>3. ASSUME NEW k \in Jobs PROVE Keeps(job'[k], Entries(k), job'[k].answers)
  <2>1. CASE k = j
    BY <1>1, <2>1
  <2>2. CASE k # j
    BY <1>1, <2>2 DEF EntriesSettled
  <2> QED  BY <2>1, <2>2
<1> QED  BY <1>2, <1>3 DEF EntriesSettled

\* What a step of the runner starts from.
LEMMA WorksHere ==
    ASSUME IInv, EntriesSettled, NEW j \in Jobs, job[j].pc \in Calls
    PROVE  /\ Books(job[j], job[j].answers)
           /\ job[j].pc \notin Entering => Works(job[j], Entries(j), job[j].answers)
           /\ job[j].result = "none" /\ job[j].again \in Calls /\ job[j].aborted \in BOOLEAN
           /\ Entries(j) \in Nat /\ Entries(j) = Len(spec[j].sources)
<1>1. Entries(j) \in Nat \ {0} /\ Shape(job[j], Entries(j)) /\ Entries(j) = Len(spec[j].sources)
  BY Parts DEF Entries
<1>2. Keeps(job[j], Entries(j), job[j].answers)
  BY DEF EntriesSettled
<1>3. job[j].i \in 0 .. Entries(j)
  BY <1>1 DEF Shape
<1> QED  BY <1>1, <1>2, <1>3 DEF Keeps, Works, Shape, Calls

LEMMA SameWorks ==
    ASSUME NEW n, NEW A, NEW J, Works(J, n, A), NEW K, DOMAIN K = Fields, K.always = J.always,
           K.i = J.i, K.result = J.result, K.placed = J.placed, K.skipped = J.skipped
    PROVE  Works(K, n, A)
BY SameBooks, SameSettled DEF Works

LEMMA EnteringSettles ==
    ASSUME IInv, EntriesSettled, NEW j \in Jobs, Scan(j) \/ \E allowed \in BOOLEAN : Validated(j, allowed)
    PROVE  EntriesSettled'
<1> DEFINE J == job[j]
           n == Entries(j)
           A == J.answers
           K == [J EXCEPT !.pc = "scan", !.i = 1]
           L == [J EXCEPT !.i = @ + 1]
           R == [J EXCEPT !.i = 0]
<1>1. /\ Books(J, A) /\ J.result = "none" /\ n \in Nat /\ n = Len(spec[j].sources)
      /\ J.i \in 1 .. n /\ J.aborted \in BOOLEAN /\ UNCHANGED spec
  BY WorksHere, Parts DEF Scan, Validated, At, Calls, Shape
<1>2. /\ DOMAIN K = Fields /\ K.pc = "scan" /\ K.always = J.always /\ K.result = "none"
      /\ K.answers = A
  BY <1>1 DEF Books, Fields
<1>3. /\ DOMAIN L = Fields /\ L.pc = J.pc /\ L.always = J.always /\ L.result = "none"
      /\ L.answers = A
  BY <1>1 DEF Books, Fields
<1>4. /\ DOMAIN R = Fields /\ R.i = 0 /\ R.always = J.always /\ R.result = "none"
      /\ R.answers = A
  BY <1>1 DEF Books, Fields
<1>5. \/ Change(j, Thrown(J)) \/ Change(j, K)
      \/ J.pc = "scan" /\ Change(j, L)
      \/ Change(j, NextEntry(R, spec[j]))
  <2>1. CASE Scan(j)
    <3>0. J.pc = "scan"
      BY <2>1 DEF Scan, At
    <3>1. CASE fs[Source(j)] = NoFile \/ J.aborted
      <4>1. Change(j, Thrown(J))
        BY <2>1, <3>1 DEF Scan
      <4> QED  BY <4>1
    <3>2. CASE fs[Source(j)] # NoFile /\ ~J.aborted /\ J.i < n
      <4>1. Change(j, L)
        BY <1>1, <2>1, <3>2 DEF Scan
      <4> QED  BY <3>0, <4>1
    <3>3. CASE fs[Source(j)] # NoFile /\ ~J.aborted /\ J.i = n
      <4>1. Change(j, NextEntry(R, spec[j]))
        BY <1>1, <2>1, <3>3 DEF Scan
      <4> QED  BY <4>1
    <3> QED  BY <1>1, <3>1, <3>2, <3>3
  <2>2. CASE \E allowed \in BOOLEAN : Validated(j, allowed)
    BY <2>2 DEF Validated
  <2> QED  BY <2>1, <2>2
<1> HIDE DEF K, L, R
<1>6. Keeps(Thrown(J), n, Thrown(J).answers)
  BY <1>1, ThrownLeads DEF Leads
<1>7. Keeps(K, n, K.answers)
  BY <1>1, <1>2, SameBooks DEF Keeps, Entering
<1>8. J.pc = "scan" => Keeps(L, n, L.answers)
  BY <1>1, <1>3, SameBooks DEF Keeps, Entering
<1>9. Keeps(NextEntry(R, spec[j]), n, NextEntry(R, spec[j]).answers)
  <2>1. SettledTo(R, A, R.i) /\ SettledTo(R, A, R.i - 1)
    BY <1>4 DEF SettledTo
  <2>2. Works(R, n, A)
    BY <1>1, <1>4, <2>1, SameBooks DEF Works
  <2>3. Leads(R, NextEntry(R, spec[j]), n, A)
    BY <1>1, <2>1, <2>2, NextEntryLeads
  <2> QED  BY <1>4, <2>3 DEF Leads
<1> QED  BY <1>1, <1>5, <1>6, <1>7, <1>8, <1>9, LeadsStep

LEMMA LookSettles ==
    ASSUME IInv, EntriesSettled, NEW j \in Jobs, Look(j) \/ Name(j)
    PROVE  EntriesSettled'
<1> DEFINE J == job[j]
           n == Entries(j)
           A == J.answers
           s == spec[j]
<1>1. /\ Works(J, n, A) /\ J.again \in Calls /\ J.aborted \in BOOLEAN
      /\ n \in Nat /\ n = Len(s.sources) /\ UNCHANGED spec
  BY WorksHere DEF Look, Name, At, Calls, Entering
<1>2. ASSUME NEW t
      PROVE  LET R == [J EXCEPT !.target = t]
             IN  /\ Works(R, n, A) /\ R.again \in Calls /\ R.aborted \in BOOLEAN
                 /\ R.answers = A
  <2> DEFINE R == [J EXCEPT !.target = t]
  <2>1. /\ DOMAIN R = Fields /\ R.always = J.always /\ R.i = J.i /\ R.result = J.result
        /\ R.answers = A /\ R.placed = J.placed /\ R.skipped = J.skipped
        /\ R.again = J.again /\ R.aborted = J.aborted
    BY <1>1 DEF Works, Books, Fields
  <2> HIDE DEF R
  <2>2. Works(R, n, A) /\ R.again \in Calls /\ R.aborted \in BOOLEAN /\ R.answers = A
    BY <1>1, <2>1, SameWorks
  <2> QED  BY <2>2 DEF R
<1>3. \/ Change(j, refuseEntry(J, s))
      \/ Change(j, Placed(J, s))
      \/ \E t : \/ Change(j, Place([J EXCEPT !.target = t], s))
              \/ Change(j, askConflict([J EXCEPT !.target = t], s))
  <2>1. CASE Look(j)
    BY <2>1 DEF Look
  <2>2. CASE Name(j)
    <3> DEFINE free == {m \in 2 .. MaxNumber : fs[[J.target EXCEPT !.nr = m]] = NoFile}
               m0 == CHOOSE m \in free : \A k \in free : m <= k
    <3>1. Change(j, Place([J EXCEPT !.target.nr = m0], s))
      BY <2>2 DEF Name
    <3>2. [J EXCEPT !.target.nr = m0] = [J EXCEPT !.target = [J.target EXCEPT !.nr = m0]]
      OBVIOUS
    <3> HIDE DEF m0
    <3> QED  BY <3>1, <3>2
  <2> QED  BY <2>1, <2>2
<1>4. CASE Change(j, refuseEntry(J, s))
  <2>1. Leads(J, refuseEntry(J, s), n, A)
    BY <1>1, RefuseLeads
  <2> QED  BY <1>1, <1>4, <2>1, LeadsStep DEF Leads
<1>5. CASE Change(j, Placed(J, s))
  <2>1. Leads(J, Placed(J, s), n, A)
    BY <1>1, PlacedLeads
  <2> QED  BY <1>1, <1>5, <2>1, LeadsStep DEF Leads
<1>6. ASSUME NEW t, Change(j, Place([J EXCEPT !.target = t], s))
      PROVE  EntriesSettled'
  <2> DEFINE R == [J EXCEPT !.target = t]
  <2>1. Works(R, n, A) /\ R.answers = A
    BY <1>2
  <2>2. Change(j, Place(R, s))
    BY <1>6
  <2> HIDE DEF R
  <2>3. Leads(R, Place(R, s), n, A)
    BY <1>1, <2>1, PlaceLeads
  <2> QED  BY <1>1, <2>1, <2>2, <2>3, LeadsStep DEF Leads
<1>7. ASSUME NEW t, Change(j, askConflict([J EXCEPT !.target = t], s))
      PROVE  EntriesSettled'
  <2> DEFINE R == [J EXCEPT !.target = t]
  <2>1. Works(R, n, A) /\ R.answers = A /\ R.again \in Calls /\ R.aborted \in BOOLEAN
    BY <1>2
  <2>2. Change(j, askConflict(R, s))
    BY <1>7
  <2> HIDE DEF R
  <2>3. Leads(R, askConflict(R, s), n, A)
    BY <1>1, <2>1, ConflictLeads
  <2> QED  BY <1>1, <2>1, <2>2, <2>3, LeadsStep DEF Leads
<1> QED  BY <1>3, <1>4, <1>5, <1>6, <1>7

\* The calls that write, rename and remove.
LEMMA WritingSettles ==
    ASSUME IInv, EntriesSettled, NEW j \in Jobs,
           Rename(j) \/ Open(j) \/ StreamEnds(j) \/ StreamStops(j) \/ Link(j) \/ Relook(j) \/ Put(j)
           \/ Unlink(j) \/ FsError(j) \/ PathRefused(j)
    PROVE  EntriesSettled'
<1> DEFINE J == job[j]
           n == Entries(j)
           A == J.answers
           s == spec[j]
           C == Cleaned(J)
           U == [C EXCEPT !.pc = "unlink"]
           S == [J EXCEPT !.pc = "stream", !.temp = fs[Source(j)]]
<1>1. J.pc \in Calls /\ UNCHANGED spec
  BY DEF Rename, Open, StreamEnds, StreamStops, Link, Relook, Put, Unlink, FsError, PathRefused, At,
         Calls
<1>2. /\ Books(J, A)
      /\ J.pc \notin Entering => Works(J, n, A)
      /\ J.again \in Calls /\ J.aborted \in BOOLEAN
      /\ n \in Nat /\ n = Len(s.sources)
  BY <1>1, WorksHere
<1>3. \/ Change(j, Thrown(J)) \/ Change(j, Thrown(C))
      \/ /\ J.pc \notin Entering
         /\ \/ Change(j, refuseEntry(J, s)) \/ Change(j, Write(J)) \/ Change(j, Failed(J, s))
            \/ Change(j, Placed(J, s)) \/ Change(j, S)
            \/ \E c \in Calls : Change(j, [J EXCEPT !.pc = c])
            \/ Change(j, U) \/ Change(j, Placed(U, s))
  <2>1. CASE Rename(j) \/ Open(j) \/ Unlink(j) \/ FsError(j) \/ PathRefused(j)
    BY <2>1 DEF Rename, Open, Unlink, FsError, PathRefused, At, Entering
  <2>2. CASE StreamEnds(j)
    <3> DEFINE c == CASE J.replace -> "put"
                      [] ~J.replace /\ spec[j].hardLinks -> "link"
                      [] ~J.replace /\ ~spec[j].hardLinks -> "relook"
    <3>1. Change(j, [J EXCEPT !.pc = c]) /\ J.pc \notin Entering
      BY <2>2 DEF StreamEnds, At, Entering
    <3>2. c \in Calls
      BY DEF Calls
    <3> QED  BY <3>1, <3>2
  <2>3. CASE StreamStops(j)
    BY <2>3 DEF StreamStops
  <2>4. CASE Link(j) \/ Relook(j) \/ Put(j)
    BY <2>4 DEF Link, Relook, Put, AfterWrite, At, Entering, Calls
  <2> QED  BY <2>1, <2>2, <2>3, <2>4
<1>4. /\ DOMAIN C = Fields /\ C.always = J.always /\ C.i = J.i /\ C.result = J.result
      /\ C.answers = A /\ C.placed = J.placed /\ C.skipped = J.skipped
  BY <1>2 DEF Books, Fields, Cleaned
<1>10. /\ DOMAIN U = Fields /\ U.always = J.always /\ U.i = J.i /\ U.result = J.result
      /\ U.answers = A /\ U.placed = J.placed /\ U.skipped = J.skipped /\ U.pc = "unlink"
  BY <1>2 DEF Books, Fields, Cleaned
<1>11. /\ DOMAIN S = Fields /\ S.always = J.always /\ S.i = J.i /\ S.result = J.result
      /\ S.answers = A /\ S.placed = J.placed /\ S.skipped = J.skipped /\ S.pc = "stream"
  BY <1>2 DEF Books, Fields
<1> HIDE DEF C, U, S
<1>5. Books(C, A) /\ C.answers = A
  BY <1>2, <1>4, SameBooks
<1>6. CASE Change(j, Thrown(J)) \/ Change(j, Thrown(C))
  <2>1. Leads(J, Thrown(J), n, A) /\ Leads(C, Thrown(C), n, A)
    BY <1>2, <1>5, ThrownLeads
  <2> QED  BY <1>1, <1>5, <1>6, <2>1, LeadsStep DEF Leads
<1>7. ASSUME J.pc \notin Entering, Works(J, n, A),
             \/ Change(j, refuseEntry(J, s)) \/ Change(j, Write(J)) \/ Change(j, Failed(J, s))
             \/ Change(j, Placed(J, s)) \/ \E c \in Calls : Change(j, [J EXCEPT !.pc = c])
      PROVE  EntriesSettled'
  <2>1. /\ Leads(J, refuseEntry(J, s), n, A) /\ Leads(J, Failed(J, s), n, A)
    BY <1>2, <1>7, RefuseLeads, FailedLeads
  <2>2. Leads(J, Write(J), n, A) /\ Leads(J, Placed(J, s), n, A)
    BY <1>2, <1>7, WriteLeads, PlacedLeads
  <2>3. \A c \in Calls : Leads(J, [J EXCEPT !.pc = c], n, A)
    BY <1>2, <1>7, CallLeads
  <2> QED  BY <1>1, <1>7, <2>1, <2>2, <2>3, LeadsStep DEF Leads
<1>8. ASSUME J.pc \notin Entering, Works(J, n, A),
             Change(j, S) \/ Change(j, U) \/ Change(j, Placed(U, s))
      PROVE  EntriesSettled'
  <2>1. Works(S, n, A) /\ S.answers = A /\ S.pc \notin {"asking", "ended"} /\ S.pc \notin Entering
    BY <1>11, <1>8, SameWorks DEF Calls, Entering
  <2>2. Works(U, n, A) /\ U.answers = A /\ U.pc \notin {"asking", "ended"} /\ U.pc \notin Entering
    BY <1>10, <1>8, SameWorks DEF Calls, Entering
  <2>3. Keeps(S, n, S.answers) /\ Keeps(U, n, U.answers)
    BY <2>1, <2>2 DEF Keeps, Works
  <2>4. Leads(U, Placed(U, s), n, A)
    BY <1>2, <2>2, PlacedLeads
  <2> QED  BY <1>1, <1>8, <2>2, <2>3, <2>4, LeadsStep DEF Leads
<1> QED  BY <1>2, <1>3, <1>6, <1>7, <1>8

\* An answer: what the user has said grows by it before the runner acts on it.
LEMMA DecideSettles ==
    ASSUME IInv, EntriesSettled, NEW j \in Jobs, NEW q \in seen[j], NEW choice \in Choices,
           NEW all \in BOOLEAN, Decide(j, q, choice, all)
    PROVE  EntriesSettled'
<1> DEFINE J == job[j]
           n == Entries(j)
           s == spec[j]
           R == [J EXCEPT !.always[q.class] = IF all /\ q.class # "fs-error" THEN choice ELSE @]
           K == Answered(R, s, q.class, choice)
           a == [entry |-> q.entry, class |-> q.class, choice |-> choice, all |-> all]
           A == J.answers \cup {a}
           L == [K EXCEPT !.answers = @ \cup {a}]
<1>1. /\ Shape(J, n) /\ Sound(J, n) /\ n \in Nat /\ n = Len(s.sources) /\ q # NoQuestion
      /\ Keeps(J, n, J.answers) /\ UNCHANGED spec
  BY Parts DEF Entries, EntriesSettled, Decide
<1>2. J.pending = q /\ decide(J, s, q, choice, all) = K
  BY DEF Decide, decide
<1>3. J.pc = "asking"
  BY <1>1, <1>2 DEF Sound, Asks
<1>4. Change(j, L)
  BY <1>2 DEF Decide
<1>5. a.entry = J.i /\ a.class = q.class /\ a.choice = choice /\ a.all = all /\ q.class \in QuestionClass
  BY <1>1, <1>2, <1>3 DEF Keeps
<1>6. SettledTo(J, J.answers, J.i - 1) /\ J.result = "none" /\ Books(J, J.answers)
      /\ J.i \in 0 .. n /\ J.again \in Calls
  BY <1>1, <1>3 DEF Keeps, Entering, Shape
<1>7. /\ DOMAIN R = Fields /\ R.i = J.i /\ R.result = J.result
      /\ R.answers = J.answers /\ R.placed = J.placed /\ R.skipped = J.skipped
      /\ R.again = J.again
      /\ R.always = [J.always EXCEPT ![q.class] = IF all /\ q.class # "fs-error" THEN choice ELSE @]
  BY <1>6 DEF Books, Fields
<1> HIDE DEF R, a
<1>8. \A c, i : SaidSkip(J.answers, c, i) => SaidSkip(A, c, i)
  BY DEF SaidSkip
<1>9. choice = "skip" => SaidSkip(A, q.class, J.i)
  BY <1>5 DEF SaidSkip
<1>10. Books(R, A)
  <2>1. R.always \in [QuestionClass -> Choices \cup {"none"}]
    BY <1>5, <1>6, <1>7 DEF Books
  <2>2. ASSUME NEW c \in QuestionClass \ {"fs-error"}, R.always[c] = "skip", NEW i
        PROVE  SaidSkip(A, c, i)
    <3>1. CASE c = q.class /\ all
      <4>1. choice = "skip"
        BY <1>5, <1>6, <1>7, <2>2, <3>1 DEF Books
      <4> QED  BY <1>5, <2>2, <3>1, <4>1 DEF SaidSkip
    <3>2. CASE ~(c = q.class /\ all)
      <4>1. J.always[c] = "skip"
        BY <1>5, <1>6, <1>7, <2>2, <3>2 DEF Books
      <4> QED  BY <1>6, <1>8, <2>2, <4>1 DEF Books
    <3> QED  BY <3>1, <3>2
  <2> QED  BY <1>7, <2>1, <2>2 DEF Books
<1>11. Works(R, n, A)
  <2>1. SettledTo(R, A, R.i - 1)
    BY <1>6, <1>7, <1>8 DEF SettledTo, Settled
  <2> QED  BY <1>6, <1>7, <1>10, <2>1 DEF Works
<1>12. Keeps(K, n, A) /\ K.answers = J.answers
  <2> HIDE DEF A
  <2>1. Leads(R, K, n, A)
    BY <1>1, <1>5, <1>6, <1>7, <1>9, <1>11, AnsweredLeads
  <2> QED  BY <1>7, <2>1 DEF Leads
<1> HIDE DEF K
<1>13. /\ DOMAIN L = Fields /\ L.answers = A /\ L.i = K.i /\ L.always = K.always /\ L.pc = K.pc
       /\ L.pending = K.pending /\ L.result = K.result /\ L.placed = K.placed
       /\ L.skipped = K.skipped
  BY <1>12 DEF Keeps, Books, Fields
<1> HIDE DEF L, A
<1>14. Keeps(L, n, L.answers)
  BY <1>12, <1>13, SameBooks, SameSettled DEF Keeps
<1> QED  BY <1>1, <1>4, <1>14, LeadsStep

\* The manager's other steps: no entry is settled by them and none is forgotten.
LEMMA ManagerSettles ==
    ASSUME IInv, EntriesSettled, UNCHANGED spec,
           \A j \in Jobs : Keeps(job'[j], Entries(j), job'[j].answers)
    PROVE  EntriesSettled'
BY DEF EntriesSettled, Entries

LEMMA CancelSettles ==
    ASSUME IInv, EntriesSettled,
           \/ \E j \in Jobs : Cancel(j) \/ AwaitTimeout(j)
           \/ \E session : CloseSession(session)
           \/ Dispose
    PROVE  EntriesSettled'
<1>1. ASSUME NEW j \in Jobs
      PROVE  Keeps(job'[j], Entries(j), job'[j].answers)
  <2> DEFINE J == job[j]
             R == [J EXCEPT !.known = FALSE]
             n == Entries(j)
  <2>1. n \in Nat /\ Keeps(J, n, J.answers)
    BY Parts DEF EntriesSettled
  <2>2. job'[j] \in {J, Cancelled(J), R, Cancelled(R)}
    BY DEF Cancel, AwaitTimeout, CloseSession, Dispose, Change, IInv
  <2>3. /\ DOMAIN R = Fields /\ R.answers = J.answers /\ R.i = J.i /\ R.always = J.always
        /\ R.pc = J.pc /\ R.pending = J.pending /\ R.result = J.result /\ R.placed = J.placed
        /\ R.skipped = J.skipped
    BY <2>1 DEF Keeps, Books, Fields
  <2> HIDE DEF R
  <2>4. Keeps(R, n, R.answers)
    BY <2>1, <2>3, SameBooks, SameSettled DEF Keeps
  <2>5. Leads(J, Cancelled(J), n, J.answers) /\ Leads(R, Cancelled(R), n, R.answers)
    BY <2>1, <2>4, CancelledLeads
  <2> QED  BY <2>1, <2>2, <2>4, <2>5 DEF Leads
<1>2. UNCHANGED spec
  BY DEF Cancel, AwaitTimeout, CloseSession, Dispose
<1> QED  BY <1>1, <1>2, ManagerSettles

LEMMA ClockSettles ==
    ASSUME IInv, EntriesSettled,
           \/ \E j \in Jobs : Start(j) \/ Retire(j)
           \/ Tick \/ UNCHANGED vars
    PROVE  EntriesSettled'
<1>1. ASSUME NEW j \in Jobs
      PROVE  Keeps(job'[j], Entries(j), job'[j].answers)
  <2> DEFINE J == job[j]
             n == Entries(j)
             S == [J EXCEPT !.known = TRUE, !.state = "running", !.pc = "validate"]
             R == [J EXCEPT !.known = FALSE]
             T == [J EXCEPT !.left = @ - 1, !.awaited = @ + 1]
  <2>1. n \in Nat /\ Keeps(J, n, J.answers)
    BY Parts DEF EntriesSettled
  <2>2. job'[j] \in {J, R, T} \/ (J.pc = "idle" /\ job'[j] = S)
    <3>1. ASSUME NEW k \in Jobs, Start(k) PROVE job'[j] = J \/ (J.pc = "idle" /\ job'[j] = S)
      BY <3>1 DEF Start, Change, IInv, At
    <3>2. ASSUME NEW k \in Jobs, Retire(k) PROVE job'[j] \in {J, R}
      BY <3>2 DEF Retire, Change, IInv
    <3>3. CASE Tick
      BY <3>3 DEF Tick
    <3>4. CASE UNCHANGED vars
      BY <3>4 DEF vars
    <3> QED  BY <3>1, <3>2, <3>3, <3>4
  <2>3. /\ DOMAIN R = Fields /\ R.answers = J.answers /\ R.i = J.i /\ R.always = J.always
        /\ R.pc = J.pc /\ R.pending = J.pending /\ R.result = J.result /\ R.placed = J.placed
        /\ R.skipped = J.skipped
    BY <2>1 DEF Keeps, Books, Fields
  <2>4. /\ DOMAIN T = Fields /\ T.answers = J.answers /\ T.i = J.i /\ T.always = J.always
        /\ T.pc = J.pc /\ T.pending = J.pending /\ T.result = J.result /\ T.placed = J.placed
        /\ T.skipped = J.skipped
    BY <2>1 DEF Keeps, Books, Fields
  <2>5. /\ DOMAIN S = Fields /\ S.answers = J.answers /\ S.always = J.always
        /\ S.pc = "validate" /\ S.result = J.result /\ S.placed = J.placed /\ S.skipped = J.skipped
    BY <2>1 DEF Keeps, Books, Fields
  <2> HIDE DEF R, S, T
  <2>6. Keeps(R, n, R.answers) /\ Keeps(T, n, T.answers)
    BY <2>1, <2>3, <2>4, SameBooks, SameSettled DEF Keeps
  <2>7. J.pc = "idle" => Keeps(S, n, S.answers)
    BY <2>1, <2>5, SameBooks DEF Keeps, Entering
  <2> QED  BY <2>1, <2>2, <2>6, <2>7
<1>2. UNCHANGED spec
  BY DEF Start, Retire, Tick, vars
<1> QED  BY <1>1, <1>2, ManagerSettles

LEMMA InitSettled == ASSUME Init PROVE EntriesSettled
<1>1. ASSUME NEW j \in Jobs PROVE Keeps(job[j], Entries(j), job[j].answers)
  <2>1. job[j] = newJob
    BY DEF Init
  <2>2. Books(newJob, newJob.answers)
    BY DEF Books, newJob, Fields
  <2> QED  BY <2>1, <2>2 DEF Keeps, newJob, Entering
<1> QED  BY <1>1 DEF EntriesSettled

LEMMA NextSettles == ASSUME IInv, EntriesSettled, [Next]_vars PROVE EntriesSettled'
<1>1. ASSUME NEW j \in Jobs, Runner(j) \/ FsError(j) \/ PathRefused(j) PROVE EntriesSettled'
  BY <1>1, EnteringSettles, LookSettles, WritingSettles DEF Runner
<1>2. ASSUME NEW j \in Jobs, NEW q \in seen[j],
             NEW choice \in {"skip", "retry", "rename", "overwrite"}, NEW all \in BOOLEAN,
             Decide(j, q, choice, all)
      PROVE  EntriesSettled'
  BY <1>2, DecideSettles DEF Choices
<1>3. CASE \E session : CloseSession(session)
  BY <1>3, CancelSettles
<1>4. ASSUME NEW j \in Jobs, Cancel(j) \/ AwaitTimeout(j) PROVE EntriesSettled'
  BY <1>4, CancelSettles
<1>5. CASE Dispose
  BY <1>5, CancelSettles
<1>6. ASSUME NEW j \in Jobs, Start(j) \/ Retire(j) PROVE EntriesSettled'
  BY <1>6, ClockSettles
<1>7. CASE Tick \/ UNCHANGED vars
  BY <1>7, ClockSettles
<1> QED  BY <1>1, <1>2, <1>3, <1>4, <1>5, <1>6, <1>7 DEF Next

LEMMA SpecStays == ASSUME [Next]_vars PROVE UNCHANGED spec
<1>1. ASSUME NEW j \in Jobs, Runner(j) PROVE UNCHANGED spec
  <2>1. CASE Scan(j) \/ Look(j) \/ Name(j) \/ Rename(j) \/ \E allowed \in BOOLEAN : Validated(j, allowed)
    BY <2>1 DEF Scan, Look, Name, Rename, Validated
  <2>2. CASE Open(j) \/ StreamEnds(j) \/ StreamStops(j)
    BY <2>2 DEF Open, StreamEnds, StreamStops
  <2>3. CASE Link(j) \/ Relook(j) \/ Put(j) \/ Unlink(j)
    BY <2>3 DEF Link, Relook, Put, Unlink
  <2> QED  BY <1>1, <2>1, <2>2, <2>3 DEF Runner
<1>2. ASSUME NEW j \in Jobs, Start(j) \/ Cancel(j) \/ AwaitTimeout(j) \/ Retire(j) PROVE UNCHANGED spec
  BY <1>2 DEF Start, Cancel, AwaitTimeout, Retire
<1>3. ASSUME NEW j \in Jobs, FsError(j) \/ PathRefused(j) PROVE UNCHANGED spec
  BY <1>3 DEF FsError, PathRefused
<1>4. ASSUME NEW j, NEW q, NEW choice, NEW all, Decide(j, q, choice, all) PROVE UNCHANGED spec
  BY <1>4 DEF Decide
<1>5. ASSUME NEW session, CloseSession(session) PROVE UNCHANGED spec
  BY <1>5 DEF CloseSession
<1>6. CASE Tick \/ Dispose \/ UNCHANGED vars
  BY <1>6 DEF Tick, Dispose, vars
<1> QED  BY <1>1, <1>2, <1>3, <1>4, <1>5, <1>6 DEF Next

\* FR-FOP-004 AC-8: a job that is told completed has placed or removed every entry, but for
\* those the user told it to skip, that one or all of its kind; whatever it was asked, however
\* often it tried again, and whatever other jobs did to the files (the loops over the entries
\* and ask of fileJobRunner.ts, decide of fileJobManager.ts).
THEOREM CompletedIsDone == Spec => []CompletedAsAsked
<1>1. EntriesSettled /\ spec \in Specs => CompletedAsAsked
  <2> SUFFICES ASSUME EntriesSettled, spec \in Specs, NEW j \in Jobs, job[j].result = "completed",
                      NEW i \in DOMAIN spec[j].sources
               PROVE  \/ i \in job[j].placed
                      \/ \E x \in job[j].skipped, a \in job[j].answers :
                            /\ x.entry = i /\ a.choice = "skip" /\ a.class = x.class
                            /\ a.entry = i \/ (a.all /\ x.class # "fs-error")
    BY DEF CompletedAsAsked
  <2>1. SettledTo(job[j], job[j].answers, Entries(j))
    BY DEF EntriesSettled, Keeps
  <2>2. spec[j] \in FileJobSpec
    BY FileJobAssumption
  <2>3. spec[j].sources \in Seq(Paths)
    BY <2>2 DEF FileJobSpec
  <2>4. i \in 1 .. Entries(j)
    BY <2>3 DEF Entries
  <2>5. Settled(job[j], job[j].answers, i)
    BY <2>1, <2>4 DEF SettledTo
  <2> QED  BY <2>5 DEF Settled, SaidSkip
<1>2. IInv /\ EntriesSettled /\ [Next]_vars => IInv' /\ EntriesSettled'
  BY NextKept, NextSettles DEF StepKept
<1>3. Init => IInv /\ EntriesSettled /\ spec \in Specs
  BY InitSound, InitSettled DEF Init
<1>4. spec \in Specs /\ [Next]_vars => (spec \in Specs)'
  <2>1. [Next]_vars => spec' = spec
    BY SpecStays
  <2> QED  BY <2>1
<1> QED  BY <1>1, <1>2, <1>3, <1>4, PTL DEF Spec
=============================================================================
