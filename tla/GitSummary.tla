------------------------------ MODULE GitSummary ------------------------------
(***************************************************************************)
(* The summary of a repository that is kept while its file watch is quiet  *)
(* (GitService.computeSummary in server/src/services/git/GitService.ts).   *)
(* Sessions ask for the summary of the folder they are in; all folders are *)
(* of one repository and share its watch.  The content of the repository   *)
(* is a version that every change raises.                                  *)
(***************************************************************************)
EXTENDS Naturals

CONSTANTS
    GitSessions,
    Folder,         \* session -> its folder
    MaxChanges,     \* bound of the model: changes of the repository
    MaxWatches      \* bound of the model: watches, the first included

Folders == {Folder[s] : s \in GitSessions}
NoSummary == 0

VARIABLES
    version,        \* of the repository's content: 1, 2, ...
    unreported,     \* a change whose event has not reached the watch
    watch,          \* the WatchEntry and the RepoWatch in it
    status,         \* folder -> the git status process under way, which sessions share
    asked           \* session -> its computeSummary under way

summaryVars == <<version, unreported, watch, status, asked>>

NoStatus == [runs |-> FALSE, read |-> NoSummary]
NotAsked == [at |-> "idle", watch |-> 0, generation |-> 0, read |-> NoSummary]
NewWatch(id) == [id |-> id, changed |-> FALSE, failed |-> FALSE, generation |-> 0,
                 results |-> [f \in Folders |-> NoSummary]]

SummaryInit ==
    /\ version = 1
    /\ unreported = FALSE
    /\ watch = NewWatch(1)
    /\ status = [f \in Folders |-> NoStatus]
    /\ asked = [s \in GitSessions |-> NotAsked]

-----------------------------------------------------------------------------
\* Somebody changes a file of the repository.
Change ==
    /\ version <= MaxChanges
    /\ version' = version + 1
    /\ unreported' = TRUE
    /\ UNCHANGED <<watch, status, asked>>

\* The event of the changes reaches the watch.
Report ==
    /\ unreported
    /\ unreported' = FALSE
    /\ watch' = [watch EXCEPT !.changed = TRUE]
    /\ UNCHANGED <<version, status, asked>>

\* The watch fails: it answers that something changed until it is replaced.
WatchFails ==
    /\ watch.id < MaxWatches
    /\ watch' = [watch EXCEPT !.failed = TRUE]
    /\ UNCHANGED <<version, unreported, status, asked>>

\* watchFor: a watch that failed is replaced.  A new one sees only what changes from now on.
CurrentWatch == IF watch.failed THEN NewWatch(watch.id + 1) ELSE watch

\* Mutant of TakeChanged: the results are dropped and the generation stays.
ClearResults(w) ==
    IF w.changed THEN [w EXCEPT !.changed = FALSE, !.results = [f \in Folders |-> NoSummary]]
    ELSE w

TakeChanged(w) ==
    IF w.changed
    THEN [w EXCEPT !.changed = FALSE, !.generation = @ + 1,
                   !.results = [f \in Folders |-> NoSummary]]
    ELSE w

\* computeSummary up to the git status, which an identical one under way stands in for.  A
\* kept summary may be too old to be used (WATCH_TRUST_MS).
AskSummary(s) ==
    LET f == Folder[s]
        w == TakeChanged(CurrentWatch)
    IN  /\ asked[s].at = "idle"
        /\ unreported' = (unreported /\ ~watch.failed)
        /\ \/ /\ w.results[f] # NoSummary
              /\ watch' = w
              /\ UNCHANGED <<status, asked>>
           \/ /\ watch' = [w EXCEPT !.results[f] = NoSummary]
              /\ asked' = [asked EXCEPT ![s] = [at |-> "status", watch |-> w.id,
                                                generation |-> w.generation, read |-> NoSummary]]
              /\ status' = [status EXCEPT ![f].runs = TRUE]
        /\ UNCHANGED version

\* git status looks at the files.
ReadFiles(f) ==
    /\ status[f].runs /\ status[f].read = NoSummary
    /\ status' = [status EXCEPT ![f].read = version]
    /\ UNCHANGED <<version, unreported, watch, asked>>

Sharing(f) == {s \in GitSessions : Folder[s] = f /\ asked[s].at = "status"}

\* The process ends: whoever shares it goes on.  It may also fail or time out.
StatusEnds(f) ==
    /\ status[f].read # NoSummary
    /\ status' = [status EXCEPT ![f] = NoStatus]
    /\ asked' = [s \in GitSessions |->
                    IF s \in Sharing(f) THEN [asked[s] EXCEPT !.at = "lookups", !.read = status[f].read]
                    ELSE asked[s]]
    /\ UNCHANGED <<version, unreported, watch>>

StatusFails(f) ==
    /\ status[f].runs
    /\ status' = [status EXCEPT ![f] = NoStatus]
    /\ asked' = [s \in GitSessions |-> IF s \in Sharing(f) THEN NotAsked ELSE asked[s]]
    /\ UNCHANGED <<version, unreported, watch>>

\* The watch is the one the summary began with and no change was taken since then.
MayKeep(a) == a.watch = watch.id /\ a.generation = watch.generation

\* The lookups beside the status are there: the summary is answered, and kept if it may be.
KeepSummary(s) ==
    /\ asked[s].at = "lookups"
    /\ watch' = IF MayKeep(asked[s])
                THEN [watch EXCEPT !.results[Folder[s]] = asked[s].read] ELSE watch
    /\ asked' = [asked EXCEPT ![s] = NotAsked]
    /\ UNCHANGED <<version, unreported, status>>

SummaryNext ==
    \/ Change \/ Report \/ WatchFails
    \/ \E s \in GitSessions : AskSummary(s) \/ KeepSummary(s)
    \/ \E f \in Folders : ReadFiles(f) \/ StatusEnds(f) \/ StatusFails(f)

SummarySpec == SummaryInit /\ [][SummaryNext]_summaryVars

-----------------------------------------------------------------------------
\* While the watch has seen nothing in the working tree, the kept summary is still right: it
\* is of the repository as it is now, unless a change waits to be reported or taken.  Sessions
\* that share a folder break it: the second may join a git status that began before the change.
KeptIsRight ==
    ~unreported /\ ~watch.changed /\ ~watch.failed
    => \A f \in Folders : watch.results[f] \in {NoSummary, version}

=============================================================================
