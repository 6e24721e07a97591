------------------------------ MODULE GitRunner ------------------------------
(***************************************************************************)
(* The git commands of the server (createGitRunner in                      *)
(* server/src/services/git/gitRunner.ts): maxGlobal run at a time, and     *)
(* maxPerRepo in one repository; the others wait.  A request that allows   *)
(* it shares the command of an identical request that is under way.        *)
(***************************************************************************)
EXTENDS Naturals, Sequences, FiniteSets, SequencesExt

CONSTANTS
    GitRequests,    \* requests for a command, each made once
    RepoKey,        \* request -> its repository
    JoinKey,        \* request -> what it asks for, or NoKey when it shares nothing
    NoKey,
    maxGlobal,
    maxPerRepo

Repos == {RepoKey[r] : r \in GitRequests}

ASSUME GitRunnerAssumption ==
    /\ maxGlobal \in Nat \ {0} /\ maxPerRepo \in Nat \ {0}
    /\ \A q, r \in GitRequests : JoinKey[q] = JoinKey[r] /\ JoinKey[q] # NoKey
                                 => RepoKey[q] = RepoKey[r]

VARIABLES
    stage,      \* request -> "new", "waiting", "running", "joined" or "answered"
    active,     \* commands that run
    perRepo,    \* repository -> commands that run in it
    waiting,    \* requests that wait for a slot, the oldest first
    pumpAt      \* where pump() looks in `waiting', or 0; nothing else happens meanwhile

gitVars == <<stage, active, perRepo, waiting, pumpAt>>

\* Mutant of canStart: the last slot is given twice.
canStartOneMore(k) == active <= maxGlobal /\ perRepo[k] < maxPerRepo

canStart(k) == active < maxGlobal /\ perRepo[k] < maxPerRepo

\* The requests of the same key whose command is under way: inFlight has it.
InFlight(r) == {q \in GitRequests : JoinKey[q] = JoinKey[r] /\ JoinKey[r] # NoKey
                                    /\ stage[q] \in {"waiting", "running"}}

GitInit ==
    /\ stage = [r \in GitRequests |-> "new"]
    /\ active = 0
    /\ perRepo = [k \in Repos |-> 0]
    /\ waiting = <<>>
    /\ pumpAt = 0

Occupy(r) ==
    /\ stage' = [stage EXCEPT ![r] = "running"]
    /\ active' = active + 1
    /\ perRepo' = [perRepo EXCEPT ![RepoKey[r]] = @ + 1]

-----------------------------------------------------------------------------
IsAsked(r) == pumpAt = 0 /\ stage[r] = "new"

\* The request shares the command of another.
Join(r) ==
    /\ IsAsked(r) /\ InFlight(r) # {}
    /\ stage' = [stage EXCEPT ![r] = "joined"]
    /\ UNCHANGED <<active, perRepo, waiting, pumpAt>>

StartNow(r) ==
    /\ IsAsked(r) /\ InFlight(r) = {} /\ canStart(RepoKey[r])
    /\ Occupy(r)
    /\ UNCHANGED <<waiting, pumpAt>>

Wait(r) ==
    /\ IsAsked(r) /\ InFlight(r) = {} /\ ~canStart(RepoKey[r])
    /\ stage' = [stage EXCEPT ![r] = "waiting"]
    /\ waiting' = Append(waiting, r)
    /\ UNCHANGED <<active, perRepo, pumpAt>>

\* Mutants of FirstToPump: the one that came last is served first; release does not pump.
LastToPump == Len(waiting)
NoPump == 0

FirstToPump == 1

\* The command ends, fails or times out: whoever shared it is answered too, and the slot
\* is released.
End(r) ==
    /\ pumpAt = 0 /\ stage[r] = "running"
    /\ stage' = [q \in GitRequests |->
                    IF q = r \/ (stage[q] = "joined" /\ JoinKey[q] = JoinKey[r])
                    THEN "answered" ELSE stage[q]]
    /\ active' = active - 1
    /\ perRepo' = [perRepo EXCEPT ![RepoKey[r]] = @ - 1]
    /\ pumpAt' = FirstToPump
    /\ UNCHANGED waiting

\* pump: the next of those that wait starts if it can.
PumpStart ==
    /\ pumpAt \in DOMAIN waiting
    /\ canStart(RepoKey[waiting[pumpAt]])
    /\ Occupy(waiting[pumpAt])
    /\ waiting' = RemoveAt(waiting, pumpAt)
    /\ UNCHANGED pumpAt

PastBlocked == pumpAt + 1

PumpPass ==
    /\ pumpAt \in DOMAIN waiting
    /\ ~canStart(RepoKey[waiting[pumpAt]])
    /\ pumpAt' = PastBlocked
    /\ UNCHANGED <<stage, active, perRepo, waiting>>

PumpDone ==
    /\ pumpAt > Len(waiting)
    /\ pumpAt' = 0
    /\ UNCHANGED <<stage, active, perRepo, waiting>>

GitNext ==
    \/ \E r \in GitRequests : Join(r) \/ StartNow(r) \/ Wait(r) \/ End(r)
    \/ PumpStart \/ PumpPass \/ PumpDone

GitSpec == GitInit /\ [][GitNext]_gitVars

\* A command ends within its time limit, and pump() runs to its end.
GitFairness ==
    /\ \A r \in GitRequests : WF_gitVars(End(r))
    /\ WF_gitVars(PumpStart \/ PumpPass \/ PumpDone)

-----------------------------------------------------------------------------
Running(k) == {r \in GitRequests : stage[r] = "running" /\ RepoKey[r] = k}

GitTypeOK ==
    /\ stage \in [GitRequests -> {"new", "waiting", "running", "joined", "answered"}]
    /\ active \in Nat
    /\ perRepo \in [Repos -> Nat]
    /\ waiting \in Seq(GitRequests)
    /\ pumpAt \in Nat

\* The counters say what runs: a slot is neither lost nor given twice, so no more commands
\* run than the limits allow, whatever order they end in.
GitLimits ==
    /\ active = Cardinality({r \in GitRequests : stage[r] = "running"})
    /\ active <= maxGlobal
    /\ \A k \in Repos : perRepo[k] = Cardinality(Running(k)) /\ perRepo[k] <= maxPerRepo

\* Nobody waits for a slot that is free: pump() has passed the blocked commands of one
\* repository and started what waits behind them.
GitNoneIdle ==
    pumpAt = 0 => \A i \in DOMAIN waiting : ~canStart(RepoKey[waiting[i]])

\* Every slot is used and none twice: both of the above.
SlotsWellUsed == GitLimits /\ GitNoneIdle

\* The commands of one repository start in the order they were asked for.
GitInOrder ==
    [][\A r \in GitRequests : stage[r] # "running" /\ stage'[r] = "running"
        => \A i \in DOMAIN waiting :
              RepoKey[waiting[i]] = RepoKey[r]
              => \E j \in 1 .. i : waiting[j] = r]_gitVars

\* Every request is answered, also one that shares the command of another.
GitAnswered ==
    \A r \in GitRequests :
        stage[r] \in {"waiting", "running", "joined"} ~> stage[r] = "answered"
=============================================================================
